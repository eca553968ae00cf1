------------------------- MODULE PeerManager_proofs -------------------------
(***************************************************************************)
(* Proofs about the peer manager over the flash data storage: its steps    *)
(* are steps of the storage, whose invariant so holds below it, and what   *)
(* its agendas, its buffers and its ranks wait for is in the queue of fds, *)
(* for any number of peers, buffers, pages and power cuts, until fstorage  *)
(* gives an operation up.  The last section is about the storage below when*)
(* it does: Fds keeps its types in every behaviour.                        *)
(***************************************************************************)
EXTENDS PeerManager, Fds_proofs

\* What a context has still to do: a cleaning of the flash comes before the
\* rest, and its assignment to flash_cleaning right after fds_gc.
Contexts == {"idle", "event"}
Deletes == {"deletes", "next", "find", "file", "free", "unmark", "defer"}
Todos == [do : {"store", "rank", "full", "gc", "cleaning", "deferred"} \union Deletes, arg : Nat]
Fits(x) ==
    /\ x.do \in {"rank", "find", "file"} => x.arg \in Files
    /\ x.do = "store" => x.arg \in 1 .. Buffers
Plain(a) ==
    /\ a \in Seq(Todos)
    /\ \A i \in 1 .. Len(a) : Fits(a[i]) /\ a[i].do \in {"store", "rank", "deferred"}
Shaped(a) ==
    /\ a \in Seq(Todos)
    /\ \A i \in 1 .. Len(a) :
        /\ Fits(a[i])
        /\ a[i].do \in {"full", "cleaning"} \union Deletes => i = 1
        /\ a[i].do = "gc" => i = 1 \/ (i = 2 /\ a[1].do \in Deletes)
Leads(a, do) == a # <<>> /\ a[1].do = do
Has(a, do) == \E i \in 1 .. Len(a) : a[i].do = do
Backed(a, bs) == \A i \in 1 .. Len(a) : a[i].do = "store" => bs[a[i].arg].state # "free"
AgendaOK ==
    /\ agenda \in [Contexts -> Seq(Todos)]
    /\ \A c \in Contexts : Shaped(agenda[c]) /\ Backed(agenda[c], buffers)
    /\ heard \in BOOLEAN /\ (heard => hand = "event")
    /\ ~ heard => agenda.event = <<>>
    /\ Has(agenda.idle, "store") => /\ hand = "idle" /\ Leads(agenda.idle, "store")
                                    /\ ~ Has(Tail(agenda.idle), "store")

\* How far main is, and what it has done by then.
StageOK ==
    /\ stage \in {"off", "load", "erase", "up", "stopped"}
    /\ phase = "off" <=> stage = "off"
    /\ stage \in {"off", "load"} =>
          /\ agenda.idle = <<>> /\ agenda.event = <<>> /\ used = {} /\ deleted = {}
          /\ \A k \in 1 .. Len(queue) : queue[k].code = "init"
    /\ stage = "erase" => \A i \in 1 .. Len(agenda.idle) : agenda.idle[i].do \in Deletes

\* One collection at a time: flash_cleaning is set, or about to be, while one is
\* queued, and cleared when it has ended.
Collects(k) == queue[k].code = "gc" /\ ~ (k = 1 /\ hand = "event")
DeletesFirst ==
    /\ Len(queue) = 1 /\ Op.code = "delete file" /\ Op.step = "flag" /\ tok = TokStart
    /\ DataOf(Op.file) # {}
OneCollects == \A k, l \in 1 .. Len(queue) : Collects(k) /\ Collects(l) => k = l
Cleans ==
    \/ cleaning
    \/ hand = "event" /\ Leads(agenda.event, "cleaning")
    \/ (hand = "idle" \/ (hand = "run" /\ Op.code = "gc")) /\ Leads(agenda.idle, "cleaning")
IdleCleans ==
    \/ hand = "idle" /\ (Leads(agenda.idle, "file") => DataOf(agenda.idle[1].arg) # {})
    \/ hand = "run" /\ DeletesFirst /\ Leads(agenda.idle, "gc")
CollectOK ==
    /\ OneCollects
    /\ hand = "event" /\ ~ heard /\ Op.code = "gc" => ~ Collecting
    /\ Collecting => Cleans
    /\ Has(agenda.event, "gc") => ~ Collecting
    /\ Has(agenda.idle, "gc") => ~ Collecting /\ IdleCleans

\* The record with a token is in the queue, and its event still to come.
Awaited(t) == \E k \in 1 .. Len(queue) :
    IsWriteOp(queue[k]) /\ queue[k].id = t /\ (heard => k # 1)
Buffer == [peer : Files \union {NoPeer}, state : {"free", "new", "sent", "busy", "full"}, token : Nat]
Kept(b) == b \in Buffer /\ (IF b.state = "free" THEN b.token = 0 ELSE b.peer \in Files)
BuffersOK ==
    /\ buffers \in [1 .. Buffers -> Buffer]
    /\ \A b \in 1 .. Buffers : Kept(buffers[b]) /\ (buffers[b].state = "sent" => Awaited(buffers[b].token))
RankInfo == [init : BOOLEAN, token : Nat, top : Files \union {NoPeer}]
RanksOK ==
    /\ ranks \in RankInfo /\ (ranks.token # 0 => Awaited(ranks.token))
    /\ rankQueue \in Seq(Files)
PeersOK == used \subseteq Files /\ deleted \subseteq Files
PeerOK == AgendaOK /\ StageOK /\ CollectOK /\ BuffersOK /\ RanksOK /\ PeersOK

-----------------------------------------------------------------------------
\* Agendas.
LEMMA AgendaEmpty ==
    /\ Plain(<<>>) /\ Shaped(<<>>) /\ Len(<<>>) = 0
    /\ \A bs : Backed(<<>>, bs)
    /\ \A do : ~ Has(<<>>, do) /\ ~ Leads(<<>>, do)
BY DEF Plain, Shaped, Backed, Has, Leads

\* An item of an agenda.
LEMMA ItemFacts ==
    /\ \A do \in {"store", "rank", "full", "gc", "cleaning", "deferred"} \union Deletes, arg \in Nat :
          Item(do, arg) \in Todos /\ Item(do, arg).do = do /\ Item(do, arg).arg = arg
    /\ \A do \in {"full", "gc", "cleaning", "deletes", "deferred"} :
          Done(do) \in Todos /\ Done(do).do = do /\ Fits(Done(do))
BY DEF Item, Done, Todos, Fits, Deletes

\* What is left of an agenda when its first item is done.
LEMMA RestFacts ==
    ASSUME NEW a, Shaped(a), a # <<>>
    PROVE  /\ a \in Seq(Todos) /\ Head(a) = a[1] /\ a[1] \in Todos /\ Fits(a[1]) /\ 1 \in 1 .. Len(a)
           /\ Tail(a) \in Seq(Todos) /\ Len(Tail(a)) = Len(a) - 1 /\ Len(a) \in Nat
           /\ \A i \in 1 .. Len(Tail(a)) : i + 1 \in 1 .. Len(a) /\ Tail(a)[i] = a[i + 1] /\ i + 1 # 1
                                           /\ (i + 1 = 2 => i = 1)
BY DEF Shaped

LEMMA RestShaped ==
    ASSUME NEW a, Shaped(a), a # <<>>
    PROVE  /\ Shaped(Tail(a)) /\ (a[1].do \notin Deletes => Plain(Tail(a)))
           /\ \A i \in 1 .. Len(Tail(a)) : Tail(a)[i].do \notin Deletes
           /\ Has(Tail(a), "gc") => Leads(a, "gc") \/ Leads(Tail(a), "gc")
           /\ \A bs : Backed(a, bs) => Backed(Tail(a), bs)
           /\ \A do : Has(Tail(a), do) => Has(a, do)
<1>1. /\ a \in Seq(Todos) /\ Tail(a) \in Seq(Todos)
      /\ \A i \in 1 .. Len(Tail(a)) : i + 1 \in 1 .. Len(a) /\ Tail(a)[i] = a[i + 1] /\ i + 1 # 1
                                      /\ (i + 1 = 2 => i = 1)
  BY RestFacts
<1>2. \A i \in 1 .. Len(Tail(a)) : /\ Fits(Tail(a)[i]) /\ Tail(a)[i] \in Todos
                                   /\ Tail(a)[i].do \notin {"full", "cleaning"} \union Deletes
                                   /\ Tail(a)[i].do = "gc" => i = 1 /\ a[1].do \in Deletes
  BY <1>1 DEF Shaped
<1>3. Shaped(Tail(a))
  BY <1>1, <1>2 DEF Shaped
<1>4. a[1].do \notin Deletes => Plain(Tail(a))
  BY <1>1, <1>2 DEF Plain, Todos
<1>5. \A bs : Backed(a, bs) => Backed(Tail(a), bs)
  BY <1>1 DEF Backed
<1>6. \A do : Has(Tail(a), do) => Has(a, do)
  BY <1>1 DEF Has
<1>7. Has(Tail(a), "gc") => Leads(Tail(a), "gc")
  BY <1>1, <1>2 DEF Has, Leads
<1> QED
  BY <1>2, <1>3, <1>4, <1>5, <1>6, <1>7

(* Stores, ranks and the look at what was deferred make an agenda, alone or *)
(* behind another item.                                                     *)
LEMMA PlainFacts ==
    ASSUME NEW a, Plain(a)
    PROVE  /\ Shaped(a) /\ a \in Seq(Todos)
           /\ \A do \in {"full", "gc", "cleaning"} \union Deletes : ~ Has(a, do) /\ ~ Leads(a, do)
<1>1. a \in Seq(Todos) /\ \A i \in 1 .. Len(a) : Fits(a[i]) /\ a[i].do \in {"store", "rank", "deferred"}
  BY DEF Plain
<1>2. a # <<>> => 1 \in 1 .. Len(a)
  BY <1>1
<1> QED
  BY <1>1, <1>2 DEF Shaped, Has, Leads, Deletes

\* Two agendas one after the other.
LEMMA CatFacts ==
    ASSUME NEW s \in Seq(Todos), NEW t \in Seq(Todos)
    PROVE  /\ s \o t \in Seq(Todos) /\ Len(s \o t) = Len(s) + Len(t) /\ Len(s) \in Nat
           /\ \A i \in 1 .. Len(s \o t) : \/ i \in 1 .. Len(s) /\ (s \o t)[i] = s[i]
                                          \/ i - Len(s) \in 1 .. Len(t) /\ (s \o t)[i] = t[i - Len(s)] /\ i > Len(s)
OBVIOUS

LEMMA CatPlain ==
    ASSUME NEW s, NEW t, Plain(s), Plain(t)
    PROVE  /\ Plain(s \o t)
           /\ \A bs : Backed(s, bs) /\ Backed(t, bs) => Backed(s \o t, bs)
<1>1. s \in Seq(Todos) /\ t \in Seq(Todos)
  BY DEF Plain
<1>2. /\ s \o t \in Seq(Todos)
      /\ \A i \in 1 .. Len(s \o t) : \/ i \in 1 .. Len(s) /\ (s \o t)[i] = s[i]
                                     \/ i - Len(s) \in 1 .. Len(t) /\ (s \o t)[i] = t[i - Len(s)]
  BY <1>1, CatFacts
<1> QED
  BY <1>2 DEF Plain, Backed

LEMMA ThenPlain ==
    ASSUME NEW x \in Todos, Fits(x), x.do # "store", NEW s, Plain(s)
    PROVE  /\ Shaped(<<x>> \o s) /\ Leads(<<x>> \o s, x.do)
           /\ \A bs : Backed(s, bs) => Backed(<<x>> \o s, bs)
           /\ \A do : Has(<<x>> \o s, do) => do = x.do \/ Has(s, do)
<1>1. <<x>> \in Seq(Todos) /\ Len(<<x>>) = 1 /\ <<x>>[1] = x /\ s \in Seq(Todos)
  BY DEF Plain
<1> DEFINE a == <<x>> \o s
<1>2. /\ a \in Seq(Todos) /\ a # <<>> /\ a[1] = x
      /\ \A i \in 1 .. Len(a) : (i = 1 /\ a[i] = x) \/ (i - 1 \in 1 .. Len(s) /\ a[i] = s[i - 1])
  BY <1>1
<1> HIDE DEF a
<1>3. Shaped(a)
  BY <1>2 DEF Shaped, Plain, Deletes
<1> QED
  BY <1>2, <1>3 DEF Leads, Backed, Has, a

\* A deletion that goes on to its next call leaves what is behind it.
LEMMA ThenRest ==
    ASSUME NEW x \in Todos, Fits(x), x.do \in Deletes, NEW b, Shaped(b), b # <<>>,
           b[1].do \in Deletes \union {"deferred"}
    PROVE  /\ Shaped(<<x>> \o Tail(b)) /\ Leads(<<x>> \o Tail(b), x.do) /\ (<<x>> \o Tail(b))[1] = x
           /\ \A bs : Backed(b, bs) => Backed(<<x>> \o Tail(b), bs)
           /\ \A do : Has(<<x>> \o Tail(b), do) => do = x.do \/ Has(Tail(b), do)
<1>1. <<x>> \in Seq(Todos) /\ Len(<<x>>) = 1 /\ <<x>>[1] = x /\ Tail(b) \in Seq(Todos)
  BY RestFacts
<1> DEFINE s == Tail(b)
           a == <<x>> \o s
<1>2. /\ a \in Seq(Todos) /\ a # <<>> /\ a[1] = x
      /\ \A i \in 1 .. Len(a) : (i = 1 /\ a[i] = x) \/ (i - 1 \in 1 .. Len(s) /\ a[i] = s[i - 1] /\ i # 1)
  BY <1>1
<1>3. \A i \in 1 .. Len(s) : /\ Fits(s[i]) /\ s[i].do \notin {"full", "cleaning"} \union Deletes
                             /\ s[i].do = "gc" => i = 1
  BY RestFacts DEF Shaped
<1>4. \A bs : Backed(b, bs) => Backed(s, bs)
  BY RestShaped
<1> HIDE DEF s, a
<1>5. Shaped(a)
  <2>1. x.do \notin {"full", "cleaning", "gc", "store"}
    BY DEF Deletes
  <2> QED
    BY <1>2, <1>3, <2>1 DEF Shaped
<1>6. \A bs : Backed(b, bs) => Backed(a, bs)
  <2>1. x.do # "store"
    BY DEF Deletes
  <2> TAKE bs
  <2> SUFFICES ASSUME Backed(s, bs), NEW i \in 1 .. Len(a), a[i].do = "store"
               PROVE  bs[a[i].arg].state # "free"
    BY <1>4 DEF Backed
  <2>2. i - 1 \in 1 .. Len(s) /\ a[i] = s[i - 1]
    BY <1>2, <2>1
  <2> QED
    BY <2>2 DEF Backed
<1> QED
  BY <1>2, <1>5, <1>6 DEF Leads, Has, a, s

LEMMA DeletesThenPlain ==
    ASSUME NEW s, Plain(s)
    PROVE  /\ Shaped(<<Done("deletes"), Done("gc")>> \o s) /\ Leads(<<Done("deletes"), Done("gc")>> \o s, "deletes")
           /\ \A bs : Backed(s, bs) => Backed(<<Done("deletes"), Done("gc")>> \o s, bs)
           /\ \A do : Has(<<Done("deletes"), Done("gc")>> \o s, do) => do \in {"deletes", "gc"} \/ Has(s, do)
<1>1. PICK x, y \in Todos : x = Done("deletes") /\ y = Done("gc") /\ x.do = "deletes" /\ y.do = "gc" /\ Fits(x) /\ Fits(y)
  BY ItemFacts
<1>2. <<x, y>> \in Seq(Todos) /\ Len(<<x, y>>) = 2 /\ <<x, y>>[1] = x /\ <<x, y>>[2] = y /\ s \in Seq(Todos)
  BY DEF Plain
<1> DEFINE a == <<x, y>> \o s
<1>3. /\ a \in Seq(Todos) /\ a # <<>> /\ a[1] = x
      /\ \A i \in 1 .. Len(a) : (i = 1 /\ a[i] = x) \/ (i = 2 /\ a[i] = y) \/ (i - 2 \in 1 .. Len(s) /\ a[i] = s[i - 2])
  BY <1>2
<1> HIDE DEF a
<1>4. Shaped(a)
  BY <1>1, <1>3 DEF Shaped, Plain, Deletes
<1>5. Leads(a, "deletes") /\ (\A bs : Backed(s, bs) => Backed(a, bs))
      /\ \A do : Has(a, do) => do \in {"deletes", "gc"} \/ Has(s, do)
  BY <1>1, <1>3 DEF Leads, Backed, Has
<1> QED
  BY <1>1, <1>4, <1>5 DEF a

\* The buffers the handlers go on with, up to number n.
Tries(bs, full, b) == bs[b].state = "busy" \/ (full /\ bs[b].state = "full")
AddStore(bs, full, s, b) == IF Tries(bs, full, b) THEN Append(s, Item("store", b)) ELSE s
ListsStores(bs, full, f, n) ==
    f = [b \in 0 .. n |-> IF b = 0 THEN <<>> ELSE AddStore(bs, full, f[b - 1], b)]

\* There is a function that lists them.
LEMMA ListsExist ==
    ASSUME NEW bs, NEW full, NEW N \in Nat
    PROVE  \E f : ListsStores(bs, full, f, N)
<1> DEFINE Ups(f, n) == ListsStores(bs, full, f, n)
           S == {n \in Nat : \E f : Ups(f, n)}
<1>1. 0 \in S
  <2> DEFINE f == [k \in 0 .. 0 |-> <<>>]
  <2>1. \A k \in 0 .. 0 : k = 0
    OBVIOUS
  <2>2. f = [k \in 0 .. 0 |-> IF k = 0 THEN <<>> ELSE AddStore(bs, full, f[k - 1], k)]
    BY <2>1
  <2> HIDE DEF f
  <2> QED
    BY <2>2 DEF ListsStores
<1>2. ASSUME NEW n \in Nat, n \in S PROVE n + 1 \in S
  <2>1. PICK f : Ups(f, n)
    BY <1>2
  <2> DEFINE g == [k \in 0 .. n + 1 |-> IF k \in 0 .. n THEN f[k] ELSE AddStore(bs, full, f[n], k)]
             h == [k \in 0 .. n + 1 |-> IF k = 0 THEN <<>> ELSE AddStore(bs, full, g[k - 1], k)]
  <2>2. \A k \in 0 .. n : f[k] = IF k = 0 THEN <<>> ELSE AddStore(bs, full, f[k - 1], k)
    <3> HIDE DEF g, h
    <3> QED
      BY <2>1 DEF ListsStores
  <2>3. \A k \in 0 .. n : g[k] = f[k]
    BY <1>2
  <2>4. g[n + 1] = AddStore(bs, full, f[n], n + 1)
    BY <1>2
  <2>5. \A k \in 0 .. n + 1 : g[k] = h[k]
    <3> SUFFICES ASSUME NEW k \in 0 .. n + 1 PROVE g[k] = h[k]
      OBVIOUS
    <3>1. h[k] = IF k = 0 THEN <<>> ELSE AddStore(bs, full, g[k - 1], k)
      <4> HIDE DEF g
      <4> QED
        OBVIOUS
    <3> HIDE DEF g, h
    <3>2. CASE k = 0
      BY <1>2, <2>2, <2>3, <3>1, <3>2
    <3>3. CASE k \in 1 .. n
      <4>1. k - 1 \in 0 .. n /\ k \in 0 .. n /\ k # 0
        BY <1>2, <3>3
      <4> QED
        BY <2>2, <2>3, <3>1, <4>1
    <3>4. CASE k = n + 1
      <4>1. k # 0 /\ k - 1 = n /\ n \in 0 .. n
        BY <1>2, <3>4
      <4> QED
        BY <2>3, <2>4, <3>1, <3>4, <4>1
    <3> QED
      BY <1>2, <3>2, <3>3, <3>4
  <2>6. g = h
    <3>1. g = [k \in 0 .. n + 1 |-> g[k]] /\ h = [k \in 0 .. n + 1 |-> h[k]]
      OBVIOUS
    <3> HIDE DEF g, h
    <3> QED
      BY <2>5, <3>1
  <2>7. Ups(g, n + 1)
    <3> HIDE DEF g
    <3> QED
      BY <2>6 DEF ListsStores
  <2> HIDE DEF g, h, Ups
  <2> QED
    BY <1>2, <2>7
<1> HIDE DEF Ups
<1>3. N \in S
  <2> HIDE DEF S
  <2> QED
    BY <1>1, <1>2, SetInduction
<1> QED
  BY <1>3 DEF Ups

\* What is listed are stores of buffers that wait for one.
Waiting(bs, s) == \A i \in 1 .. Len(s) :
    s[i].do = "store" /\ s[i].arg \in 1 .. Buffers /\ bs[s[i].arg].state \in {"busy", "full"}
LEMMA StoresFacts ==
    ASSUME NEW bs, NEW full
    PROVE  Plain(Stores(bs, full)) /\ Backed(Stores(bs, full), bs)
<1> DEFINE F == CHOOSE f : ListsStores(bs, full, f, Buffers)
           S == {n \in Nat : n <= Buffers => F[n] \in Seq(Todos) /\ Waiting(bs, F[n])}
<1>1. Buffers \in Nat
  BY PeerConstants
<1>2. ListsStores(bs, full, F, Buffers)
  BY <1>1, ListsExist
<1>3. Stores(bs, full) = F[Buffers]
  BY DEF Stores, ListsStores, AddStore, Tries
<1> HIDE DEF F
<1>4. \A b \in 0 .. Buffers : F[b] = IF b = 0 THEN <<>> ELSE AddStore(bs, full, F[b - 1], b)
  BY <1>2 DEF ListsStores
<1>5. 0 \in S
  <2>1. 0 \in 0 .. Buffers
    BY <1>1
  <2>2. F[0] = <<>>
    BY <1>4, <2>1
  <2>3. <<>> \in Seq(Todos) /\ Waiting(bs, <<>>)
    BY AgendaEmpty DEF Waiting
  <2> QED
    BY <2>2, <2>3
<1>6. ASSUME NEW n \in Nat, n \in S PROVE n + 1 \in S
  <2> SUFFICES ASSUME n + 1 <= Buffers PROVE F[n + 1] \in Seq(Todos) /\ Waiting(bs, F[n + 1])
    OBVIOUS
  <2>1. n + 1 \in 0 .. Buffers /\ n + 1 # 0 /\ (n + 1) - 1 = n /\ n <= Buffers /\ n + 1 \in 1 .. Buffers
    BY <1>1
  <2>2. F[n] \in Seq(Todos) /\ Waiting(bs, F[n])
    BY <1>6, <2>1
  <2>3. F[n + 1] = AddStore(bs, full, F[n], n + 1)
    BY <1>4, <2>1
  <2>4. PICK x \in Todos : x = Item("store", n + 1) /\ x.do = "store" /\ x.arg = n + 1
    BY <2>1, ItemFacts
  <2>5. CASE Tries(bs, full, n + 1)
    <3>1. F[n + 1] = Append(F[n], x)
      BY <2>3, <2>4, <2>5 DEF AddStore
    <3>2. /\ Append(F[n], x) \in Seq(Todos)
          /\ \A i \in 1 .. Len(Append(F[n], x)) : Append(F[n], x)[i] = x \/ (i \in 1 .. Len(F[n]) /\ Append(F[n], x)[i] = F[n][i])
      BY <2>2, <2>4
    <3> QED
      BY <2>1, <2>2, <2>4, <2>5, <3>1, <3>2 DEF Waiting, Tries
  <2>6. CASE ~ Tries(bs, full, n + 1)
    BY <2>2, <2>3, <2>6 DEF AddStore
  <2> QED
    BY <2>5, <2>6
<1>7. F[Buffers] \in Seq(Todos) /\ Waiting(bs, F[Buffers])
  <2>1. Buffers \in S
    <3> HIDE DEF S
    <3> QED
      BY <1>1, <1>5, <1>6, SetInduction
  <2> QED
    BY <1>1, <2>1
<1> QED
  BY <1>3, <1>7 DEF Plain, Backed, Waiting, Fits

(* reattempt_previous_operations with what the head of the agenda asks for  *)
(* left out is part of the agenda.                                          *)
LEMMA AfterStoresFacts ==
    ASSUME NEW s, Plain(s)
    PROVE  /\ Plain(AfterStores(s))
           /\ \A bs : Backed(s, bs) => Backed(AfterStores(s), bs)
           /\ \A do : Has(AfterStores(s), do) => Has(s, do)
<1>1. s \in Seq(Todos) /\ Len(s) \in Nat
  BY DEF Plain
<1> DEFINE M == {i \in 1 .. Len(s) + 1 : i <= Len(s) => s[i].do # "store"}
           m == Min(M)
<1>2. m \in 1 .. Len(s) + 1
  <2>1. M \in SUBSET Nat /\ Len(s) + 1 \in M
    BY <1>1
  <2>2. m \in M
    <3> HIDE DEF M
    <3> QED
      BY <2>1, MinOf
  <2> QED
    BY <2>2
<1>3. AfterStores(s) = SubSeq(s, m, Len(s))
  BY DEF AfterStores
<1> HIDE DEF m
<1>4. /\ SubSeq(s, m, Len(s)) \in Seq(Todos)
      /\ \A i \in 1 .. Len(SubSeq(s, m, Len(s))) :
            i + m - 1 \in 1 .. Len(s) /\ SubSeq(s, m, Len(s))[i] = s[i + m - 1]
  <2>1. m \in 1 .. Len(s) + 1 /\ Len(s) \in Nat
    BY <1>1, <1>2
  <2>2. \A i \in m .. Len(s) : i \in 1 .. Len(s)
    BY <2>1
  <2>3. SubSeq(s, m, Len(s)) \in Seq(Todos)
    BY <1>1, <2>1, <2>2, SubSeqProperties
  <2>4. Len(SubSeq(s, m, Len(s))) = IF m <= Len(s) THEN Len(s) - m + 1 ELSE 0
    BY <1>1, <2>1, <2>2, SubSeqProperties
  <2>5. \A i \in 1 .. Len(s) - m + 1 : SubSeq(s, m, Len(s))[i] = s[m + i - 1]
    BY <1>1, <2>1, <2>2, SubSeqProperties
  <2> QED
    BY <2>1, <2>3, <2>4, <2>5
<1> QED
  BY <1>3, <1>4 DEF Plain, Backed, Has

\* Ranks that wait.
LEMMA RanksPlain ==
    ASSUME NEW q \in Seq(Files)
    PROVE  Plain(Items("rank", q)) /\ \A bs : Backed(Items("rank", q), bs)
<1>1. \A f \in Files : f \in Nat
  BY ConstantsAssumption
<1>2. \A i \in 1 .. Len(q) : /\ q[i] \in Files /\ Item("rank", q[i]) \in Todos
                             /\ Item("rank", q[i]).do = "rank" /\ Item("rank", q[i]).arg = q[i]
  BY <1>1, ItemFacts
<1>3. Len(q) \in Nat
  OBVIOUS
<1> DEFINE a == Items("rank", q)
<1>4. a = [i \in 1 .. Len(q) |-> Item("rank", q[i])]
  BY DEF Items
<1>5. a \in Seq(Todos) /\ Len(a) = Len(q) /\ \A i \in 1 .. Len(a) : a[i] = Item("rank", q[i])
  BY <1>2, <1>3, <1>4
<1> HIDE DEF a
<1> QED
  BY <1>2, <1>5 DEF Plain, Backed, Fits, a

-----------------------------------------------------------------------------
\* What the peer manager reads of the flash.

\* The data of a peer are records of the flash.
LEMMA DataFacts ==
    ASSUME Good, NEW p, NEW k
    PROVE  /\ Data(p, k) \subseteq DataOf(p) /\ DataOf(p) \subseteq Found
           /\ Data(p, k) # {} => /\ First(Data(p, k)) \in Data(p, k)
                                 /\ RecordAt(First(Data(p, k))).id \in Ids
                                 /\ RecordAt(First(Data(p, k))).data \in 1 .. writes
                                 /\ phase = "initialized"
<1>1. Data(p, k) \subseteq DataOf(p) /\ DataOf(p) \subseteq Found
  BY DEF Data, DataOf
<1>2. Data(p, k) \in SUBSET (Nat \X Nat)
  <2>1. \A loc \in Found : loc \in Nat \X Nat
    BY FoundHolds, PhysFacts, FilledRange
  <2> QED
    BY <1>1, <2>1
<1>3. ASSUME Data(p, k) # {}
      PROVE  /\ First(Data(p, k)) \in Data(p, k)
             /\ RecordAt(First(Data(p, k))).id \in Ids
             /\ RecordAt(First(Data(p, k))).data \in 1 .. writes
             /\ phase = "initialized"
  <2>1. First(Data(p, k)) \in Data(p, k)
    BY <1>2, <1>3, FirstOf
  <2>2. PICK loc \in Found : loc = First(Data(p, k))
    BY <1>1, <2>1
  <2>3. /\ phase = "initialized" /\ FlashOK(flash, writes)
        /\ pages[loc[1]].addr \in Phys /\ loc[2] \in Places
        /\ Holds(flash, pages[loc[1]].addr, loc[2])
        /\ RecordAt(loc) = flash[pages[loc[1]].addr].slot[loc[2]]
    BY FoundHolds
  <2>4. RecordAt(loc).data \in 1 .. writes
    BY <2>3 DEF FlashOK, Numbered
  <2> QED
    BY <2>1, <2>2, <2>3, <2>4 DEF Ids
<1> QED
  BY <1>1, <1>3

\* Of peers with numbers as ranks, one is above and one below the others.
LEMMA TopOf ==
    ASSUME NEW S, S # {}, NEW n \in Nat, NEW r, \A p \in S : r[p] \in 1 .. n
    PROVE  /\ \E p \in S : \A q \in S : r[q] <= r[p]
           /\ \E p \in S : \A q \in S : r[p] <= r[q]
<1> DEFINE R == {r[p] : p \in S}
<1>1. R \in SUBSET Nat /\ R # {} /\ \A y \in R : y <= n
  OBVIOUS
<1>2. Max(R) \in R /\ (\A y \in R : y <= Max(R)) /\ Min(R) \in R /\ (\A y \in R : Min(R) <= y)
  <2> HIDE DEF R
  <2>1. R \in SUBSET Int /\ n \in Int
    BY <1>1
  <2>2. Max(R) \in R /\ \A y \in R : y <= Max(R)
    BY <1>1, <2>1, MaxOf
  <2> QED
    BY <1>1, <2>2, MinOf
<1>3. (\E p \in S : r[p] = Max(R)) /\ (\E p \in S : r[p] = Min(R))
  BY <1>2
<1>4. \A p \in S : r[p] <= Max(R) /\ Min(R) <= r[p]
  BY <1>2
<1> HIDE DEF R
<1> QED
  BY <1>3, <1>4

\* The highest and the lowest rank are those of ranked peers.
LEMMA RankedFacts ==
    ASSUME Good
    PROVE  /\ \A p \in Ranked : RankOf(p) \in 1 .. writes
           /\ Highest \in Ranked \union {NoPeer} /\ (Ranked # {} => Lowest \in Ranked)
<1>1. \A p \in Ranked : RankOf(p) \in 1 .. writes
  BY DataFacts DEF Ranked, RankOf
<1>2. Ranked # {} => /\ \E p \in Ranked : \A q \in Ranked : RankOf(q) <= RankOf(p)
                     /\ \E p \in Ranked : \A q \in Ranked : RankOf(p) <= RankOf(q)
  <2> SUFFICES ASSUME Ranked # {}
               PROVE  /\ \E p \in Ranked : \A q \in Ranked : RankOf(q) <= RankOf(p)
                      /\ \E p \in Ranked : \A q \in Ranked : RankOf(p) <= RankOf(q)
    OBVIOUS
  <2> DEFINE r == [p \in Ranked |-> RankOf(p)]
  <2>1. \A p \in Ranked : r[p] = RankOf(p)
    OBVIOUS
  <2>2. \A n \in Nat : (\A p \in Ranked : r[p] \in 1 .. n) => /\ \E p \in Ranked : \A q \in Ranked : r[q] <= r[p]
                                                              /\ \E p \in Ranked : \A q \in Ranked : r[p] <= r[q]
    <3> HIDE DEF r
    <3> QED
      BY TopOf
  <2>3. writes \in Nat
    BY <1>1 DEF Good, ModeOK, OffOK, OnOK, QueueOK
  <2> HIDE DEF r
  <2> QED
    BY <1>1, <2>1, <2>2, <2>3
<1> QED
  BY <1>1, <1>2 DEF Highest, Lowest

\* the highest rank once a peer's file has gone and its id with it
LEMMA HighestNext ==
    ASSUME Good, UNCHANGED <<flash, pages, phase>>
    PROVE  Highest' \in Ranked' \union {NoPeer} /\ Ranked' \subseteq used'
<1>1. Found' = Found /\ \A loc : RecordAt(loc)' = RecordAt(loc)
  BY DEF Found, RecordAt
<1>2. \A p, k : Data(p, k)' = Data(p, k)
  BY <1>1 DEF Data, DataOf
<1>3. \A p : RankOf(p)' = RankOf(p)
  BY <1>1, <1>2 DEF RankOf
<1>4. \A p \in Ranked' : RankOf(p)' \in 1 .. writes
  BY <1>2, <1>3, DataFacts DEF Ranked, RankOf
<1>5. Ranked' # {} => \E p \in Ranked' : \A q \in Ranked' : RankOf(q)' <= RankOf(p)'
  <2> SUFFICES ASSUME Ranked' # {} PROVE \E p \in Ranked' : \A q \in Ranked' : RankOf(q)' <= RankOf(p)'
    OBVIOUS
  <2> DEFINE R == Ranked'
             r == [p \in R |-> RankOf(p)']
  <2>1. \A p \in R : r[p] = RankOf(p)'
    OBVIOUS
  <2>2. \A n \in Nat : (\A p \in R : r[p] \in 1 .. n) => \E p \in R : \A q \in R : r[q] <= r[p]
    <3> HIDE DEF r, R
    <3> QED
      BY TopOf DEF R
  <2>3. writes \in Nat
    BY DEF Good, ModeOK, OffOK, OnOK, QueueOK
  <2> HIDE DEF r
  <2> QED
    BY <1>4, <2>1, <2>2, <2>3
<1> QED
  BY <1>5 DEF Highest, Ranked, Active

-----------------------------------------------------------------------------
\* What steps of the storage do to the queue.

\* The queue is a sequence of operations, and empty while there is no power.
LEMMA QueueTypes ==
    ASSUME Good
    PROVE  /\ queue \in Seq(OpType) /\ Len(queue) \in Nat
           /\ queue # <<>> => Op = queue[1] /\ 1 \in 1 .. Len(queue) /\ phase # "off" /\ QueueOK
           /\ queue = <<>> => hand = "idle"
           /\ hand = "event" => Telling /\ phase = "initialized"
           /\ hand \in {"idle", "run", "event"}
           /\ phase \in {"off", "installing", "initialized"}
<1>1. CASE phase = "off"
  <2>1. queue = <<>> /\ hand = "idle"
    BY <1>1 DEF Good, ModeOK, OffOK, Resting
  <2> QED
    BY <1>1, <2>1
<1>2. CASE phase # "off"
  <2>1. QueueOK /\ (phase = "installing" => InstallOK) /\ (phase = "initialized" => InitializedOK)
        /\ phase \in {"installing", "initialized"}
    BY <1>2 DEF Good, ModeOK, OnOK
  <2>2. queue \in Seq(OpType) /\ Len(queue) \in Nat
    BY <2>1 DEF QueueOK
  <2>3. (queue = <<>> => hand = "idle") /\ (hand = "event" => Telling /\ phase = "initialized")
        /\ hand \in {"idle", "run", "event"}
    BY <2>1 DEF InstallOK, InitializedOK, Working, Telling, Resting
  <2> QED
    BY <1>2, <2>1, <2>2, <2>3, OpFacts
<1> QED
  BY <1>1, <1>2

\* It stays one.
LEMMA QueueNextTypes == ASSUME Good' PROVE queue' \in Seq(OpType)
<1>1. CASE phase' = "off"
  BY <1>1 DEF Good, ModeOK, OffOK, Resting
<1>2. CASE phase' # "off"
  BY <1>2 DEF Good, OnOK, QueueOK
<1> QED
  BY <1>1, <1>2

\* An operation has been put into the queue.
Grows(op) ==
    /\ queue' = Append(queue, op) /\ op \in OpType
    /\ hand' = IF queue = <<>> THEN "run" ELSE hand
    /\ UNCHANGED <<flash, phase, tok, timeouts>>
    /\ \A i \in Index : pages'[i].addr = pages[i].addr /\ pages'[i].type = pages[i].type

(* The record that is written waits for its event, and nothing is collected *)
(* that was not before.                                                     *)
LEMMA GrowFacts ==
    ASSUME Good, NEW op, Grows(op), UNCHANGED heard
    PROVE  /\ queue' \in Seq(OpType) /\ queue' # <<>>
           /\ \A t : Awaited(t) => Awaited(t)'
           /\ IsWriteOp(op) /\ (heard => hand = "event") => Awaited(op.id)'
           /\ queue # <<>> => Op' = Op
           /\ queue = <<>> => Op' = op
           /\ op.code # "gc" => (Collecting' <=> Collecting)
           /\ op.code # "gc" /\ OneCollects => OneCollects'
           /\ ~ Collecting => OneCollects'
           /\ \A p : DataOf(p)' = DataOf(p)
<1>1. queue \in Seq(OpType) /\ (queue = <<>> => hand = "idle") /\ op \in OpType
      /\ queue' = Append(queue, op) /\ hand' = (IF queue = <<>> THEN "run" ELSE hand)
      /\ (queue # <<>> => Op = queue[1] /\ 1 \in 1 .. Len(queue))
      /\ (hand = "event" => queue # <<>>)
  BY QueueTypes DEF Grows, Telling
<1>2. /\ queue' \in Seq(OpType) /\ queue' # <<>> /\ Len(queue') = Len(queue) + 1 /\ Len(queue) \in Nat
      /\ \A k \in 1 .. Len(queue) : k \in 1 .. Len(queue') /\ queue'[k] = queue[k]
      /\ queue'[Len(queue) + 1] = op /\ Len(queue) + 1 \in 1 .. Len(queue')
      /\ \A k \in 1 .. Len(queue') : k \in 1 .. Len(queue) \/ k = Len(queue) + 1
      /\ (queue # <<>> => Len(queue) + 1 # 1) /\ (queue = <<>> => Len(queue) = 0 /\ 1 \in 1 .. Len(queue'))
  BY <1>1, Appended
<1>3. Op' = queue'[1]
  BY <1>2 DEF Op
<1>4. \A k \in 1 .. Len(queue) : Collects(k)' <=> Collects(k)
  BY <1>1, <1>2 DEF Collects
<1>5. PICK n \in Nat : n = Len(queue) + 1
  BY <1>2
<1>13. op.code # "gc" => ~ Collects(n)'
  BY <1>2, <1>5 DEF Collects
<1>6. (Collecting <=> \E k \in 1 .. Len(queue) : Collects(k)) /\ (Collecting' <=> \E k \in 1 .. Len(queue') : Collects(k)')
  BY DEF Collecting, Collects
<1>7. op.code # "gc" => (Collecting' <=> Collecting)
  BY <1>2, <1>4, <1>5, <1>6, <1>13
<1>8. op.code # "gc" /\ OneCollects => OneCollects'
  BY <1>2, <1>4, <1>5, <1>13 DEF OneCollects
<1>9. ~ Collecting => OneCollects'
  BY <1>2, <1>4, <1>5, <1>6 DEF OneCollects
<1>10. \A t : Awaited(t) => Awaited(t)'
  BY <1>2 DEF Awaited, IsWriteOp
<1>11. IsWriteOp(op) /\ (heard => hand = "event") => Awaited(op.id)'
  BY <1>1, <1>2 DEF Awaited, IsWriteOp
<1>12. \A p : DataOf(p)' = DataOf(p)
  <2>1. flash' = flash /\ phase' = phase /\ \A i \in Index : pages'[i].addr = pages[i].addr /\ pages'[i].type = pages[i].type
    BY DEF Grows
  <2>2. \A loc \in Index \X (1 .. Slots) : RecordAt(loc)' = RecordAt(loc) /\ (loc \in Found' <=> loc \in Found)
    BY <2>1 DEF RecordAt, Found
  <2>3. Found \subseteq Index \X (1 .. Slots) /\ Found' \subseteq Index \X (1 .. Slots)
    BY DEF Found
  <2> QED
    BY <2>2, <2>3 DEF DataOf
<1> QED
  BY <1>1, <1>2, <1>3, <1>7, <1>8, <1>9, <1>10, <1>11, <1>12

\* A record that is stored.
LEMMA WriteGrows ==
    ASSUME Good, NEW op \in OpType, op.code \in {"write", "update"}, WriteEnqueue(op)
    PROVE  /\ latest' \in Nat /\ latest' # 0 /\ latest' = latest + 1
           /\ \E o : /\ Grows(o) /\ IsWriteOp(o) /\ o.id = latest' /\ o.code # "gc"
                    /\ o.code = op.code /\ o.file = op.file /\ o.key = op.key /\ o.target = op.target
<1>1. /\ CanCall /\ HasSpace # {} /\ writes' = writes + 1 /\ latest' = latest + 1
      /\ pages' = [pages EXCEPT ![Min(HasSpace)].reserved = @ + 1]
      /\ Enqueue([op EXCEPT !.page = Min(HasSpace), !.id = latest + 1, !.data = writes + 1])
      /\ UNCHANGED <<flash, phase, tok, timeouts>>
  BY DEF WriteEnqueue
<1>2. /\ Roles /\ latest \in Nat /\ writes \in Nat
  BY <1>1, CallFacts
<1>3. HasSpace \in SUBSET Nat
  BY PhysFacts DEF HasSpace
<1>4. PICK m \in HasSpace : m = Min(HasSpace)
  BY <1>1, <1>3, MinOf
<1>5. m \in Index /\ pages[m].offset + pages[m].reserved <= Slots
  BY <1>4 DEF HasSpace
<1>6. \A i \in Index : pages'[i].addr = pages[i].addr /\ pages'[i].type = pages[i].type
  <2>1. pages' = [pages EXCEPT ![m].reserved = @ + 1]
    BY <1>1, <1>4
  <2> QED
    BY <1>2, <1>5, <2>1, ReserveFacts
<1>7. PICK a \in Nat, d \in Nat : a = latest + 1 /\ d = writes + 1
  BY <1>2
<1> DEFINE o == Numbers(op, m, a, d)
<1>8. o \in OpType /\ o.id = a /\ o.code = op.code /\ o.file = op.file /\ o.key = op.key /\ o.target = op.target
  <2>1. m \in Index
    BY <1>5
  <2> HIDE DEF o
  <2>2. /\ Numbers(op, m, a, d) \in OpType /\ Numbers(op, m, a, d).id = a /\ Numbers(op, m, a, d).code = op.code
        /\ Numbers(op, m, a, d).file = op.file /\ Numbers(op, m, a, d).key = op.key
        /\ Numbers(op, m, a, d).target = op.target
    BY <2>1, OpSet
  <2> QED
    BY <2>2 DEF o
<1>9. queue' = Append(queue, o) /\ hand' = IF queue = <<>> THEN "run" ELSE hand
  BY <1>1, <1>4, <1>7 DEF Enqueue, Numbers
<1> HIDE DEF o
<1>10. Grows(o) /\ IsWriteOp(o) /\ o.id = latest' /\ o.code # "gc"
  BY <1>1, <1>6, <1>7, <1>8, <1>9 DEF Grows, IsWriteOp
<1> QED
  BY <1>1, <1>2, <1>8, <1>10

\* The operation puts a record of the peer into flash, or a new one in its place.
Sends(o, p, k) ==
    /\ Grows(o) /\ IsWriteOp(o) /\ o.id = latest' /\ o.code # "gc"
    /\ o.file = p /\ o.key = k
    /\ o.code = "update" => Data(p, k) # {} /\ o.target = RecordAt(First(Data(p, k))).id

LEMMA StoreGrows ==
    ASSUME Good, NEW p \in Files, NEW k \in {"bond", "rank"}, StoreData(p, k)
    PROVE  /\ Step /\ latest' \in Nat /\ latest' # 0 /\ latest' = latest + 1
           /\ \E o : Sends(o, p, k)
<1>1. k \in Keys
  BY PeerConstants
<1>2. CASE Data(p, k) = {}
  <2>1. RecordWrite(p, k)
    BY <1>2 DEF StoreData
  <2>2. /\ WriteOp(p, k) \in OpType /\ WriteOp(p, k).code = "write" /\ WriteEnqueue(WriteOp(p, k))
        /\ WriteOp(p, k).file = p /\ WriteOp(p, k).key = k
    BY <1>1, <2>1, NewOpFacts DEF RecordWrite, WriteOp
  <2>3. Step
    BY <1>1, <2>1 DEF Step, Calls
  <2> QED
    BY <2>2, <2>3, WriteGrows DEF Sends
<1>3. CASE Data(p, k) # {}
  <2>1. PICK id \in Ids : id = RecordAt(First(Data(p, k))).id
    BY <1>3, DataFacts
  <2>2. RecordUpdate(p, k, id) /\ id \in Nat
    BY <1>3, <2>1, IdsNumbers DEF StoreData
  <2>3. /\ UpdateOp(p, k, id) \in OpType /\ UpdateOp(p, k, id).code = "update"
        /\ UpdateOp(p, k, id).file = p /\ UpdateOp(p, k, id).key = k /\ UpdateOp(p, k, id).target = id
    BY <1>1, <2>2, UpdateOpFacts
  <2>4. WriteEnqueue(UpdateOp(p, k, id))
    BY <2>2 DEF RecordUpdate, UpdateOp
  <2>5. Step
    BY <1>1, <2>2 DEF Step, Calls
  <2> QED
    BY <1>3, <2>1, <2>3, <2>4, <2>5, WriteGrows DEF Sends
<1> QED
  BY <1>2, <1>3

\* The deletion of a file, or a collection, that is asked for.
LEMMA DeleteGrows ==
    ASSUME Good, NEW p \in Files, FileDelete(p)
    PROVE  /\ Step /\ phase = "initialized"
           /\ \E o : Grows(o) /\ o.code = "delete file" /\ o.step = "flag" /\ o.file = p
<1>1. /\ CanCall /\ Enqueue(FileOp(p))
      /\ UNCHANGED <<flash, pages, phase, tok, timeouts>>
  BY DEF FileDelete, FileOp, bounds
<1>2. FileOp(p) \in OpType /\ FileOp(p).code = "delete file" /\ FileOp(p).step = "flag"
  BY NewOpFacts
<1>3. FileOp(p).file = p
  BY DEF FileOp, NewOp
<1>4. Grows(FileOp(p))
  BY <1>1, <1>2 DEF Grows, Enqueue
<1> QED
  BY <1>1, <1>2, <1>3, <1>4 DEF Step, Calls, CanCall

LEMMA CollectGrows ==
    ASSUME Good, ~ Collecting, GcRequest
    PROVE  Step /\ Grows(NewOp) /\ NewOp.code = "gc"
<1>1. CanCall /\ Enqueue(NewOp) /\ UNCHANGED <<flash, pages, phase, tok, timeouts>>
  BY DEF GcRequest, bounds
<1>2. NewOp \in OpType /\ NewOp.code = "gc"
  BY NewOpFacts
<1> QED
  BY <1>1, <1>2 DEF Grows, Enqueue, Step, Calls

\* The queue holds the same operations.
QueueSame ==
    /\ queue \in Seq(OpType) /\ queue' \in Seq(OpType) /\ Len(queue') = Len(queue)
    /\ \A k \in 1 .. Len(queue) : queue'[k].code = queue[k].code /\ queue'[k].id = queue[k].id

(* What waits for an operation goes on waiting for it; the collections that *)
(* count change only when the head has ended.                               *)
LEMMA SameFacts ==
    ASSUME QueueSame, heard' => heard
    PROVE  /\ \A t : Awaited(t) => Awaited(t)'
           /\ queue # <<>> => queue' # <<>> /\ Op'.code = Op.code
           /\ hand' = hand => (Collecting' <=> Collecting) /\ (OneCollects => OneCollects')
           /\ hand # "event" => (Collecting' => Collecting) /\ (OneCollects => OneCollects')
           /\ hand # "event" /\ hand' # "event" => (Collecting => Collecting')
           /\ queue # <<>> /\ hand # "event" /\ hand' = "event" /\ OneCollects /\ Op.code = "gc" => ~ Collecting'
<1>1. /\ queue \in Seq(OpType) /\ queue' \in Seq(OpType) /\ Len(queue') = Len(queue)
      /\ \A k \in 1 .. Len(queue) : queue'[k].code = queue[k].code /\ queue'[k].id = queue[k].id
  BY DEF QueueSame
<1>2. \A t : Awaited(t) => Awaited(t)'
  BY <1>1 DEF Awaited, IsWriteOp
<1>3. queue # <<>> => queue' # <<>> /\ Op' = queue'[1] /\ Op = queue[1] /\ 1 \in 1 .. Len(queue)
  BY <1>1 DEF Op
<1>4. (Collecting <=> \E k \in 1 .. Len(queue) : Collects(k)) /\ (Collecting' <=> \E k \in 1 .. Len(queue') : Collects(k)')
  BY DEF Collecting, Collects
<1>5. hand' = hand => \A k \in 1 .. Len(queue) : Collects(k)' <=> Collects(k)
  BY <1>1 DEF Collects
<1>6. hand # "event" => \A k \in 1 .. Len(queue) : Collects(k)' => Collects(k)
  BY <1>1 DEF Collects
<1>7. hand # "event" /\ hand' # "event" => \A k \in 1 .. Len(queue) : Collects(k) => Collects(k)'
  BY <1>1 DEF Collects
<1>8. hand' = hand => (Collecting' <=> Collecting) /\ (OneCollects => OneCollects')
  BY <1>1, <1>4, <1>5 DEF OneCollects
<1>9. hand # "event" => (Collecting' => Collecting) /\ (OneCollects => OneCollects')
  BY <1>1, <1>4, <1>6 DEF OneCollects
<1>10. hand # "event" /\ hand' # "event" => (Collecting => Collecting')
  BY <1>1, <1>4, <1>7
<1>11. ASSUME queue # <<>>, hand # "event", hand' = "event", OneCollects, Op.code = "gc"
       PROVE  ~ Collecting'
  <2>1. Collects(1) /\ 1 \in 1 .. Len(queue)
    BY <1>3, <1>11 DEF Collects
  <2>2. \A k \in 1 .. Len(queue) : Collects(k)' => k # 1
    BY <1>11 DEF Collects
  <2> QED
    BY <1>1, <1>4, <1>6, <1>11, <2>1, <2>2 DEF OneCollects
<1> QED
  BY <1>1, <1>2, <1>3, <1>8, <1>9, <1>10, <1>11

Executes == InitExecute \/ WriteExecute \/ DeleteExecute \/ GcExecute

\* A step of the operation at the head.
LEMMA ExecutesFacts ==
    ASSUME Good, Executes
    PROVE  /\ QueueSame /\ hand = "run" /\ hand' \in {"idle", "event"} /\ queue # <<>>
           /\ phase # "off" /\ phase' # "off" /\ [Step]_vars /\ ~ FlashTimeout
<1>1. /\ hand = "run"
      /\ \/ queue' = queue
         \/ \E st : queue' = [queue EXCEPT ![1].step = st]
         \/ \E f : queue' = [queue EXCEPT ![1].step = "done", ![1].file = f]
  BY ExecuteLeaves, ExecuteQueue DEF Executes
<1>2. QueueProcess
  BY DEF Executes, QueueProcess
<1>3. [Step]_vars
  BY <1>2 DEF Step
<1>4. ~ FlashTimeout
  <2>1. FlashTimeout => Flying
    BY DEF FlashTimeout, Flying
  <2> QED
    BY <1>1, <2>1, RunFacts
<1>5. Good'
  BY <1>3, <1>4, GoodStep
<1>6. queue \in Seq(OpType) /\ queue # <<>> /\ queue[1] \in OpType /\ 1 \in 1 .. Len(queue) /\ phase # "off"
  BY <1>1, QueueTypes
<1>7. queue' \in Seq(OpType)
  BY <1>5, QueueNextTypes
<1>8. \A st, f : /\ [queue[1] EXCEPT !.step = st].code = queue[1].code /\ [queue[1] EXCEPT !.step = st].id = queue[1].id
                 /\ [queue[1] EXCEPT !.step = st, !.file = f].code = queue[1].code
                 /\ [queue[1] EXCEPT !.step = st, !.file = f].id = queue[1].id
  BY <1>6 DEF OpType
<1>9. QueueSame
  <2>1. CASE queue' = queue
    BY <1>6, <2>1 DEF QueueSame
  <2>2. ASSUME NEW b, queue' = [queue EXCEPT ![1] = b], b.code = queue[1].code, b.id = queue[1].id PROVE QueueSame
    BY <1>6, <1>7, <2>2 DEF QueueSame
  <2>3. ASSUME NEW st, queue' = [queue EXCEPT ![1].step = st] PROVE QueueSame
    <3>1. queue' = [queue EXCEPT ![1] = [queue[1] EXCEPT !.step = st]]
      BY <2>3
    <3> QED
      BY <1>8, <2>2, <3>1
  <2>4. ASSUME NEW f, queue' = [queue EXCEPT ![1].step = "done", ![1].file = f] PROVE QueueSame
    <3>1. queue' = [queue EXCEPT ![1] = [queue[1] EXCEPT !.step = "done", !.file = f]]
      BY <2>4
    <3> QED
      BY <1>8, <2>2, <3>1
  <2> QED
    BY <1>1, <2>1, <2>3, <2>4
<1>10. hand' \in {"idle", "event"}
  <2>1. CASE InitExecute
    BY <2>1 DEF InitExecute, InitTimeout, InitTagSwap, InitTagData, InitEraseSwap, InitPromoteSwap, Execute, Finish
  <2>2. CASE WriteExecute
    BY <2>2 DEF WriteExecute, WriteTimeout, UpdateFindsNothing, WriteHeaderBegin, WriteRecordId,
                WriteData, WriteHeaderFinalize, WriteFlagDirty, WriteDone, FlagDirty, WriteWords, Execute, Finish
  <2>3. CASE DeleteExecute
    BY <2>3 DEF DeleteExecute, DeleteTimeout, DeleteRecord, DeleteDone, DeleteFile, FlagDirty, Execute, Finish
  <2>4. CASE GcExecute
    BY <2>4 DEF GcExecute, GcTimeout, GcBegin, GcNextPage, GcFindNext, GcCopyAgain, GcEraseAgain,
                GcPromote, GcTagSwap, GcDiscardAgain, NextPage, FindRecord, CopyRecord, ErasePage, Execute, Finish
  <2> QED
    BY <2>1, <2>2, <2>3, <2>4 DEF Executes
<1>11. phase' # "off"
  <2>1. phase' \in {phase, "failed", "initialized"}
    <3>1. CASE InitExecute
      BY <3>1 DEF InitExecute, InitTimeout, InitTagSwap, InitTagData, InitEraseSwap, InitPromoteSwap
    <3>2. CASE WriteExecute
      BY <3>2 DEF WriteExecute, WriteTimeout, UpdateFindsNothing, WriteHeaderBegin, WriteRecordId,
                  WriteData, WriteHeaderFinalize, WriteFlagDirty, WriteDone, ram
    <3>3. CASE DeleteExecute
      BY <3>3 DEF DeleteExecute, DeleteTimeout, DeleteRecord, DeleteDone, DeleteFile, ram
    <3>4. CASE GcExecute
      BY <3>4 DEF GcExecute, GcTimeout, GcBegin, GcNextPage, GcFindNext, GcCopyAgain, GcEraseAgain,
                  GcPromote, GcTagSwap, GcDiscardAgain, ram
    <3> QED
      BY <3>1, <3>2, <3>3, <3>4 DEF Executes
  <2> QED
    BY <1>6, <2>1
<1> QED
  BY <1>1, <1>3, <1>4, <1>6, <1>9, <1>10, <1>11

\* A file with records is not deleted in the first step.
LEMMA FirstDeletes ==
    ASSUME Good, hand = "run", DeletesFirst, Executes
    PROVE  hand' = "idle"
<1>1. Op.code = "delete file" /\ Op.step = "flag" /\ tok = TokStart /\ DataOf(Op.file) # {}
  BY DEF DeletesFirst
<1>2. Proceeds
  BY RunFacts
<1>3. DeleteFile
  BY <1>1, <1>2 DEF Executes, InitExecute, InitTimeout, InitTagSwap, InitTagData, InitEraseSwap, InitPromoteSwap,
     WriteExecute, WriteTimeout, UpdateFindsNothing, WriteHeaderBegin, WriteRecordId,
     WriteData, WriteHeaderFinalize, WriteFlagDirty, WriteDone, IsWrite, Ready,
     DeleteExecute, DeleteTimeout, DeleteRecord, DeleteDone,
     GcExecute, GcTimeout, GcBegin, GcNextPage, GcFindNext, GcCopyAgain, GcEraseAgain,
     GcPromote, GcTagSwap, GcDiscardAgain, GcStep, GcAgain
<1>4. PICK loc \in Found : RecordAt(loc).file = Op.file
  BY <1>1 DEF DataOf
<1>5. /\ loc[1] \in Index /\ pages[loc[1]].type = "data" /\ loc[2] \in Records(flash[pages[loc[1]].addr])
      /\ flash[pages[loc[1]].addr].slot[loc[2]].file = Op.file
  BY <1>4 DEF Found, RecordAt
<1>6. \A i : AfterTok(i) = {<<i, pages[i].addr, j>> : j \in Records(flash[pages[i].addr])}
  BY <1>1 DEF AfterTok, TokStart
<1>7. loc[1] \in tok.page .. DataPages
  BY <1>1, <1>5 DEF TokStart, Index
<1>8. FileRecords(Op.file) # {}
  <2> DEFINE t == <<loc[1], pages[loc[1]].addr, loc[2]>>
  <2>1. t \in AfterTok(loc[1])
    BY <1>5, <1>6
  <2>2. t[2] = pages[loc[1]].addr /\ t[3] = loc[2]
    OBVIOUS
  <2> HIDE DEF t
  <2>3. t \in FileRecords(Op.file)
    BY <1>5, <1>7, <2>1, <2>2 DEF FileRecords
  <2> QED
    BY <2>3
<1> QED
  BY <1>3, <1>8 DEF DeleteFile, FlagDirty, Execute

\* The operation whose event has been handled leaves the queue.
LEMMA NextFacts ==
    ASSUME Good, QueueNext, heard, ~ heard'
    PROVE  /\ \A t : Awaited(t) => Awaited(t)'
           /\ (Collecting' <=> Collecting) /\ (OneCollects => OneCollects')
           /\ hand' \in {"idle", "run"} /\ phase # "off" /\ UNCHANGED phase
<1>1. hand = "event" /\ queue' = Tail(queue) /\ hand' \in {"idle", "run"} /\ UNCHANGED phase
  BY DEF QueueNext
<1>2. queue \in Seq(OpType) /\ queue # <<>> /\ phase # "off"
  BY <1>1, QueueTypes DEF Telling
<1>3. /\ \A k \in 1 .. Len(queue') : k + 1 \in 1 .. Len(queue) /\ k + 1 # 1 /\ queue'[k] = queue[k + 1]
      /\ \A k \in 1 .. Len(queue) : k # 1 => k - 1 \in 1 .. Len(queue') /\ queue'[k - 1] = queue[k]
      /\ \A k, l \in 1 .. Len(queue') : k + 1 = l + 1 => k = l
  BY <1>1, <1>2
<1>4. \A k \in 1 .. Len(queue') : Collects(k)' => Collects(k + 1)
  BY <1>3 DEF Collects
<1>5. \A k \in 1 .. Len(queue) : Collects(k) => k # 1 /\ queue'[k - 1].code = "gc"
  BY <1>1, <1>3 DEF Collects
<1>6. (Collecting <=> \E k \in 1 .. Len(queue) : Collects(k)) /\ (Collecting' <=> \E k \in 1 .. Len(queue') : Collects(k)')
  BY DEF Collecting, Collects
<1>7. Collecting' <=> Collecting
  <2>1. Collecting' => Collecting
    BY <1>3, <1>4, <1>6
  <2>2. Collecting => Collecting'
    BY <1>1, <1>3, <1>5, <1>6 DEF Collecting
  <2> QED
    BY <2>1, <2>2
<1>8. OneCollects => OneCollects'
  BY <1>3, <1>4 DEF OneCollects
<1>9. \A t : Awaited(t) => Awaited(t)'
  BY <1>3 DEF Awaited, IsWriteOp
<1> QED
  BY <1>1, <1>2, <1>7, <1>8, <1>9


-----------------------------------------------------------------------------
\* What a handler has to go on from.

\* The context at work, and the first item of its agenda.
LEMMA NowFacts ==
    ASSUME Good, PeerOK, NEW do, Now(do)
    PROVE  /\ hand \in Contexts /\ agenda[hand] # <<>> /\ Shaped(agenda[hand]) /\ Backed(agenda[hand], buffers)
           /\ Todo = agenda[hand] /\ Head(Todo) = agenda[hand][1] /\ Peer = agenda[hand][1].arg
           /\ agenda[hand][1].do = do /\ Leads(agenda[hand], do) /\ Has(agenda[hand], do)
           /\ agenda[hand][1] \in Todos /\ Fits(agenda[hand][1])
           /\ (hand = "event" => heard) /\ (hand = "idle" => ~ heard /\ agenda.event = <<>>)
           /\ stage \in {"erase", "up"} /\ phase # "off"
           /\ (stage = "erase" /\ hand = "idle" => do \in Deletes)
           /\ (hand = "idle" => ~ Has(Tail(Todo), "store"))
           /\ (do # "cleaning" /\ Collecting => cleaning)
<1>1. hand \in Contexts /\ Todo = agenda[hand] /\ Todo # <<>> /\ Head(Todo).do = do /\ stage # "stopped"
  <2>1. hand \in {"idle", "run", "event"}
    BY QueueTypes
  <2> QED
    BY <2>1 DEF Now, Todo, Running, Contexts
<1>2. /\ \A c \in Contexts : Shaped(agenda[c]) /\ Backed(agenda[c], buffers)
      /\ heard \in BOOLEAN /\ (heard => hand = "event")
      /\ ~ heard => agenda.event = <<>>
      /\ Has(agenda.idle, "store") => Leads(agenda.idle, "store") /\ ~ Has(Tail(agenda.idle), "store")
  BY DEF PeerOK, AgendaOK
<1>3. Shaped(agenda[hand]) /\ agenda[hand] # <<>>
  BY <1>1, <1>2
<1>4. /\ agenda[hand] \in Seq(Todos) /\ Head(agenda[hand]) = agenda[hand][1] /\ agenda[hand][1] \in Todos
      /\ Fits(agenda[hand][1]) /\ 1 \in 1 .. Len(agenda[hand])
  BY <1>3, RestFacts
<1>5. Leads(agenda[hand], do) /\ Has(agenda[hand], do) /\ Peer = agenda[hand][1].arg
  BY <1>1, <1>3, <1>4 DEF Leads, Has, Peer
<1>6. (hand = "event" => heard) /\ (hand = "idle" => ~ heard /\ agenda.event = <<>>)
  BY <1>1, <1>2, <1>3
<1>7. /\ stage \in {"off", "load", "erase", "up", "stopped"}
      /\ phase = "off" <=> stage = "off"
      /\ stage \in {"off", "load"} => agenda.idle = <<>> /\ agenda.event = <<>>
      /\ stage = "erase" => \A i \in 1 .. Len(agenda.idle) : agenda.idle[i].do \in Deletes
  BY DEF PeerOK, StageOK
<1>8. stage \in {"erase", "up"} /\ phase # "off"
  BY <1>1, <1>3, <1>7 DEF Contexts
<1>9. stage = "erase" /\ hand = "idle" => do \in Deletes
  BY <1>1, <1>4, <1>7
<1>10. hand = "idle" => ~ Has(Tail(Todo), "store")
  <2>1. ASSUME hand = "idle", Has(Tail(agenda.idle), "store") PROVE Has(agenda.idle, "store")
    BY <1>3, <2>1, RestShaped
  <2> QED
    BY <1>1, <1>2, <2>1
<1>11. ASSUME do # "cleaning", Collecting PROVE cleaning
  <2>1. Cleans
    BY <1>11 DEF PeerOK, CollectOK
  <2>2. ~ Leads(agenda[hand], "cleaning")
    BY <1>1, <1>4, <1>11 DEF Leads
  <2> QED
    BY <1>1, <2>1, <2>2 DEF Cleans, Contexts
<1> QED
  BY <1>1, <1>2, <1>3, <1>4, <1>5, <1>6, <1>8, <1>9, <1>10, <1>11

\* A handler has asked the storage for nothing, or for something else than a
\* collection.
Moves == UNCHANGED vars \/ \E o : Grows(o) /\ o.code # "gc"

LEMMA MovesFacts ==
    ASSUME Good, Moves, UNCHANGED heard
    PROVE  /\ \A t : Awaited(t) => Awaited(t)'
           /\ (Collecting' <=> Collecting) /\ (OneCollects => OneCollects')
           /\ UNCHANGED phase /\ \A p : DataOf(p)' = DataOf(p)
           /\ (hand = "event" => hand' = "event") /\ (hand = "idle" => hand' \in {"idle", "run"})
           /\ (hand = "idle" /\ queue # <<>> => hand' = "idle")
<1>1. CASE UNCHANGED vars
  <2>1. UNCHANGED <<queue, hand, phase, flash, pages>>
    BY <1>1 DEF vars, ram
  <2>2. \A t : Awaited(t) => Awaited(t)'
    BY <2>1 DEF Awaited
  <2>3. (Collecting' <=> Collecting) /\ (OneCollects => OneCollects')
    BY <2>1 DEF Collecting, OneCollects, Collects
  <2>4. \A p : DataOf(p)' = DataOf(p)
    BY <2>1 DEF DataOf, Found, RecordAt
  <2> QED
    BY <2>1, <2>2, <2>3, <2>4
<1>2. ASSUME NEW o, Grows(o), o.code # "gc"
      PROVE  /\ \A t : Awaited(t) => Awaited(t)'
             /\ (Collecting' <=> Collecting) /\ (OneCollects => OneCollects')
             /\ UNCHANGED phase /\ \A p : DataOf(p)' = DataOf(p)
             /\ (hand = "event" => hand' = "event") /\ (hand = "idle" => hand' \in {"idle", "run"})
             /\ (hand = "idle" /\ queue # <<>> => hand' = "idle")
  <2>1. /\ \A t : Awaited(t) => Awaited(t)'
        /\ (Collecting' <=> Collecting) /\ (OneCollects => OneCollects')
        /\ \A p : DataOf(p)' = DataOf(p)
    BY <1>2, GrowFacts
  <2>2. hand' = (IF queue = <<>> THEN "run" ELSE hand) /\ UNCHANGED phase
    BY <1>2 DEF Grows
  <2>3. hand = "event" => queue # <<>>
    BY QueueTypes
  <2> QED
    BY <2>1, <2>2, <2>3
<1> QED
  BY <1>1, <1>2 DEF Moves

\* The agenda that is left.
LEMMA GoesAgenda ==
    ASSUME Good, PeerOK, NEW do, Now(do), NEW rest, Goes(rest), Shaped(rest), Backed(rest, buffers'),
           hand = "idle" => ~ Has(rest, "store"),
           \A b \in 1 .. Buffers : buffers[b].state # "free" => buffers'[b].state # "free",
           UNCHANGED heard, hand = "event" => hand' = "event"
    PROVE  AgendaOK'
<1>1. /\ agenda \in [Contexts -> Seq(Todos)]
      /\ \A c \in Contexts : Shaped(agenda[c]) /\ Backed(agenda[c], buffers)
      /\ heard \in BOOLEAN /\ (heard => hand = "event")
      /\ ~ heard => agenda.event = <<>>
      /\ Has(agenda.idle, "store") => hand = "idle"
  BY DEF PeerOK, AgendaOK
<1>2. hand \in Contexts /\ (hand = "event" => heard)
  BY NowFacts
<1>3. rest \in Seq(Todos)
  BY DEF Shaped
<1>4. /\ agenda' = [agenda EXCEPT ![hand] = rest] /\ agenda' \in [Contexts -> Seq(Todos)]
      /\ agenda'[hand] = rest /\ \A c \in Contexts : c # hand => agenda'[c] = agenda[c]
  BY <1>1, <1>2, <1>3 DEF Goes
<1>5. \A c \in Contexts : Backed(agenda[c], buffers')
  <2> SUFFICES ASSUME NEW c \in Contexts, NEW i \in 1 .. Len(agenda[c]), agenda[c][i].do = "store"
               PROVE  buffers'[agenda[c][i].arg].state # "free"
    BY DEF Backed
  <2>1. Fits(agenda[c][i]) /\ buffers[agenda[c][i].arg].state # "free"
    BY <1>1 DEF Shaped, Backed
  <2> QED
    BY <2>1 DEF Fits
<1>6. \A c \in Contexts : Shaped(agenda'[c]) /\ Backed(agenda'[c], buffers')
  BY <1>1, <1>4, <1>5
<1>7. (heard' => hand' = "event") /\ (~ heard' => agenda'.event = <<>>)
  BY <1>1, <1>2, <1>4 DEF Contexts
<1>8. ~ Has(agenda'.idle, "store")
  BY <1>1, <1>2, <1>4 DEF Contexts
<1> QED
  BY <1>1, <1>4, <1>6, <1>7, <1>8 DEF AgendaOK

\* Where main() is.
LEMMA GoesStage ==
    ASSUME Good, PeerOK, NEW do, Now(do), NEW rest, Goes(rest), UNCHANGED <<stage, phase>>,
           stage = "erase" /\ hand = "idle" => \A i \in 1 .. Len(rest) : rest[i].do \in Deletes
    PROVE  StageOK'
<1>1. stage \in {"erase", "up"} /\ phase # "off" /\ hand \in Contexts
  BY NowFacts
<1>2. agenda \in [Contexts -> Seq(Todos)] /\ agenda' = [agenda EXCEPT ![hand] = rest]
  BY DEF PeerOK, AgendaOK, Goes
<1>3. stage = "erase" => \A i \in 1 .. Len(agenda.idle) : agenda.idle[i].do \in Deletes
  BY DEF PeerOK, StageOK
<1>4. hand = "idle" => agenda'.idle = rest
  BY <1>1, <1>2 DEF Contexts
<1>5. hand # "idle" => agenda'.idle = agenda.idle
  BY <1>1, <1>2 DEF Contexts
<1>6. stage = "erase" => \A i \in 1 .. Len(agenda'.idle) : agenda'.idle[i].do \in Deletes
  BY <1>3, <1>4, <1>5
<1> QED
  BY <1>1, <1>6 DEF StageOK

\* A collection that is still to be asked for in main()'s place is behind a
\* deletion that found data, or did not come to the search yet.
GoesClean(rest) ==
    \/ hand' = "idle" /\ (Leads(rest, "file") => DataOf(rest[1].arg) # {})
    \/ hand' = "run" /\ DeletesFirst' /\ Leads(rest, "gc")

\* The collections, when none is asked for.
LEMMA GoesCollects ==
    ASSUME Good, PeerOK, NEW do, Now(do), NEW rest, Goes(rest), Moves, UNCHANGED heard,
           do = "cleaning" => cleaning', cleaning => cleaning',
           Has(rest, "gc") => ~ Collecting,
           hand = "idle" /\ Has(rest, "gc") => GoesClean(rest)
    PROVE  CollectOK'
<1>1. /\ hand \in Contexts /\ (hand = "event" => heard) /\ (hand = "idle" => agenda.event = <<>>)
      /\ (do # "cleaning" /\ Collecting => cleaning)
  BY NowFacts
<1>2. /\ (Collecting' <=> Collecting) /\ (OneCollects => OneCollects')
      /\ (hand = "event" => hand' = "event") /\ (hand = "idle" => hand' \in {"idle", "run"})
  BY MovesFacts
<1>3. agenda \in [Contexts -> Seq(Todos)] /\ agenda' = [agenda EXCEPT ![hand] = rest]
  BY DEF PeerOK, AgendaOK, Goes
<1>4. /\ agenda'[hand] = rest
      /\ hand = "event" => agenda'.event = rest /\ agenda'.idle = agenda.idle
      /\ hand = "idle" => agenda'.idle = rest /\ agenda'.event = agenda.event
  BY <1>1, <1>3 DEF Contexts
<1>5. OneCollects /\ (Has(agenda.idle, "gc") => hand \in {"idle", "run"})
  BY DEF PeerOK, CollectOK, IdleCleans
<1>6. ~ (hand' = "event" /\ ~ heard')
  BY <1>1, <1>2 DEF Contexts
<1>7. Collecting' => Cleans'
  BY <1>1, <1>2 DEF Cleans
<1>8. Has(agenda'.event, "gc") => ~ Collecting'
  BY <1>1, <1>2, <1>4, AgendaEmpty DEF Contexts
<1>9. Has(agenda'.idle, "gc") => ~ Collecting' /\ IdleCleans'
  <2>1. CASE hand = "event"
    BY <1>4, <1>5, <2>1
  <2>2. CASE hand = "idle"
    <3> SUFFICES ASSUME Has(rest, "gc") PROVE ~ Collecting' /\ IdleCleans'
      BY <1>4, <2>2
    <3>1. GoesClean(rest) /\ ~ Collecting /\ agenda'.idle = rest
      BY <1>4, <2>2
    <3>2. DataOf(agenda.idle[1].arg)' = DataOf(rest[1].arg)
      <4>1. PICK p : p = rest[1].arg
        OBVIOUS
      <4>2. DataOf(agenda.idle[1].arg)' = DataOf(p)'
        BY <3>1, <4>1 DEF DataOf
      <4> QED
        BY <4>1, <4>2, MovesFacts
    <3>3. \A d : Leads(agenda.idle, d)' <=> Leads(rest, d)
      BY <3>1 DEF Leads
    <3> QED
      BY <1>2, <3>1, <3>2, <3>3 DEF IdleCleans, GoesClean
  <2> QED
    BY <1>1, <2>1, <2>2 DEF Contexts
<1>10. Has(agenda.idle, "gc")' = Has(agenda'.idle, "gc") /\ Has(agenda.event, "gc")' = Has(agenda'.event, "gc")
  BY DEF Has
<1> QED
  BY <1>2, <1>5, <1>6, <1>7, <1>8, <1>9, <1>10 DEF CollectOK

-----------------------------------------------------------------------------
\* The handlers.

\* After a fault nothing goes on.
LEMMA Stopped ==
    ASSUME PeerOK, phase # "off", stage' = "stopped",
           UNCHANGED <<vars, used, deleted, clean, ranks, buffers, agenda, heard>>
    PROVE  PeerOK'
<1>1. /\ UNCHANGED <<queue, hand, phase, flash, pages, tok, used, deleted, cleaning, rankQueue, ranks,
                     buffers, agenda, heard>>
      /\ stage' = "stopped"
  BY DEF vars, ram, clean
<1>2. AgendaOK'
  BY <1>1 DEF PeerOK, AgendaOK, Backed
<1>3. StageOK'
  <2>1. phase' # "off" /\ stage' = "stopped"
    BY <1>1
  <2> QED
    BY <2>1 DEF StageOK
<1>4. CollectOK'
  <2>1. /\ (Collecting' <=> Collecting) /\ (OneCollects' <=> OneCollects) /\ (Op' = Op)
        /\ \A do : /\ Has(agenda.idle, do)' = Has(agenda.idle, do)
                   /\ Has(agenda.event, do)' = Has(agenda.event, do)
                   /\ Leads(agenda.idle, do)' = Leads(agenda.idle, do)
                   /\ Leads(agenda.event, do)' = Leads(agenda.event, do)
    BY <1>1 DEF Collecting, OneCollects, Collects, Has, Leads, Op
  <2>3. DataOf(Op.file)' = DataOf(Op.file) /\ DataOf(agenda.idle[1].arg)' = DataOf(agenda.idle[1].arg)
    BY <1>1, <2>1 DEF DataOf, Found, RecordAt
  <2>4. DeletesFirst' <=> DeletesFirst
    BY <1>1, <2>1, <2>3 DEF DeletesFirst, TokStart
  <2>5. (Cleans' <=> Cleans) /\ (IdleCleans' <=> IdleCleans)
    BY <1>1, <2>1, <2>3, <2>4 DEF Cleans, IdleCleans
  <2> QED
    BY <1>1, <2>1, <2>5 DEF PeerOK, CollectOK
<1>5. BuffersOK' /\ RanksOK' /\ PeersOK'
  BY <1>1 DEF PeerOK, BuffersOK, RanksOK, PeersOK, Awaited
<1> QED
  BY <1>2, <1>3, <1>4, <1>5 DEF PeerOK

LEMMA DoStop == ASSUME PeerOK, phase # "off", Stop PROVE PeerOK'
BY Stopped DEF Stop

\* The record of a bond, or of a rank, that is stored.
LEMMA BuffersStay ==
    ASSUME Good, PeerOK, Moves, UNCHANGED <<heard, buffers>>
    PROVE  BuffersOK'
BY MovesFacts DEF PeerOK, BuffersOK

LEMMA RanksStay ==
    ASSUME Good, PeerOK, Moves, UNCHANGED <<heard, ranks, rankQueue>>
    PROVE  RanksOK'
BY MovesFacts DEF PeerOK, RanksOK

LEMMA BufferSet ==
    ASSUME Good, PeerOK, Moves, UNCHANGED heard, NEW b \in 1 .. Buffers, NEW x,
           Kept(x), x.state = "sent" => Awaited(x.token)', buffers' = [buffers EXCEPT ![b] = x]
    PROVE  BuffersOK'
<1>1. /\ buffers \in [1 .. Buffers -> Buffer]
      /\ \A c \in 1 .. Buffers : Kept(buffers[c]) /\ (buffers[c].state = "sent" => Awaited(buffers[c].token))
  BY DEF PeerOK, BuffersOK
<1>2. \A t : Awaited(t) => Awaited(t)'
  BY MovesFacts
<1>3. buffers' \in [1 .. Buffers -> Buffer] /\ buffers'[b] = x /\ \A c \in 1 .. Buffers : c # b => buffers'[c] = buffers[c]
  BY <1>1 DEF Kept
<1>4. ASSUME NEW c \in 1 .. Buffers
      PROVE  Kept(buffers'[c]) /\ \E t : t = buffers'[c].token /\ (buffers'[c].state = "sent" => Awaited(t)')
  <2>1. CASE c = b
    BY <1>3, <2>1
  <2>2. CASE c # b
    <3>1. buffers'[c] = buffers[c]
      BY <1>3, <2>2
    <3>2. PICK t : t = buffers[c].token
      OBVIOUS
    <3>3. buffers[c].state = "sent" => Awaited(t)'
      BY <1>1, <1>2, <3>2
    <3> QED
      BY <1>1, <3>1, <3>2, <3>3
  <2> QED
    BY <2>1, <2>2
<1> QED
  BY <1>3, <1>4 DEF BuffersOK, Awaited

LEMMA DoStoreBond ==
    ASSUME Good, PeerOK, StoreBond
    PROVE  PeerOK' /\ [Step]_vars
<1>1. Now("store")
  BY DEF StoreBond
<1>2. /\ hand \in Contexts /\ Todo = agenda[hand] /\ Shaped(agenda[hand]) /\ Backed(agenda[hand], buffers)
      /\ agenda[hand] # <<>> /\ Peer = agenda[hand][1].arg /\ agenda[hand][1].do = "store"
      /\ Fits(agenda[hand][1]) /\ stage \in {"erase", "up"} /\ phase # "off"
      /\ (stage # "erase" \/ hand # "idle") /\ (hand = "idle" => ~ Has(Tail(Todo), "store"))
      /\ (hand = "event" => heard)
  BY <1>1, NowFacts DEF Deletes
<1>3. /\ Plain(Tail(Todo)) /\ Backed(Tail(Todo), buffers) /\ 1 \in 1 .. Len(agenda[hand])
  BY <1>2, RestShaped, RestFacts DEF Deletes
<1>4. PICK b \in 1 .. Buffers : b = Peer /\ buffers[b].state # "free"
  BY <1>2, <1>3 DEF Fits, Backed
<1>5. /\ buffers \in [1 .. Buffers -> Buffer] /\ Kept(buffers[b]) /\ buffers[b] \in Buffer /\ buffers[b].peer \in Files
  BY <1>4 DEF PeerOK, BuffersOK, Kept
<1>6. PeersOK /\ \A st : [buffers[b] EXCEPT !.state = st] = [peer |-> buffers[b].peer, state |-> st, token |-> buffers[b].token]
  BY <1>5 DEF PeerOK, Buffer
<1>8. ASSUME NEW st \in {"sent", "busy", "full"}, NEW t \in Nat, NEW rest,
             buffers' = [buffers EXCEPT ![b] = [peer |-> buffers[b].peer, state |-> st, token |-> t]],
             st = "sent" => Awaited(t)', Shaped(rest), Backed(rest, buffers), ~ Has(rest, "gc"),
             hand = "idle" => ~ Has(rest, "store"), Goes(rest), Moves,
             UNCHANGED <<used, deleted, erasing, clean, ranks, heard, events>>
      PROVE  PeerOK'
  <2> DEFINE x == [peer |-> buffers[b].peer, state |-> st, token |-> t]
  <2>1. Kept(x) /\ x.state = st /\ x.token = t
    BY <1>5 DEF Kept, Buffer
  <2> HIDE DEF x
  <2>2. buffers' = [buffers EXCEPT ![b] = x]
    BY <1>8 DEF x
  <2>3. BuffersOK'
    BY <1>8, <2>1, <2>2, BufferSet
  <2>4. \A c \in 1 .. Buffers : buffers[c].state # "free" => buffers'[c].state # "free"
    BY <1>5, <1>8, <2>1, <2>2
  <2>5. UNCHANGED phase /\ (hand = "event" => hand' = "event") /\ UNCHANGED <<stage, cleaning, rankQueue>>
    BY <1>8, MovesFacts DEF erasing, clean
  <2>6. Backed(rest, buffers')
    <3> SUFFICES ASSUME NEW i \in 1 .. Len(rest), rest[i].do = "store" PROVE buffers'[rest[i].arg].state # "free"
      BY DEF Backed
    <3>1. Fits(rest[i]) /\ buffers[rest[i].arg].state # "free"
      BY <1>8 DEF Shaped, Backed
    <3> QED
      BY <2>4, <3>1 DEF Fits
  <2>7. AgendaOK'
    BY <1>1, <1>8, <2>4, <2>5, <2>6, GoesAgenda
  <2>8. StageOK'
    BY <1>1, <1>2, <1>8, <2>5, GoesStage
  <2>9. CollectOK'
    BY <1>1, <1>8, <2>5, GoesCollects
  <2>10. RanksOK'
    BY <1>8, <2>5, RanksStay
  <2>11. PeersOK'
    BY <1>6, <1>8 DEF PeersOK
  <2> QED
    BY <2>3, <2>7, <2>8, <2>9, <2>10, <2>11 DEF PeerOK
<1>9. ~ Has(Tail(Todo), "gc") /\ Shaped(Tail(Todo))
  BY <1>3, PlainFacts
<1>10. CASE /\ StoreData(buffers[Peer].peer, "bond")
            /\ buffers' = [buffers EXCEPT ![Peer].state = "sent", ![Peer].token = latest']
            /\ Drop
            /\ UNCHANGED <<used, deleted, erasing, clean, ranks, heard, events>>
  <2>1. Step /\ latest' \in Nat /\ \E o : Sends(o, buffers[b].peer, "bond")
    BY <1>4, <1>5, <1>10, StoreGrows
  <2>2. PICK o : Grows(o) /\ IsWriteOp(o) /\ o.id = latest' /\ o.code # "gc"
    BY <2>1 DEF Sends
  <2>3. PICK n \in Nat : n = latest'
    BY <2>1
  <2>4. Awaited(o.id)'
    BY <1>2, <1>10, <2>2, GrowFacts DEF AgendaOK, PeerOK
  <2>5. Awaited(n)'
    BY <2>2, <2>3, <2>4 DEF Awaited
  <2>6. buffers' = [buffers EXCEPT ![b] = [peer |-> buffers[b].peer, state |-> "sent", token |-> n]]
    <3> DEFINE x == [peer |-> buffers[b].peer, state |-> "sent", token |-> buffers[b].token]
               bs == [buffers EXCEPT ![b] = x]
    <3>1. [buffers EXCEPT ![b].state = "sent"] = bs
      BY <1>4, <1>5, <1>6
    <3>2. [x EXCEPT !.token = n] = [peer |-> buffers[b].peer, state |-> "sent", token |-> n]
      OBVIOUS
    <3>3. bs[b] = x
      BY <1>5
    <3>4. buffers' = [bs EXCEPT ![b].token = n]
      BY <1>4, <1>10, <2>3, <3>1
    <3>5. [bs EXCEPT ![b].token = n] = [bs EXCEPT ![b] = [peer |-> buffers[b].peer, state |-> "sent", token |-> n]]
      BY <3>2, <3>3
    <3> QED
      BY <1>5, <3>4, <3>5
  <2>7. Moves /\ Goes(Tail(Todo))
    BY <1>10, <2>2 DEF Moves, Drop
  <2> QED
    BY <1>2, <1>3, <1>8, <1>9, <1>10, <2>1, <2>5, <2>6, <2>7
<1>11. CASE /\ buffers' = [buffers EXCEPT ![Peer].state = "busy"]
            /\ Drop
            /\ UNCHANGED <<vars, used, deleted, erasing, clean, ranks, heard, events>>
  <2>1. buffers' = [buffers EXCEPT ![b] = [peer |-> buffers[b].peer, state |-> "busy", token |-> buffers[b].token]]
        /\ buffers[b].token \in Nat
    BY <1>4, <1>5, <1>6, <1>11 DEF Buffer
  <2>2. Moves /\ Goes(Tail(Todo)) /\ UNCHANGED vars
    BY <1>11 DEF Moves, Drop
  <2> QED
    BY <1>2, <1>3, <1>8, <1>9, <1>11, <2>1, <2>2
<1>12. CASE /\ buffers' = [buffers EXCEPT ![Peer].state = "full"]
            /\ Goes(<<Done("full")>> \o AfterStores(Tail(Todo)))
            /\ UNCHANGED <<vars, used, deleted, erasing, clean, ranks, heard, events>>
  <2>1. buffers' = [buffers EXCEPT ![b] = [peer |-> buffers[b].peer, state |-> "full", token |-> buffers[b].token]]
        /\ buffers[b].token \in Nat
    BY <1>4, <1>5, <1>6, <1>12 DEF Buffer
  <2>2. Moves /\ UNCHANGED vars
    BY <1>12 DEF Moves
  <2> DEFINE s == AfterStores(Tail(Todo))
             rest == <<Done("full")>> \o s
  <2>3. Plain(s) /\ Backed(s, buffers) /\ (Has(s, "store") => Has(Tail(Todo), "store")) /\ ~ Has(s, "gc")
    <3>1. Plain(s) /\ \A bs : Backed(Tail(Todo), bs) => Backed(s, bs)
      BY <1>3, AfterStoresFacts
    <3>2. \A do : Has(s, do) => Has(Tail(Todo), do)
      BY <1>3, AfterStoresFacts
    <3> QED
      BY <1>3, <1>9, <3>1, <3>2
  <2> HIDE DEF s
  <2>4. Done("full") \in Todos /\ Done("full").do = "full" /\ Fits(Done("full"))
    BY ItemFacts
  <2>5. /\ Shaped(rest) /\ \A bs : Backed(s, bs) => Backed(rest, bs)
        /\ \A do : Has(rest, do) => do = "full" \/ Has(s, do)
    BY <2>3, <2>4, ThenPlain
  <2>6. Goes(rest)
    BY <1>12 DEF s
  <2> HIDE DEF rest
  <2>7. Backed(rest, buffers) /\ ~ Has(rest, "gc") /\ (hand = "idle" => ~ Has(rest, "store"))
    BY <1>2, <2>3, <2>5
  <2> QED
    BY <1>8, <1>12, <2>1, <2>2, <2>5, <2>6, <2>7
<1>13. CASE Stop
  BY <1>2, <1>13, DoStop DEF Stop
<1> QED
  BY <1>10, <1>11, <1>12, <1>13 DEF StoreBond

\* What is left to show of a handler that leaves the buffers alone.
LEMMA GoesOn ==
    ASSUME Good, PeerOK, NEW do, Now(do), NEW rest, Goes(rest), Shaped(rest), Backed(rest, buffers),
           hand = "idle" => ~ Has(rest, "store"), Moves, UNCHANGED <<heard, buffers, stage>>,
           do = "cleaning" => cleaning', cleaning => cleaning',
           Has(rest, "gc") => ~ Collecting,
           hand = "idle" /\ Has(rest, "gc") => GoesClean(rest),
           stage = "erase" /\ hand = "idle" => \A i \in 1 .. Len(rest) : rest[i].do \in Deletes
    PROVE  AgendaOK' /\ StageOK' /\ CollectOK' /\ BuffersOK'
<1>1. UNCHANGED phase /\ (hand = "event" => hand' = "event")
  BY MovesFacts
<1>2. Backed(rest, buffers')
  BY DEF Backed
<1>3. AgendaOK'
  BY <1>1, <1>2, GoesAgenda
<1>4. StageOK'
  BY <1>1, GoesStage
<1>5. CollectOK'
  BY GoesCollects
<1>6. BuffersOK'
  BY BuffersStay
<1> QED
  BY <1>3, <1>4, <1>5, <1>6

\* It may be done with the head of its agenda, or ask for room first.
LEMMA DropOn ==
    ASSUME Good, PeerOK, NEW do, Now(do), do \notin Deletes, Drop, Moves, UNCHANGED <<heard, buffers, stage>>,
           do = "cleaning" => cleaning', cleaning => cleaning'
    PROVE  AgendaOK' /\ StageOK' /\ CollectOK' /\ BuffersOK'
<1>1. /\ Todo = agenda[hand] /\ Shaped(agenda[hand]) /\ Backed(agenda[hand], buffers)
      /\ agenda[hand] # <<>> /\ agenda[hand][1].do = do
      /\ (stage # "erase" \/ hand # "idle") /\ (hand = "idle" => ~ Has(Tail(Todo), "store"))
  BY NowFacts
<1>2. Plain(Tail(Todo)) /\ Backed(Tail(Todo), buffers)
  BY <1>1, RestShaped
<1>3. ~ Has(Tail(Todo), "gc") /\ Shaped(Tail(Todo))
  BY <1>2, PlainFacts
<1>4. Goes(Tail(Todo))
  BY DEF Drop
<1> QED
  BY <1>1, <1>2, <1>3, <1>4, GoesOn

LEMMA AskOn ==
    ASSUME Good, PeerOK, NEW do, Now(do), do \notin Deletes \union {"cleaning"},
           NEW ask, ask \in {"full", "gc"}, Goes(<<Done(ask)>> \o Tail(Todo)), Moves,
           UNCHANGED <<heard, buffers, stage, hand>>, cleaning => cleaning', ask = "gc" => ~ Collecting
    PROVE  AgendaOK' /\ StageOK' /\ CollectOK' /\ BuffersOK'
<1>1. /\ Todo = agenda[hand] /\ Shaped(agenda[hand]) /\ Backed(agenda[hand], buffers)
      /\ agenda[hand] # <<>> /\ agenda[hand][1].do = do
      /\ (stage # "erase" \/ hand # "idle") /\ (hand = "idle" => ~ Has(Tail(Todo), "store"))
  BY NowFacts
<1>2. Plain(Tail(Todo)) /\ Backed(Tail(Todo), buffers)
  BY <1>1, RestShaped
<1>3. ~ Has(Tail(Todo), "gc")
  BY <1>2, PlainFacts
<1>4. Done(ask) \in Todos /\ Done(ask).do = ask /\ Fits(Done(ask)) /\ ask # "store"
  BY ItemFacts
<1> DEFINE rest == <<Done(ask)>> \o Tail(Todo)
<1>5. /\ Shaped(rest) /\ \A bs : Backed(Tail(Todo), bs) => Backed(rest, bs)
      /\ \A d : Has(rest, d) => d = ask \/ Has(Tail(Todo), d)
      /\ Leads(rest, ask)
  BY <1>2, <1>4, ThenPlain
<1>6. Goes(rest)
  OBVIOUS
<1> HIDE DEF rest
<1>7. /\ Backed(rest, buffers) /\ (Has(rest, "gc") => ~ Collecting)
      /\ hand = "idle" => ~ Has(rest, "store")
  BY <1>1, <1>2, <1>3, <1>4, <1>5
<1>8. hand = "idle" => GoesClean(rest)
  BY <1>4, <1>5 DEF Leads, GoesClean
<1> QED
  BY <1>1, <1>5, <1>6, <1>7, <1>8, GoesOn

\* The ranks as pm_peer_rank_highest takes them.
LEMMA RanksNowFacts ==
    ASSUME Good, PeerOK
    PROVE  /\ RanksNow \in RankInfo /\ RanksNow.token = ranks.token
           /\ \A t \in Nat : [RanksNow EXCEPT !.token = t] \in RankInfo
                             /\ [RanksNow EXCEPT !.token = t].token = t
<1>1. ranks \in RankInfo /\ used \subseteq Files
  BY DEF PeerOK, RanksOK, PeersOK
<1>2. Highest \in Files \union {NoPeer}
  BY <1>1, RankedFacts DEF Ranked, Active
<1>3. RanksNow \in RankInfo /\ RanksNow.token = ranks.token
  BY <1>1, <1>2 DEF RanksNow, RankInfo
<1> QED
  BY <1>3 DEF RankInfo

LEMMA DoRank ==
    ASSUME Good, PeerOK, Rank
    PROVE  PeerOK' /\ [Step]_vars
<1>1. Now("rank")
  BY DEF Rank
<1>2. Peer \in Files /\ phase # "off" /\ (hand = "event" => heard) /\ hand \in Contexts
  BY <1>1, NowFacts DEF Fits
<1>3. /\ RanksNow \in RankInfo /\ RanksNow.token = ranks.token
      /\ \A t \in Nat : [RanksNow EXCEPT !.token = t] \in RankInfo
                        /\ [RanksNow EXCEPT !.token = t].token = t
  BY RanksNowFacts
<1>4. (ranks.token # 0 => Awaited(ranks.token)) /\ rankQueue \in Seq(Files) /\ PeersOK /\ heard \in BOOLEAN
      /\ (heard => hand = "event")
  BY DEF PeerOK, RanksOK, AgendaOK
<1>5. PICK p \in Files : p = Peer
  BY <1>2
<1>6. ASSUME UNCHANGED <<used, deleted>> PROVE PeersOK'
  BY <1>4, <1>6 DEF PeersOK
<1>7. ASSUME UNCHANGED vars, UNCHANGED heard, ranks' = RanksNow, rankQueue' \in Seq(Files) PROVE RanksOK'
  <2>1. PICK t : t = ranks.token
    OBVIOUS
  <2>2. t # 0 => Awaited(t)'
    BY <1>4, <1>7, <2>1, MovesFacts DEF Moves
  <2>3. ranks'.token = t
    BY <1>3, <1>7, <2>1
  <2>4. ranks'.token # 0 => Awaited(ranks.token)'
    BY <2>2, <2>3 DEF Awaited
  <2> QED
    BY <1>3, <1>7, <2>4 DEF RanksOK, RankInfo
<1>8. CASE /\ rankQueue' = Append(rankQueue, Peer)
           /\ ranks' = RanksNow
           /\ Goes(<<Done("full")>> \o Tail(Todo))
           /\ UNCHANGED <<vars, used, deleted, erasing, cleaning, writeAfterGc, buffers, heard, events>>
  <2>1. Moves /\ UNCHANGED <<vars, hand, stage>>
    BY <1>8 DEF Moves, erasing, vars
  <2>2. AgendaOK' /\ StageOK' /\ CollectOK' /\ BuffersOK'
    BY <1>1, <1>8, <2>1, AskOn DEF Deletes
  <2>3. rankQueue' \in Seq(Files)
    BY <1>4, <1>5, <1>8
  <2> QED
    BY <1>6, <1>7, <1>8, <2>1, <2>2, <2>3 DEF PeerOK
<1>9. CASE /\ ranks' = RanksNow
           /\ Drop
           /\ UNCHANGED <<vars, used, deleted, erasing, cleaning, rankQueue, buffers, heard, events>>
  <2>1. Moves /\ UNCHANGED <<vars, stage>>
    BY <1>9 DEF Moves, erasing
  <2>2. AgendaOK' /\ StageOK' /\ CollectOK' /\ BuffersOK'
    BY <1>1, <1>9, <2>1, DropOn DEF Deletes
  <2> QED
    BY <1>4, <1>6, <1>7, <1>9, <2>1, <2>2 DEF PeerOK
<1>10. CASE /\ StoreData(Peer, "rank")
            /\ ranks' = [RanksNow EXCEPT !.token = latest']
            /\ Drop
            /\ UNCHANGED <<used, deleted, erasing, clean, buffers, heard, events>>
  <2>1. StoreData(p, "rank")
    BY <1>5, <1>10
  <2>2. Step /\ latest' \in Nat /\ \E o : Sends(o, p, "rank")
    BY <2>1, StoreGrows
  <2>3. PICK o : Grows(o) /\ IsWriteOp(o) /\ o.id = latest' /\ o.code # "gc"
    BY <2>2 DEF Sends
  <2>4. Moves /\ UNCHANGED <<stage, cleaning, rankQueue>>
    BY <1>10, <2>3 DEF Moves, erasing, clean
  <2>5. AgendaOK' /\ StageOK' /\ CollectOK' /\ BuffersOK'
    BY <1>1, <1>10, <2>4, DropOn DEF Deletes
  <2>6. Awaited(o.id)'
    BY <1>4, <1>10, <2>3, GrowFacts
  <2>7. ranks' \in RankInfo /\ ranks'.token = latest'
    BY <1>3, <1>10, <2>2
  <2>8. Awaited(ranks.token)'
    BY <2>3, <2>6, <2>7 DEF Awaited
  <2>9. RanksOK'
    BY <1>4, <2>4, <2>7, <2>8 DEF RanksOK, RankInfo
  <2> QED
    BY <1>6, <1>10, <2>2, <2>5, <2>9 DEF PeerOK
<1>11. CASE Stop
  BY <1>2, <1>11, DoStop DEF Stop
<1> QED
  BY <1>8, <1>9, <1>10, <1>11 DEF Rank

LEMMA DoStorageFull ==
    ASSUME Good, PeerOK, StorageFull
    PROVE  PeerOK'
<1>1. Now("full") /\ UNCHANGED <<vars, used, erasing, cleaning, rankQueue, ranks, buffers, heard, events>>
  BY DEF StorageFull
<1>2. /\ Todo = agenda[hand] /\ Shaped(agenda[hand]) /\ Backed(agenda[hand], buffers)
      /\ agenda[hand] # <<>> /\ agenda[hand][1].do = "full"
      /\ (stage # "erase" \/ hand # "idle") /\ (hand = "idle" => ~ Has(Tail(Todo), "store"))
      /\ (~ cleaning => ~ Collecting)
  BY <1>1, NowFacts DEF Deletes
<1>3. Moves /\ UNCHANGED <<hand, stage>>
  BY <1>1 DEF Moves, vars, erasing
<1>4. RanksOK'
  BY <1>1, <1>3, RanksStay
<1>5. CASE cleaning /\ Drop /\ UNCHANGED <<deleted, writeAfterGc>>
  <2>1. AgendaOK' /\ StageOK' /\ CollectOK' /\ BuffersOK'
    BY <1>1, <1>3, <1>5, DropOn DEF Deletes
  <2>2. PeersOK'
    BY <1>1, <1>5 DEF PeerOK, PeersOK
  <2> QED
    BY <1>4, <2>1, <2>2 DEF PeerOK
<1>6. CASE ~ cleaning /\ Goes(<<Done("gc")>> \o Tail(Todo)) /\ UNCHANGED deleted
  <2>1. AgendaOK' /\ StageOK' /\ CollectOK' /\ BuffersOK'
    BY <1>1, <1>2, <1>3, <1>6, AskOn DEF Deletes
  <2>2. PeersOK'
    BY <1>1, <1>6 DEF PeerOK, PeersOK
  <2> QED
    BY <1>4, <2>1, <2>2 DEF PeerOK
<1>7. CASE /\ ~ cleaning /\ Ranked # {}
           /\ deleted' = deleted \union {Lowest}
           /\ Goes(<<Done("deletes"), Done("gc")>> \o Tail(Todo))
  <2>1. Plain(Tail(Todo)) /\ Backed(Tail(Todo), buffers)
    BY <1>2, RestShaped DEF Deletes
  <2> DEFINE rest == <<Done("deletes"), Done("gc")>> \o Tail(Todo)
  <2>2. /\ Shaped(rest) /\ \A bs : Backed(Tail(Todo), bs) => Backed(rest, bs)
        /\ \A do : Has(rest, do) => do \in {"deletes", "gc"} \/ Has(Tail(Todo), do)
        /\ Leads(rest, "deletes")
    BY <2>1, DeletesThenPlain
  <2>3. Goes(rest)
    BY <1>7
  <2> HIDE DEF rest
  <2>4. /\ Backed(rest, buffers) /\ (hand = "idle" => ~ Has(rest, "store") /\ GoesClean(rest))
        /\ (Has(rest, "gc") => ~ Collecting)
    BY <1>2, <1>3, <1>7, <2>1, <2>2 DEF GoesClean, Leads
  <2>5. AgendaOK' /\ StageOK' /\ CollectOK' /\ BuffersOK'
    BY <1>1, <1>2, <1>3, <1>7, <2>2, <2>3, <2>4, GoesOn
  <2>6. Lowest \in used
    BY <1>7, RankedFacts DEF Ranked, Active
  <2>7. PeersOK'
    BY <1>1, <1>7, <2>6 DEF PeerOK, PeersOK
  <2> QED
    BY <1>4, <2>5, <2>7 DEF PeerOK
<1>8. CASE ~ cleaning /\ Drop /\ UNCHANGED deleted
  <2>1. AgendaOK' /\ StageOK' /\ CollectOK' /\ BuffersOK'
    BY <1>1, <1>3, <1>8, DropOn DEF Deletes
  <2>2. PeersOK'
    BY <1>1, <1>8 DEF PeerOK, PeersOK
  <2> QED
    BY <1>4, <2>1, <2>2 DEF PeerOK
<1> QED
  BY <1>5, <1>6, <1>7, <1>8 DEF StorageFull

LEMMA DoCleanFlash ==
    ASSUME Good, PeerOK, CleanFlash
    PROVE  PeerOK' /\ [Step]_vars
<1>1. Now("gc")
  BY DEF CleanFlash
<1>2. /\ hand \in Contexts /\ Todo = agenda[hand] /\ Shaped(agenda[hand]) /\ Backed(agenda[hand], buffers)
      /\ agenda[hand] # <<>> /\ agenda[hand][1].do = "gc" /\ phase # "off" /\ Has(agenda[hand], "gc")
      /\ (stage # "erase" \/ hand # "idle") /\ (hand = "idle" => ~ Has(Tail(Todo), "store"))
      /\ (hand = "event" => heard) /\ (hand = "idle" => ~ heard /\ agenda.event = <<>>)
  BY <1>1, NowFacts DEF Deletes
<1>3. Plain(Tail(Todo)) /\ Backed(Tail(Todo), buffers)
  BY <1>2, RestShaped DEF Deletes
<1>4. ~ Collecting /\ (Has(agenda.idle, "gc") => hand \in {"idle", "run"})
  BY <1>2 DEF PeerOK, CollectOK, IdleCleans, Contexts
<1>5. CASE /\ GcRequest
           /\ Goes(<<Done("cleaning")>> \o Tail(Todo))
           /\ UNCHANGED <<used, deleted, erasing, clean, ranks, buffers, heard, events>>
  <2>1. Step /\ Grows(NewOp) /\ NewOp.code = "gc"
    BY <1>4, <1>5, CollectGrows
  <2>2. /\ UNCHANGED phase /\ hand' = IF queue = <<>> THEN "run" ELSE hand
    BY <2>1 DEF Grows
  <2>3. /\ \A t : Awaited(t) => Awaited(t)'
        /\ OneCollects' /\ (queue = <<>> => Op' = NewOp) /\ (hand = "event" => hand' = "event")
        /\ (hand = "idle" => hand' = "idle" \/ (hand' = "run" /\ Op'.code = "gc"))
    BY <1>4, <1>5, <2>1, <2>2, GrowFacts, QueueTypes
  <2>4. Done("cleaning") \in Todos /\ Done("cleaning").do = "cleaning" /\ Fits(Done("cleaning"))
    BY ItemFacts
  <2> DEFINE rest == <<Done("cleaning")>> \o Tail(Todo)
  <2>5. /\ Shaped(rest) /\ \A bs : Backed(Tail(Todo), bs) => Backed(rest, bs)
        /\ \A d : Has(rest, d) => d = "cleaning" \/ Has(Tail(Todo), d)
        /\ Leads(rest, "cleaning")
    BY <1>3, <2>4, ThenPlain
  <2>6. Goes(rest)
    BY <1>5
  <2> HIDE DEF rest
  <2>7. /\ Backed(rest, buffers') /\ ~ Has(rest, "gc") /\ UNCHANGED <<stage, buffers, rankQueue, cleaning>>
        /\ hand = "idle" => ~ Has(rest, "store")
    BY <1>2, <1>3, <1>5, <2>5, PlainFacts DEF erasing, clean
  <2>8. AgendaOK'
    BY <1>1, <1>5, <2>3, <2>5, <2>6, <2>7, GoesAgenda
  <2>9. StageOK'
    BY <1>1, <1>2, <2>2, <2>6, <2>7, GoesStage
  <2>10. CollectOK'
    <3>1. agenda \in [Contexts -> Seq(Todos)] /\ agenda' = [agenda EXCEPT ![hand] = rest]
      BY <2>6 DEF PeerOK, AgendaOK, Goes
    <3>2. /\ hand = "event" => agenda'.event = rest /\ agenda'.idle = agenda.idle
          /\ hand = "idle" => agenda'.idle = rest /\ agenda'.event = agenda.event
      BY <1>2, <3>1 DEF Contexts
    <3>3. Leads(agenda.idle, "cleaning")' = Leads(agenda'.idle, "cleaning")
          /\ Leads(agenda.event, "cleaning")' = Leads(agenda'.event, "cleaning")
          /\ Has(agenda.idle, "gc")' = Has(agenda'.idle, "gc") /\ Has(agenda.event, "gc")' = Has(agenda'.event, "gc")
      BY DEF Leads, Has
    <3>4. Cleans'
      BY <1>2, <2>3, <2>5, <3>2, <3>3 DEF Cleans, Contexts
    <3>5. ~ Has(agenda'.event, "gc") /\ ~ Has(agenda'.idle, "gc")
      BY <1>2, <1>4, <2>7, <3>2, AgendaEmpty DEF Contexts
    <3>6. ~ (hand' = "event" /\ ~ heard')
      BY <1>2, <1>5, <2>3 DEF Contexts
    <3> QED
      BY <2>3, <3>3, <3>4, <3>5, <3>6 DEF CollectOK
  <2>11. BuffersOK'
    BY <2>3, <2>7 DEF PeerOK, BuffersOK
  <2>12. RanksOK'
    BY <1>5, <2>3, <2>7 DEF PeerOK, RanksOK
  <2>13. PeersOK'
    BY <1>5 DEF PeerOK, PeersOK
  <2> QED
    BY <2>1, <2>8, <2>9, <2>10, <2>11, <2>12, <2>13 DEF PeerOK
<1>6. CASE /\ Drop
           /\ UNCHANGED <<vars, used, deleted, erasing, clean, ranks, buffers, heard, events>>
  <2>1. Moves /\ UNCHANGED <<stage, cleaning, rankQueue, vars>>
    BY <1>6 DEF Moves, erasing, clean
  <2>2. AgendaOK' /\ StageOK' /\ CollectOK' /\ BuffersOK'
    BY <1>1, <1>6, <2>1, DropOn DEF Deletes
  <2>3. RanksOK'
    BY <1>6, <2>1, RanksStay
  <2>4. PeersOK'
    BY <1>6 DEF PeerOK, PeersOK
  <2> QED
    BY <2>1, <2>2, <2>3, <2>4 DEF PeerOK
<1>7. CASE Stop
  BY <1>2, <1>7, DoStop DEF Stop
<1> QED
  BY <1>5, <1>6, <1>7 DEF CleanFlash

LEMMA DoFlashCleaning ==
    ASSUME Good, PeerOK, FlashCleaning
    PROVE  PeerOK'
<1>1. /\ Now("cleaning") /\ cleaning' = TRUE /\ Drop
      /\ UNCHANGED <<vars, used, deleted, erasing, rankQueue, ranks, buffers, heard>>
  BY DEF FlashCleaning
<1>2. Moves /\ UNCHANGED stage
  BY <1>1 DEF Moves, erasing
<1>3. AgendaOK' /\ StageOK' /\ CollectOK' /\ BuffersOK'
  BY <1>1, <1>2, DropOn DEF Deletes
<1>4. RanksOK'
  BY <1>1, <1>2, RanksStay
<1>5. PeersOK'
  BY <1>1 DEF PeerOK, PeersOK
<1> QED
  BY <1>3, <1>4, <1>5 DEF PeerOK

LEMMA DoNothingDeferred ==
    ASSUME Good, PeerOK, NothingDeferred
    PROVE  PeerOK'
<1>1. /\ Now("deferred") /\ Drop
      /\ UNCHANGED <<vars, used, deleted, erasing, clean, ranks, buffers, heard>>
  BY DEF NothingDeferred
<1>2. Moves /\ UNCHANGED <<stage, cleaning, rankQueue>>
  BY <1>1 DEF Moves, erasing, clean
<1>3. AgendaOK' /\ StageOK' /\ CollectOK' /\ BuffersOK'
  BY <1>1, <1>2, DropOn DEF Deletes
<1>4. RanksOK'
  BY <1>1, <1>2, RanksStay
<1>5. PeersOK'
  BY <1>1 DEF PeerOK, PeersOK
<1> QED
  BY <1>3, <1>4, <1>5 DEF PeerOK

\* What deletes peers goes on likewise, but that a collection may follow.
LEMMA DeletesDone ==
    ASSUME Good, PeerOK, NEW do \in Deletes, Now(do), Drop, Moves, UNCHANGED <<heard, buffers, stage>>,
           cleaning => cleaning',
           hand = "idle" /\ Leads(Tail(Todo), "gc") => hand' = "idle" \/ (hand' = "run" /\ DeletesFirst')
    PROVE  AgendaOK' /\ StageOK' /\ CollectOK' /\ BuffersOK'
<1>1. /\ hand \in Contexts /\ Todo = agenda[hand] /\ Shaped(agenda[hand]) /\ Backed(agenda[hand], buffers)
      /\ agenda[hand] # <<>> /\ (hand = "idle" => ~ Has(Tail(Todo), "store")) /\ agenda[hand][1].do = do
  BY NowFacts
<1>2. /\ Shaped(Tail(Todo)) /\ Backed(Tail(Todo), buffers)
      /\ (Has(Tail(Todo), "gc") => Has(agenda[hand], "gc") /\ Leads(Tail(Todo), "gc"))
  BY <1>1, RestShaped DEF Leads, Deletes
<1>3. Has(agenda[hand], "gc") => ~ Collecting
  BY <1>1 DEF PeerOK, CollectOK, Contexts
<1>4. stage = "erase" /\ hand = "idle" => \A i \in 1 .. Len(Tail(Todo)) : Tail(Todo)[i].do \in Deletes
  <2>1. stage = "erase" => \A i \in 1 .. Len(agenda.idle) : agenda.idle[i].do \in Deletes
    BY DEF PeerOK, StageOK
  <2>2. \A i \in 1 .. Len(Tail(Todo)) : i + 1 \in 1 .. Len(agenda[hand]) /\ Tail(Todo)[i] = agenda[hand][i + 1]
    BY <1>1, RestFacts
  <2> QED
    BY <1>1, <2>1, <2>2
<1>5. Goes(Tail(Todo))
  BY DEF Drop
<1>6. hand = "idle" /\ Has(Tail(Todo), "gc") => GoesClean(Tail(Todo))
  BY <1>2 DEF GoesClean, Leads
<1>7. do # "cleaning"
  BY DEF Deletes
<1> QED
  BY <1>1, <1>2, <1>3, <1>4, <1>5, <1>6, <1>7, GoesOn

\* It becomes its next call, a call of fds_file_delete for data it found.
LEMMA DeletesOn ==
    ASSUME Good, PeerOK, NEW do \in Deletes \union {"deferred"}, Now(do), UNCHANGED <<vars, heard, buffers, stage>>,
           NEW x \in Todos, Fits(x), x.do \in Deletes, Goes(<<x>> \o Tail(Todo)), UNCHANGED cleaning,
           x.do = "file" => DataOf(x.arg) # {}
    PROVE  AgendaOK' /\ StageOK' /\ CollectOK' /\ BuffersOK'
<1>1. /\ hand \in Contexts /\ Todo = agenda[hand] /\ Shaped(agenda[hand]) /\ Backed(agenda[hand], buffers)
      /\ agenda[hand] # <<>> /\ (hand = "idle" => ~ Has(Tail(Todo), "store")) /\ agenda[hand][1].do = do
      /\ (stage = "erase" /\ hand = "idle" => do \in Deletes)
  BY NowFacts
<1> DEFINE rest == <<x>> \o Tail(Todo)
<1>2. /\ Shaped(rest) /\ Leads(rest, x.do) /\ rest[1] = x
      /\ Backed(rest, buffers)
      /\ \A d : Has(rest, d) => d = x.do \/ Has(Tail(Todo), d)
  BY <1>1, ThenRest
<1>3. Goes(rest)
  OBVIOUS
<1>4. Len(rest) = Len(Tail(Todo)) + 1 /\ \A i \in 1 .. Len(rest) : rest[i] = x \/ (i - 1 \in 1 .. Len(Tail(Todo)) /\ rest[i] = Tail(Todo)[i - 1])
  BY <1>1, RestFacts
<1> HIDE DEF rest
<1>5. Has(Tail(Todo), "gc") => Has(agenda[hand], "gc")
  BY <1>1, RestShaped
<1>6. Has(rest, "gc") => ~ Collecting
  BY <1>1, <1>2, <1>5 DEF PeerOK, CollectOK, Contexts, Deletes
<1>7. stage = "erase" /\ hand = "idle" => \A i \in 1 .. Len(rest) : rest[i].do \in Deletes
  <2>1. stage = "erase" => \A i \in 1 .. Len(agenda.idle) : agenda.idle[i].do \in Deletes
    BY DEF PeerOK, StageOK
  <2>2. \A i \in 1 .. Len(Tail(Todo)) : i + 1 \in 1 .. Len(agenda[hand]) /\ Tail(Todo)[i] = agenda[hand][i + 1]
    BY <1>1, RestFacts
  <2> QED
    BY <1>1, <1>4, <2>1, <2>2
<1>8. Moves /\ UNCHANGED hand
  BY DEF Moves, vars
<1>9. hand = "idle" /\ Has(rest, "gc") => GoesClean(rest)
  BY <1>2, <1>8 DEF GoesClean, Leads
<1>10. do # "cleaning" /\ (hand = "idle" => ~ Has(rest, "store"))
  BY <1>1, <1>2 DEF Deletes
<1> QED
  BY <1>1, <1>2, <1>3, <1>6, <1>7, <1>8, <1>9, <1>10, GoesOn

\* The item it becomes.
LEMMA BecomesOn ==
    ASSUME Good, PeerOK, NEW do \in Deletes \union {"deferred"}, Now(do), UNCHANGED <<vars, clean, ranks, heard, buffers, stage>>,
           NEW next \in Deletes, NEW arg \in Nat, Becomes(next, arg), next \in {"find", "file"} => arg \in Files,
           next = "file" => DataOf(arg) # {}, PeersOK'
    PROVE  PeerOK'
<1>1. PICK x \in Todos : x = Item(next, arg) /\ x.do = next /\ x.arg = arg
  BY ItemFacts
<1>2. Fits(x)
  BY <1>1 DEF Fits, Deletes
<1>3. AgendaOK' /\ StageOK' /\ CollectOK' /\ BuffersOK'
  BY <1>1, <1>2, DeletesOn DEF Becomes, clean
<1>4. RanksOK'
  BY RanksStay DEF Moves, clean
<1> QED
  BY <1>3, <1>4 DEF PeerOK

LEMMA DoStartDeletes ==
    ASSUME Good, PeerOK, StartDeletes
    PROVE  PeerOK'
<1>1. UNCHANGED <<vars, clean, ranks, heard, buffers, stage, used, deleted>> /\ Becomes("next", NoPeer)
  BY DEF StartDeletes
<1>2. PeersOK' /\ NoPeer \in Nat /\ "next" \in Deletes
  BY <1>1 DEF PeerOK, PeersOK, NoPeer, Deletes
<1>3. PICK do \in Deletes \union {"deferred"} : Now(do)
  BY DEF StartDeletes, Deletes
<1> QED
  BY <1>1, <1>2, <1>3, BecomesOn

LEMMA DoNextDeleted ==
    ASSUME Good, PeerOK, NextDeleted
    PROVE  PeerOK'
<1> DEFINE left == {p \in deleted : p > Peer}
<1>1. /\ Now("next") /\ UNCHANGED <<vars, clean, ranks, heard, buffers, stage, used, deleted>>
      /\ \/ left = {} /\ Drop
         \/ left # {} /\ \E next \in {"find", "free"} : Becomes(next, Min(left))
  BY DEF NextDeleted, erasing
<1>2. PeersOK'
  BY <1>1 DEF PeerOK, PeersOK
<1>3. CASE left = {} /\ Drop
  <2>1. "next" \in Deletes /\ Moves /\ UNCHANGED <<hand, cleaning, rankQueue>>
    BY <1>1 DEF Deletes, Moves, clean, vars
  <2>2. AgendaOK' /\ StageOK' /\ CollectOK' /\ BuffersOK'
    BY <1>1, <1>3, <2>1, DeletesDone
  <2>3. RanksOK'
    BY <1>1, <2>1, RanksStay
  <2> QED
    BY <1>2, <2>2, <2>3 DEF PeerOK
<1>4. ASSUME left # {}, NEW next \in {"find", "free"}, Becomes(next, Min(left)) PROVE PeerOK'
  <2>1. Min(left) \in left
    <3>1. left \in SUBSET Nat
      BY ConstantFacts DEF PeerOK, PeersOK
    <3> QED
      BY <1>4, <3>1, MinOf
  <2>2. Min(left) \in Files /\ Min(left) \in Nat
    BY <2>1, ConstantFacts DEF PeerOK, PeersOK
  <2>3. PICK p \in Files : p = Min(left) /\ p \in Nat
    BY <2>2
  <2> HIDE DEF left
  <2>4. Becomes(next, p) /\ next \in Deletes /\ "next" \in Deletes /\ next # "file"
    BY <1>4, <2>3 DEF Deletes
  <2> QED
    BY <1>1, <1>2, <2>3, <2>4, BecomesOn
<1> QED
  BY <1>1, <1>3, <1>4

LEMMA DoFindInFile ==
    ASSUME Good, PeerOK, FindInFile
    PROVE  PeerOK'
<1>1. /\ Now("find") /\ UNCHANGED <<vars, clean, ranks, heard, buffers, stage, used, deleted>>
  BY DEF FindInFile, erasing
<1>2. PICK next \in {"file", "free"} : Becomes(next, Peer) /\ (next = "file" => DataOf(Peer) # {})
  BY DEF FindInFile
<1>3. PICK p \in Files : p = Peer /\ p \in Nat
  <2>1. agenda[hand][1].do \in {"find", "file"} /\ Fits(agenda[hand][1]) /\ Peer = agenda[hand][1].arg
    BY <1>1, NowFacts
  <2> QED
    BY <2>1, ConstantFacts DEF Fits
<1>4. Becomes(next, p) /\ (next = "file" => DataOf(p) # {}) /\ next \in Deletes /\ "find" \in Deletes
  BY <1>2, <1>3 DEF Deletes
<1>5. PeersOK'
  BY <1>1 DEF PeerOK, PeersOK
<1> QED
  BY <1>1, <1>3, <1>4, <1>5, BecomesOn

LEMMA DoFreeId ==
    ASSUME Good, PeerOK, FreeId \/ Unmark
    PROVE  PeerOK'
<1>1. PICK do \in {"free", "unmark"}, next \in {"unmark", "next"} : Now(do) /\ Becomes(next, Peer)
  BY DEF FreeId, Unmark
<1>2. UNCHANGED <<vars, clean, ranks, heard, buffers, stage>> /\ PeersOK'
  BY DEF FreeId, Unmark, erasing, PeerOK, PeersOK
<1>3. do \in Deletes /\ next \in Deletes /\ next \notin {"find", "file"}
  BY DEF Deletes
<1>4. PICK n \in Nat : n = Peer
  BY <1>1, NowFacts DEF Todos
<1> QED
  BY <1>1, <1>2, <1>3, <1>4, BecomesOn

LEMMA DoDeletePeer ==
    ASSUME Good, PeerOK, DeletePeer
    PROVE  PeerOK' /\ [Step]_vars
<1>1. Now("file") /\ "file" \in Deletes /\ "defer" \in Deletes
  BY DEF DeletePeer, Deletes
<1>2. PICK p \in Files : p = Peer /\ p \in Nat
  <2>1. agenda[hand][1].do \in {"find", "file"} /\ Fits(agenda[hand][1]) /\ Peer = agenda[hand][1].arg
    BY <1>1, NowFacts
  <2> QED
    BY <2>1, ConstantFacts DEF Fits
<1>3. phase # "off" /\ PeersOK
  BY <1>1, NowFacts DEF PeerOK
<1>4. CASE FileDelete(Peer) /\ Drop
           /\ UNCHANGED <<used, deleted, erasing, clean, ranks, buffers, heard, events>>
  <2>1. Step /\ phase = "initialized" /\ \E o : Grows(o) /\ o.code = "delete file" /\ o.step = "flag" /\ o.file = p
    BY <1>2, <1>4, DeleteGrows
  <2>2. PICK o : Grows(o) /\ o.code = "delete file" /\ o.step = "flag" /\ o.file = p
    BY <2>1
  <2>3. Moves /\ UNCHANGED <<cleaning, rankQueue, stage>>
    BY <1>4, <2>2 DEF Moves, clean, erasing
  <2>4. hand' = (IF queue = <<>> THEN "run" ELSE hand) /\ DataOf(p)' = DataOf(p)
    BY <1>4, <2>2, GrowFacts DEF Grows
  <2>5. hand = "idle" /\ Leads(Tail(Todo), "gc") => DataOf(p) # {}
    <3> SUFFICES ASSUME hand = "idle", Leads(Tail(Todo), "gc") PROVE DataOf(p) # {}
      OBVIOUS
    <3>1. /\ Todo = agenda.idle /\ Shaped(agenda.idle) /\ agenda.idle # <<>>
          /\ Leads(agenda.idle, "file") /\ Peer = agenda.idle[1].arg
      BY <1>1, NowFacts
    <3>2. Has(agenda.idle, "gc")
      BY <3>1, RestShaped DEF Has, Leads
    <3> QED
      BY <1>2, <3>1, <3>2 DEF PeerOK, CollectOK, IdleCleans
  <2>6. ASSUME queue = <<>>, DataOf(p) # {} PROVE DeletesFirst'
    <3>1. Op' = o
      BY <1>4, <2>2, <2>6, GrowFacts
    <3>2. queue' = Append(<<>>, o) /\ UNCHANGED tok
      BY <2>2, <2>6 DEF Grows
    <3>3. Len(queue') = 1
      BY <3>2
    <3>4. tok = TokStart
      BY <2>1, <2>6, BetweenFacts DEF Working
    <3>5. Op'.file = p
      BY <2>2, <3>1
    <3>6. DataOf(Op.file)' # {}
      BY <2>4, <2>6, <3>1, <3>5 DEF DataOf
    <3>7. (tok = TokStart)'
      BY <3>2, <3>4 DEF TokStart
    <3> QED
      BY <2>2, <3>1, <3>3, <3>6, <3>7 DEF DeletesFirst
  <2>7. AgendaOK' /\ StageOK' /\ CollectOK' /\ BuffersOK'
    BY <1>1, <1>4, <2>3, <2>4, <2>5, <2>6, DeletesDone
  <2>8. RanksOK'
    BY <1>4, <2>3, RanksStay
  <2>9. PeersOK'
    BY <1>3, <1>4 DEF PeersOK
  <2> QED
    BY <2>1, <2>7, <2>8, <2>9 DEF PeerOK
<1>5. CASE Becomes("defer", Peer) /\ UNCHANGED <<vars, used, deleted, erasing, clean, ranks, buffers, heard, events>>
  <2>1. PeersOK' /\ UNCHANGED stage /\ Becomes("defer", p)
    BY <1>2, <1>3, <1>5 DEF PeersOK, erasing
  <2> QED
    BY <1>1, <1>2, <1>5, <2>1, BecomesOn
<1>6. CASE Stop
  BY <1>3, <1>6, DoStop DEF Stop
<1> QED
  BY <1>4, <1>5, <1>6 DEF DeletePeer

LEMMA DoDefer ==
    ASSUME Good, PeerOK, Defer
    PROVE  PeerOK'
<1>1. /\ Now("defer") /\ "defer" \in Deletes /\ Drop /\ Moves
      /\ UNCHANGED <<hand, heard, buffers, stage, cleaning, ranks, rankQueue, used, deleted>>
  BY DEF Defer, Deletes, Moves, clean, vars
<1>2. AgendaOK' /\ StageOK' /\ CollectOK' /\ BuffersOK'
  BY <1>1, DeletesDone
<1>3. RanksOK' /\ PeersOK'
  BY <1>1, RanksStay DEF PeerOK, PeersOK
<1> QED
  BY <1>2, <1>3 DEF PeerOK

LEMMA DoDeleteProcess ==
    ASSUME Good, PeerOK, DeleteProcess
    PROVE  PeerOK' /\ [Step]_vars
<1>1. CASE DeletePeer
  BY <1>1, DoDeletePeer
<1>2. CASE StartDeletes \/ NextDeleted \/ FindInFile \/ FreeId \/ Unmark \/ Defer
  <2>1. UNCHANGED vars
    BY <1>2 DEF StartDeletes, NextDeleted, FindInFile, FreeId, Unmark, Defer
  <2> QED
    BY <1>2, <2>1, DoStartDeletes, DoNextDeleted, DoFindInFile, DoFreeId, DoDefer
<1> QED
  BY <1>1, <1>2 DEF DeleteProcess

-----------------------------------------------------------------------------
\* The events of fds.

\* What an event adds to the agenda.
LEMMA ThenDeferred ==
    ASSUME NEW s, Plain(s)
    PROVE  Plain(s \o <<Done("deferred")>>) /\ \A bs : Backed(s, bs) => Backed(s \o <<Done("deferred")>>, bs)
<1>1. Done("deferred") \in Todos /\ Done("deferred").do = "deferred" /\ Fits(Done("deferred"))
  BY ItemFacts
<1> DEFINE x == Done("deferred")
<1>2. <<x>> \in Seq(Todos) /\ Len(<<x>>) = 1 /\ <<x>>[1] = x
  BY <1>1
<1>3. Plain(<<x>>) /\ \A bs : Backed(<<x>>, bs)
  BY <1>1, <1>2 DEF Plain, Backed
<1> QED
  BY <1>3, CatPlain

LEMMA FullThen ==
    ASSUME NEW s, Plain(s), NEW t, Plain(t)
    PROVE  /\ (<<Done("full")>> \o s) \o t = <<Done("full")>> \o (s \o t)
           /\ (<<>> \o s) \o t = s \o t
<1>1. s \in Seq(Todos) /\ t \in Seq(Todos) /\ Done("full") \in Todos
  BY ItemFacts DEF Plain
<1>2. \A x \in Todos : (<<x>> \o s) \o t = <<x>> \o (s \o t)
  BY <1>1
<1>3. <<>> \o s = s
  BY <1>1
<1> QED
  BY <1>1, <1>2, <1>3

\* The record whose event is heard is not waited for any more.
LEMMA HeardAwaits ==
    ASSUME Good, hand = "event", UNCHANGED queue, NEW t, Awaited(t), ~ heard, IsWriteOp(Op) => t # Op.id
    PROVE  Awaited(t)'
<1>1. Op = queue[1]
  BY QueueTypes DEF Telling
<1> QED
  BY <1>1 DEF Awaited, IsWriteOp

\* What is left to show of the handling of an event.
LEMMA HearsOn ==
    ASSUME Good, PeerOK, hand = "event", ~ heard, heard' = TRUE, UNCHANGED <<vars, stage>>, Op.code # "init",
           NEW s, Shaped(s), Backed(s, buffers'), ~ Has(s, "gc"), agenda' = [agenda EXCEPT !.event = s],
           Op.code # "gc" => UNCHANGED cleaning
    PROVE  AgendaOK' /\ StageOK' /\ CollectOK'
<1>1. UNCHANGED <<queue, hand, phase>>
  BY DEF vars, ram
<1>2. /\ agenda \in [Contexts -> Seq(Todos)] /\ Shaped(agenda.idle) /\ agenda.event = <<>>
      /\ ~ Has(agenda.idle, "store")
  BY DEF PeerOK, AgendaOK, Contexts
<1>3. s \in Seq(Todos)
  BY DEF Shaped
<1>4. agenda' \in [Contexts -> Seq(Todos)] /\ agenda'.event = s /\ agenda'.idle = agenda.idle
  BY <1>2, <1>3 DEF Contexts
<1>5. AgendaOK'
  <2>1. Backed(agenda.idle, buffers')
    BY <1>2 DEF Has, Backed
  <2>2. \A c \in Contexts : Shaped(agenda'[c]) /\ Backed(agenda'[c], buffers')
    BY <1>2, <1>4, <2>1 DEF Contexts
  <2>3. Has(agenda.idle, "store")' = Has(agenda'.idle, "store")
    BY DEF Has
  <2> QED
    BY <1>1, <1>2, <1>4, <2>2, <2>3 DEF AgendaOK
<1>6. StageOK'
  <2>1. /\ stage \in {"off", "load", "erase", "up", "stopped"}
        /\ phase = "off" <=> stage = "off"
        /\ stage \in {"off", "load"} => \A k \in 1 .. Len(queue) : queue[k].code = "init"
        /\ stage = "erase" => \A i \in 1 .. Len(agenda.idle) : agenda.idle[i].do \in Deletes
    BY DEF PeerOK, StageOK
  <2>2. Op = queue[1] /\ 1 \in 1 .. Len(queue)
    BY QueueTypes DEF Telling
  <2>3. stage \notin {"off", "load"}
    BY <2>1, <2>2
  <2> QED
    BY <1>1, <1>4, <2>1, <2>3 DEF StageOK
<1>7. CollectOK'
  <2>1. /\ OneCollects /\ (Collecting => Cleans) /\ (Op.code = "gc" => ~ Collecting)
        /\ ~ Has(agenda.idle, "gc")
    BY DEF PeerOK, CollectOK, IdleCleans
  <2>2. (Collecting' <=> Collecting) /\ OneCollects'
    BY <1>1, <2>1 DEF Collecting, OneCollects, Collects
  <2>3. Collecting => cleaning
    BY <1>2, <2>1 DEF Cleans, Leads
  <2>4. Has(agenda.idle, "gc")' = Has(agenda'.idle, "gc") /\ Has(agenda.event, "gc")' = Has(agenda'.event, "gc")
    BY DEF Has
  <2>5. Collecting' => Cleans'
    BY <2>1, <2>2, <2>3 DEF Cleans
  <2> QED
    BY <1>4, <2>1, <2>2, <2>4, <2>5 DEF CollectOK
<1> QED
  BY <1>5, <1>6, <1>7

\* An event that is not of a record leaves alone what waits for one.
LEMMA HearsOther ==
    ASSUME Good, PeerOK, hand = "event", ~ heard, UNCHANGED queue, ~ IsWriteOp(Op)
    PROVE  /\ UNCHANGED buffers => BuffersOK'
           /\ ranks' \in RankInfo /\ ranks'.token = ranks.token /\ rankQueue' \in Seq(Files) => RanksOK'
<1>1. \A t : Awaited(t) => Awaited(t)'
  BY HeardAwaits
<1>2. UNCHANGED buffers => BuffersOK'
  BY <1>1 DEF PeerOK, BuffersOK
<1>3. ASSUME ranks' \in RankInfo, ranks'.token = ranks.token, rankQueue' \in Seq(Files) PROVE RanksOK'
  <2>1. PICK t : t = ranks.token
    OBVIOUS
  <2>2. t # 0 => Awaited(t)'
    BY <1>1, <2>1 DEF PeerOK, RanksOK
  <2>3. ranks'.token # 0 => Awaited(ranks.token)'
    BY <1>3, <2>1, <2>2 DEF Awaited
  <2> QED
    BY <1>3, <2>3 DEF RanksOK, RankInfo
<1> QED
  BY <1>2, <1>3

\* A record that has been stored, or could not be.
LEMMA HearsStore ==
    ASSUME Good, PeerOK, hand = "event", ~ heard, heard' = TRUE, UNCHANGED <<vars, stage>>, IsWriteOp(Op),
           NEW bs, HearStored(bs), bs = [b \in 1 .. Buffers |-> bs[b]],
           \A b \in 1 .. Buffers : buffers[b].token = Op.id => Kept(bs[b]) /\ bs[b].state # "sent",
           \A b \in 1 .. Buffers : buffers[b].token # Op.id => bs[b] = buffers[b]
    PROVE  AgendaOK' /\ StageOK' /\ CollectOK' /\ BuffersOK' /\ PeersOK'
<1>1. /\ agenda' = [agenda EXCEPT !.event = Stores(bs, FALSE) \o <<Done("deferred")>>]
      /\ buffers' = bs /\ UNCHANGED <<used, deleted, cleaning>>
  BY DEF HearStored
<1>2. Plain(Stores(bs, FALSE)) /\ Backed(Stores(bs, FALSE), bs)
  BY StoresFacts
<1> DEFINE s == Stores(bs, FALSE) \o <<Done("deferred")>>
<1>3. Plain(s) /\ Backed(s, bs)
  BY <1>2, ThenDeferred
<1>4. agenda' = [agenda EXCEPT !.event = s]
  BY <1>1
<1> HIDE DEF s
<1>5. Shaped(s) /\ ~ Has(s, "gc") /\ Backed(s, buffers')
  BY <1>1, <1>3, PlainFacts
<1>6. Op.code # "init" /\ Op.code # "gc"
  BY DEF IsWriteOp
<1>7. AgendaOK' /\ StageOK' /\ CollectOK'
  BY <1>1, <1>4, <1>5, <1>6, HearsOn
<1>8. BuffersOK'
  <2>1. /\ buffers \in [1 .. Buffers -> Buffer]
        /\ \A b \in 1 .. Buffers : Kept(buffers[b]) /\ (buffers[b].state = "sent" => Awaited(buffers[b].token))
    BY DEF PeerOK, BuffersOK
  <2>2. UNCHANGED queue
    BY DEF vars, ram
  <2>3. ASSUME NEW b \in 1 .. Buffers
        PROVE  Kept(bs[b]) /\ (bs[b].state = "sent" => \E t : t = bs[b].token /\ Awaited(t)')
    <3>1. CASE buffers[b].token = Op.id
      BY <3>1
    <3>2. CASE buffers[b].token # Op.id
      <4>1. bs[b] = buffers[b]
        BY <3>2
      <4>2. PICK t : t = buffers[b].token
        OBVIOUS
      <4>3. buffers[b].state = "sent" => Awaited(t)'
        BY <2>1, <2>2, <3>2, <4>2, HeardAwaits
      <4> QED
        BY <2>1, <4>1, <4>2, <4>3
    <3> QED
      BY <3>1, <3>2
  <2>4. bs \in [1 .. Buffers -> Buffer]
    BY <2>3 DEF Kept
  <2> QED
    BY <1>1, <2>3, <2>4 DEF BuffersOK, Awaited
<1>9. PeersOK'
  BY <1>1 DEF PeerOK, PeersOK
<1> QED
  BY <1>7, <1>8, <1>9

\* A bond, or a rank, has been stored, or could not be.
LEMMA OpIdFacts ==
    ASSUME Good, hand = "event", IsWriteOp(Op)
    PROVE  Op.id \in Nat \ {0} /\ Op.file \in Files
<1>1. QueueOK /\ queue # <<>>
  BY QueueTypes DEF Telling
<1>2. Op \in OpType /\ OpOK(Op) /\ latest \in Nat
  BY <1>1, OpFacts DEF QueueOK
<1>3. Op.id \in 1 .. latest /\ Op.file \in Files
  BY <1>2 DEF OpOK
<1> QED
  BY <1>2, <1>3

LEMMA RanksHeard ==
    ASSUME Good, PeerOK, hand = "event", ~ heard, UNCHANGED <<queue, rankQueue>>, IsWriteOp(Op),
           \/ ranks.token = Op.id /\ ranks' \in RankInfo /\ ranks'.token = 0
           \/ ranks.token # Op.id /\ UNCHANGED ranks
    PROVE  RanksOK'
<1>1. ranks \in RankInfo /\ (ranks.token # 0 => Awaited(ranks.token)) /\ rankQueue \in Seq(Files)
  BY DEF PeerOK, RanksOK
<1>2. PICK t : t = ranks.token
  OBVIOUS
<1>3. t # 0 /\ t # Op.id => Awaited(t)'
  BY <1>1, <1>2, HeardAwaits
<1>4. ranks'.token # 0 => Awaited(ranks.token)'
  BY <1>2, <1>3 DEF Awaited
<1> QED
  BY <1>1, <1>4 DEF RanksOK, RankInfo

LEMMA DoEventStored ==
    ASSUME Good, PeerOK, hand = "event", ~ heard, heard' = TRUE, UNCHANGED vars, EventStored
    PROVE  PeerOK'
<1>1. /\ IsWriteOp(Op)
      /\ HearStored([b \in 1 .. Buffers |-> IF buffers[b].token = Op.id THEN FreeBuffer ELSE buffers[b]])
      /\ ranks' = IF ranks.token = Op.id THEN [ranks EXCEPT !.token = 0, !.top = Op.file] ELSE ranks
  BY DEF EventStored, IsWriteOp
<1>2. PICK bs : bs = [b \in 1 .. Buffers |-> IF buffers[b].token = Op.id THEN FreeBuffer ELSE buffers[b]]
  OBVIOUS
<1>3. HearStored(bs) /\ UNCHANGED <<stage, rankQueue, queue>>
  BY <1>1, <1>2 DEF HearStored, erasing, vars, ram
<1>4. Kept(FreeBuffer) /\ FreeBuffer.state # "sent"
  BY DEF Kept, Buffer, FreeBuffer, NoPeer
<1>5. /\ \A b \in 1 .. Buffers : buffers[b].token = Op.id => Kept(bs[b]) /\ bs[b].state # "sent"
      /\ \A b \in 1 .. Buffers : buffers[b].token # Op.id => bs[b] = buffers[b]
      /\ bs = [b \in 1 .. Buffers |-> bs[b]]
  BY <1>2, <1>4
<1>6. AgendaOK' /\ StageOK' /\ CollectOK' /\ BuffersOK' /\ PeersOK'
  BY <1>1, <1>3, <1>5, HearsStore
<1>7. Op.file \in Files /\ ranks \in RankInfo
  BY <1>1, OpIdFacts DEF PeerOK, RanksOK
<1>8. [ranks EXCEPT !.token = 0, !.top = Op.file] \in RankInfo /\ [ranks EXCEPT !.token = 0, !.top = Op.file].token = 0
  BY <1>7 DEF RankInfo
<1>9. RanksOK'
  BY <1>1, <1>3, <1>8, RanksHeard
<1> QED
  BY <1>6, <1>9 DEF PeerOK

LEMMA DoEventStoreFailed ==
    ASSUME Good, PeerOK, hand = "event", ~ heard, heard' = TRUE, UNCHANGED vars, EventStoreFailed
    PROVE  PeerOK'
<1>1. /\ IsWriteOp(Op)
      /\ HearStored([b \in 1 .. Buffers |-> IF buffers[b].token = Op.id
                     THEN [buffers[b] EXCEPT !.token = 0, !.state = "busy"] ELSE buffers[b]])
      /\ ranks' = IF ranks.token = Op.id THEN [ranks EXCEPT !.token = 0] ELSE ranks
  BY DEF EventStoreFailed, IsWriteOp
<1>2. PICK bs : bs = [b \in 1 .. Buffers |-> IF buffers[b].token = Op.id
                     THEN [buffers[b] EXCEPT !.token = 0, !.state = "busy"] ELSE buffers[b]]
  OBVIOUS
<1>3. HearStored(bs) /\ UNCHANGED <<stage, rankQueue, queue>>
  BY <1>1, <1>2 DEF HearStored, erasing, vars, ram
<1>4. Op.id # 0 /\ ranks \in RankInfo /\ \A b \in 1 .. Buffers : Kept(buffers[b])
  BY <1>1, OpIdFacts DEF PeerOK, RanksOK, BuffersOK
<1>5. ASSUME NEW b \in 1 .. Buffers, buffers[b].token = Op.id PROVE Kept(bs[b]) /\ bs[b].state # "sent"
  <2>1. buffers[b] \in Buffer /\ buffers[b].peer \in Files
    BY <1>4, <1>5 DEF Kept
  <2>2. bs[b] = [buffers[b] EXCEPT !.token = 0, !.state = "busy"]
    BY <1>2, <1>5
  <2>3. /\ [buffers[b] EXCEPT !.token = 0, !.state = "busy"] \in Buffer
        /\ [buffers[b] EXCEPT !.token = 0, !.state = "busy"].peer = buffers[b].peer
        /\ [buffers[b] EXCEPT !.token = 0, !.state = "busy"].state = "busy"
    BY <2>1 DEF Buffer
  <2> QED
    BY <2>1, <2>2, <2>3 DEF Kept
<1>6. /\ \A b \in 1 .. Buffers : buffers[b].token # Op.id => bs[b] = buffers[b]
      /\ bs = [b \in 1 .. Buffers |-> bs[b]]
  BY <1>2
<1>7. AgendaOK' /\ StageOK' /\ CollectOK' /\ BuffersOK' /\ PeersOK'
  BY <1>1, <1>3, <1>5, <1>6, HearsStore
<1>8. [ranks EXCEPT !.token = 0] \in RankInfo /\ [ranks EXCEPT !.token = 0].token = 0
  BY <1>4 DEF RankInfo
<1>9. RanksOK'
  BY <1>1, <1>3, <1>8, RanksHeard
<1> QED
  BY <1>7, <1>9 DEF PeerOK

\* A file has been deleted, or could not be.
LEMMA DoEventFileDeleted ==
    ASSUME Good, PeerOK, hand = "event", ~ heard, heard' = TRUE, UNCHANGED vars, EventFileDeleted
    PROVE  PeerOK'
<1>1. /\ Op.code = "delete file"
      /\ agenda' = [agenda EXCEPT !.event = Stores(buffers, FALSE) \o <<Done("deferred")>>]
      /\ UNCHANGED <<stage, cleaning, rankQueue, buffers>>
  BY DEF EventFileDeleted
<1>2. Op.code # "init" /\ Op.code # "gc" /\ ~ IsWriteOp(Op) /\ UNCHANGED <<queue, flash, pages, phase>>
  BY <1>1 DEF IsWriteOp, vars, ram
<1> DEFINE s == Stores(buffers, FALSE) \o <<Done("deferred")>>
<1>3. Plain(s) /\ Backed(s, buffers)
  BY StoresFacts, ThenDeferred
<1>4. agenda' = [agenda EXCEPT !.event = s]
  BY <1>1
<1> HIDE DEF s
<1>5. Shaped(s) /\ ~ Has(s, "gc") /\ Backed(s, buffers')
  BY <1>1, <1>3, PlainFacts
<1>6. PICK t : t = s
  OBVIOUS
<1>7. AgendaOK' /\ StageOK' /\ CollectOK'
  BY <1>1, <1>2, <1>4, <1>5, <1>6, HearsOn
<1>8. /\ BuffersOK'
      /\ ranks' \in RankInfo /\ ranks'.token = ranks.token /\ rankQueue' \in Seq(Files) => RanksOK'
  BY <1>1, <1>2, HearsOther
<1>9. ranks \in RankInfo /\ rankQueue \in Seq(Files) /\ PeersOK
  BY DEF PeerOK, RanksOK
<1>10. /\ \/ used' = used \ {Op.file} /\ deleted' = deleted \ {Op.file}
          \/ UNCHANGED <<used, deleted>>
       /\ \/ ranks' = ranks
          \/ ranks' = [ranks EXCEPT !.top = Highest']
  BY DEF EventFileDeleted
<1>11. PeersOK'
  BY <1>9, <1>10 DEF PeersOK
<1>12. Highest' \in Files \union {NoPeer}
  BY <1>2, <1>11, HighestNext DEF PeersOK
<1>13. ranks' \in RankInfo /\ ranks'.token = ranks.token
  BY <1>9, <1>10, <1>12 DEF RankInfo
<1>14. RanksOK'
  BY <1>1, <1>8, <1>9, <1>13
<1> QED
  BY <1>7, <1>8, <1>11, <1>14 DEF PeerOK

\* A collection has ended.
LEMMA DoEventCollected ==
    ASSUME Good, PeerOK, hand = "event", ~ heard, heard' = TRUE, UNCHANGED vars, EventCollected
    PROVE  PeerOK'
<1>1. /\ Op.code = "gc" /\ rankQueue' = <<>>
      /\ agenda' = [agenda EXCEPT !.event = Items("rank", rankQueue) \o Stores(buffers, TRUE) \o <<Done("deferred")>>]
      /\ UNCHANGED <<used, deleted, erasing, ranks, buffers>>
  BY DEF EventCollected
<1>2. Op.code # "init" /\ ~ IsWriteOp(Op) /\ UNCHANGED <<queue, stage>>
  BY <1>1 DEF IsWriteOp, vars, ram, erasing
<1>3. ranks \in RankInfo /\ rankQueue \in Seq(Files) /\ PeersOK
  BY DEF PeerOK, RanksOK
<1> DEFINE q == Items("rank", rankQueue)
           m == Stores(buffers, TRUE)
           s == q \o m \o <<Done("deferred")>>
<1>4. Plain(q) /\ Backed(q, buffers) /\ Plain(m) /\ Backed(m, buffers)
  BY <1>3, RanksPlain, StoresFacts
<1>5. agenda' = [agenda EXCEPT !.event = s]
  BY <1>1
<1> HIDE DEF q, m
<1>6. Plain(q \o m) /\ Backed(q \o m, buffers)
  BY <1>4, CatPlain
<1>7. Plain(s) /\ Backed(s, buffers)
  BY <1>6, ThenDeferred
<1> HIDE DEF s
<1>8. Shaped(s) /\ ~ Has(s, "gc") /\ Backed(s, buffers')
  BY <1>1, <1>7, PlainFacts
<1>9. AgendaOK' /\ StageOK' /\ CollectOK'
  BY <1>1, <1>2, <1>5, <1>8, HearsOn
<1>10. rankQueue' \in Seq(Files)
  BY <1>1
<1>11. BuffersOK' /\ RanksOK'
  BY <1>1, <1>2, <1>3, <1>10, HearsOther
<1>12. PeersOK'
  BY <1>1, <1>3 DEF PeersOK
<1> QED
  BY <1>9, <1>11, <1>12 DEF PeerOK

LEMMA DoEventCollectionFailed ==
    ASSUME Good, PeerOK, hand = "event", ~ heard, heard' = TRUE, UNCHANGED vars, EventCollectionFailed
    PROVE  PeerOK'
<1>1. /\ Op.code = "gc"
      /\ agenda' = [agenda EXCEPT !.event = (IF result = "timeout" THEN <<Done("full")>> ELSE <<>>)
                                            \o Stores(buffers, FALSE) \o <<Done("deferred")>>]
      /\ UNCHANGED <<used, deleted, erasing, rankQueue, ranks, buffers>>
  BY DEF EventCollectionFailed
<1>2. Op.code # "init" /\ ~ IsWriteOp(Op) /\ UNCHANGED <<queue, stage>>
  BY <1>1 DEF IsWriteOp, vars, ram, erasing
<1>3. ranks \in RankInfo /\ rankQueue \in Seq(Files) /\ PeersOK
  BY DEF PeerOK, RanksOK
<1> DEFINE d == <<Done("deferred")>>
           m == Stores(buffers, FALSE)
           s == m \o d
           f == <<Done("full")>> \o s
<1>4. Plain(m) /\ Backed(m, buffers) /\ Plain(d)
  <2>1. Plain(<<>> \o d)
    BY AgendaEmpty, ThenDeferred
  <2>2. <<>> \o d = d
    BY ItemFacts
  <2> QED
    BY <2>1, <2>2, StoresFacts
<1>5. Plain(s) /\ Backed(s, buffers)
  BY <1>4, ThenDeferred
<1>6. agenda' = [agenda EXCEPT !.event = f] \/ agenda' = [agenda EXCEPT !.event = s]
  <2>1. (<<Done("full")>> \o m) \o d = f /\ (<<>> \o m) \o d = s
    BY <1>4, FullThen
  <2> HIDE DEF f, s
  <2>2. CASE result = "timeout"
    BY <1>1, <2>1, <2>2
  <2>3. CASE result # "timeout"
    BY <1>1, <2>1, <2>3
  <2> QED
    BY <2>2, <2>3
<1> HIDE DEF s
<1>7. Shaped(s) /\ ~ Has(s, "gc")
  BY <1>5, PlainFacts
<1>8. Done("full") \in Todos /\ Done("full").do = "full" /\ Fits(Done("full"))
  BY ItemFacts
<1>9. Shaped(f) /\ ~ Has(f, "gc") /\ Backed(f, buffers)
  BY <1>5, <1>7, <1>8, ThenPlain
<1> HIDE DEF f
<1>10. UNCHANGED buffers
  BY <1>1
<1>11. AgendaOK' /\ StageOK' /\ CollectOK'
  BY <1>1, <1>2, <1>5, <1>6, <1>7, <1>9, <1>10, HearsOn
<1>12. BuffersOK' /\ RanksOK'
  BY <1>1, <1>2, <1>3, HearsOther
<1>13. PeersOK'
  BY <1>1, <1>3 DEF PeersOK
<1> QED
  BY <1>11, <1>12, <1>13 DEF PeerOK

LEMMA DoEventInstalled ==
    ASSUME Good, PeerOK, hand = "event", ~ heard, heard' = TRUE, UNCHANGED vars, EventInstalled
    PROVE  PeerOK'
<1>1. /\ Op.code = "init" /\ ~ IsWriteOp(Op) /\ UNCHANGED <<queue, hand, phase>>
      /\ UNCHANGED <<used, deleted, stage, cleaning, rankQueue, ranks, buffers, agenda>>
  BY DEF EventInstalled, IsWriteOp, vars, ram, erasing, clean
<1>2. AgendaOK'
  BY <1>1 DEF PeerOK, AgendaOK, Backed
<1>3. StageOK'
  BY <1>1 DEF PeerOK, StageOK
<1>4. CollectOK'
  BY <1>1 DEF PeerOK, CollectOK, IdleCleans, OneCollects, Collects, Collecting, Cleans
<1>5. BuffersOK' /\ RanksOK'
  BY <1>1, HearsOther DEF PeerOK, RanksOK
<1>6. PeersOK'
  BY <1>1 DEF PeerOK, PeersOK
<1> QED
  BY <1>2, <1>3, <1>4, <1>5, <1>6 DEF PeerOK

LEMMA DoFdsEvent ==
    ASSUME Good, PeerOK, FdsEvent
    PROVE  PeerOK'
<1>1. hand = "event" /\ ~ heard /\ heard' = TRUE /\ UNCHANGED vars
  BY DEF FdsEvent
<1>2. EventStored \/ EventStoreFailed \/ EventFileDeleted \/ EventCollected \/ EventCollectionFailed \/ EventInstalled
  BY DEF FdsEvent
<1> QED
  BY <1>1, <1>2, DoEventStored, DoEventStoreFailed, DoEventFileDeleted, DoEventCollected,
     DoEventCollectionFailed, DoEventInstalled

-----------------------------------------------------------------------------
\* main(), and the peers that connect.

\* The storage is left alone, and only main() has something new to do.
LEMMA MainGoes ==
    ASSUME Good, PeerOK, UNCHANGED <<vars, heard, cleaning>>, hand = "idle",
           NEW s, agenda' = [agenda EXCEPT !.idle = s], Shaped(s), Backed(s, buffers'), ~ Has(s, "gc"),
           ~ Has(s, "cleaning"), agenda.idle = <<>>,
           Has(s, "store") => Leads(s, "store") /\ ~ Has(Tail(s), "store")
    PROVE  AgendaOK' /\ CollectOK'
<1>1. UNCHANGED <<queue, hand>>
  BY DEF vars, ram
<1>2. /\ agenda \in [Contexts -> Seq(Todos)] /\ heard = FALSE /\ agenda.event = <<>>
  BY DEF PeerOK, AgendaOK
<1>3. s \in Seq(Todos)
  BY DEF Shaped
<1>4. agenda' \in [Contexts -> Seq(Todos)] /\ agenda'.idle = s /\ agenda'.event = <<>>
  BY <1>2, <1>3 DEF Contexts
<1>5. /\ Has(agenda.idle, "store")' = Has(agenda'.idle, "store") /\ Leads(agenda.idle, "store")' = Leads(agenda'.idle, "store")
      /\ Has(Tail(agenda.idle), "store")' = Has(Tail(agenda'.idle), "store")
      /\ Has(agenda.idle, "gc")' = Has(agenda'.idle, "gc") /\ Has(agenda.event, "gc")' = Has(agenda'.event, "gc")
  BY DEF Has, Leads
<1>6. AgendaOK'
  <2>1. \A c \in Contexts : Shaped(agenda'[c]) /\ Backed(agenda'[c], buffers')
    BY <1>4, AgendaEmpty DEF Contexts
  <2> QED
    BY <1>1, <1>2, <1>4, <1>5, <2>1 DEF AgendaOK
<1>7. CollectOK'
  <2>1. OneCollects /\ (Collecting => Cleans)
    BY DEF PeerOK, CollectOK
  <2>2. (Collecting' <=> Collecting) /\ OneCollects'
    BY <1>1, <2>1 DEF Collecting, OneCollects, Collects
  <2>3. Collecting => cleaning
    BY <2>1 DEF Cleans, Leads
  <2>4. Collecting' => Cleans'
    BY <2>2, <2>3 DEF Cleans
  <2> QED
    BY <1>1, <1>4, <1>5, <2>2, <2>4, AgendaEmpty DEF CollectOK
<1> QED
  BY <1>6, <1>7

\* It goes on to the next stage with nothing to do.
LEMMA MainStays ==
    ASSUME Good, PeerOK, UNCHANGED <<vars, heard, cleaning, buffers, agenda>>, hand = "idle", agenda.idle = <<>>
    PROVE  AgendaOK' /\ CollectOK'
<1>1. UNCHANGED <<queue, hand, phase, flash, pages, tok>>
  BY DEF vars, ram
<1>2. AgendaOK'
  BY <1>1 DEF PeerOK, AgendaOK, Backed
<1>3. CollectOK'
  BY <1>1, AgendaEmpty DEF PeerOK, CollectOK, IdleCleans, OneCollects, Collects, Collecting, Cleans
<1> QED
  BY <1>2, <1>3

LEMMA DoPmInit ==
    ASSUME Good, Good', PeerOK, PmInit
    PROVE  PeerOK'
<1>1. /\ phase = "off" /\ Boot /\ stage' = IF phase' = "failed" THEN "stopped" ELSE "load"
      /\ UNCHANGED <<used, deleted, cleaning, rankQueue, ranks, buffers, agenda, heard>>
  BY DEF PmInit, Boot, clean
<1>2. queue = <<>> /\ hand = "idle"
  BY <1>1 DEF Good, ModeOK, OffOK, Resting
<1>3. stage = "off" /\ agenda.idle = <<>> /\ agenda.event = <<>> /\ used = {} /\ deleted = {}
  BY <1>1 DEF PeerOK, StageOK
<1>4. /\ phase' \in {"initialized", "failed", "installing"}
      /\ \/ UNCHANGED <<queue, hand>>
         \/ \E st : queue' = <<[NewOp EXCEPT !.code = "init", !.step = st]>> /\ hand' = "run"
  BY <1>1 DEF Boot
<1>5. phase' # "failed"
  BY DEF Good, ModeOK
<1>6. queue' \in Seq(OpType) /\ \A k \in 1 .. Len(queue') : queue'[k].code = "init"
  <2>1. CASE UNCHANGED <<queue, hand>>
    BY <1>2, <2>1
  <2>2. ASSUME NEW st, queue' = <<[NewOp EXCEPT !.code = "init", !.step = st]>>
        PROVE  \A k \in 1 .. Len(queue') : queue'[k].code = "init"
    <3>1. PICK o : o = [NewOp EXCEPT !.code = "init", !.step = st]
      OBVIOUS
    <3>2. o.code = "init"
      BY <3>1 DEF NewOp
    <3>3. queue' = <<o>>
      BY <2>2, <3>1
    <3> QED
      BY <3>2, <3>3
  <2> QED
    BY <1>4, <2>1, <2>2, QueueNextTypes
<1>7. hand' \in {"idle", "run"} /\ heard = FALSE
  BY <1>2, <1>4 DEF PeerOK, AgendaOK
<1>8. AgendaOK'
  <2>1. Has(agenda.idle, "store")' = Has(agenda'.idle, "store")
    BY DEF Has
  <2>2. ~ Has(agenda'.idle, "store")
    BY <1>1, <1>3, AgendaEmpty
  <2>3. \A c \in Contexts : Shaped(agenda'[c]) /\ Backed(agenda'[c], buffers')
    BY <1>1 DEF PeerOK, AgendaOK
  <2> QED
    BY <1>1, <1>3, <1>7, <2>1, <2>2, <2>3 DEF PeerOK, AgendaOK
<1>9. StageOK'
  BY <1>1, <1>3, <1>4, <1>5, <1>6 DEF StageOK
<1>10. CollectOK'
  <2>1. ~ Collecting' /\ OneCollects'
    BY <1>6 DEF Collecting, OneCollects, Collects
  <2>2. Has(agenda.idle, "gc")' = Has(agenda'.idle, "gc") /\ Has(agenda.event, "gc")' = Has(agenda'.event, "gc")
    BY DEF Has
  <2>3. ~ Has(agenda'.idle, "gc") /\ ~ Has(agenda'.event, "gc")
    BY <1>1, <1>3, AgendaEmpty
  <2> QED
    BY <1>7, <2>1, <2>2, <2>3 DEF CollectOK
<1>11. \A t : ~ Awaited(t)
  BY <1>2 DEF Awaited
<1>12. BuffersOK' /\ RanksOK' /\ PeersOK'
  BY <1>1, <1>11 DEF PeerOK, BuffersOK, RanksOK, PeersOK
<1> QED
  BY <1>8, <1>9, <1>10, <1>12 DEF PeerOK

LEMMA DoPeerIdsLoad ==
    ASSUME Good, PeerOK, NEW erase \in BOOLEAN, PeerIdsLoad(erase)
    PROVE  PeerOK'
<1>1. /\ hand = "idle" /\ agenda.idle = <<>> /\ stage = "load"
      /\ used' = {p \in Files : Data(p, "bond") # {}}
      /\ stage' \in {"erase", "up"}
      /\ UNCHANGED <<vars, deleted, cleaning, rankQueue, ranks, buffers, agenda, heard>>
  BY DEF PeerIdsLoad, Free, clean
<1>2. Moves /\ UNCHANGED phase
  BY <1>1 DEF Moves, vars, ram
<1>3. phase # "off" /\ deleted = {}
  BY <1>1 DEF PeerOK, StageOK
<1>4. AgendaOK' /\ CollectOK'
  BY <1>1, MainStays
<1>5. StageOK'
  <2>1. Len(agenda'.idle) = 0
    BY <1>1, AgendaEmpty
  <2> QED
    BY <1>1, <1>2, <1>3, <2>1 DEF StageOK
<1>6. BuffersOK' /\ RanksOK'
  BY <1>1, <1>2, BuffersStay, RanksStay
<1>7. PeersOK'
  BY <1>1, <1>3 DEF PeersOK
<1> QED
  BY <1>4, <1>5, <1>6, <1>7 DEF PeerOK

\* The agendas of main().
LEMMA OneItem ==
    ASSUME NEW x \in Todos, Fits(x), x.do # "store"
    PROVE  /\ Shaped(<<x>>) /\ \A bs : Backed(<<x>>, bs)
           /\ \A do : Has(<<x>>, do) => do = x.do
           /\ Len(<<x>>) = 1 /\ <<x>>[1] = x
<1>1. <<x>> \in Seq(Todos) /\ Len(<<x>>) = 1 /\ <<x>>[1] = x
  OBVIOUS
<1> QED
  BY <1>1 DEF Shaped, Backed, Has

LEMMA BondItems ==
    ASSUME NEW b \in 1 .. Buffers, NEW p \in Files
    PROVE  LET s == <<Item("store", b), Item("rank", p)>>
           IN /\ Shaped(s) /\ \A bs : bs[b].state # "free" => Backed(s, bs)
              /\ Leads(s, "store") /\ ~ Has(Tail(s), "store")
              /\ \A do : Has(s, do) => do \in {"store", "rank"}
<1> DEFINE x == Item("store", b)
           y == Item("rank", p)
           s == <<x, y>>
<1>1. x \in Todos /\ y \in Todos /\ x.do = "store" /\ x.arg = b /\ y.do = "rank" /\ y.arg = p
  BY ItemFacts, ConstantFacts
<1>2. Fits(x) /\ Fits(y)
  BY <1>1 DEF Fits
<1> HIDE DEF x, y
<1>3. s \in Seq(Todos) /\ Len(s) = 2 /\ s[1] = x /\ s[2] = y /\ Tail(s) = <<y>>
  BY <1>1
<1>4. \A i \in 1 .. Len(s) : s[i] \in {x, y}
  BY <1>3
<1>5. Shaped(s)
  BY <1>1, <1>2, <1>3, <1>4 DEF Shaped, Deletes
<1>6. \A bs : bs[b].state # "free" => Backed(s, bs)
  BY <1>1, <1>4 DEF Backed
<1>7. Leads(s, "store") /\ \A do : Has(s, do) => do \in {"store", "rank"}
  BY <1>1, <1>3, <1>4 DEF Leads, Has
<1>8. ~ Has(Tail(s), "store")
  BY <1>1, <1>2, <1>3, OneItem
<1> QED
  BY <1>5, <1>6, <1>7, <1>8 DEF x, y

LEMMA DoPeersDelete ==
    ASSUME Good, PeerOK, PeersDelete
    PROVE  PeerOK'
<1> DEFINE left == {p \in Active : p > cursor}
<1>1. /\ hand = "idle" /\ agenda.idle = <<>> /\ stage = "erase"
      /\ UNCHANGED <<vars, used, cleaning, rankQueue, ranks, buffers, heard>>
      /\ \/ left = {} /\ stage' = "up" /\ UNCHANGED <<deleted, agenda>>
         \/ /\ left # {} /\ deleted' = deleted \union {Min(left)}
            /\ Goes(<<Done("deletes")>>) /\ UNCHANGED stage
  BY DEF PeersDelete, Free, clean
<1>2. Moves /\ UNCHANGED phase
  BY <1>1 DEF Moves, vars, ram
<1>3. phase # "off" /\ PeersOK
  BY <1>1 DEF PeerOK, StageOK
<1>4. BuffersOK' /\ RanksOK'
  BY <1>1, <1>2, BuffersStay, RanksStay
<1>5. CASE left = {}
  <2>1. AgendaOK' /\ CollectOK'
    BY <1>1, <1>5, MainStays
  <2>2. StageOK'
    BY <1>1, <1>2, <1>3, <1>5 DEF StageOK
  <2>3. PeersOK'
    BY <1>1, <1>3, <1>5 DEF PeersOK
  <2> QED
    BY <1>4, <2>1, <2>2, <2>3 DEF PeerOK
<1>6. CASE left # {}
  <2> DEFINE x == Done("deletes")
  <2>1. x \in Todos /\ x.do = "deletes" /\ Fits(x) /\ x.do # "store"
    BY ItemFacts
  <2>2. agenda' = [agenda EXCEPT !.idle = <<x>>]
    BY <1>1, <1>6 DEF Goes
  <2> HIDE DEF x
  <2>3. /\ Shaped(<<x>>) /\ Backed(<<x>>, buffers') /\ ~ Has(<<x>>, "gc") /\ ~ Has(<<x>>, "cleaning")
        /\ ~ Has(<<x>>, "store") /\ Len(<<x>>) = 1 /\ <<x>>[1] = x
    <3>1. /\ Shaped(<<x>>) /\ \A bs : Backed(<<x>>, bs)
          /\ \A do : Has(<<x>>, do) => do = x.do
          /\ Len(<<x>>) = 1 /\ <<x>>[1] = x
      BY <2>1, OneItem
    <3> QED
      BY <1>1, <2>1, <3>1
  <2>4. AgendaOK' /\ CollectOK'
    BY <1>1, <2>2, <2>3, MainGoes
  <2>5. StageOK'
    <3>1. agenda'.idle = <<x>>
      BY <2>2 DEF PeerOK, AgendaOK, Contexts
    <3> QED
      BY <1>1, <1>2, <1>3, <1>6, <2>1, <2>3, <3>1 DEF StageOK, Deletes
  <2>6. Min(left) \in left
    <3>1. left \in SUBSET Nat
      BY <1>3, ConstantFacts DEF PeersOK, Active
    <3> QED
      BY <1>6, <3>1, MinOf
  <2>7. PeersOK'
    BY <1>1, <1>3, <1>6, <2>6 DEF PeersOK, Active
  <2> QED
    BY <1>4, <2>4, <2>5, <2>7 DEF PeerOK
<1> QED
  BY <1>5, <1>6

LEMMA DoBonded ==
    ASSUME Good, PeerOK, Bonded
    PROVE  PeerOK'
<1> DEFINE B == {b \in 1 .. Buffers : buffers[b].state = "free"}
<1>1. /\ hand = "idle" /\ agenda.idle = <<>> /\ stage = "up"
      /\ UNCHANGED <<vars, deleted, clean, cleaning, rankQueue, ranks, heard>>
      /\ \/ /\ B # {} /\ Files # used
            /\ used' = used \union {Min(Files \ used)}
            /\ buffers' = [buffers EXCEPT ![Min(B)] = [peer |-> Min(Files \ used), state |-> "new", token |-> 0]]
            /\ Goes(<<Item("store", Min(B)), Item("rank", Min(Files \ used))>>)
            /\ UNCHANGED stage
         \/ stage' = "stopped" /\ UNCHANGED <<used, buffers, agenda>>
  BY DEF Bonded, Connects, Free, clean
<1>2. Moves /\ UNCHANGED phase
  BY <1>1 DEF Moves, vars, ram
<1>3. phase # "off" /\ PeersOK /\ BuffersOK
  BY <1>1 DEF PeerOK, StageOK
<1>4. CASE stage' = "stopped" /\ UNCHANGED <<used, buffers, agenda>>
  BY <1>1, <1>3, <1>4, Stopped
<1>5. ASSUME B # {}, Files # used,
             used' = used \union {Min(Files \ used)},
             buffers' = [buffers EXCEPT ![Min(B)] = [peer |-> Min(Files \ used), state |-> "new", token |-> 0]],
             Goes(<<Item("store", Min(B)), Item("rank", Min(Files \ used))>>),
             UNCHANGED stage
      PROVE  PeerOK'
  <2>1. PICK b \in B : b = Min(B)
    <3>1. B \in SUBSET Nat
      OBVIOUS
    <3> QED
      BY <1>5, <3>1, MinOf
  <2>2. PICK p \in Files : p = Min(Files \ used)
    <3>1. Files \ used \in SUBSET Nat /\ Files \ used # {}
      BY <1>3, <1>5, ConstantFacts DEF PeersOK
    <3> QED
      BY <3>1, MinOf
  <2>3. PICK x : x = [peer |-> p, state |-> "new", token |-> 0]
    OBVIOUS
  <2>4. Kept(x) /\ x.state = "new"
    BY <2>3 DEF Kept, Buffer
  <2>5. buffers' = [buffers EXCEPT ![b] = x] /\ b \in 1 .. Buffers
    BY <1>5, <2>1, <2>2, <2>3
  <2>6. BuffersOK'
    BY <1>1, <1>2, <2>4, <2>5, BufferSet
  <2> DEFINE s == <<Item("store", b), Item("rank", p)>>
  <2>7. /\ Shaped(s) /\ \A bs : bs[b].state # "free" => Backed(s, bs)
        /\ Leads(s, "store") /\ ~ Has(Tail(s), "store")
        /\ \A do : Has(s, do) => do \in {"store", "rank"}
    BY <2>1, BondItems
  <2>8. agenda' = [agenda EXCEPT !.idle = s]
    BY <1>1, <1>5, <2>1, <2>2 DEF Goes
  <2> HIDE DEF s
  <2>9. buffers'[b].state # "free"
    BY <1>3, <2>4, <2>5 DEF BuffersOK
  <2>10. Backed(s, buffers') /\ ~ Has(s, "gc") /\ ~ Has(s, "cleaning")
    BY <2>7, <2>9
  <2>11. AgendaOK' /\ CollectOK'
    BY <1>1, <2>7, <2>8, <2>10, MainGoes
  <2>12. StageOK'
    BY <1>1, <1>2, <1>3, <1>5 DEF StageOK
  <2>13. RanksOK'
    BY <1>1, <1>2, RanksStay
  <2>14. PeersOK'
    BY <1>1, <1>3, <1>5, <2>2 DEF PeersOK
  <2> QED
    BY <2>6, <2>11, <2>12, <2>13, <2>14 DEF PeerOK
<1> QED
  BY <1>1, <1>4, <1>5

LEMMA DoBondedPeer ==
    ASSUME Good, PeerOK, NEW p \in Files, BondedPeer(p)
    PROVE  PeerOK'
<1>1. /\ hand = "idle" /\ agenda.idle = <<>> /\ stage = "up" /\ Goes(<<Item("rank", p)>>)
      /\ UNCHANGED <<vars, used, deleted, stage, cleaning, rankQueue, ranks, buffers, heard>>
  BY DEF BondedPeer, Connects, Free, clean, erasing
<1>2. Moves /\ UNCHANGED phase
  BY <1>1 DEF Moves, vars, ram
<1>3. phase # "off" /\ PeersOK
  BY <1>1 DEF PeerOK, StageOK
<1> DEFINE x == Item("rank", p)
<1>4. x \in Todos /\ x.do = "rank" /\ Fits(x) /\ x.do # "store"
  <2>1. x \in Todos /\ x.do = "rank" /\ x.arg = p
    BY ItemFacts, ConstantFacts
  <2> QED
    BY <2>1 DEF Fits
<1>5. agenda' = [agenda EXCEPT !.idle = <<x>>]
  BY <1>1 DEF Goes
<1> HIDE DEF x
<1>6. Shaped(<<x>>) /\ Backed(<<x>>, buffers') /\ ~ Has(<<x>>, "gc") /\ ~ Has(<<x>>, "cleaning") /\ ~ Has(<<x>>, "store")
  <2>1. /\ Shaped(<<x>>) /\ \A bs : Backed(<<x>>, bs)
        /\ \A do : Has(<<x>>, do) => do = x.do
    BY <1>4, OneItem
  <2> QED
    BY <1>1, <1>4, <2>1
<1>7. AgendaOK' /\ CollectOK'
  BY <1>1, <1>5, <1>6, MainGoes
<1>8. StageOK'
  BY <1>1, <1>2, <1>3 DEF StageOK
<1>9. BuffersOK' /\ RanksOK'
  BY <1>1, <1>2, BuffersStay, RanksStay
<1>10. PeersOK'
  BY <1>1, <1>3 DEF PeersOK
<1> QED
  BY <1>7, <1>8, <1>9, <1>10 DEF PeerOK

-----------------------------------------------------------------------------
\* The steps of fds.

\* What waits for what is in the queue goes on waiting.
LEMMA AwaitsOn ==
    ASSUME PeerOK, \A t : Awaited(t) => Awaited(t)', UNCHANGED <<used, deleted, ranks, rankQueue, buffers>>
    PROVE  BuffersOK' /\ RanksOK' /\ PeersOK'
BY DEF PeerOK, BuffersOK, RanksOK, PeersOK

LEMMA DoExecutes ==
    ASSUME Good, PeerOK, Executes, UNCHANGED peerVars
    PROVE  PeerOK'
<1>1. /\ QueueSame /\ hand = "run" /\ hand' \in {"idle", "event"} /\ queue # <<>>
      /\ phase # "off" /\ phase' # "off"
  BY ExecutesFacts
<1>2. UNCHANGED <<used, deleted, stage, cleaning, rankQueue, ranks, buffers, agenda, heard>>
  BY DEF peerVars, erasing, clean
<1>3. /\ \A t : Awaited(t) => Awaited(t)'
      /\ Op'.code = Op.code
      /\ (Collecting' => Collecting) /\ (OneCollects => OneCollects')
      /\ hand' = "event" /\ OneCollects /\ Op.code = "gc" => ~ Collecting'
  BY <1>1, <1>2, SameFacts
<1>4. /\ agenda \in [Contexts -> Seq(Todos)]
      /\ \A c \in Contexts : Shaped(agenda[c]) /\ Backed(agenda[c], buffers)
      /\ heard = FALSE /\ agenda.event = <<>>
      /\ ~ Has(agenda.idle, "store")
  BY <1>1 DEF PeerOK, AgendaOK
<1>5. \A a, do : /\ Has(agenda.idle, do)' = Has(agenda.idle, do)
                 /\ Leads(agenda.idle, do)' = Leads(agenda.idle, do)
                 /\ Has(agenda.event, do)' = Has(agenda.event, do)
  BY <1>2 DEF Has, Leads
<1>6. AgendaOK'
  BY <1>2, <1>4, <1>5 DEF AgendaOK, Backed
<1>7. StageOK'
  <2>1. /\ stage \in {"load", "erase", "up", "stopped"}
        /\ stage \in {"off", "load"} =>
              /\ agenda.idle = <<>> /\ agenda.event = <<>> /\ used = {} /\ deleted = {}
              /\ \A k \in 1 .. Len(queue) : queue[k].code = "init"
        /\ stage = "erase" => \A i \in 1 .. Len(agenda.idle) : agenda.idle[i].do \in Deletes
    BY <1>1 DEF PeerOK, StageOK
  <2>2. (\A k \in 1 .. Len(queue) : queue[k].code = "init") => \A k \in 1 .. Len(queue') : queue'[k].code = "init"
    BY <1>1 DEF QueueSame
  <2> QED
    BY <1>1, <1>2, <2>1, <2>2 DEF StageOK
<1>8. CollectOK'
  <2>1. /\ OneCollects /\ (Collecting => Cleans)
        /\ Has(agenda.idle, "gc") => ~ Collecting /\ DeletesFirst /\ Leads(agenda.idle, "gc")
    BY <1>1 DEF PeerOK, CollectOK, IdleCleans
  <2>2. Has(agenda.idle, "gc") => hand' = "idle"
    BY <1>1, <2>1, FirstDeletes
  <2>3. Collecting' => Cleans'
    <3>1. Collecting' => cleaning \/ (Op.code = "gc" /\ Leads(agenda.idle, "cleaning"))
      BY <1>1, <1>3, <2>1 DEF Cleans
    <3>2. Collecting' /\ Op.code = "gc" => hand' = "idle"
      BY <1>1, <1>3, <2>1
    <3> QED
      BY <1>2, <1>5, <3>1, <3>2 DEF Cleans
  <2>4. hand' = "event" /\ ~ heard' /\ Op'.code = "gc" => ~ Collecting'
    BY <1>3, <2>1
  <2>5. ~ Has(agenda.event, "gc")
    BY <1>4, AgendaEmpty
  <2> QED
    BY <1>3, <1>5, <2>1, <2>2, <2>3, <2>4, <2>5 DEF CollectOK, IdleCleans, Leads
<1>9. BuffersOK' /\ RanksOK' /\ PeersOK'
  BY <1>2, <1>3, AwaitsOn
<1> QED
  BY <1>6, <1>7, <1>8, <1>9 DEF PeerOK

\* A flash operation ends while no handler of a BLE event is at work.
LEMMA DoFlashEnds ==
    ASSUME Good, PeerOK, FlashDone, stage # "up" \/ agenda.idle = <<>>, Running, UNCHANGED peerVars
    PROVE  PeerOK'
<1>1. /\ Flying /\ hand' = "run" /\ UNCHANGED <<queue, phase>>
  BY DEF FlashDone, Flying, ram
<1>2. UNCHANGED <<used, deleted, stage, cleaning, rankQueue, ranks, buffers, agenda, heard>>
  BY DEF peerVars, erasing, clean
<1>3. hand = "idle" /\ queue \in Seq(OpType) /\ phase # "off"
  <2>1. phase # "off"
    BY <1>1 DEF Good, ModeOK, OffOK, Resting
  <2>2. hand # "run"
    BY <1>1, RunFacts
  <2>3. hand # "event"
    BY <1>1, QueueTypes DEF Telling
  <2> QED
    BY <2>1, <2>2, <2>3, QueueTypes
<1>4. QueueSame
  BY <1>1, <1>3 DEF QueueSame
<1>5. /\ \A t : Awaited(t) => Awaited(t)'
      /\ (Collecting' => Collecting) /\ (OneCollects => OneCollects')
  BY <1>1, <1>2, <1>3, <1>4, SameFacts
<1>6. \A i \in 1 .. Len(agenda.idle) : agenda.idle[i].do \in Deletes
  BY AgendaEmpty DEF PeerOK, StageOK, Running
<1>7. \A do \in {"store", "gc", "cleaning"} : ~ Has(agenda.idle, do) /\ ~ Leads(agenda.idle, do)
  <2>1. Shaped(agenda.idle)
    BY DEF PeerOK, AgendaOK, Contexts
  <2> QED
    BY <1>6, <2>1, RestFacts DEF Has, Leads, Deletes
<1>8. /\ agenda \in [Contexts -> Seq(Todos)]
      /\ \A c \in Contexts : Shaped(agenda[c]) /\ Backed(agenda[c], buffers)
      /\ heard = FALSE /\ agenda.event = <<>>
  BY <1>3 DEF PeerOK, AgendaOK
<1>9. \A do : Has(agenda.idle, do)' = Has(agenda.idle, do) /\ Has(agenda.event, do)' = Has(agenda.event, do)
  BY <1>2 DEF Has
<1>10. AgendaOK'
  BY <1>2, <1>7, <1>8, <1>9 DEF AgendaOK, Backed
<1>11. StageOK'
  BY <1>1, <1>2 DEF PeerOK, StageOK
<1>12. CollectOK'
  <2>1. OneCollects /\ (Collecting => Cleans)
    BY DEF PeerOK, CollectOK
  <2>2. Collecting' => Cleans'
    BY <1>2, <1>3, <1>5, <1>7, <2>1 DEF Cleans
  <2>3. ~ Has(agenda.event, "gc") /\ ~ Has(agenda.idle, "gc")
    BY <1>7, <1>8, AgendaEmpty
  <2> QED
    BY <1>1, <1>5, <1>9, <2>1, <2>2, <2>3 DEF CollectOK
<1>13. BuffersOK' /\ RanksOK' /\ PeersOK'
  BY <1>2, <1>5, AwaitsOn
<1> QED
  BY <1>10, <1>11, <1>12, <1>13 DEF PeerOK

\* The handler of an event returns.
LEMMA DoEventReturns ==
    ASSUME Good, PeerOK, EventReturns
    PROVE  PeerOK'
<1>1. /\ heard /\ agenda.event = <<>> /\ QueueNext /\ heard' = FALSE
      /\ UNCHANGED <<used, deleted, stage, cleaning, rankQueue, ranks, buffers, agenda>>
  BY DEF EventReturns, erasing, clean
<1>2. /\ \A t : Awaited(t) => Awaited(t)'
      /\ (Collecting' <=> Collecting) /\ (OneCollects => OneCollects')
      /\ hand' \in {"idle", "run"} /\ phase # "off" /\ UNCHANGED phase
  BY <1>1, NextFacts
<1>3. hand = "event" /\ queue' = Tail(queue) /\ queue \in Seq(OpType) /\ queue # <<>>
  BY <1>1, QueueTypes DEF QueueNext, Telling
<1>4. /\ agenda \in [Contexts -> Seq(Todos)]
      /\ \A c \in Contexts : Shaped(agenda[c]) /\ Backed(agenda[c], buffers)
      /\ ~ Has(agenda.idle, "store")
  BY <1>3 DEF PeerOK, AgendaOK
<1>5. \A do : /\ Has(agenda.idle, do)' = Has(agenda.idle, do)
              /\ Has(agenda.event, do)' = Has(agenda.event, do)
  BY <1>1 DEF Has
<1>6. AgendaOK'
  BY <1>1, <1>4, <1>5 DEF AgendaOK, Backed
<1>7. StageOK'
  <2>1. \A k \in 1 .. Len(queue') : k + 1 \in 1 .. Len(queue) /\ queue'[k] = queue[k + 1]
    BY <1>3
  <2> QED
    BY <1>1, <1>2, <2>1 DEF PeerOK, StageOK
<1>8. CollectOK'
  <2>1. OneCollects /\ (Collecting => Cleans) /\ ~ Has(agenda.idle, "gc")
    BY <1>3 DEF PeerOK, CollectOK, IdleCleans
  <2>2. Collecting' => Cleans'
    BY <1>1, <1>2, <1>3, <2>1 DEF Cleans, Leads
  <2> QED
    BY <1>1, <1>2, <1>5, <2>1, <2>2, AgendaEmpty DEF CollectOK
<1>9. BuffersOK' /\ RanksOK' /\ PeersOK'
  BY <1>1, <1>2, AwaitsOn
<1> QED
  BY <1>6, <1>7, <1>8, <1>9 DEF PeerOK

\* After a reset everything starts again.
LEMMA NoAgendas ==
    ASSUME NEW a, a = [idle |-> <<>>, event |-> <<>>]
    PROVE  a \in [Contexts -> Seq(Todos)] /\ a.idle = <<>> /\ a.event = <<>>
<1>1. <<>> \in Seq(Todos)
  OBVIOUS
<1>2. a \in [Contexts -> Seq(Todos)]
  <2>1. a = [c \in Contexts |-> <<>>]
    BY DEF Contexts
  <2> QED
    BY <1>1, <2>1
<1> QED
  BY <1>2

LEMMA Fresh ==
    ASSUME queue = <<>>, hand = "idle", phase = "off", used = {}, deleted = {}, cleaning = FALSE,
           rankQueue = <<>>, ranks = NoRanks, buffers = [b \in 1 .. Buffers |-> FreeBuffer],
           stage = "off", agenda = [idle |-> <<>>, event |-> <<>>], heard = FALSE
    PROVE  PeerOK
<1>1. agenda \in [Contexts -> Seq(Todos)] /\ agenda.idle = <<>> /\ agenda.event = <<>>
  BY NoAgendas
<1>2. AgendaOK
  BY <1>1, AgendaEmpty DEF AgendaOK, Contexts
<1>3. StageOK
  BY <1>1 DEF StageOK
<1>4. CollectOK
  BY <1>1, AgendaEmpty DEF CollectOK, OneCollects, Collects, Collecting
<1>5. BuffersOK
  BY DEF BuffersOK, Kept, Buffer, FreeBuffer, NoPeer
<1>6. RanksOK
  BY DEF RanksOK, RankInfo, NoRanks, NoPeer
<1>7. PeersOK
  BY DEF PeersOK
<1> QED
  BY <1>2, <1>3, <1>4, <1>5, <1>6, <1>7 DEF PeerOK

LEMMA DoReset == ASSUME Reset PROVE PeerOK'
<1>1. /\ queue' = <<>> /\ hand' = "idle" /\ phase' = "off" /\ used' = {} /\ deleted' = {} /\ cleaning' = FALSE
      /\ rankQueue' = <<>> /\ ranks' = NoRanks /\ buffers' = [b \in 1 .. Buffers |-> FreeBuffer]
      /\ stage' = "off" /\ agenda' = [idle |-> <<>>, event |-> <<>>] /\ heard' = FALSE
  BY DEF Reset, PowerCut
<1>2. agenda' \in [Contexts -> Seq(Todos)] /\ agenda'.idle = <<>> /\ agenda'.event = <<>>
  BY <1>1, NoAgendas
<1>3. /\ \A do : ~ Has(agenda'.idle, do) /\ ~ Has(agenda'.event, do)
      /\ \A do : Has(agenda.idle, do)' = Has(agenda'.idle, do) /\ Has(agenda.event, do)' = Has(agenda'.event, do)
  <2>1. \A do : ~ Has(agenda'.idle, do) /\ ~ Has(agenda'.event, do)
    BY <1>2, AgendaEmpty
  <2> QED
    BY <2>1 DEF Has
<1>4. AgendaOK'
  BY <1>1, <1>2, <1>3, AgendaEmpty DEF AgendaOK, Contexts
<1>5. StageOK'
  BY <1>1, <1>2 DEF StageOK
<1>6. CollectOK'
  <2>1. ~ Collecting' /\ OneCollects'
    BY <1>1 DEF OneCollects, Collects, Collecting
  <2> QED
    BY <1>1, <1>3, <2>1 DEF CollectOK
<1>7. BuffersOK'
  BY <1>1 DEF BuffersOK, Kept, Buffer, FreeBuffer, NoPeer
<1>8. RanksOK'
  BY <1>1 DEF RanksOK, RankInfo, NoRanks, NoPeer
<1>9. PeersOK'
  BY <1>1 DEF PeersOK
<1> QED
  BY <1>4, <1>5, <1>6, <1>7, <1>8, <1>9 DEF PeerOK

-----------------------------------------------------------------------------
\* The invariant, and what follows from it.

\* Until an operation of fstorage is given up, the storage is good, and what
\* the peer manager waits for is under way.
PInv == timeouts \in Nat /\ (timeouts = 0 => Good /\ PeerOK)

\* Every step of the peer manager is a step of the storage.
LEMMA PeerIsStep ==
    ASSUME Good, PeerOK, [PeerNext]_allVars
    PROVE  [Step]_vars
<1>1. CASE UNCHANGED allVars
  BY <1>1 DEF allVars
<1>2. CASE PmInit
  BY <1>2 DEF PmInit, Step
<1>3. CASE \/ \E erase \in BOOLEAN : PeerIdsLoad(erase)
           \/ PeersDelete \/ StorageFull \/ FlashCleaning \/ NothingDeferred \/ FdsEvent \/ Bonded
           \/ \E p \in Files : BondedPeer(p)
  BY <1>3 DEF PeerIdsLoad, PeersDelete, StorageFull, FlashCleaning, NothingDeferred, FdsEvent, Bonded, BondedPeer
<1>4. CASE StoreBond \/ Rank \/ CleanFlash \/ DeleteProcess
  BY <1>4, DoStoreBond, DoRank, DoCleanFlash, DoDeleteProcess
<1>5. CASE EventReturns
  BY <1>5 DEF EventReturns, Step, QueueProcess
<1>6. CASE FdsRuns
  BY <1>6 DEF FdsRuns, Step, QueueProcess
<1>7. CASE Reset
  BY <1>7 DEF Reset, Step
<1> QED
  BY <1>1, <1>2, <1>3, <1>4, <1>5, <1>6, <1>7 DEF PeerNext, PeerSteps, Handlers

\* It keeps what waits under way.
LEMMA PeerKeeps ==
    ASSUME Good, Good', PeerOK, [PeerNext]_allVars, ~ FlashTimeout
    PROVE  PeerOK'
<1>1. CASE UNCHANGED allVars
  <2>1. UNCHANGED <<queue, hand, phase, flash, pages, tok, used, deleted, stage, cleaning, rankQueue, ranks,
                    buffers, agenda, heard>>
    BY <1>1 DEF allVars, vars, ram, peerVars, erasing, clean
  <2>2. AgendaOK'
    BY <2>1 DEF PeerOK, AgendaOK, Backed
  <2>3. StageOK'
    BY <2>1 DEF PeerOK, StageOK
  <2>4. CollectOK'
    <3>1. /\ (Collecting' <=> Collecting) /\ (OneCollects' <=> OneCollects) /\ Op' = Op
          /\ \A do : /\ Has(agenda.idle, do)' = Has(agenda.idle, do)
                     /\ Has(agenda.event, do)' = Has(agenda.event, do)
                     /\ Leads(agenda.idle, do)' = Leads(agenda.idle, do)
                     /\ Leads(agenda.event, do)' = Leads(agenda.event, do)
      BY <2>1 DEF Collecting, OneCollects, Collects, Has, Leads, Op
    <3>2. DataOf(Op.file)' = DataOf(Op.file) /\ DataOf(agenda.idle[1].arg)' = DataOf(agenda.idle[1].arg)
      BY <2>1, <3>1 DEF DataOf, Found, RecordAt
    <3>3. DeletesFirst' <=> DeletesFirst
      BY <2>1, <3>1, <3>2 DEF DeletesFirst, TokStart
    <3>4. (Cleans' <=> Cleans) /\ (IdleCleans' <=> IdleCleans)
      BY <2>1, <3>1, <3>2, <3>3 DEF Cleans, IdleCleans
    <3> QED
      BY <2>1, <3>1, <3>4 DEF PeerOK, CollectOK
  <2>5. \A t : Awaited(t) => Awaited(t)'
    BY <2>1 DEF Awaited
  <2>6. BuffersOK' /\ RanksOK' /\ PeersOK'
    BY <2>1, <2>5, AwaitsOn
  <2> QED
    BY <2>2, <2>3, <2>4, <2>6 DEF PeerOK
<1>2. CASE PmInit
  BY <1>2, DoPmInit
<1>3. CASE \E erase \in BOOLEAN : PeerIdsLoad(erase)
  BY <1>3, DoPeerIdsLoad
<1>4. CASE PeersDelete
  BY <1>4, DoPeersDelete
<1>5. CASE Handlers
  BY <1>5, DoStoreBond, DoRank, DoStorageFull, DoCleanFlash, DoFlashCleaning, DoDeleteProcess,
     DoNothingDeferred DEF Handlers
<1>6. CASE FdsEvent
  BY <1>6, DoFdsEvent
<1>7. CASE EventReturns
  BY <1>7, DoEventReturns
<1>8. CASE FdsRuns
  BY <1>8, DoExecutes, DoFlashEnds DEF FdsRuns, Executes
<1>9. CASE Bonded
  BY <1>9, DoBonded
<1>10. CASE \E p \in Files : BondedPeer(p)
  BY <1>10, DoBondedPeer
<1>11. CASE Reset
  BY <1>11, DoReset
<1> QED
  BY <1>1, <1>2, <1>3, <1>4, <1>5, <1>6, <1>7, <1>8, <1>9, <1>10, <1>11 DEF PeerNext, PeerSteps

\* Only an operation given up is counted.
LEMMA TimeoutsCount ==
    ASSUME timeouts \in Nat, [PeerNext]_allVars
    PROVE  timeouts' \in Nat /\ (timeouts' = 0 => timeouts = 0 /\ ~ FlashTimeout)
<1>1. ASSUME UNCHANGED timeouts PROVE timeouts' \in Nat /\ (timeouts' = 0 => timeouts = 0 /\ ~ FlashTimeout)
  BY <1>1 DEF FlashTimeout
<1>2. CASE FlashTimeout
  BY <1>2 DEF FlashTimeout
<1>3. CASE UNCHANGED vars
  BY <1>1, <1>3 DEF vars, bounds
<1>4. ASSUME NEW p, NEW k, StoreData(p, k) PROVE UNCHANGED timeouts
  BY <1>4 DEF StoreData, RecordWrite, RecordUpdate, WriteEnqueue
<1>5. ASSUME InitExecute \/ WriteExecute \/ DeleteExecute \/ GcExecute PROVE UNCHANGED timeouts
  <2>1. CASE InitExecute
    BY <2>1 DEF InitExecute, InitTimeout, InitTagSwap, InitTagData, InitEraseSwap, InitPromoteSwap, bounds
  <2>2. CASE WriteExecute
    BY <2>2 DEF WriteExecute, WriteTimeout, UpdateFindsNothing, WriteHeaderBegin, WriteRecordId,
                WriteData, WriteHeaderFinalize, WriteFlagDirty, WriteDone, bounds
  <2>3. CASE DeleteExecute
    BY <2>3 DEF DeleteExecute, DeleteTimeout, DeleteRecord, DeleteDone, DeleteFile, bounds
  <2>4. CASE GcExecute
    BY <2>4 DEF GcExecute, GcTimeout, GcBegin, GcNextPage, GcFindNext, GcCopyAgain, GcEraseAgain,
                GcPromote, GcTagSwap, GcDiscardAgain, bounds
  <2> QED
    BY <1>5, <2>1, <2>2, <2>3, <2>4
<1>6. CASE Handlers
  <2>1. CASE StoreBond
    BY <1>1, <1>3, <1>4, <2>1 DEF StoreBond, Stop
  <2>2. CASE Rank
    BY <1>1, <1>3, <1>4, <2>2 DEF Rank, Stop
  <2>3. CASE StorageFull \/ FlashCleaning \/ NothingDeferred
    BY <1>3, <2>3 DEF StorageFull, FlashCleaning, NothingDeferred
  <2>4. CASE CleanFlash
    BY <1>1, <1>3, <2>4 DEF CleanFlash, Stop, GcRequest, bounds
  <2>5. CASE DeleteProcess
    <3>1. CASE DeletePeer
      BY <1>1, <1>3, <3>1 DEF DeletePeer, Stop, FileDelete, bounds
    <3>2. CASE StartDeletes \/ NextDeleted \/ FindInFile \/ FreeId \/ Unmark \/ Defer
      BY <1>3, <3>2 DEF StartDeletes, NextDeleted, FindInFile, FreeId, Unmark, Defer
    <3> QED
      BY <2>5, <3>1, <3>2 DEF DeleteProcess
  <2> QED
    BY <1>6, <2>1, <2>2, <2>3, <2>4, <2>5 DEF Handlers
<1>7. CASE FdsRuns
  <2>1. CASE FlashDone
    BY <1>1, <2>1 DEF FlashDone, bounds
  <2> QED
    BY <1>1, <1>2, <1>5, <1>7, <2>1 DEF FdsRuns
<1>8. CASE PmInit \/ EventReturns \/ Reset
  BY <1>1, <1>8 DEF PmInit, Boot, EventReturns, QueueNext, Reset, PowerCut, bounds
<1>9. CASE \/ UNCHANGED allVars \/ \E erase \in BOOLEAN : PeerIdsLoad(erase)
           \/ PeersDelete \/ FdsEvent \/ Bonded \/ \E p \in Files : BondedPeer(p)
  BY <1>3, <1>9 DEF allVars, PeerIdsLoad, PeersDelete, FdsEvent, Bonded, BondedPeer
<1> QED
  BY <1>6, <1>7, <1>8, <1>9 DEF PeerNext, PeerSteps

LEMMA PeerInductive == PInv /\ [PeerNext]_allVars => PInv'
<1> SUFFICES ASSUME PInv, [PeerNext]_allVars PROVE PInv'
  OBVIOUS
<1>1. timeouts' \in Nat /\ (timeouts' = 0 => timeouts = 0 /\ ~ FlashTimeout)
  BY TimeoutsCount DEF PInv
<1>2. ASSUME timeouts' = 0 PROVE Good' /\ PeerOK'
  <2>1. Good /\ PeerOK /\ ~ FlashTimeout
    BY <1>1, <1>2 DEF PInv
  <2>2. [Step]_vars
    BY <2>1, PeerIsStep
  <2>3. Good'
    BY <2>1, <2>2, GoodStep
  <2> QED
    BY <2>1, <2>3, PeerKeeps
<1> QED
  BY <1>1, <1>2 DEF PInv

LEMMA PeerStarts == PeerInit => PInv
<1> SUFFICES ASSUME PeerInit PROVE PInv
  OBVIOUS
<1>1. IInv
  BY Starts DEF PeerInit
<1>2. PeerOK
  BY Fresh DEF PeerInit, Init
<1>3. timeouts = 0
  BY DEF PeerInit, Init
<1> QED
  BY <1>1, <1>2, <1>3 DEF PInv, IInv

\* The invariant of the peer manager over the storage.
THEOREM PeerInvariant == PeerSpec => []PInv
BY PeerStarts, PeerInductive, PTL DEF PeerSpec

-----------------------------------------------------------------------------
\* What the invariant gives.

\* A peer is without its id, but still marked, only between the two clears.
UnmarkOK == \A p \in deleted \ used : \E c \in Contexts : agenda[c] # <<>> /\ Head(agenda[c]) = Item("unmark", p)
UnmarkInv == timeouts = 0 => UnmarkOK

LEMMA UnmarkKept ==
    ASSUME Good, PeerOK, UnmarkOK, deleted' \ used' \subseteq deleted \ used,
           \/ UNCHANGED agenda
           \/ \E do, rest : Now(do) /\ do # "unmark" /\ Goes(rest)
           \/ hand = "event" /\ ~ heard /\ \E s : agenda' = [agenda EXCEPT !.event = s]
    PROVE  UnmarkOK'
<1> SUFFICES ASSUME NEW p \in deleted \ used
             PROVE  \E c \in Contexts : agenda'[c] # <<>> /\ Head(agenda'[c]) = Item("unmark", p)
  BY DEF UnmarkOK
<1>1. PICK c \in Contexts : agenda[c] # <<>> /\ Head(agenda[c]) = Item("unmark", p)
  BY DEF UnmarkOK
<1>2. agenda \in [Contexts -> Seq(Todos)] /\ (~ heard => agenda.event = <<>>)
  BY DEF PeerOK, AgendaOK
<1>3. ASSUME NEW do, NEW rest, Now(do), do # "unmark", Goes(rest) PROVE agenda'[c] = agenda[c]
  <2>1. hand \in Contexts /\ agenda[hand][1].do # "unmark" /\ Head(agenda[hand]) = agenda[hand][1]
    BY <1>3, NowFacts
  <2>2. c # hand
    BY <1>1, <2>1 DEF Item
  <2> QED
    BY <1>2, <1>3, <2>1, <2>2 DEF Goes
<1>4. ASSUME ~ heard, NEW s, agenda' = [agenda EXCEPT !.event = s] PROVE agenda'[c] = agenda[c]
  BY <1>1, <1>2, <1>4 DEF Contexts
<1> QED
  BY <1>1, <1>3, <1>4

LEMMA UnmarkFrees ==
    ASSUME Good, PeerOK, UnmarkOK, FreeId \/ Unmark
    PROVE  UnmarkOK'
<1>1. PICK do \in {"free", "unmark"} : Now(do) /\ (do = "free" => FreeId) /\ (do = "unmark" => Unmark)
  BY DEF FreeId, Unmark
<1>2. /\ hand \in Contexts /\ agenda[hand] # <<>> /\ Shaped(agenda[hand]) /\ agenda[hand][1].do = do
      /\ Todo = agenda[hand] /\ Head(Todo) = agenda[hand][1] /\ Peer = agenda[hand][1].arg
      /\ agenda[hand][1] \in Todos /\ agenda \in [Contexts -> Seq(Todos)]
  BY <1>1, NowFacts DEF PeerOK, AgendaOK
<1> DEFINE Unmarked(p) == \E c \in Contexts : agenda'[c] # <<>> /\ Head(agenda'[c]) = Item("unmark", p)
<1>3. ASSUME NEW p \in deleted \ used, p # Peer \/ do = "free" PROVE Unmarked(p)
  <2>1. PICK c \in Contexts : agenda[c] # <<>> /\ Head(agenda[c]) = Item("unmark", p)
    BY DEF UnmarkOK
  <2>2. c # hand
    BY <1>2, <1>3, <2>1 DEF Item
  <2> QED
    BY <1>1, <1>2, <2>1, <2>2 DEF FreeId, Unmark, Becomes, Goes
<1>4. CASE do = "free"
  <2>1. PICK x \in Todos : x = Item("unmark", Peer) /\ Fits(x) /\ x.do \in Deletes /\ do \in Deletes
    BY <1>2, <1>4, ItemFacts DEF Todos, Fits, Deletes
  <2>2. Leads(<<x>> \o Tail(Todo), x.do) /\ (<<x>> \o Tail(Todo))[1] = x
    BY <1>2, <2>1, ThenRest
  <2>3. agenda' = [agenda EXCEPT ![hand] = <<x>> \o Tail(Todo)]
    BY <1>1, <1>4, <2>1 DEF FreeId, Becomes, Goes
  <2>4. Unmarked(Peer)
    BY <1>2, <2>1, <2>2, <2>3 DEF Leads
  <2> QED
    BY <1>1, <1>3, <1>4, <2>4 DEF FreeId, UnmarkOK
<1>5. CASE do = "unmark"
  BY <1>1, <1>3, <1>5 DEF Unmark, UnmarkOK
<1> QED
  BY <1>4, <1>5

LEMMA UnmarkStep ==
    ASSUME Good, PeerOK, UnmarkOK, [PeerNext]_allVars
    PROVE  UnmarkOK'
<1>1. CASE FreeId \/ Unmark
  BY <1>1, UnmarkFrees
<1>2. CASE UNCHANGED allVars \/ PmInit \/ EventReturns \/ FdsRuns
  BY <1>2, UnmarkKept DEF allVars, peerVars, PmInit, EventReturns, FdsRuns
<1>3. CASE StoreBond \/ Rank \/ CleanFlash \/ FlashCleaning \/ NothingDeferred
  BY <1>3, UnmarkKept DEF StoreBond, Rank, CleanFlash, FlashCleaning, NothingDeferred, Drop, Stop
<1>4. CASE StartDeletes \/ NextDeleted \/ FindInFile \/ DeletePeer \/ Defer
  BY <1>4, UnmarkKept DEF StartDeletes, NextDeleted, FindInFile, DeletePeer, Defer, Drop, Becomes, Stop
<1>5. CASE StorageFull
  <2>1. Ranked # {} => Lowest \in used
    BY RankedFacts DEF Ranked, Active
  <2> QED
    BY <1>5, <2>1, UnmarkKept DEF StorageFull, Drop
<1>6. CASE FdsEvent
  <2>1. hand = "event" /\ ~ heard
    BY <1>6 DEF FdsEvent
  <2>2. CASE EventFileDeleted
    BY <2>1, <2>2, UnmarkKept DEF EventFileDeleted
  <2> QED
    BY <1>6, <2>1, <2>2, UnmarkKept DEF FdsEvent, EventStored, EventStoreFailed, EventCollected,
                                        EventCollectionFailed, EventInstalled, HearStored
<1>7. CASE Reset
  BY <1>7 DEF Reset, UnmarkOK
<1>8. CASE \/ \E erase \in BOOLEAN : PeerIdsLoad(erase)
           \/ PeersDelete \/ Bonded \/ \E p \in Files : BondedPeer(p)
  <2>1. Free
    BY <1>8 DEF PeerIdsLoad, PeersDelete, Bonded, BondedPeer, Connects
  <2>2. deleted \subseteq used
    BY <2>1 DEF Free, PeerOK, AgendaOK, UnmarkOK, Contexts
  <2>3. PeersDelete => deleted' \subseteq used
    <3>1. {p \in Active : p > cursor} \in SUBSET Nat
      BY ConstantFacts DEF PeerOK, PeersOK, Active
    <3> QED
      BY <2>2, <3>1, MinOf DEF PeersDelete, Active
  <2>4. deleted' \subseteq used'
    BY <1>8, <2>2, <2>3 DEF PeerIdsLoad, PeersDelete, Bonded, BondedPeer, PeerOK, StageOK
  <2> QED
    BY <2>4 DEF UnmarkOK
<1> QED
  BY <1>1, <1>2, <1>3, <1>4, <1>5, <1>6, <1>7, <1>8 DEF PeerNext, PeerSteps, Handlers, DeleteProcess

(* Until an operation of fstorage is given up, every variable of the peer   *)
(* manager has its type, a peer marked for deletion keeps its id till it is *)
(* freed, and the bonds and ranks that wait for their event are in the      *)
(* queue of fds.                                                            *)
THEOREM PeerTypes == PeerSpec => [](timeouts = 0 => PeerTypeOK)
<1>1. PInv /\ UnmarkInv => (timeouts = 0 => PeerTypeOK)
  <2> SUFFICES ASSUME PeerOK, UnmarkOK PROVE PeerTypeOK
    BY DEF PInv, UnmarkInv
  <2>1. ASSUME NEW t, Awaited(t) PROVE \E op \in Queued : op.id = t
    BY <2>1 DEF Awaited, Queued
  <2>2. used \subseteq Files /\ UnmarkOK
    BY DEF PeerOK, PeersOK
  <2>3. ranks \in RankInfo /\ (ranks.token # 0 => \E op \in Queued : op.id = ranks.token)
    BY <2>1 DEF PeerOK, RanksOK
  <2>4. ASSUME NEW b \in 1 .. Buffers
        PROVE  /\ buffers[b].peer \in Files \union {NoPeer}
               /\ buffers[b].state \in {"free", "new", "sent", "busy", "full"}
               /\ buffers[b].state = "sent" => \E op \in Queued : op.id = buffers[b].token
    <3>1. buffers[b] \in Buffer /\ (buffers[b].state = "sent" => Awaited(buffers[b].token))
      BY DEF PeerOK, BuffersOK, Kept
    <3> QED
      BY <2>1, <3>1 DEF Buffer
  <2> QED
    BY <2>2, <2>3, <2>4 DEF PeerTypeOK, RankInfo, UnmarkOK, Contexts
<1>2. PInv /\ UnmarkInv /\ [PeerNext]_allVars => UnmarkInv'
  BY UnmarkStep, TimeoutsCount DEF PInv, UnmarkInv
<1>3. PeerInit => UnmarkInv
  BY DEF PeerInit, UnmarkInv, UnmarkOK
<1> QED
  BY PeerInvariant, <1>1, <1>2, <1>3, PTL DEF PeerSpec

(* At most one garbage collection waits or runs, and as long as one does    *)
(* flash_cleaning is set, or about to be: StorageFull and CleanFlash never  *)
(* ask for a second.                                                        *)
THEOREM PeerCollectsOnce == PeerSpec => [](timeouts = 0 => OneCollects /\ (Collecting => Cleans))
<1>1. PInv => (timeouts = 0 => OneCollects /\ (Collecting => Cleans))
  BY DEF PInv, PeerOK, CollectOK
<1> QED
  BY PeerInvariant, <1>1, PTL

(* The storage below the peer manager, in a step after which no operation   *)
(* of fstorage has been given up.                                           *)
LEMMA PeerStep ==
    ASSUME PInv, [PeerNext]_allVars, timeouts' = 0
    PROVE  [Step]_vars /\ Good /\ StoreIs /\ StoreIs' /\ ~ FlashTimeout
<1>1. timeouts = 0 /\ ~ FlashTimeout
  BY TimeoutsCount DEF PInv
<1>2. Good /\ PeerOK /\ IInv
  BY <1>1 DEF PInv, IInv
<1>3. [Step]_vars
  BY <1>2, PeerIsStep
<1>4. StoreIs
  BY <1>1, <1>2, StoreFollows DEF StoreHolds
<1>5. Good'
  BY <1>1, <1>2, <1>3, GoodStep
<1>6. IInv'
  BY <1>1, <1>5 DEF IInv, PInv
<1>7. StoreHolds'
  BY <1>6, StoreFollows, PTL
<1> QED
  BY <1>1, <1>2, <1>3, <1>4, <1>7 DEF StoreHolds

(* The peer manager calls fds as its interface allows, from the handlers of *)
(* its own events too: what holds of the storage for any client holds below *)
(* the peer manager, until an operation of fstorage is given up.            *)
THEOREM PeerObeysFds == PeerSpec => Init /\ [][timeouts' = 0 => Step]_vars
<1>1. PInv /\ [PeerNext]_allVars => [timeouts' = 0 => Step]_vars
  BY PeerStep
<1>2. PeerInit => Init
  BY DEF PeerInit
<1> QED
  BY PeerInvariant, <1>1, <1>2, PTL DEF PeerSpec

(* The records of the peers appear once, and only when the peer manager     *)
(* asks for them, and disappear only while a queued operation of its is to  *)
(* remove them.                                                             *)
THEOREM PeerKeepsRecords == PeerSpec => KeepsRecords
<1>1. PInv /\ [PeerNext]_allVars
        => (timeouts' = 0 => [Store!Next]_<<Stored, Pending, Doomed, writes>>)
  BY PeerStep, StoreStep
<1>2. PeerInit => Store!Init
  BY StoreStarts DEF PeerInit
<1> QED
  BY PeerInvariant, <1>1, <1>2, PTL DEF PeerSpec, KeepsRecords

(* The update of a rank leaves the new one in flash before the old one      *)
(* goes, whatever the cleanings and deletions of peers around it.           *)
THEOREM PeerUpdateNeverLoses == PeerSpec => UpdateNeverLoses
<1>1. PInv /\ [PeerNext]_allVars => UpdateKeeps
  <2> SUFFICES ASSUME PInv, [PeerNext]_allVars, timeouts' = 0 PROVE UpdateKeeps
    BY DEF UpdateKeeps
  <2> QED
    BY PeerStep, UpdateStep
<1> QED
  BY PeerInvariant, <1>1, PTL DEF PeerSpec, UpdateNeverLoses, UpdateKeeps

(* A bond or rank that was deleted, replaced or given up does not come back *)
(* with a cleaning or a reset: a deleted peer is not read again.            *)
THEOREM PeerNothingReturns == PeerSpec => GoneStaysGone
<1>1. PInv /\ [PeerNext]_allVars
        => (timeouts' = 0 => \A r \in 1 .. writes : Gone(r) => Gone(r)')
  <2> SUFFICES ASSUME PInv, [PeerNext]_allVars, timeouts' = 0, NEW r \in 1 .. writes, Gone(r)
               PROVE  Gone(r)'
    OBVIOUS
  <2>1. Good /\ StoreIs /\ StoreIs' /\ ~ FlashTimeout /\ [Step]_vars
    BY PeerStep
  <2>2. writes \in Nat
    BY <2>1 DEF Good, ModeOK, OffOK, OnOK, QueueOK
  <2> QED
    BY <2>1, <2>2, StoreStep, GoneStep
<1> QED
  BY PeerInvariant, <1>1, PTL DEF PeerSpec, GoneStaysGone

(* The peer manager reads, whenever the storage rests, exactly what a reset *)
(* would find, and no two records with one id.                              *)
THEOREM PeerReads == PeerSpec => []ReadableIsStored /\ []UniqueIds
<1>1. PInv => ReadableIsStored /\ UniqueIds
  <2>1. CASE timeouts = 0
    BY <2>1, RestsEqual, IdsDiffer DEF PInv
  <2>2. CASE timeouts # 0
    BY <2>2 DEF ReadableIsStored, UniqueIds, Quiet
  <2> QED
    BY <2>1, <2>2
<1> QED
  BY PeerInvariant, <1>1, PTL
-----------------------------------------------------------------------------
\* What an update is aimed at.

\* An update is to replace a record of its own file and key: no record that is
\* stored, or still to be stored, under the id it aims at is of another.
Alike(c, op) == c.file = op.file /\ c.key = op.key
Comes(l) == IsWriteOp(queue[l]) /\ ~ (l = 1 /\ hand = "event")
Aims(op) ==
    /\ op.target \in 1 .. latest
    /\ \A c \in CellsIn(flash) : c.id = op.target => Alike(c, op)
    /\ \A l \in 1 .. Len(queue) : Comes(l) /\ queue[l].id = op.target => Alike(queue[l], op)
AimOK == \A k \in 1 .. Len(queue) :
    queue[k].code # "delete" /\ (queue[k].code = "update" => Aims(queue[k]))

\* place k of the next queue has the operation that is at place m now
SameOp(k, m) ==
    /\ queue'[k].code = queue[m].code /\ queue'[k].id = queue[m].id /\ queue'[k].file = queue[m].file
    /\ queue'[k].key = queue[m].key /\ queue'[k].target = queue[m].target
    /\ Comes(k)' => Comes(m)

(* The aims stay as long as nothing is asked for, and nothing stored that   *)
(* was not.                                                                 *)
LEMMA AimKept ==
    ASSUME AimOK, latest' = latest,
           \A k \in 1 .. Len(queue') : \E m \in 1 .. Len(queue) : SameOp(k, m),
           \A c \in CellsIn(flash') : \/ c \in CellsIn(flash)
                                      \/ \E m \in 1 .. Len(queue) :
                                            Comes(m) /\ queue[m].id = c.id /\ Alike(queue[m], c)
    PROVE  AimOK'
<1> SUFFICES ASSUME NEW k \in 1 .. Len(queue')
             PROVE  queue'[k].code # "delete" /\ (queue'[k].code = "update" => Aims(queue[k])')
  BY DEF AimOK
<1>1. PICK m \in 1 .. Len(queue) : SameOp(k, m)
  OBVIOUS
<1>2. queue[m].code # "delete" /\ (queue[m].code = "update" => Aims(queue[m]))
  BY DEF AimOK
<1>3. /\ queue'[k].code = queue[m].code /\ queue'[k].file = queue[m].file
      /\ queue'[k].key = queue[m].key /\ queue'[k].target = queue[m].target
  BY <1>1 DEF SameOp
<1>4. ASSUME Aims(queue[m]) PROVE Aims(queue[k])'
  <2>1. queue'[k].target \in 1 .. latest'
    BY <1>3, <1>4 DEF Aims
  <2>2. ASSUME NEW c \in CellsIn(flash'), c.id = queue'[k].target PROVE Alike(c, queue'[k])
    <3>1. CASE c \in CellsIn(flash)
      BY <1>3, <1>4, <2>2, <3>1 DEF Aims, Alike
    <3>2. CASE \E n \in 1 .. Len(queue) : Comes(n) /\ queue[n].id = c.id /\ Alike(queue[n], c)
      BY <1>3, <1>4, <2>2, <3>2 DEF Aims, Alike
    <3> QED
      BY <3>1, <3>2
  <2>3. ASSUME NEW l \in 1 .. Len(queue'), Comes(l)', queue'[l].id = queue'[k].target
        PROVE  Alike(queue'[l], queue'[k])
    <3>1. PICK n \in 1 .. Len(queue) : SameOp(l, n)
      OBVIOUS
    <3>2. Comes(n) /\ queue[n].id = queue[m].target
      BY <1>3, <2>3, <3>1 DEF SameOp
    <3>3. Alike(queue[n], queue[m])
      BY <1>4, <3>2 DEF Aims
    <3> QED
      BY <1>3, <3>1, <3>3 DEF SameOp, Alike
  <2> QED
    BY <2>1, <2>2, <2>3 DEF Aims, Alike
<1> QED
  BY <1>2, <1>3, <1>4

\* They stay when an operation is put into the queue that aims well.
LEMMA AimGrows ==
    ASSUME Good, AimOK, NEW o, Grows(o), o.code # "delete", latest \in Nat,
           IF IsWriteOp(o) THEN latest' = latest + 1 /\ o.id = latest' ELSE latest' = latest,
           o.code = "update" => Aims(o)
    PROVE  AimOK'
<1>1. /\ queue' = Append(queue, o) /\ o \in OpType /\ queue \in Seq(OpType) /\ flash' = flash
      /\ queue # <<>> => hand' = hand
  BY QueueTypes DEF Grows
<1> DEFINE n == Len(queue)
<1>2. /\ n \in Nat /\ Len(queue') = n + 1 /\ queue'[n + 1] = o
      /\ \A k \in 1 .. n : queue'[k] = queue[k] /\ k \in 1 .. n + 1
      /\ \A k \in 1 .. n + 1 : k \in 1 .. n \/ k = n + 1
  BY <1>1
<1>3. \A k \in 1 .. n : Comes(k)' => Comes(k)
  <2> SUFFICES ASSUME NEW k \in 1 .. n, Comes(k)' PROVE Comes(k)
    OBVIOUS
  <2>1. queue # <<>> /\ queue'[k] = queue[k]
    BY <1>1, <1>2
  <2> QED
    BY <1>1, <2>1 DEF Comes, IsWriteOp
<1>4. ASSUME NEW k, k = n + 1, Comes(k)' PROVE o.id = latest + 1
  <2>1. IsWriteOp(queue'[k])
    BY <1>4 DEF Comes, IsWriteOp
  <2> QED
    BY <1>2, <1>4, <2>1
<1> HIDE DEF n
<1>5. ASSUME NEW op, Aims(op), NEW k, op = queue'[k] PROVE Aims(queue[k])'
  <2>1. op.target \in 1 .. latest /\ op.target \in 1 .. latest' /\ op.target # latest + 1
    BY <1>5 DEF Aims
  <2>2. \A c \in CellsIn(flash') : c.id = op.target => Alike(c, op)
    BY <1>1, <1>5 DEF Aims
  <2>3. ASSUME NEW l \in 1 .. Len(queue'), Comes(l)', queue'[l].id = op.target PROVE Alike(queue'[l], op)
    <3>1. l # n + 1
      <4> SUFFICES ASSUME l = n + 1 PROVE FALSE
        OBVIOUS
      <4>1. o.id = latest + 1 /\ queue'[l] = o
        BY <1>2, <1>4, <2>3
      <4> QED
        BY <2>1, <2>3, <4>1
    <3>2. l \in 1 .. n /\ queue'[l] = queue[l] /\ Comes(l)
      BY <1>2, <1>3, <2>3, <3>1
    <3>3. l \in 1 .. Len(queue) /\ queue[l].id = op.target
      BY <2>3, <3>2 DEF n
    <3> QED
      BY <1>5, <3>2, <3>3 DEF Aims
  <2> QED
    BY <1>5, <2>1, <2>2, <2>3 DEF Aims, Alike
<1> SUFFICES ASSUME NEW k \in 1 .. Len(queue')
             PROVE  queue'[k].code # "delete" /\ (queue'[k].code = "update" => Aims(queue[k])')
  BY DEF AimOK
<1>6. PICK op : op = queue'[k]
  OBVIOUS
<1>7. op.code # "delete" /\ (op.code = "update" => Aims(op))
  <2>1. CASE k \in 1 .. n
    <3>1. op = queue[k] /\ k \in 1 .. Len(queue)
      BY <1>2, <1>6, <2>1 DEF n
    <3> QED
      BY <3>1 DEF AimOK
  <2>2. CASE k = n + 1
    BY <1>2, <1>6, <2>2
  <2> QED
    BY <1>2, <2>1, <2>2
<1> QED
  BY <1>5, <1>6, <1>7

(* The record an update is to replace is stored, and nothing else goes by   *)
(* its id but the write that has just stored it.                            *)
LEMMA AimStore ==
    ASSUME Good, NEW p, NEW k, Data(p, k) # {}, hand # "run",
           NEW o, o.file = p, o.key = k, o.target = RecordAt(First(Data(p, k))).id
    PROVE  Aims(o)
<1>1. PICK loc \in Found : loc = First(Data(p, k)) /\ loc \in Data(p, k)
  BY DataFacts
<1>2. /\ phase = "initialized" /\ FlashOK(flash, writes) /\ pages[loc[1]].addr \in Phys /\ loc[2] \in Places
      /\ Holds(flash, pages[loc[1]].addr, loc[2])
      /\ RecordAt(loc) = flash[pages[loc[1]].addr].slot[loc[2]]
  BY FoundHolds
<1>3. PICK a \in Phys, i \in Places : a = pages[loc[1]].addr /\ i = loc[2]
  BY <1>2
<1>4. Holds(flash, a, i) /\ RecordAt(loc) = flash[a].slot[i] /\ Distinct(flash)
  BY <1>2, <1>3 DEF FlashOK
<1>5. RecordAt(loc).file = p /\ RecordAt(loc).key = k
  BY <1>1 DEF Data, DataOf
<1> DEFINE t == flash[a].slot[i]
<1>6. o.target = t.id /\ t.file = p /\ t.key = k
  BY <1>1, <1>4, <1>5
<1>7. o.target \in IdsIn(flash)
  BY <1>4, <1>6, StoredMember
<1>8. NumbersOK /\ QueueOK
  BY <1>2 DEF Good, OnOK
<1>9. o.target \in 1 .. latest
  BY <1>7, <1>8 DEF NumbersOK
<1>10. ASSUME NEW q \in Phys, NEW j \in Places, Holds(flash, q, j), flash[q].slot[j].id = o.target
       PROVE  flash[q].slot[j] = t
  <2>1. q = a /\ j = i
    BY <1>4, <1>6, <1>10 DEF Distinct
  <2> QED
    BY <2>1
<1>11. \A c \in CellsIn(flash) : c.id = o.target => c = t
  BY <1>10, StoredMember
<1> HIDE DEF t
<1>12. ASSUME NEW l \in 1 .. Len(queue), Comes(l), queue[l].id = o.target PROVE Alike(queue[l], o)
  <2>1. IsWriteOp(queue[l]) /\ ~ Uncommitted(l)
    BY <1>7, <1>8, <1>12 DEF NumbersOK, Comes
  <2>2. l = 1 /\ ~ (Working /\ Level < 4)
    BY <2>1 DEF Uncommitted
  <2>3. queue # <<>> /\ Op = queue[1]
    BY <1>8, <1>12, OpFacts
  <2>4. Working /\ Flying
    <3>1. hand = "idle"
      BY <1>12, <2>2, QueueTypes DEF Comes
    <3> QED
      BY <1>2, <2>3, <3>1 DEF Good, ModeOK, InitializedOK, Working, Telling, Resting
  <2>5. Writing
    BY <2>1, <2>2, <2>3, <2>4 DEF Writing
  <2>6. /\ Op.page \in Index /\ WriteAddr \in Phys /\ WriteSlot \in Places
        /\ flash[WriteAddr] = OnPage(Op.page) /\ OnPage(Op.page).tag = "data"
        /\ OnPage(Op.page).slot[WriteSlot] = Content(Op, Level)
        /\ (FlagsOld => Level = 4) /\ (~ FlagsOld => Level \in 0 .. 3)
        /\ Op.file \in Files /\ Op.key \in Keys /\ Op.id \in Nat \ {0} /\ Op.data \in 1 .. writes
    BY <2>4, <2>5, WriteFlight
  <2>7. Level = 4
    BY <2>2, <2>4, <2>6
  <2>8. PICK c : c = Content(Op, 4)
    OBVIOUS
  <2>9. c.file = Op.file /\ c.key = Op.key /\ c.id = Op.id /\ Valid(c)
    <3>1. Op.data \in Nat
      BY <1>8, <2>6 DEF QueueOK
    <3>2. c.file = Op.file /\ c.key = Op.key
      BY <2>8 DEF Content
    <3> QED
      BY <2>6, <2>8, <3>1, <3>2, ContentFacts
  <2>10. Holds(flash, WriteAddr, WriteSlot) /\ flash[WriteAddr].slot[WriteSlot] = c
    BY <2>6, <2>7, <2>8, <2>9 DEF Holds, Alive
  <2>11. c \in CellsIn(flash)
    BY <2>6, <2>10, StoredMember
  <2>12. c = t
    BY <1>11, <1>12, <2>2, <2>3, <2>9, <2>11
  <2> QED
    BY <1>6, <2>2, <2>3, <2>9, <2>12 DEF Alike
<1>13. \A c \in CellsIn(flash) : c.id = o.target => Alike(c, o)
  BY <1>6, <1>11 DEF Alike
<1> QED
  BY <1>9, <1>12, <1>13 DEF Aims

\* What the peer manager does to the storage.
LEMMA PeerActs ==
    ASSUME Good, PeerOK, [PeerNext]_allVars, ~ FlashTimeout
    PROVE  \/ UNCHANGED vars
           \/ \E p \in Files, k \in {"bond", "rank"} : StoreData(p, k)
           \/ \E p \in Files : FileDelete(p)
           \/ GcRequest \/ Executes \/ FlashDone \/ QueueNext \/ Boot \/ PowerCut
<1>1. CASE UNCHANGED allVars
  BY <1>1 DEF allVars
<1>2. CASE PmInit
  BY <1>2 DEF PmInit
<1>3. CASE \/ \E erase \in BOOLEAN : PeerIdsLoad(erase)
           \/ PeersDelete \/ StorageFull \/ FlashCleaning \/ NothingDeferred \/ FdsEvent \/ Bonded
           \/ \E p \in Files : BondedPeer(p)
  BY <1>3 DEF PeerIdsLoad, PeersDelete, StorageFull, FlashCleaning, NothingDeferred, FdsEvent, Bonded, BondedPeer
<1>4. CASE StoreBond
  <2>1. Now("store")
    BY <1>4 DEF StoreBond
  <2>2. /\ hand \in Contexts /\ Shaped(agenda[hand]) /\ Backed(agenda[hand], buffers)
        /\ agenda[hand] # <<>> /\ Peer = agenda[hand][1].arg /\ agenda[hand][1].do = "store"
        /\ Fits(agenda[hand][1])
    BY <2>1, NowFacts
  <2>3. 1 \in 1 .. Len(agenda[hand])
    BY <2>2, RestFacts
  <2>4. Peer \in 1 .. Buffers /\ buffers[Peer].state # "free"
    BY <2>2, <2>3 DEF Fits, Backed
  <2>5. buffers[Peer].peer \in Files
    BY <2>4 DEF PeerOK, BuffersOK, Kept
  <2> QED
    BY <1>4, <2>5 DEF StoreBond, Stop
<1>5. CASE Rank
  <2>1. Peer \in Files
    BY <1>5, NowFacts DEF Rank, Fits
  <2> QED
    BY <1>5, <2>1 DEF Rank, Stop
<1>6. CASE CleanFlash
  BY <1>6 DEF CleanFlash, Stop
<1>7. CASE DeleteProcess
  <2>1. CASE DeletePeer
    <3>1. Peer \in Files
      BY <2>1, NowFacts DEF DeletePeer, Fits
    <3> QED
      BY <2>1, <3>1 DEF DeletePeer, Stop
  <2>2. CASE StartDeletes \/ NextDeleted \/ FindInFile \/ FreeId \/ Unmark \/ Defer
    BY <2>2 DEF StartDeletes, NextDeleted, FindInFile, FreeId, Unmark, Defer
  <2> QED
    BY <1>7, <2>1, <2>2 DEF DeleteProcess
<1>8. CASE EventReturns
  BY <1>8 DEF EventReturns
<1>9. CASE FdsRuns
  BY <1>9 DEF FdsRuns, Executes
<1>10. CASE Reset
  BY <1>10 DEF Reset
<1> QED
  BY <1>1, <1>2, <1>3, <1>4, <1>5, <1>6, <1>7, <1>8, <1>9, <1>10 DEF PeerNext, PeerSteps, Handlers

\* The aims of updates stay, whatever the head of the queue does.
LEMMA AimExecutes ==
    ASSUME Good, AimOK, Executes
    PROVE  AimOK'
<1>1. /\ hand = "run" /\ latest' = latest /\ flash' = flash
      /\ \/ queue' = queue
         \/ \E st : queue' = [queue EXCEPT ![1].step = st]
         \/ Op.code = "delete" /\ \E f : queue' = [queue EXCEPT ![1].step = "done", ![1].file = f]
  BY ExecuteLeaves, ExecuteQueue DEF Executes
<1>2. queue # <<>> /\ queue \in Seq(OpType) /\ Op = queue[1] /\ 1 \in 1 .. Len(queue)
  BY <1>1, QueueTypes
<1>3. Op.code # "delete"
  BY <1>2 DEF AimOK
<1>4. PICK op \in OpType : op = queue[1]
  BY <1>2
<1>5. \A st : /\ [op EXCEPT !.step = st].code = op.code /\ [op EXCEPT !.step = st].id = op.id
              /\ [op EXCEPT !.step = st].file = op.file /\ [op EXCEPT !.step = st].key = op.key
              /\ [op EXCEPT !.step = st].target = op.target
  BY <1>4 DEF OpType
<1>6. /\ Len(queue') = Len(queue)
      /\ \A k \in 1 .. Len(queue) :
            /\ queue'[k].code = queue[k].code /\ queue'[k].id = queue[k].id
            /\ queue'[k].file = queue[k].file /\ queue'[k].key = queue[k].key
            /\ queue'[k].target = queue[k].target
  <2>1. CASE queue' = queue
    BY <2>1
  <2>2. Len(queue') = Len(queue) /\ queue' \in Seq(OpType)
    <3>1. Good'
      BY ExecutesFacts, GoodStep
    <3> QED
      BY <3>1, ExecutesFacts, QueueNextTypes DEF QueueSame
  <2>3. ASSUME NEW st, queue' = [queue EXCEPT ![1].step = st]
        PROVE  \A k \in 1 .. Len(queue) :
                  /\ queue'[k].code = queue[k].code /\ queue'[k].id = queue[k].id
                  /\ queue'[k].file = queue[k].file /\ queue'[k].key = queue[k].key
                  /\ queue'[k].target = queue[k].target
    <3>1. queue' = [queue EXCEPT ![1] = [op EXCEPT !.step = st]]
      BY <1>4, <2>3
    <3>2. PICK x : x = [op EXCEPT !.step = st]
      OBVIOUS
    <3>3. queue' = [queue EXCEPT ![1] = x]
      BY <3>1, <3>2
    <3>4. \A k \in 1 .. Len(queue) : queue'[k] = IF k = 1 THEN x ELSE queue[k]
      BY <1>2, <2>2, <3>3
    <3>5. /\ x.code = op.code /\ x.id = op.id /\ x.file = op.file /\ x.key = op.key
          /\ x.target = op.target
      BY <1>5, <3>2
    <3>6. ASSUME NEW k \in 1 .. Len(queue)
          PROVE  /\ queue'[k].code = queue[k].code /\ queue'[k].id = queue[k].id
                 /\ queue'[k].file = queue[k].file /\ queue'[k].key = queue[k].key
                 /\ queue'[k].target = queue[k].target
      <4>1. CASE k = 1
        <5>1. queue'[k] = x /\ queue[k] = op
          BY <1>4, <3>4, <4>1
        <5> QED
          BY <3>5, <5>1
      <4>2. CASE k # 1
        <5>1. queue'[k] = queue[k]
          BY <3>4, <4>2
        <5> QED
          BY <5>1
      <4> QED
        BY <4>1, <4>2
    <3> QED
      BY <3>6
  <2> QED
    BY <1>1, <1>3, <2>1, <2>2, <2>3
<1>7. \A k \in 1 .. Len(queue) : SameOp(k, k)
  BY <1>1, <1>6 DEF SameOp, Comes, IsWriteOp
<1> QED
  BY <1>1, <1>6, <1>7, AimKept

(* They stay while the flash works: what is stored is the record of the     *)
(* write at the head.                                                       *)
LEMMA AimDone ==
    ASSUME Good, AimOK, FlashDone
    PROVE  AimOK'
<1>1. Flying /\ hand' = "run" /\ UNCHANGED <<queue, latest>>
  BY DoneFacts
<1>2. /\ hand = "idle" /\ queue # <<>> /\ Op = queue[1] /\ OpOK(Op) /\ 1 \in 1 .. Len(queue) /\ writes \in Nat
  BY <1>1, FlightFacts DEF QueueOK
<1>3. \A k \in 1 .. Len(queue) : SameOp(k, k)
  BY <1>1, <1>2 DEF SameOp, Comes, IsWriteOp
<1>4. flash' # flash => Effect(flash')
  <2>1. Step /\ ~ FlashTimeout
    BY DEF Step, FlashDone, FlashTimeout
  <2> QED
    BY <2>1, StepEffect
<1>5. ASSUME NEW c \in CellsIn(flash'), c \notin CellsIn(flash)
      PROVE  \E m \in 1 .. Len(queue) : Comes(m) /\ queue[m].id = c.id /\ Alike(queue[m], c)
  <2>1. Commits(flash')
    BY <1>4, <1>5 DEF Effect, SameRecords, Removes
  <2>2. Writing /\ c = Content(Op, 4)
    BY <1>5, <2>1 DEF Commits
  <2>3. c.id = Op.id /\ c.file = Op.file /\ c.key = Op.key
    BY <2>2 DEF Content
  <2>4. Comes(1)
    BY <1>2, <2>2 DEF Comes, Writing
  <2> QED
    BY <1>2, <2>3, <2>4 DEF Alike
<1> QED
  BY <1>1, <1>3, <1>5, AimKept

\* And when the head leaves the queue.
LEMMA AimNext ==
    ASSUME Good, AimOK, QueueNext
    PROVE  AimOK'
<1>1. hand = "event" /\ queue' = Tail(queue) /\ UNCHANGED <<flash, latest>>
  BY DEF QueueNext
<1>2. queue \in Seq(OpType) /\ queue # <<>> /\ Len(queue) \in Nat
  BY <1>1, QueueTypes DEF Telling
<1>3. \A k \in 1 .. Len(queue') : k + 1 \in 1 .. Len(queue) /\ queue'[k] = queue[k + 1] /\ k + 1 # 1
  BY <1>1, <1>2
<1>4. \A k \in 1 .. Len(queue') : SameOp(k, k + 1)
  BY <1>3 DEF SameOp, Comes, IsWriteOp
<1>5. \A k \in 1 .. Len(queue') : \E m \in 1 .. Len(queue) : SameOp(k, m)
  BY <1>3, <1>4
<1> QED
  BY <1>1, <1>5, AimKept

LEMMA AimStep ==
    ASSUME Good, PeerOK, AimOK, [PeerNext]_allVars, ~ FlashTimeout
    PROVE  AimOK'
<1>1. CASE UNCHANGED vars
  <2>1. UNCHANGED <<queue, hand, latest, flash>>
    BY <1>1 DEF vars, ram
  <2>2. \A k \in 1 .. Len(queue') : SameOp(k, k) /\ k \in 1 .. Len(queue)
    BY <2>1 DEF SameOp, Comes
  <2> QED
    BY <2>1, <2>2, AimKept
<1>2. ASSUME NEW p \in Files, NEW k \in {"bond", "rank"}, StoreData(p, k) PROVE AimOK'
  <2>1. latest' \in Nat /\ latest' = latest + 1 /\ \E o : Sends(o, p, k)
    BY <1>2, StoreGrows
  <2>2. PICK o : /\ Grows(o) /\ IsWriteOp(o) /\ o.id = latest' /\ o.file = p /\ o.key = k
                 /\ o.code = "update" => Data(p, k) # {} /\ o.target = RecordAt(First(Data(p, k))).id
    BY <2>1 DEF Sends
  <2>3. CanCall
    BY <1>2 DEF StoreData, RecordWrite, RecordUpdate, WriteEnqueue
  <2>4. hand # "run" /\ latest \in Nat
    BY <2>3, CallFacts DEF CanCall
  <2>5. o.code = "update" => Aims(o)
    BY <2>2, <2>4, AimStore
  <2>6. o.code # "delete"
    BY <2>2 DEF IsWriteOp
  <2> QED
    BY <2>1, <2>2, <2>4, <2>5, <2>6, AimGrows
<1>3. ASSUME NEW o, Grows(o), o.code \in {"delete file", "gc"}, CanCall, latest' = latest PROVE AimOK'
  <2>1. latest \in Nat /\ ~ IsWriteOp(o)
    BY <1>3, CallFacts DEF IsWriteOp
  <2> QED
    BY <1>3, <2>1, AimGrows
<1>4. ASSUME NEW p \in Files, FileDelete(p) PROVE AimOK'
  <2>1. CanCall /\ latest' = latest
    BY <1>4 DEF FileDelete
  <2> QED
    BY <1>3, <1>4, <2>1, DeleteGrows
<1>5. CASE GcRequest
  <2>1. CanCall /\ latest' = latest /\ Enqueue(NewOp) /\ UNCHANGED <<flash, pages, phase, tok, timeouts>>
    BY <1>5 DEF GcRequest, bounds
  <2>2. NewOp \in OpType /\ NewOp.code = "gc"
    BY NewOpFacts
  <2>3. Grows(NewOp)
    BY <2>1, <2>2 DEF Grows, Enqueue
  <2> QED
    BY <1>3, <2>1, <2>2, <2>3
<1>6. CASE Boot
  <2>1. queue = <<>>
    BY <1>6 DEF Boot, Good, ModeOK, OffOK, Resting
  <2>2. queue' = <<>> \/ \E st : queue' = <<[NewOp EXCEPT !.code = "init", !.step = st]>>
    BY <1>6, <2>1 DEF Boot
  <2>3. \A st : [NewOp EXCEPT !.code = "init", !.step = st].code = "init"
    BY DEF NewOp
  <2>4. \A k \in 1 .. Len(queue') : queue'[k].code = "init"
    <3>1. CASE queue' = <<>>
      BY <3>1
    <3>2. CASE \E st : queue' = <<[NewOp EXCEPT !.code = "init", !.step = st]>>
      <4>1. PICK x : queue' = <<x>> /\ x.code = "init"
        BY <2>3, <3>2
      <4> QED
        BY <4>1
    <3> QED
      BY <2>2, <3>1, <3>2
  <2> QED
    BY <2>4 DEF AimOK
<1>7. CASE PowerCut
  <2>1. queue' = <<>>
    BY <1>7 DEF PowerCut
  <2> QED
    BY <2>1 DEF AimOK
<1> QED
  BY <1>1, <1>2, <1>4, <1>5, <1>6, <1>7, AimExecutes, AimDone, AimNext, PeerActs

AimInv == timeouts = 0 => AimOK

LEMMA AimStarts == PeerInit => AimInv
BY DEF PeerInit, Init, AimInv, AimOK

LEMMA AimInductive == PInv /\ AimInv /\ [PeerNext]_allVars => AimInv'
<1> SUFFICES ASSUME PInv, AimInv, [PeerNext]_allVars, timeouts' = 0 PROVE AimOK'
  BY DEF AimInv
<1>1. timeouts = 0 /\ ~ FlashTimeout
  BY TimeoutsCount DEF PInv
<1> QED
  BY <1>1, AimStep DEF PInv, AimInv

(* Until an operation of fstorage is given up, an update replaces a record  *)
(* of its own peer and of its own kind: the id it was given of the record   *)
(* when it was asked for is not taken by another one in between, though     *)
(* records of that peer are deleted and others stored before it is done.    *)
THEOREM PeerAims == PeerSpec => []AimInv
BY PeerInvariant, AimStarts, AimInductive, PTL DEF PeerSpec

\* A bond leaves the flash only by the deletion of its peer's file: no update of
\* a rank, whose record to replace was found when it was asked for and is looked
\* up again by its id, no cleaning and no reset takes the keys of a phone.
BondsOutlast == [][timeouts' = 0 => \A p \in Files : HasBond(p) /\ ~ HasBond(p)' =>
                     queue # <<>> /\ Op.code = "delete file" /\ Op.file = p]_allVars

BondIn(p) == \E c \in CellsIn(flash) : c.file = p /\ c.key = "bond"
BondHolds == timeouts = 0 => \A p \in Files : HasBond(p) <=> BondIn(p)

\* A bond in flash is a record that a reset would find.
LEMMA BondFollows == PInv => BondHolds
<1> SUFFICES ASSUME PInv, timeouts = 0, NEW p \in Files PROVE HasBond(p) <=> BondIn(p)
  BY DEF BondHolds
<1>1. FlashOK(flash, writes)
  BY DEF PInv, Good
<1>2. \A q \in Phys : Survives(q) <=> Alive(flash, q)
  BY <1>1, Formation, CanTag DEF Survives, Alive
<1>3. HasBond(p) <=> \E q \in Phys, i \in Places :
          Holds(flash, q, i) /\ flash[q].slot[i].file = p /\ flash[q].slot[i].key = "bond"
  BY <1>1, <1>2, Formation DEF HasBond, Holds
<1> QED
  BY <1>3, StoredMember DEF BondIn

(* The cell of a bond that leaves the flash is flagged by the deletion of   *)
(* its file: an update that flags it has stored another one before.         *)
LEMMA BondStep ==
    ASSUME Good, AimOK, [Step]_vars, ~ FlashTimeout, NEW p \in Files, BondIn(p), ~ BondIn(p)'
    PROVE  queue # <<>> /\ Op.code = "delete file" /\ Op.file = p
<1>1. PICK c \in CellsIn(flash) : c.file = p /\ c.key = "bond"
  BY DEF BondIn
<1>2. c \notin CellsIn(flash') /\ flash' # flash
  BY <1>1 DEF BondIn
<1>3. Flying /\ Effect(flash')
  BY <1>2, StepEffect
<1>4. queue # <<>> /\ Op = queue[1] /\ 1 \in 1 .. Len(queue)
  BY <1>3, FlightFacts
<1>5. Removes(flash')
  BY <1>2, <1>3 DEF Effect, SameRecords, Commits
<1>6. PICK q \in Phys, i \in Places :
          /\ Targets(flash[q].slot[i])
          /\ CellsIn(flash') = CellsIn(flash) \ {flash[q].slot[i]}
          /\ Op.code = "update" => Content(Op, 4) \in CellsIn(flash')
  BY <1>5 DEF Removes
<1>7. c = flash[q].slot[i] /\ Targets(c)
  BY <1>2, <1>6
<1>8. Op.code # "delete"
  BY <1>4 DEF AimOK
<1>9. Op.code # "update"
  <2> SUFFICES ASSUME Op.code = "update" PROVE FALSE
    OBVIOUS
  <2>1. Aims(Op) /\ c.id = Op.target
    BY <1>4, <1>7 DEF AimOK, Targets
  <2>2. Op.file = p /\ Op.key = "bond"
    BY <1>1, <2>1 DEF Aims, Alike
  <2>3. PICK d \in CellsIn(flash') : d = Content(Op, 4)
    BY <1>6
  <2>4. d.file = p /\ d.key = "bond"
    BY <2>2, <2>3 DEF Content
  <2> QED
    BY <2>4 DEF BondIn
<1> QED
  BY <1>1, <1>4, <1>7, <1>8, <1>9 DEF Targets

BondKeeps == timeouts' = 0 => \A p \in Files : HasBond(p) /\ ~ HasBond(p)' =>
    queue # <<>> /\ Op.code = "delete file" /\ Op.file = p

(* A bond leaves the flash only by the deletion of its peer's file: no      *)
(* update of a rank, cleaning of the flash or reset takes a phone's keys.   *)
THEOREM PeerBondsOutlast == PeerSpec => BondsOutlast
<1>1. PInv /\ AimInv /\ BondHolds /\ BondHolds' /\ [PeerNext]_allVars => BondKeeps
  <2> SUFFICES ASSUME PInv, AimInv, BondHolds, BondHolds', [PeerNext]_allVars, timeouts' = 0,
                      NEW p \in Files, HasBond(p), ~ HasBond(p)'
               PROVE  queue # <<>> /\ Op.code = "delete file" /\ Op.file = p
    BY DEF BondKeeps
  <2>1. timeouts = 0 /\ [Step]_vars /\ Good /\ ~ FlashTimeout
    BY PeerStep, TimeoutsCount DEF PInv
  <2>2. AimOK /\ BondIn(p) /\ ~ BondIn(p)'
    BY <2>1 DEF AimInv, BondHolds
  <2> QED
    BY <2>1, <2>2, BondStep
<1> QED
  BY PeerInvariant, PeerAims, BondFollows, <1>1, PTL DEF PeerSpec, BondsOutlast, BondKeeps

-----------------------------------------------------------------------------
\* The storage below, when flash operations are given up.

(* After FlashTimeout words may be spoiled and slots programmed twice, and  *)
(* a collection may stop half-way and be resumed. The types hold all the    *)
(* same, because no slot is ever used behind the write offset in RAM, nor   *)
(* one beyond the end of a page: that takes what a page looks like          *)
(* (Within), what the operation in flight leaves behind (Outcome), and how  *)
(* far the installation, the writes and the collections have come. LooseInv *)
(* is the conjunction of these, what is left of Good. It is about the       *)
(* storage with any client, as Fds has it: nothing here uses what           *)
(* PeerManager assumes of the constants.                                    *)

\* The words of flash, spoiled ones too.  Within: the first n - 1 slots of a
\* page have a key, and no slot from n on has the file id of a finished record.
LooseCell == [key : Keys \union {"none", "dirty", "spoiled"}, file : Files \union {NoFile},
              id : Nat \union {-1}, data : Nat \union {-1}]
LoosePage == [tag : Tags \union {"spoiled"}, slot : [Places -> LooseCell]]
Within(p, n) == \A j \in Places : IF j < n THEN p.slot[j].key # "none" ELSE p.slot[j].file = NoFile
Gapless(p) == \E n \in 1 .. Slots + 1 : Within(p, n)
LooseFlash == /\ flash \in [Phys -> LoosePage] /\ OneSwap(flash)
              /\ \A p \in Phys : Gapless(flash[p])

\* The kinds of what RAM holds.
LooseGcInfo == [state : {"begin", "copy", "erase", "promote", "discard", "tag"}, cur : Index,
                src : 0 .. Slots, todo : SUBSET Index, resume : BOOLEAN]
LooseTypes == /\ pages \in ScanPages /\ swap \in [addr : Phys \union {NoPage}, offset : ScanOffset]
              /\ gc \in LooseGcInfo

\* The flash operation in flight, whose last stage FlashDone leaves behind.
Stages == flashing.stages
Landing == flashing.addr
Outcome == Stages[Len(Stages)]
Keeps == Landing \in Phys => /\ \A n \in 1 .. Slots + 1 : Within(flash[Landing], n) => Within(Outcome, n)
                             /\ Outcome.tag = "swap" => flash[Landing].tag = "swap"
LooseStages == Flying =>
    /\ Stages \in Seq(LoosePage) \/ Landing \notin Phys
    /\ Len(Stages) \in Nat /\ 1 <= Len(Stages)
    /\ Landing \in Phys => \A k \in 1 .. Len(Stages) :
          /\ Stages[k] \in LoosePage /\ Gapless(Stages[k])
          /\ Stages[k].tag = "swap" => \A p \in Phys : flash[p].tag = "swap" => p = Landing

\* The only page tagged as a swap page, while the storage is up.
SwapAt == IF gc.state = "promote" THEN pages[gc.cur].addr ELSE swap.addr
LooseTags ==
    /\ \A p \in Phys : flash[p].tag = "swap" =>
          p = SwapAt \/ (Flying /\ phase = "installing" /\ p = Landing)
    /\ Flying /\ Landing \in Phys /\ Outcome.tag = "swap" => Landing = SwapAt

LooseRoles ==
    /\ swap.addr \in Phys /\ 1 <= swap.offset
    /\ \A i \in Index : pages[i].addr \in Phys /\ pages[i].addr # swap.addr
    /\ \A i, j \in Index : pages[i].addr = pages[j].addr => i = j

\* A write at the head: it reserved its space on a data page, it has come past
\* its first step when a flash operation ends, and its key is there before it
\* goes on.
WritesAt(i) == Working /\ IsWriteOp(Op) /\ Op.page = i
Late == Op.step \in {"flag", "done"}
Keyed == Op.step \in {"data", "finalize", "flag", "done"} \/ (Op.step = "id" /\ ~ Flying /\ Proceeds)
LooseWriting ==
    /\ \A k \in 1 .. Len(queue) : IsWriteOp(queue[k]) => pages[queue[k].page].type = "data"
    /\ Working /\ IsWriteOp(Op) =>
          /\ Flying \/ ~ Proceeds => Op.step \notin {"begin", "find"}
          /\ Flying => \/ Op.code = "update" /\ Op.step = "done" /\ Keeps
                       \/ /\ Landing = WriteAddr
                          /\ Op.step \in {"id", "data", "finalize"} => Within(Outcome, WriteSlot)
                          /\ Within(Outcome, WriteSlot + 1)
LooseDeleting == Working /\ Flying /\ Op.code \in {"delete", "delete file"} => Keeps

\* A collection: how far it has come, and what its last flash operation leaves.
CollectsAt(k) == queue[k].code = "gc" /\ (k = 1 => Working)
GcRunning == Working /\ Op.code = "gc" /\ gc.state # "begin" /\ ~ gc.resume
GcLanded == GcRunning /\ ~ Flying /\ Proceeds
GcOutcome ==
    /\ gc.state \in {"copy", "discard", "tag"} => Landing = swap.addr
    /\ gc.state \in {"erase", "promote"} => Landing = pages[gc.cur].addr
    /\ gc.state = "copy" => Within(Outcome, swap.offset + 1)
    /\ gc.state \in {"erase", "discard"} => Within(Outcome, 1) /\ Outcome.tag # "swap"
    /\ gc.state \in {"promote", "tag"} => \A n \in 1 .. Slots + 1 : Within(flash[Landing], n) => Within(Outcome, n)
    /\ gc.state = "promote" => Outcome.tag # "swap"
GcReached ==
    /\ \A i \in gc.todo : pages[i].type = "data"
    /\ gc.state # "begin" => pages[gc.cur].type = "data"
    /\ gc.state \in {"begin", "promote", "discard", "tag"} => swap.offset = 1
    /\ gc.state \in {"begin", "tag"} => gc.src = 0
    /\ gc.state = "copy" => gc.src \in Places /\ swap.offset <= gc.src /\ gc.src < pages[gc.cur].offset
    /\ gc.state = "erase" => swap.offset <= pages[gc.cur].offset
    /\ gc.state # "discard" \/ GcLanded =>
          Within(OnSwap, IF gc.state = "copy" /\ GcLanded THEN swap.offset + 1 ELSE swap.offset)
    /\ gc.state = "promote" /\ GcLanded => OnPage(gc.cur).tag # "swap"
LooseGc ==
    /\ GcReached
    /\ \A k, l \in 1 .. Len(queue) : CollectsAt(k) /\ CollectsAt(l) => k = l
    /\ \A k \in 1 .. Len(queue) : k > 1 /\ queue[k].code = "gc" => gc.state = "begin" \/ gc.resume
    /\ Working /\ Flying /\ Op.code = "gc" => GcRunning /\ GcOutcome

\* The data pages: all their records lie behind the write offset in RAM.
LoosePages == \A i \in Index : pages[i].type # "undefined" =>
    /\ 1 <= pages[i].offset
    /\ IF GcLanded /\ gc.state = "erase" /\ i = gc.cur THEN Within(OnPage(i), 1)
       ELSE /\ ~ (WritesAt(i) /\ Late) => Within(OnPage(i), pages[i].offset)
            /\ WritesAt(i) /\ Keyed => Within(OnPage(i), pages[i].offset + 1)

\* The installation.
LooseInstall ==
    /\ gc.state = "begin" /\ gc.src = 0 /\ gc.todo = {}
    /\ \A i \in Index : pages[i].reserved = 0 /\ (pages[i].type = "erased" => pages[i].offset = 1)
    /\ Flying =>
         /\ swap.offset = 1 /\ Op.step \in {"tag swap", "tag data"}
         /\ \/ Landing = swap.addr /\ Within(Outcome, 1)
            \/ Keeps /\ Within(OnSwap, 1) /\ Landing # swap.addr
         /\ Op.step = "tag swap" \/ Landing # swap.addr => Outcome.tag # "swap"
    /\ ~ Flying /\ Proceeds =>
         /\ Op.step \in {"tag swap", "tag data"} => swap.offset = 1
         /\ Op.step # "erase swap" => Within(OnSwap, swap.offset)
         /\ Op.step = "promote swap" => pages[gc.cur].type = "erased"

LooseOn == LooseRoles /\ QueueOK /\ SpaceOK /\ LooseTags
LooseInv ==
    /\ LooseFlash /\ LooseTypes /\ LooseStages
    /\ Working \/ Telling \/ Resting
    /\ result = "success" \/ hand # "idle"
    /\ phase \in {"off", "installing", "initialized", "failed"}
    /\ writes \in Nat /\ timeouts \in Nat
    /\ Len(queue) <= QueueSize
    /\ phase = "off" => Resting /\ gc = GcIdle /\ latest = 0
    /\ phase = "failed" => (Telling /\ Len(queue) = 1 /\ queue \in Seq(OpType)) \/ Resting
    /\ phase = "installing" =>
         /\ Working /\ Len(queue) = 1 /\ queue \in Seq(OpType) /\ Op.code = "init"
         /\ Flying \/ Proceeds => LooseOn /\ LoosePages /\ LooseInstall
    /\ phase = "initialized" =>
         /\ LooseOn /\ LoosePages /\ LooseWriting /\ LooseDeleting /\ LooseGc
         /\ queue # <<>> /\ Op.code = "init" => Telling

\* The constants and the words of flash, spoiled ones too.
LEMMA LooseConstants ==
    /\ "none" \notin Keys /\ "dirty" \notin Keys /\ "spoiled" \notin Keys
    /\ Files \subseteq Nat /\ NoFile \notin Files /\ NoFile = 0
    /\ \A p \in LoosePage : /\ p.tag \in Tags \union {"spoiled"}
                            /\ \A j \in Places : /\ p.slot[j] \in LooseCell
                                                 /\ p.slot[j].file \in Files \union {NoFile}
<1>1. "spoiled" \notin Keys
  BY ConstantsAssumption
<1>2. \A p \in LoosePage : /\ p.tag \in Tags \union {"spoiled"}
                           /\ \A j \in Places : p.slot[j] \in LooseCell /\ p.slot[j].file \in Files \union {NoFile}
  BY DEF LoosePage, LooseCell
<1> QED
  BY <1>1, <1>2, ConstantFacts DEF NoFile

\* Words of one slot of a page change; those outside a page do not.
LEMMA LoosePut ==
    ASSUME NEW p \in LoosePage, NEW i, NEW c, i \in Places => c \in LooseCell
    PROVE  /\ Put(p, i, c) \in LoosePage /\ Put(p, i, c).tag = p.tag
           /\ \A j \in Places : Put(p, i, c).slot[j] = IF j = i THEN c ELSE p.slot[j]
<1>1. p.slot \in [Places -> LooseCell] /\ p \in [tag : Tags \union {"spoiled"}, slot : [Places -> LooseCell]]
  BY DEF LoosePage
<1>2. [p.slot EXCEPT ![i] = c] \in [Places -> LooseCell]
  BY <1>1
<1>3. Put(p, i, c) = [p EXCEPT !.slot = [p.slot EXCEPT ![i] = c]]
  BY <1>1 DEF Put
<1>4. Put(p, i, c).slot = [p.slot EXCEPT ![i] = c] /\ Put(p, i, c).tag = p.tag /\ Put(p, i, c) \in LoosePage
  BY <1>1, <1>2, <1>3 DEF LoosePage
<1>5. \A j \in Places : Put(p, i, c).slot[j] = IF j = i THEN c ELSE p.slot[j]
  BY <1>1, <1>4
<1> QED
  BY <1>4, <1>5

\* Programming a key, an id or data moves no record.
LEMMA LooseKey ==
    ASSUME NEW p \in LoosePage, NEW i, NEW k \in Keys \union {"dirty", "spoiled"},
           NEW q, q = WithKey(p, i, k)
    PROVE  /\ q \in LoosePage /\ q.tag = p.tag
           /\ \A n \in Int : Within(p, n) => Within(q, n)
           /\ \A n \in Int : i = n /\ Within(p, n) => Within(q, n + 1)
<1> DEFINE w == Program(p.slot[i].key, "none", k)
           c == [p.slot[i] EXCEPT !.key = w]
<1>1. w \in Keys \union {"dirty", "spoiled"} /\ w # "none"
  BY LooseConstants DEF Program
<1>2. i \in Places => c \in LooseCell /\ c.key = w /\ c.file = p.slot[i].file
  <2> HIDE DEF w
  <2> QED
    BY <1>1, LooseConstants DEF LooseCell
<1>3. q = Put(p, i, c)
  BY DEF WithKey, Put, LoosePage
<1> HIDE DEF c
<1>4. q \in LoosePage /\ q.tag = p.tag /\ \A j \in Places : q.slot[j] = IF j = i THEN c ELSE p.slot[j]
  BY <1>2, <1>3, LoosePut
<1>5. \A j \in Places : /\ q.slot[j].file = p.slot[j].file
                        /\ p.slot[j].key # "none" \/ j = i => q.slot[j].key # "none"
  BY <1>1, <1>2, <1>4
<1>6. \A n \in Int : Within(p, n) => Within(q, n)
  BY <1>5 DEF Within
<1>7. ASSUME NEW n \in Int, i = n, Within(p, n) PROVE Within(q, n + 1)
  <2> SUFFICES ASSUME NEW j \in Places
               PROVE  IF j < n + 1 THEN q.slot[j].key # "none" ELSE q.slot[j].file = NoFile
    BY DEF Within
  <2>1. j \in Int
    BY ConstantFacts DEF Places
  <2>2. j < n + 1 <=> j < n \/ j = n
    BY <2>1
  <2> QED
    BY <1>5, <1>7, <2>2 DEF Within
<1> QED
  BY <1>4, <1>6, <1>7

\* the same for the words that are neither a key nor a file id
LEMMA LooseWords ==
    ASSUME NEW p \in LoosePage, NEW i, NEW m \in Nat \union {-1},
           NEW q, q = WithId(p, i, m) \/ q = WithData(p, i, m)
    PROVE  q \in LoosePage /\ q.tag = p.tag /\ \A n : Within(p, n) => Within(q, n)
<1> DEFINE C == {x \in LooseCell : x.key = p.slot[i].key /\ x.file = p.slot[i].file}
<1>1. \A x : ProgramId(x, m) \in Nat \union {-1}
  BY DEF ProgramId
<1>2. PICK c : /\ i \in Places => c \in C
               /\ q = Put(p, i, c)
  <2>1. CASE q = WithId(p, i, m)
    <3> DEFINE w == ProgramId(p.slot[i].id, m)
               c == [p.slot[i] EXCEPT !.id = w]
    <3>1. w \in Nat \union {-1}
      BY <1>1
    <3>2. i \in Places => c \in C
      <4> HIDE DEF w
      <4> QED
        BY <3>1, LooseConstants DEF LooseCell
    <3>3. q = Put(p, i, c)
      BY <2>1 DEF WithId, Put, LoosePage
    <3> QED
      BY <3>2, <3>3
  <2>2. CASE q = WithData(p, i, m)
    <3> DEFINE w == ProgramId(p.slot[i].data, m)
               c == [p.slot[i] EXCEPT !.data = w]
    <3>1. w \in Nat \union {-1}
      BY <1>1
    <3>2. i \in Places => c \in C
      <4> HIDE DEF w
      <4> QED
        BY <3>1, LooseConstants DEF LooseCell
    <3>3. q = Put(p, i, c)
      BY <2>2 DEF WithData, Put, LoosePage
    <3> QED
      BY <3>2, <3>3
  <2> QED
    BY <2>1, <2>2
<1>3. q \in LoosePage /\ q.tag = p.tag /\ \A j \in Places : q.slot[j] = IF j = i THEN c ELSE p.slot[j]
  BY <1>2, LoosePut
<1>4. \A j \in Places : q.slot[j].file = p.slot[j].file /\ q.slot[j].key = p.slot[j].key
  BY <1>2, <1>3
<1> QED
  BY <1>3, <1>4 DEF Within

\* Programming a file id that is still erased finishes a record.
LEMMA LooseFile ==
    ASSUME NEW p \in LoosePage, NEW i, NEW f \in Files \union {NoFile}, i \in Places => p.slot[i].file = NoFile,
           NEW n \in Int, i < n, Within(p, n), NEW q, q = WithFile(p, i, f)
    PROVE  q \in LoosePage /\ q.tag = p.tag /\ Within(q, n)
<1> DEFINE w == ProgramId(p.slot[i].file, f)
           c == [p.slot[i] EXCEPT !.file = w]
<1>1. i \in Places => w = f
  BY LooseConstants DEF ProgramId
<1>2. i \in Places => c \in LooseCell /\ c.key = p.slot[i].key
  <2> HIDE DEF w
  <2> QED
    BY <1>1, LooseConstants DEF LooseCell
<1>3. q = Put(p, i, c)
  BY DEF WithFile, Put, LoosePage
<1> HIDE DEF c
<1>4. q \in LoosePage /\ q.tag = p.tag /\ \A j \in Places : q.slot[j] = IF j = i THEN c ELSE p.slot[j]
  BY <1>2, <1>3, LoosePut
<1>5. \A j \in Places : q.slot[j].key = p.slot[j].key /\ (j # i => q.slot[j].file = p.slot[j].file)
  BY <1>2, <1>4
<1>6. Within(q, n)
  BY <1>5 DEF Within
<1> QED
  BY <1>4, <1>6

\* The number of slots in use.
LEMMA WithinFacts ==
    /\ \A p, q : p.slot = q.slot => \A n : Within(p, n) => Within(q, n)
    /\ \A p : \A n \in 1 .. Slots + 1 : Within(p, n) => Gapless(p)
    /\ \A p : \A n \in 1 .. Slots + 1 : Within(p, n + 1) => Gapless(p)
    /\ \A p : \A n \in Int : Within(p, n) => \A j \in Places : p.slot[j].file # NoFile => j < n
<1>1. \A p, q : p.slot = q.slot => \A n : Within(p, n) => Within(q, n)
  BY DEF Within
<1>2. \A p : \A n \in 1 .. Slots + 1 : Within(p, n) => Gapless(p)
  BY DEF Gapless
<1>3. ASSUME NEW p, NEW n \in 1 .. Slots + 1, Within(p, n + 1) PROVE Gapless(p)
  <2>1. CASE n = Slots + 1
    <3>1. Within(p, n)
      BY <1>3, <2>1, FilledRange DEF Within
    <3> QED
      BY <3>1, <1>2
  <2>2. CASE n # Slots + 1
    <3>1. n + 1 \in 1 .. Slots + 1
      BY <2>2, FilledRange
    <3> QED
      BY <1>3, <3>1, <1>2
  <2> QED
    BY <2>1, <2>2
<1>4. \A p : \A n \in Int : Within(p, n) => \A j \in Places : p.slot[j].file # NoFile => j < n
  BY FilledRange DEF Within
<1> QED
  BY <1>1, <1>2, <1>3, <1>4

\* An erased page.
LEMMA LooseBlank == Blank \in LoosePage /\ Blank.tag = "none" /\ Within(Blank, 1) /\ Gapless(Blank)
<1>1. Empty \in LooseCell
  BY DEF Empty, LooseCell
<1>2. Blank \in LoosePage /\ Blank.tag = "none" /\ \A j \in Places : Blank.slot[j] = Empty
  BY <1>1 DEF Blank, LoosePage, Tags, Places
<1>3. Within(Blank, 1)
  BY <1>2, FilledRange DEF Within, Empty, Places
<1> QED
  BY <1>2, <1>3, WithinFacts, FilledRange

\* A copy fills the slot it goes to, word by word.
LEMMA LooseCopy ==
    ASSUME NEW p \in LoosePage, NEW n \in 1 .. Slots + 1, Within(p, n),
           NEW c \in LooseCell, c.key # "none"
    PROVE  /\ CopyStages(p, n, c) \in Seq(LoosePage) /\ Len(CopyStages(p, n, c)) = 4
           /\ \A k \in 1 .. 4 : /\ CopyStages(p, n, c)[k] \in LoosePage
                                /\ CopyStages(p, n, c)[k].tag = p.tag
                                /\ Within(CopyStages(p, n, c)[k], n + 1)
<1> DEFINE a == WithKey(p, n, c.key)
           b == WithFile(a, n, c.file)
           d == WithId(b, n, c.id)
           e == WithData(d, n, c.data)
<1>1. n \in Int /\ n < n + 1 /\ c.key \in Keys \union {"dirty", "spoiled"} /\ c.file \in Files \union {NoFile}
      /\ c.id \in Nat \union {-1} /\ c.data \in Nat \union {-1}
  BY FilledRange DEF LooseCell
<1>2. a \in LoosePage /\ a.tag = p.tag /\ Within(a, n + 1) /\ Within(a, n)
  BY <1>1, LooseKey
<1>3. n \in Places => a.slot[n].file = NoFile
  BY <1>1, <1>2 DEF Within
<1> HIDE DEF a
<1>4. b \in LoosePage /\ b.tag = p.tag /\ Within(b, n + 1)
  <2>1. n + 1 \in Int
    BY <1>1
  <2> QED
    BY <1>1, <1>2, <1>3, <2>1, LooseFile
<1> HIDE DEF b
<1>5. d \in LoosePage /\ d.tag = p.tag /\ Within(d, n + 1)
  BY <1>1, <1>4, LooseWords
<1> HIDE DEF d
<1>6. e \in LoosePage /\ e.tag = p.tag /\ Within(e, n + 1)
  BY <1>1, <1>5, LooseWords
<1>7. CopyStages(p, n, c) = <<a, b, d, e>>
  BY DEF CopyStages, a, b, d
<1> HIDE DEF e
<1> QED
  BY <1>2, <1>4, <1>5, <1>6, <1>7

(* Writing a tag leaves the slots alone; the tag of a data page can be      *)
(* written over any other.                                                  *)
LEMMA LooseTag ==
    ASSUME NEW p \in LoosePage, NEW t \in {"swap", "data"}
    PROVE  /\ TagStages(p, t) \in Seq(LoosePage) /\ Len(TagStages(p, t)) = 2
           /\ \A k \in 1 .. 2 : /\ TagStages(p, t)[k] \in LoosePage
                                /\ TagStages(p, t)[k].slot = p.slot
                                /\ TagStages(p, t)[k].tag = "swap" => p.tag = "swap" \/ (k = 2 /\ t = "swap")
           /\ t = "data" => TagStages(p, t)[2].tag = "data"
<1> DEFINE a == IF p.tag = "none" THEN [p EXCEPT !.tag = "magic"] ELSE p
           w == Program(p.tag, IF p.tag = "magic" THEN p.tag ELSE "none", t)
           b == [p EXCEPT !.tag = w]
<1>1. a \in LoosePage /\ a.slot = p.slot /\ (a.tag = "swap" => p.tag = "swap")
  BY DEF LoosePage, Tags
<1>2. w \in Tags \union {"spoiled"} /\ (w = "swap" => t = "swap") /\ (t = "data" => w = "data")
  BY DEF Program, Tags
<1> HIDE DEF w
<1>3. b \in LoosePage /\ b.slot = p.slot /\ b.tag = w
  BY <1>2 DEF LoosePage
<1>4. TagStages(p, t) = <<a, b>>
  BY DEF TagStages, w
<1> HIDE DEF a, b
<1> QED
  BY <1>1, <1>2, <1>3, <1>4

(* page_scan stops behind the records, or one slot later where a write was  *)
(* given up.                                                                *)
LEMMA LooseOffset ==
    ASSUME NEW p, NEW n \in 1 .. Slots + 1, Within(p, n)
    PROVE  /\ WriteOffset(p) \in 1 .. Slots + 1 /\ Within(p, WriteOffset(p))
           /\ Records(p) \subseteq Places
           /\ \A j \in Records(p) : j < n /\ Valid(p.slot[j])
<1> DEFINE S == {i \in 1 .. Slots : p.slot[i].key = "none"} \union {Slots + 1}
<1>1. S \in SUBSET Nat /\ S # {} /\ S \subseteq 1 .. Slots + 1
  BY ConstantFacts
<1>2. Min(S) \in S /\ \A y \in S : Min(S) <= y
  <2> HIDE DEF S
  <2> QED
    BY <1>1, MinOf
<1>3. WriteOffset(p) = Min(S)
  BY DEF WriteOffset
<1>4. WriteOffset(p) \in 1 .. Slots + 1
  BY <1>1, <1>2, <1>3
<1>5. n <= WriteOffset(p)
  <2>1. \A i \in Places : i \in S => n <= i
    BY FilledRange DEF Within
  <2>2. \A i \in S : i \in Places \/ i = Slots + 1
    BY DEF Places
  <2>3. n <= Slots + 1
    OBVIOUS
  <2> HIDE DEF S
  <2> QED
    BY <1>2, <1>3, <2>1, <2>2, <2>3
<1>6. Within(p, WriteOffset(p))
  <2> SUFFICES ASSUME NEW j \in Places
               PROVE  IF j < WriteOffset(p) THEN p.slot[j].key # "none" ELSE p.slot[j].file = NoFile
    BY DEF Within
  <2>1. CASE j < WriteOffset(p)
    <3>1. p.slot[j].key = "none" => j \in S
      BY DEF Places
    <3> HIDE DEF S
    <3> QED
      BY <1>1, <1>2, <1>3, <1>4, <2>1, <3>1, FilledRange
  <2>2. CASE ~ (j < WriteOffset(p))
    <3>1. ~ (j < n)
      BY <1>4, <1>5, <2>2, FilledRange
    <3> QED
      BY <2>2, <3>1 DEF Within
  <2> QED
    BY <2>1, <2>2
<1>7. Records(p) \subseteq Places /\ \A j \in Records(p) : Valid(p.slot[j])
  <2>1. 1 .. WriteOffset(p) - 1 \subseteq Places
    BY <1>4, FilledRange DEF Places
  <2> QED
    BY <2>1 DEF Records
<1>8. \A j \in Records(p) : j < n
  BY <1>7, WithinFacts, FilledRange DEF Valid
<1> QED
  BY <1>4, <1>6, <1>7, <1>8

-----------------------------------------------------------------------------
\* What a boot makes of pages that given-up operations have left behind.

\* the slots from the offset of a page on hold no record
Sits(q) == /\ q.type # "undefined" => 1 <= q.offset /\ Within(flash[q.addr], q.offset)
           /\ q.type = "erased" => q.offset = 1
LooseList(pp, n, A, seen) ==
    /\ pp \in ScanPages /\ \A i \in Index : pp[i].reserved = 0
    /\ \A i \in Index : i < n => /\ pp[i].addr \in A /\ Sits(pp[i])
                                 /\ pp[i].type # "undefined" => pp[i].type \in seen
    /\ \A i, j \in Index : i < n /\ j < n /\ pp[i].addr = pp[j].addr => i = j
LooseSwap(s, k) ==
    /\ s.next = k /\ s.swap \in Before(k)
    /\ 1 <= s.offset /\ Within(flash[s.swap], s.offset)
    /\ flash[s.swap].tag # "swap" => s.provisional /\ s.offset = 1 /\ "erased" \in s.seen
    /\ "erased" \in s.seen /\ flash[s.swap].tag = "swap" => s.cur < s.next /\ s.pages[s.cur].type = "erased"
    /\ s.offset = 1 \/ "dirty" \in s.seen
    /\ "dirty" \in s.seen => flash[s.swap].tag = "swap" /\ s.offset # 1
    /\ "clean" \in s.seen => flash[s.swap].tag = "swap" /\ s.offset = 1
LooseScan(s, k) ==
    /\ s \in ScanRec /\ LooseList(s.pages, s.next, Before(k) \ {s.swap}, s.seen)
    /\ s.swap = NoPage => s.next = k + 1 /\ ~ s.provisional /\ s.seen \subseteq {"data"}
    /\ s.swap # NoPage => LooseSwap(s, k)
    /\ \A p \in Before(k) : flash[p].tag = "swap" => p = s.swap

\* The highest record id is a number, whatever the words of the page.
LEMMA LooseLatest ==
    ASSUME NEW p \in LoosePage, NEW n \in 1 .. Slots + 1, Within(p, n), NEW s, s.latest \in Nat
    PROVE  LatestId(s, p) \in Nat
<1> DEFINE S == {p.slot[i].id : i \in Records(p)} \union {s.latest}
<1>1. \A i \in Places : p.slot[i].id \in Int
  BY DEF LoosePage, LooseCell
<1>2. Records(p) \subseteq Places
  BY LooseOffset
<1>3. S \in SUBSET Int /\ S # {}
  BY <1>1, <1>2
<1>4. PICK b \in Nat : \A i \in Places : p.slot[i].id <= b
  BY <1>1, IdsBounded
<1>5. \A y \in S : y <= b + s.latest
  <2>1. \A i \in Records(p) : p.slot[i].id <= b + s.latest
    <3> SUFFICES ASSUME NEW i \in Records(p) PROVE p.slot[i].id <= b + s.latest
      OBVIOUS
    <3>1. p.slot[i].id \in Int /\ p.slot[i].id <= b
      BY <1>1, <1>2, <1>4
    <3> QED
      BY <3>1
  <2>2. s.latest <= b + s.latest
    OBVIOUS
  <2> QED
    BY <2>1, <2>2
<1>6. b + s.latest \in Int
  OBVIOUS
<1>7. Max(S) \in S /\ \A y \in S : y <= Max(S)
  <2> HIDE DEF S
  <2> QED
    BY <1>3, <1>5, <1>6, MaxOf
<1>8. Max(S) = LatestId(s, p)
  BY DEF LatestId
<1>9. Max(S) \in Int /\ s.latest <= Max(S)
  BY <1>3, <1>7
<1> QED
  BY <1>8, <1>9

\* The scan enters one page more; behind the last place it enters nothing.
LEMMA LooseListGrows ==
    ASSUME NEW pp, NEW n \in Nat, 1 <= n, NEW A, NEW seen, LooseList(pp, n, A, seen),
           NEW q \in ScanInfo, Sits(q), q.reserved = 0, q.addr \notin A,
           NEW more, seen \subseteq more, q.type # "undefined" => q.type \in more
    PROVE  LooseList([pp EXCEPT ![n] = q], n + 1, A \union {q.addr}, more)
<1> DEFINE pq == [pp EXCEPT ![n] = q]
<1>1. /\ pq \in ScanPages /\ (n \in Index => pq[n] = q) /\ \A i \in Index : i # n => pq[i] = pp[i]
  BY DEF LooseList, ScanPages
<1>2. \A i \in Index : i < n + 1 <=> i < n \/ i = n
  BY PhysFacts
<1>3. ~ (n < n)
  OBVIOUS
<1> HIDE DEF pq
<1>4. \A i \in Index : pq[i].reserved = 0
  BY <1>1 DEF LooseList
<1>5. \A i \in Index : i < n + 1 => /\ pq[i].addr \in A \union {q.addr} /\ Sits(pq[i])
                                    /\ pq[i].type # "undefined" => pq[i].type \in more
  BY <1>1, <1>2, <1>3 DEF LooseList
<1>6. \A i, j \in Index : i < n + 1 /\ j < n + 1 /\ pq[i].addr = pq[j].addr => i = j
  BY <1>1, <1>2, <1>3 DEF LooseList
<1> QED
  BY <1>1, <1>4, <1>5, <1>6 DEF LooseList, pq

\* the scan starts with nothing
LEMMA LooseBegins == LooseScan(ScanStart, 0)
<1>1. ScanStart \in ScanRec
  BY ScanBegins, ScanRecIs DEF ScanOK
<1>2. LooseList(ScanStart.pages, 1, {}, {})
  <2>1. NewPage \in ScanInfo /\ NewPage.reserved = 0
    BY NewPageFacts
  <2>2. ScanStart.pages \in ScanPages /\ \A i \in Index : ScanStart.pages[i].reserved = 0
    BY <2>1 DEF ScanPages, ScanStart
  <2>3. \A i \in Index : ~ (i < 1)
    BY PhysFacts
  <2> QED
    BY <2>2, <2>3 DEF LooseList
<1>3. /\ ScanStart.next = 1 /\ ScanStart.swap = NoPage /\ ~ ScanStart.provisional /\ ScanStart.seen = {}
      /\ Before(0) \ {NoPage} = {}
  BY BeforeFacts DEF ScanStart
<1>4. LooseList(ScanStart.pages, ScanStart.next, Before(0) \ {ScanStart.swap}, ScanStart.seen)
  BY <1>2, <1>3
<1> QED
  BY <1>1, <1>3, <1>4, BeforeFacts DEF LooseScan

\* an erased page, or one that cannot be used, when there is a swap page; a page
\* that cannot be used when there is none; a data page
LEMMA LooseScanEnters ==
    ASSUME LooseFlash, NEW k \in Phys, NEW s, LooseScan(s, k), flash[k].tag # "swap",
           NEW q \in ScanInfo, q.addr = k, Sits(q), q.reserved = 0,
           NEW t \in ScanRec, t.pages = [s.pages EXCEPT ![s.next] = q], t.next = s.next + 1,
           t.swap = s.swap, t.offset = s.offset, t.provisional = s.provisional,
           t.cur = s.cur \/ (t.cur = s.next /\ q.type = "erased"),
           t.seen = s.seen \union (IF q.type = "undefined" THEN {} ELSE {q.type}),
           q.type = "erased" => t.cur = s.next /\ s.swap # NoPage
    PROVE  LooseScan(t, k + 1)
<1>1. /\ Before(k + 1) = Before(k) \union {k} /\ k \notin Before(k)
      /\ s.next \in Nat /\ 1 <= s.next /\ s.swap # k
      /\ s.swap # NoPage => s.next = k /\ s.next \in Index /\ s.swap \in Before(k)
      /\ s.swap = NoPage => s.next = k + 1
  <2>1. CASE s.swap = NoPage
    BY <2>1, BeforeFacts, PhysFacts DEF LooseScan
  <2>2. CASE s.swap # NoPage
    <3>1. s.next = k /\ s.swap \in Before(k)
      BY <2>2 DEF LooseScan, LooseSwap
    <3>2. 1 <= k /\ k \in Nat /\ k <= DataPages
      BY <3>1, PhysFacts DEF Before
    <3> QED
      BY <2>2, <3>1, <3>2, BeforeFacts, PhysFacts
  <2> QED
    BY <2>1, <2>2
<1>2. q.type \in {"data", "erased", "undefined"} /\ s.seen \subseteq t.seen
      /\ (q.type # "undefined" => q.type \in t.seen)
  BY DEF ScanInfo
<1>3. LooseList(t.pages, t.next, Before(k + 1) \ {t.swap}, t.seen)
  <2>1. LooseList(s.pages, s.next, Before(k) \ {s.swap}, s.seen)
    BY DEF LooseScan
  <2>2. q.addr \notin Before(k) \ {s.swap}
    BY <1>1
  <2>3. LooseList(t.pages, t.next, (Before(k) \ {s.swap}) \union {q.addr}, t.seen)
    BY <1>1, <1>2, <2>1, <2>2, LooseListGrows
  <2>4. (Before(k) \ {s.swap}) \union {q.addr} = Before(k + 1) \ {t.swap}
    BY <1>1
  <2> QED
    BY <2>3, <2>4
<1>4. t.swap = NoPage => t.next = k + 2 /\ ~ t.provisional /\ t.seen \subseteq {"data"}
  BY <1>1, <1>2, PhysFacts DEF LooseScan
<1>5. ASSUME t.swap # NoPage PROVE LooseSwap(t, k + 1)
  <2>1. LooseSwap(s, k)
    BY <1>5 DEF LooseScan
  <2>2. s.pages \in ScanPages /\ s.next \in Index
    BY <1>1, <1>5 DEF LooseScan, LooseList
  <2>3. ASSUME "erased" \in t.seen, flash[t.swap].tag = "swap"
        PROVE  t.cur < t.next /\ t.pages[t.cur].type = "erased"
    <3>1. CASE q.type = "erased"
      BY <1>1, <2>2, <3>1 DEF ScanPages
    <3>2. CASE q.type # "erased"
      <4>1. t.cur = s.cur /\ s.cur < s.next /\ s.pages[s.cur].type = "erased" /\ s.cur \in Index
        BY <1>2, <2>1, <2>3, <3>2 DEF LooseSwap, ScanRec
      <4>2. s.cur # s.next /\ s.cur < s.next + 1
        BY <1>1, <4>1, PhysFacts
      <4> QED
        BY <2>2, <4>1, <4>2 DEF ScanPages
    <3> QED
      BY <3>1, <3>2
  <2>4. t.next = k + 1 /\ t.swap \in Before(k + 1)
    BY <1>1, <1>5
  <2>5. /\ "dirty" \in t.seen <=> "dirty" \in s.seen
        /\ "clean" \in t.seen <=> "clean" \in s.seen
    BY <1>2
  <2> QED
    BY <2>1, <2>3, <2>4, <2>5 DEF LooseSwap
<1>6. \A p \in Before(k + 1) : flash[p].tag = "swap" => p = t.swap
  BY <1>1 DEF LooseScan
<1>7. k + 2 = (k + 1) + 1
  BY PhysFacts
<1> QED
  BY <1>3, <1>4, <1>5, <1>6, <1>7 DEF LooseScan

\* the first erased page, taken for the swap page
LEMMA LooseScanTakes ==
    ASSUME LooseFlash, NEW k \in Phys, NEW s, LooseScan(s, k), flash[k].tag # "swap",
           s.swap = NoPage, Within(flash[k], 1),
           NEW t \in ScanRec, t.pages = s.pages, t.next = s.next, t.swap = k, t.offset = 1,
           t.provisional, t.seen = s.seen \union {"erased"}
    PROVE  LooseScan(t, k + 1)
<1>1. /\ Before(k + 1) = Before(k) \union {k} /\ k \notin Before(k) /\ k # NoPage
      /\ s.next = k + 1 /\ s.seen \subseteq {"data"} /\ Before(k) \ {s.swap} = Before(k + 1) \ {t.swap}
  BY BeforeFacts, PhysFacts DEF LooseScan
<1>2. LooseList(t.pages, t.next, Before(k + 1) \ {t.swap}, t.seen)
  <2>1. LooseList(s.pages, s.next, Before(k) \ {s.swap}, s.seen)
    BY DEF LooseScan
  <2> QED
    BY <1>1, <2>1 DEF LooseList
<1>3. LooseSwap(t, k + 1)
  BY <1>1 DEF LooseSwap
<1>4. \A p \in Before(k + 1) : flash[p].tag = "swap" => p = t.swap
  BY <1>1, PhysFacts DEF LooseScan, Before
<1> QED
  BY <1>1, <1>2, <1>3, <1>4 DEF LooseScan

\* the swap page; an erased page that was taken for it is listed after all
LEMMA LooseScanSwaps ==
    ASSUME LooseFlash, NEW k \in Phys, NEW s, LooseScan(s, k), flash[k].tag = "swap",
           NEW n \in 1 .. Slots + 1, Within(flash[k], n),
           NEW u \in ScanRec, s.provisional => u = AddErased(s, s.swap), ~ s.provisional => u = s,
           NEW t \in ScanRec, t.pages = u.pages, t.next = u.next, t.cur = u.cur, t.swap = k, t.offset = n,
           t.seen = s.seen \union {IF n = 1 THEN "clean" ELSE "dirty"}
    PROVE  LooseScan(t, k + 1)
<1>1. /\ Before(k + 1) = Before(k) \union {k} /\ k \notin Before(k) /\ k # NoPage /\ Before(k) \subseteq Phys
      /\ s \in ScanRec /\ LooseList(s.pages, s.next, Before(k) \ {s.swap}, s.seen)
      /\ Before(k + 1) \ {t.swap} = Before(k)
  BY BeforeFacts, PhysFacts DEF LooseScan
<1>2. \A p \in Before(k) : flash[p].tag # "swap"
  BY <1>1 DEF LooseFlash, OneSwap
<1>3. s.seen \subseteq t.seen /\ n \in Nat /\ 1 <= n
  BY FilledRange
<1>4. s.swap # NoPage => /\ s.swap \in Before(k) /\ s.swap \in Phys /\ s.provisional /\ s.offset = 1
                         /\ s.next = k /\ s.next \in Index /\ Within(flash[s.swap], 1)
                         /\ "clean" \notin s.seen /\ "dirty" \notin s.seen
  <2> SUFFICES ASSUME s.swap # NoPage
               PROVE  /\ s.swap \in Before(k) /\ s.swap \in Phys /\ s.provisional /\ s.offset = 1
                      /\ s.next = k /\ s.next \in Index /\ Within(flash[s.swap], 1)
                      /\ "clean" \notin s.seen /\ "dirty" \notin s.seen
    OBVIOUS
  <2>1. LooseSwap(s, k)
    BY DEF LooseScan
  <2>2. s.swap \in Before(k) /\ s.swap \in Phys /\ s.provisional /\ s.offset = 1 /\ s.next = k
        /\ Within(flash[s.swap], 1) /\ "clean" \notin s.seen /\ "dirty" \notin s.seen
    BY <1>1, <1>2, <2>1 DEF LooseSwap
  <2>3. 1 <= k /\ k \in Nat /\ k <= DataPages
    BY <2>2, PhysFacts DEF Before
  <2> QED
    BY <2>2, <2>3, PhysFacts
<1>5. s.swap = NoPage => ~ s.provisional /\ s.next = k + 1 /\ s.seen \subseteq {"data"}
  BY DEF LooseScan
<1>6. /\ LooseList(u.pages, k + 1, Before(k), t.seen) /\ u.next = k + 1
      /\ "erased" \in s.seen => u.cur < u.next /\ u.pages[u.cur].type = "erased"
  <2>1. CASE s.swap = NoPage
    <3>1. u = s /\ Before(k) \ {s.swap} = Before(k) /\ "erased" \notin s.seen
      BY <1>1, <1>5, <2>1, PhysFacts
    <3> QED
      BY <1>1, <1>3, <1>5, <2>1, <3>1 DEF LooseList
  <2>2. CASE s.swap # NoPage
    <3>1. /\ u.pages = [s.pages EXCEPT ![s.next] = Erased(s.swap)]
          /\ u.pages[s.next] = Erased(s.swap) /\ u.cur = s.next /\ u.next = s.next + 1
      BY <1>1, <1>4, <2>2, AddErasedFacts
    <3>2. "erased" \in s.seen
      <4>1. flash[s.swap].tag # "swap"
        BY <1>2, <1>4, <2>2
      <4> QED
        BY <2>2, <4>1 DEF LooseScan, LooseSwap
    <3> DEFINE q == Erased(s.swap)
    <3>3. q \in ScanInfo /\ q.addr = s.swap /\ q.type = "erased" /\ q.reserved = 0 /\ q.offset = 1
      BY <1>4, <2>2, ErasedFacts, NewPageFacts DEF Erased
    <3> HIDE DEF q
    <3>4. Sits(q) /\ q.addr \notin Before(k) \ {s.swap} /\ q.type \in t.seen
      BY <1>3, <1>4, <2>2, <3>2, <3>3 DEF Sits
    <3>5. s.next \in Nat /\ 1 <= s.next
      BY <1>4, <2>2, PhysFacts
    <3>6. LooseList([s.pages EXCEPT ![s.next] = q], s.next + 1, (Before(k) \ {s.swap}) \union {q.addr}, t.seen)
      BY <1>1, <1>3, <3>3, <3>4, <3>5, LooseListGrows
    <3>7. (Before(k) \ {s.swap}) \union {q.addr} = Before(k)
      BY <1>4, <2>2, <3>3
    <3>8. u.cur < u.next /\ u.pages[u.cur].type = "erased"
      BY <3>1, <3>3, <3>5 DEF q
    <3> QED
      BY <1>4, <2>2, <3>1, <3>6, <3>7, <3>8 DEF q
  <2> QED
    BY <2>1, <2>2
<1>7. LooseList(t.pages, t.next, Before(k + 1) \ {t.swap}, t.seen)
  BY <1>1, <1>6
<1>8. LooseSwap(t, k + 1)
  <2>1. "clean" \notin s.seen /\ "dirty" \notin s.seen
    BY <1>4, <1>5
  <2>2. t.next = k + 1 /\ t.swap \in Before(k + 1) /\ 1 <= t.offset /\ Within(flash[t.swap], t.offset)
    BY <1>1, <1>3, <1>6
  <2>3. "erased" \in t.seen => t.cur < t.next /\ t.pages[t.cur].type = "erased"
    BY <1>6
  <2>4. /\ t.offset = 1 \/ "dirty" \in t.seen
        /\ "dirty" \in t.seen => t.offset # 1
        /\ "clean" \in t.seen => t.offset = 1
    BY <2>1
  <2> QED
    BY <2>2, <2>3, <2>4 DEF LooseSwap
<1>9. \A p \in Before(k + 1) : flash[p].tag = "swap" => p = t.swap
  BY <1>1, <1>2
<1> QED
  BY <1>1, <1>7, <1>8, <1>9 DEF LooseScan

\* an erased page when there is a swap page already
LEMMA LooseScanErased ==
    ASSUME LooseFlash, NEW k \in Phys, NEW s, LooseScan(s, k),
           PageIdentify(flash[k]) = "undefined", PageCanTag(flash[k]), s.swap # NoPage
    PROVE  LooseScan(ScanPage(s, k), k + 1)
<1> DEFINE t == ScanPage(s, k)
           u == AddErased(s, k)
           q == Erased(k)
<1>1. s \in ScanRec /\ s.next \in Index
  <2>1. s \in ScanRec /\ s.next = k /\ s.swap \in Before(k)
    BY DEF LooseScan, LooseSwap
  <2>2. 1 <= k /\ k \in Nat /\ k <= DataPages
    BY <2>1, PhysFacts DEF Before
  <2> QED
    BY <2>1, <2>2, PhysFacts
<1>2. t = [u EXCEPT !.seen = @ \union {"erased"}]
  BY DEF ScanPage
<1>3. /\ u \in ScanRec /\ u.pages = [s.pages EXCEPT ![s.next] = q]
      /\ u.cur = s.next /\ u.next = s.next + 1 /\ u.swap = s.swap /\ u.offset = s.offset
      /\ u.provisional = s.provisional /\ u.latest = s.latest /\ u.seen = s.seen
  BY <1>1, AddErasedFacts
<1>4. q \in ScanInfo /\ q.addr = k /\ q.type = "erased" /\ q.reserved = 0 /\ q.offset = 1
  BY ErasedFacts, NewPageFacts DEF Erased
<1> HIDE DEF t, u, q
<1>5. /\ t \in ScanRec /\ t.pages = u.pages /\ t.cur = u.cur /\ t.next = u.next /\ t.swap = u.swap
      /\ t.offset = u.offset /\ t.provisional = u.provisional
      /\ t.seen = u.seen \union {"erased"}
  <2>1. u.seen \union {"erased"} \in SUBSET Looks
    BY <1>3 DEF ScanRec, Looks
  <2> QED
    BY <1>2, <1>3, <2>1 DEF ScanRec
<1>6. Sits(q) /\ flash[k].tag # "swap"
  <2>1. flash[k].slot = Blank.slot /\ flash[k].tag # "swap"
    BY DEF PageCanTag
  <2>2. Within(flash[k], 1)
    BY <2>1, LooseBlank, WithinFacts
  <2> QED
    BY <1>4, <2>1, <2>2 DEF Sits
<1>7. t.seen = s.seen \union (IF q.type = "undefined" THEN {} ELSE {q.type})
  BY <1>3, <1>4, <1>5
<1>8. LooseScan(t, k + 1)
  BY <1>3, <1>4, <1>5, <1>6, <1>7, LooseScanEnters
<1> QED
  BY <1>8 DEF t

\* the first erased page
LEMMA LooseScanFirst ==
    ASSUME LooseFlash, NEW k \in Phys, NEW s, LooseScan(s, k),
           PageIdentify(flash[k]) = "undefined", PageCanTag(flash[k]), s.swap = NoPage
    PROVE  LooseScan(ScanPage(s, k), k + 1)
<1> DEFINE t == ScanPage(s, k)
<1>1. s \in ScanRec
  BY DEF LooseScan
<1>2. t = [s EXCEPT !.swap = k, !.offset = 1, !.provisional = TRUE, !.seen = @ \union {"erased"}]
  BY DEF ScanPage
<1>3. /\ t \in ScanRec /\ t.pages = s.pages
      /\ t.next = s.next /\ t.swap = k /\ t.offset = 1
      /\ t.provisional = TRUE /\ t.seen = s.seen \union {"erased"}
  <2> HIDE DEF t
  <2>1. 1 \in ScanOffset
    BY ConstantFacts DEF ScanOffset
  <2>2. s.seen \union {"erased"} \in SUBSET Looks
    BY <1>1 DEF ScanRec, Looks
  <2> QED
    BY <1>1, <1>2, <2>1, <2>2 DEF ScanRec
<1> HIDE DEF t
<1>4. Within(flash[k], 1) /\ flash[k].tag # "swap"
  BY LooseBlank, WithinFacts DEF PageCanTag
<1>5. LooseScan(t, k + 1)
  BY <1>3, <1>4, LooseScanTakes
<1> QED
  BY <1>5 DEF t

\* a page that cannot be used
LEMMA LooseScanUndefined ==
    ASSUME LooseFlash, NEW k \in Phys, NEW s, LooseScan(s, k),
           PageIdentify(flash[k]) = "undefined", ~ PageCanTag(flash[k])
    PROVE  LooseScan(ScanPage(s, k), k + 1)
<1> DEFINE t == ScanPage(s, k)
           q == [NewPage EXCEPT !.type = "undefined", !.addr = k]
<1>1. s \in ScanRec /\ s.pages \in ScanPages /\ s.next \in Nat
  BY DEF LooseScan, LooseList, ScanRec
<1>2. t = [s EXCEPT !.pages[s.next] = q, !.next = @ + 1]
  BY DEF ScanPage
<1>3. q \in ScanInfo /\ q.addr = k /\ q.type = "undefined" /\ q.reserved = 0
  <2>1. q \in [type : {"undefined"}, addr : {k}, offset : {0}, reserved : {0}, open : {0}, canGc : BOOLEAN]
    BY NewPageFacts
  <2>2. 0 \in 0 .. Slots + 1 /\ 0 \in 0 .. Slots
    BY ConstantFacts
  <2> HIDE DEF q
  <2> QED
    BY <2>1, <2>2 DEF ScanInfo
<1> HIDE DEF q
<1>4. /\ t \in ScanRec /\ t.pages = [s.pages EXCEPT ![s.next] = q] /\ t.next = s.next + 1
      /\ t.cur = s.cur /\ t.swap = s.swap /\ t.offset = s.offset
      /\ t.provisional = s.provisional /\ t.seen = s.seen
  <2> HIDE DEF t
  <2> DEFINE pp == [s.pages EXCEPT ![s.next] = q]
  <2>1. pp \in ScanPages
    BY <1>1, <1>3 DEF ScanPages
  <2>2. t = [s EXCEPT !.pages = pp, !.next = s.next + 1] /\ s.next + 1 \in Nat
    BY <1>1, <1>2 DEF ScanRec
  <2> HIDE DEF pp
  <2> QED
    BY <1>1, <2>1, <2>2 DEF ScanRec, pp
<1> HIDE DEF t
<1>5. flash[k].tag # "swap" /\ Sits(q)
  BY <1>3 DEF PageIdentify, Sits
<1>6. t.seen = s.seen \union (IF q.type = "undefined" THEN {} ELSE {q.type})
  BY <1>3, <1>4
<1>7. LooseScan(t, k + 1)
  BY <1>3, <1>4, <1>5, <1>6, LooseScanEnters
<1> QED
  BY <1>7 DEF t

\* a data page
LEMMA LooseScanData ==
    ASSUME LooseFlash, NEW k \in Phys, NEW s, LooseScan(s, k), PageIdentify(flash[k]) = "data"
    PROVE  LooseScan(ScanPage(s, k), k + 1)
<1> DEFINE t == ScanPage(s, k)
           q == [NewPage EXCEPT !.addr = k, !.offset = WriteOffset(flash[k]),
                     !.canGc = \E i \in 1 .. WriteOffset(flash[k]) - 1 : ~ Valid(flash[k].slot[i])]
           l == LatestId(s, flash[k])
<1>1. s \in ScanRec /\ s.pages \in ScanPages /\ s.next \in Nat /\ s.latest \in Nat
  BY DEF LooseScan, LooseList, ScanRec
<1>2. t = [s EXCEPT !.pages[s.next] = q, !.next = @ + 1, !.latest = l, !.seen = @ \union {"data"}]
  BY DEF ScanPage
<1>3. flash[k] \in LoosePage /\ \E n \in 1 .. Slots + 1 : Within(flash[k], n)
  BY DEF LooseFlash, Gapless
<1>4. WriteOffset(flash[k]) \in 1 .. Slots + 1 /\ Within(flash[k], WriteOffset(flash[k])) /\ l \in Nat
  BY <1>1, <1>3, LooseOffset, LooseLatest
<1>5. q \in ScanInfo /\ q.addr = k /\ q.type = "data" /\ q.reserved = 0 /\ q.offset = WriteOffset(flash[k])
  <2> DEFINE b == \E i \in 1 .. WriteOffset(flash[k]) - 1 : ~ Valid(flash[k].slot[i])
             n == WriteOffset(flash[k])
  <2>1. b \in BOOLEAN /\ n \in 0 .. Slots + 1
    BY <1>4
  <2>2. q = [NewPage EXCEPT !.addr = k, !.offset = n, !.canGc = b]
    OBVIOUS
  <2> HIDE DEF q, b, n
  <2>3. q \in [type : {"data"}, addr : {k}, offset : {n}, reserved : {0}, open : {0}, canGc : BOOLEAN]
    BY <2>1, <2>2, NewPageFacts
  <2>4. 0 \in 0 .. Slots
    BY ConstantFacts
  <2> QED
    BY <2>1, <2>3, <2>4 DEF ScanInfo, n
<1> HIDE DEF q, l
<1>6. /\ t \in ScanRec /\ t.pages = [s.pages EXCEPT ![s.next] = q] /\ t.next = s.next + 1
      /\ t.cur = s.cur /\ t.swap = s.swap /\ t.offset = s.offset
      /\ t.provisional = s.provisional /\ t.seen = s.seen \union {"data"}
  <2> HIDE DEF t
  <2> DEFINE pp == [s.pages EXCEPT ![s.next] = q]
  <2>1. pp \in ScanPages
    BY <1>1, <1>5 DEF ScanPages
  <2>2. s.seen \union {"data"} \in SUBSET Looks /\ s.next + 1 \in Nat
    BY <1>1 DEF ScanRec, Looks
  <2>3. t = [s EXCEPT !.pages = pp, !.next = s.next + 1, !.latest = l, !.seen = s.seen \union {"data"}]
    BY <1>1, <1>2 DEF ScanRec
  <2> HIDE DEF pp
  <2> QED
    BY <1>1, <1>4, <2>1, <2>2, <2>3 DEF ScanRec, pp
<1> HIDE DEF t
<1>7. flash[k].tag # "swap" /\ Sits(q)
  <2>1. flash[k].tag = "data"
    BY DEF PageIdentify
  <2>2. 1 <= WriteOffset(flash[k])
    BY <1>4
  <2> QED
    BY <1>4, <1>5, <2>1, <2>2 DEF Sits
<1>8. t.seen = s.seen \union (IF q.type = "undefined" THEN {} ELSE {q.type})
  BY <1>5, <1>6
<1>9. LooseScan(t, k + 1)
  BY <1>5, <1>6, <1>7, <1>8, LooseScanEnters
<1> QED
  BY <1>9 DEF t

\* the swap page
LEMMA LooseScanSwap ==
    ASSUME LooseFlash, NEW k \in Phys, NEW s, LooseScan(s, k),
           PageIdentify(flash[k]) # "data", PageIdentify(flash[k]) # "undefined"
    PROVE  LooseScan(ScanPage(s, k), k + 1)
<1> DEFINE t == ScanPage(s, k)
           u == IF s.provisional THEN AddErased(s, s.swap) ELSE s
           n == WriteOffset(flash[k])
           look == IF n = 1 THEN "clean" ELSE "dirty"
           l == LatestId(s, flash[k])
<1>1. s \in ScanRec /\ s.latest \in Nat
  BY DEF LooseScan, ScanRec
<1>2. t = [u EXCEPT !.swap = k, !.offset = n, !.latest = l, !.seen = @ \union {look}]
  BY DEF ScanPage
<1>3. flash[k] \in LoosePage /\ \E m \in 1 .. Slots + 1 : Within(flash[k], m)
  BY DEF LooseFlash, Gapless
<1>4. n \in 1 .. Slots + 1 /\ Within(flash[k], n) /\ l \in Nat
  BY <1>1, <1>3, LooseOffset, LooseLatest
<1>5. flash[k].tag = "swap"
  BY DEF PageIdentify
<1>6. u \in ScanRec /\ u.seen = s.seen /\ (s.provisional => u = AddErased(s, s.swap)) /\ (~ s.provisional => u = s)
  <2>1. CASE s.provisional
    <3>1. LooseSwap(s, k)
      BY <2>1 DEF LooseScan
    <3>2. s.next = k /\ s.swap \in Before(k)
      BY <3>1 DEF LooseSwap
    <3>3. 1 <= k /\ k \in Nat /\ k <= DataPages /\ s.swap \in Phys
      BY <3>2, PhysFacts DEF Before
    <3>4. s.next \in Index
      BY <3>2, <3>3, PhysFacts
    <3> QED
      BY <1>1, <2>1, <3>3, <3>4, AddErasedFacts
  <2>2. CASE ~ s.provisional
    BY <1>1, <2>2
  <2> QED
    BY <2>1, <2>2
<1>7. look \in Looks
  BY DEF Looks
<1> HIDE DEF u, n, l
<1>8. /\ t \in ScanRec /\ t.pages = u.pages /\ t.next = u.next /\ t.cur = u.cur /\ t.swap = k /\ t.offset = n
      /\ t.seen = s.seen \union {look}
  <2> HIDE DEF t, look
  <2>1. n \in ScanOffset
    BY <1>4, FilledRange DEF ScanOffset
  <2>2. u.seen \union {look} \in SUBSET Looks
    BY <1>6, <1>7 DEF ScanRec
  <2> QED
    BY <1>2, <1>4, <1>6, <2>1, <2>2 DEF ScanRec
<1> HIDE DEF t
<1>9. LooseScan(t, k + 1)
  BY <1>4, <1>5, <1>6, <1>8, LooseScanSwaps
<1> QED
  BY <1>9 DEF t

\* The scan of any pages there can be.
LEMMA LooseScanEnds ==
    ASSUME LooseFlash
    PROVE  LooseScan(PagesInit, DataPages + 1)
<1> DEFINE S == {n \in Nat : n <= DataPages + 1 => LooseScan(Scan[n], n)}
<1>1. 0 \in S
  BY ScanDef, LooseBegins
<1>2. ASSUME NEW n \in Nat, n \in S PROVE n + 1 \in S
  <2> SUFFICES ASSUME n + 1 <= DataPages + 1 PROVE LooseScan(Scan[n + 1], n + 1)
    OBVIOUS
  <2>1. n \in Phys /\ n <= DataPages + 1 /\ n \in 0 .. DataPages
    BY PhysFacts
  <2>2. LooseScan(Scan[n], n)
    BY <1>2, <2>1
  <2>3. Scan[n + 1] = ScanPage(Scan[n], n)
    BY <2>1, ScanDef
  <2>4. LooseScan(ScanPage(Scan[n], n), n + 1)
    BY <2>1, <2>2, LooseScanErased, LooseScanFirst, LooseScanUndefined, LooseScanData, LooseScanSwap
  <2> QED
    BY <2>3, <2>4
<1>3. DataPages + 1 \in S
  <2>1. DataPages + 1 \in Nat
    BY ConstantFacts
  <2> HIDE DEF S
  <2> QED
    BY <1>1, <1>2, <2>1, SetInduction
<1> QED
  BY <1>3, ConstantFacts DEF PagesInit

\* Which step of the installation the boot starts with, and what is there.
LEMMA LooseSteps ==
    ASSUME LooseFlash, NEW s, s = PagesInit, InitStep(Seen) # "fail"
    PROVE  /\ s \in ScanRec /\ s.swap \in Phys /\ 1 <= s.offset /\ Within(flash[s.swap], s.offset)
           /\ \A i \in Index : /\ s.pages[i].addr \in Phys /\ s.pages[i].addr # s.swap /\ Sits(s.pages[i])
                               /\ s.pages[i].reserved = 0
           /\ \A i, j \in Index : s.pages[i].addr = s.pages[j].addr => i = j
           /\ \A p \in Phys : flash[p].tag = "swap" => p = s.swap
           /\ InitStep(Seen) \in {"none", "tag swap", "tag data", "erase swap", "promote swap"}
           /\ InitStep(Seen) \in {"none", "tag swap", "tag data"} => s.offset = 1
           /\ InitStep(Seen) = "promote swap" => s.pages[s.cur].type = "erased"
<1>1. LooseScan(s, DataPages + 1) /\ Before(DataPages + 1) = Phys
  BY LooseScanEnds, BeforeFacts
<1>2. s \in ScanRec /\ s.seen \subseteq Looks /\ \A p \in Phys : flash[p].tag = "swap" => p = s.swap
  BY <1>1 DEF LooseScan, ScanRec
<1> DEFINE U == {i \in Index : s.pages[i].type = "undefined"}
<1>3. Seen = IF Cardinality(U) >= DataPages THEN {} ELSE s.seen
  BY DEF Seen
<1>4. Seen \notin {{}, {"data"}}
  BY DEF InitStep
<1>5. Seen = s.seen /\ U # Index
  <2>1. Cardinality(Index) = DataPages /\ DataPages \in Nat
    BY PhysFacts, FS_Interval DEF Index
  <2>2. Cardinality(Index) >= DataPages
    BY <2>1
  <2> HIDE DEF U
  <2> QED
    BY <1>3, <1>4, <2>2
<1>6. s.swap # NoPage
  BY <1>1, <1>4, <1>5 DEF LooseScan
<1>7. LooseSwap(s, DataPages + 1) /\ LooseList(s.pages, s.next, Phys \ {s.swap}, s.seen)
  BY <1>1, <1>6 DEF LooseScan
<1>8. s.next = DataPages + 1 /\ s.swap \in Phys /\ 1 <= s.offset /\ Within(flash[s.swap], s.offset)
  BY <1>1, <1>7 DEF LooseSwap
<1>9. \A i \in Index : i < s.next
  BY <1>8, PhysFacts
<1>10. /\ \A i \in Index : /\ s.pages[i].addr \in Phys /\ s.pages[i].addr # s.swap /\ Sits(s.pages[i])
                           /\ s.pages[i].reserved = 0
                           /\ s.pages[i].type # "undefined" => s.pages[i].type \in s.seen
       /\ \A i, j \in Index : s.pages[i].addr = s.pages[j].addr => i = j
  BY <1>7, <1>9 DEF LooseList
<1>11. "data" \in s.seen \/ "erased" \in s.seen
  <2>1. PICK i \in Index : s.pages[i].type # "undefined"
    BY <1>5
  <2>2. s.pages[i].type \in {"data", "erased", "undefined"}
    BY <1>7 DEF LooseList, ScanPages, ScanInfo
  <2> QED
    BY <1>10, <2>1, <2>2
<1>12. /\ s.offset = 1 \/ "dirty" \in s.seen
       /\ "dirty" \in s.seen => s.offset # 1 /\ flash[s.swap].tag = "swap"
       /\ "clean" \in s.seen => s.offset = 1
       /\ "erased" \in s.seen /\ flash[s.swap].tag = "swap" => s.pages[s.cur].type = "erased"
  BY <1>7 DEF LooseSwap
<1>13. "dirty" \in s.seen => InitStep(s.seen) \in {"erase swap", "promote swap"}
  <2> SUFFICES ASSUME "dirty" \in s.seen PROVE InitStep(s.seen) \in {"erase swap", "promote swap"}
    OBVIOUS
  <2>1. "clean" \notin s.seen
    BY <1>12
  <2>2. s.seen = {"data", "dirty"} \/ s.seen \ {"data"} = {"erased", "dirty"}
    BY <1>2, <1>11, <2>1 DEF Looks
  <2>3. s.seen \notin {{}, {"data"}} /\ s.seen # {"data", "clean"} /\ s.seen \ {"data"} # {"erased", "clean"}
    BY <2>1
  <2> QED
    BY <2>2, <2>3 DEF InitStep
<1>14. InitStep(s.seen) = "promote swap" => {"erased", "dirty"} \subseteq s.seen
  <2>1. InitStep(s.seen) = "promote swap" => s.seen \ {"data"} = {"erased", "dirty"}
    BY DEF InitStep
  <2> QED
    BY <2>1
<1>15. InitStep(s.seen) \in {"fail", "none", "tag swap", "tag data", "erase swap", "promote swap"}
  BY DEF InitStep
<1> QED
  BY <1>2, <1>5, <1>8, <1>10, <1>12, <1>13, <1>14, <1>15

\* A page table with nothing reserved has the space it needs.
LEMMA LooseSpace ==
    ASSUME NEW o \in 0 .. Slots + 1, NEW r, r = 0, NEW W, W = {}
    PROVE  Cardinality(W) <= r /\ o + r <= Slots + 1
<1>1. Cardinality(W) = 0
  BY FS_EmptySet
<1>2. o \in Nat /\ o <= Slots + 1
  BY ConstantFacts
<1> QED
  BY <1>1, <1>2

\* The kinds of what RAM holds, one by one.
LEMMA LooseFields ==
    /\ \A q \in ScanInfo : /\ q.offset \in 0 .. Slots + 1 /\ q.offset \in Nat
                           /\ q.reserved \in 0 .. Slots /\ q.reserved \in Nat /\ q.open \in Nat
                           /\ q.type \in {"data", "erased", "undefined"} /\ q.canGc \in BOOLEAN
    /\ \A g \in LooseGcInfo : /\ g.state \in {"begin", "copy", "erase", "promote", "discard", "tag"}
                              /\ g.cur \in Index /\ g.src \in 0 .. Slots /\ g.src \in Nat
                              /\ g.todo \subseteq Index /\ g.resume \in BOOLEAN
    /\ GcIdle \in LooseGcInfo
<1> DEFINE P == 0 .. Slots + 1
           R == 0 .. Slots
<1>1. ScanInfo = [type : {"data", "erased", "undefined"}, addr : Phys \union {NoPage}, offset : P, reserved : R,
                  open : Nat, canGc : BOOLEAN]
  BY DEF ScanInfo
<1>2. LooseGcInfo = [state : {"begin", "copy", "erase", "promote", "discard", "tag"}, cur : Index,
                     src : R, todo : SUBSET Index, resume : BOOLEAN]
  BY DEF LooseGcInfo
<1>3. (\A n \in P : n \in Nat) /\ (\A n \in R : n \in Nat) /\ 0 \in R
  BY ConstantFacts
<1> HIDE DEF P, R
<1>4. \A q \in ScanInfo : /\ q.offset \in P /\ q.reserved \in R /\ q.open \in Nat
                          /\ q.type \in {"data", "erased", "undefined"} /\ q.canGc \in BOOLEAN
  BY <1>1
<1>5. \A g \in LooseGcInfo : /\ g.state \in {"begin", "copy", "erase", "promote", "discard", "tag"}
                             /\ g.cur \in Index /\ g.src \in R /\ g.todo \subseteq Index /\ g.resume \in BOOLEAN
  BY <1>2
<1>6. GcIdle \in LooseGcInfo
  <2>1. 1 \in Index
    BY PhysFacts
  <2> QED
    BY <1>2, <1>3, <2>1 DEF GcIdle
<1> QED
  BY <1>3, <1>4, <1>5, <1>6 DEF P, R

\* The boot.
LEMMA LooseBoot == ASSUME LooseInv, Boot PROVE LooseInv'
<1> DEFINE st == InitStep(Seen)
<1>1. /\ phase = "off"
      /\ pages' = PagesInit.pages /\ latest' = PagesInit.latest
      /\ swap' = [addr |-> PagesInit.swap, offset |-> PagesInit.offset]
      /\ gc' = [gc EXCEPT !.cur = PagesInit.cur]
      /\ phase' = CASE st = "none" -> "initialized"
                    [] st = "fail" -> "failed"
                    [] OTHER -> "installing"
      /\ IF st \in {"none", "fail"} THEN UNCHANGED <<queue, hand>>
         ELSE queue' = <<InstallOp(st)>> /\ hand' = "run"
      /\ UNCHANGED <<flash, flashing, result, tok, old, opened, writes, timeouts>>
  BY DEF Boot, bounds, InstallOp
<1>2. PICK s : s = PagesInit
  OBVIOUS
<1>3. /\ LooseFlash /\ Resting /\ gc = GcIdle /\ result = "success" /\ writes \in Nat /\ timeouts \in Nat
  BY <1>1 DEF LooseInv, Resting
<1>4. LooseScan(s, DataPages + 1)
  BY <1>2, <1>3, LooseScanEnds
<1>5. s \in ScanRec /\ s.pages \in ScanPages
  BY <1>4 DEF LooseScan, LooseList
<1>6. swap' \in [addr : Phys \union {NoPage}, offset : ScanOffset] /\ swap'.addr = s.swap /\ swap'.offset = s.offset
      /\ s.cur \in Index /\ s.latest \in Nat
  BY <1>1, <1>2, <1>5 DEF ScanRec
<1>7. gc' = [GcIdle EXCEPT !.cur = s.cur] /\ gc' \in LooseGcInfo /\ gc'.state = "begin" /\ gc'.src = 0 /\ gc'.cur = s.cur
      /\ gc'.todo = {} /\ gc'.resume = FALSE
  <2>1. gc' = [GcIdle EXCEPT !.cur = s.cur]
    BY <1>1, <1>2, <1>3
  <2>2. gc' = [state |-> "begin", cur |-> s.cur, src |-> 0, todo |-> {}, resume |-> FALSE]
    BY <2>1 DEF GcIdle
  <2>3. gc' \in LooseGcInfo
    <3> DEFINE R == 0 .. Slots
    <3>1. LooseGcInfo = [state : {"begin", "copy", "erase", "promote", "discard", "tag"}, cur : Index,
                         src : R, todo : SUBSET Index, resume : BOOLEAN]
      BY DEF LooseGcInfo
    <3>2. 0 \in R
      BY ConstantFacts
    <3> HIDE DEF R
    <3> QED
      BY <1>6, <2>2, <3>1, <3>2
  <2> QED
    BY <2>1, <2>2, <2>3
<1>8. LooseTypes' /\ pages' = s.pages
  BY <1>1, <1>2, <1>5, <1>6, <1>7 DEF LooseTypes
<1>9. /\ ~ Flying' /\ LooseFlash' /\ LooseStages' /\ flash' = flash /\ flashing' = flashing
      /\ result' = "success" /\ writes' \in Nat /\ timeouts' \in Nat /\ writes' = writes /\ latest' \in Nat
  <2>1. ~ Flying'
    BY <1>1, <1>3 DEF Resting, Flying
  <2>2. LooseFlash'
    BY <1>1, <1>3 DEF LooseFlash
  <2> QED
    BY <1>1, <1>2, <1>3, <1>6, <2>1, <2>2 DEF LooseStages
<1>10. CASE st = "fail"
  <2>1. phase' = "failed" /\ queue' = <<>> /\ hand' = "idle"
    BY <1>1, <1>3, <1>10 DEF Resting
  <2>2. Resting' /\ Len(queue') <= QueueSize
    BY <1>9, <2>1, ConstantFacts DEF Resting
  <2> QED
    BY <1>8, <1>9, <2>1, <2>2 DEF LooseInv
<1>11. CASE st # "fail"
  <2>1. /\ s.swap \in Phys /\ 1 <= s.offset /\ Within(flash[s.swap], s.offset)
        /\ \A i \in Index : /\ s.pages[i].addr \in Phys /\ s.pages[i].addr # s.swap /\ Sits(s.pages[i])
                            /\ s.pages[i].reserved = 0
        /\ \A i, j \in Index : s.pages[i].addr = s.pages[j].addr => i = j
        /\ \A p \in Phys : flash[p].tag = "swap" => p = s.swap
        /\ st \in {"none", "tag swap", "tag data", "erase swap", "promote swap"}
        /\ st \in {"none", "tag swap", "tag data"} => s.offset = 1
        /\ st = "promote swap" => s.pages[s.cur].type = "erased"
    BY <1>2, <1>3, <1>11, LooseSteps
  <2> HIDE DEF st
  <2>2. OnSwap' = flash[s.swap] /\ (\A i \in Index : OnPage(i)' = flash[s.pages[i].addr])
    BY <1>6, <1>8, <1>9 DEF OnSwap, OnPage
  <2>3. LooseRoles'
    BY <1>6, <1>8, <2>1 DEF LooseRoles
  <2>4. LooseTags'
    BY <1>6, <1>7, <1>9, <2>1 DEF LooseTags, SwapAt
  <2>5. ASSUME \A i : WritesOn(i)' = {} PROVE SpaceOK'
    <3> SUFFICES ASSUME NEW i \in Index
                 PROVE  /\ Cardinality(WritesOn(i)') <= pages'[i].reserved
                        /\ pages'[i].offset + pages'[i].reserved <= Slots + 1
      BY DEF SpaceOK
    <3>1. pages'[i].reserved = 0 /\ pages'[i].offset \in 0 .. Slots + 1
      BY <1>5, <1>8, <2>1, LooseFields DEF ScanPages
    <3> QED
      BY <2>5, <3>1, LooseSpace
  <2>6. ASSUME ~ GcLanded', \A i : ~ WritesAt(i)' PROVE LoosePages'
    BY <1>8, <2>1, <2>2, <2>6 DEF LoosePages, Sits
  <2>7. CASE st = "none"
    <3>1. queue' = <<>> /\ hand' = "idle" /\ phase' = "initialized"
      BY <1>1, <1>3, <2>7 DEF Resting
    <3>2. Resting' /\ ~ Working' /\ ~ Telling' /\ ~ GcRunning' /\ ~ GcLanded' /\ \A i : ~ WritesAt(i)'
      BY <1>9, <3>1 DEF Resting, Working, Telling, GcRunning, GcLanded, WritesAt
    <3>3. \A k \in 1 .. Len(queue') : FALSE
      BY <3>1
    <3>4. \A i : WritesOn(i)' = {}
      BY <3>3 DEF WritesOn
    <3>5. queue' \in Seq(OpType) /\ Len(queue') <= QueueSize
      BY <3>1, ConstantFacts
    <3>6. QueueOK'
      BY <1>9, <3>3, <3>5 DEF QueueOK
    <3>7. LooseOn' /\ LoosePages'
      BY <2>3, <2>4, <2>5, <2>6, <3>2, <3>4, <3>6 DEF LooseOn
    <3>8. LooseWriting' /\ LooseDeleting'
      BY <3>2, <3>3 DEF LooseWriting, LooseDeleting
    <3>9. GcReached'
      <4>1. swap'.offset = 1 /\ Within(OnSwap', swap'.offset)
        BY <1>6, <2>1, <2>2, <2>7
      <4> QED
        BY <1>7, <3>2, <4>1 DEF GcReached
    <3>10. LooseGc'
      BY <3>2, <3>3, <3>9 DEF LooseGc
    <3> QED
      BY <1>8, <1>9, <3>1, <3>2, <3>5, <3>7, <3>8, <3>10 DEF LooseInv
  <2>8. CASE st # "none"
    <3>0. st \in {"tag swap", "tag data", "erase swap", "promote swap"}
      BY <2>1, <2>8
    <3>1. queue' = <<InstallOp(st)>> /\ hand' = "run" /\ phase' = "installing"
      BY <1>1, <3>0
    <3>2. /\ InstallOp(st) \in OpType /\ InstallOp(st).code = "init" /\ InstallOp(st).step = st
          /\ queue' \in Seq(OpType) /\ Len(queue') = 1 /\ queue'[1] = InstallOp(st)
          /\ queue' # <<>> /\ Op' = InstallOp(st)
      BY <3>0, <3>1, InstallOpFacts DEF Op
    <3>3. Working' /\ ~ Telling' /\ ~ GcRunning' /\ ~ GcLanded' /\ \A i : ~ WritesAt(i)'
      BY <1>9, <3>1, <3>2 DEF Working, Telling, GcRunning, GcLanded, WritesAt, IsWriteOp
    <3>4. \A k \in 1 .. Len(queue') : k = 1 /\ queue'[k].code = "init"
      BY <3>2
    <3>5. \A k \in 1 .. Len(queue') : OpOK(queue[k])' /\ ~ IsWriteOp(queue[k])' /\ ~ (k > 1)
      <4> SUFFICES ASSUME NEW k \in 1 .. Len(queue')
                   PROVE  OpOK(queue[k])' /\ ~ IsWriteOp(queue[k])' /\ ~ (k > 1)
        OBVIOUS
      <4>1. k = 1 /\ queue'[k].code = "init"
        BY <3>4
      <4>2. OpOK(queue[k])' /\ ~ IsWriteOp(queue[k])'
        BY <4>1 DEF OpOK, IsWriteOp
      <4> QED
        BY <4>1, <4>2
    <3>6. Len(queue') <= QueueSize
      BY <3>2, ConstantFacts
    <3>7. QueueOK'
      BY <1>9, <3>2, <3>5, <3>6 DEF QueueOK, IsWriteOp
    <3>8. \A i : WritesOn(i)' = {}
      BY <3>5 DEF WritesOn, IsWriteOp
    <3>9. LooseOn' /\ LoosePages'
      BY <2>3, <2>4, <2>5, <2>6, <3>3, <3>7, <3>8 DEF LooseOn
    <3>10. LooseInstall'
      <4>1. Op'.step = st /\ swap'.offset = s.offset /\ Within(OnSwap', swap'.offset)
            /\ (st = "promote swap" => pages'[gc'.cur].type = "erased")
        BY <1>6, <1>7, <1>8, <2>1, <2>2, <3>2
      <4>2. \A i \in Index : pages'[i].reserved = 0 /\ (pages'[i].type = "erased" => pages'[i].offset = 1)
        BY <1>8, <2>1 DEF Sits
      <4> QED
        BY <1>7, <1>9, <2>1, <4>1, <4>2 DEF LooseInstall
    <3>11. Op'.code = "init"
      BY <3>2
    <3> QED
      BY <1>8, <1>9, <3>1, <3>2, <3>3, <3>6, <3>9, <3>10, <3>11 DEF LooseInv
  <2> QED
    BY <2>7, <2>8
<1> QED
  BY <1>10, <1>11

\* What holds when queue_process runs.
LEMMA LooseRun ==
    ASSUME LooseInv, hand = "run"
    PROVE  /\ Working /\ ~ Flying /\ ~ Telling /\ ~ Resting /\ queue # <<>>
           /\ LooseFlash /\ LooseTypes /\ writes \in Nat /\ timeouts \in Nat /\ Len(queue) <= QueueSize
           /\ phase = "installing" <=> Op.code = "init"
           /\ phase = "initialized" <=> Op.code # "init"
           /\ Op.code = "init" => Len(queue) = 1 /\ queue \in Seq(OpType)
           /\ Op.code = "init" /\ Proceeds => LooseOn /\ LoosePages /\ LooseInstall
           /\ Op.code # "init" => /\ LooseOn /\ LoosePages /\ LooseWriting /\ LooseDeleting /\ LooseGc
                                  /\ Op = queue[1] /\ OpOK(Op) /\ Op \in OpType
           /\ Spaced
<1>1. Working /\ ~ Flying /\ ~ Telling /\ ~ Resting /\ queue # <<>>
  BY DEF LooseInv, Working, Telling, Resting
<1>2. phase = "installing" \/ phase = "initialized"
  BY <1>1 DEF LooseInv
<1>3. phase = "initialized" => Op.code # "init"
  BY <1>1 DEF LooseInv
<1>4. phase = "installing" => Op.code = "init"
  BY DEF LooseInv
<1>5. Op.code # "init" => /\ LooseOn /\ LoosePages /\ LooseWriting /\ LooseDeleting /\ LooseGc
                          /\ Op = queue[1] /\ OpOK(Op) /\ Op \in OpType
  <2> SUFFICES ASSUME Op.code # "init"
               PROVE  /\ LooseOn /\ LoosePages /\ LooseWriting /\ LooseDeleting /\ LooseGc
                      /\ Op = queue[1] /\ OpOK(Op) /\ Op \in OpType
    OBVIOUS
  <2>1. LooseOn /\ LoosePages /\ LooseWriting /\ LooseDeleting /\ LooseGc
    BY <1>2, <1>4 DEF LooseInv
  <2>2. QueueOK
    BY <2>1 DEF LooseOn
  <2> QED
    BY <1>1, <2>1, <2>2, OpFacts
<1>6. Op.code = "init" /\ Proceeds => LooseOn /\ LoosePages /\ LooseInstall
  BY <1>2, <1>3 DEF LooseInv
<1>7. Spaced
  BY LooseFields DEF LooseInv, LooseTypes, ScanPages, Spaced
<1> QED
  BY <1>1, <1>2, <1>3, <1>4, <1>5, <1>6, <1>7 DEF LooseInv

\* A step of an operation that writes or deletes: what it has to show.
LEMMA LooseGoes ==
    ASSUME LooseInv, hand = "run", Op.code \notin {"init", "gc"}, HeadKeeps, OpOK(queue[1])',
           pages' \in ScanPages,
           \A i \in Index : /\ pages'[i].addr = pages[i].addr /\ pages'[i].type = pages[i].type
                            /\ pages[i].offset <= pages'[i].offset,
           UNCHANGED <<flash, swap, gc, phase, latest, writes, timeouts>>,
           Working' \/ Telling', result' = "success" \/ hand' # "idle",
           SpaceOK', LoosePages', LooseStages', LooseDeleting',
           Working' /\ IsWriteOp(Op)' =>
              /\ Flying' \/ ~ Proceeds' => Op'.step \notin {"begin", "find"}
              /\ Flying' => \/ Op'.code = "update" /\ Op'.step = "done" /\ Keeps'
                            \/ /\ Landing' = WriteAddr'
                               /\ Op'.step \in {"id", "data", "finalize"} => Within(Outcome', WriteSlot')
                               /\ Within(Outcome', WriteSlot' + 1),
           Flying' /\ Landing' \in Phys /\ Outcome'.tag = "swap" => flash[Landing'].tag = "swap"
    PROVE  LooseInv'
<1>1. /\ Working /\ ~ Flying /\ queue # <<>> /\ phase = "initialized" /\ LooseFlash /\ LooseTypes
      /\ LooseOn /\ LoosePages /\ LooseWriting /\ LooseDeleting /\ LooseGc
      /\ writes \in Nat /\ timeouts \in Nat /\ Op = queue[1]
  BY LooseRun
<1>2. LooseRoles /\ QueueOK /\ SpaceOK /\ LooseTags /\ queue \in Seq(OpType) /\ Len(queue) \in Nat
  <2>1. QueueOK
    BY <1>1 DEF LooseOn
  <2> QED
    BY <1>1, <2>1, OpFacts DEF LooseOn, QueueOK
<1>3. /\ Op' = queue'[1] /\ Op'.code = Op.code /\ Op'.page = Op.page /\ Len(queue') = Len(queue) /\ queue' # <<>>
      /\ \A k \in 1 .. Len(queue) : k # 1 => queue'[k] = queue[k]
      /\ \A k \in 1 .. Len(queue) : queue'[k].code = queue[k].code /\ queue'[k].page = queue[k].page
  BY <1>1 DEF HeadKeeps
<1>4. LooseFlash' /\ LooseTypes'
  BY <1>1 DEF LooseFlash, LooseTypes
<1>5. QueueOK'
  BY <1>1, <1>2, HeadQueueOK
<1>6. Len(queue') <= QueueSize
  BY <1>2, <1>3 DEF QueueOK
<1>7. LooseRoles'
  BY <1>2 DEF LooseRoles
<1>8. gc.cur \in Index /\ SwapAt' = SwapAt /\ OnSwap' = OnSwap /\ OnPage(gc.cur)' = OnPage(gc.cur)
  <2>1. gc.cur \in Index
    BY <1>1, LooseFields DEF LooseTypes
  <2> QED
    BY <2>1 DEF SwapAt, OnSwap, OnPage
<1>9. LooseTags'
  BY <1>1, <1>2, <1>8 DEF LooseTags
<1>10. LooseWriting'
  <2>1. \A k \in 1 .. Len(queue') : IsWriteOp(queue[k])' => pages'[queue'[k].page].type = "data"
    <3> SUFFICES ASSUME NEW k \in 1 .. Len(queue'), IsWriteOp(queue[k])'
                 PROVE  pages'[queue'[k].page].type = "data"
      OBVIOUS
    <3>1. k \in 1 .. Len(queue) /\ IsWriteOp(queue[k]) /\ queue'[k].page = queue[k].page
      BY <1>3 DEF IsWriteOp
    <3>2. pages[queue[k].page].type = "data" /\ queue[k].page \in Index
      BY <1>1, <1>2, <3>1 DEF LooseWriting, QueueOK, OpOK
    <3> QED
      BY <3>1, <3>2
  <2> QED
    BY <2>1 DEF LooseWriting
<1>11. ~ GcRunning /\ ~ GcRunning' /\ ~ GcLanded /\ ~ GcLanded'
  BY <1>3 DEF GcRunning, GcLanded
<1>12. GcReached'
  <2>1. GcReached
    BY <1>1 DEF LooseGc
  <2> DEFINE T == {"begin", "promote", "discard", "tag"}
  <2>2. /\ \A i \in gc.todo : i \in Index
        /\ pages[gc.cur].offset <= pages'[gc.cur].offset
        /\ pages[gc.cur].offset \in Nat /\ pages'[gc.cur].offset \in Nat /\ swap.offset \in Nat
        /\ gc.src \in Nat
    <3>1. \A i \in Index : pages[i].offset \in Nat /\ pages'[i].offset \in Nat
      BY <1>1, LooseFields DEF LooseTypes, ScanPages
    <3>2. swap.offset \in Nat
      BY <1>1, ConstantFacts DEF LooseTypes, ScanOffset
    <3>3. gc.todo \subseteq Index /\ gc.src \in Nat
      BY <1>1, LooseFields DEF LooseTypes
    <3> QED
      BY <1>8, <3>1, <3>2, <3>3
  <2>3. /\ gc.state = "copy" => gc.src \in Places /\ swap.offset <= gc.src /\ gc.src < pages'[gc.cur].offset
        /\ gc.state = "erase" => swap.offset <= pages'[gc.cur].offset
    BY <2>1, <2>2 DEF GcReached
  <2> QED
    BY <1>8, <1>11, <2>1, <2>2, <2>3 DEF GcReached
<1>13. LooseGc'
  <2>1. \A k \in 1 .. Len(queue') : CollectsAt(k)' => CollectsAt(k) /\ k # 1
    BY <1>1, <1>3 DEF CollectsAt
  <2>2. \A k, l \in 1 .. Len(queue') : CollectsAt(k)' /\ CollectsAt(l)' => k = l
    BY <1>1, <1>3, <2>1 DEF LooseGc
  <2>3. \A k \in 1 .. Len(queue') : k > 1 /\ queue'[k].code = "gc" => gc'.state = "begin" \/ gc'.resume
    BY <1>1, <1>3 DEF LooseGc
  <2>4. Op'.code # "gc"
    BY <1>3
  <2> QED
    BY <1>12, <2>2, <2>3, <2>4 DEF LooseGc
<1>14. LooseOn'
  BY <1>5, <1>7, <1>9 DEF LooseOn
<1>15. Op'.code # "init" /\ phase' = "initialized" /\ writes' \in Nat /\ timeouts' \in Nat
  BY <1>1, <1>3
<1> QED
  BY <1>4, <1>6, <1>10, <1>13, <1>14, <1>15 DEF LooseInv

\* A data page while no page has just been erased.
LEMMA LooseAt ==
    ASSUME LoosePages, ~ GcLanded, NEW i \in Index, pages[i].type # "undefined"
    PROVE  /\ 1 <= pages[i].offset
           /\ ~ WritesAt(i) \/ ~ Late => Within(OnPage(i), pages[i].offset)
           /\ WritesAt(i) /\ Keyed => Within(OnPage(i), pages[i].offset + 1)
BY DEF LoosePages

\* It ends: its users are told next.
LEMMA LooseEnds ==
    ASSUME LooseInv, hand = "run", Op.code \notin {"init", "gc"}, HeadKeeps, OpOK(queue[1])',
           pages' \in ScanPages,
           \A i \in Index : /\ pages'[i].addr = pages[i].addr /\ pages'[i].type = pages[i].type
                            /\ pages[i].offset <= pages'[i].offset
                            /\ pages[i].type # "undefined" => Within(OnPage(i), pages'[i].offset),
           UNCHANGED <<flash, swap, gc, phase, latest, writes, timeouts>>,
           NEW r, Finish(r), SpaceOK'
    PROVE  LooseInv'
<1>1. ~ Flying /\ LooseTypes /\ LoosePages
  BY LooseRun
<1>2. queue' # <<>>
  BY DEF HeadKeeps
<1>3. ~ Flying' /\ ~ Working' /\ Telling' /\ hand' = "event"
  BY <1>1, <1>2, FinishFacts
<1>4. ~ GcLanded' /\ \A i : ~ WritesAt(i)'
  BY <1>3 DEF GcLanded, GcRunning, WritesAt
<1>5. LoosePages'
  <2> SUFFICES ASSUME NEW i \in Index, pages'[i].type # "undefined"
               PROVE  1 <= pages'[i].offset /\ Within(OnPage(i)', pages'[i].offset)
    BY <1>4 DEF LoosePages
  <2>1. 1 <= pages[i].offset
    BY <1>1 DEF LoosePages
  <2>2. pages[i].offset \in Nat /\ pages'[i].offset \in Nat
    BY <1>1, LooseFields DEF LooseTypes, ScanPages
  <2>3. 1 <= pages'[i].offset
    BY <2>1, <2>2
  <2>4. OnPage(i)' = OnPage(i)
    BY DEF OnPage
  <2> QED
    BY <2>3, <2>4
<1>6. LooseStages' /\ LooseDeleting'
  BY <1>3 DEF LooseStages, LooseDeleting
<1>7. hand' # "idle"
  BY <1>3
<1> QED
  BY <1>3, <1>5, <1>6, <1>7, LooseGoes

\* nothing of the pages changes in RAM that the flash or the queue depends on
PagesStay ==
    /\ pages' \in ScanPages
    /\ \A i \in Index : /\ pages'[i].addr = pages[i].addr /\ pages'[i].offset = pages[i].offset
                        /\ pages'[i].reserved = pages[i].reserved /\ pages'[i].type = pages[i].type

\* It starts a flash operation: the queue waits for its end.
LEMMA LooseStarts ==
    ASSUME LooseInv, hand = "run", Op.code \notin {"init", "gc"}, HeadKeeps, OpOK(queue[1])', PagesStay,
           UNCHANGED <<flash, swap, gc, phase, latest, writes, timeouts>>, Proceeds,
           NEW a, NEW q, Execute(a, <<q>>),
           a \in Phys => q \in LoosePage /\ Gapless(q) /\ q.tag = flash[a].tag,
           IsWriteOp(Op) =>
              /\ Op'.step \notin {"begin", "find"}
              /\ \/ /\ Op.code = "update" /\ Op'.step = "done"
                    /\ a \in Phys => \A n \in 1 .. Slots + 1 : Within(flash[a], n) => Within(q, n)
                 \/ /\ a = WriteAddr
                    /\ Op'.step \in {"id", "data", "finalize"} => Within(q, WriteSlot)
                    /\ Within(q, WriteSlot + 1)
              /\ Op'.step \notin {"flag", "done"} => Within(OnPage(Op.page), WriteSlot)
              /\ Op'.step # "id" => Within(OnPage(Op.page), WriteSlot + 1),
           ~ IsWriteOp(Op) =>
              (a \in Phys => \A n \in 1 .. Slots + 1 : Within(flash[a], n) => Within(q, n))
    PROVE  LooseInv'
<1>1. /\ Working /\ ~ Flying /\ ~ Telling /\ LooseTypes /\ LoosePages /\ LooseFlash /\ LooseOn /\ Spaced
      /\ Op = queue[1] /\ OpOK(Op)
  BY LooseRun
<1>2. Op' = queue'[1] /\ Op'.code = Op.code /\ Op'.page = Op.page /\ queue' # <<>>
  BY <1>1 DEF HeadKeeps
<1>3. flashing' = [addr |-> a, stages |-> <<q>>] /\ hand' = "idle" /\ result' = result
  BY DEF Execute
<1>4. Flying' /\ Working' /\ ~ Telling' /\ result' = "success"
  <2>1. <<q>> # <<>>
    OBVIOUS
  <2>2. flashing' # NoFlash
    BY <1>3, <2>1 DEF NoFlash
  <2> QED
    BY <1>2, <1>3, <2>2 DEF Flying, Working, Telling, Proceeds
<1>5. Landing' = a /\ Stages' = <<q>> /\ Outcome' = q /\ Len(Stages') = 1
  BY <1>3 DEF Landing, Stages, Outcome
<1>6. LooseStages'
  <2>1. OneSwap(flash)
    BY <1>1 DEF LooseFlash
  <2>2. a \in Phys => Stages' \in Seq(LoosePage)
    BY <1>5
  <2>3. a \in Phys => \A p \in Phys : q.tag = "swap" /\ flash[p].tag = "swap" => p = a
    BY <2>1 DEF OneSwap
  <2>4. \A k \in 1 .. Len(Stages') : Stages'[k] = q
    BY <1>5
  <2>5. Len(Stages') \in Nat /\ 1 <= Len(Stages')
    BY <1>5
  <2>6. a \in Phys => Gapless(q)'
    BY DEF Gapless, Within
  <2> QED
    BY <1>5, <2>2, <2>3, <2>4, <2>5, <2>6 DEF LooseStages
<1>7. SpaceOK'
  <2>1. SpaceOK /\ QueueOK
    BY <1>1 DEF LooseOn
  <2> QED
    BY <1>1, <2>1, HeadWrites, SpaceStays DEF PagesStay
<1>8. \A i \in Index : OnPage(i)' = OnPage(i)
  BY DEF OnPage, PagesStay
<1>9. ~ GcLanded /\ ~ GcLanded'
  BY <1>2 DEF GcLanded, GcRunning
<1>10. IsWriteOp(Op)' <=> IsWriteOp(Op)
  BY <1>2 DEF IsWriteOp
<1>11. IsWriteOp(Op) => Op.page \in Index /\ WriteSlot' = WriteSlot /\ WriteAddr' = WriteAddr
  BY <1>1, <1>2 DEF OpOK, WriteSlot, WriteAddr, PagesStay
<1>12. LoosePages'
  <2> SUFFICES ASSUME NEW i \in Index, pages'[i].type # "undefined"
               PROVE  /\ 1 <= pages'[i].offset
                      /\ ~ (WritesAt(i)' /\ Late') => Within(OnPage(i), pages'[i].offset)
                      /\ WritesAt(i)' /\ Keyed' => Within(OnPage(i), pages'[i].offset + 1)
    BY <1>8, <1>9 DEF LoosePages
  <2>1. pages[i].type # "undefined" /\ pages'[i].offset = pages[i].offset
    BY DEF PagesStay
  <2>2. 1 <= pages[i].offset /\ (~ WritesAt(i) => Within(OnPage(i), pages[i].offset))
    BY <1>1, <1>9, <2>1, LooseAt
  <2>3. CASE WritesAt(i)'
    <3>1. IsWriteOp(Op) /\ Op.page = i
      BY <1>2, <1>10, <2>3 DEF WritesAt
    <3>2. pages[i].offset = WriteSlot
      BY <3>1 DEF WriteSlot
    <3>3. ~ Late' => Within(OnPage(i), WriteSlot)
      BY <3>1 DEF Late
    <3>4. Keyed' => Within(OnPage(i), WriteSlot + 1)
      BY <1>4, <3>1 DEF Keyed
    <3> QED
      BY <2>1, <2>2, <2>3, <3>2, <3>3, <3>4
  <2>4. CASE ~ WritesAt(i)'
    <3>1. ~ WritesAt(i)
      BY <1>1, <1>2, <1>4, <1>10, <2>4 DEF WritesAt
    <3> QED
      BY <2>1, <2>2, <2>4, <3>1
  <2> QED
    BY <2>3, <2>4
<1>13. LooseDeleting'
  <2>1. Op.code \in {"delete", "delete file"} => ~ IsWriteOp(Op)
    BY DEF IsWriteOp
  <2> QED
    BY <1>2, <1>5, <2>1 DEF LooseDeleting, Keeps, Within
<1>14. Working' /\ IsWriteOp(Op)' =>
              /\ Flying' \/ ~ Proceeds' => Op'.step \notin {"begin", "find"}
              /\ Flying' => \/ Op'.code = "update" /\ Op'.step = "done" /\ Keeps'
                            \/ /\ Landing' = WriteAddr'
                               /\ Op'.step \in {"id", "data", "finalize"} => Within(Outcome', WriteSlot')
                               /\ Within(Outcome', WriteSlot' + 1)
  <2> SUFFICES ASSUME IsWriteOp(Op)
               PROVE  /\ Op'.step \notin {"begin", "find"}
                      /\ \/ Op'.code = "update" /\ Op'.step = "done" /\ Keeps'
                         \/ /\ Landing' = WriteAddr'
                            /\ Op'.step \in {"id", "data", "finalize"} => Within(Outcome', WriteSlot')
                            /\ Within(Outcome', WriteSlot' + 1)
    BY <1>10
  <2>1. Op'.step \notin {"begin", "find"}
    OBVIOUS
  <2>2. CASE /\ Op.code = "update" /\ Op'.step = "done"
             /\ a \in Phys => \A n \in 1 .. Slots + 1 : Within(flash[a], n) => Within(q, n)
    BY <1>2, <1>5, <2>1, <2>2 DEF Keeps, Within
  <2>3. CASE /\ a = WriteAddr
             /\ Op'.step \in {"id", "data", "finalize"} => Within(q, WriteSlot)
             /\ Within(q, WriteSlot + 1)
    BY <1>5, <1>11, <2>1, <2>3
  <2> QED
    BY <2>2, <2>3
<1>15. Flying' /\ Landing' \in Phys /\ Outcome'.tag = "swap" => flash[Landing'].tag = "swap"
  BY <1>5
<1>16. \A i \in Index : pages[i].offset <= pages'[i].offset
  <2>1. \A i \in Index : pages[i].offset \in Nat /\ pages'[i].offset = pages[i].offset
    BY <1>1 DEF Spaced, PagesStay
  <2> QED
    BY <2>1
<1> QED
  BY <1>4, <1>6, <1>7, <1>12, <1>13, <1>14, <1>15, <1>16, LooseGoes DEF PagesStay

\* Changes of one page of the table.
LEMMA LooseCanGc ==
    ASSUME pages \in ScanPages, NEW i, pages' = [pages EXCEPT ![i].canGc = TRUE]
    PROVE  PagesStay
<1>1. CASE i \in Index
  <2> DEFINE q == [pages[i] EXCEPT !.canGc = TRUE]
  <2>1. pages[i] \in ScanInfo
    BY <1>1 DEF ScanPages
  <2>2. q \in ScanInfo /\ q.addr = pages[i].addr /\ q.offset = pages[i].offset
        /\ q.reserved = pages[i].reserved /\ q.type = pages[i].type
    <3> DEFINE O == 0 .. Slots + 1
               R == 0 .. Slots
    <3>1. ScanInfo = [type : {"data", "erased", "undefined"}, addr : Phys \union {NoPage}, offset : O, reserved : R,
                      open : Nat, canGc : BOOLEAN]
      BY DEF ScanInfo
    <3> HIDE DEF O, R
    <3> QED
      BY <2>1, <3>1
  <2>3. pages' = [pages EXCEPT ![i] = q]
    BY <1>1 DEF ScanPages
  <2> HIDE DEF q
  <2> QED
    BY <1>1, <2>2, <2>3 DEF PagesStay, ScanPages
<1>2. CASE i \notin Index
  <2>1. pages' = pages
    BY <1>2 DEF ScanPages
  <2> QED
    BY <2>1 DEF PagesStay
<1> QED
  BY <1>1, <1>2

\* page_offsets_update after a write that has come to its record.
LEMMA LooseUpdated ==
    ASSUME pages \in ScanPages, NEW op, op.page \in Index, NEW m, m = pages[op.page].offset + 1,
           pages[op.page].reserved # 0, m \in 0 .. Slots + 1, pages' = OffsetsUpdated(op)
    PROVE  /\ pages' \in ScanPages
           /\ \A i \in Index : pages'[i].addr = pages[i].addr /\ pages'[i].type = pages[i].type
           /\ \A i \in Index \ {op.page} : pages'[i] = pages[i]
           /\ pages'[op.page].offset = IF StepNumber[op.step] > StepNumber.id THEN m ELSE pages[op.page].offset
           /\ pages'[op.page].reserved = pages[op.page].reserved - 1
<1> DEFINE n == IF StepNumber[op.step] > StepNumber.id THEN m ELSE pages[op.page].offset
           r == pages[op.page].reserved - 1
           q == [pages[op.page] EXCEPT !.offset = n, !.reserved = r]
<1>1. pages[op.page] \in ScanInfo
  BY DEF ScanPages
<1>2. n \in 0 .. Slots + 1 /\ r \in 0 .. Slots
  <2>1. pages[op.page].offset \in 0 .. Slots + 1 /\ pages[op.page].reserved \in 0 .. Slots
    BY <1>1, LooseFields
  <2> DEFINE x == pages[op.page].reserved
  <2>2. x \in 0 .. Slots /\ x # 0 => x - 1 \in 0 .. Slots
    <3> HIDE DEF x
    <3> QED
      BY ConstantFacts
  <2> QED
    BY <2>1, <2>2
<1>3. pages' = [pages EXCEPT ![op.page] = q]
  <2>1. pages' = [pages EXCEPT ![op.page].offset = n, ![op.page].reserved = r]
    BY DEF OffsetsUpdated
  <2> HIDE DEF n, r
  <2> QED
    BY <2>1 DEF ScanPages
<1>4. q \in ScanInfo /\ q.offset = n /\ q.reserved = r /\ q.addr = pages[op.page].addr /\ q.type = pages[op.page].type
  <2> DEFINE O == 0 .. Slots + 1
             R == 0 .. Slots
  <2>1. ScanInfo = [type : {"data", "erased", "undefined"}, addr : Phys \union {NoPage}, offset : O, reserved : R,
                    open : Nat, canGc : BOOLEAN]
    BY DEF ScanInfo
  <2>2. n \in O /\ r \in R
    BY <1>2
  <2> HIDE DEF O, R, n, r
  <2> QED
    BY <1>1, <2>1, <2>2
<1> HIDE DEF q, n, r
<1>5. pages' \in ScanPages /\ pages'[op.page] = q /\ \A i \in Index \ {op.page} : pages'[i] = pages[i]
  BY <1>3, <1>4 DEF ScanPages
<1>6. \A i \in Index : pages'[i].addr = pages[i].addr /\ pages'[i].type = pages[i].type
  BY <1>4, <1>5
<1> QED
  BY <1>4, <1>5, <1>6 DEF n, r

-----------------------------------------------------------------------------
\* Writes and updates.

\* The operation at the head and the page it writes to.
LEMMA LooseWrite ==
    ASSUME LooseInv, hand = "run", IsWriteOp(Op)
    PROVE  /\ Op = queue[1] /\ OpOK(Op) /\ Op \in OpType /\ Op.code \notin {"init", "gc"} /\ queue # <<>>
           /\ Op.page \in Index /\ WriteAddr = pages[Op.page].addr /\ WriteAddr \in Phys
           /\ OnPage(Op.page) = flash[WriteAddr] /\ flash[WriteAddr] \in LoosePage
           /\ WriteSlot = pages[Op.page].offset /\ WriteSlot \in Places
           /\ WriteSlot \in 1 .. Slots + 1 /\ WriteSlot + 1 \in 1 .. Slots + 1
           /\ pages[Op.page].reserved # 0
           /\ ~ Late => Within(flash[WriteAddr], WriteSlot)
           /\ Keyed => Within(flash[WriteAddr], WriteSlot + 1)
           /\ ~ Proceeds => Op.step \notin {"begin", "find"}
           /\ ~ GcLanded
           /\ Op.step \in {"begin", "find", "id", "data", "finalize", "flag", "done"}
           /\ Op.step \in {"find", "flag"} => Op.code = "update"
<1>1. Op.code \notin {"init", "gc"}
  BY DEF IsWriteOp
<1>2. /\ Working /\ ~ Flying /\ ~ Telling /\ queue # <<>> /\ LooseFlash /\ LooseTypes
      /\ LooseOn /\ LoosePages /\ LooseWriting /\ Op = queue[1] /\ OpOK(Op) /\ Op \in OpType /\ Spaced
  BY <1>1, LooseRun
<1>3. QueueOK /\ SpaceOK /\ LooseRoles
  BY <1>2 DEF LooseOn
<1>4. Op.page \in Index /\ pages[Op.page].type = "data"
  <2>1. 1 \in 1 .. Len(queue)
    BY <1>2, <1>3, OpFacts
  <2> QED
    BY <1>2, <2>1 DEF LooseWriting, OpOK
<1>5. ~ GcLanded
  BY <1>1 DEF GcLanded, GcRunning
<1>6. WritesAt(Op.page)
  BY <1>2 DEF WritesAt
<1>7. 1 <= pages[Op.page].offset /\ (~ Late => Within(OnPage(Op.page), pages[Op.page].offset))
      /\ (Keyed => Within(OnPage(Op.page), pages[Op.page].offset + 1))
  BY <1>2, <1>4, <1>5, <1>6, LooseAt
<1>8. pages[Op.page].reserved # 0 /\ pages[Op.page].offset \in Places
  BY <1>2, <1>3, <1>7, SpaceHeld
<1>9. \A n \in Places : n \in 1 .. Slots + 1 /\ n + 1 \in 1 .. Slots + 1
  BY ConstantFacts DEF Places
<1>10. pages[Op.page].addr \in Phys /\ flash[pages[Op.page].addr] \in LoosePage
  BY <1>2, <1>3, <1>4 DEF LooseRoles, LooseFlash
<1>11. ~ Proceeds => Op.step \notin {"begin", "find"}
  BY <1>2 DEF LooseWriting
<1>12. /\ Op.step \in {"begin", "find", "id", "data", "finalize", "flag", "done"}
       /\ Op.step \in {"find", "flag"} => Op.code = "update"
  BY <1>2 DEF OpOK, IsWriteOp
<1> QED
  BY <1>1, <1>2, <1>4, <1>5, <1>7, <1>8, <1>9, <1>10, <1>11, <1>12 DEF WriteAddr, WriteSlot, OnPage

\* its next step
LEMMA LooseNext ==
    ASSUME LooseInv, hand = "run", IsWriteOp(Op), UNCHANGED <<latest, writes>>,
           NEW st \in {"id", "data", "finalize", "flag", "done"}, SetStep(st),
           st = "flag" => Op.code = "update"
    PROVE  HeadKeeps /\ OpOK(queue[1])' /\ Op'.step = st
<1>1. Op = queue[1] /\ OpOK(Op) /\ queue # <<>> /\ Op.code \notin {"init", "gc"}
  BY LooseWrite
<1>2. QueueOK
  BY <1>1, LooseRun DEF LooseOn
<1>3. HeadKeeps /\ queue'[1].step = st /\ queue'[1].file = queue[1].file
  BY <1>1, <1>2, StepSet DEF Steps
<1>4. OpOK(queue[1])'
  BY <1>1, <1>3 DEF HeadKeeps, OpOK, IsWriteOp
<1> QED
  BY <1>3, <1>4 DEF HeadKeeps

\* its page goes on from one group of words to the next
LEMMA LooseProgram ==
    ASSUME LooseInv, hand = "run", IsWriteOp(Op), Proceeds,
           NEW st \in {"id", "data", "finalize", "flag", "done"}, SetStep(st), st = "flag" => Op.code = "update",
           NEW q \in LoosePage, q.tag = flash[WriteAddr].tag, WriteWords(q),
           Within(q, WriteSlot + 1), st \in {"id", "data", "finalize"} => Within(q, WriteSlot),
           st \notin {"flag", "done"} => Within(flash[WriteAddr], WriteSlot),
           st # "id" => Within(flash[WriteAddr], WriteSlot + 1),
           UNCHANGED <<flash, pages, swap, gc, phase, latest, bounds>>
    PROVE  LooseInv'
<1>1. /\ WriteSlot + 1 \in 1 .. Slots + 1 /\ OnPage(Op.page) = flash[WriteAddr]
      /\ Op.code \notin {"init", "gc"}
  BY LooseWrite
<1>2. HeadKeeps /\ OpOK(queue[1])' /\ Op'.step = st
  BY LooseNext DEF bounds
<1>3. PagesStay
  <2>1. pages \in ScanPages
    BY DEF LooseInv, LooseTypes
  <2> QED
    BY <2>1 DEF PagesStay
<1>4. Gapless(q)
  BY <1>1 DEF Gapless
<1>5. Execute(WriteAddr, <<q>>)
  BY DEF WriteWords
<1>6. UNCHANGED <<flash, swap, gc, phase, latest, writes, timeouts>>
  BY DEF bounds
<1> QED
  BY <1>1, <1>2, <1>3, <1>4, <1>5, <1>6, LooseStarts

\* record_header_write_begin programs the key.
LEMMA LooseWriteBegin == ASSUME LooseInv, WriteHeaderBegin PROVE LooseInv'
<1>1. /\ hand = "run" /\ IsWriteOp(Op) /\ Proceeds /\ Op.step \in {"begin", "find"} /\ SetStep("id")
      /\ WriteWords(WithKey(flash[WriteAddr], WriteSlot, Op.key))
      /\ UNCHANGED <<flash, pages, swap, gc, phase, latest, bounds>>
  BY DEF WriteHeaderBegin, IsWrite, IsWriteOp
<1>2. /\ flash[WriteAddr] \in LoosePage /\ WriteSlot \in 1 .. Slots + 1 /\ OpOK(Op)
      /\ Within(flash[WriteAddr], WriteSlot)
  BY <1>1, LooseWrite DEF Late
<1>3. PICK q : q = WithKey(flash[WriteAddr], WriteSlot, Op.key)
  OBVIOUS
<1>4. Op.key \in Keys
  BY <1>1, <1>2 DEF OpOK
<1>5. WriteSlot \in Int
  BY <1>2
<1>6. q \in LoosePage /\ q.tag = flash[WriteAddr].tag /\ Within(q, WriteSlot) /\ Within(q, WriteSlot + 1)
  BY <1>2, <1>3, <1>4, <1>5, LooseKey
<1> QED
  BY <1>1, <1>2, <1>3, <1>6, LooseProgram

\* record_write_id and record_write_data.
LEMMA LooseWriteWords == ASSUME LooseInv, WriteRecordId \/ WriteData PROVE LooseInv'
<1>1. /\ hand = "run" /\ IsWriteOp(Op) /\ Proceeds /\ Op.step \in {"id", "data"}
      /\ UNCHANGED <<flash, pages, swap, gc, phase, latest, bounds>>
  BY DEF WriteRecordId, WriteData, IsWrite, IsWriteOp
<1>2. PICK st, q :
         /\ st \in {"data", "finalize"} /\ SetStep(st) /\ WriteWords(q)
         /\ \/ q = WithId(flash[WriteAddr], WriteSlot, Op.id)
            \/ q = WithData(flash[WriteAddr], WriteSlot, Op.data)
  BY DEF WriteRecordId, WriteData
<1>3. ~ Flying
  BY <1>1, LooseRun
<1>4. /\ flash[WriteAddr] \in LoosePage /\ Op \in OpType
      /\ Within(flash[WriteAddr], WriteSlot) /\ Within(flash[WriteAddr], WriteSlot + 1)
  BY <1>1, <1>3, LooseWrite DEF Late, Keyed
<1>5. Op.id \in Nat \union {-1} /\ Op.data \in Nat \union {-1}
  BY <1>4 DEF OpType
<1>6. q \in LoosePage /\ q.tag = flash[WriteAddr].tag /\ Within(q, WriteSlot) /\ Within(q, WriteSlot + 1)
  <2>1. CASE q = WithId(flash[WriteAddr], WriteSlot, Op.id)
    BY <1>4, <1>5, <2>1, LooseWords
  <2>2. CASE q = WithData(flash[WriteAddr], WriteSlot, Op.data)
    BY <1>4, <1>5, <2>2, LooseWords
  <2> QED
    BY <1>2, <2>1, <2>2
<1> QED
  BY <1>1, <1>2, <1>4, <1>6, LooseProgram

\* record_header_write_finalize programs the file id, which finishes it.
LEMMA LooseWriteFinalize == ASSUME LooseInv, WriteHeaderFinalize PROVE LooseInv'
<1>1. /\ hand = "run" /\ IsWriteOp(Op) /\ Proceeds /\ Op.step = "finalize"
      /\ WriteWords(WithFile(flash[WriteAddr], WriteSlot, Op.file))
      /\ UNCHANGED <<flash, pages, swap, gc, phase, latest, bounds>>
  BY DEF WriteHeaderFinalize, IsWrite, IsWriteOp
<1>2. PICK st \in {"flag", "done"} : SetStep(st) /\ (st = "flag" => Op.code = "update")
  BY DEF WriteHeaderFinalize
<1>3. /\ flash[WriteAddr] \in LoosePage /\ OpOK(Op) /\ WriteSlot \in Places /\ WriteSlot + 1 \in 1 .. Slots + 1
      /\ Within(flash[WriteAddr], WriteSlot) /\ Within(flash[WriteAddr], WriteSlot + 1)
  BY <1>1, LooseWrite DEF Late, Keyed
<1>4. PICK q : q = WithFile(flash[WriteAddr], WriteSlot, Op.file)
  OBVIOUS
<1>5. Op.file \in Files
  BY <1>1, <1>3 DEF OpOK
<1>6. WriteSlot \in Int /\ WriteSlot + 1 \in Int /\ WriteSlot < WriteSlot + 1 /\ ~ (WriteSlot < WriteSlot)
  BY <1>3, FilledRange DEF Places
<1>7. flash[WriteAddr].slot[WriteSlot].file = NoFile
  BY <1>3, <1>6 DEF Within
<1>8. q \in LoosePage /\ q.tag = flash[WriteAddr].tag /\ Within(q, WriteSlot + 1)
  <2> DEFINE n == WriteSlot + 1
  <2>1. n \in Int /\ WriteSlot < n /\ Within(flash[WriteAddr], n)
    BY <1>3, <1>6
  <2> HIDE DEF n
  <2>2. q \in LoosePage /\ q.tag = flash[WriteAddr].tag /\ Within(q, n)
    BY <1>3, <1>4, <1>5, <1>7, <2>1, LooseFile
  <2> QED
    BY <2>2 DEF n
<1> QED
  BY <1>1, <1>2, <1>3, <1>4, <1>8, LooseProgram

\* Clearing a key moves no record.
LEMMA LooseFlag ==
    ASSUME NEW a, a \in Phys => flash[a] \in LoosePage /\ Gapless(flash[a]), NEW j, NEW q,
           q = WithKey(flash[a], j, "dirty")
    PROVE  /\ a \in Phys => q \in LoosePage /\ Gapless(q) /\ q.tag = flash[a].tag
           /\ a \in Phys => \A n \in 1 .. Slots + 1 : Within(flash[a], n) => Within(q, n)
<1> SUFFICES ASSUME a \in Phys
             PROVE  /\ q \in LoosePage /\ q.tag = flash[a].tag /\ Gapless(q)
                    /\ \A n \in 1 .. Slots + 1 : Within(flash[a], n) => Within(q, n)
  OBVIOUS
<1>1. q \in LoosePage /\ q.tag = flash[a].tag /\ \A n \in Int : Within(flash[a], n) => Within(q, n)
  BY LooseKey
<1>2. \A n \in 1 .. Slots + 1 : n \in Int
  BY ConstantFacts
<1> QED
  BY <1>1, <1>2 DEF Gapless

\* An update flags the record it replaces.
LEMMA LooseWriteFlag == ASSUME LooseInv, WriteFlagDirty PROVE LooseInv'
<1>1. /\ hand = "run" /\ IsWriteOp(Op) /\ Proceeds /\ Op.step = "flag" /\ SetStep("done")
      /\ pages' = [pages EXCEPT ![old.page].canGc = TRUE]
      /\ Execute(old.addr, <<WithKey(flash[old.addr], old.slot, "dirty")>>)
      /\ UNCHANGED <<flash, swap, gc, phase, latest, bounds>>
  BY DEF WriteFlagDirty, IsWrite, IsWriteOp, FlagDirty
<1>2. PICK q : q = WithKey(flash[old.addr], old.slot, "dirty")
  OBVIOUS
<1>3. /\ Op.code = "update" /\ Op.code \notin {"init", "gc"} /\ OnPage(Op.page) = flash[WriteAddr]
      /\ Within(flash[WriteAddr], WriteSlot + 1)
  BY <1>1, LooseWrite DEF Keyed
<1>4. HeadKeeps /\ OpOK(queue[1])' /\ Op'.step = "done"
  BY <1>1, LooseNext DEF bounds
<1>5. PagesStay
  <2>1. pages \in ScanPages
    BY DEF LooseInv, LooseTypes
  <2> QED
    BY <1>1, <2>1, LooseCanGc
<1>6. /\ old.addr \in Phys => q \in LoosePage /\ Gapless(q) /\ q.tag = flash[old.addr].tag
      /\ old.addr \in Phys => \A n \in 1 .. Slots + 1 : Within(flash[old.addr], n) => Within(q, n)
  <2>1. old.addr \in Phys => flash[old.addr] \in LoosePage /\ Gapless(flash[old.addr])
    BY DEF LooseInv, LooseFlash
  <2> QED
    BY <1>2, <2>1, LooseFlag
<1>7. Execute(old.addr, <<q>>) /\ UNCHANGED <<flash, swap, gc, phase, latest, writes, timeouts>>
  BY <1>1, <1>2 DEF bounds
<1> QED
  BY <1>1, <1>3, <1>4, <1>5, <1>6, <1>7, LooseStarts

\* An update finds no record to replace.
LEMMA LooseUpdateEnds == ASSUME LooseInv, UpdateFindsNothing PROVE LooseInv'
<1>1. /\ hand = "run" /\ IsWriteOp(Op) /\ Proceeds /\ Op.step = "find" /\ Finish("not found")
      /\ UNCHANGED <<flash, pages, swap, gc, phase, queue, latest, writes, timeouts>>
  BY DEF UpdateFindsNothing, IsWrite, IsWriteOp, ram, bounds
<1>2. /\ Op.code \notin {"init", "gc"} /\ queue # <<>> /\ Op = queue[1] /\ OpOK(Op) /\ ~ GcLanded
  BY <1>1, LooseWrite
<1>3. /\ LooseTypes /\ LoosePages /\ LooseOn /\ Spaced /\ ~ Telling
  BY <1>1, <1>2, LooseRun
<1>4. QueueOK /\ SpaceOK
  BY <1>3 DEF LooseOn
<1>5. HeadKeeps
  BY <1>1, <1>2, <1>4, SameHead
<1>6. OpOK(queue[1])'
  BY <1>1, <1>2 DEF OpOK, IsWriteOp
<1>7. SpaceOK'
  BY <1>1, <1>3, <1>4, <1>5, HeadWrites, SpaceStays
<1>8. \A i \in Index : /\ pages[i].offset <= pages[i].offset
                       /\ pages[i].type # "undefined" => Within(OnPage(i), pages[i].offset)
  <2> SUFFICES ASSUME NEW i \in Index
               PROVE  /\ pages[i].offset <= pages[i].offset
                      /\ pages[i].type # "undefined" => Within(OnPage(i), pages[i].offset)
    OBVIOUS
  <2>1. pages[i].offset <= pages[i].offset
    <3>1. pages[i].offset \in Nat
      BY <1>3 DEF Spaced
    <3> QED
      BY <3>1, NotLess
  <2>2. ~ Late
    BY <1>1 DEF Late
  <2> QED
    BY <1>2, <1>3, <2>1, <2>2, LooseAt
<1>9. pages' = pages /\ pages \in ScanPages
  BY <1>1, <1>3 DEF LooseTypes
<1> QED
  BY <1>1, <1>2, <1>5, <1>6, <1>7, <1>8, <1>9, LooseEnds

\* A write or an update ends.
LEMMA LooseWriteEnds == ASSUME LooseInv, WriteTimeout \/ WriteDone PROVE LooseInv'
<1>1. /\ hand = "run" /\ IsWriteOp(Op) /\ pages' = OffsetsUpdated(Op)
      /\ ~ Proceeds \/ Op.step = "done"
      /\ UNCHANGED <<flash, swap, gc, phase, queue, latest, writes, timeouts>>
  BY DEF WriteTimeout, WriteDone, IsWrite, IsWriteOp, bounds
<1>2. PICK r : Finish(r)
  BY DEF WriteTimeout, WriteDone
<1>3. /\ Op.code \notin {"init", "gc"} /\ queue # <<>> /\ Op = queue[1] /\ OpOK(Op) /\ ~ GcLanded
      /\ Op.page \in Index /\ WriteSlot = pages[Op.page].offset /\ WriteSlot \in Places
      /\ WriteSlot + 1 \in 1 .. Slots + 1 /\ pages[Op.page].reserved # 0
      /\ OnPage(Op.page) = flash[WriteAddr]
      /\ ~ Late => Within(flash[WriteAddr], WriteSlot)
      /\ Keyed => Within(flash[WriteAddr], WriteSlot + 1)
      /\ Op.step \in {"id", "data", "finalize", "flag", "done"}
  BY <1>1, LooseWrite
<1>4. /\ LooseTypes /\ LoosePages /\ LooseOn /\ Spaced /\ ~ Telling /\ ~ Flying
  BY <1>1, <1>3, LooseRun
<1>5. QueueOK /\ SpaceOK
  BY <1>4 DEF LooseOn
<1>6. HeadKeeps
  BY <1>1, <1>3, <1>5, SameHead
<1>7. OpOK(queue[1])'
  BY <1>1, <1>3 DEF OpOK, IsWriteOp
<1> DEFINE m == pages[Op.page].offset + 1
           o == pages'[Op.page].offset
<1>8. m \in 0 .. Slots + 1 /\ m = WriteSlot + 1
  BY <1>3, ConstantFacts
<1>9. /\ pages' \in ScanPages
      /\ \A i \in Index : pages'[i].addr = pages[i].addr /\ pages'[i].type = pages[i].type
      /\ \A i \in Index \ {Op.page} : pages'[i] = pages[i]
      /\ o = IF StepNumber[Op.step] > StepNumber.id THEN m ELSE pages[Op.page].offset
      /\ pages'[Op.page].reserved = pages[Op.page].reserved - 1
  <2>1. pages \in ScanPages
    BY <1>4 DEF LooseTypes
  <2>2. m \in 0 .. Slots + 1 /\ m = pages[Op.page].offset + 1
    BY <1>8
  <2> HIDE DEF m
  <2> QED
    BY <1>1, <1>3, <2>1, <2>2, LooseUpdated
<1>10. /\ o = pages[Op.page].offset \/ o = pages[Op.page].offset + 1
       /\ Op.step \in {"data", "flag", "done"} => o = WriteSlot + 1
       /\ Op.step \in {"id", "finalize"} => o = WriteSlot
  <2>1. /\ Op.step \in {"data", "flag", "done"} => StepNumber[Op.step] > StepNumber.id
        /\ Op.step \in {"id", "finalize"} => ~ (StepNumber[Op.step] > StepNumber.id)
    BY DEF StepNumber
  <2> HIDE DEF m, o
  <2> QED
    BY <1>3, <1>8, <1>9, <2>1 DEF m
<1>11. Telling'
  BY <1>1, <1>2, <1>3, <1>4, FinishFacts
<1>12. SpaceOK'
  BY <1>1, <1>3, <1>4, <1>5, <1>9, <1>10, <1>11, SpaceFreed
<1>13. Within(OnPage(Op.page), o)
  <2>1. /\ Op.step \in {"data", "flag", "done"} => Keyed
        /\ Op.step \in {"id", "finalize"} => ~ Late
    BY DEF Keyed, Late
  <2> QED
    BY <1>3, <1>10, <2>1
<1>14. \A i \in Index : /\ pages[i].offset <= pages'[i].offset
                        /\ pages[i].type # "undefined" => Within(OnPage(i), pages'[i].offset)
  <2> SUFFICES ASSUME NEW i \in Index
               PROVE  /\ pages[i].offset <= pages'[i].offset
                      /\ pages[i].type # "undefined" => Within(OnPage(i), pages'[i].offset)
    OBVIOUS
  <2>1. pages[i].offset \in Nat
    BY <1>4 DEF Spaced
  <2>2. CASE i = Op.page
    <3>1. pages[i].offset <= o
      <4> HIDE DEF o
      <4> QED
        BY <1>10, <2>1, <2>2
    <3> QED
      BY <1>13, <2>2, <3>1
  <2>3. CASE i # Op.page
    <3>1. pages'[i] = pages[i] /\ ~ WritesAt(i)
      BY <1>9, <2>3 DEF WritesAt
    <3> QED
      BY <1>3, <1>4, <2>1, <3>1, LooseAt, NotLess
  <2> QED
    BY <2>2, <2>3
<1> QED
  BY <1>1, <1>2, <1>3, <1>6, <1>7, <1>9, <1>12, <1>14, LooseEnds

-----------------------------------------------------------------------------
\* Deletions.

\* An operation ends that leaves the pages as they are.
LEMMA LooseLeaves ==
    ASSUME LooseInv, hand = "run", Op.code \in {"delete", "delete file"}, HeadKeeps, OpOK(queue[1])',
           UNCHANGED <<flash, pages, swap, gc, phase, latest, writes, timeouts>>, NEW r, Finish(r)
    PROVE  LooseInv'
<1>1. /\ LooseTypes /\ LoosePages /\ LooseOn /\ Spaced /\ ~ Telling
  BY LooseRun
<1>2. QueueOK /\ SpaceOK
  BY <1>1 DEF LooseOn
<1>3. SpaceOK'
  BY <1>1, <1>2, HeadWrites, SpaceStays
<1>4. ~ GcLanded /\ \A i : ~ WritesAt(i)
  BY DEF GcLanded, GcRunning, WritesAt, IsWriteOp
<1>5. \A i \in Index : /\ pages[i].offset <= pages[i].offset
                       /\ pages[i].type # "undefined" => Within(OnPage(i), pages[i].offset)
  BY <1>1, <1>4, LooseAt, NotLess DEF Spaced
<1>6. pages' \in ScanPages /\ pages' = pages
  BY <1>1 DEF LooseTypes
<1> QED
  BY <1>3, <1>5, <1>6, LooseEnds

\* It flags a record, wherever that may lie.
LEMMA LooseFlags ==
    ASSUME LooseInv, hand = "run", Proceeds, Op.code \in {"delete", "delete file"}, HeadKeeps, OpOK(queue[1])',
           UNCHANGED <<flash, swap, gc, phase, latest, writes, timeouts>>,
           NEW a, NEW j, NEW i, FlagDirty(a, j, i)
    PROVE  LooseInv'
<1>1. pages' = [pages EXCEPT ![i].canGc = TRUE] /\ Execute(a, <<WithKey(flash[a], j, "dirty")>>)
  BY DEF FlagDirty
<1>2. PICK q : q = WithKey(flash[a], j, "dirty")
  OBVIOUS
<1>3. PagesStay
  <2>1. pages \in ScanPages
    BY DEF LooseInv, LooseTypes
  <2> QED
    BY <1>1, <2>1, LooseCanGc
<1>4. /\ a \in Phys => q \in LoosePage /\ Gapless(q) /\ q.tag = flash[a].tag
      /\ a \in Phys => \A n \in 1 .. Slots + 1 : Within(flash[a], n) => Within(q, n)
  <2>1. a \in Phys => flash[a] \in LoosePage /\ Gapless(flash[a])
    BY DEF LooseInv, LooseFlash
  <2> QED
    BY <1>2, <2>1, LooseFlag
<1>5. Execute(a, <<q>>) /\ ~ IsWriteOp(Op)
  BY <1>1, <1>2 DEF IsWriteOp
<1> QED
  BY <1>3, <1>4, <1>5, LooseStarts

\* The steps of a deletion.
LEMMA LooseDelete ==
    ASSUME LooseInv, DeleteTimeout \/ DeleteRecord \/ DeleteDone \/ DeleteFile
    PROVE  LooseInv'
<1>1. /\ hand = "run" /\ Op.code \in {"delete", "delete file"}
      /\ UNCHANGED <<flash, swap, gc, phase, latest, writes, timeouts>>
  BY DEF DeleteTimeout, DeleteRecord, DeleteDone, DeleteFile, IsDelete, ram, bounds
<1>2. /\ queue # <<>> /\ Op = queue[1] /\ OpOK(Op) /\ Op \in OpType /\ LooseOn /\ LooseFlash
  BY <1>1, LooseRun
<1>3. QueueOK /\ LooseRoles /\ ~ IsWriteOp(Op)
  BY <1>1, <1>2 DEF LooseOn, IsWriteOp
<1>4. queue' = queue => HeadKeeps /\ OpOK(queue[1])'
  <2> SUFFICES ASSUME queue' = queue PROVE HeadKeeps /\ OpOK(queue[1])'
    OBVIOUS
  <2>1. HeadKeeps
    BY <1>2, <1>3, SameHead
  <2> QED
    BY <1>1, <1>2, <1>3, <2>1 DEF OpOK, IsWriteOp
<1>5. CASE DeleteTimeout \/ DeleteDone
  <2>1. PICK r : Finish(r)
    BY <1>5 DEF DeleteTimeout, DeleteDone
  <2>2. UNCHANGED <<flash, pages, swap, gc, phase, queue, latest, writes, timeouts>>
    BY <1>5 DEF DeleteTimeout, DeleteDone, ram, bounds
  <2> QED
    BY <1>1, <1>4, <2>1, <2>2, LooseLeaves
<1>6. CASE DeleteRecord
  <2>0. Op.code = "delete" /\ Proceeds /\ Op.step = "flag"
    BY <1>6 DEF DeleteRecord
  <2>1. CASE FindById(Op.target) = {}
    <3>1. SetStep("done") /\ Finish("not found") /\ pages' = pages
      BY <1>6, <2>1 DEF DeleteRecord
    <3>2. HeadKeeps /\ queue'[1].step = "done"
      BY <1>2, <1>3, <3>1, StepSet DEF Steps
    <3>3. OpOK(queue[1])'
      BY <1>2, <2>0, <3>2 DEF HeadKeeps, OpOK, IsWriteOp
    <3> QED
      BY <1>1, <3>1, <3>2, <3>3, LooseLeaves
  <2>2. CASE FindById(Op.target) # {}
    <3>1. PICK loc : loc = First(FindById(Op.target))
      OBVIOUS
    <3>2. /\ queue' = [queue EXCEPT ![1].step = "done", ![1].file = RecordAt(loc).file]
          /\ FlagDirty(pages[loc[1]].addr, loc[2], loc[1])
      BY <1>6, <2>2, <3>1 DEF DeleteRecord
    <3>3. loc \in Found
      <4>1. \A x \in Found : x \in Nat \X Nat
        BY PhysFacts, FilledRange DEF Found, Places
      <4>2. FindById(Op.target) \in SUBSET (Nat \X Nat)
        BY <4>1 DEF FindById
      <4> QED
        BY <2>2, <3>1, <4>2, FirstOf DEF FindById
    <3>4. loc[1] \in Index /\ loc[2] \in Places
      BY <3>3 DEF Found, Places
    <3>5. RecordAt(loc).file \in Files \union {NoFile}
      <4>1. flash[pages[loc[1]].addr] \in LoosePage
        BY <1>2, <1>3, <3>4 DEF LooseRoles, LooseFlash
      <4> QED
        BY <3>4, <4>1, LooseConstants DEF RecordAt
    <3>6. HeadKeeps /\ queue'[1].step = "done"
      <4> DEFINE fi == RecordAt(loc).file
                 b == [queue[1] EXCEPT !.step = "done", !.file = fi]
      <4>1. fi \in Files \union {NoFile} /\ queue' = [queue EXCEPT ![1].step = "done", ![1].file = fi]
        BY <3>2, <3>5
      <4> HIDE DEF fi
      <4>2. queue \in Seq(OpType) /\ 1 \in 1 .. Len(queue) /\ queue[1] \in OpType
        BY <1>2, <1>3, OpFacts DEF QueueOK
      <4>3. queue' = [queue EXCEPT ![1] = b]
        BY <4>1, <4>2
      <4>4. /\ b \in OpType /\ b.step = "done" /\ b.code = queue[1].code /\ b.page = queue[1].page
            /\ b.id = queue[1].id /\ b.data = queue[1].data /\ b.key = queue[1].key
            /\ b.target = queue[1].target
        <5> DEFINE P == 0 .. DataPages
        <5>1. OpType = [code : Codes, step : Steps, page : P, id : Nat, data : Nat,
                        file : Files \union {NoFile}, key : Keys \union {"none"}, target : Nat \union {-1}]
          BY DEF OpType
        <5>2. "done" \in Steps
          BY DEF Steps
        <5> HIDE DEF P
        <5> QED
          BY <4>1, <4>2, <5>1, <5>2
      <4> HIDE DEF b
      <4> QED
        BY <1>2, <1>3, <4>3, <4>4, HeadIs
    <3>7. OpOK(queue[1])'
      BY <1>2, <2>0, <3>6 DEF HeadKeeps, OpOK, IsWriteOp
    <3> QED
      BY <1>1, <2>0, <3>2, <3>6, <3>7, LooseFlags
  <2> QED
    BY <2>1, <2>2
<1>7. CASE DeleteFile
  <2>1. Proceeds /\ queue' = queue
    BY <1>7 DEF DeleteFile
  <2>2. CASE FileRecords(Op.file) = {}
    <3>1. Finish("success") /\ pages' = pages
      BY <1>7, <2>2 DEF DeleteFile
    <3> QED
      BY <1>1, <1>4, <2>1, <3>1, LooseLeaves
  <2>3. CASE FileRecords(Op.file) # {}
    <3>1. PICK t : FlagDirty(t[2], t[3], t[1])
      BY <1>7, <2>3 DEF DeleteFile
    <3> QED
      BY <1>1, <1>4, <2>1, <3>1, LooseFlags
  <2> QED
    BY <2>2, <2>3
<1> QED
  BY <1>5, <1>6, <1>7

-----------------------------------------------------------------------------
\* Garbage collection.

\* space is enough when less of a page is used
LEMMA SpaceLower ==
    ASSUME Spaced, QueueOK, SpaceOK,
           \A i \in Index : /\ pages'[i].reserved = pages[i].reserved
                            /\ pages'[i].offset \in Nat /\ pages'[i].offset <= pages[i].offset
                            /\ WritesOn(i)' \subseteq WritesOn(i)
    PROVE  SpaceOK'
<1> SUFFICES ASSUME NEW i \in Index
             PROVE  /\ Cardinality(WritesOn(i)') <= pages'[i].reserved
                    /\ pages'[i].offset + pages'[i].reserved <= Slots + 1
  BY DEF SpaceOK
<1> DEFINE c == Cardinality(WritesOn(i))
           d == Cardinality(WritesOn(i)')
           r == pages[i].reserved
           m == pages[i].offset
           n == pages'[i].offset
<1>1. d <= c /\ d \in Nat /\ c \in Nat
  BY WritesOnFinite, FS_Subset, FS_CardinalityType
<1>2. c <= r /\ m + r <= Slots + 1 /\ r \in Nat /\ m \in Nat /\ n \in Nat /\ n <= m /\ Slots \in Nat
  BY ConstantFacts DEF SpaceOK, Spaced
<1>3. d <= r /\ n + r <= Slots + 1
  <2> HIDE DEF c, d, r, m, n
  <2> QED
    BY <1>1, <1>2
<1> QED
  BY <1>3

\* The collection at the head: what it has reached.
LEMMA LooseCollector ==
    ASSUME LooseInv, Ready("gc")
    PROVE  /\ Working /\ ~ Flying /\ ~ Telling /\ queue # <<>> /\ hand = "run" /\ Op.code = "gc"
           /\ phase = "initialized" /\ Op = queue[1] /\ 1 \in 1 .. Len(queue)
           /\ LooseFlash /\ LooseTypes /\ LooseRoles /\ QueueOK /\ SpaceOK /\ LooseTags /\ LoosePages
           /\ LooseWriting /\ GcReached /\ Spaced
           /\ writes \in Nat /\ timeouts \in Nat /\ Len(queue) <= QueueSize
           /\ \A k \in 1 .. Len(queue) : queue[k].code = "gc" => k = 1
           /\ \A i : ~ WritesAt(i)
           /\ Proceeds /\ ~ gc.resume /\ gc.state # "begin" => GcLanded
           /\ gc.resume \/ ~ Proceeds \/ gc.state = "begin" => ~ GcLanded
<1>1. hand = "run" /\ Op.code = "gc"
  BY DEF Ready
<1>2. /\ Working /\ ~ Flying /\ ~ Telling /\ queue # <<>> /\ phase = "initialized" /\ Op = queue[1]
      /\ LooseFlash /\ LooseTypes /\ LooseOn /\ LoosePages /\ LooseWriting /\ LooseGc /\ Spaced
      /\ writes \in Nat /\ timeouts \in Nat /\ Len(queue) <= QueueSize
  BY <1>1, LooseRun
<1>3. LooseRoles /\ QueueOK /\ SpaceOK /\ LooseTags
  BY <1>2 DEF LooseOn
<1>4. 1 \in 1 .. Len(queue)
  BY <1>2, <1>3, OpFacts
<1>5. \A k \in 1 .. Len(queue) : queue[k].code = "gc" => k = 1
  BY <1>1, <1>2, <1>4 DEF LooseGc, CollectsAt
<1>6. \A i : ~ WritesAt(i)
  BY <1>1 DEF WritesAt, IsWriteOp
<1>7. GcReached
  BY <1>2 DEF LooseGc
<1>8. /\ Proceeds /\ ~ gc.resume /\ gc.state # "begin" => GcLanded
      /\ gc.resume \/ ~ Proceeds \/ gc.state = "begin" => ~ GcLanded
  BY <1>1, <1>2 DEF GcLanded, GcRunning
<1> QED
  BY <1>1, <1>2, <1>3, <1>4, <1>5, <1>6, <1>7, <1>8

\* It starts a flash operation.
LEMMA LooseCollects ==
    ASSUME LooseInv, Ready("gc"), Proceeds, UNCHANGED <<flash, phase, queue, latest, writes, timeouts>>,
           LooseTypes', gc'.state # "begin", ~ gc'.resume, LooseRoles',
           \A i \in Index : /\ pages'[i].type = pages[i].type /\ pages'[i].reserved = pages[i].reserved
                            /\ pages'[i].offset <= pages[i].offset
                            /\ pages[i].type # "undefined" =>
                                  1 <= pages'[i].offset /\ Within(flash[pages'[i].addr], pages'[i].offset),
           \A p \in Phys : flash[p].tag = "swap" => p = SwapAt',
           NEW a \in Phys, NEW st \in Seq(LoosePage), Execute(a, st), Len(st) \in Nat, 1 <= Len(st),
           \A k \in 1 .. Len(st) : /\ Gapless(st[k])
                                   /\ st[k].tag = "swap" => \A p \in Phys : flash[p].tag = "swap" => p = a,
           st[Len(st)].tag = "swap" => a = SwapAt',
           ~ GcLanded' => GcReached', Landing' = a /\ Outcome' = st[Len(st)] => GcOutcome'
    PROVE  LooseInv'
<1>1. /\ queue # <<>> /\ Op.code = "gc" /\ phase = "initialized" /\ Working /\ ~ Telling /\ Op = queue[1]
      /\ LooseFlash /\ QueueOK /\ SpaceOK /\ LooseWriting /\ Spaced
      /\ writes \in Nat /\ timeouts \in Nat /\ Len(queue) <= QueueSize
      /\ \A k \in 1 .. Len(queue) : queue[k].code = "gc" => k = 1
  BY LooseCollector
<1>2. flashing' = [addr |-> a, stages |-> st] /\ result' = "success"
  BY DEF Execute, Proceeds
<1>3. Flying' /\ Working' /\ ~ Telling' /\ hand' = "idle"
  BY <1>1, ExecuteFacts
<1>4. Landing' = a /\ Stages' = st /\ Outcome' = st[Len(st)]
  BY <1>2 DEF Landing, Stages, Outcome
<1>5. Op' = Op /\ ~ GcLanded' /\ GcRunning'
  <2>1. Op' = Op
    BY DEF Op
  <2> QED
    BY <1>1, <1>3, <2>1 DEF GcLanded, GcRunning
<1>6. LooseFlash'
  BY <1>1 DEF LooseFlash
<1>7. LooseStages'
  <2>1. \A k \in 1 .. Len(st) : st[k] \in LoosePage
    OBVIOUS
  <2>2. \A k \in 1 .. Len(st) : Gapless(st[k])'
    BY DEF Gapless, Within
  <2> QED
    BY <1>4, <2>1, <2>2 DEF LooseStages
<1>8. QueueOK'
  BY <1>1 DEF QueueOK, OpOK, Waits, IsWriteOp
<1>9. \A i : WritesOn(i)' \subseteq WritesOn(i)
  BY <1>1, <1>3 DEF WritesOn
<1>10. SpaceOK'
  <2>1. \A i \in Index : pages'[i].offset \in Nat
    BY LooseFields DEF LooseTypes, ScanPages
  <2> QED
    BY <1>1, <1>9, <2>1, SpaceLower
<1>11. LooseTags'
  BY <1>3, <1>4 DEF LooseTags
<1>12. LoosePages'
  <2>1. \A i : ~ WritesAt(i)'
    BY <1>1, <1>5 DEF WritesAt, IsWriteOp
  <2>2. \A i \in Index : OnPage(i)' = flash[pages'[i].addr]
    BY DEF OnPage
  <2> QED
    BY <1>5, <2>1, <2>2 DEF LoosePages
<1>13. LooseWriting'
  <2>1. ~ IsWriteOp(Op)'
    BY <1>1, <1>5 DEF IsWriteOp
  <2>2. \A k \in 1 .. Len(queue') : IsWriteOp(queue[k])' => pages'[queue'[k].page].type = "data"
    <3> SUFFICES ASSUME NEW k \in 1 .. Len(queue'), IsWriteOp(queue[k])'
                 PROVE  pages'[queue'[k].page].type = "data"
      OBVIOUS
    <3>1. k \in 1 .. Len(queue) /\ IsWriteOp(queue[k]) /\ queue'[k] = queue[k]
      BY DEF IsWriteOp
    <3>2. pages[queue[k].page].type = "data" /\ queue[k].page \in Index
      BY <1>1, <3>1 DEF LooseWriting, QueueOK, OpOK
    <3> QED
      BY <3>1, <3>2
  <2> QED
    BY <2>1, <2>2 DEF LooseWriting
<1>14. LooseDeleting'
  BY <1>1, <1>5 DEF LooseDeleting
<1>15. LooseGc'
  <2>1. \A k \in 1 .. Len(queue') : queue'[k].code = "gc" => k = 1
    BY <1>1
  <2>2. GcOutcome'
    BY <1>4
  <2> QED
    BY <1>5, <2>1, <2>2 DEF LooseGc, CollectsAt
<1>16. LooseOn'
  BY <1>8, <1>10, <1>11 DEF LooseOn
<1>17. queue' # <<>> /\ Op'.code # "init" /\ writes' \in Nat /\ timeouts' \in Nat /\ Len(queue') <= QueueSize
       /\ phase' = "initialized"
  BY <1>1, <1>5
<1> QED
  BY <1>2, <1>3, <1>6, <1>7, <1>12, <1>13, <1>14, <1>15, <1>16, <1>17 DEF LooseInv

\* It ends or stops.
LEMMA LooseStops ==
    ASSUME LooseInv, Ready("gc"), UNCHANGED <<flash, pages, swap, phase, queue, latest, writes, timeouts>>,
           gc' \in LooseGcInfo, SwapAt' = SwapAt, ~ GcLanded' => GcReached',
           GcLanded => gc.state # "erase", NEW r, Finish(r)
    PROVE  LooseInv'
<1>1. /\ queue # <<>> /\ Op.code = "gc" /\ phase = "initialized" /\ Working /\ ~ Flying /\ ~ Telling /\ Op = queue[1]
      /\ LooseFlash /\ LooseTypes /\ LooseRoles /\ QueueOK /\ SpaceOK /\ LooseTags /\ LoosePages /\ LooseWriting /\ Spaced
      /\ writes \in Nat /\ timeouts \in Nat /\ Len(queue) <= QueueSize
      /\ \A k \in 1 .. Len(queue) : queue[k].code = "gc" => k = 1
      /\ \A i : ~ WritesAt(i)
  BY LooseCollector
<1>2. ~ Flying' /\ ~ Working' /\ Telling' /\ hand' = "event"
  BY <1>1, FinishFacts
<1>3. Op' = Op /\ ~ GcLanded' /\ ~ GcRunning' /\ \A i : ~ WritesAt(i)'
  <2>1. Op' = Op
    BY DEF Op
  <2> QED
    BY <1>2, <2>1 DEF GcLanded, GcRunning, WritesAt
<1>4. LooseFlash' /\ LooseTypes' /\ LooseStages' /\ LooseRoles'
  BY <1>1, <1>2 DEF LooseFlash, LooseTypes, LooseStages, LooseRoles
<1>5. QueueOK'
  BY <1>1 DEF QueueOK, OpOK, Waits, IsWriteOp
<1>6. \A i : WritesOn(i)' \subseteq WritesOn(i)
  BY <1>1 DEF WritesOn
<1>7. SpaceOK'
  BY <1>1, <1>6, SpaceStays
<1>8. LooseTags'
  BY <1>1, <1>2 DEF LooseTags
<1>9. LoosePages'
  <2>1. \A i \in Index : OnPage(i)' = OnPage(i)
    BY DEF OnPage
  <2> QED
    BY <1>1, <1>3, <2>1 DEF LoosePages
<1>10. LooseWriting'
  BY <1>1, <1>2 DEF LooseWriting, IsWriteOp
<1>11. LooseDeleting'
  BY <1>2 DEF LooseDeleting
<1>12. LooseGc'
  <2>1. \A k \in 1 .. Len(queue') : queue'[k].code = "gc" => k = 1
    BY <1>1
  <2>2. \A k \in 1 .. Len(queue') : ~ (k > 1 /\ queue'[k].code = "gc")
    BY <2>1
  <2> QED
    BY <1>2, <1>3, <2>1, <2>2 DEF LooseGc, CollectsAt
<1>13. LooseOn'
  BY <1>4, <1>5, <1>7, <1>8 DEF LooseOn
<1>14. queue' # <<>> /\ Op'.code # "init" /\ writes' \in Nat /\ timeouts' \in Nat /\ Len(queue') <= QueueSize
       /\ phase' = "initialized" /\ hand' # "idle"
  BY <1>1, <1>2, <1>3
<1> QED
  BY <1>2, <1>4, <1>9, <1>10, <1>11, <1>12, <1>13, <1>14 DEF LooseInv

\* Changes of the variables of a collection and of the swap page.
LEMMA LooseGcState ==
    ASSUME NEW g \in LooseGcInfo, NEW st \in {"copy", "erase", "promote", "discard", "tag"}, NEW h, h = [g EXCEPT !.state = st]
    PROVE  h \in LooseGcInfo /\ h.state = st /\ h.cur = g.cur /\ h.src = g.src /\ h.todo = g.todo /\ h.resume = g.resume
<1> DEFINE R == 0 .. Slots
<1>1. LooseGcInfo = [state : {"begin", "copy", "erase", "promote", "discard", "tag"}, cur : Index,
                     src : R, todo : SUBSET Index, resume : BOOLEAN]
  BY DEF LooseGcInfo
<1>2. 0 .. Slots = R
  OBVIOUS
<1> HIDE DEF R
<1> QED
  BY <1>1, <1>2

\* A collection takes up what an earlier one left.
LEMMA LooseGcResumed ==
    ASSUME NEW g \in LooseGcInfo,  NEW h, h = [g EXCEPT !.resume = FALSE]
    PROVE  h \in LooseGcInfo /\ h.state = g.state /\ h.cur = g.cur /\ h.src = g.src /\ h.todo = g.todo /\ ~ h.resume
<1> DEFINE R == 0 .. Slots
<1>1. LooseGcInfo = [state : {"begin", "copy", "erase", "promote", "discard", "tag"}, cur : Index,
                     src : R, todo : SUBSET Index, resume : BOOLEAN]
  BY DEF LooseGcInfo
<1>2. 0 .. Slots = R
  OBVIOUS
<1> HIDE DEF R
<1> QED
  BY <1>1, <1>2

\* The write offset of the swap page is set.
LEMMA LooseSwapSet ==
    ASSUME swap \in [addr : Phys \union {NoPage}, offset : ScanOffset], NEW n \in 1 .. Slots + 1,
           swap' = [swap EXCEPT !.offset = n]
    PROVE  /\ swap' \in [addr : Phys \union {NoPage}, offset : ScanOffset]
           /\ swap'.addr = swap.addr /\ swap'.offset = n
<1>1. n \in ScanOffset
  BY ConstantFacts DEF ScanOffset
<1> QED
  BY <1>1

(* What a collection may start from: the page that it collects is a data    *)
(* page, the swap page is filled up to offset n.                            *)
LooseFrom(g, n) ==
    /\ g \in LooseGcInfo /\ ~ g.resume
    /\ \A i \in g.todo : pages[i].type = "data"
    /\ pages[g.cur].type = "data"
    /\ n \in 1 .. Slots + 1 /\ Within(OnSwap, n)
    /\ SwapAt = swap.addr /\ ~ (GcLanded /\ gc.state = "erase")

\* what a data page holds then
LEMMA LooseCollected ==
    ASSUME LooseInv, Ready("gc"), NEW g, NEW n, LooseFrom(g, n)
    PROVE  /\ g.cur \in Index /\ g.src \in Nat /\ g.todo \subseteq Index
           /\ swap.addr \in Phys /\ OnSwap \in LoosePage /\ pages[g.cur].addr \in Phys /\ pages[g.cur].addr # swap.addr
           /\ flash[pages[g.cur].addr] \in LoosePage
           /\ pages[g.cur].offset \in 1 .. Slots + 1 /\ Within(flash[pages[g.cur].addr], pages[g.cur].offset)
           /\ \A i \in Index : pages[i].type # "undefined" =>
                 1 <= pages[i].offset /\ Within(flash[pages[i].addr], pages[i].offset)
<1>1. /\ LooseFlash /\ LooseTypes /\ LooseRoles /\ LoosePages /\ \A i : ~ WritesAt(i)
  BY LooseCollector
<1>2. g.cur \in Index /\ g.src \in Nat /\ g.todo \subseteq Index
  BY LooseFields DEF LooseFrom
<1>3. \A i \in Index : pages[i].type # "undefined" =>
         1 <= pages[i].offset /\ Within(flash[pages[i].addr], pages[i].offset)
  <2> SUFFICES ASSUME NEW i \in Index, pages[i].type # "undefined"
               PROVE  1 <= pages[i].offset /\ Within(flash[pages[i].addr], pages[i].offset)
    OBVIOUS
  <2>1. ~ (GcLanded /\ gc.state = "erase" /\ i = gc.cur)
    BY DEF LooseFrom
  <2>2. 1 <= pages[i].offset /\ Within(OnPage(i), pages[i].offset)
    BY <1>1, <2>1 DEF LoosePages
  <2> QED
    BY <2>2 DEF OnPage
<1>4. pages[g.cur].offset \in 1 .. Slots + 1
  <2>1. pages[g.cur].offset \in 0 .. Slots + 1 /\ 1 <= pages[g.cur].offset
    BY <1>1, <1>2, <1>3, LooseFields DEF LooseTypes, ScanPages, LooseFrom
  <2> QED
    BY <2>1, ConstantFacts
<1>5. flash \in [Phys -> LoosePage] /\ swap.addr \in Phys /\ pages[g.cur].addr \in Phys /\ pages[g.cur].addr # swap.addr
  BY <1>1, <1>2 DEF LooseFlash, LooseRoles
<1> QED
  BY <1>2, <1>3, <1>4, <1>5 DEF LooseFrom, OnSwap

\* A record is copied to the swap page.
LEMMA LooseCopies ==
    ASSUME LooseInv, Ready("gc"), Proceeds, UNCHANGED <<flash, pages, phase, queue, latest, writes, timeouts>>,
           NEW g, NEW s \in Places, NEW n, LooseFrom(g, n), n <= s, s < pages[g.cur].offset,
           CopyRecord(g, s, n)
    PROVE  LooseInv'
<1>1. /\ LooseFlash /\ LooseTypes /\ LooseRoles /\ LooseTags /\ Spaced
  BY LooseCollector
<1>2. /\ g.cur \in Index /\ g.todo \subseteq Index
      /\ swap.addr \in Phys /\ OnSwap \in LoosePage /\ pages[g.cur].addr \in Phys
      /\ flash[pages[g.cur].addr] \in LoosePage
      /\ pages[g.cur].offset \in 1 .. Slots + 1 /\ Within(flash[pages[g.cur].addr], pages[g.cur].offset)
      /\ \A i \in Index : pages[i].type # "undefined" =>
            1 <= pages[i].offset /\ Within(flash[pages[i].addr], pages[i].offset)
  BY LooseCollected
<1>3. /\ g \in LooseGcInfo /\ ~ g.resume /\ pages[g.cur].type = "data" /\ n \in 1 .. Slots + 1
      /\ Within(OnSwap, n) /\ SwapAt = swap.addr /\ \A i \in g.todo : pages[i].type = "data"
  BY DEF LooseFrom
<1>4. PICK c : c = flash[pages[g.cur].addr].slot[s]
  OBVIOUS
<1>5. c \in LooseCell /\ c.key # "none"
  BY <1>2, <1>4, LooseConstants DEF Within
<1>6. PICK st : st = CopyStages(OnSwap, n, c)
  OBVIOUS
<1>7. /\ st \in Seq(LoosePage) /\ Len(st) = 4
      /\ \A k \in 1 .. 4 : st[k] \in LoosePage /\ st[k].tag = OnSwap.tag /\ Within(st[k], n + 1)
  BY <1>2, <1>3, <1>5, <1>6, LooseCopy
<1>8. /\ gc' = [g EXCEPT !.state = "copy", !.src = s]
      /\ swap' = [swap EXCEPT !.offset = n]
      /\ Execute(swap.addr, st)
  BY <1>4, <1>6 DEF CopyRecord, OnSwap
<1>9. gc' \in LooseGcInfo /\ gc'.state = "copy" /\ gc'.cur = g.cur /\ gc'.src = s /\ gc'.todo = g.todo /\ ~ gc'.resume
  <2>1. s \in 0 .. Slots
    BY FilledRange, ConstantFacts DEF Places
  <2> DEFINE R == 0 .. Slots
  <2>2. LooseGcInfo = [state : {"begin", "copy", "erase", "promote", "discard", "tag"}, cur : Index,
                       src : R, todo : SUBSET Index, resume : BOOLEAN]
    BY DEF LooseGcInfo
  <2>3. s \in R
    BY <2>1
  <2> HIDE DEF R
  <2> QED
    BY <1>3, <1>8, <2>2, <2>3
<1>10. swap' \in [addr : Phys \union {NoPage}, offset : ScanOffset] /\ swap'.addr = swap.addr /\ swap'.offset = n
  BY <1>1, <1>3, <1>8, LooseSwapSet DEF LooseTypes
<1>11. LooseTypes' /\ LooseRoles'
  <2>1. LooseRoles'
    BY <1>1, <1>3, <1>10 DEF LooseRoles
  <2> QED
    BY <1>1, <1>9, <1>10, <2>1 DEF LooseTypes
<1>12. SwapAt' = swap.addr /\ \A p \in Phys : flash[p].tag = "swap" => p = swap.addr
  <2>1. SwapAt' = swap.addr
    BY <1>9, <1>10 DEF SwapAt
  <2>2. ~ Flying
    BY LooseCollector
  <2> QED
    BY <1>1, <1>3, <2>1, <2>2 DEF LooseTags
<1>13. \A k \in 1 .. Len(st) : /\ Gapless(st[k])
                               /\ st[k].tag = "swap" => \A p \in Phys : flash[p].tag = "swap" => p = swap.addr
  BY <1>3, <1>7, <1>12, WithinFacts
<1>14. \A i \in Index : pages[i].offset <= pages[i].offset
  BY <1>1, NotLess DEF Spaced
<1>15. OnSwap' = OnSwap
  BY <1>10 DEF OnSwap
<1>16. ~ GcLanded' => GcReached'
  BY <1>3, <1>9, <1>10, <1>15 DEF GcReached
<1>17. Landing' = swap.addr /\ Outcome' = st[Len(st)] => GcOutcome'
  BY <1>7, <1>9, <1>10 DEF GcOutcome, Within
<1>18. pages' = pages /\ Len(st) \in Nat /\ 1 <= Len(st) /\ gc'.state # "begin"
  BY <1>7, <1>9
<1> QED
  BY <1>2, <1>7, <1>8, <1>9, <1>11, <1>12, <1>13, <1>14, <1>16, <1>17, <1>18, LooseCollects

\* The page is erased, or its copy given up.
LEMMA LooseErases ==
    ASSUME LooseInv, Ready("gc"), Proceeds, UNCHANGED <<flash, pages, phase, queue, latest, writes, timeouts>>,
           NEW g, NEW n, LooseFrom(g, n), n <= pages[g.cur].offset, ErasePage(g, n)
    PROVE  LooseInv'
<1>1. /\ LooseFlash /\ LooseTypes /\ LooseRoles /\ LooseTags /\ Spaced
  BY LooseCollector
<1>2. /\ g.cur \in Index /\ g.todo \subseteq Index
      /\ swap.addr \in Phys /\ pages[g.cur].addr \in Phys
      /\ \A i \in Index : pages[i].type # "undefined" =>
            1 <= pages[i].offset /\ Within(flash[pages[i].addr], pages[i].offset)
  BY LooseCollected
<1>3. /\ g \in LooseGcInfo /\ ~ g.resume /\ pages[g.cur].type = "data" /\ n \in 1 .. Slots + 1 /\ 1 \in 1 .. Slots + 1
      /\ Within(OnSwap, n) /\ SwapAt = swap.addr /\ \A i \in g.todo : pages[i].type = "data"
  BY FilledRange DEF LooseFrom
<1>4. PICK st, a, m : /\ st = (IF pages[g.cur].open = 0 THEN "erase" ELSE "discard")
                      /\ a = (IF pages[g.cur].open = 0 THEN pages[g.cur].addr ELSE swap.addr)
                      /\ m = (IF pages[g.cur].open = 0 THEN n ELSE 1)
  OBVIOUS
<1>5. gc' = [g EXCEPT !.state = st] /\ swap' = [swap EXCEPT !.offset = m] /\ Execute(a, <<Blank>>)
  BY <1>4 DEF ErasePage
<1>6. st \in {"erase", "discard"} /\ a \in Phys /\ m \in 1 .. Slots + 1
      /\ (st = "erase" => m = n /\ a = pages[g.cur].addr) /\ (st = "discard" => m = 1 /\ a = swap.addr)
  BY <1>2, <1>3, <1>4
<1>7. gc' \in LooseGcInfo /\ gc'.state = st /\ gc'.cur = g.cur /\ gc'.src = g.src /\ gc'.todo = g.todo /\ ~ gc'.resume
  <2>1. st \in {"copy", "erase", "promote", "discard", "tag"} /\ g \in LooseGcInfo
    BY <1>3, <1>6
  <2> QED
    BY <1>3, <1>5, <2>1, LooseGcState
<1>8. swap' \in [addr : Phys \union {NoPage}, offset : ScanOffset] /\ swap'.addr = swap.addr /\ swap'.offset = m
  BY <1>1, <1>5, <1>6, LooseSwapSet DEF LooseTypes
<1>9. LooseTypes' /\ LooseRoles'
  <2>1. LooseRoles'
    BY <1>1, <1>6, <1>8 DEF LooseRoles
  <2> QED
    BY <1>1, <1>7, <1>8, <2>1 DEF LooseTypes
<1>10. SwapAt' = swap.addr /\ \A p \in Phys : flash[p].tag = "swap" => p = swap.addr
  <2>1. SwapAt' = swap.addr
    BY <1>6, <1>7, <1>8 DEF SwapAt
  <2>2. ~ Flying
    BY LooseCollector
  <2> QED
    BY <1>1, <1>3, <2>1, <2>2 DEF LooseTags
<1>11. PICK s : s = <<Blank>>
  OBVIOUS
<1>12. /\ s \in Seq(LoosePage) /\ Len(s) = 1 /\ s[1] = Blank
       /\ \A k \in 1 .. Len(s) : Gapless(s[k]) /\ s[k].tag # "swap"
  BY <1>11, LooseBlank
<1>13. \A i \in Index : pages[i].offset <= pages[i].offset
  BY <1>1, NotLess DEF Spaced
<1>14. OnSwap' = OnSwap
  BY <1>8 DEF OnSwap
<1>15. ~ GcLanded' => GcReached'
  BY <1>3, <1>6, <1>7, <1>8, <1>14 DEF GcReached
<1>16. Landing' = a /\ Outcome' = s[Len(s)] => GcOutcome'
  BY <1>6, <1>7, <1>8, <1>12, LooseBlank DEF GcOutcome, Within
<1>17. pages' = pages /\ Len(s) \in Nat /\ 1 <= Len(s) /\ gc'.state # "begin" /\ s[Len(s)].tag # "swap"
       /\ Execute(a, s)
  BY <1>5, <1>6, <1>7, <1>11, <1>12
<1> QED
  BY <1>2, <1>6, <1>7, <1>9, <1>10, <1>12, <1>13, <1>15, <1>16, <1>17, LooseCollects

\* The next record of the page is looked for.
LEMMA LooseFindNext ==
    ASSUME NEW a, NEW n \in 1 .. Slots + 1, Within(flash[a], n), NEW s \in Nat, FindNext(a, s) # 0
    PROVE  FindNext(a, s) \in Places /\ s < FindNext(a, s) /\ FindNext(a, s) < n
<1> DEFINE S == {j \in Records(flash[a]) : j > s}
<1>1. FindNext(a, s) = IF S = {} THEN 0 ELSE Min(S)
  BY DEF FindNext
<1>2. Records(flash[a]) \subseteq Places /\ \A j \in Records(flash[a]) : j < n
  BY LooseOffset
<1>3. S \in SUBSET Nat /\ S # {}
  BY <1>1, <1>2, FilledRange
<1>4. Min(S) \in S
  <2> HIDE DEF S
  <2> QED
    BY <1>3, MinOf
<1>5. FindNext(a, s) \in S
  BY <1>1, <1>3, <1>4
<1>6. \A j \in S : j \in Places /\ s < j /\ j < n
  <2> SUFFICES ASSUME NEW j \in S PROVE j \in Places /\ s < j /\ j < n
    OBVIOUS
  <2>1. j \in Places /\ j > s /\ j < n
    BY <1>2
  <2>2. j \in Nat
    BY <2>1, FilledRange
  <2> QED
    BY <2>1, <2>2
<1> QED
  BY <1>5, <1>6

\* gc_record_find_next: a record behind the last one, or none.
LEMMA LooseFinds ==
    ASSUME LooseInv, Ready("gc"), Proceeds, UNCHANGED <<flash, pages, phase, queue, latest, writes, timeouts>>,
           NEW g, NEW n, LooseFrom(g, n), n <= g.src + 1, n <= pages[g.cur].offset, FindRecord(g, n)
    PROVE  LooseInv'
<1>1. /\ g.cur \in Index /\ g.src \in Nat /\ pages[g.cur].offset \in 1 .. Slots + 1
      /\ Within(flash[pages[g.cur].addr], pages[g.cur].offset)
  BY LooseCollected
<1>2. PICK s : s = FindNext(pages[g.cur].addr, g.src)
  OBVIOUS
<1>3. CASE s # 0
  <2>1. CopyRecord(g, s, n)
    BY <1>2, <1>3 DEF FindRecord
  <2>2. s \in Places /\ g.src < s /\ s < pages[g.cur].offset
    BY <1>1, <1>2, <1>3, LooseFindNext
  <2>3. n <= s
    <3>1. n \in Nat /\ s \in Nat
      BY <2>2, FilledRange, ConstantFacts DEF LooseFrom
    <3> QED
      BY <1>1, <2>2, <3>1
  <2> QED
    BY <2>1, <2>2, <2>3, LooseCopies
<1>4. CASE s = 0
  <2>1. ErasePage(g, n)
    BY <1>2, <1>4 DEF FindRecord
  <2> QED
    BY <2>1, LooseErases
<1> QED
  BY <1>3, <1>4

\* The next page that is worth it is collected, if there is one.
LEMMA LooseNextPage ==
    ASSUME LooseInv, Ready("gc"), Proceeds, UNCHANGED <<flash, pages, phase, queue, latest, writes, timeouts>>,
           NEW g \in LooseGcInfo, ~ g.resume, g.src = 0, \A i \in g.todo : pages[i].type = "data",
           gc.state \in {"begin", "tag"}, ~ gc.resume, NextPage(g)
    PROVE  LooseInv'
<1>1. /\ LooseTypes /\ GcReached /\ Spaced /\ LoosePages /\ \A i : ~ WritesAt(i)
      /\ GcIdle \in LooseGcInfo
  BY LooseCollector, LooseFields
<1>2. swap.offset = 1 /\ Within(OnSwap, 1) /\ SwapAt = swap.addr
  BY <1>1 DEF GcReached, SwapAt
<1> DEFINE C == {i \in g.todo : pages[i].open = 0 /\ pages[i].canGc}
<1>3. CASE C = {}
  <2>1. gc' = [GcIdle EXCEPT !.resume = g.resume] /\ Finish("success") /\ swap' = swap
    BY <1>3 DEF NextPage
  <2>2. g.resume = FALSE
    BY LooseFields
  <2>3. gc' = GcIdle
    BY <2>1, <2>2 DEF GcIdle
  <2>4. gc' \in LooseGcInfo /\ gc'.state = "begin" /\ gc'.todo = {} /\ gc'.src = 0
    BY <1>1, <2>3 DEF GcIdle
  <2>5. SwapAt' = SwapAt /\ OnSwap' = OnSwap
    BY <1>2, <2>1, <2>4 DEF SwapAt, OnSwap
  <2>6. ~ GcLanded' => GcReached'
    BY <1>2, <2>1, <2>4, <2>5 DEF GcReached
  <2>7. gc.state # "erase"
    OBVIOUS
  <2> QED
    BY <2>1, <2>4, <2>5, <2>6, <2>7, LooseStops
<1>4. CASE C # {}
  <2>1. Min(C) \in C
    <3>1. C \in SUBSET Nat
      BY LooseFields, PhysFacts
    <3> HIDE DEF C
    <3> QED
      BY <1>4, <3>1, MinOf
  <2>2. PICK m \in Index : m = Min(C) /\ m \in g.todo
    BY <2>1, LooseFields
  <2>3. PICK S \in SUBSET Index : S = {i \in g.todo : i > m}
    BY LooseFields
  <2>4. PICK h : h = [g EXCEPT !.cur = m, !.todo = S]
    OBVIOUS
  <2>5. h \in LooseGcInfo /\ h.cur = m /\ h.src = 0 /\ h.todo = S /\ ~ h.resume
    <3> DEFINE R == 0 .. Slots
    <3>1. LooseGcInfo = [state : {"begin", "copy", "erase", "promote", "discard", "tag"}, cur : Index,
                         src : R, todo : SUBSET Index, resume : BOOLEAN]
      BY DEF LooseGcInfo
    <3> HIDE DEF R, C
    <3> QED
      BY <2>4, <3>1
  <2>6. FindRecord(h, swap.offset)
    BY <1>4, <2>2, <2>3, <2>4 DEF NextPage
  <2>7. LooseFrom(h, 1)
    BY <1>2, <2>2, <2>3, <2>5, FilledRange DEF LooseFrom
  <2>8. 1 <= pages[m].offset
    BY <1>1, <2>2 DEF LoosePages
  <2>9. 1 <= h.src + 1
    BY <2>5
  <2> QED
    BY <1>2, <2>5, <2>6, <2>7, <2>8, <2>9, LooseFinds
<1> QED
  BY <1>3, <1>4

\* A collection begins, or takes its next page.
LEMMA LooseGcBegins == ASSUME LooseInv, GcBegin \/ GcNextPage PROVE LooseInv'
<1>1. /\ Ready("gc") /\ Proceeds /\ gc.state \in {"begin", "tag"} /\ ~ gc.resume
      /\ UNCHANGED <<flash, pages, phase, queue, latest, writes, timeouts>>
  BY DEF GcBegin, GcNextPage, GcStep, bounds
<1>2. LooseTypes /\ GcReached
  BY <1>1, LooseCollector
<1>3. gc \in LooseGcInfo /\ gc.src = 0 /\ \A i \in gc.todo : pages[i].type = "data"
  BY <1>1, <1>2 DEF LooseTypes, GcReached
<1>4. CASE GcNextPage
  <2>1. NextPage(gc)
    BY <1>4 DEF GcNextPage
  <2> QED
    BY <1>1, <1>3, <2>1, LooseNextPage
<1>5. CASE GcBegin
  <2>1. PICK S \in SUBSET Index : S = {i \in Index : pages[i].type = "data"}
    OBVIOUS
  <2>2. PICK g : g = [gc EXCEPT !.cur = 1, !.todo = S]
    OBVIOUS
  <2>3. g \in LooseGcInfo /\ g.src = 0 /\ g.todo = S /\ ~ g.resume
    <3>1. PICK m \in Index : m = 1
      BY PhysFacts
    <3>2. g = [gc EXCEPT !.cur = m, !.todo = S] /\ gc \in LooseGcInfo
      BY <1>3, <2>2, <3>1
    <3> DEFINE R == 0 .. Slots
    <3>3. LooseGcInfo = [state : {"begin", "copy", "erase", "promote", "discard", "tag"}, cur : Index,
                         src : R, todo : SUBSET Index, resume : BOOLEAN]
      BY DEF LooseGcInfo
    <3> HIDE DEF R
    <3> QED
      BY <1>1, <1>3, <3>2, <3>3
  <2>4. NextPage(g)
    BY <1>5, <2>1, <2>2 DEF GcBegin
  <2> QED
    BY <1>1, <2>1, <2>3, <2>4, LooseNextPage
<1> QED
  BY <1>4, <1>5

\* A record has been copied: the next one, or the page is erased.
LEMMA LooseGcCopied == ASSUME LooseInv, GcFindNext PROVE LooseInv'
<1>1. /\ Ready("gc") /\ Proceeds /\ gc.state = "copy" /\ ~ gc.resume /\ FindRecord(gc, swap.offset + 1)
      /\ UNCHANGED <<flash, pages, phase, queue, latest, writes, timeouts>>
  BY DEF GcFindNext, GcStep, bounds
<1>2. LooseTypes /\ LooseRoles /\ GcReached /\ GcLanded
  BY <1>1, LooseCollector
<1>3. /\ gc.src \in Places /\ swap.offset <= gc.src /\ gc.src < pages[gc.cur].offset
      /\ Within(OnSwap, swap.offset + 1) /\ pages[gc.cur].type = "data"
      /\ \A i \in gc.todo : pages[i].type = "data"
  BY <1>1, <1>2 DEF GcReached
<1> DEFINE n == swap.offset + 1
<1>4. n \in 1 .. Slots + 1 /\ n <= gc.src + 1 /\ n <= pages[gc.cur].offset
  <2> DEFINE o == swap.offset
             s == gc.src
             e == pages[gc.cur].offset
  <2>1. o \in Nat /\ 1 <= o /\ e \in Nat /\ s \in 1 .. Slots /\ Slots \in Nat
    <3>1. gc.cur \in Index
      BY <1>2, LooseFields DEF LooseTypes
    <3> QED
      BY <1>2, <1>3, <3>1, LooseFields, ConstantFacts DEF LooseTypes, ScanPages, ScanOffset, LooseRoles, Places
  <2>2. o <= s /\ s < e
    BY <1>3
  <2> HIDE DEF o, s, e
  <2>3. o + 1 \in 1 .. Slots + 1 /\ o + 1 <= s + 1 /\ o + 1 <= e
    BY <2>1, <2>2
  <2> QED
    BY <2>3 DEF o, s, e
<1>5. LooseFrom(gc, n)
  BY <1>1, <1>2, <1>3, <1>4 DEF LooseFrom, LooseTypes, SwapAt
<1>6. FindRecord(gc, n)
  BY <1>1
<1> HIDE DEF n
<1> QED
  BY <1>1, <1>4, <1>5, <1>6, LooseFinds

\* what was left off is taken up again
LEMMA LooseGcAgain == ASSUME LooseInv, GcCopyAgain \/ GcEraseAgain PROVE LooseInv'
<1>1. /\ Ready("gc") /\ Proceeds /\ gc.state \in {"copy", "erase"} /\ gc.resume
      /\ UNCHANGED <<flash, pages, phase, queue, latest, writes, timeouts>>
  BY DEF GcCopyAgain, GcEraseAgain, GcAgain, bounds
<1>2. LooseTypes /\ LooseRoles /\ GcReached /\ ~ GcLanded /\ gc \in LooseGcInfo
  BY <1>1, LooseCollector DEF LooseTypes
<1>3. /\ pages[gc.cur].type = "data" /\ Within(OnSwap, swap.offset)
      /\ \A i \in gc.todo : pages[i].type = "data"
      /\ gc.state = "copy" => gc.src \in Places /\ swap.offset <= gc.src /\ gc.src < pages[gc.cur].offset
      /\ gc.state = "erase" => swap.offset <= pages[gc.cur].offset
  BY <1>1, <1>2 DEF GcReached
<1>4. PICK g : g = Resumed
  OBVIOUS
<1>5. g \in LooseGcInfo /\ g.state = gc.state /\ g.cur = gc.cur /\ g.src = gc.src /\ g.todo = gc.todo /\ ~ g.resume
  BY <1>2, <1>4, LooseGcResumed DEF Resumed
<1>6. swap.offset \in 1 .. Slots + 1
  <2>1. swap.offset \in 0 .. Slots + 1 /\ 1 <= swap.offset
    BY <1>2 DEF LooseTypes, ScanOffset, LooseRoles
  <2> QED
    BY <2>1, ConstantFacts
<1>7. LooseFrom(g, swap.offset)
  BY <1>1, <1>2, <1>3, <1>5, <1>6 DEF LooseFrom, SwapAt
<1>8. CASE GcCopyAgain
  <2>1. gc.state = "copy" /\ CopyRecord(g, gc.src, swap.offset)
    BY <1>4, <1>8 DEF GcCopyAgain, GcAgain
  <2>2. gc.src \in Places /\ swap.offset <= gc.src /\ gc.src < pages[g.cur].offset
    BY <1>3, <1>5, <2>1
  <2> QED
    BY <1>1, <1>7, <2>1, <2>2, LooseCopies
<1>9. CASE GcEraseAgain
  <2>1. gc.state = "erase" /\ ErasePage(g, swap.offset)
    BY <1>4, <1>9 DEF GcEraseAgain, GcAgain
  <2>2. swap.offset <= pages[g.cur].offset
    BY <1>3, <1>5, <2>1
  <2> QED
    BY <1>1, <1>7, <2>1, <2>2, LooseErases
<1> QED
  BY <1>8, <1>9

\* it stops where no step goes on
LEMMA LooseGcStops == ASSUME LooseInv, GcTimeout \/ GcDiscardAgain PROVE LooseInv'
<1>1. /\ Ready("gc") /\ UNCHANGED <<flash, pages, swap, phase, queue, latest, writes, timeouts>>
  BY DEF GcTimeout, GcDiscardAgain, GcAgain, ram, bounds
<1>2. LooseTypes /\ GcReached
  BY <1>1, LooseCollector
<1>3. PICK r : Finish(r)
  BY DEF GcTimeout, GcDiscardAgain
<1>4. ~ GcLanded
  <2>1. gc.resume \/ ~ Proceeds
    BY DEF GcTimeout, GcDiscardAgain, GcAgain
  <2> QED
    BY <1>1, <2>1, LooseCollector
<1>5. CASE GcTimeout
  <2>1. gc' = gc
    BY <1>5 DEF GcTimeout, ram
  <2>2. SwapAt' = SwapAt /\ OnSwap' = OnSwap /\ gc' \in LooseGcInfo
    BY <1>1, <1>2, <2>1 DEF SwapAt, OnSwap, LooseTypes
  <2>3. ~ GcLanded' => GcReached'
    BY <1>1, <1>2, <1>4, <2>1, <2>2 DEF GcReached
  <2> QED
    BY <1>1, <1>3, <1>4, <2>2, <2>3, LooseStops
<1>6. CASE GcDiscardAgain
  <2>1. gc.state = "discard" /\ gc' = Resumed
    BY <1>6 DEF GcDiscardAgain, GcAgain
  <2>2. /\ gc' \in LooseGcInfo /\ gc'.state = gc.state /\ gc'.cur = gc.cur /\ gc'.todo = gc.todo
    BY <1>2, <2>1, LooseGcResumed DEF Resumed, LooseTypes
  <2>3. SwapAt' = SwapAt /\ OnSwap' = OnSwap
    BY <1>1, <2>1, <2>2 DEF SwapAt, OnSwap
  <2>4. ~ GcLanded' => GcReached'
    BY <1>1, <1>2, <1>4, <2>1, <2>2, <2>3 DEF GcReached
  <2> QED
    BY <1>1, <1>3, <1>4, <2>2, <2>3, <2>4, LooseStops
<1> QED
  BY <1>5, <1>6

\* The copy takes the place of the page.
LEMMA LooseMoved ==
    ASSUME pages \in ScanPages, NEW i \in Index, NEW a \in Phys, NEW o \in ScanOffset,
           \/ pages' = [pages EXCEPT ![i].addr = a, ![i].offset = o, ![i].canGc = FALSE]
           \/ pages' = [pages EXCEPT ![i].addr = a, ![i].offset = o, ![i].type = "data"]
    PROVE  /\ pages' \in ScanPages /\ pages'[i].addr = a /\ pages'[i].offset = o
           /\ pages'[i].reserved = pages[i].reserved /\ pages'[i].type \in {pages[i].type, "data"}
           /\ \A j \in Index : j # i => pages'[j] = pages[j]
<1> DEFINE R == 0 .. Slots
<1>1. ScanInfo = [type : {"data", "erased", "undefined"}, addr : Phys \union {NoPage}, offset : ScanOffset, reserved : R,
                  open : Nat, canGc : BOOLEAN]
  BY DEF ScanInfo, ScanOffset
<1>2. pages[i] \in ScanInfo
  BY DEF ScanPages
<1> HIDE DEF R
<1>3. PICK q : /\ \/ q = [pages[i] EXCEPT !.addr = a, !.offset = o, !.canGc = FALSE]
                  \/ q = [pages[i] EXCEPT !.addr = a, !.offset = o, !.type = "data"]
               /\ pages' = [pages EXCEPT ![i] = q]
  BY DEF ScanPages
<1>4. q \in ScanInfo /\ q.addr = a /\ q.offset = o /\ q.reserved = pages[i].reserved
      /\ (q.type = pages[i].type \/ q.type = "data")
  <2>1. CASE q = [pages[i] EXCEPT !.addr = a, !.offset = o, !.canGc = FALSE]
    BY <1>1, <1>2, <2>1
  <2>2. CASE q = [pages[i] EXCEPT !.addr = a, !.offset = o, !.type = "data"]
    BY <1>1, <1>2, <2>2
  <2> QED
    BY <1>3, <2>1, <2>2
<1> QED
  BY <1>3, <1>4 DEF ScanPages

\* A page and a write offset make a swap page.
LEMMA LooseSwapPair ==
    ASSUME NEW a \in Phys, NEW o \in ScanOffset, NEW s, s = [addr |-> a, offset |-> o]
    PROVE  s \in [addr : Phys \union {NoPage}, offset : ScanOffset] /\ s.addr = a /\ s.offset = o
OBVIOUS

\* the stages of a tag that is written to a page
LEMMA LooseTagged ==
    ASSUME LooseFlash, NEW a \in Phys, NEW t \in {"swap", "data"}, NEW st, st = TagStages(flash[a], t),
           t = "swap" => \A p \in Phys : flash[p].tag = "swap" => p = a
    PROVE  /\ st \in Seq(LoosePage) /\ Len(st) \in Nat /\ 1 <= Len(st) /\ Len(st) = 2
           /\ \A k \in 1 .. Len(st) : /\ st[k] \in LoosePage /\ Gapless(st[k])
                                      /\ st[k].tag = "swap" => \A p \in Phys : flash[p].tag = "swap" => p = a
           /\ \A n : Within(flash[a], n) => Within(st[Len(st)], n)
           /\ t = "data" => st[Len(st)].tag # "swap"
<1>1. flash[a] \in LoosePage /\ OneSwap(flash) /\ Gapless(flash[a])
  BY DEF LooseFlash
<1>2. /\ st \in Seq(LoosePage) /\ Len(st) = 2
      /\ \A k \in 1 .. 2 : /\ st[k] \in LoosePage /\ st[k].slot = flash[a].slot
                           /\ st[k].tag = "swap" => flash[a].tag = "swap" \/ t = "swap"
      /\ t = "data" => st[2].tag = "data"
  <2> HIDE DEF LooseFlash
  <2>1. TagStages(flash[a], t) \in Seq(LoosePage) /\ Len(TagStages(flash[a], t)) = 2
    BY <1>1, LooseTag
  <2>2. \A k \in 1 .. 2 : /\ TagStages(flash[a], t)[k] \in LoosePage
                          /\ TagStages(flash[a], t)[k].slot = flash[a].slot
                          /\ TagStages(flash[a], t)[k].tag = "swap" => flash[a].tag = "swap" \/ (k = 2 /\ t = "swap")
    BY <1>1, LooseTag
  <2>3. t = "data" => TagStages(flash[a], t)[2].tag = "data"
    BY <1>1, LooseTag
  <2> QED
    BY <2>1, <2>2, <2>3
<1>3. \A k \in 1 .. 2 : Gapless(st[k]) /\ \A n : Within(flash[a], n) => Within(st[k], n)
  BY <1>1, <1>2, WithinFacts DEF Gapless
<1>4. \A k \in 1 .. 2 : st[k].tag = "swap" => \A p \in Phys : flash[p].tag = "swap" => p = a
  BY <1>1, <1>2 DEF OneSwap
<1>5. Len(st) = 2 /\ Len(st) \in Nat /\ 1 <= Len(st) /\ 2 \in 1 .. 2
  BY <1>2
<1>6. /\ \A n : Within(flash[a], n) => Within(st[2], n)
      /\ t = "data" => st[2].tag # "swap"
  BY <1>2, <1>3, <1>5
<1> QED
  BY <1>2, <1>3, <1>4, <1>5, <1>6

\* the stages of the tag of a data page
LEMMA LooseTaggedData ==
    ASSUME LooseFlash, NEW a \in Phys, NEW st, st = TagStages(flash[a], "data")
    PROVE  /\ st \in Seq(LoosePage) /\ Len(st) \in Nat /\ 1 <= Len(st)
           /\ \A k \in 1 .. Len(st) : /\ Gapless(st[k])
                                      /\ st[k].tag = "swap" => \A p \in Phys : flash[p].tag = "swap" => p = a
           /\ \A n : Within(flash[a], n) => Within(st[Len(st)], n)
           /\ st[Len(st)].tag # "swap"
<1> DEFINE t == "data"
<1>1. t \in {"swap", "data"} /\ st = TagStages(flash[a], t) /\ (t = "swap" => \A p \in Phys : flash[p].tag = "swap" => p = a)
  OBVIOUS
<1> HIDE DEF t
<1>2. /\ st \in Seq(LoosePage) /\ Len(st) \in Nat /\ 1 <= Len(st)
      /\ \A k \in 1 .. Len(st) : /\ Gapless(st[k])
                                 /\ st[k].tag = "swap" => \A p \in Phys : flash[p].tag = "swap" => p = a
      /\ \A n : Within(flash[a], n) => Within(st[Len(st)], n)
      /\ t = "data" => st[Len(st)].tag # "swap"
  BY <1>1, LooseTagged
<1> QED
  BY <1>2 DEF t

\* The page is the swap page from here on, and its copy the data page.
LEMMA LoosePromotes == ASSUME LooseInv, GcPromote PROVE LooseInv'
<1>1. /\ Ready("gc") /\ Proceeds /\ gc.state \in {"erase", "promote"}
      /\ gc' = [Resumed EXCEPT !.state = "promote"]
      /\ Execute(pages'[gc.cur].addr, TagStages(flash[pages'[gc.cur].addr], "data"))
      /\ UNCHANGED <<flash, phase, queue, latest, writes, timeouts>>
  BY DEF GcPromote, GcStep, GcAgain, bounds
<1>2. /\ LooseFlash /\ LooseTypes /\ LooseRoles /\ LooseTags /\ GcReached /\ ~ Flying /\ LoosePages /\ Spaced
      /\ \A i : ~ WritesAt(i)
  BY <1>1, LooseCollector
<1>3. gc' \in LooseGcInfo /\ gc'.state = "promote" /\ gc'.cur = gc.cur /\ gc'.todo = gc.todo /\ ~ gc'.resume
  <2>1. PICK g : g = Resumed
    OBVIOUS
  <2>2. g \in LooseGcInfo /\ g.cur = gc.cur /\ g.todo = gc.todo /\ ~ g.resume
    BY <1>2, <2>1, LooseGcResumed DEF Resumed, LooseTypes
  <2>3. gc' = [g EXCEPT !.state = "promote"]
    BY <1>1, <2>1
  <2> QED
    BY <2>2, <2>3, LooseGcState
<1>4. gc.cur \in Index /\ pages[gc.cur].type = "data" /\ \A i \in gc.todo : pages[i].type = "data"
  <2>1. gc.cur \in Index
    BY <1>2, LooseFields DEF LooseTypes
  <2> QED
    BY <1>1, <1>2, <2>1 DEF GcReached
<1>5. PICK i \in Index : i = gc.cur
  BY <1>4
<1>6. PICK a : a = pages'[i].addr
  OBVIOUS
<1>7. PICK st : st = TagStages(flash[a], "data")
  OBVIOUS
<1>8. /\ LooseTypes' /\ LooseRoles' /\ a \in Phys /\ SwapAt = a
      /\ \A j \in Index : /\ pages'[j].type = pages[j].type /\ pages'[j].reserved = pages[j].reserved
                          /\ pages'[j].offset <= pages[j].offset
                          /\ pages[j].type # "undefined" =>
                                1 <= pages'[j].offset /\ Within(flash[pages'[j].addr], pages'[j].offset)
      /\ swap'.offset = 1 /\ Within(OnSwap', 1)
  <2>1. CASE GcAgain("promote") /\ UNCHANGED <<swap, pages>>
    <3>1. gc.state = "promote" /\ ~ GcLanded
      <4>1. gc.state = "promote" /\ gc.resume
        BY <2>1 DEF GcAgain
      <4> QED
        BY <1>1, <4>1, LooseCollector
    <3>2. swap.offset = 1 /\ Within(OnSwap, 1) /\ SwapAt = a /\ OnSwap' = OnSwap
      <4>1. swap.offset = 1 /\ Within(OnSwap, swap.offset)
        BY <1>2, <3>1 DEF GcReached
      <4>2. SwapAt = a
        BY <1>5, <1>6, <2>1, <3>1 DEF SwapAt
      <4>3. OnSwap' = OnSwap
        BY <1>1, <2>1 DEF OnSwap
      <4> QED
        BY <4>1, <4>2, <4>3
    <3>3. LooseRoles' /\ a \in Phys
      BY <1>2, <1>6, <2>1 DEF LooseRoles
    <3>4. LooseTypes'
      BY <1>2, <1>3, <2>1 DEF LooseTypes
    <3>5. \A j \in Index : pages[j].type # "undefined" =>
              1 <= pages[j].offset /\ Within(flash[pages[j].addr], pages[j].offset)
      <4> SUFFICES ASSUME NEW j \in Index, pages[j].type # "undefined"
                   PROVE  1 <= pages[j].offset /\ Within(flash[pages[j].addr], pages[j].offset)
        OBVIOUS
      <4>1. 1 <= pages[j].offset /\ Within(OnPage(j), pages[j].offset)
        BY <1>2, <3>1, LooseAt
      <4> QED
        BY <4>1 DEF OnPage
    <3>6. \A j \in Index : pages[j].offset <= pages[j].offset
      BY <1>2, NotLess DEF Spaced
    <3> QED
      BY <2>1, <3>2, <3>3, <3>4, <3>5, <3>6
  <2>2. CASE /\ GcStep({"erase"})
             /\ swap' = [addr |-> pages[gc.cur].addr, offset |-> 1]
             /\ pages' = [pages EXCEPT ![gc.cur].addr = swap.addr,
                                       ![gc.cur].offset = swap.offset, ![gc.cur].canGc = FALSE]
    <3>1. gc.state = "erase" /\ GcLanded
      <4>1. gc.state = "erase" /\ ~ gc.resume
        BY <2>2 DEF GcStep
      <4> QED
        BY <1>1, <4>1, LooseCollector
    <3>2. swap.offset <= pages[i].offset /\ Within(OnSwap, swap.offset) /\ 1 <= swap.offset /\ SwapAt = swap.addr
      BY <1>2, <1>5, <3>1 DEF GcReached, LooseRoles, SwapAt
    <3>3. swap.addr \in Phys /\ swap.offset \in ScanOffset /\ pages \in ScanPages /\ pages[i].addr \in Phys
          /\ 1 \in ScanOffset
      BY <1>2, ConstantFacts DEF LooseTypes, LooseRoles, ScanOffset
    <3>4. /\ pages' \in ScanPages /\ pages'[i].addr = swap.addr /\ pages'[i].offset = swap.offset
          /\ pages'[i].reserved = pages[i].reserved /\ pages'[i].type \in {pages[i].type, "data"}
          /\ \A j \in Index : j # i => pages'[j] = pages[j]
      <4>1. PICK b \in Phys, o \in ScanOffset : b = swap.addr /\ o = swap.offset
        BY <3>3
      <4>2. pages' = [pages EXCEPT ![i].addr = b, ![i].offset = o, ![i].canGc = FALSE]
        BY <1>5, <2>2, <4>1
      <4> QED
        BY <3>3, <4>1, <4>2, LooseMoved
    <3>5. swap' \in [addr : Phys \union {NoPage}, offset : ScanOffset] /\ swap'.addr = pages[i].addr /\ swap'.offset = 1
      BY <1>5, <2>2, <3>3, LooseSwapPair
    <3>6. LooseTypes'
      BY <1>3, <3>4, <3>5 DEF LooseTypes
    <3>7. LooseRoles'
      <4>1. swap'.addr \in Phys /\ 1 <= swap'.offset
        BY <3>3, <3>5
      <4>2. \A j \in Index : pages'[j].addr \in Phys /\ pages'[j].addr # swap'.addr
        BY <1>2, <3>3, <3>4, <3>5 DEF LooseRoles
      <4>3. \A j, k \in Index : pages'[j].addr = pages'[k].addr => j = k
        BY <1>2, <3>4 DEF LooseRoles
      <4> QED
        BY <4>1, <4>2, <4>3 DEF LooseRoles
    <3>8. Within(OnSwap', 1)
      <4>1. Within(OnPage(i), 1)
        BY <1>2, <1>4, <1>5, <3>1 DEF LoosePages
      <4> QED
        BY <1>1, <3>5, <4>1 DEF OnSwap, OnPage
    <3>9. \A j \in Index : /\ pages'[j].type = pages[j].type /\ pages'[j].reserved = pages[j].reserved
                           /\ pages'[j].offset <= pages[j].offset
                           /\ pages[j].type # "undefined" =>
                                 1 <= pages'[j].offset /\ Within(flash[pages'[j].addr], pages'[j].offset)
      <4> SUFFICES ASSUME NEW j \in Index
                   PROVE  /\ pages'[j].type = pages[j].type /\ pages'[j].reserved = pages[j].reserved
                          /\ pages'[j].offset <= pages[j].offset
                          /\ pages[j].type # "undefined" =>
                                1 <= pages'[j].offset /\ Within(flash[pages'[j].addr], pages'[j].offset)
        OBVIOUS
      <4>1. CASE j = i
        BY <1>4, <1>5, <3>2, <3>4, <4>1 DEF OnSwap
      <4>2. CASE j # i
        <5>1. pages'[j] = pages[j] /\ pages[j].offset <= pages[j].offset
          BY <1>2, <3>4, <4>2, NotLess DEF Spaced
        <5>2. pages[j].type # "undefined" => 1 <= pages[j].offset /\ Within(OnPage(j), pages[j].offset)
          BY <1>2, <1>5, <4>2 DEF LoosePages
        <5> QED
          BY <5>1, <5>2 DEF OnPage
      <4> QED
        BY <4>1, <4>2
    <3> QED
      BY <1>6, <3>2, <3>3, <3>4, <3>5, <3>6, <3>7, <3>8, <3>9
  <2> QED
    BY <2>1, <2>2 DEF GcPromote
<1>9. SwapAt' = a /\ \A p \in Phys : flash[p].tag = "swap" => p = a
  <2>1. SwapAt' = a
    BY <1>3, <1>5, <1>6 DEF SwapAt
  <2> QED
    BY <1>2, <1>8, <2>1 DEF LooseTags
<1>10. /\ st \in Seq(LoosePage) /\ Len(st) \in Nat /\ 1 <= Len(st)
       /\ \A k \in 1 .. Len(st) : /\ Gapless(st[k])
                                  /\ st[k].tag = "swap" => \A p \in Phys : flash[p].tag = "swap" => p = a
       /\ \A n : Within(flash[a], n) => Within(st[Len(st)], n)
       /\ st[Len(st)].tag # "swap"
  BY <1>2, <1>7, <1>8, LooseTaggedData
<1>11. Execute(a, st)
  BY <1>1, <1>5, <1>6, <1>7
<1>12. ~ GcLanded' => GcReached'
  BY <1>3, <1>4, <1>5, <1>8, LooseFields DEF GcReached, LooseTypes
<1>13. Landing' = a /\ Outcome' = st[Len(st)] => GcOutcome'
  BY <1>1, <1>3, <1>5, <1>6, <1>10 DEF GcOutcome, Within
<1>14. gc'.state # "begin"
  BY <1>3
<1> QED
  BY <1>1, <1>3, <1>8, <1>9, <1>10, <1>11, <1>12, <1>13, <1>14, LooseCollects

\* gc_swap_tag.
LEMMA LooseTagsSwap == ASSUME LooseInv, GcTagSwap PROVE LooseInv'
<1>1. /\ Ready("gc") /\ Proceeds
      /\ (gc.state \in {"promote", "discard"} /\ ~ gc.resume) \/ (gc.state = "tag" /\ gc.resume)
      /\ gc' = [Resumed EXCEPT !.state = "tag", !.src = 0]
      /\ Execute(swap.addr, TagStages(flash[swap.addr], "swap"))
      /\ UNCHANGED <<flash, pages, swap, phase, queue, latest, writes, timeouts>>
  BY DEF GcTagSwap, GcStep, GcAgain, bounds
<1>2. /\ LooseFlash /\ LooseTypes /\ LooseRoles /\ LooseTags /\ GcReached /\ ~ Flying /\ LoosePages /\ Spaced
      /\ \A i : ~ WritesAt(i)
      /\ gc.state \in {"promote", "discard"} => GcLanded
      /\ gc.state = "tag" => ~ GcLanded
  BY <1>1, LooseCollector
<1>3. gc' \in LooseGcInfo /\ gc'.state = "tag" /\ gc'.src = 0 /\ gc'.cur = gc.cur /\ gc'.todo = gc.todo /\ ~ gc'.resume
  <2>1. PICK g : g = Resumed
    OBVIOUS
  <2>2. g \in LooseGcInfo /\ g.cur = gc.cur /\ g.todo = gc.todo /\ ~ g.resume
    BY <1>2, <2>1, LooseGcResumed DEF Resumed, LooseTypes
  <2>3. gc' = [g EXCEPT !.state = "tag", !.src = 0]
    BY <1>1, <2>1
  <2> DEFINE R == 0 .. Slots
  <2>4. LooseGcInfo = [state : {"begin", "copy", "erase", "promote", "discard", "tag"}, cur : Index,
                       src : R, todo : SUBSET Index, resume : BOOLEAN]
    BY DEF LooseGcInfo
  <2>5. 0 \in R
    BY ConstantFacts
  <2> HIDE DEF R
  <2> QED
    BY <2>2, <2>3, <2>4, <2>5
<1>4. /\ pages[gc.cur].type = "data" /\ \A i \in gc.todo : pages[i].type = "data"
      /\ swap.offset = 1 /\ Within(OnSwap, 1)
      /\ gc.state = "promote" => OnPage(gc.cur).tag # "swap"
  BY <1>1, <1>2 DEF GcReached
<1>5. SwapAt' = swap.addr /\ \A p \in Phys : flash[p].tag = "swap" => p = swap.addr
  <2>1. SwapAt' = swap.addr
    BY <1>1, <1>3 DEF SwapAt
  <2>2. \A p \in Phys : flash[p].tag = "swap" => p = SwapAt
    BY <1>2 DEF LooseTags
  <2>3. CASE gc.state = "promote"
    BY <1>4, <2>1, <2>2, <2>3 DEF SwapAt, OnPage
  <2>4. CASE gc.state # "promote"
    BY <2>1, <2>2, <2>4 DEF SwapAt
  <2> QED
    BY <2>3, <2>4
<1>6. PICK a \in Phys : a = swap.addr
  BY <1>2 DEF LooseRoles
<1>7. PICK st : st = TagStages(flash[a], "swap")
  OBVIOUS
<1>8. /\ st \in Seq(LoosePage) /\ Len(st) \in Nat /\ 1 <= Len(st)
      /\ \A k \in 1 .. Len(st) : /\ Gapless(st[k])
                                 /\ st[k].tag = "swap" => \A p \in Phys : flash[p].tag = "swap" => p = a
      /\ \A n : Within(flash[a], n) => Within(st[Len(st)], n)
  BY <1>2, <1>5, <1>6, <1>7, LooseTagged
<1>9. LooseTypes' /\ LooseRoles' /\ OnSwap' = OnSwap
  BY <1>1, <1>2, <1>3 DEF LooseTypes, LooseRoles, OnSwap
<1>10. \A j \in Index : /\ pages[j].offset <= pages[j].offset
                        /\ pages[j].type # "undefined" =>
                              1 <= pages[j].offset /\ Within(flash[pages[j].addr], pages[j].offset)
  <2> SUFFICES ASSUME NEW j \in Index
               PROVE  /\ pages[j].offset <= pages[j].offset
                      /\ pages[j].type # "undefined" =>
                            1 <= pages[j].offset /\ Within(flash[pages[j].addr], pages[j].offset)
    OBVIOUS
  <2>1. pages[j].offset <= pages[j].offset
    BY <1>2, NotLess DEF Spaced
  <2>2. gc.state # "erase"
    BY <1>1
  <2>3. pages[j].type # "undefined" => 1 <= pages[j].offset /\ Within(OnPage(j), pages[j].offset)
    BY <1>2, <2>2 DEF LoosePages
  <2> QED
    BY <2>1, <2>3 DEF OnPage
<1>11. ~ GcLanded' => GcReached'
  BY <1>1, <1>3, <1>4, <1>9 DEF GcReached
<1>12. Landing' = a /\ Outcome' = st[Len(st)] => GcOutcome'
  BY <1>1, <1>3, <1>6, <1>8 DEF GcOutcome, Within
<1>13. Execute(a, st) /\ pages' = pages /\ gc'.state # "begin"
  BY <1>1, <1>3, <1>6, <1>7
<1> QED
  BY <1>1, <1>3, <1>5, <1>6, <1>8, <1>9, <1>10, <1>11, <1>12, <1>13, LooseCollects

\* Every step of a collection.
LEMMA LooseGcExecute == ASSUME LooseInv, GcExecute PROVE LooseInv'
BY LooseGcBegins, LooseGcCopied, LooseGcAgain, LooseGcStops, LoosePromotes, LooseTagsSwap DEF GcExecute

\* What a queue of one operation has.
LEMMA OnlyOne == \A k \in 1 .. 1 : k = 1
OBVIOUS

\* What holds while the installation goes on.
LEMMA LooseInstaller ==
    ASSUME LooseInv, Ready("init"), Proceeds
    PROVE  /\ Working /\ ~ Flying /\ ~ Telling /\ queue # <<>> /\ hand = "run" /\ Op.code = "init"
           /\ phase = "installing" /\ Op = queue[1] /\ Len(queue) = 1 /\ Len(queue) <= QueueSize
           /\ LooseFlash /\ LooseTypes /\ LooseRoles /\ QueueOK /\ SpaceOK /\ LooseInstall /\ Spaced
           /\ writes \in Nat /\ timeouts \in Nat /\ result = "success"
           /\ \A i : ~ WritesAt(i)
           /\ \A p \in Phys : flash[p].tag = "swap" => p = swap.addr
           /\ \A j \in Index : pages[j].type # "undefined" =>
                 1 <= pages[j].offset /\ Within(flash[pages[j].addr], pages[j].offset)
<1>1. /\ Working /\ ~ Flying /\ ~ Telling /\ queue # <<>> /\ hand = "run" /\ Op.code = "init"
      /\ phase = "installing" /\ Len(queue) = 1 /\ Len(queue) <= QueueSize
      /\ LooseFlash /\ LooseTypes /\ LooseOn /\ LoosePages /\ LooseInstall /\ Spaced
      /\ writes \in Nat /\ timeouts \in Nat
  BY LooseRun DEF Ready
<1>2. LooseRoles /\ QueueOK /\ SpaceOK /\ LooseTags
  BY <1>1 DEF LooseOn
<1>3. Op = queue[1]
  BY <1>1, <1>2, OpFacts
<1>4. ~ GcLanded /\ \A i : ~ WritesAt(i)
  BY <1>1 DEF GcLanded, GcRunning, WritesAt, IsWriteOp
<1>5. \A p \in Phys : flash[p].tag = "swap" => p = swap.addr
  BY <1>1, <1>2 DEF LooseTags, SwapAt, LooseInstall
<1>6. \A j \in Index : pages[j].type # "undefined" =>
                 1 <= pages[j].offset /\ Within(flash[pages[j].addr], pages[j].offset)
  BY <1>1, <1>4 DEF LoosePages, OnPage
<1> QED
  BY <1>1, <1>2, <1>3, <1>4, <1>5, <1>6 DEF Proceeds

\* What the installation starts with a flash operation, and what it changes in
\* RAM meanwhile.
InstallPages ==
    /\ swap'.offset = 1
    /\ \A i \in Index : /\ pages'[i].reserved = pages[i].reserved
                        /\ pages'[i].type = "erased" => pages[i].type = "erased" /\ pages'[i].offset = pages[i].offset
                        /\ pages'[i].type # "undefined" =>
                              1 <= pages'[i].offset /\ Within(flash[pages'[i].addr], pages'[i].offset)
InstallStages(a, st) ==
    /\ st \in Seq(LoosePage) /\ Len(st) \in Nat /\ 1 <= Len(st)
    /\ \A k \in 1 .. Len(st) : /\ Gapless(st[k])
                               /\ st[k].tag = "swap" => \A p \in Phys : flash[p].tag = "swap" => p = a
InstallLands(a, page) ==
    /\ \A p \in Phys : flash[p].tag = "swap" => p = swap'.addr \/ p = a
    /\ page.tag = "swap" => a = swap'.addr /\ Op'.step # "tag swap"
    /\ \/ a = swap'.addr /\ Within(page, 1)
       \/ /\ a # swap'.addr /\ Within(flash[swap'.addr], 1)
          /\ \A n \in 1 .. Slots + 1 : Within(flash[a], n) => Within(page, n)

\* It goes on with one more flash operation.
LEMMA LooseInstalls ==
    ASSUME LooseInv, Ready("init"), Proceeds, UNCHANGED <<flash, gc, phase, latest, writes, timeouts>>,
           HeadKeeps, Op'.step \in {"tag swap", "tag data"}, LooseTypes', LooseRoles', InstallPages,
           NEW a \in Phys, NEW st, InstallStages(a, st), InstallLands(a, st[Len(st)]), Execute(a, st)
    PROVE  LooseInv'
<1>31. swap'.offset = 1
  BY DEF InstallPages
<1>34. \A i \in Index : pages'[i].reserved = pages[i].reserved
  BY DEF InstallPages
<1>35. \A i \in Index : pages'[i].type = "erased" => pages[i].type = "erased" /\ pages'[i].offset = pages[i].offset
  BY DEF InstallPages
<1>36. \A i \in Index : pages'[i].type # "undefined" =>
          1 <= pages'[i].offset /\ Within(flash[pages'[i].addr], pages'[i].offset)
  BY DEF InstallPages
<1>32. /\ st \in Seq(LoosePage) /\ Len(st) \in Nat /\ 1 <= Len(st)
       /\ \A k \in 1 .. Len(st) : /\ Gapless(st[k])
                                  /\ st[k].tag = "swap" => \A p \in Phys : flash[p].tag = "swap" => p = a
  BY DEF InstallStages
<1>33. /\ \A p \in Phys : flash[p].tag = "swap" => p = swap'.addr \/ p = a
       /\ st[Len(st)].tag = "swap" => a = swap'.addr /\ Op'.step # "tag swap"
       /\ \/ a = swap'.addr /\ Within(st[Len(st)], 1)
          \/ /\ a # swap'.addr /\ Within(flash[swap'.addr], 1)
             /\ \A n \in 1 .. Slots + 1 : Within(flash[a], n) => Within(st[Len(st)], n)
  BY DEF InstallLands
<1>1. /\ Working /\ ~ Flying /\ ~ Telling /\ queue # <<>> /\ Op.code = "init"
      /\ phase = "installing" /\ Len(queue) = 1 /\ Len(queue) <= QueueSize /\ Op = queue[1]
      /\ LooseFlash /\ QueueOK /\ SpaceOK /\ LooseInstall /\ Spaced
      /\ writes \in Nat /\ timeouts \in Nat
  BY LooseInstaller
<1>2. Flying' /\ Working' /\ ~ Telling' /\ result' = "success"
      /\ Landing' = a /\ Stages' = st /\ Outcome' = st[Len(st)] /\ queue' # <<>>
  <2>1. queue' # <<>>
    BY DEF HeadKeeps
  <2>2. Flying' /\ Working' /\ ~ Telling' /\ result' = result /\ flashing' = [addr |-> a, stages |-> st]
    BY <2>1, ExecuteFacts
  <2> QED
    BY <2>1, <2>2 DEF Landing, Stages, Outcome, Proceeds
<1>3. Op' = queue'[1] /\ Op'.code = "init" /\ Len(queue') = 1 /\ queue' \in Seq(OpType)
  BY <1>1 DEF HeadKeeps
<1>4. LooseFlash'
  BY <1>1 DEF LooseFlash
<1>5. LooseStages'
  <2>1. \A k \in 1 .. Len(st) : st[k] \in LoosePage
    BY <1>32, ElementOfSeq
  <2> QED
    BY <1>2, <1>32, <2>1 DEF LooseStages, Gapless, Within
<1>6. QueueOK'
  <2>1. OpOK(queue[1])'
    BY <1>3 DEF OpOK, IsWriteOp
  <2> QED
    BY <1>1, <2>1, HeadQueueOK
<1>7. SpaceOK'
  <2> SUFFICES ASSUME NEW i \in Index
               PROVE  /\ Cardinality(WritesOn(i)') <= pages'[i].reserved
                      /\ pages'[i].offset + pages'[i].reserved <= Slots + 1
    BY DEF SpaceOK
  <2>4. pages'[i].reserved = 0
    BY <1>1, <1>34 DEF LooseInstall
  <2>5. pages'[i] \in ScanInfo
    BY DEF LooseTypes, ScanPages
  <2>1. pages'[i].offset \in 0 .. Slots + 1 /\ pages'[i].reserved = 0
    BY <2>4, <2>5, LooseFields
  <2>2. \A k \in 1 .. Len(queue') : ~ IsWriteOp(queue[k])'
    <3>1. \A k \in 1 .. Len(queue') : k = 1
      BY <1>3, OnlyOne
    <3> QED
      BY <1>3, <3>1 DEF IsWriteOp
  <2>3. WritesOn(i)' = {}
    BY <2>2 DEF WritesOn, IsWriteOp
  <2> QED
    BY <2>1, <2>3, LooseSpace
<1>8. gc.state = "begin" /\ gc.src = 0 /\ gc.todo = {}
      /\ \A i \in Index : pages'[i].reserved = 0 /\ (pages'[i].type = "erased" => pages'[i].offset = 1)
  <2>1. gc.state = "begin" /\ gc.src = 0 /\ gc.todo = {}
        /\ \A i \in Index : pages[i].reserved = 0 /\ (pages[i].type = "erased" => pages[i].offset = 1)
    BY <1>1 DEF LooseInstall
  <2> QED
    BY <2>1, <1>34, <1>35
<1>9. LooseTags'
  BY <1>1, <1>2, <1>8, <1>33 DEF LooseTags, SwapAt
<1>10. ~ GcLanded' /\ \A i : ~ WritesAt(i)'
  BY <1>3 DEF GcLanded, GcRunning, WritesAt, IsWriteOp
<1>11. LoosePages'
  <2> SUFFICES ASSUME NEW i \in Index, pages'[i].type # "undefined"
               PROVE  1 <= pages'[i].offset /\ Within(OnPage(i)', pages'[i].offset)
    BY <1>10 DEF LoosePages
  <2> QED
    BY <1>36 DEF OnPage
<1>12. LooseInstall'
  <2>1. OnSwap' = flash[swap'.addr] /\ flash'[a] = flash[a]
    BY DEF OnSwap
  <2>2. \/ Landing' = swap'.addr /\ Within(Outcome', 1)
        \/ Keeps' /\ Within(OnSwap', 1) /\ Landing' # swap'.addr
    <3>1. CASE a = swap'.addr /\ Within(st[Len(st)], 1)
      BY <1>2, <3>1
    <3>2. CASE /\ a # swap'.addr /\ Within(flash[swap'.addr], 1)
               /\ \A n \in 1 .. Slots + 1 : Within(flash[a], n) => Within(st[Len(st)], n)
      <4>1. \A n \in 1 .. Slots + 1 : Within(flash[Landing], n)' => Within(Outcome, n)'
        BY <1>2, <2>1, <3>2 DEF Within
      <4>2. Outcome'.tag # "swap"
        BY <1>2, <1>33, <3>2
      <4>3. Keeps'
        BY <4>1, <4>2 DEF Keeps
      <4> QED
        BY <1>2, <2>1, <3>2, <4>3
    <3> QED
      BY <1>33, <3>1, <3>2
  <2>3. Op'.step = "tag swap" \/ Landing' # swap'.addr => Outcome'.tag # "swap"
    BY <1>2, <1>33
  <2> QED
    BY <1>2, <1>8, <1>31, <2>2, <2>3 DEF LooseInstall, Within
<1>13. LooseOn'
  BY <1>6, <1>7, <1>9 DEF LooseOn
<1>14. phase' = "installing" /\ writes' \in Nat /\ timeouts' \in Nat /\ Len(queue') <= QueueSize
  BY <1>1, <1>3
<1> QED
  BY <1>2, <1>3, <1>4, <1>5, <1>11, <1>12, <1>13, <1>14 DEF LooseInv

\* An installation is given up.
LEMMA LooseInitTimeout == ASSUME LooseInv, InitTimeout PROVE LooseInv'
<1>1. /\ Ready("init") /\ hand = "run" /\ phase' = "failed" /\ Finish("timeout")
      /\ UNCHANGED <<flash, pages, swap, gc, queue, writes, timeouts>>
  BY DEF InitTimeout, Ready, bounds
<1>2. /\ ~ Flying /\ LooseFlash /\ LooseTypes /\ writes \in Nat /\ timeouts \in Nat /\ Len(queue) <= QueueSize
      /\ Len(queue) = 1 /\ queue \in Seq(OpType) /\ queue # <<>>
  BY <1>1, LooseRun DEF Ready
<1>3. ~ Flying' /\ Telling' /\ hand' = "event"
  BY <1>1, <1>2, FinishFacts
<1>4. LooseFlash' /\ LooseTypes' /\ LooseStages'
  BY <1>1, <1>2, <1>3 DEF LooseFlash, LooseTypes, LooseStages
<1>5. hand' # "idle" /\ phase' = "failed" /\ Len(queue') = 1 /\ queue' \in Seq(OpType) /\ writes' \in Nat /\ timeouts' \in Nat /\ Len(queue') <= QueueSize
  BY <1>1, <1>2, <1>3
<1> QED
  BY <1>3, <1>4, <1>5 DEF LooseInv

\* The swap page is tagged.
LEMMA LooseInitTag == ASSUME LooseInv, InitTagSwap PROVE LooseInv'
<1>1. /\ Ready("init") /\ Proceeds /\ Op.step = "tag swap" /\ SetStep("tag data")
      /\ Execute(swap.addr, TagStages(flash[swap.addr], "swap"))
      /\ UNCHANGED <<flash, pages, swap, gc, phase, latest, writes, timeouts>>
  BY DEF InitTagSwap, bounds
<1>2. /\ queue # <<>> /\ LooseFlash /\ LooseTypes /\ LooseRoles /\ QueueOK /\ LooseInstall /\ Spaced /\ ~ Flying
      /\ \A p \in Phys : flash[p].tag = "swap" => p = swap.addr
      /\ \A j \in Index : pages[j].type # "undefined" =>
            1 <= pages[j].offset /\ Within(flash[pages[j].addr], pages[j].offset)
  BY <1>1, LooseInstaller
<1>3. PICK a \in Phys : a = swap.addr
  BY <1>2 DEF LooseRoles
<1>31. PICK st : st = TagStages(flash[a], "swap")
  OBVIOUS
<1>4. /\ st \in Seq(LoosePage) /\ Len(st) \in Nat /\ 1 <= Len(st)
      /\ \A k \in 1 .. Len(st) : /\ Gapless(st[k])
                                 /\ st[k].tag = "swap" => \A p \in Phys : flash[p].tag = "swap" => p = a
      /\ \A n : Within(flash[a], n) => Within(st[Len(st)], n)
  BY <1>2, <1>3, <1>31, LooseTagged
<1>5. swap.offset = 1 /\ Within(flash[a], 1)
  <2>1. swap.offset = 1 /\ Within(OnSwap, swap.offset)
    BY <1>1, <1>2 DEF LooseInstall
  <2> QED
    BY <1>3, <2>1 DEF OnSwap
<1>6. HeadKeeps /\ Op'.step = "tag data"
  <2>1. "tag data" \in Steps
    BY DEF Steps
  <2>2. HeadKeeps /\ queue'[1].step = "tag data"
    BY <1>1, <1>2, <2>1, StepSet
  <2> QED
    BY <2>2 DEF HeadKeeps
<1>7. LooseTypes' /\ LooseRoles'
  BY <1>1, <1>2 DEF LooseTypes, LooseRoles
<1>9. Execute(a, st) /\ pages' = pages /\ swap' = swap
  BY <1>1, <1>3, <1>31
<1>10. InstallPages
  BY <1>2, <1>5, <1>9 DEF InstallPages
<1>11. InstallStages(a, st) /\ InstallLands(a, st[Len(st)])
  BY <1>2, <1>3, <1>4, <1>5, <1>6, <1>9 DEF InstallStages, InstallLands
<1> QED
  BY <1>1, <1>6, <1>7, <1>9, <1>10, <1>11, LooseInstalls

\* The swap page is erased.
LEMMA LooseInitErase == ASSUME LooseInv, InitEraseSwap PROVE LooseInv'
<1>1. /\ Ready("init") /\ Proceeds /\ SetStep("tag swap") /\ Execute(swap.addr, <<Blank>>)
      /\ swap' = [swap EXCEPT !.offset = 1]
      /\ UNCHANGED <<flash, pages, gc, phase, latest, writes, timeouts>>
  BY DEF InitEraseSwap, bounds
<1>2. /\ queue # <<>> /\ LooseFlash /\ LooseTypes /\ LooseRoles /\ QueueOK /\ Spaced
      /\ \A p \in Phys : flash[p].tag = "swap" => p = swap.addr
      /\ \A j \in Index : pages[j].type # "undefined" =>
            1 <= pages[j].offset /\ Within(flash[pages[j].addr], pages[j].offset)
  BY <1>1, LooseInstaller
<1>3. PICK a \in Phys : a = swap.addr
  BY <1>2 DEF LooseRoles
<1>31. PICK st : st = <<Blank>>
  OBVIOUS
<1>4. /\ st \in Seq(LoosePage) /\ Len(st) = 1 /\ st[1] = Blank
      /\ Blank \in LoosePage /\ Blank.tag = "none" /\ Within(Blank, 1) /\ Gapless(Blank)
  BY <1>31, LooseBlank
<1>5. /\ Len(st) \in Nat /\ 1 <= Len(st)
      /\ \A k \in 1 .. Len(st) : st[k] = Blank
  BY <1>4
<1>6. HeadKeeps /\ Op'.step = "tag swap"
  <2>1. "tag swap" \in Steps
    BY DEF Steps
  <2>2. HeadKeeps /\ queue'[1].step = "tag swap"
    BY <1>1, <1>2, <2>1, StepSet
  <2> QED
    BY <2>2 DEF HeadKeeps
<1>7. swap' \in [addr : Phys \union {NoPage}, offset : ScanOffset] /\ swap'.addr = swap.addr /\ swap'.offset = 1
  <2>1. 1 \in 1 .. Slots + 1 /\ swap \in [addr : Phys \union {NoPage}, offset : ScanOffset]
    BY <1>2, ConstantFacts DEF LooseTypes
  <2> QED
    BY <1>1, <2>1, LooseSwapSet
<1>8. LooseTypes' /\ LooseRoles'
  <2>1. 1 <= swap'.offset
    BY <1>7
  <2> QED
    BY <1>1, <1>2, <1>7, <2>1 DEF LooseTypes, LooseRoles
<1>10. Execute(a, st) /\ pages' = pages /\ a = swap'.addr
  BY <1>1, <1>3, <1>31, <1>7
<1>11. InstallPages
  BY <1>2, <1>7, <1>10 DEF InstallPages
<1>12. InstallStages(a, st) /\ InstallLands(a, st[Len(st)])
  BY <1>2, <1>4, <1>5, <1>7, <1>3 DEF InstallStages, InstallLands
<1> QED
  BY <1>1, <1>6, <1>8, <1>10, <1>11, <1>12, LooseInstalls

\* The swap page, which holds a copy, becomes a data page.
LEMMA LooseInitPromote == ASSUME LooseInv, InitPromoteSwap PROVE LooseInv'
<1>1. /\ Ready("init") /\ Proceeds /\ Op.step = "promote swap" /\ SetStep("tag swap")
      /\ swap' = [addr |-> pages[gc.cur].addr, offset |-> 1]
      /\ pages' = [pages EXCEPT ![gc.cur].addr = swap.addr, ![gc.cur].offset = swap.offset,
                                ![gc.cur].type = "data"]
      /\ Execute(swap.addr, TagStages(flash[swap.addr], "data"))
      /\ UNCHANGED <<flash, gc, phase, latest, writes, timeouts>>
  BY DEF InitPromoteSwap, bounds
<1>2. /\ queue # <<>> /\ LooseFlash /\ LooseTypes /\ LooseRoles /\ QueueOK /\ LooseInstall /\ Spaced /\ ~ Flying
      /\ \A p \in Phys : flash[p].tag = "swap" => p = swap.addr
      /\ \A j \in Index : pages[j].type # "undefined" =>
            1 <= pages[j].offset /\ Within(flash[pages[j].addr], pages[j].offset)
  BY <1>1, LooseInstaller
<1>3. PICK i \in Index : i = gc.cur
  BY <1>2, LooseFields DEF LooseTypes
<1>4. PICK a \in Phys, o \in ScanOffset : a = swap.addr /\ o = swap.offset
  BY <1>2 DEF LooseTypes, LooseRoles
<1>5. pages[i].type = "erased" /\ 1 <= o /\ Within(flash[a], o)
  BY <1>1, <1>2, <1>3, <1>4 DEF LooseInstall, LooseRoles, OnSwap
<1>6. /\ pages' \in ScanPages /\ pages'[i].addr = a /\ pages'[i].offset = o
      /\ pages'[i].reserved = pages[i].reserved /\ pages'[i].type = "data"
      /\ \A j \in Index : j # i => pages'[j] = pages[j]
  <2>1. PICK q : q = [pages[i] EXCEPT !.addr = a, !.offset = o, !.type = "data"]
    OBVIOUS
  <2>2. pages \in ScanPages /\ pages[i] \in ScanInfo
    BY <1>2 DEF LooseTypes, ScanPages
  <2>3. pages' = [pages EXCEPT ![i] = q]
    BY <1>1, <1>3, <1>4, <2>1
  <2> DEFINE R == 0 .. Slots
  <2>4. ScanInfo = [type : {"data", "erased", "undefined"}, addr : Phys \union {NoPage}, offset : ScanOffset,
                    reserved : R, open : Nat, canGc : BOOLEAN]
    BY DEF ScanInfo, ScanOffset
  <2> HIDE DEF R
  <2>5. q \in ScanInfo /\ q.addr = a /\ q.offset = o /\ q.reserved = pages[i].reserved /\ q.type = "data"
    BY <2>1, <2>2, <2>4
  <2> QED
    BY <2>2, <2>3, <2>5 DEF ScanPages
<1>7. swap' \in [addr : Phys \union {NoPage}, offset : ScanOffset] /\ swap'.addr = pages[i].addr /\ swap'.offset = 1
  <2>1. pages[i].addr \in Phys /\ 1 \in ScanOffset
    BY <1>2, ConstantFacts DEF LooseRoles, ScanOffset
  <2> QED
    BY <1>1, <1>3, <2>1, LooseSwapPair
<1>8. PICK st : st = TagStages(flash[a], "data")
  OBVIOUS
<1>9. /\ st \in Seq(LoosePage) /\ Len(st) \in Nat /\ 1 <= Len(st)
      /\ \A k \in 1 .. Len(st) : /\ Gapless(st[k])
                                 /\ st[k].tag = "swap" => \A p \in Phys : flash[p].tag = "swap" => p = a
      /\ \A n : Within(flash[a], n) => Within(st[Len(st)], n)
      /\ st[Len(st)].tag # "swap"
  BY <1>2, <1>4, <1>8, LooseTaggedData
<1>10. LooseTypes' /\ LooseRoles' /\ a # swap'.addr
  <2>1. LooseTypes'
    BY <1>1, <1>2, <1>6, <1>7 DEF LooseTypes
  <2>2. a # swap'.addr /\ swap'.addr \in Phys /\ 1 <= swap'.offset
    BY <1>2, <1>4, <1>7 DEF LooseRoles
  <2>3. \A j \in Index : pages'[j].addr \in Phys /\ pages'[j].addr # swap'.addr
    BY <1>2, <1>4, <1>6, <1>7 DEF LooseRoles
  <2>4. \A j, k \in Index : pages'[j].addr = pages'[k].addr => j = k
    BY <1>2, <1>4, <1>6 DEF LooseRoles
  <2> QED
    BY <2>1, <2>2, <2>3, <2>4 DEF LooseRoles
<1>11. \A j \in Index : /\ pages'[j].reserved = pages[j].reserved
                        /\ pages'[j].type = "erased" => pages[j].type = "erased" /\ pages'[j].offset = pages[j].offset
                        /\ pages'[j].type # "undefined" =>
                              1 <= pages'[j].offset /\ Within(flash[pages'[j].addr], pages'[j].offset)
  <2> SUFFICES ASSUME NEW j \in Index
               PROVE  /\ pages'[j].reserved = pages[j].reserved
                      /\ pages'[j].type = "erased" => pages[j].type = "erased" /\ pages'[j].offset = pages[j].offset
                      /\ pages'[j].type # "undefined" =>
                            1 <= pages'[j].offset /\ Within(flash[pages'[j].addr], pages'[j].offset)
    OBVIOUS
  <2>1. CASE j = i
    BY <1>5, <1>6, <2>1
  <2>2. CASE j # i
    BY <1>2, <1>6, <2>2
  <2> QED
    BY <2>1, <2>2
<1>12. Within(flash[swap'.addr], 1)
  <2>1. pages[i].offset = 1 /\ Within(flash[pages[i].addr], pages[i].offset)
    BY <1>2, <1>5 DEF LooseInstall
  <2> QED
    BY <1>7, <2>1
<1>13. HeadKeeps /\ Op'.step = "tag swap"
  <2>1. "tag swap" \in Steps
    BY DEF Steps
  <2>2. HeadKeeps /\ queue'[1].step = "tag swap"
    BY <1>1, <1>2, <2>1, StepSet
  <2> QED
    BY <2>2 DEF HeadKeeps
<1>14. Execute(a, st)
  BY <1>1, <1>4, <1>8
<1>15. InstallPages
  BY <1>7, <1>11 DEF InstallPages
<1>16. InstallStages(a, st)
  BY <1>9 DEF InstallStages
<1>17. InstallLands(a, st[Len(st)])
  BY <1>2, <1>4, <1>9, <1>10, <1>12 DEF InstallLands
<1> QED
  BY <1>1, <1>10, <1>13, <1>14, <1>15, <1>16, <1>17, LooseInstalls

\* A page that is tagged for data, and the end of the installation.
LEMMA LooseInitData == ASSUME LooseInv, InitTagData PROVE LooseInv'
<1> DEFINE E == {i \in Index : pages[i].type = "erased"}
<1>1. /\ Ready("init") /\ Proceeds /\ Op.step = "tag data"
      /\ IF E = {}
         THEN /\ phase' = "initialized"
              /\ Finish("success")
              /\ UNCHANGED pages
         ELSE /\ pages' = [pages EXCEPT ![Min(E)].type = "data"]
              /\ Execute(pages[Min(E)].addr, TagStages(flash[pages[Min(E)].addr], "data"))
              /\ UNCHANGED phase
      /\ UNCHANGED <<flash, swap, gc, queue, latest, writes, timeouts>>
  BY DEF InitTagData, bounds
<1>2. /\ queue # <<>> /\ LooseFlash /\ LooseTypes /\ LooseRoles /\ QueueOK /\ SpaceOK /\ LooseInstall /\ Spaced
      /\ ~ Flying /\ Op.code = "init" /\ Len(queue) = 1 /\ Len(queue) <= QueueSize /\ Op = queue[1] /\ ~ Telling
      /\ writes \in Nat /\ timeouts \in Nat
      /\ \A p \in Phys : flash[p].tag = "swap" => p = swap.addr
      /\ \A j \in Index : pages[j].type # "undefined" =>
            1 <= pages[j].offset /\ Within(flash[pages[j].addr], pages[j].offset)
  BY <1>1, LooseInstaller
<1>3. swap.offset = 1 /\ Within(flash[swap.addr], 1)
      /\ gc.state = "begin" /\ gc.src = 0 /\ gc.todo = {}
  <2>1. swap.offset = 1 /\ Within(OnSwap, swap.offset) /\ gc.state = "begin" /\ gc.src = 0 /\ gc.todo = {}
    BY <1>1, <1>2 DEF LooseInstall
  <2> QED
    BY <2>1 DEF OnSwap
<1>4. HeadKeeps /\ Op' = Op
  BY <1>1, <1>2, SameHead DEF Op
<1>5. CASE E = {}
  <2>1. phase' = "initialized" /\ Finish("success") /\ pages' = pages
    BY <1>1, <1>5
  <2>2. ~ Flying' /\ ~ Working' /\ Telling' /\ hand' = "event"
    BY <1>1, <1>2, <2>1, FinishFacts
  <2>3. LooseFlash' /\ LooseTypes' /\ LooseStages' /\ LooseRoles' /\ QueueOK'
    BY <1>1, <1>2, <2>1, <2>2 DEF LooseFlash, LooseTypes, LooseStages, LooseRoles, QueueOK, OpOK, Waits, IsWriteOp
  <2>4. SpaceOK'
    BY <1>2, <1>4, <2>1, HeadWrites, SpaceStays
  <2>5. ~ GcLanded' /\ ~ GcRunning' /\ \A i : ~ WritesAt(i)'
    BY <2>2 DEF GcLanded, GcRunning, WritesAt
  <2>6. LooseTags'
    BY <1>1, <1>2, <1>3, <2>2 DEF LooseTags, SwapAt
  <2>7. LoosePages'
    <3> SUFFICES ASSUME NEW i \in Index, pages[i].type # "undefined"
                 PROVE  1 <= pages[i].offset /\ Within(OnPage(i)', pages[i].offset)
      BY <2>1, <2>5 DEF LoosePages
    <3> QED
      BY <1>1, <1>2, <2>1 DEF OnPage
  <2>8. \A k \in 1 .. Len(queue') : k = 1 /\ queue'[k].code = "init"
    <3>1. \A k \in 1 .. Len(queue') : k = 1
      BY <1>1, <1>2, OnlyOne
    <3> QED
      BY <1>1, <1>2, <3>1
  <2>9. LooseWriting' /\ LooseDeleting'
    BY <2>2, <2>8 DEF LooseWriting, LooseDeleting, IsWriteOp
  <2>10. GcReached'
    <3>1. Within(OnSwap', 1)
      BY <1>1, <1>3 DEF OnSwap
    <3> QED
      BY <1>1, <1>3, <2>5, <3>1 DEF GcReached
  <2>11. LooseGc'
    <3>1. \A k \in 1 .. Len(queue') : ~ CollectsAt(k)' /\ queue'[k].code # "gc"
      BY <2>8 DEF CollectsAt
    <3> QED
      BY <2>2, <2>10, <3>1 DEF LooseGc
  <2>12. LooseOn'
    BY <2>3, <2>4, <2>6 DEF LooseOn
  <2>13. hand' # "idle" /\ writes' \in Nat /\ timeouts' \in Nat /\ Len(queue') <= QueueSize
    BY <1>1, <1>2, <2>2
  <2> QED
    BY <2>1, <2>2, <2>3, <2>7, <2>9, <2>11, <2>12, <2>13 DEF LooseInv
<1>6. CASE E # {}
  <2>1. PICK m \in Index : m = Min(E) /\ pages[m].type = "erased"
    <3>1. E \in SUBSET Nat
      BY DEF Index
    <3>2. Min(E) \in E
      BY <1>6, <3>1, MinOf
    <3> QED
      BY <3>2
  <2>2. /\ pages' = [pages EXCEPT ![m].type = "data"] /\ UNCHANGED phase
        /\ Execute(pages[m].addr, TagStages(flash[pages[m].addr], "data"))
    BY <1>1, <1>6, <2>1
  <2> HIDE DEF E
  <2>3. PICK a \in Phys : a = pages[m].addr
    BY <1>2 DEF LooseRoles
  <2>4. PICK st : st = TagStages(flash[a], "data")
    OBVIOUS
  <2>5. PICK q : q = [pages[m] EXCEPT !.type = "data"]
    OBVIOUS
  <2>6. pages' = [pages EXCEPT ![m] = q] /\ pages \in ScanPages /\ pages[m] \in ScanInfo
    BY <1>2, <2>2, <2>5 DEF LooseTypes, ScanPages
  <2>7. q \in ScanInfo /\ q.addr = a /\ q.offset = pages[m].offset /\ q.reserved = pages[m].reserved /\ q.type = "data"
    <3> DEFINE R == 0 .. Slots
    <3>1. ScanInfo = [type : {"data", "erased", "undefined"}, addr : Phys \union {NoPage}, offset : ScanOffset,
                      reserved : R, open : Nat, canGc : BOOLEAN]
      BY DEF ScanInfo, ScanOffset
    <3> HIDE DEF R
    <3> QED
      BY <2>3, <2>5, <2>6, <3>1
  <2>8. /\ pages' \in ScanPages /\ pages'[m] = q
        /\ \A j \in Index : j # m => pages'[j] = pages[j]
    BY <2>6, <2>7 DEF ScanPages
  <2>9. /\ \A j \in Index : pages'[j].addr = pages[j].addr /\ pages'[j].offset = pages[j].offset
        /\ \A j \in Index : pages'[j].reserved = pages[j].reserved
        /\ \A j \in Index : pages'[j].type = "erased" => pages[j].type = "erased"
        /\ \A j \in Index : pages'[j].type # "undefined" => pages[j].type # "undefined"
    <3>1. pages'[m].addr = pages[m].addr /\ pages'[m].offset = pages[m].offset
          /\ pages'[m].reserved = pages[m].reserved /\ pages'[m].type = "data"
      BY <2>3, <2>7, <2>8
    <3> QED
      BY <2>1, <2>8, <3>1
  <2>10. LooseTypes' /\ LooseRoles'
    <3>1. LooseTypes'
      BY <1>1, <1>2, <2>8 DEF LooseTypes
    <3>2. swap'.addr \in Phys /\ 1 <= swap'.offset /\ swap'.addr = swap.addr
      BY <1>1, <1>2 DEF LooseRoles
    <3>3. \A j \in Index : pages'[j].addr \in Phys /\ pages'[j].addr # swap'.addr
      BY <1>2, <2>9, <3>2 DEF LooseRoles
    <3>4. \A j, k \in Index : pages'[j].addr = pages'[k].addr => j = k
      BY <1>2, <2>9 DEF LooseRoles
    <3> QED
      BY <3>1, <3>2, <3>3, <3>4 DEF LooseRoles
  <2>11. InstallPages
    <3>1. \A j \in Index : pages'[j].type # "undefined" =>
             1 <= pages'[j].offset /\ Within(flash[pages'[j].addr], pages'[j].offset)
      BY <1>2, <2>9
    <3> QED
      BY <1>1, <1>3, <2>9, <3>1 DEF InstallPages
  <2>12. /\ st \in Seq(LoosePage) /\ Len(st) \in Nat /\ 1 <= Len(st)
         /\ \A k \in 1 .. Len(st) : /\ Gapless(st[k])
                                    /\ st[k].tag = "swap" => \A p \in Phys : flash[p].tag = "swap" => p = a
         /\ \A n : Within(flash[a], n) => Within(st[Len(st)], n)
         /\ st[Len(st)].tag # "swap"
    BY <1>2, <2>4, LooseTaggedData
  <2>13. InstallStages(a, st)
    BY <2>12 DEF InstallStages
  <2>14. InstallLands(a, st[Len(st)])
    <3>1. a # swap'.addr /\ swap' = swap
      BY <1>1, <1>2, <2>3 DEF LooseRoles
    <3> QED
      BY <1>2, <1>3, <2>12, <3>1 DEF InstallLands
  <2>15. Execute(a, st) /\ Op'.step \in {"tag swap", "tag data"}
    BY <1>1, <1>4, <2>2, <2>3, <2>4
  <2> QED
    BY <1>1, <1>4, <2>2, <2>10, <2>11, <2>13, <2>14, <2>15, LooseInstalls
<1> QED
  BY <1>5, <1>6

\* Every step of an installation.
LEMMA LooseInitExecute == ASSUME LooseInv, InitExecute PROVE LooseInv'
BY LooseInitTimeout, LooseInitTag, LooseInitData, LooseInitErase, LooseInitPromote DEF InitExecute

\* A flash operation ends: its page is what its last stage made of it.
LEMMA LooseLanded ==
    ASSUME LooseInv, FlashDone
    PROVE  /\ Flying /\ Working /\ ~ Telling /\ ~ Flying' /\ Working' /\ ~ Telling' /\ Proceeds'
           /\ UNCHANGED <<pages, swap, gc, phase, queue, latest, writes, timeouts>>
           /\ \A p \in Phys : flash'[p] = IF p = Landing THEN Outcome ELSE flash[p]
           /\ LooseFlash' /\ LooseTypes' /\ LooseStages' /\ queue # <<>> /\ Len(queue) <= QueueSize
           /\ LooseTypes /\ LooseOn /\ LooseOn' /\ LoosePages /\ Spaced
           /\ writes \in Nat /\ timeouts \in Nat /\ result' = "success"
           /\ phase = "installing" \/ phase = "initialized"
           /\ phase = "installing" => LooseInstall /\ Len(queue) = 1 /\ queue \in Seq(OpType) /\ Op.code = "init"
           /\ phase = "initialized" => LooseWriting /\ LooseDeleting /\ LooseGc /\ Op.code # "init"
<1>1. /\ Flying /\ flash' = [flash EXCEPT ![Landing] = Last(Stages)] /\ flashing' = NoFlash
      /\ hand' = "run" /\ result' = "success"
      /\ UNCHANGED <<pages, swap, gc, phase, queue, latest, writes, timeouts>>
  BY DEF FlashDone, Flying, Landing, Stages, ram, bounds
<1>2. Working /\ ~ Telling /\ ~ Resting /\ queue # <<>>
  BY <1>1 DEF LooseInv, Working, Telling, Resting
<1>3. ~ Flying' /\ Working' /\ ~ Telling' /\ Proceeds'
  BY <1>1, <1>2 DEF Flying, Working, Telling, Proceeds
<1>4. phase = "installing" \/ phase = "initialized"
  BY <1>2 DEF LooseInv
<1>5. /\ LooseFlash /\ LooseTypes /\ LooseStages /\ writes \in Nat /\ timeouts \in Nat /\ Len(queue) <= QueueSize
      /\ LooseOn /\ LoosePages
      /\ phase = "installing" => LooseInstall /\ Len(queue) = 1 /\ queue \in Seq(OpType) /\ Op.code = "init"
      /\ phase = "initialized" => LooseWriting /\ LooseDeleting /\ LooseGc /\ Op.code # "init"
  BY <1>1, <1>2, <1>4 DEF LooseInv
<1>6. Spaced
  BY <1>5, LooseFields DEF LooseTypes, ScanPages, Spaced
<1>7. PICK q : q = Outcome
  OBVIOUS
<1>8. Landing \in Phys => /\ q \in LoosePage /\ Gapless(q)
                          /\ q.tag = "swap" => \A p \in Phys : flash[p].tag = "swap" => p = Landing
  <2> SUFFICES ASSUME Landing \in Phys
               PROVE  /\ q \in LoosePage /\ Gapless(q)
                      /\ q.tag = "swap" => \A p \in Phys : flash[p].tag = "swap" => p = Landing
    OBVIOUS
  <2>1. Len(Stages) \in Nat /\ 1 <= Len(Stages)
    BY <1>1, <1>5 DEF LooseStages
  <2>2. Len(Stages) \in 1 .. Len(Stages)
    BY <2>1
  <2> QED
    BY <1>1, <1>5, <1>7, <2>2 DEF LooseStages, Outcome
<1>9. flash' = [flash EXCEPT ![Landing] = q]
  BY <1>1, <1>7 DEF Outcome, Last
<1>10. flash \in [Phys -> LoosePage] /\ OneSwap(flash) /\ \A p \in Phys : Gapless(flash[p])
  BY <1>5 DEF LooseFlash
<1>11. \A p \in Phys : flash'[p] = IF p = Landing THEN q ELSE flash[p]
  BY <1>9, <1>10
<1>12. LooseFlash'
  <2>1. flash' \in [Phys -> LoosePage]
    BY <1>8, <1>9, <1>10
  <2>2. OneSwap(flash)'
    BY <1>8, <1>10, <1>11 DEF OneSwap
  <2>3. \A p \in Phys : Gapless(flash'[p])
    BY <1>8, <1>10, <1>11
  <2> QED
    BY <2>1, <2>2, <2>3 DEF LooseFlash, Gapless, Within
<1>13. LooseTypes' /\ LooseStages'
  BY <1>1, <1>3, <1>5 DEF LooseTypes, LooseStages
<1>14. LooseOn'
  <2>1. LooseRoles' /\ QueueOK'
    BY <1>1, <1>5 DEF LooseOn, LooseRoles, QueueOK, OpOK, Waits, IsWriteOp
  <2>2. SpaceOK'
    BY <1>1, <1>2, <1>3, <1>5 DEF LooseOn, SpaceOK, WritesOn, IsWriteOp
  <2>3. LooseTags'
    <3>1. LooseTags /\ SwapAt' = SwapAt
      BY <1>1, <1>5 DEF LooseOn, SwapAt
    <3> SUFFICES ASSUME NEW p \in Phys, flash'[p].tag = "swap"
                 PROVE  p = SwapAt
      BY <1>3, <3>1 DEF LooseTags
    <3>2. CASE p = Landing
      BY <1>1, <1>7, <1>11, <3>1, <3>2 DEF LooseTags
    <3>3. CASE p # Landing
      BY <1>11, <3>1, <3>3 DEF LooseTags
    <3> QED
      BY <3>2, <3>3
  <2> QED
    BY <2>1, <2>2, <2>3 DEF LooseOn
<1> QED
  BY <1>1, <1>2, <1>3, <1>4, <1>5, <1>6, <1>7, <1>11, <1>12, <1>13, <1>14

\* What a page keeps when the operation spoils nothing of it.
LEMMA LooseKept ==
    ASSUME LooseInv, FlashDone, Keeps, NEW p \in Phys, NEW n \in 1 .. Slots + 1, Within(flash[p], n)
    PROVE  Within(flash'[p], n)
<1>1. flash'[p] = IF p = Landing THEN Outcome ELSE flash[p]
  BY LooseLanded
<1> QED
  BY <1>1 DEF Keeps

\* The installation goes on.
LEMMA LooseInstallDone == ASSUME LooseInv, FlashDone, phase = "installing" PROVE LooseInv'
<1>1. /\ Flying /\ ~ Flying' /\ Working' /\ ~ Telling' /\ Proceeds'
      /\ UNCHANGED <<pages, swap, gc, phase, queue, latest, writes, timeouts>>
      /\ \A p \in Phys : flash'[p] = IF p = Landing THEN Outcome ELSE flash[p]
      /\ LooseFlash' /\ LooseTypes' /\ LooseStages' /\ Len(queue) <= QueueSize
      /\ LooseTypes /\ LooseOn /\ LooseOn' /\ LoosePages /\ Spaced
      /\ writes \in Nat /\ timeouts \in Nat /\ result' = "success"
      /\ LooseInstall /\ Len(queue) = 1 /\ queue \in Seq(OpType) /\ Op.code = "init"
  BY LooseLanded
<1>2. Op' = Op /\ ~ GcLanded /\ ~ GcLanded' /\ \A i : ~ WritesAt(i) /\ ~ WritesAt(i)'
  BY <1>1 DEF Op, GcLanded, GcRunning, WritesAt, IsWriteOp
<1>3. /\ swap.offset = 1 /\ Op.step \in {"tag swap", "tag data"}
      /\ \/ Landing = swap.addr /\ Within(Outcome, 1)
         \/ Keeps /\ Within(OnSwap, 1) /\ Landing # swap.addr
  BY <1>1 DEF LooseInstall
<1>4. LooseRoles
  BY <1>1 DEF LooseOn
<1>5. Within(OnSwap', 1)
  <2>1. swap.addr \in Phys /\ swap'.addr = swap.addr
    BY <1>1, <1>4 DEF LooseRoles
  <2> QED
    BY <1>1, <1>3, <2>1 DEF OnSwap
<1>6. LoosePages'
  <2> SUFFICES ASSUME NEW i \in Index, pages[i].type # "undefined"
               PROVE  1 <= pages[i].offset /\ Within(OnPage(i)', pages[i].offset)
    BY <1>1, <1>2 DEF LoosePages
  <2>1. 1 <= pages[i].offset /\ Within(flash[pages[i].addr], pages[i].offset)
    BY <1>1, <1>2 DEF LoosePages, OnPage
  <2>2. pages[i].offset \in 0 .. Slots + 1
    BY <1>1, LooseFields DEF LooseTypes, ScanPages
  <2>3. pages[i].offset \in 1 .. Slots + 1
    BY <2>1, <2>2
  <2>4. pages[i].addr \in Phys /\ pages[i].addr # swap.addr
    BY <1>4 DEF LooseRoles
  <2>5. Within(flash'[pages[i].addr], pages[i].offset)
    BY <1>1, <1>3, <2>1, <2>3, <2>4, LooseKept
  <2> QED
    BY <1>1, <2>1, <2>5 DEF OnPage
<1>7. LooseInstall'
  <2>1. /\ gc.state = "begin" /\ gc.src = 0 /\ gc.todo = {}
        /\ \A i \in Index : pages[i].reserved = 0 /\ (pages[i].type = "erased" => pages[i].offset = 1)
    BY <1>1 DEF LooseInstall
  <2> QED
    BY <1>1, <1>2, <1>3, <1>5, <2>1 DEF LooseInstall
<1> QED
  BY <1>1, <1>2, <1>6, <1>7 DEF LooseInv

\* An operation goes on: what remains to be shown.
LEMMA LooseDone ==
    ASSUME LooseInv, FlashDone, phase = "initialized", LoosePages', GcReached'
    PROVE  LooseInv'
<1>1. /\ Flying /\ Working /\ ~ Flying' /\ Working' /\ ~ Telling' /\ Proceeds'
      /\ UNCHANGED <<pages, swap, gc, phase, queue, latest, writes, timeouts>>
      /\ LooseFlash' /\ LooseTypes' /\ LooseStages' /\ Len(queue) <= QueueSize /\ LooseOn'
      /\ writes \in Nat /\ timeouts \in Nat /\ result' = "success"
      /\ LooseWriting /\ LooseGc /\ Op.code # "init"
  BY LooseLanded
<1>2. Op' = Op
  BY <1>1 DEF Op
<1>3. LooseWriting' /\ LooseDeleting'
  BY <1>1 DEF LooseWriting, LooseDeleting, IsWriteOp
<1>4. LooseGc'
  <2>1. /\ \A k, l \in 1 .. Len(queue) : CollectsAt(k) /\ CollectsAt(l) => k = l
        /\ \A k \in 1 .. Len(queue) : k > 1 /\ queue[k].code = "gc" => gc.state = "begin" \/ gc.resume
    BY <1>1 DEF LooseGc
  <2>2. \A k : CollectsAt(k)' <=> CollectsAt(k)
    BY <1>1 DEF CollectsAt
  <2> QED
    BY <1>1, <2>1, <2>2 DEF LooseGc
<1> QED
  BY <1>1, <1>2, <1>3, <1>4 DEF LooseInv

\* What every page keeps is all that a write or a deletion needs.
LEMMA LooseKeepsAll ==
    ASSUME LooseInv, FlashDone, phase = "initialized", Op.code # "gc",
           \A p \in Phys, n \in 1 .. Slots + 1 : Within(flash[p], n) =>
              Within(flash'[p], n) \/ (IsWriteOp(Op) /\ p = WriteAddr),
           IsWriteOp(Op) => /\ ~ Late => Within(flash'[WriteAddr], WriteSlot)
                            /\ Keyed' => Within(flash'[WriteAddr], WriteSlot + 1)
    PROVE  LooseInv'
<1>1. /\ Flying /\ Working /\ ~ Flying' /\ Working' /\ ~ Telling' /\ Proceeds'
      /\ UNCHANGED <<pages, swap, gc, phase, queue, latest, writes, timeouts>>
      /\ LooseTypes /\ LooseOn /\ LoosePages /\ LooseGc /\ LooseWriting /\ queue # <<>>
  BY LooseLanded
<1>2. LooseRoles /\ QueueOK /\ SpaceOK
  BY <1>1 DEF LooseOn
<1>3. Op' = Op /\ ~ GcLanded /\ ~ GcLanded' /\ (Late' <=> Late) /\ (\A i : WritesAt(i)' <=> WritesAt(i))
  BY <1>1 DEF Op, GcLanded, GcRunning, Late, WritesAt, IsWriteOp
<1>4. LoosePages'
  <2> SUFFICES ASSUME NEW i \in Index, pages[i].type # "undefined"
               PROVE  /\ 1 <= pages[i].offset
                      /\ ~ (WritesAt(i) /\ Late) => Within(OnPage(i)', pages[i].offset)
                      /\ WritesAt(i) /\ Keyed' => Within(OnPage(i)', pages[i].offset + 1)
    BY <1>1, <1>3 DEF LoosePages
  <2>1. 1 <= pages[i].offset /\ pages[i].offset \in 1 .. Slots + 1 /\ pages[i].addr \in Phys
        /\ OnPage(i)' = flash'[pages[i].addr]
    <3>1. 1 <= pages[i].offset
      BY <1>1, <1>3 DEF LoosePages
    <3>2. pages[i].offset \in 0 .. Slots + 1
      BY <1>1, LooseFields DEF LooseTypes, ScanPages
    <3> QED
      BY <1>1, <1>2, <3>1, <3>2 DEF LooseRoles, OnPage
  <2>2. CASE WritesAt(i)
    <3>1. IsWriteOp(Op) /\ WriteAddr = pages[i].addr /\ WriteSlot = pages[i].offset
      BY <2>2 DEF WritesAt, WriteAddr, WriteSlot
    <3> QED
      BY <2>1, <2>2, <3>1
  <2>3. CASE ~ WritesAt(i)
    <3>1. Within(flash[pages[i].addr], pages[i].offset)
      BY <1>1, <1>3, <2>3 DEF LoosePages, OnPage
    <3>2. ~ (IsWriteOp(Op) /\ pages[i].addr = WriteAddr)
      <4>1. IsWriteOp(Op) => Op.page \in Index
        BY <1>1, <1>2, OpFacts DEF OpOK
      <4>2. IsWriteOp(Op) => Op.page # i
        BY <1>1, <2>3 DEF WritesAt
      <4> QED
        BY <1>2, <4>1, <4>2 DEF LooseRoles, WriteAddr
    <3> QED
      BY <2>1, <2>3, <3>1, <3>2
  <2> QED
    BY <2>2, <2>3
<1>5. GcReached'
  <2>1. GcReached
    BY <1>1 DEF LooseGc
  <2>2. gc.state # "discard" => Within(OnSwap', swap.offset)
    <3> SUFFICES ASSUME gc.state # "discard"
                 PROVE  Within(OnSwap', swap.offset)
      OBVIOUS
    <3>1. Within(flash[swap.addr], swap.offset)
      BY <1>3, <2>1 DEF GcReached, OnSwap
    <3>2. swap.addr \in Phys /\ 1 <= swap.offset /\ swap.offset \in 0 .. Slots + 1
      BY <1>1, <1>2 DEF LooseTypes, LooseRoles, ScanOffset
    <3>3. swap.offset \in 1 .. Slots + 1
      BY <3>2
    <3>4. ~ (IsWriteOp(Op) /\ swap.addr = WriteAddr)
      <4>1. IsWriteOp(Op) => Op.page \in Index
        BY <1>1, <1>2, OpFacts DEF OpOK
      <4> QED
        BY <1>2, <4>1 DEF LooseRoles, WriteAddr
    <3> QED
      BY <1>1, <3>1, <3>2, <3>3, <3>4 DEF OnSwap
  <2> QED
    BY <1>1, <1>3, <2>1, <2>2 DEF GcReached
<1> QED
  BY <1>4, <1>5, LooseDone

\* A write or a deletion goes on.
LEMMA LooseWriteLands ==
    ASSUME LooseInv, FlashDone, phase = "initialized", Op.code # "gc"
    PROVE  LooseInv'
<1>1. /\ Flying /\ Working /\ ~ Telling /\ Spaced /\ ~ Flying' /\ Proceeds' /\ queue # <<>>
      /\ UNCHANGED <<pages, swap, gc, phase, queue, latest, writes, timeouts>>
      /\ \A p \in Phys : flash'[p] = IF p = Landing THEN Outcome ELSE flash[p]
      /\ LooseTypes /\ LooseOn /\ LoosePages /\ LooseWriting /\ LooseDeleting /\ Op.code # "init"
  BY LooseLanded
<1>2. LooseRoles /\ QueueOK /\ SpaceOK
  BY <1>1 DEF LooseOn
<1>3. Op \in OpType /\ OpOK(Op) /\ Op' = Op
  BY <1>1, <1>2, OpFacts DEF Op
<1>4. Keeps => \A p \in Phys, n \in 1 .. Slots + 1 : Within(flash[p], n) => Within(flash'[p], n)
  BY LooseKept
<1>5. CASE ~ IsWriteOp(Op)
  <2>1. Op.code \in {"delete", "delete file"}
    <3>1. Op.code \in Codes
      BY <1>3 DEF OpType
    <3> QED
      BY <1>1, <1>5, <3>1 DEF Codes, IsWriteOp
  <2>2. Keeps
    BY <1>1, <2>1 DEF LooseDeleting
  <2> QED
    BY <1>4, <1>5, <2>2, LooseKeepsAll
<1>6. CASE IsWriteOp(Op)
  <2>1. /\ Op.page \in Index /\ WriteAddr = pages[Op.page].addr /\ WriteSlot = pages[Op.page].offset /\ WriteAddr \in Phys
    BY <1>2, <1>3, <1>6 DEF OpOK, WriteAddr, WriteSlot, LooseRoles
  <2>2. CASE Op.code = "update" /\ Op.step = "done" /\ Keeps
    <3>1. Late /\ Keyed /\ WritesAt(Op.page) /\ ~ GcLanded
      BY <1>1, <1>6, <2>2 DEF Late, Keyed, WritesAt, GcLanded, GcRunning
    <3>2. pages[Op.page].type = "data"
      <4>1. Op = queue[1] /\ 1 \in 1 .. Len(queue)
        BY <1>1, <1>2, OpFacts
      <4> QED
        BY <1>1, <1>6, <4>1 DEF LooseWriting
    <3>3. Within(flash[WriteAddr], WriteSlot + 1) /\ 1 <= WriteSlot
      BY <1>1, <2>1, <3>1, <3>2 DEF LoosePages, OnPage
    <3>4. WriteSlot + 1 \in 1 .. Slots + 1
      <4>1. WriteSlot \in Places
        BY <1>1, <1>2, <1>3, <1>6, <2>1, <3>3, SpaceHeld
      <4> QED
        BY <4>1, ConstantFacts DEF Places
    <3> QED
      BY <1>4, <2>1, <2>2, <3>1, <3>3, <3>4, LooseKeepsAll
  <2>3. CASE /\ Landing = WriteAddr
             /\ Op.step \in {"id", "data", "finalize"} => Within(Outcome, WriteSlot)
             /\ Within(Outcome, WriteSlot + 1)
    <3>1. flash'[WriteAddr] = Outcome
      BY <1>1, <2>1, <2>3
    <3>2. ~ Late => Op.step \in {"id", "data", "finalize"}
      <4>1. Op.step \notin {"begin", "find"}
        BY <1>1, <1>6 DEF LooseWriting
      <4> QED
        BY <1>3, <1>6, <4>1 DEF OpOK, IsWriteOp, Late
    <3>3. \A p \in Phys, n \in 1 .. Slots + 1 : Within(flash[p], n) =>
              Within(flash'[p], n) \/ (IsWriteOp(Op) /\ p = WriteAddr)
      BY <1>1, <1>6, <2>3
    <3> QED
      BY <2>3, <3>1, <3>2, <3>3, LooseKeepsAll
  <2> QED
    BY <1>1, <1>6, <2>2, <2>3 DEF LooseWriting
<1> QED
  BY <1>5, <1>6

\* A collection goes on: what it left is what its next step starts from.
LEMMA LooseCollectorLands ==
    ASSUME LooseInv, FlashDone, phase = "initialized", Op.code = "gc"
    PROVE  LooseInv'
<1>1. /\ Flying /\ Working /\ ~ Flying' /\ Working' /\ Proceeds' /\ queue # <<>>
      /\ UNCHANGED <<pages, swap, gc, phase, queue, latest, writes, timeouts>>
      /\ \A p \in Phys : flash'[p] = IF p = Landing THEN Outcome ELSE flash[p]
      /\ LooseTypes /\ LooseOn /\ LoosePages /\ LooseGc
  BY LooseLanded
<1>2. LooseRoles /\ GcReached /\ GcRunning /\ GcOutcome
  BY <1>1 DEF LooseOn, LooseGc
<1>3. Op' = Op /\ ~ GcLanded /\ GcLanded' /\ \A i : ~ WritesAt(i) /\ ~ WritesAt(i)'
  BY <1>1, <1>2 DEF Op, GcLanded, GcRunning, WritesAt, IsWriteOp
<1>4. /\ gc.cur \in Index /\ pages[gc.cur].addr \in Phys /\ swap.addr \in Phys /\ pages[gc.cur].addr # swap.addr
      /\ gc.state \in {"copy", "erase", "promote", "discard", "tag"}
      /\ OnSwap' = flash'[swap.addr] /\ swap.offset \in 1 .. Slots + 1
  <2>1. gc.cur \in Index /\ gc.state \in {"begin", "copy", "erase", "promote", "discard", "tag"}
    BY <1>1, LooseFields DEF LooseTypes
  <2>2. 1 <= swap.offset /\ swap.offset \in 0 .. Slots + 1
    BY <1>1, <1>2 DEF LooseRoles, LooseTypes, ScanOffset
  <2>3. swap.offset \in 1 .. Slots + 1
    BY <2>2
  <2> QED
    BY <1>1, <1>2, <2>1, <2>3 DEF LooseRoles, GcRunning, OnSwap
<1>5. \A i \in Index : pages[i].type # "undefined" =>
         /\ 1 <= pages[i].offset /\ Within(flash[pages[i].addr], pages[i].offset)
         /\ pages[i].offset \in 1 .. Slots + 1 /\ OnPage(i)' = flash'[pages[i].addr]
         /\ pages[i].addr \in Phys /\ pages[i].addr # swap.addr
  <2> SUFFICES ASSUME NEW i \in Index, pages[i].type # "undefined"
               PROVE  /\ 1 <= pages[i].offset /\ Within(flash[pages[i].addr], pages[i].offset)
                      /\ pages[i].offset \in 1 .. Slots + 1 /\ OnPage(i)' = flash'[pages[i].addr]
                      /\ pages[i].addr \in Phys /\ pages[i].addr # swap.addr
    OBVIOUS
  <2>1. 1 <= pages[i].offset /\ Within(flash[pages[i].addr], pages[i].offset)
    BY <1>1, <1>3 DEF LoosePages, OnPage
  <2>2. pages[i].offset \in 0 .. Slots + 1
    BY <1>1, LooseFields DEF LooseTypes, ScanPages
  <2>3. pages[i].offset \in 1 .. Slots + 1
    BY <2>1, <2>2
  <2> QED
    BY <1>1, <1>2, <2>1, <2>3 DEF LooseRoles, OnPage
<1>6. LoosePages'
  <2> SUFFICES ASSUME NEW i \in Index, pages[i].type # "undefined"
               PROVE  /\ 1 <= pages[i].offset
                      /\ IF gc.state = "erase" /\ i = gc.cur THEN Within(OnPage(i)', 1)
                         ELSE Within(OnPage(i)', pages[i].offset)
    BY <1>1, <1>3 DEF LoosePages
  <2>1. CASE gc.state = "erase" /\ i = gc.cur
    BY <1>1, <1>2, <1>4, <1>5, <2>1 DEF GcOutcome
  <2>2. CASE gc.state \in {"erase", "promote"} /\ i # gc.cur
    <3>1. pages[i].addr # Landing
      BY <1>2, <1>4, <2>2 DEF GcOutcome, LooseRoles
    <3> QED
      BY <1>1, <1>5, <2>2, <3>1
  <2>3. CASE gc.state = "promote" /\ i = gc.cur
    <3>1. pages[i].addr = Landing /\ \A n \in 1 .. Slots + 1 : Within(flash[Landing], n) => Within(Outcome, n)
      BY <1>2, <2>3 DEF GcOutcome
    <3>2. Within(flash'[pages[i].addr], pages[i].offset)
      BY <1>1, <1>5, <3>1
    <3> QED
      BY <1>5, <2>3, <3>2
  <2>4. CASE gc.state \in {"copy", "discard", "tag"}
    <3>1. pages[i].addr # Landing
      BY <1>2, <1>5, <2>4 DEF GcOutcome
    <3> QED
      BY <1>1, <1>5, <2>4, <3>1
  <2> QED
    BY <1>4, <2>1, <2>2, <2>3, <2>4
<1>7. Within(OnSwap', IF gc.state = "copy" THEN swap.offset + 1 ELSE swap.offset)
  <2>1. CASE gc.state = "copy"
    BY <1>1, <1>2, <1>4, <2>1 DEF GcOutcome
  <2>2. CASE gc.state \in {"erase", "promote"}
    <3>1. Landing # swap.addr /\ Within(OnSwap, swap.offset)
      BY <1>2, <1>3, <1>4, <2>2 DEF GcOutcome, GcReached
    <3> QED
      BY <1>1, <1>4, <2>2, <3>1 DEF OnSwap
  <2>3. CASE gc.state = "discard"
    BY <1>1, <1>2, <1>4, <2>3 DEF GcOutcome, GcReached
  <2>4. CASE gc.state = "tag"
    <3>1. Within(flash[swap.addr], swap.offset)
      BY <1>2, <1>3, <2>4 DEF GcReached, OnSwap
    <3>2. Landing = swap.addr /\ \A n \in 1 .. Slots + 1 : Within(flash[Landing], n) => Within(Outcome, n)
      BY <1>2, <2>4 DEF GcOutcome
    <3> QED
      BY <1>1, <1>4, <2>4, <3>1, <3>2
  <2> QED
    BY <1>4, <2>1, <2>2, <2>3, <2>4
<1>8. gc.state = "promote" => OnPage(gc.cur)'.tag # "swap"
  <2>1. OnPage(gc.cur)' = flash'[pages[gc.cur].addr]
    BY <1>1 DEF OnPage
  <2> QED
    BY <1>1, <1>2, <1>4, <2>1 DEF GcOutcome
<1>9. GcReached'
  <2>1. /\ \A i \in gc.todo : pages[i].type = "data"
        /\ pages[gc.cur].type = "data"
        /\ gc.state \in {"begin", "promote", "discard", "tag"} => swap.offset = 1
        /\ gc.state \in {"begin", "tag"} => gc.src = 0
        /\ gc.state = "copy" => gc.src \in Places /\ swap.offset <= gc.src /\ gc.src < pages[gc.cur].offset
        /\ gc.state = "erase" => swap.offset <= pages[gc.cur].offset
    BY <1>2, <1>4 DEF GcReached
  <2> QED
    BY <1>1, <1>3, <1>7, <1>8, <2>1 DEF GcReached
<1> QED
  BY <1>6, <1>9, LooseDone

\* A flash operation ends, in an installation or with the storage up.
LEMMA LooseFlashDone == ASSUME LooseInv, FlashDone PROVE LooseInv'
<1>1. phase = "installing" \/ phase = "initialized"
  BY LooseLanded
<1> QED
  BY <1>1, LooseInstallDone, LooseWriteLands, LooseCollectorLands

\* fstorage gives up: the page is what it was, and the handler runs.
LEMMA LooseFlashTimeout == ASSUME LooseInv, FlashTimeout PROVE LooseInv'
<1>1. /\ Flying /\ flashing' = NoFlash /\ hand' = "run" /\ result' = "timeout" /\ timeouts' = timeouts + 1
      /\ UNCHANGED <<flash, pages, swap, gc, phase, queue, latest, writes>>
  BY DEF FlashTimeout, Flying, ram
<1>2. Working /\ ~ Telling /\ ~ Resting /\ queue # <<>>
  BY <1>1 DEF LooseInv, Working, Telling, Resting
<1>3. ~ Flying' /\ Working' /\ ~ Telling' /\ ~ Proceeds' /\ Op' = Op
  BY <1>1, <1>2 DEF Flying, Working, Telling, Proceeds, Op
<1>4. phase = "installing" \/ phase = "initialized"
  BY <1>2 DEF LooseInv
<1>5. /\ LooseFlash /\ LooseTypes /\ LooseStages /\ writes \in Nat /\ timeouts \in Nat /\ Len(queue) <= QueueSize
      /\ LooseOn /\ LoosePages
      /\ phase = "installing" => Len(queue) = 1 /\ queue \in Seq(OpType) /\ Op.code = "init"
      /\ phase = "initialized" => LooseWriting /\ LooseDeleting /\ LooseGc /\ Op.code # "init"
  BY <1>1, <1>2, <1>4 DEF LooseInv
<1>6. LooseFlash' /\ LooseTypes' /\ LooseStages' /\ timeouts' \in Nat
  BY <1>1, <1>3, <1>5 DEF LooseFlash, LooseTypes, LooseStages
<1>7. CASE phase = "installing"
  BY <1>1, <1>3, <1>5, <1>6, <1>7 DEF LooseInv
<1>8. CASE phase = "initialized"
  <2>1. LooseOn'
    <3>1. LooseRoles' /\ QueueOK'
      BY <1>1, <1>5 DEF LooseOn, LooseRoles, QueueOK, OpOK, Waits, IsWriteOp
    <3>2. SpaceOK'
      BY <1>1, <1>2, <1>3, <1>5 DEF LooseOn, SpaceOK, WritesOn, IsWriteOp
    <3>3. LooseTags'
      BY <1>1, <1>3, <1>5, <1>8 DEF LooseOn, LooseTags, SwapAt
    <3> QED
      BY <3>1, <3>2, <3>3 DEF LooseOn
  <2>2. ~ GcLanded /\ ~ GcLanded'
    BY <1>1, <1>3 DEF GcLanded
  <2>3. /\ (Late' <=> Late) /\ (\A i : WritesAt(i)' <=> WritesAt(i)) /\ (Keyed' => Keyed)
        /\ \A i : OnPage(i)' = OnPage(i)
    BY <1>1, <1>2, <1>3 DEF Late, WritesAt, Keyed, IsWriteOp, OnPage
  <2>4. LoosePages'
    BY <1>1, <1>5, <2>2, <2>3 DEF LoosePages
  <2>5. LooseWriting' /\ LooseDeleting'
    BY <1>1, <1>2, <1>3, <1>5, <1>8 DEF LooseWriting, LooseDeleting, IsWriteOp
  <2>6. LooseGc'
    <3>1. OnSwap' = OnSwap /\ GcReached
      BY <1>1, <1>5, <1>8 DEF OnSwap, LooseGc
    <3>2. GcReached'
      BY <1>1, <2>2, <3>1 DEF GcReached
    <3>3. \A k : CollectsAt(k)' <=> CollectsAt(k)
      BY <1>1, <1>2, <1>3 DEF CollectsAt
    <3> QED
      BY <1>1, <1>3, <1>5, <1>8, <3>2, <3>3 DEF LooseGc
  <2> QED
    BY <1>1, <1>3, <1>5, <1>6, <1>8, <2>1, <2>4, <2>5, <2>6 DEF LooseInv
<1> QED
  BY <1>4, <1>7, <1>8

\* Power goes: flash holds some stage of the operation in flight.
LEMMA LooseCut == ASSUME LooseInv, PowerCut PROVE LooseInv'
<1>1. /\ \/ UNCHANGED flash
         \/ \E k \in 1 .. Len(Stages) : flash' = [flash EXCEPT ![Landing] = Stages[k]]
      /\ pages' = NoPages /\ swap' = NoSwap /\ gc' = GcIdle /\ phase' = "off" /\ queue' = <<>>
      /\ latest' = 0 /\ flashing' = NoFlash /\ hand' = "idle" /\ result' = "success"
      /\ UNCHANGED <<writes, timeouts>>
  BY DEF PowerCut, Stages, Landing
<1>2. LooseFlash /\ LooseStages /\ writes \in Nat /\ timeouts \in Nat
  BY DEF LooseInv
<1>3. ~ Flying' /\ Resting'
  BY <1>1 DEF Flying, Resting
<1>4. LooseFlash'
  <2>1. CASE UNCHANGED flash
    BY <1>2, <2>1 DEF LooseFlash
  <2>2. ASSUME NEW k \in 1 .. Len(Stages), flash' = [flash EXCEPT ![Landing] = Stages[k]]
        PROVE  LooseFlash'
    <3>1. flash \in [Phys -> LoosePage] /\ OneSwap(flash) /\ \A p \in Phys : Gapless(flash[p])
      BY <1>2 DEF LooseFlash
    <3>2. Flying
      BY <2>2 DEF Flying, NoFlash, Stages
    <3>3. PICK q : q = Stages[k]
      OBVIOUS
    <3>4. Landing \in Phys => /\ q \in LoosePage /\ Gapless(q)
                              /\ q.tag = "swap" => \A p \in Phys : flash[p].tag = "swap" => p = Landing
      BY <1>2, <3>2, <3>3 DEF LooseStages
    <3>5. \A p \in Phys : flash'[p] = IF p = Landing THEN q ELSE flash[p]
      BY <2>2, <3>1, <3>3
    <3>6. flash' \in [Phys -> LoosePage]
      BY <2>2, <3>1, <3>3, <3>4
    <3>7. OneSwap(flash)'
      BY <3>1, <3>4, <3>5 DEF OneSwap
    <3>8. \A p \in Phys : Gapless(flash'[p])
      BY <3>1, <3>4, <3>5
    <3> QED
      BY <3>6, <3>7, <3>8 DEF LooseFlash, Gapless, Within
  <2> QED
    BY <1>1, <2>1, <2>2
<1>5. LooseTypes' /\ LooseStages'
  <2>1. pages' \in ScanPages
    BY <1>1, ConstantFacts DEF NoPages, NewPage, ScanPages, ScanInfo
  <2>2. swap' \in [addr : Phys \union {NoPage}, offset : ScanOffset]
    BY <1>1, ConstantFacts DEF NoSwap, ScanOffset
  <2>3. gc' \in LooseGcInfo
    BY <1>1, LooseFields
  <2> QED
    BY <1>3, <2>1, <2>2, <2>3 DEF LooseTypes, LooseStages
<1>6. Len(queue') <= QueueSize
  BY <1>1, ConstantFacts
<1> QED
  BY <1>1, <1>2, <1>3, <1>4, <1>5, <1>6 DEF LooseInv

\* A queue of no operations is empty.
LEMMA EmptyOfType == ASSUME NEW q \in Seq(OpType), Len(q) = 0 PROVE q = <<>>
  OBVIOUS

\* The users of an operation have been told: the next one is at the head.
LEMMA LooseQueueNext == ASSUME LooseInv, QueueNext PROVE LooseInv'
<1>1. /\ hand = "event" /\ queue' = Tail(queue)
      /\ hand' = IF Len(queue) > 1 THEN "run" ELSE "idle"
      /\ result' = "success"
      /\ UNCHANGED <<flash, flashing, pages, swap, gc, phase, latest, writes, timeouts>>
  BY DEF QueueNext, bounds
<1>2. Telling /\ ~ Working /\ ~ Resting /\ ~ Flying /\ ~ Flying' /\ queue # <<>>
  BY <1>1 DEF LooseInv, Working, Telling, Resting, Flying
<1>3. phase = "failed" \/ phase = "initialized"
  BY <1>2 DEF LooseInv
<1>4. /\ LooseFlash /\ LooseTypes /\ writes \in Nat /\ timeouts \in Nat /\ Len(queue) <= QueueSize
      /\ phase = "failed" => Len(queue) = 1 /\ queue \in Seq(OpType)
      /\ phase = "initialized" => LooseOn /\ LoosePages /\ LooseWriting /\ LooseGc
  BY <1>2, <1>3 DEF LooseInv
<1>5. LooseFlash' /\ LooseTypes' /\ LooseStages'
  BY <1>1, <1>2, <1>4 DEF LooseFlash, LooseTypes, LooseStages
<1>6. CASE phase = "failed"
  <2>1. Tail(queue) = <<>> /\ Len(queue') <= QueueSize
    <3>1. Tail(queue) \in Seq(OpType) /\ Len(Tail(queue)) = 0
      BY <1>2, <1>4, <1>6
    <3>2. Tail(queue) = <<>>
      BY <3>1, EmptyOfType
    <3> QED
      BY <1>1, <3>2, ConstantFacts
  <2>2. Resting'
    BY <1>1, <1>2, <1>4, <1>6, <2>1 DEF Resting
  <2> QED
    BY <1>1, <1>4, <1>5, <1>6, <2>1, <2>2 DEF LooseInv
<1>7. CASE phase = "initialized"
  <2>1. LooseRoles /\ QueueOK /\ SpaceOK /\ LooseTags /\ Spaced
    BY <1>4, <1>7, LooseFields DEF LooseOn, LooseTypes, ScanPages, Spaced
  <2>2. /\ queue' \in Seq(OpType) /\ Len(queue) \in Nat /\ Len(queue) >= 1 /\ Len(queue') = Len(queue) - 1
        /\ \A k \in 1 .. Len(queue') : /\ k + 1 \in 1 .. Len(queue) /\ queue'[k] = queue[k + 1] /\ k + 1 > 1
                                       /\ k + 1 # 1
        /\ \A k \in 1 .. Len(queue') : Waits(queue[k])'
        /\ \A i : WritesOn(i)' \subseteq WritesOn(i)
        /\ QueueOK'
    BY <1>1, <1>2, <2>1, TailOK
  <2>3. Len(queue) > 1 => queue' # <<>> /\ Op' = queue'[1] /\ 1 \in 1 .. Len(queue')
    <3>1. Len(queue) > 1 => Len(queue') >= 1
      BY <2>2
    <3> QED
      BY <2>2, <3>1, HeadFirst DEF Op
  <2>4. ~ (Len(queue) > 1) => queue' = <<>>
    BY <2>2
  <2>5. /\ ~ (Len(queue) > 1) => Resting' /\ ~ Working'
        /\ Len(queue) > 1 => Working' /\ ~ Telling'
    BY <1>1, <1>2, <2>3, <2>4 DEF Resting, Working, Telling, Flying
  <2>6. Working' => /\ Waits(Op)' /\ Op' = queue'[1] /\ 1 \in 1 .. Len(queue') /\ queue'[1] = queue[2] /\ 2 \in 1 .. Len(queue)
    BY <2>2, <2>3, <2>5
  <2>7. ~ GcLanded /\ ~ GcRunning' /\ ~ GcLanded'
    <3>1. ~ GcLanded
      BY <1>2 DEF GcLanded, GcRunning
    <3>2. Working' /\ Op'.code = "gc" => gc.state = "begin" \/ gc.resume
      BY <1>4, <1>7, <2>6 DEF LooseGc
    <3>3. ~ GcRunning'
      BY <1>1, <3>2 DEF GcRunning
    <3> QED
      BY <3>1, <3>3 DEF GcLanded
  <2>8. \A i : ~ WritesAt(i) /\ (WritesAt(i)' => ~ Late' /\ ~ Keyed')
    <3>1. \A i : ~ WritesAt(i)
      BY <1>2 DEF WritesAt
    <3>2. ASSUME NEW i, WritesAt(i)' PROVE ~ Late' /\ ~ Keyed'
      <4>1. Waits(Op)' /\ IsWriteOp(Op)'
        BY <2>6, <3>2 DEF WritesAt
      <4>2. Op'.step \in {"begin", "find"}
        BY <4>1 DEF Waits, IsWriteOp
      <4> QED
        BY <4>2 DEF Late, Keyed
    <3> QED
      BY <3>1, <3>2
  <2>9. LoosePages'
    <3> SUFFICES ASSUME NEW i \in Index, pages[i].type # "undefined"
                 PROVE  1 <= pages[i].offset /\ Within(OnPage(i), pages[i].offset)
      BY <1>1, <2>7, <2>8 DEF LoosePages, OnPage
    <3> QED
      BY <1>4, <1>7, <2>7, <2>8 DEF LoosePages
  <2>10. LooseOn'
    <3>1. SpaceOK'
      BY <1>1, <2>1, <2>2, SpaceStays
    <3>2. LooseRoles' /\ LooseTags'
      BY <1>1, <1>2, <2>1 DEF LooseRoles, LooseTags, SwapAt
    <3> QED
      BY <2>2, <3>1, <3>2 DEF LooseOn
  <2>11. LooseWriting' /\ LooseDeleting'
    <3>1. \A k \in 1 .. Len(queue') : IsWriteOp(queue[k])' => pages'[queue'[k].page].type = "data"
      BY <1>1, <1>4, <1>7, <2>2 DEF LooseWriting, IsWriteOp
    <3>2. Proceeds'
      BY <1>1 DEF Proceeds
    <3> QED
      BY <1>2, <3>1, <3>2 DEF LooseWriting, LooseDeleting
  <2>12. LooseGc'
    <3>1. OnSwap' = OnSwap /\ GcReached
      BY <1>1, <1>4, <1>7 DEF OnSwap, LooseGc
    <3>2. GcReached'
      BY <1>1, <2>7, <3>1 DEF GcReached
    <3>3. \A k \in 1 .. Len(queue') : CollectsAt(k)' => CollectsAt(k + 1)
      BY <2>2 DEF CollectsAt
    <3>4. \A k, l \in 1 .. Len(queue') : CollectsAt(k)' /\ CollectsAt(l)' => k = l
      <4>1. \A k, l \in 1 .. Len(queue') : k + 1 = l + 1 => k = l
        OBVIOUS
      <4>2. \A k, l \in 1 .. Len(queue) : CollectsAt(k) /\ CollectsAt(l) => k = l
        BY <1>4, <1>7 DEF LooseGc
      <4> QED
        BY <2>2, <3>3, <4>1, <4>2
    <3>5. \A k \in 1 .. Len(queue') : k > 1 /\ queue'[k].code = "gc" => gc'.state = "begin" \/ gc'.resume
      BY <1>1, <1>4, <1>7, <2>2 DEF LooseGc
    <3> QED
      BY <1>2, <3>2, <3>4, <3>5 DEF LooseGc
  <2>13. queue' # <<>> => Working' /\ Op'.code # "init"
    <3>1. queue' # <<>> => Working'
      BY <2>4, <2>5
    <3> QED
      BY <2>6, <3>1 DEF Waits
  <2>14. (Working' \/ Resting') /\ Len(queue') <= QueueSize
    BY <2>2, <2>5 DEF QueueOK
  <2> QED
    BY <1>1, <1>4, <1>5, <1>7, <2>9, <2>10, <2>11, <2>12, <2>13, <2>14 DEF LooseInv
<1> QED
  BY <1>3, <1>6, <1>7

\* only how many records are open on each page changes
OpenOnly == \A i \in Index : /\ pages'[i].type = pages[i].type /\ pages'[i].addr = pages[i].addr
                             /\ pages'[i].offset = pages[i].offset /\ pages'[i].reserved = pages[i].reserved

\* A client opens or closes records: only how many are open on each page.
LEMMA LooseOpens ==
    ASSUME LooseInv, pages' \in ScanPages, OpenOnly,
           UNCHANGED <<flash, flashing, hand, result, swap, gc, phase, queue, latest, writes, timeouts>>
    PROVE  LooseInv'
<1>1. /\ Flying' <=> Flying
      /\ Working' <=> Working
      /\ Telling' <=> Telling
      /\ Resting' <=> Resting
      /\ Op' = Op /\ Landing' = Landing /\ Stages' = Stages /\ Outcome' = Outcome
      /\ Proceeds' <=> Proceeds
      /\ OnSwap' = OnSwap
  BY DEF Flying, Working, Telling, Resting, Op, Landing, Stages, Outcome, Proceeds, OnSwap
<1>2. LooseFlash' /\ LooseTypes' /\ LooseStages' /\ gc.cur \in Index /\ gc.todo \subseteq Index
  <2>1. gc.cur \in Index /\ gc.todo \subseteq Index
    BY LooseFields DEF LooseInv, LooseTypes
  <2> QED
    BY <1>1, <2>1 DEF LooseInv, LooseFlash, LooseTypes, LooseStages
<1>3. /\ \A i \in Index : OnPage(i)' = OnPage(i)
      /\ SwapAt' = SwapAt
      /\ GcRunning' <=> GcRunning
      /\ GcLanded' <=> GcLanded
      /\ Keeps' <=> Keeps
      /\ Late' <=> Late
      /\ Keyed' <=> Keyed
      /\ \A i : WritesAt(i)' <=> WritesAt(i)
      /\ \A i : WritesOn(i)' = WritesOn(i)
  BY <1>1, <1>2 DEF OnPage, SwapAt, GcRunning, GcLanded, Keeps, Late, Keyed, WritesAt, WritesOn, OpenOnly
<1>4. LooseOn => LooseOn'
  <2> SUFFICES ASSUME LooseOn PROVE LooseOn'
    OBVIOUS
  <2>1. LooseRoles /\ QueueOK /\ SpaceOK /\ LooseTags
    BY DEF LooseOn
  <2>2. LooseRoles'
    BY <2>1 DEF LooseRoles, OpenOnly
  <2>3. QueueOK'
    BY <2>1 DEF QueueOK, OpOK
  <2>4. SpaceOK'
    BY <1>3, <2>1 DEF SpaceOK, OpenOnly
  <2>5. LooseTags'
    BY <1>1, <1>3, <2>1 DEF LooseTags
  <2> QED
    BY <2>2, <2>3, <2>4, <2>5 DEF LooseOn
<1>5. LoosePages => LoosePages'
  BY <1>3 DEF LoosePages, OpenOnly
<1>6. LooseOn /\ LooseWriting => LooseWriting'
  <2> SUFFICES ASSUME LooseOn, LooseWriting PROVE LooseWriting'
    OBVIOUS
  <2>1. QueueOK
    BY DEF LooseOn
  <2>2. \A k \in 1 .. Len(queue) : IsWriteOp(queue[k]) => queue[k].page \in Index
    BY <2>1 DEF QueueOK, OpOK
  <2>3. Working /\ IsWriteOp(Op) => Op.page \in Index
    BY <2>1, OpFacts DEF Working, OpOK
  <2>4. Working /\ IsWriteOp(Op) => WriteAddr' = WriteAddr /\ WriteSlot' = WriteSlot
    BY <1>1, <2>3 DEF WriteAddr, WriteSlot, OpenOnly
  <2>5. \A k \in 1 .. Len(queue') : IsWriteOp(queue[k])' => pages'[queue'[k].page].type = "data"
    BY <2>2 DEF LooseWriting, OpenOnly, IsWriteOp
  <2> QED
    BY <1>1, <1>3, <2>4, <2>5 DEF LooseWriting, IsWriteOp
<1>7. LooseDeleting => LooseDeleting'
  BY <1>1, <1>3 DEF LooseDeleting
<1>8. LooseGc => LooseGc'
  <2> SUFFICES ASSUME LooseGc PROVE LooseGc'
    OBVIOUS
  <2>1. pages'[gc.cur].offset = pages[gc.cur].offset /\ pages'[gc.cur].type = pages[gc.cur].type
        /\ pages'[gc.cur].addr = pages[gc.cur].addr
    BY <1>2 DEF OpenOnly
  <2>2. \A i \in gc.todo : pages'[i].type = pages[i].type
    BY <1>2 DEF OpenOnly
  <2>3. GcReached'
    BY <1>1, <1>2, <1>3, <2>1, <2>2 DEF LooseGc, GcReached
  <2>4. GcOutcome => GcOutcome'
    BY <1>1, <2>1 DEF GcOutcome
  <2>5. \A k : CollectsAt(k)' <=> CollectsAt(k)
    BY <1>1 DEF CollectsAt
  <2> QED
    BY <1>1, <1>3, <2>3, <2>4, <2>5 DEF LooseGc
<1>9. LooseInstall => LooseInstall'
  BY <1>1, <1>2, <1>3 DEF LooseInstall, OpenOnly
<1> QED
  BY <1>1, <1>2, <1>4, <1>5, <1>6, <1>7, <1>8, <1>9 DEF LooseInv

\* One more record is open, or fewer are.
LEMMA LooseOpen ==
    ASSUME pages \in ScanPages, pages' = [i \in Index |-> pages'[i]],
           \A i \in Index : pages'[i] = pages[i] \/ \E n \in Nat : pages'[i] = [pages[i] EXCEPT !.open = n]
    PROVE  pages' \in ScanPages /\ OpenOnly
<1>1. ASSUME NEW i \in Index
      PROVE  /\ pages'[i] \in ScanInfo
             /\ pages'[i].type = pages[i].type /\ pages'[i].addr = pages[i].addr
             /\ pages'[i].offset = pages[i].offset /\ pages'[i].reserved = pages[i].reserved
  <2> DEFINE R == 0 .. Slots
             O == 0 .. Slots + 1
  <2>1. ScanInfo = [type : {"data", "erased", "undefined"}, addr : Phys \union {NoPage}, offset : O,
                    reserved : R, open : Nat, canGc : BOOLEAN]
    BY DEF ScanInfo
  <2>2. pages[i] \in ScanInfo
    BY <1>1 DEF ScanPages
  <2> HIDE DEF R, O
  <2>3. ASSUME NEW n \in Nat, NEW q, q = [pages[i] EXCEPT !.open = n]
        PROVE  /\ q \in ScanInfo
               /\ q.type = pages[i].type /\ q.addr = pages[i].addr
               /\ q.offset = pages[i].offset /\ q.reserved = pages[i].reserved
    BY <2>1, <2>2, <2>3
  <2> QED
    BY <1>1, <2>2, <2>3
<1> QED
  BY <1>1 DEF ScanPages, OpenOnly

\* fds_record_open.
LEMMA LooseRecordOpen == ASSUME LooseInv, NEW loc \in Found, RecordOpen(loc) PROVE LooseInv'
<1>1. /\ pages' = [pages EXCEPT ![loc[1]].open = @ + 1] /\ loc[1] \in Index
      /\ UNCHANGED <<flash, flashing, hand, result, swap, gc, phase, queue, latest, writes, timeouts>>
  BY DEF RecordOpen, Found, bounds
<1>2. pages \in ScanPages
  BY DEF LooseInv, LooseTypes
<1>3. PICK m \in Index : m = loc[1]
  BY <1>1
<1>4. PICK n \in Nat : n = pages[m].open + 1
  BY <1>2, LooseFields DEF ScanPages
<1>5. pages' = [pages EXCEPT ![m] = [pages[m] EXCEPT !.open = n]]
  BY <1>1, <1>3, <1>4
<1>6. \A i \in Index : pages'[i] = pages[i] \/ pages'[i] = [pages[i] EXCEPT !.open = n]
  BY <1>2, <1>5 DEF ScanPages
<1>7. pages' = [i \in Index |-> pages'[i]]
  BY <1>2, <1>5 DEF ScanPages
<1> QED
  BY <1>1, <1>2, <1>6, <1>7, LooseOpen, LooseOpens

\* fds_record_close.
LEMMA LooseRecordClose == ASSUME LooseInv, RecordClose PROVE LooseInv'
<1>1. /\ pages' = [i \in Index |-> IF i \in DescPages /\ pages[i].open > 0
                                   THEN [pages[i] EXCEPT !.open = @ - 1] ELSE pages[i]]
      /\ UNCHANGED <<flash, flashing, hand, result, swap, gc, phase, queue, latest, writes, timeouts>>
  BY DEF RecordClose, bounds
<1>2. pages \in ScanPages
  BY DEF LooseInv, LooseTypes
<1>3. ASSUME NEW i \in Index, pages'[i] # pages[i]
      PROVE  \E n \in Nat : pages'[i] = [pages[i] EXCEPT !.open = n]
  <2>1. pages[i].open > 0 /\ pages'[i] = [pages[i] EXCEPT !.open = pages[i].open - 1]
    BY <1>1, <1>3
  <2>2. pages[i].open \in Nat
    BY <1>2, LooseFields DEF ScanPages
  <2>3. pages[i].open - 1 \in Nat
    BY <2>1, <2>2
  <2> QED
    BY <2>1, <2>3
<1>4. pages' = [i \in Index |-> pages'[i]]
  BY <1>1
<1> QED
  BY <1>1, <1>2, <1>3, <1>4, LooseOpen, LooseOpens

\* q is s with op at its end
Longer(s, op, q) ==
    /\ q \in Seq(OpType) /\ Len(q) = Len(s) + 1
    /\ \A k \in 1 .. Len(s) : q[k] = s[k]
    /\ q[Len(s) + 1] = op
    /\ \A k \in 1 .. Len(q) : k \in 1 .. Len(s) \/ k = Len(s) + 1
    /\ \A k \in 1 .. Len(s) : s # <<>>

\* What a queue is with an operation more.
LEMMA AppendedTo ==
    ASSUME NEW s \in Seq(OpType), NEW op \in OpType, NEW q, q = Append(s, op) PROVE Longer(s, op, q)
<1>1. q \in Seq(OpType) /\ Len(q) = Len(s) + 1 /\ (\A k \in 1 .. Len(s) : q[k] = s[k]) /\ q[Len(s) + 1] = op
  BY Appended
<1>2. \A k \in 1 .. Len(q) : k \in 1 .. Len(s) \/ k = Len(s) + 1
  BY <1>1, Appended
<1> QED
  BY <1>1, <1>2, AppendedLen DEF Longer

\* fds_gc asks a collection that was left off to go on; no other call does
GcAsked(op) == /\ gc' = [gc EXCEPT !.resume = gc'.resume] /\ gc'.resume \in BOOLEAN
               /\ gc.resume => gc'.resume
               /\ op.code # "gc" => gc'.resume = gc.resume
               /\ op.code = "gc" => gc.state = "begin" \/ gc'.resume

(* A call puts an operation into the queue.  A collection is only asked for *)
(* when none is queued or running.                                          *)
LEMMA LooseCall ==
    ASSUME LooseInv, CanCall, NEW op \in OpType, Enqueue(op), Waits(op),
           op.code = "delete file" => op.step = "flag", op.code = "gc" => ~ Collecting,
           latest' \in Nat, writes' \in Nat, latest <= latest', writes <= writes',
           IsWriteOp(op) => /\ op.page \in Index /\ op.file \in Files /\ op.key \in Keys
                            /\ latest < op.id /\ op.id <= latest' /\ writes < op.data /\ op.data <= writes'
                            /\ pages[op.page].type = "data",
           pages' \in ScanPages,
           \A i \in Index : /\ pages'[i].type = pages[i].type /\ pages'[i].addr = pages[i].addr
                            /\ pages'[i].offset = pages[i].offset,
           GcAsked(op), UNCHANGED <<flash, flashing, swap, phase, timeouts>>, SpaceOK'
    PROVE  LooseInv'
<1>1. /\ phase = "initialized" /\ Len(queue) < QueueSize /\ hand \in {"idle", "event"}
      /\ LooseFlash /\ LooseTypes /\ LooseStages /\ writes \in Nat /\ timeouts \in Nat
      /\ LooseOn /\ LoosePages /\ LooseWriting /\ LooseDeleting /\ LooseGc
      /\ Working \/ Telling \/ Resting
      /\ queue # <<>> /\ Op.code = "init" => Telling
      /\ result = "success" \/ hand # "idle"
  BY DEF CanCall, LooseInv
<1>2. /\ LooseRoles /\ QueueOK /\ SpaceOK /\ LooseTags /\ queue \in Seq(OpType) /\ Len(queue) \in Nat
      /\ queue = <<>> => Resting
  <2>1. LooseRoles /\ QueueOK /\ SpaceOK /\ LooseTags
    BY <1>1 DEF LooseOn
  <2>2. queue \in Seq(OpType)
    BY <2>1 DEF QueueOK
  <2>3. Len(queue) \in Nat
    BY <2>2, HeadFirst
  <2>4. queue = <<>> => Resting
    BY <1>1 DEF Working, Telling
  <2> QED
    BY <2>1, <2>2, <2>3, <2>4
<1>3. flashing' = flashing /\ swap' = swap /\ flash' = flash
  OBVIOUS
<1>4. /\ queue' = Append(queue, op) /\ queue' # <<>> /\ Op' = queue'[1]
      /\ queue = <<>> => /\ queue'[1] = op /\ hand' = "run" /\ ~ Flying' /\ ~ Working /\ ~ Telling
                         /\ Working' /\ ~ Telling' /\ result' = "success"
      /\ queue # <<>> => /\ Op' = Op /\ hand' = hand /\ result' = result
                         /\ (Working' <=> Working) /\ (Telling' <=> Telling)
  BY <1>2, <1>3, HeadThen
<1>5. /\ queue' \in Seq(OpType) /\ Len(queue') = Len(queue) + 1
      /\ \A k \in 1 .. Len(queue) : queue'[k] = queue[k]
      /\ queue'[Len(queue) + 1] = op
      /\ \A k \in 1 .. Len(queue') : k \in 1 .. Len(queue) \/ k = Len(queue) + 1
      /\ \A k \in 1 .. Len(queue) : queue # <<>>
  <2>1. queue \in Seq(OpType) /\ queue' = Append(queue, op)
    BY <1>2, <1>4
  <2>2. Longer(queue, op, queue')
    BY <2>1, AppendedTo
  <2> QED
    BY <2>2 DEF Longer
<1>6. QueueOK'
  BY <1>1, <1>2, <1>4, EnqueueOK
<1>7. /\ gc \in LooseGcInfo /\ gc' \in LooseGcInfo
      /\ gc'.state = gc.state /\ gc'.cur = gc.cur /\ gc'.src = gc.src /\ gc'.todo = gc.todo
      /\ gc.cur \in Index /\ gc.todo \subseteq Index
      /\ gc.resume => gc'.resume
      /\ op.code # "gc" => gc'.resume = gc.resume
      /\ op.code = "gc" => gc.state = "begin" \/ gc'.resume
  <2>1. gc \in LooseGcInfo /\ gc.cur \in Index /\ gc.todo \subseteq Index
    BY <1>1, LooseFields DEF LooseTypes
  <2>2. PICK r \in BOOLEAN : r = gc'.resume
    BY DEF GcAsked
  <2>3. gc' = [gc EXCEPT !.resume = r]
    BY <2>2 DEF GcAsked
  <2> DEFINE R == 0 .. Slots
  <2>4. LooseGcInfo = [state : {"begin", "copy", "erase", "promote", "discard", "tag"}, cur : Index,
                       src : R, todo : SUBSET Index, resume : BOOLEAN]
    BY DEF LooseGcInfo
  <2> HIDE DEF R
  <2> QED
    BY <2>1, <2>3, <2>4 DEF GcAsked
<1>8. /\ Flying' <=> Flying
      /\ Landing' = Landing /\ Stages' = Stages /\ Outcome' = Outcome
      /\ OnSwap' = OnSwap /\ SwapAt' = SwapAt
      /\ \A i \in Index : OnPage(i)' = OnPage(i)
      /\ Keeps' <=> Keeps
      /\ queue # <<>> => (Proceeds' <=> Proceeds)
  BY <1>3, <1>4, <1>7 DEF Flying, Landing, Stages, Outcome, OnSwap, SwapAt, OnPage, Keeps, Proceeds
<1>9. queue # <<>> /\ Working /\ Op.code = "gc" => op.code # "gc"
  <2> SUFFICES ASSUME queue # <<>>, Working, Op.code = "gc", op.code = "gc" PROVE FALSE
    OBVIOUS
  <2>1. 1 \in 1 .. Len(queue) /\ Op = queue[1] /\ hand # "event"
    BY <1>2, OpFacts DEF Working
  <2> QED
    BY <2>1 DEF Collecting
<1>10. (GcRunning' <=> GcRunning) /\ (GcLanded' <=> GcLanded)
  <2>1. GcRunning' <=> GcRunning
    <3>1. CASE queue = <<>>
      BY <1>4, <1>7, <3>1 DEF GcRunning, Working
    <3>2. CASE queue # <<>>
      BY <1>4, <1>7, <1>9, <3>2 DEF GcRunning
    <3> QED
      BY <3>1, <3>2
  <2>2. GcRunning => queue # <<>>
    BY DEF GcRunning, Working
  <2> QED
    BY <1>8, <2>1, <2>2 DEF GcLanded
<1>11. queue = <<>> => ~ (IsWriteOp(Op)' /\ Late') /\ ~ (IsWriteOp(Op)' /\ Keyed')
  <2>1. queue = <<>> => Op' = op
    BY <1>4
  <2>2. IsWriteOp(op) => op.step \in {"begin", "find"}
    BY DEF Waits, IsWriteOp
  <2> QED
    BY <2>1, <2>2 DEF Late, Keyed, IsWriteOp
<1>12. queue # <<>> => /\ Late' <=> Late
                       /\ Keyed' <=> Keyed
                       /\ \A i : WritesAt(i)' <=> WritesAt(i)
  BY <1>4, <1>8 DEF Late, Keyed, WritesAt, IsWriteOp
<1>13. LoosePages'
  <2> SUFFICES ASSUME NEW i \in Index, pages'[i].type # "undefined"
               PROVE  /\ 1 <= pages'[i].offset
                      /\ IF GcLanded' /\ gc'.state = "erase" /\ i = gc'.cur THEN Within(OnPage(i), 1)'
                         ELSE /\ ~ (WritesAt(i)' /\ Late') => Within(OnPage(i)', pages'[i].offset)
                              /\ WritesAt(i)' /\ Keyed' => Within(OnPage(i)', pages'[i].offset + 1)
    BY DEF LoosePages, Within
  <2>1. /\ 1 <= pages[i].offset
        /\ IF GcLanded /\ gc.state = "erase" /\ i = gc.cur THEN Within(OnPage(i), 1)
           ELSE /\ ~ (WritesAt(i) /\ Late) => Within(OnPage(i), pages[i].offset)
                /\ WritesAt(i) /\ Keyed => Within(OnPage(i), pages[i].offset + 1)
    BY <1>1 DEF LoosePages
  <2>2. Within(OnPage(i), 1) => Within(OnPage(i), 1)'
    BY <1>8 DEF Within
  <2>3. CASE queue = <<>>
    <3>1. ~ GcLanded /\ ~ WritesAt(i) /\ ~ (WritesAt(i)' /\ Keyed')
      BY <1>4, <1>11, <2>3 DEF GcLanded, GcRunning, WritesAt
    <3> QED
      BY <1>8, <1>10, <2>1, <3>1
  <2>4. CASE queue # <<>>
    BY <1>7, <1>8, <1>10, <1>12, <2>1, <2>2, <2>4
  <2> QED
    BY <2>3, <2>4
<1>14. LooseOn'
  <2>1. LooseRoles'
    <3>1. \A i \in Index : pages'[i].addr = pages[i].addr
      OBVIOUS
    <3>2. swap'.addr \in Phys /\ 1 <= swap'.offset
      BY <1>2, <1>3 DEF LooseRoles
    <3>3. \A i \in Index : pages'[i].addr \in Phys /\ pages'[i].addr # swap'.addr
      BY <1>2, <1>3, <3>1 DEF LooseRoles
    <3>4. \A i, j \in Index : pages'[i].addr = pages'[j].addr => i = j
      <4>1. \A i, j \in Index : pages[i].addr = pages[j].addr => i = j
        BY <1>2 DEF LooseRoles
      <4>2. ASSUME NEW i \in Index, NEW j \in Index, pages'[i].addr = pages'[j].addr PROVE i = j
        <5>1. pages[i].addr = pages[j].addr
          BY <3>1, <4>2
        <5> QED
          BY <4>1, <5>1
      <4> QED
        BY <4>2
    <3> QED
      BY <3>2, <3>3, <3>4 DEF LooseRoles
  <2>2. LooseTags'
    BY <1>2, <1>3, <1>8 DEF LooseTags
  <2> QED
    BY <1>6, <2>1, <2>2 DEF LooseOn
<1>15. LooseWriting'
  <2>1. \A k \in 1 .. Len(queue') : IsWriteOp(queue[k])' => pages'[queue'[k].page].type = "data"
    <3> SUFFICES ASSUME NEW k \in 1 .. Len(queue'), IsWriteOp(queue[k])'
                 PROVE  pages'[queue'[k].page].type = "data"
      OBVIOUS
    <3>1. CASE k \in 1 .. Len(queue)
      <4>1. IsWriteOp(queue[k]) /\ queue'[k] = queue[k]
        BY <1>5, <3>1 DEF IsWriteOp
      <4>2. queue[k].page \in Index
        BY <1>2, <3>1, <4>1 DEF QueueOK, OpOK
      <4>3. pages[queue[k].page].type = "data"
        BY <1>1, <3>1, <4>1 DEF LooseWriting
      <4> QED
        BY <4>1, <4>2, <4>3
    <3>2. CASE k = Len(queue) + 1
      <4>1. IsWriteOp(op) /\ queue'[k] = op
        BY <1>5, <3>2 DEF IsWriteOp
      <4> QED
        BY <4>1
    <3> QED
      BY <1>5, <3>1, <3>2
  <2>2. CASE queue = <<>>
    <3>1. ~ Flying' /\ Proceeds'
      BY <1>4, <2>2 DEF Proceeds
    <3> QED
      BY <2>1, <3>1 DEF LooseWriting
  <2>3. CASE queue # <<>>
    <3>1. Working /\ IsWriteOp(Op) => Op.page \in Index
      BY <1>2, <2>3, OpFacts DEF OpOK
    <3>2. Working /\ IsWriteOp(Op) => WriteAddr' = WriteAddr /\ WriteSlot' = WriteSlot
      BY <1>4, <2>3, <3>1 DEF WriteAddr, WriteSlot
    <3>3. Working' /\ IsWriteOp(Op)' => Working /\ IsWriteOp(Op)
      BY <1>4, <2>3 DEF IsWriteOp
    <3>4. Op' = Op
      BY <1>4, <2>3
    <3> QED
      BY <1>1, <1>8, <2>1, <2>3, <3>2, <3>3, <3>4 DEF LooseWriting
  <2> QED
    BY <2>2, <2>3
<1>16. LooseDeleting'
  <2>1. CASE queue = <<>>
    BY <1>4, <2>1 DEF LooseDeleting
  <2>2. CASE queue # <<>>
    BY <1>1, <1>4, <1>8, <2>2 DEF LooseDeleting
  <2> QED
    BY <2>1, <2>2
<1>17. LooseGc'
  <2>1. GcReached'
    <3>1. \A i \in gc.todo : pages'[i].type = pages[i].type
      BY <1>7
    <3>2. GcReached
      BY <1>1 DEF LooseGc
    <3> QED
      BY <1>3, <1>7, <1>8, <1>10, <3>1, <3>2 DEF GcReached
  <2>2. \A k \in 1 .. Len(queue) : CollectsAt(k)' <=> CollectsAt(k)
    BY <1>4, <1>5 DEF CollectsAt
  <2>3. op.code = "gc" => \A k \in 1 .. Len(queue) : ~ CollectsAt(k)
    <3> SUFFICES ASSUME op.code = "gc", NEW k \in 1 .. Len(queue), CollectsAt(k) PROVE FALSE
      OBVIOUS
    <3>1. queue[k].code = "gc" /\ (k = 1 => hand # "event")
      BY DEF CollectsAt, Working
    <3> QED
      BY <3>1 DEF Collecting
  <2>4. \A k : k = Len(queue) + 1 /\ CollectsAt(k)' => op.code = "gc"
    BY <1>5 DEF CollectsAt
  <2>5. \A k, l \in 1 .. Len(queue') : CollectsAt(k)' /\ CollectsAt(l)' => k = l
    <3>1. \A k, l \in 1 .. Len(queue) : CollectsAt(k) /\ CollectsAt(l) => k = l
      BY <1>1 DEF LooseGc
    <3>2. ASSUME NEW k \in 1 .. Len(queue'), NEW l \in 1 .. Len(queue'), CollectsAt(k)', CollectsAt(l)'
          PROVE  k = l
      BY <1>5, <2>2, <2>3, <2>4, <3>1, <3>2
    <3> QED
      BY <3>2
  <2>6. \A k \in 1 .. Len(queue') : k > 1 /\ queue'[k].code = "gc" => gc'.state = "begin" \/ gc'.resume
    <3>1. \A k \in 1 .. Len(queue) : k > 1 /\ queue[k].code = "gc" => gc.state = "begin" \/ gc.resume
      BY <1>1 DEF LooseGc
    <3> QED
      BY <1>5, <1>7, <3>1
  <2>7. Working' /\ Flying' /\ Op'.code = "gc" => GcRunning' /\ GcOutcome'
    <3> SUFFICES ASSUME Working', Flying', Op'.code = "gc" PROVE GcRunning' /\ GcOutcome'
      OBVIOUS
    <3>1. queue # <<>> /\ Op' = Op /\ Working /\ Flying
      BY <1>4, <1>8
    <3>2. GcRunning /\ GcOutcome
      BY <1>1, <3>1 DEF LooseGc
    <3>3. GcOutcome'
      BY <1>3, <1>7, <1>8, <3>2 DEF GcOutcome
    <3> QED
      BY <1>10, <3>2, <3>3
  <2> QED
    BY <2>1, <2>5, <2>6, <2>7 DEF LooseGc
<1>18. LooseFlash' /\ LooseTypes' /\ LooseStages'
  BY <1>1, <1>3, <1>7, <1>8 DEF LooseFlash, LooseTypes, LooseStages
<1>19. /\ Working' \/ Telling'
       /\ result' = "success" \/ hand' # "idle"
       /\ Op'.code = "init" => Telling'
       /\ Len(queue') <= QueueSize
  <2>1. op.code # "init"
    BY DEF Waits
  <2>2. queue # <<>> => Working \/ Telling
    BY <1>1 DEF Resting
  <2> QED
    BY <1>1, <1>4, <1>6, <2>1, <2>2 DEF QueueOK
<1>20. phase' = "initialized" /\ timeouts' \in Nat
  BY <1>1
<1> QED
  BY <1>13, <1>14, <1>15, <1>16, <1>17, <1>18, <1>19, <1>20 DEF LooseInv

\* One more record has its space reserved on page m.
LEMMA LooseReserve ==
    ASSUME pages \in ScanPages, NEW m \in Index, pages[m].offset + pages[m].reserved <= Slots,
           pages[m].offset # 0 \/ pages[m].reserved < Slots,
           pages' = [pages EXCEPT ![m].reserved = @ + 1]
    PROVE  /\ pages' \in ScanPages
           /\ \A i \in Index : /\ pages'[i].addr = pages[i].addr /\ pages'[i].offset = pages[i].offset
                               /\ pages'[i].type = pages[i].type
           /\ \A i \in Index : i # m => pages'[i].reserved = pages[i].reserved
           /\ pages'[m].reserved = pages[m].reserved + 1
<1>1. pages[m] \in ScanInfo /\ pages[m].offset \in Nat /\ pages[m].reserved \in Nat
  BY LooseFields DEF ScanPages
<1>2. pages[m].reserved + 1 \in 0 .. Slots
  <2> DEFINE o == pages[m].offset
             r == pages[m].reserved
  <2>1. o \in Nat /\ r \in Nat /\ o + r <= Slots /\ Slots \in Nat /\ (o # 0 \/ r < Slots)
    BY <1>1, ConstantFacts
  <2> HIDE DEF o, r
  <2>2. r + 1 \in 0 .. Slots
    BY <2>1
  <2> QED
    BY <2>2 DEF r
<1>3. PICK n \in 0 .. Slots : n = pages[m].reserved + 1
  BY <1>2
<1> DEFINE q == [pages[m] EXCEPT !.reserved = n]
<1>4. /\ q \in ScanInfo /\ q.addr = pages[m].addr /\ q.offset = pages[m].offset /\ q.type = pages[m].type
      /\ q.reserved = n
  <2> DEFINE O == 0 .. Slots + 1
             R == 0 .. Slots
  <2>1. ScanInfo = [type : {"data", "erased", "undefined"}, addr : Phys \union {NoPage}, offset : O,
                    reserved : R, open : Nat, canGc : BOOLEAN]
    BY DEF ScanInfo
  <2>2. n \in R
    OBVIOUS
  <2> HIDE DEF O, R
  <2> QED
    BY <1>1, <2>1, <2>2
<1>5. pages' = [pages EXCEPT ![m] = q]
  BY <1>1, <1>3 DEF ScanPages
<1> HIDE DEF q
<1>6. pages' \in ScanPages /\ pages'[m] = q /\ \A j \in Index : j # m => pages'[j] = pages[j]
  BY <1>4, <1>5 DEF ScanPages
<1> QED
  BY <1>3, <1>4, <1>6

\* What a call finds.
LEMMA LooseCalls ==
    ASSUME LooseInv, CanCall
    PROVE  /\ pages \in ScanPages /\ Spaced /\ QueueOK /\ SpaceOK /\ LoosePages
           /\ queue \in Seq(OpType) /\ latest \in Nat /\ writes \in Nat
           /\ queue = <<>> => Resting
           /\ gc \in LooseGcInfo
<1>1. /\ phase = "initialized" /\ LooseTypes /\ LooseOn /\ LoosePages
      /\ Working \/ Telling \/ Resting
  BY DEF CanCall, LooseInv
<1>2. QueueOK /\ SpaceOK
  BY <1>1 DEF LooseOn
<1>3. queue \in Seq(OpType) /\ latest \in Nat /\ writes \in Nat
  BY <1>2 DEF QueueOK
<1>4. queue = <<>> => Resting
  BY <1>1 DEF Working, Telling
<1>5. pages \in ScanPages /\ gc \in LooseGcInfo
  BY <1>1 DEF LooseTypes
<1>6. Spaced
  BY <1>5, LooseFields DEF ScanPages, Spaced
<1> QED
  BY <1>1, <1>2, <1>3, <1>4, <1>5, <1>6

\* The collection goes on as before when none is asked for.
LEMMA GcNotAsked == ASSUME gc \in LooseGcInfo, gc' = gc, NEW op, op.code # "gc" PROVE GcAsked(op)
<1> DEFINE R == 0 .. Slots
<1>1. LooseGcInfo = [state : {"begin", "copy", "erase", "promote", "discard", "tag"}, cur : Index,
                     src : R, todo : SUBSET Index, resume : BOOLEAN]
  BY DEF LooseGcInfo
<1> HIDE DEF R
<1> QED
  BY <1>1 DEF GcAsked

\* A write or an update reserves the space of its record, and is queued.
LEMMA LooseWriteEnqueue ==
    ASSUME LooseInv, NEW op \in OpType, Waits(op), op.code \in {"write", "update"}, op.file \in Files,
           op.key \in Keys, WriteEnqueue(op)
    PROVE  LooseInv'
<1>1. /\ CanCall /\ HasSpace # {} /\ writes' = writes + 1 /\ latest' = latest + 1
      /\ pages' = [pages EXCEPT ![Min(HasSpace)].reserved = @ + 1]
      /\ Enqueue([op EXCEPT !.page = Min(HasSpace), !.id = latest + 1, !.data = writes + 1])
      /\ UNCHANGED <<flash, flashing, swap, gc, phase, timeouts>>
  BY DEF WriteEnqueue
<1>2. /\ pages \in ScanPages /\ Spaced /\ QueueOK /\ SpaceOK /\ LoosePages
      /\ queue \in Seq(OpType) /\ latest \in Nat /\ writes \in Nat
      /\ queue = <<>> => Resting
      /\ gc \in LooseGcInfo
  BY <1>1, LooseCalls
<1>3. HasSpace \in SUBSET Nat
  BY PhysFacts DEF HasSpace
<1>4. PICK m \in HasSpace : m = Min(HasSpace)
  BY <1>1, <1>3, MinOf
<1>5. m \in Index /\ pages[m].offset + pages[m].reserved <= Slots /\ pages[m].type = "data"
  BY <1>4 DEF HasSpace
<1>6. /\ pages' \in ScanPages
      /\ \A i \in Index : /\ pages'[i].addr = pages[i].addr /\ pages'[i].offset = pages[i].offset
                          /\ pages'[i].type = pages[i].type
      /\ \A i \in Index : i # m => pages'[i].reserved = pages[i].reserved
      /\ pages'[m].reserved = pages[m].reserved + 1
  <2>1. pages' = [pages EXCEPT ![m].reserved = @ + 1]
    BY <1>1, <1>4
  <2>2. pages[m].offset # 0
    <3>1. 1 <= pages[m].offset
      BY <1>2, <1>5 DEF LoosePages
    <3> QED
      BY <3>1
  <2> QED
    BY <1>2, <1>5, <2>1, <2>2, LooseReserve
<1>7. PICK a \in Nat, d \in Nat : a = latest + 1 /\ d = writes + 1
  BY <1>2
<1>8. latest' \in Nat /\ writes' \in Nat /\ latest <= latest' /\ writes <= writes'
      /\ latest < a /\ a <= latest' /\ writes < d /\ d <= writes'
  BY <1>1, <1>2, <1>7
<1> DEFINE o == Numbers(op, m, a, d)
<1>9. Enqueue(o)
  BY <1>1, <1>4, <1>7 DEF Numbers
<1>10. /\ o \in OpType /\ o.page = m /\ o.id = a /\ o.data = d /\ o.code = op.code
       /\ o.step = op.step /\ o.file = op.file /\ o.key = op.key
  <2>1. m \in Index
    BY <1>5
  <2> HIDE DEF o
  <2>2. o = Numbers(op, m, a, d)
    BY DEF o
  <2>3. /\ Numbers(op, m, a, d) \in OpType
        /\ Numbers(op, m, a, d).page = m /\ Numbers(op, m, a, d).id = a
        /\ Numbers(op, m, a, d).data = d /\ Numbers(op, m, a, d).code = op.code
        /\ Numbers(op, m, a, d).step = op.step /\ Numbers(op, m, a, d).file = op.file
        /\ Numbers(op, m, a, d).key = op.key
    BY <2>1, OpSet
  <2> QED
    BY <2>2, <2>3
<1> HIDE DEF o
<1>11. Waits(o) /\ IsWriteOp(o) /\ o.code # "delete file" /\ o.code # "gc"
  BY <1>10 DEF Waits, IsWriteOp
<1>12. SpaceOK'
  <2>1. flashing' = flashing
    BY <1>1
  <2>2. \A i : /\ ~ (IsWriteOp(o) /\ o.page = i) => WritesOn(i)' \subseteq WritesOn(i)
               /\ WritesOn(i)' \subseteq WritesOn(i) \union {o.id}
    BY <1>2, <1>9, <1>10, <2>1, WritesGrow
  <2> QED
    BY <1>2, <1>5, <1>6, <1>10, <2>2, SpaceTaken
<1>13. GcAsked(o)
  BY <1>1, <1>2, <1>11, GcNotAsked
<1> QED
  BY <1>1, <1>5, <1>6, <1>8, <1>9, <1>10, <1>11, <1>12, <1>13, LooseCall

\* A call that does not write.
LEMMA LooseOtherCall ==
    ASSUME LooseInv, CanCall, NEW op \in OpType, Enqueue(op), Waits(op), ~ IsWriteOp(op),
           op.code = "delete file" => op.step = "flag", op.code = "gc" => ~ Collecting, GcAsked(op),
           UNCHANGED <<flash, flashing, pages, swap, phase, latest, writes, timeouts>>
    PROVE  LooseInv'
<1>1. /\ pages \in ScanPages /\ Spaced /\ QueueOK /\ SpaceOK
      /\ queue \in Seq(OpType) /\ latest \in Nat /\ writes \in Nat
      /\ queue = <<>> => Resting
  BY LooseCalls
<1>2. flashing' = flashing /\ pages' = pages /\ latest' = latest /\ writes' = writes
  OBVIOUS
<1>3. \A i \in Index : WritesOn(i)' \subseteq WritesOn(i)
  BY <1>1, <1>2, WritesGrow
<1>4. SpaceOK'
  BY <1>1, <1>2, <1>3, SpaceStays
<1>5. pages' \in ScanPages
  BY <1>1, <1>2
<1>6. latest' \in Nat /\ writes' \in Nat /\ latest <= latest' /\ writes <= writes'
  BY <1>1, <1>2, NotLess, Zenon
<1> QED
  BY <1>4, <1>5, <1>6, LooseCall

\* The calls of a client.
LEMMA LooseClient == ASSUME LooseInv, Client PROVE LooseInv'
<1>1. ASSUME NEW f \in Files, NEW k \in Keys, RecordWrite(f, k) PROVE LooseInv'
  <2> DEFINE o == WriteOp(f, k)
  <2>1. o \in OpType /\ o.code = "write" /\ o.step = "begin" /\ o.file = f /\ o.key = k
    BY NewOpFacts
  <2>2. WriteEnqueue(o)
    BY <1>1 DEF RecordWrite, WriteOp
  <2> HIDE DEF o
  <2>3. Waits(o)
    BY <2>1 DEF Waits
  <2> QED
    BY <2>1, <2>2, <2>3, LooseWriteEnqueue
<1>2. \A id \in Ids : id \in Nat \union {-1}
  <2> SUFFICES ASSUME NEW loc \in Found PROVE RecordAt(loc).id \in Nat \union {-1}
    BY DEF Ids
  <2>1. loc[1] \in Index /\ loc[2] \in Places /\ phase = "initialized"
    BY DEF Found, Places
  <2>2. pages[loc[1]].addr \in Phys
    BY <2>1 DEF LooseInv, LooseOn, LooseRoles
  <2>3. flash[pages[loc[1]].addr] \in LoosePage
    BY <2>2 DEF LooseInv, LooseFlash
  <2>4. RecordAt(loc) \in LooseCell
    BY <2>1, <2>3, LooseConstants DEF RecordAt
  <2> QED
    BY <2>4 DEF LooseCell
<1>3. ASSUME NEW f \in Files, NEW k \in Keys, NEW id \in Ids, RecordUpdate(f, k, id) PROVE LooseInv'
  <2> DEFINE o == UpdateOp(f, k, id)
  <2>1. o \in OpType /\ o.code = "update" /\ o.step = "find" /\ o.file = f /\ o.key = k
    BY <1>2, UpdateOpFacts
  <2>2. WriteEnqueue(o)
    BY <1>3 DEF RecordUpdate, UpdateOp
  <2> HIDE DEF o
  <2>3. Waits(o)
    BY <2>1 DEF Waits
  <2> QED
    BY <2>1, <2>2, <2>3, LooseWriteEnqueue
<1>4. ASSUME NEW id \in Ids, RecordDelete(id) PROVE LooseInv'
  <2> DEFINE o == DeleteOp(id)
  <2>1. o \in OpType /\ o.code = "delete" /\ o.step = "flag"
    BY <1>2, NewOpFacts
  <2>2. CanCall /\ Enqueue(o) /\ gc' = gc
        /\ UNCHANGED <<flash, flashing, pages, swap, phase, latest, writes, timeouts>>
    BY <1>4 DEF RecordDelete, DeleteOp, bounds
  <2> HIDE DEF o
  <2>3. Waits(o) /\ ~ IsWriteOp(o) /\ o.code # "delete file" /\ o.code # "gc"
    BY <2>1 DEF Waits, IsWriteOp
  <2>4. GcAsked(o)
    BY <2>2, <2>3, LooseCalls, GcNotAsked
  <2> QED
    BY <2>1, <2>2, <2>3, <2>4, LooseOtherCall
<1>5. ASSUME NEW f \in Files, FileDelete(f) PROVE LooseInv'
  <2> DEFINE o == FileOp(f)
  <2>1. o \in OpType /\ o.code = "delete file" /\ o.step = "flag"
    BY NewOpFacts
  <2>2. CanCall /\ Enqueue(o) /\ gc' = gc
        /\ UNCHANGED <<flash, flashing, pages, swap, phase, latest, writes, timeouts>>
    BY <1>5 DEF FileDelete, FileOp, bounds
  <2> HIDE DEF o
  <2>3. Waits(o) /\ ~ IsWriteOp(o) /\ o.code # "gc"
    BY <2>1 DEF Waits, IsWriteOp
  <2>4. GcAsked(o)
    BY <2>2, <2>3, LooseCalls, GcNotAsked
  <2> QED
    BY <2>1, <2>2, <2>3, <2>4, LooseOtherCall
<1>6. ASSUME ~ Collecting, GcRequest PROVE LooseInv'
  <2>1. /\ CanCall /\ Enqueue(NewOp) /\ gc' = [gc EXCEPT !.resume = @ \/ gc.state # "begin"]
        /\ UNCHANGED <<flash, flashing, pages, swap, phase, latest, writes, timeouts>>
    BY <1>6 DEF GcRequest, bounds
  <2>2. NewOp \in OpType /\ Waits(NewOp) /\ NewOp.code = "gc"
    BY NewOpFacts
  <2>3. ~ IsWriteOp(NewOp) /\ NewOp.code # "delete file"
    BY <2>2 DEF IsWriteOp
  <2>4. GcAsked(NewOp)
    <3> DEFINE R == 0 .. Slots
    <3>1. LooseGcInfo = [state : {"begin", "copy", "erase", "promote", "discard", "tag"}, cur : Index,
                         src : R, todo : SUBSET Index, resume : BOOLEAN]
      BY DEF LooseGcInfo
    <3> HIDE DEF R
    <3>2. gc \in LooseGcInfo
      BY <2>1, LooseCalls
    <3>3. PICK r \in BOOLEAN : r = (gc.resume \/ gc.state # "begin")
      OBVIOUS
    <3>4. gc' = [gc EXCEPT !.resume = r]
      BY <2>1, <3>3
    <3> QED
      BY <2>2, <3>1, <3>2, <3>3, <3>4 DEF GcAsked
  <2> QED
    BY <1>6, <2>1, <2>2, <2>3, <2>4, LooseOtherCall
<1> QED
  BY <1>1, <1>3, <1>4, <1>5, <1>6, LooseRecordOpen, LooseRecordClose DEF Client

\* The storage starts with erased flash.
LEMMA LooseFirst == Init => LooseInv
<1> SUFFICES ASSUME Init PROVE LooseInv
  OBVIOUS
<1>1. /\ pages = NoPages /\ swap = NoSwap /\ gc = GcIdle /\ phase = "off" /\ queue = <<>>
      /\ latest = 0 /\ flashing = NoFlash /\ hand = "idle" /\ result = "success"
      /\ flash = [p \in Phys |-> Blank] /\ writes = 0 /\ timeouts = 0
  BY DEF Init
<1>2. Resting /\ ~ Flying
  BY <1>1 DEF Resting, Flying
<1>3. LooseFlash
  <2>1. \A p \in Phys : flash[p] = Blank
    BY <1>1
  <2>2. flash \in [Phys -> LoosePage]
    BY <1>1, LooseBlank
  <2>3. OneSwap(flash)
    BY <2>1, LooseBlank DEF OneSwap
  <2> QED
    BY <2>1, <2>2, <2>3, LooseBlank DEF LooseFlash
<1>4. LooseTypes /\ LooseStages
  <2>1. pages \in ScanPages
    BY <1>1, ConstantFacts DEF NoPages, NewPage, ScanPages, ScanInfo
  <2>2. swap \in [addr : Phys \union {NoPage}, offset : ScanOffset]
    BY <1>1, ConstantFacts DEF NoSwap, ScanOffset
  <2>3. gc \in LooseGcInfo
    BY <1>1, LooseFields
  <2> QED
    BY <1>2, <2>1, <2>2, <2>3 DEF LooseTypes, LooseStages
<1>5. Len(queue) <= QueueSize
  BY <1>1, ConstantFacts
<1>6. writes \in Nat /\ timeouts \in Nat
  BY <1>1
<1> QED
  BY <1>1, <1>2, <1>3, <1>4, <1>5, <1>6 DEF LooseInv

\* Every step, with flash operations given up or not, preserves it.
LEMMA LooseInductive == LooseInv /\ [Next]_vars => LooseInv'
<1> SUFFICES ASSUME LooseInv, [Next]_vars PROVE LooseInv'
  OBVIOUS
<1>1. CASE Boot
  BY <1>1, LooseBoot
<1>2. CASE QueueProcess
  <2>1. CASE InitExecute
    BY <2>1, LooseInitExecute
  <2>2. CASE WriteExecute
    BY <2>2, LooseWriteBegin, LooseWriteWords, LooseWriteFinalize, LooseWriteFlag, LooseUpdateEnds,
       LooseWriteEnds DEF WriteExecute
  <2>3. CASE DeleteExecute
    BY <2>3, LooseDelete DEF DeleteExecute
  <2>4. CASE GcExecute
    BY <2>4, LooseGcExecute
  <2>5. CASE QueueNext
    BY <2>5, LooseQueueNext
  <2> QED
    BY <1>2, <2>1, <2>2, <2>3, <2>4, <2>5 DEF QueueProcess
<1>3. CASE FlashDone
  BY <1>3, LooseFlashDone
<1>4. CASE FlashTimeout
  BY <1>4, LooseFlashTimeout
<1>5. CASE PowerCut
  BY <1>5, LooseCut
<1>6. CASE Client
  BY <1>6, LooseClient
<1>7. CASE UNCHANGED vars
  <2>1. UNCHANGED <<flash, flashing, hand, result, swap, gc, phase, queue, latest, writes, timeouts>>
    BY <1>7 DEF vars, ram, bounds
  <2>2. pages' = pages /\ pages \in ScanPages
    BY <1>7 DEF vars, ram, LooseInv, LooseTypes
  <2>3. pages' \in ScanPages /\ OpenOnly
    BY <2>2 DEF OpenOnly
  <2> QED
    BY <2>1, <2>3, LooseOpens
<1> QED
  BY <1>1, <1>2, <1>3, <1>4, <1>5, <1>6, <1>7 DEF Next

(* With a flash operation given up, words may be spoiled, and the kinds of  *)
(* the variables say so.                                                    *)
LEMMA LooseTypesFollow == ASSUME LooseInv, timeouts # 0 PROVE TypeOK
<1>1. \A x : Spoils(x) = {x}
  BY DEF Spoils
<1>2. flash \in [Phys -> [tag : {"none", "magic", "swap", "data"} \union Spoils("spoiled"),
                          slot : [1 .. Slots ->
                            [key : Keys \union {"none", "dirty"} \union Spoils("spoiled"),
                             file : Files \union {NoFile} \union Spoils(-1),
                             id : Nat \union Spoils(-1), data : Nat \union Spoils(-1)]]]]
  <2> DEFINE K == Keys \union {"none", "dirty"} \union Spoils("spoiled")
             F == Files \union {NoFile} \union Spoils(-1)
             N == Nat \union Spoils(-1)
             T == {"none", "magic", "swap", "data"} \union Spoils("spoiled")
             C == [key : K, file : F, id : N, data : N]
             P == [tag : T, slot : [Places -> C]]
  <2>1. /\ K = Keys \union {"none", "dirty", "spoiled"} /\ Files \union {NoFile} \subseteq F
        /\ N = Nat \union {-1} /\ T = Tags \union {"spoiled"}
    BY <1>1 DEF Tags
  <2>2. flash \in [Phys -> LoosePage]
    BY DEF LooseInv, LooseFlash
  <2>3. LooseCell \subseteq C
    <3> HIDE DEF K, F, N
    <3> QED
      BY <2>1 DEF LooseCell
  <2>4. LoosePage \subseteq P
    <3>1. [Places -> LooseCell] \subseteq [Places -> C]
      BY <2>3
    <3> HIDE DEF T, C
    <3> QED
      BY <2>1, <3>1 DEF LoosePage
  <2>5. flash \in [Phys -> P]
    <3> HIDE DEF P
    <3> QED
      BY <2>2, <2>4
  <2> QED
    BY <2>5 DEF Places
<1>3. /\ pages \in ScanPages /\ swap \in [addr : Phys \union {NoPage}, offset : ScanOffset]
      /\ Len(queue) <= QueueSize
  BY DEF LooseInv, LooseTypes
<1> QED
  BY <1>2, <1>3 DEF TypeOK, ScanPages, ScanInfo, ScanOffset

(* Flash, pages and queue are always of their kinds, through power cuts,    *)
(* operations given up and collections resumed; and no word is programmed   *)
(* over another value before a flash operation is given up.                 *)
THEOREM FdsTypeOK == Spec => []TypeOK
<1>1. Spec => []LooseInv
  BY LooseFirst, LooseInductive, PTL DEF Spec
<1>2. IInv /\ LooseInv => TypeOK
  BY TypesFollow, LooseTypesFollow DEF IInv
<1> QED
  BY <1>1, <1>2, FdsInvariant, PTL
=============================================================================
