------------------------------- MODULE AtFifo -------------------------------
(***************************************************************************)
(* The atomic FIFO (src/components/libraries/atomic_fifo): a ring of slots *)
(* shared, without a lock, by code that runs at several interrupt levels.  *)
(* It carries the requests of the application timer, the operations of the *)
(* flash data storage and those of the flash driver.                       *)
(*                                                                         *)
(* Two pairs of positions describe the ring.  tail.wr is where the next    *)
(* slot is claimed and tail.rd is how far the items may be read; head.rd   *)
(* is the next item to read and head.wr is how far the slots may be        *)
(* claimed again.  A put claims a slot (item_alloc), fills it and          *)
(* publishes it (item_put); a get hands an item out (item_get) and gives   *)
(* its slot back (item_free).  Between those steps an interrupt may do the *)
(* same, so the calls in hand form two stacks: a put ends before the put   *)
(* it interrupted goes on, and a get likewise.  Puts and gets do not wait  *)
(* for each other: fds.c keeps a get open over a whole flash operation.    *)
(*                                                                         *)
(* Each ldrex/strex loop is one step: an interrupt that gets in between    *)
(* clears the exclusive monitor and the loop starts again.  Positions are  *)
(* counted in items, not in bytes.                                         *)
(***************************************************************************)
EXTENDS Naturals, SequencesExt

CONSTANTS
  Items,
  Size,     \* buf_size / item_size: one slot more than the FIFO can hold
  Nest      \* bound: how deep the puts, and the gets, interrupt one another

ASSUME SizeAssumption == Size \in Nat \ {0}
ASSUME ItemsAssumption == Items # {}

VARIABLES
  tail,     \* [wr, rd]
  head,     \* [wr, rd]
  buf,      \* the slots
  puts,     \* puts in hand with the tail each found, the interrupting one last
  gets      \* the head each get in hand found, the interrupting one last

vars == <<tail, head, buf, puts, gets>>

Positions == 0 .. Size - 1

PosTag == [wr : Positions, rd : Positions]

\* add item_size, and start again at the end of the buffer
NextPos(p) == IF p + 1 = Size THEN 0 ELSE p + 1

\* a FIFO that was just initialised: what a slot holds then is never read
Init ==
  /\ tail = [wr |-> 0, rd |-> 0]
  /\ head = [wr |-> 0, rd |-> 0]
  /\ buf = [p \in Positions |-> CHOOSE x \in Items : TRUE]
  /\ puts = <<>>
  /\ gets = <<>>

-----------------------------------------------------------------------------
(* Putting *)

\* Mutant: room taken from the next item to read, not from the slots given back
ItemAlloc_HeadRd(x) ==
  /\ Len(puts) < Nest
  /\ NextPos(tail.wr) # head.rd
  /\ puts' = Append(puts, [last |-> tail, item |-> x, written |-> FALSE])
  /\ tail' = [tail EXCEPT !.wr = NextPos(tail.wr)]
  /\ UNCHANGED <<head, buf, gets>>

\* wspace_req: the caller keeps the tail as it was before its claim.
ItemAlloc(x) ==
  /\ Len(puts) < Nest
  /\ NextPos(tail.wr) # head.wr
  /\ puts' = Append(puts, [last |-> tail, item |-> x, written |-> FALSE])
  /\ tail' = [tail EXCEPT !.wr = NextPos(tail.wr)]
  /\ UNCHANGED <<head, buf, gets>>

\* The caller fills the slot it was given (memcpy in nrf_atfifo_alloc_put).
Fill ==
  /\ puts # <<>>
  /\ ~Last(puts).written
  /\ buf' = [buf EXCEPT ![Last(puts).last.wr] = Last(puts).item]
  /\ puts' = [puts EXCEPT ![Len(puts)].written = TRUE]
  /\ UNCHANGED <<tail, head, gets>>

\* Mutant: an interrupting put publishes too
ItemPut_Always ==
  /\ puts # <<>>
  /\ Last(puts).written
  /\ puts' = Front(puts)
  /\ tail' = [tail EXCEPT !.rd = tail.wr]
  /\ UNCHANGED <<head, buf, gets>>

\* wspace_close, by the put that interrupted no other
ItemPut ==
  /\ puts # <<>>
  /\ Last(puts).written
  /\ puts' = Front(puts)
  /\ tail' = IF Last(puts).last.wr = Last(puts).last.rd
               THEN [tail EXCEPT !.rd = tail.wr]
               ELSE tail
  /\ UNCHANGED <<head, buf, gets>>

-----------------------------------------------------------------------------
(* Getting *)

\* rspace_req
ItemGet ==
  /\ Len(gets) < Nest
  /\ head.rd # tail.rd
  /\ gets' = Append(gets, head)
  /\ head' = [head EXCEPT !.rd = NextPos(head.rd)]
  /\ UNCHANGED <<tail, buf, puts>>

\* rspace_close, by the get that interrupted no other
ItemFree ==
  /\ gets # <<>>
  /\ gets' = Front(gets)
  /\ head' = IF Last(gets).wr = Last(gets).rd
               THEN [head EXCEPT !.wr = head.rd]
               ELSE head
  /\ UNCHANGED <<tail, buf, puts>>

\* space_clear: the slots readers hold are not given away.
SpaceClear ==
  /\ head' = [wr |-> IF head.wr = head.rd THEN tail.rd ELSE head.wr,
              rd |-> tail.rd]
  /\ UNCHANGED <<tail, buf, puts, gets>>

Next ==
  \/ \E x \in Items : ItemAlloc(x)
  \/ Fill
  \/ ItemPut
  \/ ItemGet
  \/ ItemFree
  \/ SpaceClear

Spec == Init /\ [][Next]_vars

-----------------------------------------------------------------------------
(* Properties *)

\* how many slots it is from a round to b
Dist(a, b) == IF a <= b THEN b - a ELSE b - a + Size

\* the slots from a on, up to b and without it
Arc(a, b) == {p \in Positions : Dist(a, p) < Dist(a, b)}

PutSlot(i) == puts[i].last.wr
GetSlot(i) == gets[i].rd

\* A slot belongs to one owner at a time.  What a put is filling is neither
\* readable nor held by a reader, no two puts in hand fill the same slot, and
\* no two gets in hand read the same one, however the calls interrupt one
\* another (wspace_req, rspace_req).
SlotsOwned ==
  /\ \A i \in DOMAIN puts :
       /\ PutSlot(i) \notin Arc(head.wr, tail.rd)
       /\ \A j \in DOMAIN puts : PutSlot(i) = PutSlot(j) => i = j
       /\ \A j \in DOMAIN gets : PutSlot(i) # GetSlot(j)
  /\ \A i, j \in DOMAIN gets : GetSlot(i) = GetSlot(j) => i = j

\* the slot that is k further than p
Ahead(p, k) == IF p + k < Size THEN p + k ELSE p + k - Size

\* what n slots hold from p on, where a slot holds what f says
Run(p, n, f) == [k \in 1 .. n |-> f[Ahead(p, k - 1)]]

\* what a claimed slot holds, or will hold when its put has filled it
Waiting(p) == {i \in DOMAIN puts : PutSlot(i) = p /\ ~puts[i].written}
Promised == [p \in Positions |-> IF Waiting(p) = {} THEN buf[p]
                                 ELSE puts[CHOOSE i \in Waiting(p) : TRUE].item]

Queue == INSTANCE AtomicQueue WITH
  Capacity <- Size - 1,
  queue    <- Run(head.rd, Dist(head.rd, tail.rd), buf),
  claimed  <- Run(tail.rd, Dist(tail.rd, tail.wr), Promised),
  taken    <- Run(head.wr, Dist(head.wr, head.rd), buf)

\* The ring is a bounded queue: nothing becomes readable before every put that
\* claimed before it is filled, items come out in the order of the claims with
\* the values put in, none is lost or read twice, and no more are held than
\* the buffer was made for.
ImplementsQueue == Queue!Spec

=============================================================================
