---------------------------- MODULE AtomicQueue ----------------------------
(***************************************************************************)
(* What nrf_atfifo promises its users (app_timer2.c, fds.c,                *)
(* nrf_fstorage_sd.c): a bounded first-in first-out queue whose places are *)
(* claimed before they are filled, and given back after they are emptied.  *)
(* Writers that interrupt one another publish together, in the order in    *)
(* which they claimed; readers that interrupt one another give their       *)
(* places back together.                                                   *)
(***************************************************************************)
EXTENDS Naturals, Sequences

CONSTANTS
  Items,
  Capacity

VARIABLES
  queue,      \* published and not yet taken, oldest first
  claimed,    \* allotted to writers and not yet published
  taken       \* handed to readers and not yet given back

vars == <<queue, claimed, taken>>

Init == queue = <<>> /\ claimed = <<>> /\ taken = <<>>

Claim(x) ==
  /\ Len(queue) + Len(claimed) + Len(taken) < Capacity
  /\ claimed' = Append(claimed, x)
  /\ UNCHANGED <<queue, taken>>

Publish ==
  /\ claimed # <<>>
  /\ queue' = queue \o claimed
  /\ claimed' = <<>>
  /\ UNCHANGED taken

Take ==
  /\ queue # <<>>
  /\ taken' = Append(taken, Head(queue))
  /\ queue' = Tail(queue)
  /\ UNCHANGED claimed

Release ==
  /\ taken # <<>>
  /\ taken' = <<>>
  /\ UNCHANGED <<queue, claimed>>

\* Emptied under a reader, the places stay out of use until it is done.
Clear ==
  /\ queue' = <<>>
  /\ taken' = IF taken = <<>> THEN <<>> ELSE taken \o queue
  /\ UNCHANGED claimed

Next ==
  \/ \E x \in Items : Claim(x)
  \/ Publish
  \/ Take
  \/ Release
  \/ Clear

Spec == Init /\ [][Next]_vars
=============================================================================
