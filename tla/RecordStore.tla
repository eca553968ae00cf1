---------------------------- MODULE RecordStore ----------------------------
(***************************************************************************)
(* What the flash data storage of fds.c promises of the records it holds,  *)
(* whatever garbage collection, a power cut or the installation after it   *)
(* does to the pages: a record that was asked for may appear, once; a      *)
(* record that is there disappears only while somebody asks for that; a    *)
(* record that is gone stays gone.  A record stands for one call of        *)
(* fds_record_write or fds_record_update and is numbered in their order.   *)
(***************************************************************************)
EXTENDS Naturals

VARIABLES
    store,      \* the records a reader finds, now or after a reset
    pending,    \* asked for and not yet in the store
    doomed,     \* of the store: those a queued operation is to remove
    issued      \* how many records have been asked for so far

vars == <<store, pending, doomed, issued>>

Init ==
    /\ store = {}
    /\ pending = {}
    /\ doomed = {}
    /\ issued = 0

(* Requests come and go (an operation ends, a reset forgets them all); only *)
(* a record nobody has asked for before may become pending.  A reset may    *)
(* also come with the last word of a Commit or a Remove.                    *)
Request ==
    /\ issued' \in {issued, issued + 1}
    /\ pending' \subseteq pending \union (issued + 1 .. issued')
    /\ doomed' \subseteq store
    /\ UNCHANGED store

Commit(r) ==
    /\ r \in pending
    /\ store' = store \union {r}
    /\ pending' \subseteq pending \ {r}
    /\ doomed' \subseteq store'
    /\ UNCHANGED issued

Remove(r) ==
    /\ r \in doomed
    /\ store' = store \ {r}
    /\ pending' \subseteq pending
    /\ doomed' \subseteq store'
    /\ UNCHANGED issued

Next == Request \/ (\E r \in pending : Commit(r)) \/ (\E r \in doomed : Remove(r))

Spec == Init /\ [][Next]_vars
=============================================================================
