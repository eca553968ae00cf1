---------------------------- MODULE PeerManager ----------------------------
(***************************************************************************)
(* The peer manager as the client of the flash data storage: the bonds and *)
(* ranks of the peers (peer_data_storage.c, peer_id.c), the write buffers  *)
(* of new bonds (peer_database.c), the ranking and the deletion of all     *)
(* peers (peer_manager.c), the cleaning of the flash                       *)
(* (peer_manager_handler.c) and the gateway's part in it: the bonds erased *)
(* at a start, and the advertising that waits for that (ble_manager.c).    *)
(*                                                                         *)
(* What one handler does is a sequence of calls of fds, and a call that    *)
(* finds the queue empty runs it, up to events that come back before the   *)
(* call returns.  So each context has an agenda of what it still has to    *)
(* do: "idle" stands for main() and the handlers of the SoftDevice's BLE   *)
(* events, "event" for the handler of an fds event.  Ids of peers are the  *)
(* ids of their files, and ranks are compared by the order of the requests *)
(* that wrote them.                                                        *)
(***************************************************************************)
EXTENDS Fds

CONSTANTS
    Buffers,        \* PM_FLASH_BUFFERS
    MaxEvents       \* bound: peers that bond or come back

ASSUME PeerConstants ==
    /\ Buffers \in Nat \ {0} /\ MaxEvents \in Nat
    /\ Keys = {"bond", "rank"}

VARIABLES
    used,           \* m_pi.used_peer_ids
    deleted,        \* m_pi.deleted_peer_ids
    deferred,       \* m_peer_delete_deferred
    deletingAll,    \* m_deleting_all
    cleaning,       \* flash_cleaning
    writeAfterGc,   \* flash_write_after_gc
    ranks,          \* m_peer_rank_initialized, m_peer_rank_token, m_highest_ranked_peer
    rankQueue,      \* rank_queue
    buffers,        \* m_write_buffer_records that hold a bond
    stage,          \* how far main() is, and whether the chip still runs
    cursor,         \* current_peer_id of pm_peers_delete
    advertising,    \* whether advertising has been started
    agenda,         \* what each context still has to do
    heard,          \* whether the event at hand has been handled
    events          \* counter for the bound

erasing == <<deferred, deletingAll, stage, cursor, advertising>>
clean == <<cleaning, writeAfterGc, rankQueue>>
peerVars == <<used, deleted, erasing, clean, ranks, buffers, agenda, heard, events>>
allVars == <<vars, peerVars>>
-----------------------------------------------------------------------------
NoPeer == 0
FreeBuffer == [peer |-> NoPeer, state |-> "free", token |-> 0]

(* peer_data_find, for the data of a peer that can be read now *)
DataOf(p) == {loc \in Found : RecordAt(loc).file = p}
Data(p, k) == {loc \in DataOf(p) : RecordAt(loc).key = k}
Active == used \ deleted
Ranked == {p \in Active : Data(p, "rank") # {}}
RankOf(p) == RecordAt(First(Data(p, "rank"))).data
(* pm_peer_ranks_get *)
Highest == IF Ranked = {} THEN NoPeer ELSE CHOOSE p \in Ranked : \A q \in Ranked : RankOf(q) <= RankOf(p)
Lowest == CHOOSE p \in Ranked : \A q \in Ranked : RankOf(p) <= RankOf(q)

Running == stage # "stopped"
Todo == IF hand = "run" THEN <<>> ELSE agenda[hand]
Now(do) == Running /\ Todo # <<>> /\ Head(Todo).do = do
Peer == Head(Todo).arg
Goes(rest) == agenda' = [agenda EXCEPT ![hand] = rest]
Item(do, arg) == [do |-> do, arg |-> arg]
Done(do) == Item(do, 0)
Items(do, args) == [i \in 1 .. Len(args) |-> Item(do, args[i])]
Drop == Goes(Tail(Todo))
Becomes(do, arg) == Goes(<<Item(do, arg)>> \o Tail(Todo))

(* APP_ERROR_CHECK, or a fault: nothing goes on before the next reset. *)
Stop ==
    /\ stage' = "stopped"
    /\ UNCHANGED <<vars, used, deleted, deferred, deletingAll, cursor, advertising, clean, ranks,
                   buffers, agenda, heard, events>>

(* With the queue full queue_buf_get clears memory at NULL before it looks  *)
(* at the pointer: that is a fault, or the call is refused after all.       *)
QueueFull == Len(queue) >= QueueSize
(* What pds_peer_data_store may come to *)
StoreResults == CASE phase # "initialized" -> {"internal"}
                  [] phase = "initialized" /\ HasSpace = {} -> {"full"}
                  [] phase = "initialized" /\ HasSpace # {} /\ QueueFull -> {"internal", "busy"}
                  [] OTHER -> {"stored"}
(* pds_peer_data_store, when it stores *)
StoreData(p, k) == IF Data(p, k) = {} THEN RecordWrite(p, k)
               ELSE RecordUpdate(p, k, RecordAt(First(Data(p, k))).id)
-----------------------------------------------------------------------------
(* write_buf_store for the bond in a write buffer, at the first attempt and *)
(* from reattempt_previous_operations, which ends at the first failure.     *)
AfterStores(s) ==
    SubSeq(s, Min({i \in 1 .. Len(s) + 1 : i <= Len(s) => s[i].do # "store"}), Len(s))
StoreBond ==
    /\ Now("store")
    /\ \/ /\ "stored" \in StoreResults
          /\ StoreData(buffers[Peer].peer, "bond")
          /\ buffers' = [buffers EXCEPT ![Peer].state = "sent", ![Peer].token = latest']
          /\ Drop
          /\ UNCHANGED <<used, deleted, erasing, clean, ranks, heard, events>>
       \/ /\ "busy" \in StoreResults
          /\ buffers' = [buffers EXCEPT ![Peer].state = "busy"]
          /\ Drop
          /\ UNCHANGED <<vars, used, deleted, erasing, clean, ranks, heard, events>>
       \/ /\ "full" \in StoreResults
          /\ buffers' = [buffers EXCEPT ![Peer].state = "full"]
          /\ Goes(<<Done("full")>> \o AfterStores(Tail(Todo)))
          /\ UNCHANGED <<vars, used, deleted, erasing, clean, ranks, heard, events>>
       \/ "internal" \in StoreResults /\ Stop

(* pm_peer_rank_highest as flash_clean calls it *)
RanksNow == IF ranks.init THEN ranks ELSE [ranks EXCEPT !.init = TRUE, !.top = Highest]
RankResults == CASE ranks.token # 0 -> {"busy"}
                 [] ranks.token = 0 /\ Peer = RanksNow.top -> {"highest"}
                 [] OTHER -> StoreResults
Rank ==
    /\ Now("rank")
    /\ \/ /\ RankResults \intersect {"busy", "full"} # {}
          /\ rankQueue' = Append(rankQueue, Peer)
          /\ ranks' = RanksNow
          /\ Goes(<<Done("full")>> \o Tail(Todo))
          /\ UNCHANGED <<vars, used, deleted, erasing, cleaning, writeAfterGc, buffers, heard, events>>
       \/ /\ "highest" \in RankResults
          /\ writeAfterGc' = TRUE
          /\ ranks' = RanksNow
          /\ Drop
          /\ UNCHANGED <<vars, used, deleted, erasing, cleaning, rankQueue, buffers, heard, events>>
       \/ /\ "stored" \in RankResults
          /\ StoreData(Peer, "rank")
          /\ ranks' = [RanksNow EXCEPT !.token = latest']
          /\ Drop
          /\ UNCHANGED <<used, deleted, erasing, clean, buffers, heard, events>>
       \/ "internal" \in RankResults /\ Stop

(* PM_EVT_STORAGE_FULL at pm_handler_flash_clean *)
Dirty == \E i \in Index : \E c \in {flash[pages[i].addr].slot[j] :
                                      j \in 1 .. WriteOffset(flash[pages[i].addr]) - 1} : ~ Valid(c)
StorageFull ==
    /\ Now("full")
    /\ LET worth == writeAfterGc \/ Dirty
       IN \/ cleaning /\ Drop /\ UNCHANGED <<deleted, writeAfterGc>>
          \/ /\ ~ cleaning /\ worth
             /\ writeAfterGc' = TRUE
             /\ Goes(<<Done("gc")>> \o Tail(Todo))
             /\ UNCHANGED deleted
          \/ /\ ~ cleaning /\ ~ worth /\ Ranked # {}
             /\ deleted' = deleted \union {Lowest}
             /\ writeAfterGc' = TRUE
             /\ Goes(<<Done("deletes"), Done("gc")>> \o Tail(Todo))
          \/ /\ ~ cleaning /\ ~ worth /\ Ranked = {}
             /\ Drop
             /\ UNCHANGED <<deleted, writeAfterGc>>
    /\ UNCHANGED <<vars, used, erasing, cleaning, rankQueue, ranks, buffers, heard, events>>

(* fds_gc; flash_cleaning is set when it returns. *)
CleanFlash ==
    /\ Now("gc")
    /\ \/ /\ ~ QueueFull
          /\ GcRequest
          /\ Goes(<<Done("cleaning")>> \o Tail(Todo))
          /\ UNCHANGED <<used, deleted, erasing, clean, ranks, buffers, heard, events>>
       \/ /\ QueueFull
          /\ Drop
          /\ UNCHANGED <<vars, used, deleted, erasing, clean, ranks, buffers, heard, events>>
       \/ QueueFull /\ Stop

FlashCleaning ==
    /\ Now("cleaning")
    /\ cleaning' = TRUE
    /\ Drop
    /\ UNCHANGED <<vars, used, deleted, erasing, writeAfterGc, rankQueue, ranks, buffers, heard, events>>

(* peer_data_delete_process, a step for each of its calls: under main() the *)
(* handler of an fds event may run between any two of them.  The search     *)
(* token is cleared once, before the loop: after a search that finds        *)
(* nothing it is at the end of the flash, and so are those that follow it.  *)
(* A search is one step: while main() erases bonds records only go, and an  *)
(* interrupted search answers as at its end, or at the record it found.     *)
StartDeletes ==
    /\ Now("deletes") \/ (Now("deferred") /\ deferred)
    /\ deferred' = FALSE
    /\ Becomes("next", NoPeer)
    /\ UNCHANGED <<vars, used, deleted, deletingAll, stage, cursor, advertising, clean, ranks, buffers,
                   heard, events>>

NextDeleted ==
    /\ Now("next")
    /\ LET left == {p \in deleted : p > Peer}
       IN IF left = {} THEN Drop
          ELSE Becomes(IF Peer = NoPeer THEN "find" ELSE "free", Min(left))
    /\ UNCHANGED <<vars, used, deleted, erasing, clean, ranks, buffers, heard, events>>

\* Mutant: the ids are freed without a look at the flash.
FindInFile_Never ==
    /\ Now("find")
    /\ Becomes("free", Peer)
    /\ UNCHANGED <<vars, used, deleted, erasing, clean, ranks, buffers, heard, events>>

FindInFile ==
    /\ Now("find")
    /\ Becomes(IF DataOf(Peer) # {} THEN "file" ELSE "free", Peer)
    /\ UNCHANGED <<vars, used, deleted, erasing, clean, ranks, buffers, heard, events>>

(* peer_id_free, which clears one flag after the other *)
FreeId ==
    /\ Now("free")
    /\ used' = used \ {Peer}
    /\ Becomes("unmark", Peer)
    /\ UNCHANGED <<vars, deleted, erasing, clean, ranks, buffers, heard, events>>

Unmark ==
    /\ Now("unmark")
    /\ deleted' = deleted \ {Peer}
    /\ Becomes("next", Peer)
    /\ UNCHANGED <<vars, used, erasing, clean, ranks, buffers, heard, events>>

DeletePeer ==
    /\ Now("file")
    /\ \/ /\ ~ QueueFull
          /\ FileDelete(Peer)
          /\ Drop
          /\ UNCHANGED <<used, deleted, erasing, clean, ranks, buffers, heard, events>>
       \/ /\ QueueFull
          /\ Becomes("defer", Peer)
          /\ UNCHANGED <<vars, used, deleted, erasing, clean, ranks, buffers, heard, events>>
       \/ QueueFull /\ Stop

\* Mutant: a deletion that does not fit in the queue is forgotten.
Defer_Forgets ==
    /\ Now("defer")
    /\ Drop
    /\ UNCHANGED <<vars, used, deleted, erasing, clean, ranks, buffers, heard, events>>

Defer ==
    /\ Now("defer")
    /\ deferred' = TRUE
    /\ Drop
    /\ UNCHANGED <<vars, used, deleted, deletingAll, stage, cursor, advertising, clean, ranks, buffers,
                   heard, events>>

DeleteProcess == StartDeletes \/ NextDeleted \/ FindInFile \/ FreeId \/ Unmark \/ DeletePeer \/ Defer

(* the end of the handler of an fds event *)
NothingDeferred ==
    /\ Now("deferred") /\ ~ deferred
    /\ Drop
    /\ UNCHANGED <<vars, used, deleted, erasing, clean, ranks, buffers, heard, events>>
-----------------------------------------------------------------------------
(* An event of fds: pdb_pds_evt_handler, pm_pdb_evt_handler and flash_clean *)
(* for it, then what it makes room for.                                     *)
Stores(bs, full) ==
    LET upto[b \in 0 .. Buffers] ==
          IF b = 0 THEN <<>>
          ELSE IF bs[b].state = "busy" \/ (full /\ bs[b].state = "full")
               THEN Append(upto[b - 1], Item("store", b)) ELSE upto[b - 1]
    IN upto[Buffers]

HearStored(bs) ==
    /\ agenda' = [agenda EXCEPT !.event = Stores(bs, FALSE) \o <<Done("deferred")>>]
    /\ buffers' = bs
    /\ UNCHANGED <<used, deleted, erasing, cleaning, rankQueue>>

EventStored ==
    /\ Op.code \in {"write", "update"} /\ result = "success"
    /\ HearStored([b \in 1 .. Buffers |-> IF buffers[b].token = Op.id THEN FreeBuffer ELSE buffers[b]])
    /\ ranks' = IF ranks.token = Op.id THEN [ranks EXCEPT !.token = 0, !.top = Op.file] ELSE ranks
    /\ writeAfterGc' = TRUE

\* Mutant: the token of a rank that could not be written is kept.
EventStoreFailed_KeepsToken ==
    /\ Op.code \in {"write", "update"} /\ result # "success"
    /\ HearStored([b \in 1 .. Buffers |-> IF buffers[b].token = Op.id
                     THEN [buffers[b] EXCEPT !.token = 0, !.state = "busy"] ELSE buffers[b]])
    /\ UNCHANGED <<ranks, writeAfterGc>>

EventStoreFailed ==
    /\ Op.code \in {"write", "update"} /\ result # "success"
    /\ HearStored([b \in 1 .. Buffers |-> IF buffers[b].token = Op.id
                     THEN [buffers[b] EXCEPT !.token = 0, !.state = "busy"] ELSE buffers[b]])
    /\ ranks' = IF ranks.token = Op.id THEN [ranks EXCEPT !.token = 0] ELSE ranks
    /\ UNCHANGED writeAfterGc

\* Mutant: the peers left are not looked at when one has been deleted.
EventFileDeleted_NoNext ==
    /\ Op.code = "delete file" /\ result = "success"
    /\ agenda' = [agenda EXCEPT !.event = Stores(buffers, FALSE)]
    /\ used' = used \ {Op.file} /\ deleted' = deleted \ {Op.file}
    /\ UNCHANGED <<erasing, clean, ranks, buffers>>

EventFileDeleted ==
    /\ Op.code = "delete file"
    /\ deferred' = TRUE
    /\ agenda' = [agenda EXCEPT !.event = Stores(buffers, FALSE) \o <<Done("deferred")>>]
    /\ IF result = "success"
       THEN /\ used' = used \ {Op.file} /\ deleted' = deleted \ {Op.file}
            /\ writeAfterGc' = TRUE
            /\ ranks' = IF ranks.init /\ ranks.top = Op.file THEN [ranks EXCEPT !.top = Highest'] ELSE ranks
            /\ deletingAll' = (deletingAll /\ used' \union deleted' # {})
            /\ advertising' = (advertising \/ (deletingAll /\ used' \union deleted' = {}))
       ELSE /\ deletingAll' = FALSE
            /\ UNCHANGED <<used, deleted, writeAfterGc, ranks, advertising>>
    /\ UNCHANGED <<stage, cursor, cleaning, rankQueue, buffers>>

EventCollected ==
    /\ Op.code = "gc" /\ result = "success"
    /\ cleaning' = FALSE /\ writeAfterGc' = FALSE /\ rankQueue' = <<>>
    /\ agenda' = [agenda EXCEPT !.event = Items("rank", rankQueue) \o Stores(buffers, TRUE)
                                            \o <<Done("deferred")>>]
    /\ UNCHANGED <<used, deleted, erasing, ranks, buffers>>

EventCollectionFailed ==
    /\ Op.code = "gc" /\ result # "success"
    /\ cleaning' = FALSE
    /\ agenda' = [agenda EXCEPT !.event = (IF result = "timeout" THEN <<Done("full")>> ELSE <<>>)
                                            \o Stores(buffers, FALSE)
                                            \o <<Done("deferred")>>]
    /\ UNCHANGED <<used, deleted, erasing, writeAfterGc, rankQueue, ranks, buffers>>

EventInstalled ==
    /\ Op.code = "init"
    /\ UNCHANGED <<used, deleted, erasing, clean, ranks, buffers, agenda>>

FdsEvent ==
    /\ Running /\ hand = "event" /\ ~ heard
    /\ heard' = TRUE
    /\ UNCHANGED <<vars, events>>
    /\ \/ EventStored \/ EventStoreFailed \/ EventFileDeleted
       \/ EventCollected \/ EventCollectionFailed \/ EventInstalled
-----------------------------------------------------------------------------
(* main(), and the peers that connect. *)

Free == Running /\ hand = "idle" /\ agenda.idle = <<>>

(* pm_init: fds_init, whose failure ends in APP_ERROR_CHECK *)
PmInit ==
    /\ Running /\ Boot
    /\ stage' = IF phase' = "failed" THEN "stopped" ELSE "load"
    /\ UNCHANGED <<used, deleted, deferred, deletingAll, cursor, advertising, clean, ranks, buffers,
                   agenda, heard, events>>

(* peer_ids_load, then advertising_start(erase_bonds) *)
PeerIdsLoad(erase) ==
    /\ Free /\ stage = "load"
    /\ used' = {p \in Files : Data(p, "bond") # {}}
    /\ stage' = IF erase /\ used' # {} THEN "erase" ELSE "up"
    /\ deletingAll' = (erase /\ used' # {})
    /\ advertising' = ~ deletingAll'
    /\ UNCHANGED <<vars, deleted, deferred, cursor, clean, ranks, buffers, agenda, heard, events>>

(* One round of the loop of pm_peers_delete, and its end *)
PeersDelete ==
    /\ Free /\ stage = "erase"
    /\ LET left == {p \in Active : p > cursor}
       IN IF left = {}
          THEN /\ stage' = "up"
               /\ UNCHANGED <<deleted, cursor, agenda>>
          ELSE /\ cursor' = Min(left)
               /\ deleted' = deleted \union {Min(left)}
               /\ Goes(<<Done("deletes")>>)
               /\ UNCHANGED stage
    /\ UNCHANGED <<vars, used, deferred, deletingAll, advertising, clean, ranks, buffers, heard, events>>

(* auth_status_success_process for a peer without a bond, then the rank it  *)
(* gets from PM_EVT_CONN_SEC_SUCCEEDED.  Without a write buffer, or a peer  *)
(* id, that is an unexpected error.                                         *)
Connects == Free /\ stage = "up" /\ advertising /\ events < MaxEvents /\ events' = events + 1
Bonded ==
    /\ Connects
    /\ LET B == {b \in 1 .. Buffers : buffers[b].state = "free"}
           p == Min(Files \ used)
       IN IF B # {} /\ Files # used
          THEN /\ used' = used \union {p}
               /\ buffers' = [buffers EXCEPT ![Min(B)] = [peer |-> p, state |-> "new", token |-> 0]]
               /\ Goes(<<Item("store", Min(B)), Item("rank", p)>>)
               /\ UNCHANGED stage
          ELSE /\ stage' = "stopped"
               /\ UNCHANGED <<used, buffers, agenda>>
    /\ UNCHANGED <<vars, deleted, deferred, deletingAll, cursor, advertising, clean, ranks, heard>>

(* PM_EVT_BONDED_PEER_CONNECTED, and PM_EVT_CONN_SEC_SUCCEEDED once its     *)
(* link is encrypted, each ask for the highest rank.                        *)
BondedPeer(p) ==
    /\ Connects
    /\ p \in Active /\ Data(p, "bond") # {}
    /\ Goes(<<Item("rank", p)>>)
    /\ UNCHANGED <<vars, used, deleted, erasing, clean, ranks, buffers, heard>>
-----------------------------------------------------------------------------
(* The steps of fds.  Its event handler returns when the agenda is done;    *)
(* the flash interrupts main(), but no handler of a BLE event.              *)
FdsRuns ==
    /\ Running
    /\ \/ InitExecute \/ WriteExecute \/ DeleteExecute \/ GcExecute
       \/ (stage # "up" \/ agenda.idle = <<>>) /\ (FlashDone \/ FlashTimeout)
    /\ UNCHANGED peerVars

EventReturns ==
    /\ Running /\ heard /\ agenda.event = <<>>
    /\ QueueNext
    /\ heard' = FALSE
    /\ UNCHANGED <<used, deleted, erasing, clean, ranks, buffers, agenda, events>>

NoRanks == [init |-> FALSE, token |-> 0, top |-> NoPeer]
Reset ==
    /\ PowerCut
    /\ used' = {} /\ deleted' = {} /\ deferred' = FALSE /\ deletingAll' = FALSE
    /\ cleaning' = FALSE /\ writeAfterGc' = TRUE /\ rankQueue' = <<>> /\ ranks' = NoRanks
    /\ buffers' = [b \in 1 .. Buffers |-> FreeBuffer]
    /\ stage' = "off" /\ cursor' = 0 /\ advertising' = FALSE
    /\ agenda' = [idle |-> <<>>, event |-> <<>>] /\ heard' = FALSE
    /\ UNCHANGED events

PeerInit ==
    /\ Init
    /\ used = {} /\ deleted = {} /\ deferred = FALSE /\ deletingAll = FALSE
    /\ cleaning = FALSE /\ writeAfterGc = TRUE /\ rankQueue = <<>> /\ ranks = NoRanks
    /\ buffers = [b \in 1 .. Buffers |-> FreeBuffer]
    /\ stage = "off" /\ cursor = 0 /\ advertising = FALSE
    /\ agenda = [idle |-> <<>>, event |-> <<>>] /\ heard = FALSE
    /\ events = 0

Handlers == StoreBond \/ Rank \/ StorageFull \/ CleanFlash \/ FlashCleaning
            \/ DeleteProcess \/ NothingDeferred
PeerSteps == \/ PmInit \/ (\E erase \in BOOLEAN : PeerIdsLoad(erase)) \/ PeersDelete
             \/ Handlers \/ FdsEvent \/ EventReturns \/ FdsRuns
PeerNext == PeerSteps \/ Bonded \/ (\E p \in Files : BondedPeer(p)) \/ Reset

PeerSpec == PeerInit /\ [][PeerNext]_allVars /\ WF_allVars(PeerSteps)
-----------------------------------------------------------------------------
\* The peer ids, ranks and buffers are of their kinds; a peer that is to be
\* deleted keeps its id until it is freed; and the rank or the bond that waits for
\* its event is in the queue of fds, so that neither a failure forgets it nor a
\* later record is taken for it.
PeerTypeOK ==
    /\ used \subseteq Files
    /\ \A p \in deleted \ used : \E c \in {"idle", "event"} : agenda[c] # <<>> /\ Head(agenda[c]) = Item("unmark", p)
    /\ ranks \in [init : BOOLEAN, token : Nat, top : Files \union {NoPeer}]
    /\ \A b \in 1 .. Buffers :
          /\ buffers[b].peer \in Files \union {NoPeer}
          /\ buffers[b].state \in {"free", "new", "sent", "busy", "full"}
          /\ buffers[b].state = "sent" => \E op \in Queued : op.id = buffers[b].token
    /\ ranks.token # 0 => \E op \in Queued : op.id = ranks.token

HasBond(p) == \E q \in Phys : Survives(q) /\ \E i \in Records(flash[q]) :
    flash[q].slot[i].file = p /\ flash[q].slot[i].key = "bond"

\* A bond leaves the flash only when its peer has been marked for deletion, or
\* while all are being erased, whatever updates of ranks, collections and resets
\* do around it.
KeepsBonds == [][timeouts' = 0 => \A p \in Files : HasBond(p) /\ ~ HasBond(p)' =>
                                                    p \in deleted \/ deletingAll]_allVars

\* What pm_peer_delete promises, a peer id is freed only once no bond of its peer
\* is left in flash, the handlers of events keep, even while main() is in the
\* midst of a deletion of its own.  The loop of an erasing start does not: once it
\* has found nothing of one peer, it looks for no other (see ErasesAll).
HandlersFreeEmpty == [][timeouts' = 0 /\ stage' # "off" /\ (stage = "erase" => hand # "idle") =>
                            \A p \in used \ used' : ~ HasBond(p)]_allVars

\* What PM_EVT_PEERS_DELETE_SUCCEEDED is said to mean, on which advertising
\* starts: once bonds are being erased, no bond is left in flash then.
ErasesAll == [][~ advertising /\ advertising' /\ stage \in {"erase", "up"} =>
                    \A p \in Files : ~ HasBond(p)]_allVars

\* A start that erases the bonds ends in advertising, or the gateway is never
\* found again: the event that starts it is not missed, whatever main() and the
\* events free between each other's steps, unless a fault, a reset or a given-up
\* operation intervenes.
EraseEnds == deletingAll ~> (advertising \/ timeouts > 0 \/ ~ Running \/ stage = "off")

\* The peer whose deletion makes room is deleted in the end, bond and id, though
\* its deletion may be deferred by a full queue, unless a fault, a reset or a
\* given-up operation intervenes.
Freed == \A p \in Files : p \in deleted /\ stage = "up" /\ ~ deletingAll ~>
            ((p \notin deleted /\ ~ HasBond(p)) \/ timeouts > 0 \/ ~ Running \/ stage = "off")

\* What flash_write_after_gc is said to tell: a peer is deleted for its space
\* only when the flash has no room.
DeletesWhenFull == [][StorageFull /\ deleted' # deleted => HasSpace = {}]_allVars
=============================================================================
