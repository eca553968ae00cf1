------------------------------ MODULE BleLink ------------------------------
(***************************************************************************)
(* The BLE side of the gateway around the door controller: the SoftDevice  *)
(* (external), its event queue, and the observers that ble_manager.c,      *)
(* ble_cus.c and ble_advertising.c register.  Events are dispatched one at *)
(* a time from one interrupt, so while fsm_run holds that interrupt, for a *)
(* second and a half when it opens the door, the radio goes on and the     *)
(* events of the link pile up.                                             *)
(***************************************************************************)
EXTENDS BleFsm, Sequences

CONSTANTS MaxConns,  \* bound: connections made in a behaviour
          MaxEvents  \* bound: events the SoftDevice holds, a disconnection not counted

ASSUME LinkBounds == MaxConns \in Nat \ {0} /\ MaxEvents \in Nat \ {0}

Handle == 0        \* the handle of the one peripheral link (NRF_SDH_BLE_PERIPHERAL_LINK_COUNT)
InvalidHandle == 65535 \* BLE_CONN_HANDLE_INVALID
NoLink == 0

VARIABLES link,        \* the connection the radio holds, a number of its own, or NoLink
          conns,       \* connections made so far
          subscribed,  \* whether the peer's CCCD asks for notifications
          advertising,
          evtq,        \* events the SoftDevice has raised and the application not yet fetched
          boot,        \* "init", "erasing", "stuck", "up": how far advertising_start has come
          cus_conn_handle,   \* ble_cus_t.conn_handle
          m_conn_handle,     \* ble_manager.c
          slave_conn_handle, \* ble_advertising_t.current_slave_link_conn_handle
          asker,       \* history: the connection whose write is being handled
          told,        \* history: the connection the unique password was sent to
          cause        \* history: what started the chip last: "power", "nfc", "fault"

radio == <<link, conns, subscribed>>
handles == <<cus_conn_handle, m_conn_handle, slave_conn_handle>>
linkHistory == <<asker, told, cause>>
linkVars == <<radio, advertising, evtq, boot, handles, linkHistory>>
allVars == <<vars, linkVars>>

EventTypes == {"CONNECTED", "DISCONNECTED", "WRITE", "CCCD_WRITE",
               "PHY_UPDATE_REQUEST", "GATTC_TIMEOUT"}

Events == [type : EventTypes, conn : 1 .. MaxConns, data : Writes \union {NoWrite}]

LinkTypes == /\ link \in 0 .. MaxConns
             /\ conns \in 0 .. MaxConns
             /\ subscribed \in BOOLEAN
             /\ advertising \in BOOLEAN
             /\ evtq \in Seq(Events)
             /\ boot \in {"init", "erasing", "stuck", "up"}
             /\ {cus_conn_handle, m_conn_handle, slave_conn_handle} \subseteq {Handle, InvalidHandle}
             /\ asker \in 0 .. MaxConns
             /\ told \in 0 .. MaxConns
             /\ cause \in {"power", "nfc", "fault"}

LinkTypeOK == TypeOK /\ LinkTypes

-----------------------------------------------------------------------------
(* The SoftDevice and the phone (external). *)

Evt(t, c, d) == [type |-> t, conn |-> c, data |-> d]

Raise(e) == Len(evtq) < MaxEvents /\ evtq' = Append(evtq, e)

\* A bonded phone finds its subscription restored, a new one does not.
PeerConnects ==
    /\ advertising
    /\ link = NoLink
    /\ conns < MaxConns
    /\ link' = conns + 1
    /\ conns' = conns + 1
    /\ subscribed' \in BOOLEAN
    /\ advertising' = FALSE
    /\ Raise(Evt("CONNECTED", conns + 1, NoWrite))
    /\ UNCHANGED <<vars, boot, handles, linkHistory>>

LinkDrops ==
    /\ link # NoLink
    /\ link' = NoLink
    /\ evtq' = Append(evtq, Evt("DISCONNECTED", link, NoWrite))
    /\ UNCHANGED <<vars, conns, subscribed, advertising, boot, handles, linkHistory>>

PeerWrites(w) ==
    /\ link # NoLink
    /\ Raise(Evt("WRITE", link, w))
    /\ UNCHANGED <<vars, radio, advertising, boot, handles, linkHistory>>

PeerSubscribes ==
    /\ link # NoLink
    /\ subscribed' = ~subscribed
    /\ Raise(Evt("CCCD_WRITE", link, NoWrite))
    /\ UNCHANGED <<vars, link, conns, advertising, boot, handles, linkHistory>>

\* The phone asks for another PHY, or leaves the MTU request unanswered for 30 s.
PeerRaises(t) ==
    /\ link # NoLink
    /\ Raise(Evt(t, link, NoWrite))
    /\ UNCHANGED <<vars, radio, advertising, boot, handles, linkHistory>>

Environment == \/ PeerConnects
               \/ LinkDrops
               \/ \E w \in Writes : PeerWrites(w)
               \/ PeerSubscribes
               \/ \E t \in {"PHY_UPDATE_REQUEST", "GATTC_TIMEOUT"} : PeerRaises(t)

-----------------------------------------------------------------------------
(* Starting up and starting over. *)

\* A reset drops the link and everything the SoftDevice held.
Reboot(why) ==
    /\ Restart
    /\ link' = NoLink
    /\ subscribed' = FALSE
    /\ advertising' = FALSE
    /\ evtq' = <<>>
    /\ boot' = "init"
    /\ cus_conn_handle' = InvalidHandle
    /\ m_conn_handle' = InvalidHandle
    /\ slave_conn_handle' = InvalidHandle
    /\ asker' = NoLink
    /\ told' = NoLink
    /\ cause' = why
    /\ UNCHANGED conns

NfcField == Reboot("nfc")

\* init_ble passes an uninitialised bool to advertising_start: the bonds are
\* erased first, or advertising starts at once.
InitBle(erase_bonds) ==
    /\ boot = "init"
    /\ boot' = IF erase_bonds THEN "erasing" ELSE "up"
    /\ advertising' = ~erase_bonds
    /\ UNCHANGED <<vars, radio, evtq, handles, linkHistory>>

\* pm_evt_handler: only a successful deletion starts advertising.
PeersDeleted(succeeded) ==
    /\ boot = "erasing"
    /\ boot' = IF succeeded THEN "up" ELSE "stuck"
    /\ advertising' = succeeded
    /\ UNCHANGED <<vars, radio, evtq, handles, linkHistory>>

-----------------------------------------------------------------------------
(* The observers, in the order of their priorities, for one event each time. *)

Fetch(t) == /\ pc = "ready"
            /\ evtq # <<>>
            /\ Head(evtq).type = t

\* Mutant: advertising is started again on the connection.
OnConnected_KeepsAdvertising ==
    /\ Fetch("CONNECTED")
    /\ evtq' = Tail(evtq)
    /\ slave_conn_handle' = Handle
    /\ cus_conn_handle' = Handle
    /\ m_conn_handle' = Handle
    /\ advertising' = TRUE
    /\ UNCHANGED <<vars, radio, boot, linkHistory>>

\* Mutant: the number of the connection is taken for its handle.
OnConnected_WrongHandle ==
    /\ Fetch("CONNECTED")
    /\ evtq' = Tail(evtq)
    /\ slave_conn_handle' = Handle
    /\ cus_conn_handle' = Head(evtq).conn
    /\ m_conn_handle' = Handle
    /\ UNCHANGED <<vars, radio, advertising, boot, linkHistory>>

\* ble_advertising, ble_cus and ble_manager note the handle.
OnConnected ==
    /\ Fetch("CONNECTED")
    /\ evtq' = Tail(evtq)
    /\ slave_conn_handle' = Handle
    /\ cus_conn_handle' = Handle
    /\ m_conn_handle' = Handle
    /\ UNCHANGED <<vars, radio, advertising, boot, linkHistory>>

\* Mutant: ble_cus keeps the handle of the lost link.
OnDisconnected_KeepsHandle ==
    /\ Fetch("DISCONNECTED")
    /\ evtq' = Tail(evtq)
    /\ advertising' = (advertising \/ slave_conn_handle = Handle)
    /\ UNCHANGED <<vars, radio, boot, handles, linkHistory>>

\* Mutant: nobody starts advertising again.
OnDisconnected_NoAdvertising ==
    /\ Fetch("DISCONNECTED")
    /\ evtq' = Tail(evtq)
    /\ cus_conn_handle' = InvalidHandle
    /\ UNCHANGED <<vars, radio, advertising, boot, m_conn_handle, slave_conn_handle, linkHistory>>

\* ble_advertising starts again if the link was its own; ble_cus forgets the
\* handle; ble_manager keeps m_conn_handle.
OnDisconnected ==
    /\ Fetch("DISCONNECTED")
    /\ evtq' = Tail(evtq)
    /\ advertising' = (advertising \/ slave_conn_handle = Handle)
    /\ cus_conn_handle' = InvalidHandle
    /\ UNCHANGED <<vars, radio, boot, m_conn_handle, slave_conn_handle, linkHistory>>

\* on_write of ble_cus, for the handle of the characteristic value.
OnWriteEvt ==
    /\ Fetch("WRITE")
    /\ evtq' = Tail(evtq)
    /\ OnWrite(Head(evtq).data)
    /\ asker' = Head(evtq).conn
    /\ told' = NoLink
    /\ UNCHANGED <<radio, advertising, boot, handles, cause>>

\* on_write of ble_cus, for any other handle.
OnOtherWrite ==
    /\ Fetch("CCCD_WRITE")
    /\ evtq' = Tail(evtq)
    /\ UNCHANGED <<vars, radio, advertising, boot, handles, linkHistory>>

\* sd_ble_gap_phy_update, whose answer is given to APP_ERROR_CHECK.
OnPhyUpdateRequest ==
    /\ Fetch("PHY_UPDATE_REQUEST")
    /\ link # NoLink
    /\ evtq' = Tail(evtq)
    /\ UNCHANGED <<vars, radio, advertising, boot, handles, linkHistory>>

\* sd_ble_gap_disconnect, whose answer is given to APP_ERROR_CHECK.
OnTimeout ==
    /\ Fetch("GATTC_TIMEOUT")
    /\ link # NoLink
    /\ link' = NoLink
    /\ evtq' = Append(Tail(evtq), Evt("DISCONNECTED", link, NoWrite))
    /\ UNCHANGED <<vars, conns, subscribed, advertising, boot, handles, linkHistory>>

\* The same two events, fetched when their link is gone: the SoftDevice answers
\* BLE_ERROR_INVALID_CONN_HANDLE, and APP_ERROR_CHECK ends in a reset.
AppErrorCheckFails ==
    /\ \E t \in {"PHY_UPDATE_REQUEST", "GATTC_TIMEOUT"} : Fetch(t)
    /\ link = NoLink
    /\ Reboot("fault")

Dispatch == \/ OnConnected \/ OnDisconnected \/ OnWriteEvt \/ OnOtherWrite
            \/ OnPhyUpdateRequest \/ OnTimeout \/ AppErrorCheckFails

\* ble_send_data can succeed only with the service's handle valid, the link up
\* and the phone subscribed; even then the SoftDevice may be out of buffers.
CanNotify == cus_conn_handle = Handle /\ link # NoLink /\ subscribed

RunFsm ==
    /\ FsmRun
    /\ notified' = "sent" => notified = "sent" \/ CanNotify
    /\ told' = IF notified' = notified THEN told ELSE link
    /\ UNCHANGED <<radio, advertising, evtq, boot, handles, asker, cause>>

-----------------------------------------------------------------------------

LinkInit == /\ Init
            /\ link = NoLink
            /\ conns = 0
            /\ subscribed = FALSE
            /\ advertising = FALSE
            /\ evtq = <<>>
            /\ boot = "init"
            /\ cus_conn_handle = InvalidHandle
            /\ m_conn_handle = InvalidHandle
            /\ slave_conn_handle = InvalidHandle
            /\ asker = NoLink
            /\ told = NoLink
            /\ cause = "power"

StartUp == \/ \E x \in BOOLEAN : InitBle(x)
           \/ \E ok \in BOOLEAN : PeersDeleted(ok)

LinkNext == Environment \/ StartUp \/ Dispatch \/ RunFsm \/ NfcField

\* The interrupt that dispatches events is taken and runs to its end, and the
\* peer manager answers; the phone and the field owe nothing.
LinkSpec == /\ LinkInit /\ [][LinkNext]_allVars
            /\ WF_allVars(StartUp)
            /\ WF_allVars(Dispatch)
            /\ WF_allVars(RunFsm)

-----------------------------------------------------------------------------
(* What must hold. *)

\* The unique password goes to the connection whose write asked for it, though
\* that connection may drop while the write is being handled.
AnswersAsker == notified = "sent" => told = asker

\* Events of an old connection are never mixed with a new one, which is what
\* lets every observer work with the bare handle: advertising starts again
\* only once the disconnection has been handled.
NoStaleEvents == \A i \in 1 .. Len(evtq) : link # NoLink => evtq[i].conn = link

\* A write is only ever handled with the service's handle valid.
WriteHasHandle == pc # "ready" => cus_conn_handle = Handle

\* With every event handled, the handles agree with the radio, and a gateway
\* without a link advertises.
HandlesSettle ==
    pc = "ready" /\ evtq = <<>> /\ boot = "up" =>
        IF link # NoLink
        THEN {cus_conn_handle, m_conn_handle, slave_conn_handle} = {Handle}
        ELSE cus_conn_handle = InvalidHandle /\ advertising

\* The strengthening that makes the invariants above inductive.  All queued
\* events are of the last connection, its connection event first and its
\* disconnection last; the gateway advertises only with nothing left of a
\* connection, and only then can another one begin.
Quiet == link = NoLink /\ evtq = <<>>

Idx == 1 .. Len(evtq)

Ordered == \A i \in Idx : /\ evtq[i].conn = conns
                          /\ evtq[i].type = "CONNECTED" => i = 1
                          /\ evtq[i].type = "DISCONNECTED" => i = Len(evtq) /\ link = NoLink
                          /\ evtq[i].type = "WRITE" => evtq[i].data \in Writes

ConnectionHandled == ~Quiet /\ \A i \in Idx : evtq[i].type # "CONNECTED"

Between == /\ boot # "up" => Quiet /\ pc = "ready" /\ ~advertising
           /\ advertising => Quiet /\ pc = "ready"
           /\ boot = "up" /\ ~advertising /\ link = NoLink =>
                  evtq # <<>> /\ evtq[Len(evtq)].type = "DISCONNECTED"
           /\ boot # "up" \/ advertising => cus_conn_handle = InvalidHandle

LinkIInv == /\ LinkTypes
            /\ Ordered
            /\ link # NoLink => link = conns
            /\ Between
            /\ ConnectionHandled =>
                   {cus_conn_handle, m_conn_handle, slave_conn_handle} = {Handle}
            /\ pc # "ready" => ConnectionHandled /\ asker = conns
            /\ AnswersAsker

\* Once no NFC field restarts it any more, a gateway without a link becomes
\* connectable again, unless the deletion of its bonds has failed.
FieldsCease == <>[][~NfcField]_allVars

Connectable ==
    FieldsCease => (link = NoLink ~> advertising \/ link # NoLink \/ boot = "stuck")

\* With the radio, the queue and the faults around it, the controller still
\* keeps the door's promise.
DoorKept == Door!Safe

\* The calls that APP_ERROR_CHECK guards in ble_evt_handler succeed.
NoAppError == cause # "fault"
=============================================================================
