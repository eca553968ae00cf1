--------------------------- MODULE BleLink_proofs ---------------------------
(***************************************************************************)
(* Proofs about the door controller, for any set of serials and passwords  *)
(* and any ring of at least two slots, and about the BLE link it answers   *)
(* to, for any number of connections and any length of the event queue.    *)
(***************************************************************************)
EXTENDS BleLink, TLAPS, SequenceTheorems

-----------------------------------------------------------------------------
(* The door controller. *)

(* The ring: an index stays an index, and one added event makes a ring that *)
(* was empty non-empty.                                                     *)
LEMMA NextSlotIsSlot ==
    ASSUME NEW i \in 0 .. QueueSize - 1
    PROVE  NextSlot(i) \in 0 .. QueueSize - 1 /\ NextSlot(i) # i
<1>1. CASE i = QueueSize - 1
  <2>1. NextSlot(i) = 0
    BY <1>1, QueueAssumption DEF NextSlot
  <2>2. QED
    BY <1>1, <2>1, QueueAssumption
<1>2. CASE i < QueueSize - 1
  <2>1. NextSlot(i) = i + 1
    BY <1>2, QueueAssumption DEF NextSlot
  <2>2. QED
    BY <1>2, <2>1, QueueAssumption
<1>3. QED
  BY <1>1, <1>2, QueueAssumption

(* The rest of an iteration, entered with an empty ring, leaves it empty.   *)
(* A handler that adds nothing ends the run or has its event redelivered;   *)
(* one that adds an event has that event delivered next.                    *)
RingType == /\ event_queue \in [0 .. QueueSize - 1 -> fsm_event_t]
            /\ queue_head \in 0 .. QueueSize - 1
            /\ queue_tail \in 0 .. QueueSize - 1

LEMMA IterateGoes ==
    ASSUME RingType, queue_head = queue_tail, NEW s, Iterate(Goes(s))
    PROVE  /\ RingType' /\ queue_head' = queue_tail'
           /\ current_state' = s
           /\ current_event' = IF s = current_state THEN "NO_EVENT" ELSE current_event
           /\ pc' = IF current_event' = "NO_EVENT" THEN "ready" ELSE "run"
           /\ write' = write
BY DEF RingType, Iterate, Goes, fsm_get_next_event

LEMMA IterateAdds ==
    ASSUME RingType, queue_head = queue_tail, NEW s, NEW e \in fsm_event_t,
           Iterate(Adds(s, e))
    PROVE  /\ RingType' /\ queue_head' = queue_tail'
           /\ current_state' = s
           /\ current_event' = e
           /\ pc' = IF e = "NO_EVENT" THEN "ready" ELSE "run"
           /\ write' = write
<1>1. e # "NONE"
  BY DEF fsm_event_t
<1>2. /\ event_queue' = [event_queue EXCEPT ![queue_tail] = e]
      /\ queue_tail' = NextSlot(queue_tail)
      /\ fsm_get_next_event
      /\ current_state' = s
      /\ pc' = IF current_event' = "NO_EVENT" THEN "ready" ELSE "run"
      /\ write' = write
  BY <1>1 DEF Iterate, Adds, fsm_add_event
<1>3. queue_tail' \in 0 .. QueueSize - 1 /\ queue_tail' # queue_head
  BY <1>2, NextSlotIsSlot DEF RingType
<1>4. current_event' = event_queue'[queue_head] /\ queue_head' = queue_tail'
  BY <1>2, <1>3 DEF fsm_get_next_event
<1>5. event_queue' \in [0 .. QueueSize - 1 -> fsm_event_t] /\ event_queue'[queue_head] = e
  BY <1>2 DEF RingType
<1>6. QED
  BY <1>2, <1>3, <1>4, <1>5 DEF RingType

-----------------------------------------------------------------------------
(* The inductive invariant. *)

LEMMA InitIInv == Init => IInv
<1>1. ZeroData \in Writes
  BY SerialAssumption, PasswordAssumption DEF ZeroData, Writes
<1>2. ZeroQueue \in [0 .. QueueSize - 1 -> fsm_event_t] /\ 0 \in 0 .. QueueSize - 1
  BY QueueAssumption DEF ZeroQueue, fsm_event_t
<1>3. QED
  BY <1>1, <1>2 DEF Init, IInv, TypeOK, NothingLeftBehind, RunDecides, fsm_state_t, fsm_event_t

LEMMA RestartIInv == Restart => IInv'
<1>1. ZeroData \in Writes
  BY SerialAssumption, PasswordAssumption DEF ZeroData, Writes
<1>2. ZeroQueue \in [0 .. QueueSize - 1 -> fsm_event_t] /\ 0 \in 0 .. QueueSize - 1
  BY QueueAssumption DEF ZeroQueue, fsm_event_t
<1>3. QED
  BY <1>1, <1>2 DEF Restart, IInv, TypeOK, NothingLeftBehind, RunDecides, fsm_state_t, fsm_event_t

LEMMA OnWriteIInv == ASSUME IInv, NEW w \in Writes, OnWrite(w) PROVE IInv'
<1>1. ZeroData \in Writes
  BY SerialAssumption, PasswordAssumption DEF ZeroData, Writes
<1>2. ZeroQueue \in [0 .. QueueSize - 1 -> fsm_event_t] /\ 0 \in 0 .. QueueSize - 1
  BY QueueAssumption DEF ZeroQueue, fsm_event_t
<1>3. QED
  BY <1>1, <1>2 DEF OnWrite, IInv, TypeOK, NothingLeftBehind, RunDecides, Undecided, At,
                    fsm_state_t, fsm_event_t

(* What every handler finds: an empty, well-typed ring and a write.         *)
LEMMA HandlerEntry ==
    ASSUME IInv, pc = "run"
    PROVE  RingType /\ queue_head = queue_tail /\ write \in Writes /\ door = "low"
BY DEF IInv, TypeOK, RingType, NothingLeftBehind

LEMMA StateIdleIInv == ASSUME IInv, StateIdle PROVE IInv'
<1>1. current_event = "DATA_RCVD" /\ Undecided
  BY DEF StateIdle, Handling, IInv, Undecided, Parsed, Granted, FirstTime, Subsequent, Refused, At
<1>2. Iterate(Goes("CONNECTED"))
  BY <1>1 DEF StateIdle, state_idle
<1>3. /\ RingType' /\ queue_head' = queue_tail' /\ write' = write
      /\ current_state' = "CONNECTED" /\ current_event' = "DATA_RCVD" /\ pc' = "run"
  BY <1>1, <1>2, HandlerEntry, IterateGoes DEF StateIdle, Handling
<1>4. QED
  BY <1>1, <1>3, HandlerEntry
  DEF StateIdle, Handling, history, IInv, TypeOK, RingType, NothingLeftBehind, RunDecides,
      Undecided, At, fsm_state_t, fsm_event_t

LEMMA StateConnectedIInv == ASSUME IInv, StateConnected PROVE IInv'
<1> DEFINE e == current_event
<1>1. /\ pc = "run" /\ current_state = "CONNECTED" /\ UNCHANGED <<door, opens, notified>>
      /\ opens = 0 /\ notified = "no"
  BY DEF StateConnected, Handling, history, IInv, Undecided, Parsed, Granted, At
<1>2. RingType /\ queue_head = queue_tail /\ write \in Writes /\ door = "low"
  BY <1>1, HandlerEntry
<1>3. CASE e = "DATA_RCVD"
  <2>1. Iterate(Adds("CONNECTED", "CHECK_PASSWORD")) /\ received_data' = received_data
    BY <1>3 DEF StateConnected, state_connected
  <2>2. /\ RingType' /\ queue_head' = queue_tail' /\ write' = write
        /\ current_state' = "CONNECTED" /\ current_event' = "CHECK_PASSWORD" /\ pc' = "run"
    BY <1>2, <2>1, IterateAdds DEF fsm_event_t
  <2>3. QED
    BY <1>1, <1>2, <2>1, <2>2
    DEF IInv, TypeOK, RingType, NothingLeftBehind, RunDecides, Undecided, At, fsm_state_t, fsm_event_t
<1>4. CASE e = "CHECK_PASSWORD"
  <2> DEFINE next == check_received_password(write.password)
  <2>1. Iterate(Adds("CONNECTED", next)) /\ received_data' = write
    BY <1>4 DEF StateConnected, state_connected
  <2>2. next \in {"FIRST_CONNECTION", "SUBSEQUENT_CONNECTION", "PASSWORD_INVALID"}
    BY DEF check_received_password
  <2>3. /\ RingType' /\ queue_head' = queue_tail' /\ write' = write
        /\ current_state' = "CONNECTED" /\ current_event' = next /\ pc' = "run"
    BY <1>2, <2>1, <2>2, IterateAdds DEF fsm_event_t
  <2>4. Parsed'
    BY <1>1, <2>1, <2>3, PasswordAssumption
    DEF Parsed, FirstTime, Subsequent, Refused, At, check_received_password
  <2>5. QED
    BY <1>1, <1>2, <2>1, <2>2, <2>3, <2>4
    DEF IInv, TypeOK, RingType, NothingLeftBehind, RunDecides, fsm_state_t, fsm_event_t
<1>5. CASE e \notin {"DATA_RCVD", "CHECK_PASSWORD"}
  <2>1. Parsed /\ e \in {"FIRST_CONNECTION", "SUBSEQUENT_CONNECTION", "PASSWORD_INVALID"}
    BY <1>1, <1>5 DEF IInv, Undecided, Parsed, Granted, FirstTime, Subsequent, Refused, At
  <2> DEFINE target == IF e = "PASSWORD_INVALID" THEN "SLEEP" ELSE e
  <2>2. Iterate(Goes(target)) /\ received_data' = received_data
    BY <2>1 DEF StateConnected, state_connected
  <2>3. /\ RingType' /\ queue_head' = queue_tail' /\ write' = write
        /\ current_state' = target /\ current_event' = e /\ pc' = "run"
    BY <1>1, <1>2, <2>1, <2>2, IterateGoes
  <2>4. Parsed'
    BY <1>1, <2>1, <2>2, <2>3 DEF Parsed, FirstTime, Subsequent, Refused, At
  <2>5. QED
    BY <1>1, <1>2, <2>1, <2>2, <2>3, <2>4
    DEF IInv, TypeOK, RingType, NothingLeftBehind, RunDecides, fsm_state_t, fsm_event_t
<1>6. QED
  BY <1>3, <1>4, <1>5

LEMMA StateFirstConnectionIInv ==
    ASSUME IInv, NEW sent \in BOOLEAN, StateFirstConnection(sent)
    PROVE  IInv'
<1> DEFINE e == current_event
<1>1. /\ pc = "run" /\ current_state = "FIRST_CONNECTION" /\ UNCHANGED <<received_data, door, opens>>
      /\ Parsed /\ FirstTime
      /\ e \in {"FIRST_CONNECTION", "SERIAL_VALID", "SERIAL_INVALID"}
  BY DEF StateFirstConnection, Handling, IInv, Undecided, Parsed, Granted, FirstTime,
         Subsequent, Refused, At
<1>2. RingType /\ queue_head = queue_tail /\ write \in Writes /\ door = "low"
  BY <1>1, HandlerEntry
<1>3. CASE e = "FIRST_CONNECTION"
  <2> DEFINE next == action_check_serial_number
  <2>1. Iterate(Adds("FIRST_CONNECTION", next)) /\ notified' = notified
    BY <1>3 DEF StateFirstConnection, state_first_connection
  <2>2. next \in {"SERIAL_VALID", "SERIAL_INVALID"}
    BY DEF action_check_serial_number
  <2>3. /\ RingType' /\ queue_head' = queue_tail' /\ write' = write
        /\ current_state' = "FIRST_CONNECTION" /\ current_event' = next /\ pc' = "run"
    BY <1>2, <2>1, <2>2, IterateAdds DEF fsm_event_t
  <2>4. Parsed'
    BY <1>1, <2>1, <2>3 DEF Parsed, FirstTime, At, action_check_serial_number
  <2>5. QED
    BY <1>1, <1>2, <2>1, <2>2, <2>3, <2>4
    DEF IInv, TypeOK, RingType, NothingLeftBehind, RunDecides, fsm_state_t, fsm_event_t
<1>4. CASE e = "SERIAL_VALID"
  <2>1. Iterate(Adds("DOOR_OPEN", "PASSWORD_VALID")) /\ notified' \in {"sent", "failed"}
    BY <1>4 DEF StateFirstConnection, state_first_connection, action_send_unique_password
  <2>2. /\ RingType' /\ queue_head' = queue_tail' /\ write' = write
        /\ current_state' = "DOOR_OPEN" /\ current_event' = "PASSWORD_VALID" /\ pc' = "run"
    BY <1>2, <2>1, IterateAdds DEF fsm_event_t
  <2>3. write \in AuthorisedWrites /\ write.password = first_time_password /\ opens = 0
    BY <1>1, <1>2, <1>4 DEF Parsed, FirstTime, At, AuthorisedWrites
  <2>4. AuthorisedWrites' = AuthorisedWrites
    BY DEF AuthorisedWrites
  <2>5. Granted'
    BY <1>1, <2>1, <2>2, <2>3, <2>4 DEF Granted, At
  <2>6. QED
    BY <1>1, <1>2, <2>1, <2>2, <2>5
    DEF IInv, TypeOK, RingType, NothingLeftBehind, RunDecides, fsm_state_t, fsm_event_t
<1>5. CASE e = "SERIAL_INVALID"
  <2>1. Iterate(Goes("SLEEP")) /\ notified' = notified
    BY <1>5 DEF StateFirstConnection, state_first_connection
  <2>2. /\ RingType' /\ queue_head' = queue_tail' /\ write' = write
        /\ current_state' = "SLEEP" /\ current_event' = e /\ pc' = "run"
    BY <1>1, <1>2, <1>5, <2>1, IterateGoes
  <2>3. Parsed'
    BY <1>1, <1>5, <2>1, <2>2 DEF Parsed, FirstTime, At
  <2>4. QED
    BY <1>1, <1>2, <1>5, <2>1, <2>2, <2>3
    DEF IInv, TypeOK, RingType, NothingLeftBehind, RunDecides, fsm_state_t, fsm_event_t
<1>6. QED
  BY <1>1, <1>3, <1>4, <1>5

LEMMA StateSubsequentConnectionIInv == ASSUME IInv, StateSubsequentConnection PROVE IInv'
<1> DEFINE e == current_event
<1>1. /\ pc = "run" /\ current_state = "SUBSEQUENT_CONNECTION"
      /\ UNCHANGED <<received_data, door, opens, notified>>
      /\ Parsed /\ Subsequent
      /\ e \in {"SUBSEQUENT_CONNECTION", "PASSWORD_VALID"}
  BY DEF StateSubsequentConnection, Handling, history, IInv, Undecided, Parsed, Granted,
         FirstTime, Subsequent, Refused, At
<1>2. RingType /\ queue_head = queue_tail /\ write \in Writes /\ door = "low"
  BY <1>1, HandlerEntry
<1>3. CASE e = "SUBSEQUENT_CONNECTION"
  <2>1. Iterate(Adds("SUBSEQUENT_CONNECTION", "PASSWORD_VALID"))
    BY <1>3 DEF StateSubsequentConnection, state_subsequent_connection
  <2>2. /\ RingType' /\ queue_head' = queue_tail' /\ write' = write
        /\ current_state' = "SUBSEQUENT_CONNECTION" /\ current_event' = "PASSWORD_VALID"
        /\ pc' = "run"
    BY <1>2, <2>1, IterateAdds DEF fsm_event_t
  <2>3. Parsed'
    BY <1>1, <2>2 DEF Parsed, Subsequent, At
  <2>4. QED
    BY <1>1, <1>2, <2>2, <2>3
    DEF IInv, TypeOK, RingType, NothingLeftBehind, RunDecides, fsm_state_t, fsm_event_t
<1>4. CASE e = "PASSWORD_VALID"
  <2>1. Iterate(Goes("DOOR_OPEN"))
    BY <1>4 DEF StateSubsequentConnection, state_subsequent_connection
  <2>2. /\ RingType' /\ queue_head' = queue_tail' /\ write' = write
        /\ current_state' = "DOOR_OPEN" /\ current_event' = "PASSWORD_VALID" /\ pc' = "run"
    BY <1>1, <1>2, <1>4, <2>1, IterateGoes
  <2>3. write \in AuthorisedWrites /\ write.password # first_time_password
    BY <1>1, <1>2, PasswordAssumption DEF Subsequent, AuthorisedWrites
  <2>4. AuthorisedWrites' = AuthorisedWrites
    BY DEF AuthorisedWrites
  <2>5. Granted'
    BY <1>1, <2>2, <2>3, <2>4 DEF Granted, Parsed, At
  <2>6. QED
    BY <1>1, <1>2, <2>2, <2>5
    DEF IInv, TypeOK, RingType, NothingLeftBehind, RunDecides, fsm_state_t, fsm_event_t
<1>5. QED
  BY <1>1, <1>3, <1>4

LEMMA StateDoorOpenRaiseIInv == ASSUME IInv, StateDoorOpenRaise PROVE IInv'
<1>1. /\ pc = "run" /\ Granted /\ opens = 0 /\ write \in Writes
  BY DEF StateDoorOpenRaise, Handling, IInv, Undecided, Parsed, FirstTime, Subsequent, Refused,
         Granted, At
<1>2. AuthorisedWrites' = AuthorisedWrites
  BY DEF AuthorisedWrites
<1>3. Granted'
  BY <1>1, <1>2 DEF StateDoorOpenRaise, Handling, Granted, At
<1>4. QED
  BY <1>1, <1>3
  DEF StateDoorOpenRaise, Handling, ring, IInv, TypeOK, NothingLeftBehind, RunDecides

LEMMA StateDoorOpenLowerIInv == ASSUME IInv, StateDoorOpenLower PROVE IInv'
<1>1. /\ pc = "delay" /\ Granted /\ write \in Writes /\ RingType /\ queue_head = queue_tail
      /\ door' = "low" /\ UNCHANGED <<received_data, opens, notified>>
  BY DEF StateDoorOpenLower, history, IInv, TypeOK, NothingLeftBehind, RingType
<1>2. opens = 1 /\ current_event = "PASSWORD_VALID"
  BY <1>1 DEF Granted, At
<1>3. Iterate(Adds("DOOR_OPEN", "WRITE_USR_INFO"))
  BY <1>2 DEF StateDoorOpenLower, state_door_open
<1>4. /\ RingType' /\ queue_head' = queue_tail' /\ write' = write
      /\ current_state' = "DOOR_OPEN" /\ current_event' = "WRITE_USR_INFO" /\ pc' = "run"
  BY <1>1, <1>3, IterateAdds DEF fsm_event_t
<1>5. AuthorisedWrites' = AuthorisedWrites
  BY DEF AuthorisedWrites
<1>6. Granted'
  BY <1>1, <1>2, <1>4, <1>5 DEF Granted, At
<1>7. QED
  BY <1>1, <1>4, <1>6
  DEF IInv, TypeOK, RingType, NothingLeftBehind, RunDecides, fsm_state_t, fsm_event_t

LEMMA StateDoorOpenOtherIInv == ASSUME IInv, StateDoorOpenOther PROVE IInv'
<1>1. /\ pc = "run" /\ Granted /\ opens = 1 /\ current_event = "WRITE_USR_INFO"
      /\ UNCHANGED <<received_data, door, opens, notified>>
  BY DEF StateDoorOpenOther, Handling, history, IInv, Undecided, Parsed, FirstTime, Subsequent,
         Refused, Granted, At
<1>2. RingType /\ queue_head = queue_tail /\ write \in Writes /\ door = "low"
  BY <1>1, HandlerEntry
<1>3. Iterate(Adds("SLEEP", "GO_TO_SLEEP"))
  BY <1>1 DEF StateDoorOpenOther, state_door_open
<1>4. /\ RingType' /\ queue_head' = queue_tail' /\ write' = write
      /\ current_state' = "SLEEP" /\ current_event' = "GO_TO_SLEEP" /\ pc' = "run"
  BY <1>2, <1>3, IterateAdds DEF fsm_event_t
<1>5. AuthorisedWrites' = AuthorisedWrites
  BY DEF AuthorisedWrites
<1>6. Granted'
  BY <1>1, <1>4, <1>5 DEF Granted, At
<1>7. QED
  BY <1>1, <1>2, <1>4, <1>6
  DEF IInv, TypeOK, RingType, NothingLeftBehind, RunDecides, fsm_state_t, fsm_event_t

(* The end of a run: what Refused or Granted says becomes the decision.     *)
LEMMA StateSleepIInv == ASSUME IInv, StateSleep PROVE IInv'
<1>1. /\ pc = "run" /\ current_state = "SLEEP" /\ UNCHANGED <<received_data, door, opens, notified>>
  BY DEF StateSleep, Handling, history
<1>2. RingType /\ queue_head = queue_tail /\ write \in Writes /\ door = "low"
  BY <1>1, HandlerEntry
<1>3. Iterate(Adds("SLEEP", "NO_EVENT"))
  BY DEF StateSleep, state_sleep
<1>4. /\ RingType' /\ queue_head' = queue_tail' /\ write' = write
      /\ current_state' = "SLEEP" /\ current_event' = "NO_EVENT" /\ pc' = "ready"
  BY <1>2, <1>3, IterateAdds DEF fsm_event_t
<1>5. opens = IF write \in AuthorisedWrites THEN 1 ELSE 0
  <2>1. CASE Granted
    BY <1>1, <2>1 DEF Granted, At
  <2>2. CASE Parsed
    BY <1>1, <1>2, <2>2, PasswordAssumption
    DEF Parsed, FirstTime, Subsequent, Refused, At, AuthorisedWrites
  <2>3. QED
    BY <1>1, <2>1, <2>2 DEF IInv, Undecided, At
<1>6. AuthorisedWrites' = AuthorisedWrites
  BY DEF AuthorisedWrites
<1>7. QED
  BY <1>1, <1>2, <1>4, <1>5, <1>6
  DEF IInv, TypeOK, RingType, NothingLeftBehind, RunDecides, fsm_state_t, fsm_event_t

LEMMA NextIInv == IInv /\ [Next]_vars => IInv'
<1> SUFFICES ASSUME IInv, [Next]_vars PROVE IInv'
  OBVIOUS
<1>1. CASE \E w \in Writes : OnWrite(w)
  BY <1>1, OnWriteIInv
<1>2. CASE FsmRun
  BY <1>2, StateIdleIInv, StateConnectedIInv, StateFirstConnectionIInv,
     StateSubsequentConnectionIInv, StateDoorOpenRaiseIInv, StateDoorOpenLowerIInv,
     StateDoorOpenOtherIInv, StateSleepIInv
  DEF FsmRun
<1>3. CASE Restart
  BY <1>3, RestartIInv
<1>4. CASE UNCHANGED vars
  <2>1. AuthorisedWrites' = AuthorisedWrites
    BY DEF AuthorisedWrites
  <2>2. QED
    BY <1>4, <2>1
    DEF vars, ring, history, IInv, TypeOK, NothingLeftBehind, RunDecides, Undecided, Parsed,
        FirstTime, Subsequent, Refused, Granted, At
<1>5. QED
  BY <1>1, <1>2, <1>3, <1>4 DEF Next

(* The inductive invariant holds, with or without fairness.                 *)
THEOREM Invariance == Safe => []IInv
BY InitIInv, NextIInv, PTL DEF Safe

(* Types are kept, for every ring size and every set of serials.            *)
THEOREM TypeCorrect == Safe => []TypeOK
<1>1. IInv => TypeOK
  BY DEF IInv
<1>2. QED
  BY <1>1, Invariance, PTL

(* state_door_open raises the pins only for a write whose bytes authorise   *)
(* it (ble_fsm.c:150).                                                      *)
THEOREM DoorIsGuarded == Safe => []OpensOnlyForAuthorised
<1>1. IInv => OpensOnlyForAuthorised
  BY DEF IInv, OpensOnlyForAuthorised, Granted
<1>2. QED
  BY <1>1, Invariance, PTL

(* When fsm_run returns, the write has been decided: the pins were raised   *)
(* exactly once if it is authorised, never otherwise.                       *)
THEOREM RunIsDecided == Safe => []RunDecides
<1>1. IInv => RunDecides
  BY DEF IInv
<1>2. QED
  BY <1>1, Invariance, PTL

(* fsm_add_event never meets a full ring, whatever its size, since every    *)
(* handler is entered with an empty one.                                    *)
THEOREM RingIsDrained == Safe => []NothingLeftBehind
<1>1. IInv => NothingLeftBehind
  BY DEF IInv
<1>2. QED
  BY <1>1, Invariance, PTL

(* A first-time phone is sent the unique password, or the send was tried,   *)
(* before the door opens for it; no other phone is.                         *)
THEOREM NotifiedFirst == Safe => []NotifiedBeforeOpen
<1>1. IInv => NotifiedBeforeOpen
  BY DEF IInv, NotifiedBeforeOpen, Granted
<1>2. QED
  BY <1>1, Invariance, PTL

-----------------------------------------------------------------------------
(* The safety half of the refinement: every step of the controller is a step*)
(* of DoorAccess or leaves its variables alone.  Its liveness half is left  *)
(* to TLC.                                                                  *)

(* Handlers between the entry of a run and its decision touch nothing that  *)
(* DoorAccess sees.                                                         *)
LEMMA SilentStep ==
    ASSUME pc = "run", pc' = "run", UNCHANGED <<write, door, opens>>
    PROVE  UNCHANGED Door!vars
BY DEF Door!vars

LEMMA StepRefines ==
    ASSUME IInv, IInv', [Next]_vars
    PROVE  Door!Next \/ UNCHANGED Door!vars
<1> USE DEF Door!vars
<1>1. ASSUME NEW w \in Writes, OnWrite(w) PROVE Door!Next
  <2>1. pc = "ready" /\ door = "low" /\ w # NoWrite
    BY <1>1, NoWriteAssumption DEF OnWrite, IInv, TypeOK
  <2>2. Door!Submit(w)
    BY <1>1, <2>1 DEF OnWrite, Door!Submit
  <2>3. QED
    BY <1>1, <2>2 DEF Door!Next
<1>2. CASE FsmRun /\ pc = "run" /\ pc' = "run" /\ ~StateDoorOpenRaise
  <2>1. UNCHANGED <<write, door, opens>>
    BY <1>2
    DEF FsmRun, StateIdle, StateConnected, StateFirstConnection, StateSubsequentConnection,
        StateDoorOpenLower, StateDoorOpenOther, StateSleep, Iterate, history
  <2>2. QED
    BY <1>2, <2>1, SilentStep
<1>3. CASE StateDoorOpenRaise
  <2>1. pc = "run" /\ pc' = "delay" /\ opens = 0 /\ opens' = 1 /\ door' = "high" /\ write' = write
    BY <1>3
    DEF StateDoorOpenRaise, Handling, IInv, Undecided, Parsed, FirstTime, Subsequent, Refused,
        Granted, At
  <2>2. write \in AuthorisedWrites
    BY <1>3
    DEF StateDoorOpenRaise, Handling, IInv, Undecided, Parsed, FirstTime, Subsequent, Refused,
        Granted, At
  <2>3. Door!Open
    BY <2>1, <2>2 DEF Door!Open
  <2>4. QED
    BY <2>3 DEF Door!Next
<1>4. CASE StateDoorOpenLower
  <2>1. pc = "delay" /\ door = "high" /\ door' = "low" /\ write' = write /\ opens' = opens
    BY <1>4 DEF StateDoorOpenLower, Iterate, history, IInv
  <2>2. pc' # "ready"
    <3>1. RingType /\ queue_head = queue_tail /\ current_event = "PASSWORD_VALID"
      BY <2>1 DEF IInv, TypeOK, RingType, NothingLeftBehind, Granted, At
    <3>2. Iterate(Adds("DOOR_OPEN", "WRITE_USR_INFO"))
      BY <1>4, <3>1 DEF StateDoorOpenLower, state_door_open
    <3>3. QED
      BY <3>1, <3>2, IterateAdds DEF fsm_event_t
  <2>3. Door!Shut
    BY <2>1, <2>2 DEF Door!Shut
  <2>4. QED
    BY <2>3 DEF Door!Next
<1>5. CASE FsmRun /\ pc = "run" /\ pc' = "ready"
  <2>1. UNCHANGED <<write, door, opens>>
    BY <1>5
    DEF FsmRun, StateIdle, StateConnected, StateFirstConnection, StateSubsequentConnection,
        StateDoorOpenRaise, StateDoorOpenLower, StateDoorOpenOther, StateSleep, Iterate, history
  <2>2. write \in Writes /\ write # NoWrite
    BY <1>5, NoWriteAssumption DEF IInv
  <2>3. door = "low" /\ opens = IF write \in AuthorisedWrites THEN 1 ELSE 0
    <3>1. RunDecides'
      BY DEF IInv
    <3>2. AuthorisedWrites' = AuthorisedWrites
      BY DEF AuthorisedWrites
    <3>3. QED
      BY <1>5, <2>1, <2>2, <3>1, <3>2 DEF RunDecides
  <2>4. Door!Finish
    BY <1>5, <2>1, <2>2, <2>3 DEF Door!Finish
  <2>5. QED
    BY <2>4 DEF Door!Next
<1>6. CASE Restart
  <2>1. Door!Restart
    BY <1>6 DEF Restart, Door!Restart
  <2>2. QED
    BY <2>1 DEF Door!Next
<1>7. CASE UNCHANGED vars
  BY <1>7 DEF vars, history
<1>8. FsmRun => \/ StateDoorOpenRaise
                \/ StateDoorOpenLower
                \/ pc = "run" /\ pc' \in {"run", "ready"} /\ ~StateDoorOpenRaise
  BY DEF FsmRun, StateIdle, StateConnected, StateFirstConnection, StateSubsequentConnection,
         StateDoorOpenRaise, StateDoorOpenOther, StateSleep, Handling, Iterate
<1>9. QED
  BY <1>1, <1>2, <1>3, <1>4, <1>5, <1>6, <1>7, <1>8 DEF Next

(* The controller keeps the door's promise, fair or not: it implements      *)
(* DoorAccess.                                                              *)
THEOREM Implementation == Safe => Door!Safe
<1>1. Init => Door!Init
  BY DEF Init, Door!Init
<1>2. IInv /\ IInv' /\ [Next]_vars => [Door!Next]_(Door!vars)
  BY StepRefines
<1>3. QED
  BY <1>1, <1>2, Invariance, PTL DEF Safe, Door!Safe

-----------------------------------------------------------------------------
(* The queue of events. *)

(* What a queue is after one event is added.                                *)
LEMMA Added ==
    ASSUME NEW q \in Seq(Events), NEW e \in Events
    PROVE  /\ Append(q, e) \in Seq(Events)
           /\ Len(q) \in Nat
           /\ Len(Append(q, e)) = Len(q) + 1
           /\ \A i \in 1 .. Len(q) : Append(q, e)[i] = q[i]
           /\ Append(q, e)[Len(q) + 1] = e
           /\ Append(q, e) # <<>>
<1>1. Len(q) \in Nat
  BY LenProperties
<1>2. Len(Append(q, e)) = Len(q) + 1
  BY AppendProperties
<1>3. Append(q, e) # <<>>
  BY <1>1, <1>2, EmptySeq
<1>4. QED
  BY <1>1, <1>2, <1>3, AppendProperties

(* What a queue is after its first event is fetched.                        *)
LEMMA Fetched ==
    ASSUME NEW q \in Seq(Events), q # <<>>
    PROVE  /\ Tail(q) \in Seq(Events)
           /\ Len(q) \in Nat \ {0}
           /\ Len(Tail(q)) = Len(q) - 1
           /\ \A i \in 1 .. Len(Tail(q)) : Tail(q)[i] = q[i + 1]
           /\ Head(q) = q[1]
           /\ q[1] \in Events
           /\ Tail(q) = <<>> <=> Len(q) = 1
<1>1. Len(q) \in Nat \ {0}
  BY EmptySeq
<1>2. Tail(q) \in Seq(Events) /\ Len(Tail(q)) = Len(q) - 1
  BY HeadTailProperties
<1>3. Tail(q) = <<>> <=> Len(q) = 1
  BY <1>1, <1>2, EmptySeq
<1>4. Head(q) = q[1] /\ q[1] \in Events
  BY <1>1, ElementOfSeq
<1>5. QED
  BY <1>1, <1>2, <1>3, <1>4, HeadTailProperties

(* Places before and after the fetch.                                       *)
LEMMA Shifted ==
    ASSUME NEW m \in Nat \ {0}, NEW n, n = m - 1, NEW i \in 1 .. n
    PROVE  i + 1 \in 1 .. m /\ i + 1 # 1 /\ (i + 1 = m => i = n)
OBVIOUS

(* The empty queue.                                                         *)
LEMMA NoEvents == <<>> \in Seq(Events) /\ Len(<<>>) = 0
BY EmptySeq

(* The events of this module are events.                                    *)
LEMMA EvtType ==
    ASSUME NEW t \in EventTypes, NEW c \in 1 .. MaxConns, NEW d \in Writes \union {NoWrite}
    PROVE  /\ Evt(t, c, d) \in Events
           /\ Evt(t, c, d).type = t /\ Evt(t, c, d).conn = c /\ Evt(t, c, d).data = d
BY DEF Evt, Events

-----------------------------------------------------------------------------
(* What the queue says of the connection. *)

(* An event is added for a link that is up: the order of the queue is kept. *)
LEMMA AddInOrder ==
    ASSUME LinkTypes, Ordered, link # NoLink, link = conns,
           NEW t \in EventTypes \ {"CONNECTED"}, NEW d \in Writes \union {NoWrite},
           t = "WRITE" => d \in Writes,
           evtq' = Append(evtq, Evt(t, link, d)), conns' = conns,
           IF t = "DISCONNECTED" THEN link' = NoLink ELSE link' = link
    PROVE  /\ evtq' \in Seq(Events) /\ evtq' # <<>> /\ Ordered'
           /\ evtq'[Len(evtq')].type = t
           /\ (\A i \in Idx' : evtq'[i].type # "CONNECTED")
                  <=> (\A i \in Idx : evtq[i].type # "CONNECTED")
<1> DEFINE e == Evt(t, link, d)
<1>1. link \in 1 .. MaxConns /\ evtq \in Seq(Events) /\ LinkBounds
  BY LinkBounds DEF LinkTypes, NoLink
<1>2. e \in Events /\ e.type = t /\ e.conn = link /\ e.data = d
  BY <1>1, EvtType
<1> HIDE DEF e
<1>3. /\ evtq' \in Seq(Events) /\ evtq' # <<>> /\ Len(evtq) \in Nat /\ Len(evtq') = Len(evtq) + 1
      /\ \A i \in 1 .. Len(evtq) : evtq'[i] = evtq[i]
      /\ evtq'[Len(evtq) + 1] = e
  BY <1>1, <1>2, Added DEF e
<1>4. Ordered'
  BY <1>2, <1>3 DEF Ordered, Idx
<1>5. QED
  BY <1>2, <1>3, <1>4 DEF Idx

(* The first event is fetched: what is left is in order, and a connection   *)
(* event can only have been that first one.                                 *)
LEMMA FetchInOrder ==
    ASSUME LinkTypes, Ordered, evtq # <<>>, evtq' = Tail(evtq), conns' = conns, link' = link
    PROVE  /\ evtq' \in Seq(Events) /\ Ordered'
           /\ \A i \in Idx' : evtq'[i].type # "CONNECTED"
           /\ Head(evtq) \in Events /\ Head(evtq).conn = conns
           /\ Head(evtq).type = "WRITE" => Head(evtq).data \in Writes
           /\ Head(evtq).type = "DISCONNECTED" => link = NoLink /\ evtq' = <<>>
           /\ Head(evtq).type # "CONNECTED" => \A i \in Idx : evtq[i].type # "CONNECTED"
           /\ Head(evtq).type # "DISCONNECTED" /\ evtq[Len(evtq)].type = "DISCONNECTED" =>
                  evtq' # <<>> /\ evtq'[Len(evtq')].type = "DISCONNECTED"
<1>1. /\ evtq' \in Seq(Events) /\ Len(evtq) \in Nat \ {0} /\ Len(evtq') = Len(evtq) - 1
      /\ \A i \in 1 .. Len(evtq') : evtq'[i] = evtq[i + 1]
      /\ Head(evtq) = evtq[1] /\ evtq[1] \in Events
      /\ evtq' = <<>> <=> Len(evtq) = 1
  BY Fetched DEF LinkTypes
<1>2. 1 \in Idx
  BY <1>1 DEF Idx
<1>3. ASSUME NEW i \in Idx'
      PROVE  /\ evtq'[i].conn = conns /\ evtq'[i].type # "CONNECTED"
             /\ evtq'[i].type = "DISCONNECTED" => i = Len(evtq') /\ link = NoLink
             /\ evtq'[i].type = "WRITE" => evtq'[i].data \in Writes
  <2>1. i \in 1 .. Len(evtq')
    BY DEF Idx
  <2>2. evtq'[i] = evtq[i + 1]
    BY <1>1, <2>1
  <2>3. i + 1 \in 1 .. Len(evtq) /\ i + 1 # 1 /\ (i + 1 = Len(evtq) => i = Len(evtq'))
    BY <1>1, <2>1, Shifted
  <2>4. PICK k \in Idx : k = i + 1
    BY <2>3 DEF Idx
  <2>5. /\ evtq[k].conn = conns
        /\ evtq[k].type = "CONNECTED" => k = 1
        /\ evtq[k].type = "DISCONNECTED" => k = Len(evtq) /\ link = NoLink
        /\ evtq[k].type = "WRITE" => evtq[k].data \in Writes
    BY DEF Ordered
  <2>6. QED
    BY <2>2, <2>3, <2>4, <2>5
<1>4. Ordered'
  BY <1>3 DEF Ordered
<1>5. Head(evtq).type # "CONNECTED" => \A i \in Idx : evtq[i].type # "CONNECTED"
  BY <1>1 DEF Ordered, Idx
<1>6. Head(evtq).type = "DISCONNECTED" => link = NoLink /\ evtq' = <<>>
  BY <1>1, <1>2 DEF Ordered
<1>7. Head(evtq).type # "DISCONNECTED" /\ evtq[Len(evtq)].type = "DISCONNECTED" =>
          evtq' # <<>> /\ evtq'[Len(evtq')].type = "DISCONNECTED"
  BY <1>1
<1>8. QED
  BY <1>1, <1>2, <1>3, <1>4, <1>5, <1>6, <1>7 DEF Ordered

(* The order holds of an empty queue, and of a new connection's event.      *)
LEMMA StartInOrder ==
    /\ evtq = <<>> => Ordered
    /\ \A c \in 1 .. MaxConns :
           evtq' = Append(<<>>, Evt("CONNECTED", c, NoWrite)) /\ conns' = c =>
               /\ evtq' \in Seq(Events) /\ Ordered' /\ evtq' # <<>>
               /\ ~(\A i \in Idx' : evtq'[i].type # "CONNECTED")
<1>1. evtq = <<>> => Ordered
  BY NoEvents DEF Ordered, Idx
<1>2. ASSUME NEW c \in 1 .. MaxConns, conns' = c,
             evtq' = Append(<<>>, Evt("CONNECTED", c, NoWrite))
      PROVE  /\ evtq' \in Seq(Events) /\ Ordered' /\ evtq' # <<>>
             /\ ~(\A i \in Idx' : evtq'[i].type # "CONNECTED")
  <2> DEFINE e == Evt("CONNECTED", c, NoWrite)
  <2>1. e \in Events /\ e.type = "CONNECTED" /\ e.conn = c
    BY EvtType DEF EventTypes
  <2> HIDE DEF e
  <2>2. evtq' \in Seq(Events) /\ evtq' # <<>> /\ Len(evtq') = 1 /\ evtq'[1] = e
    BY <1>2, <2>1, NoEvents, Added DEF e
  <2>3. QED
    BY <1>2, <2>1, <2>2 DEF Ordered, Idx
<1>3. QED
  BY <1>1, <1>2

-----------------------------------------------------------------------------
(* Every step keeps the inductive invariant of the link. *)

(* What a step that leaves the controller, its asker and the note of what it *)
(* sent alone has to show.                                                  *)
LEMMA LinkStep ==
    ASSUME LinkIInv, UNCHANGED <<vars, asker, told>>, LinkTypes', Ordered', Between',
           (link # NoLink => link = conns)', UNCHANGED conns,
           ConnectionHandled' =>
               ({cus_conn_handle, m_conn_handle, slave_conn_handle} = {Handle})',
           pc # "ready" => ConnectionHandled'
    PROVE  LinkIInv'
BY DEF LinkIInv, AnswersAsker, vars, history

LEMMA ConnNumbers == NoLink \in 0 .. MaxConns /\ 0 \in 0 .. MaxConns
BY LinkBounds DEF NoLink

LEMMA LinkInitIInv == LinkInit => LinkIInv
<1> SUFFICES ASSUME LinkInit PROVE LinkIInv
  OBVIOUS
<1>1. LinkTypes
  BY NoEvents, ConnNumbers DEF LinkInit, LinkTypes
<1>2. Ordered
  BY StartInOrder DEF LinkInit
<1>3. QED
  BY <1>1, <1>2
  DEF LinkInit, Init, LinkIInv, Between, Quiet, ConnectionHandled, AnswersAsker, NoLink

LEMMA PeerConnectsIInv == ASSUME LinkIInv, PeerConnects PROVE LinkIInv'
<1>1. /\ Quiet /\ pc = "ready" /\ boot = "up" /\ conns + 1 \in 1 .. MaxConns
      /\ link' = conns + 1 /\ conns' = conns + 1 /\ link' # NoLink
      /\ evtq' = Append(<<>>, Evt("CONNECTED", conns + 1, NoWrite))
      /\ ~advertising' /\ UNCHANGED <<vars, boot, handles, linkHistory>>
  BY LinkBounds
  DEF PeerConnects, Raise, LinkIInv, LinkTypes, Between, Quiet, NoLink
<1>2. evtq' \in Seq(Events) /\ Ordered' /\ ~ConnectionHandled'
  BY <1>1, StartInOrder DEF ConnectionHandled
<1>3. LinkTypes'
  <2>1. (link \in 0 .. MaxConns /\ conns \in 0 .. MaxConns)'
    BY <1>1
  <2>2. (subscribed \in BOOLEAN /\ advertising \in BOOLEAN)'
    BY DEF PeerConnects
  <2>3. QED
    BY <1>1, <1>2, <2>1, <2>2 DEF LinkIInv, LinkTypes, handles, linkHistory
<1>4. Between'
  BY <1>1 DEF Between, Quiet
<1>5. QED
  BY <1>1, <1>2, <1>3, <1>4
  DEF LinkIInv, AnswersAsker, vars, history, linkHistory

LEMMA LinkDropsIInv == ASSUME LinkIInv, LinkDrops PROVE LinkIInv'
<1>1. link # NoLink /\ link = conns /\ boot = "up" /\ ~advertising /\ LinkTypes /\ Ordered
  BY DEF LinkDrops, LinkIInv, Between, Quiet
<1>2. /\ link' = NoLink /\ evtq' = Append(evtq, Evt("DISCONNECTED", link, NoWrite))
      /\ UNCHANGED <<vars, conns, subscribed, advertising, boot, handles, linkHistory>>
  BY DEF LinkDrops
<1>3. /\ evtq' \in Seq(Events) /\ evtq' # <<>> /\ Ordered'
      /\ evtq'[Len(evtq')].type = "DISCONNECTED"
      /\ (\A i \in Idx' : evtq'[i].type # "CONNECTED")
             <=> (\A i \in Idx : evtq[i].type # "CONNECTED")
  BY <1>1, <1>2, AddInOrder DEF EventTypes
<1>4. LinkTypes'
  BY <1>1, <1>2, <1>3, ConnNumbers DEF LinkTypes, handles, linkHistory
<1>5. Between'
  BY <1>1, <1>2, <1>3 DEF Between, Quiet
<1>6. ConnectionHandled' <=> ConnectionHandled
  BY <1>1, <1>3 DEF ConnectionHandled, Quiet
<1>7. QED
  BY <1>1, <1>2, <1>3, <1>4, <1>5, <1>6, LinkStep DEF LinkIInv, handles, linkHistory

(* The events a phone raises on its link.                                   *)
LEMMA RaisedIInv ==
    ASSUME LinkIInv, link # NoLink, subscribed' \in BOOLEAN,
           NEW t \in EventTypes \ {"CONNECTED", "DISCONNECTED"},
           NEW d \in Writes \union {NoWrite}, t = "WRITE" => d \in Writes,
           Raise(Evt(t, link, d)),
           UNCHANGED <<vars, link, conns, advertising, boot, handles, linkHistory>>
    PROVE  LinkIInv'
<1>1. link = conns /\ boot = "up" /\ ~advertising /\ LinkTypes /\ Ordered
  BY DEF LinkIInv, Between, Quiet
<1>2. evtq' = Append(evtq, Evt(t, link, d))
  BY DEF Raise
<1>3. /\ evtq' \in Seq(Events) /\ evtq' # <<>> /\ Ordered'
      /\ (\A i \in Idx' : evtq'[i].type # "CONNECTED")
             <=> (\A i \in Idx : evtq[i].type # "CONNECTED")
  BY <1>1, <1>2, AddInOrder
<1>4. LinkTypes'
  BY <1>1, <1>3 DEF LinkTypes, handles, linkHistory
<1>5. Between'
  BY <1>1 DEF Between, Quiet
<1>6. ConnectionHandled' <=> ConnectionHandled
  BY <1>3 DEF ConnectionHandled, Quiet
<1>7. QED
  BY <1>1, <1>3, <1>4, <1>5, <1>6, LinkStep DEF LinkIInv, handles, linkHistory

LEMMA PhoneIInv ==
    ASSUME LinkIInv,
           \/ \E w \in Writes : PeerWrites(w)
           \/ PeerSubscribes
           \/ \E t \in {"PHY_UPDATE_REQUEST", "GATTC_TIMEOUT"} : PeerRaises(t)
    PROVE  LinkIInv'
<1> USE DEF EventTypes
<1>0. subscribed \in BOOLEAN
  BY DEF LinkIInv, LinkTypes
<1>1. ASSUME NEW w \in Writes, PeerWrites(w) PROVE LinkIInv'
  BY <1>0, <1>1, RaisedIInv DEF PeerWrites, radio
<1>2. CASE PeerSubscribes
  BY <1>0, <1>2, RaisedIInv DEF PeerSubscribes
<1>3. ASSUME NEW t \in {"PHY_UPDATE_REQUEST", "GATTC_TIMEOUT"}, PeerRaises(t) PROVE LinkIInv'
  BY <1>0, <1>3, RaisedIInv DEF PeerRaises, radio
<1>4. QED
  BY <1>1, <1>2, <1>3

(* Starting up: there is no connection to say anything of.                  *)
LEMMA StartUpIInv == ASSUME LinkIInv, StartUp PROVE LinkIInv'
<1>1. boot # "up" /\ UNCHANGED <<vars, link, conns, subscribed, evtq, handles, linkHistory>>
  BY DEF StartUp, InitBle, PeersDeleted, radio
<1> DEFINE Started == boot' = "up" /\ advertising' = TRUE
           Waits == boot' \in {"erasing", "stuck"} /\ advertising' = FALSE
<1>2. Started \/ Waits
  <2>1. ASSUME NEW x \in BOOLEAN, InitBle(x) PROVE Started \/ Waits
    BY <2>1 DEF InitBle
  <2>2. ASSUME NEW ok \in BOOLEAN, PeersDeleted(ok) PROVE Started \/ Waits
    BY <2>2 DEF PeersDeleted
  <2>3. QED
    BY <2>1, <2>2 DEF StartUp
<1>3. /\ Quiet /\ pc = "ready" /\ cus_conn_handle = InvalidHandle /\ LinkTypes /\ Ordered
  BY <1>1 DEF LinkIInv, Between
<1>4. Ordered' /\ Quiet' /\ ~ConnectionHandled' /\ UNCHANGED <<asker, told, conns>>
  BY <1>1, <1>3 DEF Ordered, Idx, Quiet, ConnectionHandled, linkHistory
<1>5. LinkTypes'
  BY <1>1, <1>3, <1>2 DEF LinkTypes, handles, linkHistory
<1>6. Between'
  BY <1>1, <1>2, <1>3, <1>4 DEF Between, Quiet, vars, handles
<1>7. QED
  BY <1>1, <1>3, <1>4, <1>5, <1>6, LinkStep DEF Quiet

(* A reset leaves no link, no events and no handles.                        *)
LEMMA RebootIInv ==
    ASSUME LinkIInv, NEW why \in {"power", "nfc", "fault"}, Reboot(why)
    PROVE  LinkIInv'
<1>1. Quiet' /\ pc' = "ready" /\ boot' = "init" /\ ~advertising' /\ notified' = "no"
  BY DEF Reboot, Restart, Quiet
<1>2. (evtq \in Seq(Events) /\ Ordered)'
  BY <1>1, NoEvents DEF Quiet, Ordered, Idx
<1>3. LinkTypes'
  BY <1>2, ConnNumbers DEF Reboot, LinkIInv, LinkTypes
<1>4. Between'
  BY <1>1 DEF Reboot, Between
<1>5. QED
  BY <1>1, <1>2, <1>3, <1>4 DEF LinkIInv, ConnectionHandled, AnswersAsker, Quiet

(* What is known when an event is fetched: its connection was made after    *)
(* start-up, and nobody advertises.                                         *)
LEMMA AtFetch ==
    ASSUME LinkIInv, evtq # <<>>
    PROVE  /\ LinkTypes /\ Ordered /\ boot = "up" /\ ~advertising
           /\ link = NoLink => evtq[Len(evtq)].type = "DISCONNECTED"
BY DEF LinkIInv, Between, Quiet

LEMMA OnConnectedIInv == ASSUME LinkIInv, OnConnected PROVE LinkIInv'
<1>1. /\ evtq # <<>> /\ evtq' = Tail(evtq) /\ Head(evtq).type = "CONNECTED" /\ pc = "ready"
      /\ {cus_conn_handle', m_conn_handle', slave_conn_handle'} = {Handle}
      /\ UNCHANGED <<vars, link, conns, subscribed, advertising, boot, linkHistory>>
  BY DEF OnConnected, Fetch, radio
<1>2. /\ LinkTypes /\ Ordered /\ boot = "up" /\ ~advertising
      /\ link = NoLink => evtq[Len(evtq)].type = "DISCONNECTED"
  BY <1>1, AtFetch
<1>3. /\ evtq' \in Seq(Events) /\ Ordered'
      /\ link = NoLink => evtq' # <<>> /\ evtq'[Len(evtq')].type = "DISCONNECTED"
  BY <1>1, <1>2, FetchInOrder
<1>4. LinkTypes'
  BY <1>1, <1>2, <1>3 DEF LinkTypes, linkHistory
<1>5. Between'
  BY <1>1, <1>2, <1>3 DEF Between
<1>6. QED
  BY <1>1, <1>3, <1>4, <1>5, LinkStep DEF LinkIInv, linkHistory

LEMMA OnDisconnectedIInv == ASSUME LinkIInv, OnDisconnected PROVE LinkIInv'
<1>1. /\ evtq # <<>> /\ evtq' = Tail(evtq) /\ Head(evtq).type = "DISCONNECTED" /\ pc = "ready"
      /\ advertising' = (advertising \/ slave_conn_handle = Handle)
      /\ cus_conn_handle' = InvalidHandle
      /\ UNCHANGED <<vars, link, conns, subscribed, boot, m_conn_handle, slave_conn_handle,
                     linkHistory>>
  BY DEF OnDisconnected, Fetch, radio
<1>2. LinkTypes /\ Ordered /\ boot = "up"
  BY <1>1, AtFetch
<1>3. /\ evtq' \in Seq(Events) /\ Ordered' /\ link = NoLink /\ evtq' = <<>>
      /\ \A i \in Idx : evtq[i].type # "CONNECTED"
  BY <1>1, <1>2, FetchInOrder
<1>4. slave_conn_handle = Handle
  BY <1>1, <1>3 DEF LinkIInv, ConnectionHandled, Quiet
<1>5. Quiet' /\ advertising' = TRUE
  BY <1>1, <1>3, <1>4 DEF Quiet
<1>6. LinkTypes'
  BY <1>1, <1>2, <1>3, <1>5 DEF LinkTypes, linkHistory
<1>7. Between'
  BY <1>1, <1>2, <1>5 DEF Between, vars
<1>8. QED
  BY <1>1, <1>3, <1>5, <1>6, <1>7, LinkStep DEF LinkIInv, linkHistory, ConnectionHandled, Quiet

(* The events no observer acts on, or only by a call that succeeds.         *)
LEMMA FetchedOnlyIInv == ASSUME LinkIInv, OnOtherWrite \/ OnPhyUpdateRequest PROVE LinkIInv'
<1>1. /\ evtq # <<>> /\ evtq' = Tail(evtq) /\ pc = "ready"
      /\ Head(evtq).type \notin {"CONNECTED", "DISCONNECTED"}
      /\ UNCHANGED <<vars, link, conns, subscribed, advertising, boot, handles, linkHistory>>
  BY DEF OnOtherWrite, OnPhyUpdateRequest, Fetch, radio
<1>2. /\ LinkTypes /\ Ordered /\ boot = "up" /\ ~advertising
      /\ link = NoLink => evtq[Len(evtq)].type = "DISCONNECTED"
  BY <1>1, AtFetch
<1>3. /\ evtq' \in Seq(Events) /\ Ordered'
      /\ link = NoLink => evtq' # <<>> /\ evtq'[Len(evtq')].type = "DISCONNECTED"
      /\ \A i \in Idx : evtq[i].type # "CONNECTED"
  BY <1>1, <1>2, FetchInOrder
<1>4. {cus_conn_handle, m_conn_handle, slave_conn_handle} = {Handle}
  BY <1>1, <1>3 DEF LinkIInv, ConnectionHandled, Quiet
<1>5. LinkTypes'
  BY <1>1, <1>2, <1>3 DEF LinkTypes, handles, linkHistory
<1>6. Between'
  BY <1>1, <1>2, <1>3 DEF Between
<1>7. QED
  BY <1>1, <1>3, <1>4, <1>5, <1>6, LinkStep DEF LinkIInv, handles, linkHistory

(* A write is fetched after its connection event, with the handles valid,   *)
(* and something is left of its connection while it is handled.             *)
LEMMA OnWriteEvtIInv == ASSUME LinkIInv, OnWriteEvt PROVE LinkIInv' /\ Head(evtq).data \in Writes
<1>1. /\ evtq # <<>> /\ evtq' = Tail(evtq) /\ Head(evtq).type = "WRITE" /\ pc = "ready"
      /\ asker' = Head(evtq).conn /\ told' = NoLink /\ pc' = "run" /\ notified' = "no"
      /\ UNCHANGED <<link, conns, subscribed, advertising, boot, handles, cause>>
  BY DEF OnWriteEvt, Fetch, OnWrite, radio
<1>2. /\ LinkTypes /\ Ordered /\ boot = "up" /\ ~advertising
      /\ link = NoLink => evtq[Len(evtq)].type = "DISCONNECTED"
  BY <1>1, AtFetch
<1>3. /\ evtq' \in Seq(Events) /\ Ordered'
      /\ \A i \in Idx' : evtq'[i].type # "CONNECTED"
      /\ \A i \in Idx : evtq[i].type # "CONNECTED"
      /\ Head(evtq).conn = conns /\ Head(evtq).data \in Writes
      /\ link = NoLink => evtq' # <<>> /\ evtq'[Len(evtq')].type = "DISCONNECTED"
  BY <1>1, <1>2, FetchInOrder
<1>4. {cus_conn_handle, m_conn_handle, slave_conn_handle} = {Handle}
  BY <1>1, <1>3 DEF LinkIInv, ConnectionHandled, Quiet
<1>5. LinkTypes'
  <2>1. (asker \in 0 .. MaxConns /\ told \in 0 .. MaxConns)'
    BY <1>1, <1>2, <1>3, ConnNumbers DEF LinkTypes
  <2>2. QED
    BY <1>1, <1>2, <1>3, <2>1 DEF LinkTypes, handles
<1>6. Between'
  BY <1>1, <1>2, <1>3 DEF Between
<1>7. ConnectionHandled'
  BY <1>1, <1>3 DEF ConnectionHandled, Quiet
<1>8. QED
  BY <1>1, <1>3, <1>4, <1>5, <1>6, <1>7 DEF LinkIInv, AnswersAsker, handles

(* ble_manager ends the link itself: its event goes, the disconnection comes.*)
LEMMA OnTimeoutIInv == ASSUME LinkIInv, OnTimeout PROVE LinkIInv'
<1> DEFINE e == Evt("DISCONNECTED", link, NoWrite)
<1>1. /\ evtq # <<>> /\ Head(evtq).type = "GATTC_TIMEOUT" /\ pc = "ready"
      /\ link # NoLink /\ link = conns /\ link' = NoLink
      /\ UNCHANGED <<vars, conns, subscribed, advertising, boot, handles, linkHistory>>
  BY DEF OnTimeout, Fetch, LinkIInv
<1>2. LinkTypes /\ Ordered /\ boot = "up" /\ ~advertising
  BY <1>1, AtFetch
<1>3. /\ Len(evtq) \in Nat \ {0} /\ Head(evtq) = evtq[1]
      /\ \A i \in Idx : evtq[i].type \notin {"CONNECTED", "DISCONNECTED"}
  <2>1. Len(evtq) \in Nat \ {0} /\ Head(evtq) = evtq[1]
    BY <1>1, <1>2, Fetched DEF LinkTypes
  <2>2. QED
    BY <1>1, <1>2, <2>1 DEF Ordered, Idx
<1>4. e \in Events /\ e.type = "DISCONNECTED" /\ e.conn = conns
  BY <1>1, <1>2, EvtType, LinkBounds DEF EventTypes, LinkTypes, NoLink
<1>5. evtq' = Append(Tail(evtq), e)
  BY DEF OnTimeout
<1> HIDE DEF e
<1>6. /\ evtq' \in Seq(Events) /\ evtq' # <<>> /\ Len(evtq') = Len(evtq)
      /\ \A i \in 1 .. Len(evtq) - 1 : evtq'[i] = evtq[i + 1]
      /\ evtq'[Len(evtq)] = e
  <2> DEFINE q == Tail(evtq)
  <2>1. /\ q \in Seq(Events) /\ Len(q) = Len(evtq) - 1
        /\ \A i \in 1 .. Len(q) : q[i] = evtq[i + 1]
    BY <1>1, <1>2, Fetched DEF LinkTypes
  <2> HIDE DEF q
  <2>2. /\ evtq' \in Seq(Events) /\ evtq' # <<>> /\ Len(evtq') = Len(q) + 1
        /\ \A i \in 1 .. Len(q) : evtq'[i] = q[i]
        /\ evtq'[Len(q) + 1] = e
    BY <1>4, <1>5, <2>1, Added DEF q
  <2>3. QED
    BY <1>3, <2>1, <2>2
<1>7. ASSUME NEW i \in Idx'
      PROVE  /\ evtq'[i].conn = conns /\ evtq'[i].type # "CONNECTED"
             /\ evtq'[i].type = "DISCONNECTED" => i = Len(evtq')
             /\ evtq'[i].type = "WRITE" => evtq'[i].data \in Writes
  <2>1. CASE i = Len(evtq)
    BY <1>4, <1>6, <2>1
  <2>2. CASE i # Len(evtq)
    <3>1. i \in 1 .. Len(evtq) - 1 /\ i + 1 \in Idx
      BY <1>3, <1>6, <2>2 DEF Idx
    <3>2. QED
      BY <1>2, <1>3, <1>6, <3>1 DEF Ordered
  <2>3. QED
    BY <2>1, <2>2
<1>8. Ordered' /\ evtq'[Len(evtq')].type = "DISCONNECTED"
  BY <1>1, <1>4, <1>6, <1>7 DEF Ordered
<1>9. LinkTypes'
  BY <1>1, <1>2, <1>6, ConnNumbers DEF LinkTypes, handles, linkHistory
<1>10. Between'
  BY <1>1, <1>2, <1>6, <1>8 DEF Between
<1>11. {cus_conn_handle, m_conn_handle, slave_conn_handle} = {Handle}
  BY <1>1, <1>3 DEF LinkIInv, ConnectionHandled, Quiet
<1>12. QED
  BY <1>1, <1>8, <1>9, <1>10, <1>11, LinkStep DEF LinkIInv, handles, linkHistory

(* The controller runs: if it sends, the link that takes the notification   *)
(* is the one whose write it handles.                                       *)
LEMMA RunFsmIInv == ASSUME LinkIInv, RunFsm PROVE LinkIInv'
<1>1. /\ pc # "ready" /\ UNCHANGED <<link, conns, subscribed, advertising, evtq, boot, handles,
                                     asker, cause>>
      /\ told' = IF notified' = notified THEN told ELSE link
      /\ notified' = "sent" => notified = "sent" \/ CanNotify
  BY DEF RunFsm, FsmRun, StateIdle, StateConnected, StateFirstConnection,
         StateSubsequentConnection, StateDoorOpenRaise, StateDoorOpenLower, StateDoorOpenOther,
         StateSleep, Handling, radio
<1>2. AnswersAsker'
  BY <1>1 DEF LinkIInv, AnswersAsker, CanNotify
<1>3. LinkTypes'
  BY <1>1 DEF LinkIInv, LinkTypes, handles
<1>4. Between' /\ Ordered' /\ (ConnectionHandled' <=> ConnectionHandled)
  BY <1>1 DEF LinkIInv, Between, Ordered, Idx, ConnectionHandled, Quiet, handles
<1>5. QED
  BY <1>1, <1>2, <1>3, <1>4 DEF LinkIInv, handles

LEMMA LinkNextIInv == LinkIInv /\ [LinkNext]_allVars => LinkIInv'
<1> SUFFICES ASSUME LinkIInv, [LinkNext]_allVars PROVE LinkIInv'
  OBVIOUS
<1>1. CASE Environment
  BY <1>1, PeerConnectsIInv, LinkDropsIInv, PhoneIInv DEF Environment
<1>2. CASE StartUp
  BY <1>2, StartUpIInv
<1>3. CASE Dispatch
  BY <1>3, OnConnectedIInv, OnDisconnectedIInv, OnWriteEvtIInv, FetchedOnlyIInv, OnTimeoutIInv,
     RebootIInv
  DEF Dispatch, AppErrorCheckFails
<1>4. CASE RunFsm
  BY <1>4, RunFsmIInv
<1>5. CASE NfcField
  BY <1>5, RebootIInv DEF NfcField
<1>6. CASE UNCHANGED allVars
  BY <1>6
  DEF allVars, linkVars, radio, handles, linkHistory, vars, history, LinkIInv, LinkTypes, Ordered,
      Idx, Between, Quiet, ConnectionHandled, AnswersAsker
<1>7. QED
  BY <1>1, <1>2, <1>3, <1>4, <1>5, <1>6 DEF LinkNext

-----------------------------------------------------------------------------
(* The theorems. *)

(* The inductive invariant of the link holds.                               *)
THEOREM LinkInvariance == LinkSpec => []LinkIInv
BY LinkInitIInv, LinkNextIInv, PTL DEF LinkSpec

(* Only the write that on_write is given starts the controller, so every    *)
(* step of the link is one of the controller or does not concern it.        *)
LEMMA LinkStepIsFsmStep == LinkIInv /\ [LinkNext]_allVars => [Next]_vars
<1> SUFFICES ASSUME LinkIInv, [LinkNext]_allVars PROVE [Next]_vars
  OBVIOUS
<1>1. CASE Environment
  BY <1>1 DEF Environment, PeerConnects, LinkDrops, PeerWrites, PeerSubscribes, PeerRaises
<1>2. CASE StartUp
  BY <1>2 DEF StartUp, InitBle, PeersDeleted
<1>3. CASE OnWriteEvt
  BY <1>3, OnWriteEvtIInv DEF OnWriteEvt, Next
<1>4. CASE Dispatch /\ ~OnWriteEvt
  BY <1>4 DEF Dispatch, OnConnected, OnDisconnected, OnOtherWrite, OnPhyUpdateRequest, OnTimeout,
              AppErrorCheckFails, Reboot, Next
<1>5. CASE RunFsm
  BY <1>5 DEF RunFsm, Next
<1>6. CASE NfcField
  BY <1>6 DEF NfcField, Reboot, Next
<1>7. CASE UNCHANGED allVars
  BY <1>7 DEF allVars
<1>8. QED
  BY <1>1, <1>2, <1>3, <1>4, <1>5, <1>6, <1>7 DEF LinkNext

(* With the radio, the event queue and the faults around it, the controller *)
(* behaves as BleFsm says.                                                  *)
THEOREM LinkRunsFsm == LinkSpec => Safe
<1>1. LinkInit => Init
  BY DEF LinkInit
<1>2. QED
  BY <1>1, LinkInvariance, LinkStepIsFsmStep, PTL DEF LinkSpec, Safe

(* So the door keeps its promise on the device as a whole: DoorAccess's     *)
(* safety half, for any number of phones, connections and resets.           *)
THEOREM LinkKeepsDoor == LinkSpec => DoorKept
BY LinkRunsFsm, Implementation, PTL DEF DoorKept

(* What is shown of the controller above holds of it in the device: it     *)
(* opens for authorised writes only, decides each of them, leaves nothing in*)
(* its ring and notifies first-time phones before it opens.                 *)
THEOREM LinkGuardsDoor ==
    LinkSpec => /\ []OpensOnlyForAuthorised
                /\ []RunDecides
                /\ []NothingLeftBehind
                /\ []NotifiedBeforeOpen
BY LinkRunsFsm, DoorIsGuarded, RunIsDecided, RingIsDrained, NotifiedFirst, PTL

(* Types are kept, those of the controller included.                        *)
THEOREM LinkTypesKept == LinkSpec => []LinkTypeOK
<1>1. IInv /\ LinkIInv => LinkTypeOK
  BY DEF IInv, LinkIInv, LinkTypeOK
<1>2. QED
  BY <1>1, LinkRunsFsm, LinkInvariance, Invariance, PTL

(* The unique password is only ever notified to the connection whose write  *)
(* asked for it (ble_cus.c, ble_send_data).                                 *)
THEOREM AskerIsAnswered == LinkSpec => []AnswersAsker
<1>1. LinkIInv => AnswersAsker
  BY DEF LinkIInv
<1>2. QED
  BY <1>1, LinkInvariance, PTL

(* No event of a lost connection is queued when another is up, so the bare  *)
(* handle the observers compare with is enough.                             *)
THEOREM EventsAreFresh == LinkSpec => []NoStaleEvents
<1>1. LinkIInv => NoStaleEvents
  BY DEF LinkIInv, Ordered, Idx, NoStaleEvents
<1>2. QED
  BY <1>1, LinkInvariance, PTL

(* While a write is handled, ble_cus holds a valid handle, though the link  *)
(* itself may have gone.                                                    *)
THEOREM WritesHaveHandles == LinkSpec => []WriteHasHandle
<1>1. LinkIInv => WriteHasHandle
  BY DEF LinkIInv, WriteHasHandle
<1>2. QED
  BY <1>1, LinkInvariance, PTL

(* When the events are handled, the handles agree with the radio, or the    *)
(* gateway advertises.                                                      *)
THEOREM HandlesAgree == LinkSpec => []HandlesSettle
<1>1. LinkIInv => HandlesSettle
  <2> SUFFICES ASSUME LinkIInv, pc = "ready", evtq = <<>>, boot = "up"
               PROVE  IF link # NoLink
                      THEN {cus_conn_handle, m_conn_handle, slave_conn_handle} = {Handle}
                      ELSE cus_conn_handle = InvalidHandle /\ advertising
    BY DEF HandlesSettle
  <2>1. \A i \in Idx : evtq[i].type # "CONNECTED"
    BY NoEvents DEF Idx
  <2>2. CASE link # NoLink
    BY <2>1, <2>2 DEF LinkIInv, ConnectionHandled, Quiet
  <2>3. CASE link = NoLink
    BY <2>3 DEF LinkIInv, Between
  <2>4. QED
    BY <2>2, <2>3
<1>2. QED
  BY <1>1, LinkInvariance, PTL
=============================================================================
