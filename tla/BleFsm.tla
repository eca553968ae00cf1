------------------------------- MODULE BleFsm -------------------------------
(***************************************************************************)
(* The door controller: the finite state machine that on_write (ble_cus.c) *)
(* starts afresh for every write of the custom characteristic and fsm_run  *)
(* (ble_fsm.c) drives to its end inside the BLE event interrupt.  One step *)
(* is one iteration of the loop of fsm_run: the handler of the current     *)
(* state, then fsm_get_next_event.  state_door_open is cut in two by its   *)
(* nrf_delay_ms(1500), and an NFC field may restart the chip between any   *)
(* two steps.                                                              *)
(***************************************************************************)
EXTENDS Integers

CONSTANTS Serials,             \* the serial numbers a phone can send
          ListedSerials,       \* _tst_serial_num_list
          ZeroSerial,          \* six zero bytes
          Passwords,           \* the passwords a phone can send
          unique_password,
          first_time_password, \* four zero bytes
          QueueSize,           \* slots of event_queue: 10 in the code
          NoWrite              \* no event buffer is being handled

ASSUME SerialAssumption == ListedSerials \subseteq Serials /\ ZeroSerial \in Serials
ASSUME PasswordAssumption == /\ {unique_password, first_time_password} \subseteq Passwords
                             /\ unique_password # first_time_password
ASSUME QueueAssumption == QueueSize \in Nat /\ QueueSize >= 2

\* The ten bytes parse_data copies out of the event buffer.  Their number is
\* not checked against the length of the write, so after a shorter write they
\* are whatever the buffer holds: any value of this set.
Writes == [serial : Serials, password : Passwords]

ASSUME NoWriteAssumption == NoWrite \notin Writes

fsm_state_t == {"IDLE", "CONNECTED", "FIRST_CONNECTION", "SUBSEQUENT_CONNECTION",
                "DOOR_OPEN", "SLEEP"}

fsm_event_t == {"DATA_RCVD", "CHECK_PASSWORD", "FIRST_CONNECTION", "SUBSEQUENT_CONNECTION",
                "PASSWORD_VALID", "PASSWORD_INVALID", "SEND_UNIQUE_PASSWORD", "SERIAL_VALID",
                "SERIAL_INVALID", "WRITE_USR_INFO", "GO_TO_SLEEP", "NO_EVENT"}

VARIABLES current_state,  \* fsm_context_t.current_state
          current_event,  \* the local of fsm_run
          event_queue, queue_head, queue_tail, \* the ring of fsm_context_t
          received_data,  \* fsm_context_t.received_data
          pc,             \* "ready": no fsm_run on the stack; "run"; "delay": in nrf_delay_ms
          door,           \* the level written to DOOR_OPEN_PIN (27) and LED_PIN (28)
          write,          \* the event buffer being handled
          opens,          \* history: times this write raised the pins (2 = more than once)
          notified        \* history: what became of the password notification

ring == <<event_queue, queue_head, queue_tail>>
history == <<opens, notified>>
vars == <<current_state, current_event, ring, received_data, pc, door, write, history>>

TypeOK == /\ current_state \in fsm_state_t
          /\ current_event \in fsm_event_t
          /\ event_queue \in [0 .. QueueSize - 1 -> fsm_event_t]
          /\ queue_head \in 0 .. QueueSize - 1
          /\ queue_tail \in 0 .. QueueSize - 1
          /\ received_data \in Writes
          /\ pc \in {"ready", "run", "delay"}
          /\ door \in {"low", "high"}
          /\ write \in Writes \union {NoWrite}
          /\ opens \in 0 .. 2
          /\ notified \in {"no", "sent", "failed"}

-----------------------------------------------------------------------------
(* The ring of events. *)

NextSlot(i) == (i + 1) % QueueSize

\* No test for a full ring: the caller must leave a slot free.
fsm_add_event(e) == /\ event_queue' = [event_queue EXCEPT ![queue_tail] = e]
                    /\ queue_tail' = NextSlot(queue_tail)

\* Mutant: an empty ring always ends the run.
fsm_get_next_event_NoRedelivery ==
    IF queue_head = queue_tail'
    THEN current_event' = "NO_EVENT" /\ UNCHANGED queue_head
    ELSE current_event' = event_queue'[queue_head] /\ queue_head' = NextSlot(queue_head)

\* Mutant: the head is read but not advanced.
fsm_get_next_event_NoPop ==
    /\ current_event' = IF queue_head # queue_tail' THEN event_queue'[queue_head]
                        ELSE IF current_state' = current_state THEN "NO_EVENT" ELSE current_event
    /\ UNCHANGED queue_head

\* Runs after the handler, so it reads the primed state and ring: an empty
\* ring ends the run unless the state changed, and then the same event is
\* delivered again, to the new state.
fsm_get_next_event ==
    IF queue_head = queue_tail'
    THEN /\ current_event' = IF current_state' = current_state THEN "NO_EVENT" ELSE current_event
         /\ UNCHANGED queue_head
    ELSE /\ current_event' = event_queue'[queue_head]
         /\ queue_head' = NextSlot(queue_head)

-----------------------------------------------------------------------------
(* The handlers: where an event takes the state, and the event it adds. *)

Goes(s) == [to |-> s, add |-> "NONE"]
Adds(s, e) == [to |-> s, add |-> e]

check_received_password(p) == IF p = first_time_password THEN "FIRST_CONNECTION"
                              ELSE IF p = unique_password THEN "SUBSEQUENT_CONNECTION"
                              ELSE "PASSWORD_INVALID"

action_check_serial_number ==
    IF received_data.serial \in ListedSerials THEN "SERIAL_VALID" ELSE "SERIAL_INVALID"

\* A failed notification sets EVENT_GO_TO_SLEEP, which the next assignment
\* overwrites: the outcome of the send never reaches the state machine.
action_send_unique_password == "PASSWORD_VALID"

state_idle(e) == IF e = "DATA_RCVD" THEN Goes("CONNECTED") ELSE Goes("IDLE")

\* password: received_data.password, parsed before it is compared
state_connected(e, password) ==
    CASE e = "DATA_RCVD" -> Adds("CONNECTED", "CHECK_PASSWORD")
      [] e = "CHECK_PASSWORD" -> Adds("CONNECTED", check_received_password(password))
      [] e = "FIRST_CONNECTION" -> Goes("FIRST_CONNECTION")
      [] e = "SUBSEQUENT_CONNECTION" -> Goes("SUBSEQUENT_CONNECTION")
      [] e = "PASSWORD_INVALID" -> Goes("SLEEP")
      [] OTHER -> Goes("CONNECTED")

\* Mutant: a listed serial opens the door without the send.
state_first_connection_NoSend(e) ==
    IF e = "FIRST_CONNECTION" /\ action_check_serial_number = "SERIAL_VALID"
    THEN Adds("DOOR_OPEN", "PASSWORD_VALID")
    ELSE Goes("SLEEP")

state_first_connection(e) ==
    CASE e = "FIRST_CONNECTION" -> Adds("FIRST_CONNECTION", action_check_serial_number)
      [] e = "SERIAL_VALID" -> Adds("DOOR_OPEN", action_send_unique_password)
      [] e \in {"SERIAL_INVALID", "GO_TO_SLEEP"} -> Goes("SLEEP")
      [] OTHER -> Adds("FIRST_CONNECTION", "NO_EVENT")

state_subsequent_connection(e) ==
    CASE e = "SUBSEQUENT_CONNECTION" -> Adds("SUBSEQUENT_CONNECTION", "PASSWORD_VALID")
      [] e = "PASSWORD_VALID" -> Goes("DOOR_OPEN")
      [] e = "SERIAL_INVALID" -> Goes("SLEEP")
      [] OTHER -> Adds("SUBSEQUENT_CONNECTION", "NO_EVENT")

state_door_open(e) ==
    CASE e \in {"PASSWORD_VALID", "SERIAL_VALID"} -> Adds("DOOR_OPEN", "WRITE_USR_INFO")
      [] e = "WRITE_USR_INFO" -> Adds("SLEEP", "GO_TO_SLEEP")
      [] OTHER -> Adds("DOOR_OPEN", "NO_EVENT")

state_sleep(e) == Adds("SLEEP", "NO_EVENT")

-----------------------------------------------------------------------------
(* Steps. *)

\* The rest of a loop iteration once its handler has returned h.
Iterate(h) ==
    /\ current_state' = h.to
    /\ IF h.add = "NONE" THEN UNCHANGED <<event_queue, queue_tail>> ELSE fsm_add_event(h.add)
    /\ fsm_get_next_event
    /\ pc' = IF current_event' = "NO_EVENT" THEN "ready" ELSE "run"
    /\ UNCHANGED write

Handling(s) == pc = "run" /\ current_state = s

\* The zeroed members of a new context.
ZeroQueue == [i \in 0 .. QueueSize - 1 |-> "DATA_RCVD"]
ZeroData == [serial |-> ZeroSerial, password |-> first_time_password]

\* A write of the characteristic: a zeroed context on the stack, and the event
\* buffer.  Zeroed received_data is the first-time password and a listed serial.
OnWrite(w) ==
    /\ pc = "ready"
    /\ current_state' = "IDLE"
    /\ current_event' = "DATA_RCVD"
    /\ event_queue' = ZeroQueue
    /\ queue_head' = 0
    /\ queue_tail' = 0
    /\ received_data' = ZeroData
    /\ pc' = "run"
    /\ write' = w
    /\ opens' = 0
    /\ notified' = "no"
    /\ UNCHANGED door

StateIdle == /\ Handling("IDLE")
             /\ Iterate(state_idle(current_event))
             /\ UNCHANGED <<received_data, door, history>>

\* Mutant: the password is compared before the event buffer is parsed.
StateConnected_NoParse ==
    /\ Handling("CONNECTED")
    /\ Iterate(state_connected(current_event, received_data.password))
    /\ UNCHANGED <<received_data, door, history>>

\* action_check_password parses the event buffer before it compares.
StateConnected ==
    /\ Handling("CONNECTED")
    /\ received_data' = IF current_event = "CHECK_PASSWORD" THEN write ELSE received_data
    /\ Iterate(state_connected(current_event, received_data'.password))
    /\ UNCHANGED <<door, history>>

\* sent: what sd_ble_gatts_value_set and sd_ble_gatts_hvx answered.
StateFirstConnection(sent) ==
    /\ Handling("FIRST_CONNECTION")
    /\ notified' = IF current_event # "SERIAL_VALID" THEN notified
                   ELSE IF sent THEN "sent" ELSE "failed"
    /\ Iterate(state_first_connection(current_event))
    /\ UNCHANGED <<received_data, door, opens>>

StateSubsequentConnection ==
    /\ Handling("SUBSEQUENT_CONNECTION")
    /\ Iterate(state_subsequent_connection(current_event))
    /\ UNCHANGED <<received_data, door, history>>

\* The pins go up and nrf_delay_ms(1500) begins.
StateDoorOpenRaise ==
    /\ Handling("DOOR_OPEN")
    /\ current_event = "PASSWORD_VALID"
    /\ door' = "high"
    /\ pc' = "delay"
    /\ opens' = IF opens = 2 THEN 2 ELSE opens + 1
    /\ UNCHANGED <<current_state, current_event, ring, received_data, write, notified>>

\* Mutant: the pins are left up after the delay.
StateDoorOpenLower_LeftUp ==
    /\ pc = "delay"
    /\ Iterate(state_door_open(current_event))
    /\ UNCHANGED <<received_data, door, history>>

\* The delay is over, the pins go down and the handler returns.
StateDoorOpenLower ==
    /\ pc = "delay"
    /\ door' = "low"
    /\ Iterate(state_door_open(current_event))
    /\ UNCHANGED <<received_data, history>>

StateDoorOpenOther ==
    /\ Handling("DOOR_OPEN")
    /\ current_event # "PASSWORD_VALID"
    /\ Iterate(state_door_open(current_event))
    /\ UNCHANGED <<received_data, door, history>>

StateSleep == /\ Handling("SLEEP")
              /\ Iterate(state_sleep(current_event))
              /\ UNCHANGED <<received_data, door, history>>

\* RAM, stack and pins as the chip comes out of reset.
Init == /\ current_state = "IDLE"
        /\ current_event = "NO_EVENT"
        /\ event_queue = ZeroQueue
        /\ queue_head = 0
        /\ queue_tail = 0
        /\ received_data = ZeroData
        /\ pc = "ready"
        /\ door = "low"
        /\ write = NoWrite
        /\ opens = 0
        /\ notified = "no"

\* NFCT_IRQHandler: a field was detected, NVIC_SystemReset.
Restart == /\ current_state' = "IDLE"
           /\ current_event' = "NO_EVENT"
           /\ event_queue' = ZeroQueue
           /\ queue_head' = 0
           /\ queue_tail' = 0
           /\ received_data' = ZeroData
           /\ pc' = "ready"
           /\ door' = "low"
           /\ write' = NoWrite
           /\ opens' = 0
           /\ notified' = "no"

FsmRun == \/ StateIdle
          \/ StateConnected
          \/ \E sent \in BOOLEAN : StateFirstConnection(sent)
          \/ StateSubsequentConnection
          \/ StateDoorOpenRaise
          \/ StateDoorOpenLower
          \/ StateDoorOpenOther
          \/ StateSleep

Next == (\E w \in Writes : OnWrite(w)) \/ FsmRun \/ Restart

\* fsm_run is straight-line code of an interrupt handler: it is not stopped
\* short.  Nothing obliges a phone to write.
Safe == Init /\ [][Next]_vars

Spec == Safe /\ WF_vars(FsmRun)

-----------------------------------------------------------------------------
(* What must hold. *)

AuthorisedWrites == {w \in Writes : \/ w.password = unique_password
                                    \/ /\ w.password = first_time_password
                                       /\ w.serial \in ListedSerials}

\* The pins are up only for a write whose own bytes authorise it, although the
\* context starts with a zeroed received_data that would authorise anyone.
OpensOnlyForAuthorised == door = "high" => write \in AuthorisedWrites

\* When fsm_run has returned, the machine sleeps, the pins are down, and they
\* were raised exactly once for an authorised write, never for another one.
RunDecides ==
    pc = "ready" /\ write # NoWrite =>
        /\ current_state = "SLEEP"
        /\ door = "low"
        /\ opens = IF write \in AuthorisedWrites THEN 1 ELSE 0

\* Every handler is entered with an empty ring: the one event it may add is
\* taken out before the next one runs, so the unchecked fsm_add_event never
\* overruns the ring and no decision is left behind in it.
NothingLeftBehind == pc # "ready" => queue_head = queue_tail

\* By the time the door opens, the unique password has been sent, or tried, to
\* a first-time phone, and to no other.
NotifiedBeforeOpen ==
    door = "high" => (notified # "no" <=> write.password = first_time_password)

\* The strengthening that makes the invariants above inductive: which event can
\* be current in which state, and what is known of the write by then.
At(s, es) == current_state = s /\ current_event \in es

Undecided == /\ opens = 0
             /\ notified = "no"
             /\ \/ At("IDLE", {"DATA_RCVD"})
                \/ At("CONNECTED", {"DATA_RCVD", "CHECK_PASSWORD"})

FirstTime == /\ write.password = first_time_password
             /\ \/ At("CONNECTED", {"FIRST_CONNECTION"})
                \/ At("FIRST_CONNECTION", {"FIRST_CONNECTION"})
                \/ /\ write.serial \in ListedSerials
                   /\ At("FIRST_CONNECTION", {"SERIAL_VALID"})
                \/ /\ write.serial \notin ListedSerials
                   /\ current_state \in {"FIRST_CONNECTION", "SLEEP"}
                   /\ current_event = "SERIAL_INVALID"

Subsequent == /\ write.password = unique_password
              /\ \/ At("CONNECTED", {"SUBSEQUENT_CONNECTION"})
                 \/ At("SUBSEQUENT_CONNECTION", {"SUBSEQUENT_CONNECTION", "PASSWORD_VALID"})

Refused == /\ write.password \notin {unique_password, first_time_password}
           /\ current_state \in {"CONNECTED", "SLEEP"}
           /\ current_event = "PASSWORD_INVALID"

Parsed == /\ opens = 0
          /\ notified = "no"
          /\ received_data = write
          /\ FirstTime \/ Subsequent \/ Refused

Granted == /\ write \in AuthorisedWrites
           /\ notified # "no" <=> write.password = first_time_password
           /\ \/ opens = 0 /\ pc = "run" /\ At("DOOR_OPEN", {"PASSWORD_VALID"})
              \/ opens = 1 /\ pc = "delay" /\ At("DOOR_OPEN", {"PASSWORD_VALID"})
              \/ opens = 1 /\ pc = "run" /\ At("DOOR_OPEN", {"WRITE_USR_INFO"})
              \/ opens = 1 /\ pc = "run" /\ At("SLEEP", {"GO_TO_SLEEP"})

IInv == /\ TypeOK
        /\ NothingLeftBehind
        /\ RunDecides
        /\ door = "high" <=> pc = "delay"
        /\ pc # "ready" => /\ write \in Writes
                          /\ \/ pc = "run" /\ (Undecided \/ Parsed)
                             \/ Granted

\* The controller implements the door's promise.
Door == INSTANCE DoorAccess WITH
            Requests <- Writes,
            AuthorisedRequests <- AuthorisedWrites,
            NoRequest <- NoWrite,
            request <- IF pc = "ready" THEN NoWrite ELSE write,
            opened <- pc # "ready" /\ opens > 0

ImplementsDoor == Door!Spec
=============================================================================
