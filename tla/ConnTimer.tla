----------------------------- MODULE ConnTimer -----------------------------
(***************************************************************************)
(* The connection parameters module (ble_conn_params.c), the application   *)
(* timer it negotiates with (app_timer2.c), and RTC1, the clock behind     *)
(* that timer, which peripheral_manager.c uses for a wake-up of its own.   *)
(* The RTC1_IRQHandler of peripheral_manager.c has taken the place of the  *)
(* timer library's (commented out in drv_rtc.c), so requests to the timer  *)
(* enter m_req_fifo and nothing takes them out.                            *)
(***************************************************************************)
EXTENDS Integers, Sequences

CONSTANTS OpQueueSize, \* APP_TIMER_CONFIG_OP_QUEUE_SIZE: 10 in the code
          Compare0,    \* RTC_TICKS_10_SEC, in units of a few seconds
          Compare1,    \* DRV_RTC_MAX_CNT >> 1, 256 s, in the same units
          MaxLatency   \* the longest the interrupt may be kept waiting

ASSUME OpQueueAssumption == OpQueueSize \in Nat \ {0}
ASSUME ClockAssumption == /\ {Compare0, Compare1, MaxLatency} \subseteq Nat \ {0}
                          /\ Compare0 + MaxLatency < Compare1

\* DRV_RTC_MAX_CNT
MaxCount == 2 * Compare1 + 1

\* bound: connections are counted up to this number
MaxServed == OpQueueSize

VARIABLES boot,       \* how far main has come: "off", "ble", "rtc", "up" (timers_init done)
          m_req_fifo, \* the requests in the timer's queue
          idle,       \* end_val of the timer is APP_TIMER_IDLE_VAL
          claimed,    \* conn_handle of the instance is not BLE_CONN_HANDLE_INVALID
          params_ok,  \* params_ok of the instance
          counter,    \* COUNTER of RTC1
          compare0, compare1, \* EVENTS_COMPARE[0] and [1]
          pending,    \* RTC1_IRQn is pending in the NVIC
          link,       \* the connection events handled so far leave a link up
          served,     \* history: connections since the start, up to MaxServed
          cause       \* history: what started the chip last: "power", "nfc", "fault"

timer == <<m_req_fifo, idle>>
instance == <<claimed, params_ok>>
rtc == <<counter, compare0, compare1, pending>>
env == <<link, served>>
vars == <<boot, timer, instance, rtc, env, cause>>

TypeOK == /\ boot \in {"off", "ble", "rtc", "up"}
          /\ m_req_fifo \in Seq({"START", "STOP"})
          /\ Len(m_req_fifo) <= OpQueueSize
          /\ idle \in BOOLEAN
          /\ claimed \in BOOLEAN
          /\ params_ok \in BOOLEAN
          /\ counter \in 0 .. MaxCount
          /\ compare0 \in BOOLEAN
          /\ compare1 \in BOOLEAN
          /\ pending \in BOOLEAN
          /\ link \in BOOLEAN
          /\ served \in 0 .. MaxServed
          /\ cause \in {"power", "nfc", "fault"}

Init == /\ boot = "off"
        /\ m_req_fifo = <<>>
        /\ idle = TRUE
        /\ claimed = FALSE
        /\ params_ok = FALSE
        /\ counter = 0
        /\ compare0 = FALSE
        /\ compare1 = FALSE
        /\ pending = FALSE
        /\ link = FALSE
        /\ served = 0
        /\ cause = "power"

Reset(why) == /\ boot' = "off"
              /\ m_req_fifo' = <<>>
              /\ idle' = TRUE
              /\ claimed' = FALSE
              /\ params_ok' = FALSE
              /\ counter' = 0
              /\ compare0' = FALSE
              /\ compare1' = FALSE
              /\ pending' = FALSE
              /\ link' = FALSE
              /\ served' = 0
              /\ cause' = why

NfcField == boot # "off" /\ Reset("nfc")

\* conn_params_error_handler: APP_ERROR_HANDLER, which ends in a reset.
conn_params_error_handler == Reset("fault")

-----------------------------------------------------------------------------
(* main: BLE, the RTC and then, after all modules, the timers. *)

InitBle == /\ boot = "off"
           /\ boot' = "ble"
           /\ UNCHANGED <<timer, instance, rtc, env, cause>>

rtc_init == /\ boot = "ble"
            /\ boot' = "rtc"
            /\ UNCHANGED <<timer, instance, rtc, env, cause>>

\* app_timer_init: the queue gets its slots, COMPARE[1] its interrupt.
timers_init == /\ boot = "rtc"
               /\ boot' = "up"
               /\ UNCHANGED <<timer, instance, rtc, env, cause>>

-----------------------------------------------------------------------------
(* RTC1. *)

\* Time passes; the interrupt is not kept waiting for longer than MaxLatency.
Tick ==
    /\ boot \in {"rtc", "up"}
    /\ pending => counter < Compare0 + MaxLatency
    /\ counter' = (counter + 1) % (MaxCount + 1)
    /\ compare0' = (compare0 \/ counter' = Compare0)
    /\ compare1' = (compare1 \/ (boot = "up" /\ counter' = Compare1))
    /\ pending' = (pending \/ compare0' \/ compare1')
    /\ UNCHANGED <<boot, timer, instance, env, cause>>

\* Mutant: rtc_handler leaves the counter running.
RTC1_IRQHandler_NoClear ==
    /\ boot \in {"rtc", "up"}
    /\ pending
    /\ compare0' = FALSE
    /\ pending' = compare1
    /\ UNCHANGED <<boot, timer, instance, counter, compare1, env, cause>>

\* rtc_handler clears the counter.  An event whose interrupt is enabled and
\* that nobody clears makes the interrupt pend again.
RTC1_IRQHandler ==
    /\ boot \in {"rtc", "up"}
    /\ pending
    /\ compare0' = FALSE
    /\ counter' = IF compare0 THEN 0 ELSE counter
    /\ pending' = compare1
    /\ UNCHANGED <<boot, timer, instance, compare1, env, cause>>

-----------------------------------------------------------------------------
(* The application timer. *)

\* Mutant: a full queue takes one more.
CanSchedule_NoLimit == boot = "up"

\* nrf_atfifo_item_alloc finds a free slot.
CanSchedule == boot = "up" /\ Len(m_req_fifo) < OpQueueSize

\* A request enters the queue and RTC1_IRQn is set pending.
timer_req_schedule(r) == m_req_fifo' = Append(m_req_fifo, r) /\ pending' = TRUE

StartFails == idle /\ ~CanSchedule

app_timer_start == IF idle
                   THEN CanSchedule /\ idle' = FALSE /\ timer_req_schedule("START")
                   ELSE UNCHANGED <<timer, pending>>

StopFails == ~idle /\ ~CanSchedule

\* Mutant: end_val is left as it was.
app_timer_stop_StaysSet == IF ~idle
                           THEN CanSchedule /\ timer_req_schedule("STOP") /\ UNCHANGED idle
                           ELSE UNCHANGED <<timer, pending>>

app_timer_stop == IF ~idle
                  THEN CanSchedule /\ idle' = TRUE /\ timer_req_schedule("STOP")
                  ELSE UNCHANGED <<timer, pending>>

-----------------------------------------------------------------------------
(* The connection parameters module, for the events of the link. *)

conn_params_negotiation == IF params_ok' THEN UNCHANGED <<timer, pending>> ELSE app_timer_start

LinkComes == /\ boot # "off"
             /\ ~link
             /\ link' = TRUE
             /\ served' = IF served < MaxServed THEN served + 1 ELSE served

\* ok: whether is_conn_params_ok accepts what the phone chose.
on_connect(ok) ==
    /\ LinkComes
    /\ ~claimed
    /\ claimed' = TRUE
    /\ params_ok' = ok
    /\ conn_params_negotiation
    /\ UNCHANGED <<boot, counter, compare0, compare1, cause>>

\* No free instance, or no room for the request of the timer.
ConnectFails(ok) ==
    /\ boot # "off"
    /\ ~link
    /\ claimed \/ (~ok /\ StartFails)
    /\ conn_params_error_handler

on_conn_params_update(ok) ==
    /\ link
    /\ claimed
    /\ params_ok' = ok
    /\ conn_params_negotiation
    /\ UNCHANGED <<boot, claimed, counter, compare0, compare1, env, cause>>

UpdateFails ==
    /\ link
    /\ claimed
    /\ StartFails
    /\ conn_params_error_handler

\* Mutant: the timer is not stopped.
on_disconnect_NoStop ==
    /\ link
    /\ link' = FALSE
    /\ claimed' = FALSE
    /\ UNCHANGED <<boot, timer, rtc, params_ok, served, cause>>

\* Mutant: the instance is not freed.
on_disconnect_NoFree ==
    /\ link
    /\ link' = FALSE
    /\ app_timer_stop
    /\ UNCHANGED <<boot, instance, counter, compare0, compare1, served, cause>>

on_disconnect ==
    /\ link
    /\ link' = FALSE
    /\ app_timer_stop
    /\ claimed' = FALSE
    /\ UNCHANGED <<boot, params_ok, counter, compare0, compare1, served, cause>>

DisconnectFails ==
    /\ link
    /\ StopFails
    /\ conn_params_error_handler

-----------------------------------------------------------------------------

Boot == InitBle \/ rtc_init \/ timers_init

Fails == \/ \E ok \in BOOLEAN : ConnectFails(ok)
         \/ UpdateFails
         \/ DisconnectFails

Next == \/ Boot
        \/ Tick
        \/ RTC1_IRQHandler
        \/ \E ok \in BOOLEAN : on_connect(ok) \/ on_conn_params_update(ok)
        \/ on_disconnect
        \/ Fails
        \/ NfcField

\* main runs on, time passes and a pending interrupt is taken; the phone owes
\* nothing.
Spec == Init /\ [][Next]_vars /\ WF_vars(Boot) /\ WF_vars(Tick) /\ WF_vars(RTC1_IRQHandler)

-----------------------------------------------------------------------------
(* What must hold. *)

\* The queue holds starts and stops of the one timer in turn, and ends with a
\* start exactly while the timer is in use: no request is doubled, and none is
\* missing, over any number of connections and parameter updates.
RequestsAlternate ==
    /\ \A i \in 1 .. Len(m_req_fifo) : m_req_fifo[i] = IF i % 2 = 1 THEN "START" ELSE "STOP"
    /\ idle <=> Len(m_req_fifo) % 2 = 0

\* A timer is in use only for a connection that is still there: its timeout
\* would carry the handle of that connection.
TimerHasLink == ~idle => claimed /\ link

\* The gateway that is up survives OpQueueSize \div 2 connections: the module
\* ends in its error handler only on a later one, or before timers_init.
SurvivesConnections ==
    [][boot # "off" /\ boot' = "off" /\ cause' = "fault" =>
           boot # "up" \/ served >= OpQueueSize \div 2]_vars

\* rtc_handler brings the counter back long before COMPARE[1], whose event
\* RTC1_IRQHandler would never clear and which would then hold the CPU in it.
NoInterruptStorm == ~compare1 /\ (counter >= Compare0 => pending)

\* The strengthening that makes these inductive: a connection costs a start and a
\* stop at most, and COMPARE[0] stands for a counter that has reached it.
RequestsCounted ==
    served < MaxServed =>
        Len(m_req_fifo) + (IF ~idle THEN 1 ELSE IF link THEN 2 ELSE 0) <= 2 * served

TimerIInv == /\ TypeOK
             /\ RequestsAlternate
             /\ TimerHasLink
             /\ NoInterruptStorm
             /\ claimed <=> link
             /\ RequestsCounted
             /\ counter >= Compare0 => compare0
             /\ compare0 => pending
=============================================================================
