-------------------------- MODULE ConnTimer_proofs --------------------------
(***************************************************************************)
(* Proofs about the connection timer, for any size of its request queue    *)
(* and any compare values of RTC1 far enough apart.                        *)
(***************************************************************************)
EXTENDS ConnTimer, SequenceTheorems, TLAPS

Requests == {"START", "STOP"}

(* A request is added to the queue.                                         *)
LEMMA Scheduled ==
    ASSUME NEW q \in Seq(Requests), NEW r \in Requests
    PROVE  /\ Append(q, r) \in Seq(Requests)
           /\ Len(q) \in Nat
           /\ Len(Append(q, r)) = Len(q) + 1
           /\ \A i \in 1 .. Len(q) : Append(q, r)[i] = q[i]
           /\ Append(q, r)[Len(q) + 1] = r
BY LenProperties, AppendProperties

LEMMA NoRequests == <<>> \in Seq(Requests) /\ Len(<<>>) = 0
BY EmptySeq

(* The counter does not wrap below its maximum.                             *)
LEMMA NoWrap == \A m \in Nat, n \in Nat : m < n => m % n = m
OBVIOUS

(* The parity of a queue that grows by one.                                 *)
LEMMA Parity == \A n \in Nat : (n % 2 = 0 <=> (n + 1) % 2 = 1) /\ n % 2 \in {0, 1}
OBVIOUS

-----------------------------------------------------------------------------
(* The timer's half of the invariant, by what a step does to the queue. *)

TimerPart == /\ m_req_fifo \in Seq(Requests) /\ Len(m_req_fifo) <= OpQueueSize
             /\ idle \in BOOLEAN
             /\ RequestsAlternate

LEMMA Start ==
    ASSUME TimerPart, app_timer_start
    PROVE  /\ TimerPart' /\ idle' = FALSE
           /\ Len(m_req_fifo') = Len(m_req_fifo) + (IF idle THEN 1 ELSE 0)
           /\ pending' = TRUE \/ pending' = pending
<1> USE OpQueueAssumption
<1>1. CASE ~idle
  BY <1>1 DEF app_timer_start, timer, TimerPart, RequestsAlternate, Requests
<1>2. CASE idle
  <2>1. /\ Len(m_req_fifo) < OpQueueSize /\ idle' = FALSE /\ pending' = TRUE
        /\ m_req_fifo' = Append(m_req_fifo, "START") /\ m_req_fifo \in Seq(Requests)
    BY <1>2 DEF app_timer_start, CanSchedule, timer_req_schedule, TimerPart
  <2>2. /\ m_req_fifo' \in Seq(Requests) /\ Len(m_req_fifo) \in Nat
        /\ Len(m_req_fifo') = Len(m_req_fifo) + 1
        /\ \A i \in 1 .. Len(m_req_fifo) : m_req_fifo'[i] = m_req_fifo[i]
        /\ m_req_fifo'[Len(m_req_fifo) + 1] = "START"
    BY <2>1, Scheduled DEF Requests
  <2>3. Len(m_req_fifo) % 2 = 0 /\ (Len(m_req_fifo) + 1) % 2 = 1
    BY <1>2, <2>2, Parity DEF TimerPart, RequestsAlternate
  <2>4. RequestsAlternate'
    BY <2>1, <2>2, <2>3 DEF TimerPart, RequestsAlternate
  <2>5. TimerPart'
    <3>1. idle' \in BOOLEAN
      BY <2>1
    <3>2. QED
      BY <2>1, <2>2, <2>4, <3>1 DEF TimerPart
  <2>6. QED
    BY <1>2, <2>1, <2>2, <2>5
<1>3. QED
  BY <1>1, <1>2

LEMMA Stop ==
    ASSUME TimerPart, app_timer_stop
    PROVE  /\ TimerPart' /\ idle'
           /\ Len(m_req_fifo') = Len(m_req_fifo) + (IF idle THEN 0 ELSE 1)
           /\ pending' = TRUE \/ pending' = pending
<1> USE OpQueueAssumption
<1>1. CASE idle
  BY <1>1 DEF app_timer_stop, timer, TimerPart, RequestsAlternate, Requests
<1>2. CASE ~idle
  <2>1. /\ Len(m_req_fifo) < OpQueueSize /\ idle' = TRUE /\ pending' = TRUE
        /\ m_req_fifo' = Append(m_req_fifo, "STOP") /\ m_req_fifo \in Seq(Requests)
    BY <1>2 DEF app_timer_stop, CanSchedule, timer_req_schedule, TimerPart
  <2>2. /\ m_req_fifo' \in Seq(Requests) /\ Len(m_req_fifo) \in Nat
        /\ Len(m_req_fifo') = Len(m_req_fifo) + 1
        /\ \A i \in 1 .. Len(m_req_fifo) : m_req_fifo'[i] = m_req_fifo[i]
        /\ m_req_fifo'[Len(m_req_fifo) + 1] = "STOP"
    BY <2>1, Scheduled DEF Requests
  <2>3. Len(m_req_fifo) % 2 # 0 /\ (Len(m_req_fifo) + 1) % 2 = 0
    BY <1>2, <2>2, Parity DEF TimerPart, RequestsAlternate
  <2>4. RequestsAlternate'
    BY <2>1, <2>2, <2>3 DEF TimerPart, RequestsAlternate
  <2>5. TimerPart'
    BY <2>1, <2>2, <2>4 DEF TimerPart
  <2>6. QED
    BY <1>2, <2>1, <2>2, <2>5
<1>3. QED
  BY <1>1, <1>2

LEMMA Negotiation ==
    ASSUME TimerPart, conn_params_negotiation
    PROVE  /\ TimerPart'
           /\ \/ idle' = idle /\ Len(m_req_fifo') = Len(m_req_fifo)
              \/ idle /\ ~idle' /\ Len(m_req_fifo') = Len(m_req_fifo) + 1
           /\ pending' = TRUE \/ pending' = pending
<1>1. CASE UNCHANGED <<timer, pending>>
  BY <1>1 DEF timer, TimerPart, RequestsAlternate, Requests
<1>2. CASE app_timer_start
  <2>1. TimerPart' /\ idle' = FALSE /\ (pending' = TRUE \/ pending' = pending)
    BY <1>2, Start
  <2>2. CASE idle
    BY <1>2, <2>1, <2>2, Start
  <2>3. CASE ~idle
    <3>1. Len(m_req_fifo') = Len(m_req_fifo) /\ idle' = idle
      BY <1>2, <2>3 DEF app_timer_start, timer
    <3>2. QED
      BY <2>1, <3>1
  <2>4. QED
    BY <2>2, <2>3
<1>3. QED
  BY <1>1, <1>2 DEF conn_params_negotiation

-----------------------------------------------------------------------------
(* The clock's half. *)

ClockPart == /\ counter \in 0 .. MaxCount
             /\ compare0 \in BOOLEAN /\ compare1 \in BOOLEAN /\ pending \in BOOLEAN
             /\ NoInterruptStorm
             /\ counter >= Compare0 => compare0
             /\ compare0 => pending

(* The rest: what a link, or its absence, means for the timer.              *)
LinkPart == /\ TimerHasLink
            /\ claimed <=> link
            /\ RequestsCounted

Flags == /\ boot \in {"off", "ble", "rtc", "up"}
         /\ claimed \in BOOLEAN
         /\ params_ok \in BOOLEAN
         /\ link \in BOOLEAN
         /\ served \in 0 .. MaxServed
         /\ cause \in {"power", "nfc", "fault"}

LEMMA Parts == TimerIInv <=> TimerPart /\ ClockPart /\ LinkPart /\ Flags
BY DEF TimerIInv, TypeOK, TimerPart, ClockPart, LinkPart, Flags, Requests

LEMMA PartsNext == TimerIInv' <=> TimerPart' /\ ClockPart' /\ LinkPart' /\ Flags'
BY DEF TimerIInv, TypeOK, TimerPart, ClockPart, LinkPart, Flags, Requests

(* COMPARE[0] is raised well below COMPARE[1], and the counter goes no      *)
(* further than MaxLatency beyond it.                                       *)
LEMMA TickClock == ASSUME ClockPart, Tick PROVE ClockPart'
<1> USE ClockAssumption
<1>1. /\ counter \in Nat /\ counter < Compare0 + MaxLatency
      /\ Compare0 \in Nat \ {0} /\ Compare1 \in Nat \ {0} /\ MaxLatency \in Nat \ {0}
      /\ ~compare1
  BY DEF ClockPart, NoInterruptStorm, Tick
<1>2. counter' = counter + 1
  <2>1. counter + 1 < MaxCount + 1 /\ MaxCount + 1 \in Nat /\ counter + 1 \in Nat
    BY <1>1 DEF MaxCount
  <2>2. QED
    BY <2>1, NoWrap DEF Tick
<1>3. counter' < Compare1 /\ counter' \in 0 .. MaxCount
  BY <1>1, <1>2 DEF MaxCount
<1>4. compare1' = FALSE
  <2>1. counter' # Compare1
    BY <1>1, <1>3
  <2>2. QED
    BY <1>1, <2>1, Zenon DEF Tick
<1>5. compare0' = (compare0 \/ counter' = Compare0)
  BY DEF Tick
<1>6. pending' = (pending \/ compare0' \/ compare1')
  BY DEF Tick
<1>7. counter' >= Compare0 => compare0'
  <2>1. CASE counter >= Compare0
    BY <1>5, <2>1 DEF ClockPart
  <2>2. CASE ~(counter >= Compare0)
    <3>1. counter' >= Compare0 => counter' = Compare0
      BY <1>1, <1>2, <2>2
    <3>2. QED
      BY <1>5, <3>1, Zenon
  <2>3. QED
    BY <2>1, <2>2
<1>8. compare0' => pending'
  BY <1>6
<1>9. compare0' \in BOOLEAN /\ pending' \in BOOLEAN
  BY <1>5, <1>6
<1>10. QED
  BY <1>3, <1>4, <1>7, <1>8, <1>9 DEF ClockPart, NoInterruptStorm

(* rtc_handler clears the counter before its interrupt goes.                *)
LEMMA HandlerClock == ASSUME ClockPart, RTC1_IRQHandler PROVE ClockPart'
<1> USE ClockAssumption DEF MaxCount
<1>1. /\ compare0' = FALSE /\ compare1' = compare1 /\ pending' = compare1 /\ compare1 = FALSE
      /\ counter' = IF compare0 THEN 0 ELSE counter
  BY DEF RTC1_IRQHandler, ClockPart, NoInterruptStorm
<1>2. counter' < Compare0 /\ counter' \in 0 .. MaxCount
  BY <1>1 DEF ClockPart
<1>3. /\ compare0' \in BOOLEAN /\ compare1' \in BOOLEAN /\ pending' \in BOOLEAN
      /\ ~compare0' /\ ~compare1'
  BY <1>1
<1>4. ~(counter' >= Compare0)
  BY <1>2
<1>5. QED
  BY <1>2, <1>3, <1>4 DEF ClockPart, NoInterruptStorm

(* A request only makes the interrupt pend.                                 *)
LEMMA PendClock ==
    ASSUME ClockPart, UNCHANGED <<counter, compare0, compare1>>,
           pending' = TRUE \/ pending' = pending
    PROVE  ClockPart'
BY DEF ClockPart, NoInterruptStorm

-----------------------------------------------------------------------------
(* Every step keeps the invariant. *)

(* How the chip comes out of reset.                                         *)
LEMMA InitTimerIInv == Init => TimerIInv
<1> SUFFICES ASSUME Init PROVE TimerIInv
  OBVIOUS
<1> USE OpQueueAssumption, ClockAssumption
<1>1. /\ {idle, claimed, params_ok, compare0, compare1, pending, link} \subseteq BOOLEAN
      /\ idle /\ ~claimed /\ ~compare0 /\ ~compare1 /\ ~pending /\ ~link
      /\ boot = "off" /\ cause = "power" /\ m_req_fifo = <<>> /\ counter = 0 /\ served = 0
  BY DEF Init
<1>2. TimerPart
  BY <1>1, NoRequests, Parity DEF TimerPart, RequestsAlternate
<1>3. counter \in 0 .. MaxCount /\ ~(counter >= Compare0) /\ served \in 0 .. MaxServed
  BY <1>1 DEF MaxCount, MaxServed
<1>4. ClockPart
  BY <1>1, <1>3 DEF ClockPart, NoInterruptStorm
<1>5. LinkPart /\ Flags
  BY <1>1, <1>3, NoRequests DEF LinkPart, Flags, TimerHasLink, RequestsCounted, MaxServed
<1>6. QED
  BY <1>2, <1>4, <1>5, Parts

LEMMA ResetIInv ==
    ASSUME NEW why \in {"power", "nfc", "fault"}, Reset(why)
    PROVE  TimerIInv'
<1> USE OpQueueAssumption, ClockAssumption
<1>1. /\ {idle', claimed', params_ok', compare0', compare1', pending', link'} \subseteq BOOLEAN
      /\ idle' /\ ~claimed' /\ ~compare0' /\ ~compare1' /\ ~pending' /\ ~link'
      /\ boot' = "off" /\ cause' = why /\ m_req_fifo' = <<>> /\ counter' = 0 /\ served' = 0
  BY DEF Reset
<1>2. TimerPart'
  BY <1>1, NoRequests, Parity DEF TimerPart, RequestsAlternate
<1>3. counter' \in 0 .. MaxCount /\ ~(counter' >= Compare0) /\ served' \in 0 .. MaxServed
  BY <1>1 DEF MaxCount, MaxServed
<1>4. ClockPart'
  BY <1>1, <1>3 DEF ClockPart, NoInterruptStorm
<1>5. LinkPart' /\ Flags'
  BY <1>1, <1>3, NoRequests DEF LinkPart, Flags, TimerHasLink, RequestsCounted, MaxServed
<1>6. QED
  BY <1>2, <1>4, <1>5, PartsNext

(* Start-up and the clock do not touch the timer or the link.               *)
LEMMA ClockIInv == ASSUME TimerIInv, Boot \/ Tick \/ RTC1_IRQHandler PROVE TimerIInv'
<1>1. TimerPart /\ ClockPart /\ LinkPart /\ Flags
  BY Parts
<1>2. UNCHANGED <<timer, instance, env, cause>> /\ boot' \in {"off", "ble", "rtc", "up"}
  BY <1>1 DEF Boot, InitBle, rtc_init, timers_init, Tick, RTC1_IRQHandler, Flags
<1>3. ClockPart'
  <2>1. CASE Boot
    BY <1>1, <2>1 DEF Boot, InitBle, rtc_init, timers_init, rtc, ClockPart, NoInterruptStorm
  <2>2. QED
    BY <1>1, <2>1, TickClock, HandlerClock
<1>4. TimerPart' /\ LinkPart' /\ Flags'
  BY <1>1, <1>2
  DEF timer, instance, env, TimerPart, RequestsAlternate, LinkPart, TimerHasLink, RequestsCounted,
      Flags
<1>5. QED
  BY <1>3, <1>4, PartsNext

(* A connection may cost a start ...                                        *)
LEMMA OnConnectIInv == ASSUME TimerIInv, NEW ok \in BOOLEAN, on_connect(ok) PROVE TimerIInv'
<1> USE OpQueueAssumption
<1>1. TimerPart /\ ClockPart /\ LinkPart /\ Flags
  BY Parts
<1>2. /\ ~link /\ link' = TRUE /\ claimed' = TRUE /\ params_ok' = ok
      /\ served' = IF served < MaxServed THEN served + 1 ELSE served
      /\ UNCHANGED <<boot, counter, compare0, compare1, cause>>
      /\ conn_params_negotiation
  BY DEF on_connect, LinkComes
<1>3. idle /\ Len(m_req_fifo) \in Nat
  BY <1>1, <1>2, LenProperties DEF LinkPart, TimerHasLink, TimerPart
<1>4. /\ TimerPart' /\ (pending' = TRUE \/ pending' = pending)
      /\ \/ idle' /\ Len(m_req_fifo') = Len(m_req_fifo)
         \/ ~idle' /\ Len(m_req_fifo') = Len(m_req_fifo) + 1
  BY <1>1, <1>2, <1>3, Negotiation
<1>5. RequestsCounted'
  BY <1>1, <1>2, <1>3, <1>4 DEF LinkPart, RequestsCounted, Flags, MaxServed
<1>6. LinkPart'
  BY <1>2, <1>5 DEF LinkPart, TimerHasLink
<1>7. Flags'
  <2>1. served' \in 0 .. MaxServed
    BY <1>1, <1>2 DEF Flags, MaxServed
  <2>2. claimed' \in BOOLEAN /\ params_ok' \in BOOLEAN /\ link' \in BOOLEAN
    BY <1>2
  <2>3. QED
    BY <1>1, <1>2, <2>1, <2>2 DEF Flags
<1>8. QED
  BY <1>1, <1>2, <1>4, <1>6, <1>7, PendClock, PartsNext

LEMMA OnUpdateIInv ==
    ASSUME TimerIInv, NEW ok \in BOOLEAN, on_conn_params_update(ok)
    PROVE  TimerIInv'
<1> USE OpQueueAssumption
<1>1. TimerPart /\ ClockPart /\ LinkPart /\ Flags
  BY Parts
<1>2. /\ link /\ claimed /\ params_ok' = ok /\ conn_params_negotiation
      /\ UNCHANGED <<boot, claimed, counter, compare0, compare1, link, served, cause>>
  BY DEF on_conn_params_update, env
<1>3. Len(m_req_fifo) \in Nat
  BY <1>1, LenProperties DEF TimerPart
<1>4. /\ TimerPart' /\ (pending' = TRUE \/ pending' = pending)
      /\ \/ idle' = idle /\ Len(m_req_fifo') = Len(m_req_fifo)
         \/ idle /\ ~idle' /\ Len(m_req_fifo') = Len(m_req_fifo) + 1
  BY <1>1, <1>2, Negotiation
<1>5. RequestsCounted'
  BY <1>1, <1>2, <1>3, <1>4 DEF LinkPart, RequestsCounted, Flags, MaxServed
<1>6. LinkPart' /\ Flags'
  BY <1>1, <1>2, <1>5 DEF LinkPart, TimerHasLink, Flags
<1>7. QED
  BY <1>1, <1>2, <1>4, <1>6, PendClock, PartsNext

(* ... and its end a stop.                                                  *)
LEMMA OnDisconnectIInv == ASSUME TimerIInv, on_disconnect PROVE TimerIInv'
<1> USE OpQueueAssumption
<1>1. TimerPart /\ ClockPart /\ LinkPart /\ Flags
  BY Parts
<1>2. /\ link /\ link' = FALSE /\ claimed' = FALSE /\ app_timer_stop
      /\ UNCHANGED <<boot, params_ok, counter, compare0, compare1, served, cause>>
  BY DEF on_disconnect
<1>3. Len(m_req_fifo) \in Nat
  BY <1>1, LenProperties DEF TimerPart
<1>4. /\ TimerPart' /\ idle' /\ (pending' = TRUE \/ pending' = pending)
      /\ Len(m_req_fifo') = Len(m_req_fifo) + (IF idle THEN 0 ELSE 1)
  BY <1>1, <1>2, Stop
<1>5. RequestsCounted'
  BY <1>1, <1>2, <1>3, <1>4 DEF LinkPart, RequestsCounted, Flags, MaxServed
<1>6. LinkPart'
  BY <1>2, <1>4, <1>5 DEF LinkPart, TimerHasLink
<1>7. Flags'
  BY <1>1, <1>2 DEF Flags
<1>8. QED
  BY <1>1, <1>2, <1>4, <1>6, <1>7, PendClock, PartsNext

LEMMA FailsReset == Fails => Reset("fault")
BY DEF Fails, ConnectFails, UpdateFails, DisconnectFails, conn_params_error_handler

LEMMA NextTimerIInv == TimerIInv /\ [Next]_vars => TimerIInv'
<1> SUFFICES ASSUME TimerIInv, [Next]_vars PROVE TimerIInv'
  OBVIOUS
<1>1. CASE Boot \/ Tick \/ RTC1_IRQHandler
  BY <1>1, ClockIInv
<1>2. CASE \E ok \in BOOLEAN : on_connect(ok) \/ on_conn_params_update(ok)
  BY <1>2, OnConnectIInv, OnUpdateIInv
<1>3. CASE on_disconnect
  BY <1>3, OnDisconnectIInv
<1>4. CASE Fails \/ NfcField
  BY <1>4, FailsReset, ResetIInv DEF NfcField
<1>5. CASE UNCHANGED vars
  BY <1>5
  DEF vars, timer, instance, rtc, env, TimerIInv, TypeOK, RequestsAlternate, TimerHasLink,
      NoInterruptStorm, RequestsCounted
<1>6. QED
  BY <1>1, <1>2, <1>3, <1>4, <1>5 DEF Next

-----------------------------------------------------------------------------
(* The theorems. *)

(* The inductive invariant of timer, module and clock holds.                *)
THEOREM TimerInvariance == Spec => []TimerIInv
BY InitTimerIInv, NextTimerIInv, PTL DEF Spec

(* Types are kept.                                                          *)
THEOREM TimerTypes == Spec => []TypeOK
<1>1. TimerIInv => TypeOK
  BY DEF TimerIInv
<1>2. QED
  BY <1>1, TimerInvariance, PTL

(* app_timer_start and app_timer_stop never double or miss a request.       *)
THEOREM RequestsArePaired == Spec => []RequestsAlternate
<1>1. TimerIInv => RequestsAlternate
  BY DEF TimerIInv
<1>2. QED
  BY <1>1, TimerInvariance, PTL

(* The timer of ble_conn_params.c is never in use without its connection.   *)
THEOREM TimersHaveLinks == Spec => []TimerHasLink
<1>1. TimerIInv => TimerHasLink
  BY DEF TimerIInv
<1>2. QED
  BY <1>1, TimerInvariance, PTL

(* RTC1 never raises COMPARE[1], whatever the compare values, as long as    *)
(* COMPARE[0] and the latency of its interrupt stay below it.               *)
THEOREM StormIsKeptAway == Spec => []NoInterruptStorm
<1>1. TimerIInv => NoInterruptStorm
  BY DEF TimerIInv
<1>2. QED
  BY <1>1, TimerInvariance, PTL

(* A gateway that is up resets over its timer only when half as many        *)
(* connections as the queue has slots have been served, whatever its size.  *)
THEOREM QueueLasts == Spec => SurvivesConnections
<1> DEFINE A == boot # "off" /\ boot' = "off" /\ cause' = "fault" =>
                    boot # "up" \/ served >= OpQueueSize \div 2
<1>1. TimerIInv /\ [Next]_vars => [A]_vars
  <2> SUFFICES ASSUME TimerIInv, Next, boot = "up", boot' = "off", cause' = "fault"
               PROVE  served >= OpQueueSize \div 2
    OBVIOUS
  <2>1. Fails
    BY DEF Next, Boot, InitBle, rtc_init, timers_init, Tick, RTC1_IRQHandler, on_connect,
           on_conn_params_update, on_disconnect, NfcField, Reset
  <2>2. StartFails \/ StopFails
    BY <2>1 DEF Fails, ConnectFails, UpdateFails, DisconnectFails, TimerIInv
  <2>3. ~(Len(m_req_fifo) < OpQueueSize) /\ Len(m_req_fifo) \in Nat
    BY <2>2, LenProperties DEF StartFails, StopFails, CanSchedule, TimerIInv, TypeOK
  <2>4. OpQueueSize \in Nat /\ served \in Nat /\ served <= OpQueueSize
    BY OpQueueAssumption DEF TimerIInv, TypeOK, MaxServed
  <2>5. CASE served = OpQueueSize
    BY <2>4, <2>5
  <2>6. CASE served < OpQueueSize
    <3>1. Len(m_req_fifo) <= 2 * served
      BY <2>3, <2>4, <2>6 DEF TimerIInv, RequestsCounted, MaxServed
    <3>2. OpQueueSize <= 2 * served
      BY <2>3, <2>4, <3>1
    <3>3. QED
      BY <2>4, <3>2
  <2>7. QED
    BY <2>4, <2>5, <2>6
<1>2. QED
  BY <1>1, TimerInvariance, PTL DEF Spec, SurvivesConnections
=============================================================================
