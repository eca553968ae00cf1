---------------------------- MODULE Pn532_proofs ----------------------------
(***************************************************************************)
(* Proofs about the PN532 driver.  There is no constant to generalise over:*)
(* what the proof adds to the run is the reason, InStepIInv.               *)
(***************************************************************************)
EXTENDS Pn532, TLAPS

(* The frames that are told apart.                                          *)
LEMMA FrameFacts ==
    /\ NoFrame \in Frames /\ Ack \in Frames /\ NoFrame # Ack
    /\ \A c \in Commands, ok \in BOOLEAN : /\ Answer(c, ok) \in Frames
                                          /\ Answer(c, ok).type = "answer"
                                          /\ Answer(c, ok).of = c
                                          /\ Answer(c, ok) \notin {NoFrame, Ack}
<1>1. \A c \in Commands, ok \in BOOLEAN :
          Answer(c, ok).type = "answer" /\ Answer(c, ok).of = c
  BY DEF Answer
<1>2. NoFrame.type = "none" /\ Ack.type = "ack"
  BY DEF NoFrame, Ack
<1>3. NoFrame \in Frames /\ Ack \in Frames /\ \A c \in Commands, ok \in BOOLEAN : Answer(c, ok) \in Frames
  BY DEF Frames
<1>4. QED
  BY <1>1, <1>2, <1>3

LEMMA AnswerTells == \A c \in Commands, ok \in BOOLEAN : Answer(c, ok).ok = ok
BY Zenon DEF Answer

LEMMA InitInStepIInv == Init => InStepIInv
BY FrameFacts DEF Init, InStepIInv, TypeOK, CarriedKnown, Commands

(* The chip moves on: the driver waits, and what it waits for stays ahead.  *)
LEMMA ChipIInv == InStepIInv /\ Chip => InStepIInv'
<1> SUFFICES ASSUME InStepIInv, Chip PROVE InStepIInv'
  OBVIOUS
<1> USE FrameFacts DEF InStepIInv, TypeOK, CarriedKnown, AckAhead, AnswerAhead, driver, history
<1>1. CASE ChipAcks
  BY <1>1 DEF ChipAcks
<1>2. ASSUME NEW done \in BOOLEAN, ChipWorks(done) PROVE InStepIInv'
  <2>1. CASE fresh /\ done
    BY <1>2, <2>1 DEF ChipWorks
  <2>2. CASE ~(fresh /\ done)
    BY <1>2, <2>2 DEF ChipWorks
  <2>3. QED
    BY <2>1, <2>2
<1>3. CASE ChipAnswers
  <2>1. /\ chip \in {"done", "undone"} /\ chip' = "idle"
        /\ out' = Answer(chip_cmd, chip = "done") /\ irq' = TRUE
        /\ UNCHANGED <<driver, chip_cmd, history>>
    BY <1>3 DEF ChipAnswers
  <2>2. CASE chip = "done"
    BY <2>1, <2>2
  <2>3. CASE chip = "undone"
    BY <2>1, <2>3
  <2>4. QED
    BY <2>1, <2>2, <2>3
<1>4. CASE ChipReleases
  <2>1. irq' = FALSE /\ out = NoFrame /\ UNCHANGED <<driver, chip, chip_cmd, out, history>>
    BY <1>4 DEF ChipReleases
  <2>2. TypeOK' /\ CarriedKnown'
    <3>1. TypeOK'
      BY <2>1
    <3>2. CarriedKnown'
      BY <2>1
    <3>3. QED
      BY <3>1, <3>2
  <2>3. AckAhead => AckAhead'
    BY <2>1
  <2>4. AnswerAhead => AnswerAhead'
    <3>1. NoFrame # Answer(cmd, carried)
      BY DEF Answer, NoFrame
    <3>2. QED
      BY <2>1, <3>1
  <2>5. QED
    BY <2>1, <2>2, <2>3, <2>4
<1>5. QED
  BY <1>1, <1>2, <1>3, <1>4 DEF Chip

(* A function of the driver is called: the chip may be about anything.      *)
LEMMA CallIInv == ASSUME InStepIInv, NEW c \in Commands, Call(c) PROVE InStepIInv'
BY FrameFacts DEF Call, InStepIInv, TypeOK, CarriedKnown, pn532

(* What Returns leaves behind is what the caller may see.                   *)
LEMMA ReturnsTypes ==
    ASSUME TypeOK, NEW ok \in BOOLEAN, Returns(ok)
    PROVE  /\ pc' = "between"
           /\ next' \in {"firmware", "sam", "retries", "loop"}
           /\ past_init' \in BOOLEAN
           /\ result' \in {"success", "failure"}
           /\ result' = "success" => ok
BY DEF TypeOK, Returns, After, Process, Commands

(* What is accepted as an answer says that the command was carried out.     *)
LEMMA AcceptedIsCarried ==
    ASSUME InStepIInv, pc = "judge", NEW byte7 \in BOOLEAN
    PROVE  Accepts(frame, byte7) \in BOOLEAN /\ (Accepts(frame, byte7) => carried)
<1>1. frame.type = "answer" /\ frame.of = cmd
  BY FrameFacts DEF InStepIInv, TypeOK
<1>2. frame.ok = carried
  BY AnswerTells DEF InStepIInv, TypeOK
<1>3. carried \/ MayComeToNothing(cmd)
  BY DEF InStepIInv, CarriedKnown
<1>4. carried \in BOOLEAN
  BY DEF InStepIInv, TypeOK
<1>5. QED
  BY <1>1, <1>2, <1>3, <1>4 DEF Accepts, MayComeToNothing

(* The rest of the call, one step for each stage of it.                     *)
LEMMA InCallIInv == InStepIInv /\ InCall => InStepIInv'
<1> SUFFICES ASSUME InStepIInv, InCall PROVE InStepIInv'
  OBVIOUS
<1> USE FrameFacts DEF InStepIInv, CarriedKnown, AckAhead, AnswerAhead, pn532, history, GoesOn
<1>1. ASSUME NEW sent \in BOOLEAN, CommandWrite(sent) PROVE InStepIInv'
  <2>1. CASE sent
    BY <1>1, <2>1 DEF CommandWrite, ChipReceives, TypeOK
  <2>2. CASE ~sent
    <3>1. Returns(FALSE) /\ UNCHANGED <<cmd, frame, in_listed_tag, carried>> /\ ~fresh
      BY <1>1, <2>2 DEF CommandWrite
    <3>2. CASE ChipReceives(cmd) /\ fresh' = TRUE
      BY <3>1, <3>2, ReturnsTypes DEF ChipReceives, TypeOK
    <3>3. CASE UNCHANGED <<pn532, fresh>>
      BY <3>1, <3>3, ReturnsTypes DEF TypeOK
    <3>4. QED
      BY <1>1, <2>2, <3>2, <3>3 DEF CommandWrite
  <2>3. QED
    BY <2>1, <2>2
<1>2. CASE WaitTimesOut
  BY <1>2, ReturnsTypes DEF WaitTimesOut, TypeOK
<1>3. CASE DataRead
  BY <1>3 DEF DataRead, FrameTaken, TypeOK
<1>4. CASE DataReadFails
  BY <1>4, ReturnsTypes DEF DataReadFails, FrameTaken, TypeOK
<1>5. CASE AckRead
  BY <1>5, ReturnsTypes DEF AckRead, TypeOK
<1>6. ASSUME NEW byte7 \in BOOLEAN, Judge(byte7) PROVE InStepIInv'
  BY <1>6, ReturnsTypes, AcceptedIsCarried DEF Judge, TypeOK
<1>7. QED
  BY <1>1, <1>2, <1>3, <1>4, <1>5, <1>6 DEF InCall

LEMMA NextInStepIInv == InStepIInv /\ [Next]_vars => InStepIInv'
<1> SUFFICES ASSUME InStepIInv, [Next]_vars PROVE InStepIInv'
  OBVIOUS
<1>1. CASE NfcField
  BY <1>1, FrameFacts DEF NfcField, pn532, InStepIInv, TypeOK, CarriedKnown
<1>2. CASE UNCHANGED vars
  BY <1>2
  DEF vars, driver, pn532, history, InStepIInv, TypeOK, CarriedKnown, AckAhead, AnswerAhead
<1>3. QED
  BY <1>1, <1>2, ChipIInv, CallIInv, InCallIInv DEF Next

(* The inductive invariant of driver and chip holds.                        *)
THEOREM InStepInvariance == Spec => []InStepIInv
BY InitInStepIInv, NextInStepIInv, PTL DEF Spec, Safe

(* Types are kept, those of the chip's frames included.                     *)
THEOREM DriverTypes == Spec => []TypeOK
<1>1. InStepIInv => TypeOK
  BY DEF InStepIInv
<1>2. QED
  BY <1>1, InStepInvariance, PTL

(* What the driver reads is the acknowledgement and the answer of its call  *)
(* (adafruit_pn532_data_read), over timeouts, errors and resets.            *)
THEOREM DriverInStep == Spec => []InStep
<1>1. InStepIInv => InStep
  BY FrameFacts DEF InStepIInv, InStep, TypeOK, AnswerAhead
<1>2. QED
  BY <1>1, InStepInvariance, PTL

-----------------------------------------------------------------------------

LEMMA NextTagIInv == TagIInv /\ InStepIInv /\ [Next]_vars => TagIInv'
<1> SUFFICES ASSUME TagIInv, InStepIInv, TypeOK', [Next]_vars PROVE TagIInv'
  BY NextInStepIInv DEF InStepIInv
<1> USE DEF TagIInv, ExchangesListedTag
<1>1. CASE Chip
  BY <1>1 DEF Chip, ChipAcks, ChipWorks, ChipAnswers, ChipReleases, driver
<1>2. ASSUME NEW c \in Commands, Call(c) PROVE TagIInv'
  <2>1. c = "exchange" => past_init
    BY <1>2 DEF Call, MayCall, TypeOK
  <2>2. QED
    BY <1>2, <2>1 DEF Call
<1>3. CASE InCall
  <2>1. ASSUME pc # "between", UNCHANGED <<cmd, in_listed_tag>>, Process(FALSE) \/ UNCHANGED past_init
        PROVE  TagIInv'
    <3>1. past_init' => past_init
      BY <2>1 DEF Process, TypeOK, Commands
    <3>2. QED
      BY <2>1, <3>1
  <2>2. ASSUME NEW byte7 \in BOOLEAN, Judge(byte7) PROVE TagIInv'
    BY <2>2 DEF Judge, Returns, Process, TypeOK
  <2>3. CASE AckRead
    BY <2>3 DEF AckRead, Returns, Process, GoesOn, TypeOK
  <2>4. QED
    BY <1>3, <2>1, <2>2, <2>3
    DEF InCall, CommandWrite, WaitTimesOut, DataRead, DataReadFails, Returns, GoesOn
<1>4. CASE NfcField
  BY <1>4 DEF NfcField
<1>5. CASE UNCHANGED vars
  BY <1>5 DEF vars, driver
<1>6. QED
  BY <1>1, <1>2, <1>3, <1>4, <1>5 DEF Next

(* An exchange goes to a target that was listed since the host started      *)
(* (in_listed_tag of adafruit_pn532_in_data_exchange).                      *)
THEOREM TagsAreListed == Spec => []ExchangesListedTag
<1>1. Init => TagIInv
  BY InitInStepIInv DEF Init, TagIInv, ExchangesListedTag, InStepIInv
<1>2. TagIInv => ExchangesListedTag
  BY DEF TagIInv
<1>3. QED
  BY <1>1, <1>2, NextTagIInv, InStepInvariance, PTL DEF Spec, Safe

-----------------------------------------------------------------------------

(* A return of the driver is a return of the promise, or it is retries'.    *)
LEMMA ReturnIsReturn ==
    ASSUME InStepIInv, InStepIInv', NEW ok \in BOOLEAN, Returns(ok), pc # "between",
           UNCHANGED <<cmd, carried>>
    PROVE  [E!Next]_(E!vars)
<1>1. CASE cmd = "retries"
  BY <1>1 DEF Returns, E!vars
<1>2. CASE cmd # "retries"
  <2>1. ok => carried
    BY <1>2 DEF Returns, InStepIInv, CarriedKnown
  <2>2. E!Return(ok)
    BY <1>2, <2>1 DEF Returns, E!Return, InStepIInv, TypeOK
  <2>3. QED
    BY <2>2 DEF E!Next
<1>3. QED
  BY <1>1, <1>2

LEMMA StepIsExchangeStep == InStepIInv /\ [Next]_vars => [E!Next]_(E!vars)
<1> SUFFICES ASSUME InStepIInv, InStepIInv', [Next]_vars PROVE [E!Next]_(E!vars)
  BY NextInStepIInv
<1>1. CASE Chip
  <2>1. CASE carried' = carried
    BY <1>1, <2>1 DEF Chip, ChipAcks, ChipWorks, ChipAnswers, ChipReleases, driver, history, E!vars
  <2>2. CASE carried' # carried
    <3>1. /\ fresh /\ ~carried /\ carried' /\ UNCHANGED driver
      BY <1>1, <2>2
      DEF Chip, ChipAcks, ChipWorks, ChipAnswers, ChipReleases, history, InStepIInv, TypeOK
    <3>2. CASE cmd = "retries"
      BY <3>1, <3>2 DEF driver, E!vars
    <3>3. CASE cmd # "retries"
      <4>1. pc # "between" \/ result = "failure"
        BY <3>1, <3>3 DEF InStepIInv, TypeOK, CarriedKnown
      <4>2. E!CarryOut
        BY <3>1, <3>3, <4>1 DEF driver, E!CarryOut
      <4>3. QED
        BY <4>2 DEF E!Next
    <3>4. QED
      BY <3>2, <3>3
  <2>3. QED
    BY <2>1, <2>2
<1>2. ASSUME NEW c \in Commands, Call(c) PROVE [E!Next]_(E!vars)
  <2>1. CASE c = "retries"
    BY <1>2, <2>1 DEF Call, E!Forget, E!Next
  <2>2. CASE c # "retries"
    BY <1>2, <2>2 DEF Call, E!Ask, E!Next
  <2>3. QED
    BY <2>1, <2>2
<1>3. CASE InCall
  <2>1. pc # "between" /\ UNCHANGED <<cmd, carried>>
    BY <1>3
    DEF InCall, CommandWrite, WaitTimesOut, DataRead, DataReadFails, AckRead, Judge, history
  <2>2. CASE pc' # "between" /\ UNCHANGED result
    BY <2>1, <2>2 DEF E!vars
  <2>3. CASE \E ok \in BOOLEAN : Returns(ok)
    BY <2>1, <2>3, ReturnIsReturn
  <2>4. ASSUME NEW byte7 \in BOOLEAN, Judge(byte7) PROVE \E ok \in BOOLEAN : Returns(ok)
    BY <2>4, AcceptedIsCarried DEF Judge
  <2>5. QED
    BY <1>3, <2>2, <2>3, <2>4
    DEF InCall, CommandWrite, WaitTimesOut, DataRead, DataReadFails, AckRead, GoesOn
<1>4. CASE NfcField
  BY <1>4 DEF NfcField, E!Forget, E!Next
<1>5. CASE UNCHANGED vars
  BY <1>5 DEF vars, driver, history, E!vars
<1>6. QED
  BY <1>1, <1>2, <1>3, <1>4, <1>5 DEF Next

(* The driver keeps its promise to card_reader_manager.c: success means     *)
(* that the chip has carried the command of this call out.                  *)
THEOREM DriverKeepsPromise == Spec => E!Safe
<1>1. Init => E!Init
  BY DEF Init, E!Init
<1>2. QED
  BY <1>1, StepIsExchangeStep, InStepInvariance, PTL DEF Spec, Safe, E!Safe
=============================================================================
