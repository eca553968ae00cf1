------------------------------- MODULE Pn532 -------------------------------
(***************************************************************************)
(* The PN532 driver (adafruit_pn532.c) at work with the chip (external):   *)
(* commands, their acknowledgements and answers over I2C, the IRQ line that*)
(* says there is something to read, and the timeouts of waiting for it.    *)
(* The chip works on when the driver has given up, and when an NFC field   *)
(* restarts the host.  Whether a frame belongs to the call that reads it   *)
(* is kept as history (fresh); frames carry nothing of the kind.           *)
(***************************************************************************)

\* init: firmware, sam, retries; mifare_start: list, exchange.
Commands == {"firmware", "sam", "retries", "list", "exchange"}

NoFrame == [type |-> "none", of |-> "list", ok |-> FALSE]
Ack == [type |-> "ack", of |-> "list", ok |-> FALSE]
Answer(c, ok) == [type |-> "answer", of |-> c, ok |-> ok]
Frames == {NoFrame, Ack} \union {Answer(c, ok) : c \in Commands, ok \in BOOLEAN}

VARIABLES pc,        \* "between" calls; "write": sending a command; "ack": waiting for it; "irq":
                     \* waiting for the line to be taken off; "answer": waiting for it; "judge":
                     \* having read it
          next,      \* the next command of init, or "loop"
          cmd,       \* the command of the last call
          frame,     \* what was read last: ack_buf or m_pn532_packet_buf
          result,    \* what the last call reported
          in_listed_tag,
          past_init, \* card_read_state of mifare_start is not INIT
          chip,      \* "idle"; "got" a command; "acked"; "busy"; "done" or "undone"
          chip_cmd,  \* the command the chip works on
          out,       \* the frame it holds for the host
          irq,       \* the line is low
          fresh,     \* history: chip and out are about the last call
          carried    \* history: the command of the last call was carried out

driver == <<pc, next, cmd, frame, result, in_listed_tag, past_init>>
pn532 == <<chip, chip_cmd, out, irq>>
history == <<fresh, carried>>
vars == <<driver, pn532, history>>

TypeOK == /\ pc \in {"between", "write", "ack", "irq", "answer", "judge"}
          /\ next \in {"firmware", "sam", "retries", "loop"}
          /\ cmd \in Commands
          /\ frame \in Frames
          /\ result \in {"none", "success", "failure"}
          /\ in_listed_tag \in {0, 1}
          /\ past_init \in BOOLEAN
          /\ chip \in {"idle", "got", "acked", "busy", "done", "undone"}
          /\ chip_cmd \in Commands
          /\ out \in Frames
          /\ irq \in BOOLEAN
          /\ fresh \in BOOLEAN
          /\ carried \in BOOLEAN

Init == /\ pc = "between"
        /\ next = "firmware"
        /\ cmd = "firmware"
        /\ frame = NoFrame
        /\ result = "none"
        /\ in_listed_tag = 0
        /\ past_init = FALSE
        /\ chip = "idle"
        /\ chip_cmd = "firmware"
        /\ out = NoFrame
        /\ irq = FALSE
        /\ fresh = FALSE
        /\ carried = FALSE

-----------------------------------------------------------------------------
(* The chip (external). *)

ChipAcks == /\ chip = "got"
            /\ chip' = "acked"
            /\ out' = Ack
            /\ irq' = TRUE
            /\ UNCHANGED <<driver, chip_cmd, history>>

\* What needs a card.
MayComeToNothing(c) == c \in {"list", "exchange"}

\* done: the card, or the chip itself, does what it was asked.  If not, the chip
\* says so, or scans on for ever.
ChipWorks(done) ==
    /\ chip = "busy"
    /\ done \/ MayComeToNothing(chip_cmd)
    /\ chip' = IF done THEN "done" ELSE "undone"
    /\ carried' = (carried \/ (done /\ fresh))
    /\ UNCHANGED <<driver, chip_cmd, out, irq, fresh>>

ChipAnswers == /\ chip \in {"done", "undone"}
               /\ ~irq
               /\ chip' = "idle"
               /\ out' = Answer(chip_cmd, chip = "done")
               /\ irq' = TRUE
               /\ UNCHANGED <<driver, chip_cmd, history>>

\* A frame was read: the line follows.
ChipReleases == /\ irq
                /\ out = NoFrame
                /\ irq' = FALSE
                /\ UNCHANGED <<driver, chip, chip_cmd, out, history>>

\* A new command ends the work on the one before it and withdraws what was not
\* read, which the driver counts on: nobody reads the answer of retries, or the
\* one that comes after a timeout.
ChipReceives(c) == chip' = "got" /\ chip_cmd' = c /\ out' = NoFrame /\ irq' = FALSE

\* A transfer that fails may have taken the frame out, or not.
FrameTaken == /\ out' = NoFrame
              /\ chip' = IF chip = "acked" THEN "busy" ELSE chip
              /\ UNCHANGED <<chip_cmd, irq>>

-----------------------------------------------------------------------------
(* The driver. *)

\* What comes after a call of init: a failure ends init, and init_pn532 drops it.
After(ok) == CASE next = "firmware" /\ ok -> "sam"
               [] next = "sam" /\ ok -> "retries"
               [] OTHER -> "loop"

\* mifare_start goes on after a card is found, and goes back to INIT or not
\* after an exchange.
Process(ok) == past_init' \in CASE cmd = "list" -> {ok}
                                [] cmd = "exchange" -> {past_init, FALSE}
                                [] OTHER -> {past_init}

Returns(ok) == /\ pc' = "between"
               /\ result' = IF ok THEN "success" ELSE "failure"
               /\ next' = After(ok)
               /\ Process(ok)

GoesOn(p) == pc' = p /\ UNCHANGED <<result, next, past_init>>

MayCall(c) == CASE next # "loop" -> c = next
                [] past_init -> c = "exchange"
                [] OTHER -> c = "list"

\* A function of the driver is called and makes up its command.
Call(c) == /\ pc = "between"
           /\ MayCall(c)
           /\ pc' = "write"
           /\ cmd' = c
           /\ frame' = NoFrame
           /\ result' = "none"
           /\ fresh' = FALSE
           /\ carried' = FALSE
           /\ UNCHANGED <<next, in_listed_tag, past_init, pn532>>

\* adafruit_pn532_command_write.  sent: what nrf_drv_twi_tx reports; the chip may
\* have taken a frame whose transfer is reported to have failed.
CommandWrite(sent) ==
    /\ pc = "write"
    /\ \/ ChipReceives(cmd) /\ fresh' = TRUE
       \/ ~sent /\ UNCHANGED <<pn532, fresh>>
    /\ IF sent THEN GoesOn("ack") ELSE Returns(FALSE)
    /\ UNCHANGED <<cmd, frame, in_listed_tag, carried>>

\* Mutant: the wait has no end.
TimesOut_Never == FALSE

\* adafruit_pn532_waitready_ms: the time is up and the line is still high.
TimesOut == ~irq

WaitTimesOut ==
    /\ pc \in {"ack", "answer"}
    /\ TimesOut
    /\ Returns(FALSE)
    /\ UNCHANGED <<cmd, frame, in_listed_tag, pn532, history>>

\* adafruit_pn532_data_read, of an acknowledgement or of an answer.
DataRead ==
    /\ pc \in {"ack", "answer"}
    /\ irq
    /\ frame' = out
    /\ FrameTaken
    /\ GoesOn(IF pc = "ack" THEN "irq" ELSE "judge")
    /\ UNCHANGED <<cmd, in_listed_tag, history>>

\* nrf_drv_twi_rx reports an error.
DataReadFails ==
    /\ pc \in {"ack", "answer"}
    /\ irq
    /\ FrameTaken \/ UNCHANGED pn532
    /\ Returns(FALSE)
    /\ UNCHANGED <<cmd, frame, in_listed_tag, history>>

\* Mutant: the line is not waited for.
AckRead_NoWait ==
    /\ pc = "irq"
    /\ IF frame # Ack THEN Returns(FALSE)
       ELSE IF cmd = "retries" THEN Returns(TRUE)
       ELSE GoesOn("answer")
    /\ UNCHANGED <<cmd, frame, in_listed_tag, pn532, history>>

\* The rest of adafruit_pn532_ack_read.  The line is polled until it is high, a
\* thousand times at most, so it may be low again, or still, for the answer; the
\* chip is taken to release it within these polls.
AckRead ==
    /\ pc = "irq"
    /\ ~(irq /\ out = NoFrame)
    /\ IF frame # Ack THEN Returns(FALSE)
       ELSE IF cmd = "retries" THEN Returns(TRUE)
       ELSE GoesOn("answer")
    /\ UNCHANGED <<cmd, frame, in_listed_tag, pn532, history>>

\* Mutant: the status byte of the answer is not looked at.
Accepts_NoStatus(f, byte7) ==
    IF cmd = "list" THEN (IF f.of = "list" /\ f.type = "answer" THEN f.ok ELSE byte7)
    ELSE f.type = "answer" /\ f.of = cmd

\* What each function checks.  target_init looks at one byte only, where any
\* frame but its own has whatever it has (byte7); firmware_version_get and
\* sam_config compare the code; in_data_exchange header, code and status.
Accepts(f, byte7) ==
    CASE cmd = "list" -> IF f.of = "list" /\ f.type = "answer" THEN f.ok ELSE byte7
      [] cmd = "exchange" -> f.type = "answer" /\ f.of = "exchange" /\ f.ok
      [] OTHER -> f.type = "answer" /\ f.of = cmd

\* Mutant: the number of the target is not kept.
Judge_NoTag(byte7) ==
    /\ pc = "judge"
    /\ Returns(Accepts(frame, byte7))
    /\ UNCHANGED <<cmd, frame, in_listed_tag, pn532, history>>

\* Mutant: the byte after Tg is kept.
Judge_NextByte(byte7) ==
    /\ pc = "judge"
    /\ Returns(Accepts(frame, byte7))
    /\ in_listed_tag' = IF cmd = "list" /\ Accepts(frame, byte7) THEN 4 ELSE in_listed_tag
    /\ UNCHANGED <<cmd, frame, pn532, history>>

Judge(byte7) ==
    /\ pc = "judge"
    /\ Returns(Accepts(frame, byte7))
    /\ in_listed_tag' = IF cmd = "list" /\ Accepts(frame, byte7) THEN 1 ELSE in_listed_tag
    /\ UNCHANGED <<cmd, frame, pn532, history>>

\* An NFC field restarts the host; the chip has its own power.
NfcField == /\ pc' = "between"
            /\ next' = "firmware"
            /\ frame' = NoFrame
            /\ result' = "none"
            /\ in_listed_tag' = 0
            /\ past_init' = FALSE
            /\ fresh' = FALSE
            /\ carried' = FALSE
            /\ UNCHANGED <<cmd, pn532>>

-----------------------------------------------------------------------------

Chip == ChipAcks \/ (\E done \in BOOLEAN : ChipWorks(done)) \/ ChipAnswers \/ ChipReleases

InCall == \/ \E sent \in BOOLEAN : CommandWrite(sent)
          \/ WaitTimesOut
          \/ DataRead
          \/ DataReadFails
          \/ AckRead
          \/ \E byte7 \in BOOLEAN : Judge(byte7)

Next == \/ Chip
        \/ \E c \in Commands : Call(c)
        \/ InCall
        \/ NfcField

Safe == Init /\ [][Next]_vars

\* A call is straight-line code with bounded waits; the chip lets go of the line.
Spec == Safe /\ WF_vars(InCall) /\ WF_vars(ChipReleases)

-----------------------------------------------------------------------------
(* What must hold. *)

\* Driver and chip stay in step: what is read as the acknowledgement is the
\* acknowledgement of this call, and what is read as the answer is its answer,
\* over timeouts, late answers, failed transfers and restarts.  Nothing is read
\* when there is no frame, which the driver would not notice: it drops the
\* status byte of the transfer.
InStep == /\ pc = "irq" => fresh /\ frame = Ack
          /\ pc = "judge" => fresh /\ frame.type = "answer" /\ frame.of = cmd

\* An exchange is addressed to a target that was listed since the host started.
ExchangesListedTag == pc # "between" /\ cmd = "exchange" => in_listed_tag = 1

\* The strengthening that makes it inductive.
TagIInv == /\ TypeOK
           /\ ExchangesListedTag
           /\ past_init => in_listed_tag = 1

\* Every call returns, whether the chip answers or not.
CallsReturn == pc # "between" ~> pc = "between"

\* The strengthening that makes InStep and the refinement inductive.  What the
\* chip is about while the driver waits for the acknowledgement:
AckAhead == /\ fresh
            /\ \/ chip = "got" /\ out = NoFrame /\ ~irq
               \/ chip = "acked" /\ out = Ack /\ irq

\* and for the answer.
AnswerAhead == /\ fresh
               /\ \/ chip \in {"busy", "done", "undone"} /\ out = NoFrame
                  \/ chip = "idle" /\ out = Answer(cmd, carried) /\ irq

\* What carried says of the call, and of the chip at work on its command.
CarriedKnown == /\ ~fresh => ~carried
                /\ fresh => /\ chip_cmd = cmd
                            /\ chip \in {"got", "acked", "busy", "undone"} => ~carried
                            /\ chip = "done" => carried
                            /\ chip = "undone" => MayComeToNothing(cmd)
                            /\ chip = "idle" => carried \/ MayComeToNothing(cmd)
                /\ fresh /\ pc = "between" => result # "none"
                /\ result = "success" /\ cmd # "retries" => carried

InStepIInv == /\ TypeOK
              /\ CarriedKnown
              /\ pc = "write" => ~fresh
              /\ pc = "ack" => AckAhead
              /\ pc = "irq" => AnswerAhead /\ frame = Ack
              /\ pc = "answer" => AnswerAhead /\ (irq => out # NoFrame)
              /\ pc = "judge" => fresh /\ chip = "idle" /\ frame = Answer(cmd, carried)
              /\ pc # "between" => result = "none"

\* The promise, but for the call that ends with the acknowledgement.
E == INSTANCE Exchange WITH calling <- pc # "between" /\ cmd # "retries",
                            carried <- carried /\ cmd # "retries",
                            result <- IF cmd = "retries" THEN "none" ELSE result

ImplementsExchange == E!Spec
=============================================================================
