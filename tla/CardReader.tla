----------------------------- MODULE CardReader -----------------------------
(***************************************************************************)
(* The MIFARE Classic process that main runs in its loop: mifare_start of  *)
(* card_reader_manager.c, one call of it a step, with the PN532 and the    *)
(* cards (external) behind its exchanges.  A card given the custom key     *)
(* keeps it, while the state of the process is in RAM, lost when an NFC    *)
(* field restarts the chip.  Any exchange may fail, and one that the card  *)
(* has carried out may still be reported as failed.                        *)
(***************************************************************************)
CONSTANTS Cards,
          NoCard

ASSUME CardAssumption == NoCard \notin Cards

VARIABLES card_read_state, init_next_state,
          uid,       \* mifare_data.uid: the card found last
          present,   \* the card on the reader
          selected,  \* the card that answers the PN532
          session,   \* the key it has authenticated the sector with, or "none"
          key,       \* of each card: key A of the sector
          written    \* the cards whose memory block holds new_data

reader == <<card_read_state, init_next_state, uid>>
pn532 == <<selected, session>>
vars == <<reader, present, pn532, key, written>>

Keys == {"default", "custom", "other"}

TypeOK == /\ card_read_state \in {"INIT", "AUTH_WITH_DEFAULT_KEY", "AUTH_WITH_CUSTOM_KEY",
                                  "CONFIG_CUSTOM_KEY", "WRITE_TO_MEMORY_BLOCK"}
          /\ init_next_state \in {"AUTH_WITH_DEFAULT_KEY", "AUTH_WITH_CUSTOM_KEY"}
          /\ uid \in Cards \union {NoCard}
          /\ present \in Cards \union {NoCard}
          /\ selected \in {present, NoCard}
          /\ session \in {"none", "default", "custom"}
          /\ key \in [Cards -> Keys]
          /\ written \subseteq Cards

\* Cards come from the factory, from an earlier run of the gateway, or from
\* somebody else.
Init == /\ card_read_state = "INIT"
        /\ init_next_state = "AUTH_WITH_DEFAULT_KEY"
        /\ uid = NoCard
        /\ present = NoCard
        /\ selected = NoCard
        /\ session = "none"
        /\ key \in [Cards -> Keys]
        /\ written = {}

-----------------------------------------------------------------------------
(* The cards (external). *)

CardArrives(c) == /\ present = NoCard
                  /\ present' = c
                  /\ UNCHANGED <<reader, pn532, key, written>>

CardLeaves == /\ present # NoCard
              /\ present' = NoCard
              /\ selected' = NoCard
              /\ session' = "none"
              /\ UNCHANGED <<reader, key, written>>

-----------------------------------------------------------------------------
(* The exchanges.  ok: what the driver reports. *)

\* A wrong key, or no answer, and the card has to be selected again.
AuthFails == selected' = NoCard /\ session' = "none"

mifare_authenticate(k, ok) ==
    \/ /\ selected # NoCard
       /\ selected = uid
       /\ key[selected] = k
       /\ session' = k
       /\ UNCHANGED selected
    \/ AuthFails /\ ~ok

\* A write needs an authenticated session; the sector trailer and the memory
\* block are in the same sector.
WriteDone == selected # NoCard /\ session # "none"

mifare_write_block(ok) ==
    \/ WriteDone /\ written' = written \union {selected}
    \/ ~ok /\ UNCHANGED written

\* The session opened with the default key has just rewritten the key, or not.
configure_custom_key ==
    \/ /\ selected # NoCard
       /\ selected = uid
       /\ key[selected] = "default"
       /\ session' = "default"
       /\ key' \in {key, [key EXCEPT ![selected] = "custom"]}
       /\ UNCHANGED selected
    \/ AuthFails /\ UNCHANGED key

-----------------------------------------------------------------------------
(* mifare_start: one action per state. *)

\* Mutant: after a failure the same key is tried again.
Goto_SameKey(ok, s, else) ==
    /\ card_read_state' = IF ok THEN s ELSE "INIT"
    /\ UNCHANGED init_next_state

\* Mutant: the two assignments of the failure are swapped.
Goto_Swapped(ok, s, else) ==
    /\ card_read_state' = IF ok THEN s ELSE else
    /\ init_next_state' = IF ok THEN init_next_state ELSE "INIT"

\* On to s, or back to INIT with another first key.
Goto(ok, s, else) ==
    /\ card_read_state' = IF ok THEN s ELSE "INIT"
    /\ init_next_state' = IF ok THEN init_next_state ELSE else

\* Mutant: the UID is only noted the first time.
TargetInit_KeepsUid ==
    /\ card_read_state = "INIT"
    /\ present # NoCard
    /\ selected' = present
    /\ session' = "none"
    /\ uid' = IF uid = NoCard THEN present ELSE uid
    /\ card_read_state' = init_next_state
    /\ UNCHANGED <<init_next_state, present, key, written>>

\* adafruit_pn532_nfc_a_target_init finds a card and its answer arrives.
TargetInit ==
    /\ card_read_state = "INIT"
    /\ present # NoCard
    /\ selected' = present
    /\ session' = "none"
    /\ uid' = present
    /\ card_read_state' = init_next_state
    /\ UNCHANGED <<init_next_state, present, key, written>>

\* It finds none, or the driver reports an error; the card may be selected.
NoTarget ==
    /\ card_read_state = "INIT"
    /\ selected' \in {NoCard, present}
    /\ session' = "none"
    /\ UNCHANGED <<reader, present, key, written>>

AuthWithDefaultKey(ok) ==
    /\ card_read_state = "AUTH_WITH_DEFAULT_KEY"
    /\ mifare_authenticate("default", ok)
    /\ Goto(ok, "CONFIG_CUSTOM_KEY", "AUTH_WITH_CUSTOM_KEY")
    /\ UNCHANGED <<uid, present, key, written>>

\* Mutant: the default key will do for the write.
AuthWithCustomKey_Default(ok) ==
    /\ card_read_state = "AUTH_WITH_CUSTOM_KEY"
    /\ mifare_authenticate("default", ok)
    /\ Goto(ok, "WRITE_TO_MEMORY_BLOCK", "AUTH_WITH_DEFAULT_KEY")
    /\ UNCHANGED <<uid, present, key, written>>

AuthWithCustomKey(ok) ==
    /\ card_read_state = "AUTH_WITH_CUSTOM_KEY"
    /\ mifare_authenticate("custom", ok)
    /\ Goto(ok, "WRITE_TO_MEMORY_BLOCK", "AUTH_WITH_DEFAULT_KEY")
    /\ UNCHANGED <<uid, present, key, written>>

\* The result of configure_custom_key is dropped, and the err_code that is
\* tested instead has no value in this call: ok is anything.
ConfigCustomKey(ok) ==
    /\ card_read_state = "CONFIG_CUSTOM_KEY"
    /\ configure_custom_key
    /\ Goto(ok, "AUTH_WITH_CUSTOM_KEY", "AUTH_WITH_DEFAULT_KEY")
    /\ UNCHANGED <<uid, present, written>>

WriteToMemoryBlock(ok) ==
    /\ card_read_state = "WRITE_TO_MEMORY_BLOCK"
    /\ mifare_write_block(ok)
    /\ card_read_state' = "INIT"
    /\ init_next_state' = "AUTH_WITH_DEFAULT_KEY"
    /\ UNCHANGED <<uid, present, pn532, key>>

\* An NFC field restarts the chip; the PN532 and the cards are not affected.
NfcField == /\ card_read_state' = "INIT"
            /\ init_next_state' = "AUTH_WITH_DEFAULT_KEY"
            /\ uid' = NoCard
            /\ UNCHANGED <<present, pn532, key, written>>

Call(ok) == \/ AuthWithDefaultKey(ok)
            \/ AuthWithCustomKey(ok)
            \/ ConfigCustomKey(ok)
            \/ WriteToMemoryBlock(ok)

mifare_start == TargetInit \/ NoTarget \/ \E ok \in BOOLEAN : Call(ok)

Next == \/ \E c \in Cards : CardArrives(c)
        \/ CardLeaves
        \/ mifare_start
        \/ NfcField

\* The main loop calls mifare_start again and again: RTC1 wakes it from
\* idle_state_handle every ten seconds at the latest.
Spec == Init /\ [][Next]_vars /\ WF_vars(mifare_start)

-----------------------------------------------------------------------------
(* What must hold. *)

\* new_data is only on cards whose sector already has the custom key, however
\* cards are swapped, answers lost and the chip restarted in between.
DataBehindCustomKey == \A c \in written : key[c] = "custom"

\* Past INIT, the card that answers is the one whose UID goes into the
\* authentication: a card that took its place does not answer.
AuthenticatesSelected == card_read_state # "INIT" => selected \in {uid, NoCard}

\* The strengthening that makes the two inductive: a session on the way to the
\* write was opened with the custom key.
CardIInv == /\ TypeOK
            /\ DataBehindCustomKey
            /\ AuthenticatesSelected
            /\ card_read_state = "WRITE_TO_MEMORY_BLOCK" /\ WriteDone => key[selected] = "custom"

\* A call in which the exchange does what the card it is meant for allows.
Answers(k) == selected # NoCard /\ selected = uid /\ key[selected] = k

CleanCall == \/ TargetInit
             \/ AuthWithDefaultKey(Answers("default"))
             \/ AuthWithCustomKey(Answers("custom"))
             \/ /\ \E ok \in BOOLEAN : ConfigCustomKey(ok)
                /\ Answers("default") => key'[selected] = "custom"
             \/ WriteToMemoryBlock(WriteDone)

\* A card with the default or the custom key that stays on the reader is
\* written in the end, once failures and restarts cease: a failed key makes the
\* next round try the other one, and the undefined err_code costs a round only.
ServesCard ==
    \A c \in Cards :
        <>[](present = c) /\ <>[][CleanCall]_vars => <>(c \in written \/ key[c] = "other")
=============================================================================
