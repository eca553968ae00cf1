-------------------------- MODULE CardReader_proofs --------------------------
(***************************************************************************)
(* Proofs about the card reader, for any set of cards.                    *)
(***************************************************************************)
EXTENDS CardReader, TLAPS

LEMMA InitCardIInv == Init => CardIInv
BY CardAssumption
DEF Init, CardIInv, TypeOK, Keys, DataBehindCustomKey, AuthenticatesSelected, WriteDone

(* Cards move, or another is found: nothing is written and no session made. *)
LEMMA MovesIInv ==
    ASSUME CardIInv, (\E c \in Cards : CardArrives(c)) \/ CardLeaves \/ TargetInit \/ NoTarget
    PROVE  CardIInv'
<1> USE DEF CardIInv, TypeOK, DataBehindCustomKey, AuthenticatesSelected, WriteDone
<1>1. ASSUME NEW c \in Cards, CardArrives(c) PROVE CardIInv'
  BY <1>1, CardAssumption DEF CardArrives, reader, pn532
<1>2. CASE CardLeaves
  BY <1>2 DEF CardLeaves, reader
<1>3. CASE TargetInit
  BY <1>3 DEF TargetInit
<1>4. CASE NoTarget
  BY <1>4 DEF NoTarget, reader
<1>5. QED
  BY <1>1, <1>2, <1>3, <1>4

(* A call of mifare_start past INIT: the key only goes from default to      *)
(* custom, and the way to the write leads through the custom key.           *)
LEMMA CallIInv == ASSUME CardIInv, NEW ok \in BOOLEAN, Call(ok) PROVE CardIInv'
<1> USE DEF CardIInv, DataBehindCustomKey, AuthenticatesSelected, WriteDone
<1>1. CASE AuthWithDefaultKey(ok)
  BY <1>1 DEF AuthWithDefaultKey, mifare_authenticate, AuthFails, Goto, TypeOK
<1>2. CASE AuthWithCustomKey(ok)
  BY <1>2 DEF AuthWithCustomKey, mifare_authenticate, AuthFails, Goto, TypeOK
<1>3. CASE ConfigCustomKey(ok)
  <2>1. key' \in [Cards -> Keys] /\ \A c \in Cards : key[c] = "custom" => key'[c] = "custom"
    BY <1>3, CardAssumption DEF ConfigCustomKey, configure_custom_key, TypeOK, Keys
  <2>2. /\ card_read_state' # "WRITE_TO_MEMORY_BLOCK"
        /\ card_read_state' \in {"INIT", "AUTH_WITH_CUSTOM_KEY"}
        /\ init_next_state' \in {"AUTH_WITH_DEFAULT_KEY", "AUTH_WITH_CUSTOM_KEY"}
        /\ UNCHANGED <<uid, present, written>>
        /\ selected' \in {selected, NoCard} /\ session' \in {"none", "default"}
    BY <1>3 DEF ConfigCustomKey, configure_custom_key, AuthFails, Goto, TypeOK
  <2>3. QED
    BY <1>3, <2>1, <2>2 DEF ConfigCustomKey, TypeOK
<1>4. CASE WriteToMemoryBlock(ok)
  <2>1. written' = written \/ (written' = written \union {selected} /\ key[selected] = "custom"
                               /\ selected \in Cards)
    BY <1>4 DEF WriteToMemoryBlock, mifare_write_block, TypeOK
  <2>2. QED
    BY <1>4, <2>1 DEF WriteToMemoryBlock, pn532, TypeOK
<1>5. QED
  BY <1>1, <1>2, <1>3, <1>4 DEF Call

LEMMA NextCardIInv == CardIInv /\ [Next]_vars => CardIInv'
<1> SUFFICES ASSUME CardIInv, [Next]_vars PROVE CardIInv'
  OBVIOUS
<1>1. CASE mifare_start
  BY <1>1, MovesIInv, CallIInv DEF mifare_start
<1>2. CASE NfcField
  BY <1>2
  DEF NfcField, pn532, CardIInv, TypeOK, DataBehindCustomKey, AuthenticatesSelected, WriteDone
<1>3. CASE UNCHANGED vars
  BY <1>3
  DEF vars, reader, pn532, CardIInv, TypeOK, DataBehindCustomKey, AuthenticatesSelected, WriteDone
<1>4. QED
  BY <1>1, <1>2, <1>3, MovesIInv DEF Next

(* The inductive invariant of the reader holds.                             *)
THEOREM CardInvariance == Spec => []CardIInv
BY InitCardIInv, NextCardIInv, PTL DEF Spec

(* Types are kept.                                                          *)
THEOREM CardTypes == Spec => []TypeOK
<1>1. CardIInv => TypeOK
  BY DEF CardIInv
<1>2. QED
  BY <1>1, CardInvariance, PTL

(* mifare_start writes new_data only behind the custom key, whatever cards, *)
(* exchanges and resets do (card_reader_manager.c, WRITE_TO_MEMORY_BLOCK).  *)
THEOREM DataIsProtected == Spec => []DataBehindCustomKey
<1>1. CardIInv => DataBehindCustomKey
  BY DEF CardIInv
<1>2. QED
  BY <1>1, CardInvariance, PTL

(* The UID that goes into an authentication is that of the card that        *)
(* answers.                                                                 *)
THEOREM SelectedIsAuthenticated == Spec => []AuthenticatesSelected
<1>1. CardIInv => AuthenticatesSelected
  BY DEF CardIInv
<1>2. QED
  BY <1>1, CardInvariance, PTL
=============================================================================
