------------------------------ MODULE Exchange ------------------------------
(***************************************************************************)
(* What a call of the PN532 driver promises its caller, and CardReader     *)
(* relies on: a call that reports success has had its own command carried  *)
(* out, and one that reports failure may have had it carried out all the   *)
(* same, even after it returned.                                           *)
(***************************************************************************)

VARIABLES calling, \* a call is on
          carried, \* the command of the last call has been carried out
          result   \* what the last call reported: "none", "success", "failure"

vars == <<calling, carried, result>>

Init == ~calling /\ ~carried /\ result = "none"

Ask == /\ ~calling
       /\ calling' = TRUE
       /\ carried' = FALSE
       /\ result' = "none"

CarryOut == /\ calling \/ result = "failure"
            /\ ~carried
            /\ carried' = TRUE
            /\ UNCHANGED <<calling, result>>

Return(ok) == /\ calling
              /\ ok => carried
              /\ calling' = FALSE
              /\ result' = IF ok THEN "success" ELSE "failure"
              /\ UNCHANGED carried

\* The caller restarts, or asks for something this promise is not about.
Forget == ~calling' /\ ~carried' /\ result' = "none"

Next == Ask \/ CarryOut \/ (\E ok \in BOOLEAN : Return(ok)) \/ Forget

Safe == Init /\ [][Next]_vars

Spec == Safe /\ WF_vars(\E ok \in BOOLEAN : Return(ok))
=============================================================================
