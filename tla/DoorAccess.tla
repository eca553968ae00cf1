----------------------------- MODULE DoorAccess -----------------------------
(***************************************************************************)
(* What the gateway promises about the door, without any of the machinery  *)
(* of ble_fsm.c: a request is decided while the door is shut; an authorised*)
(* request opens the door exactly once and shuts it again, any other one   *)
(* leaves it shut; a restart of the controller shuts the door and forgets  *)
(* the request.                                                            *)
(***************************************************************************)
CONSTANTS Requests,           \* the requests a phone can write
          AuthorisedRequests, \* the ones that open the door
          NoRequest           \* nothing is being decided: not in Requests

VARIABLES request, \* the request being decided
          door,    \* "high" while the door is driven open, else "low"
          opened   \* whether the current request has opened the door

vars == <<request, door, opened>>

TypeOK == /\ request \in Requests \union {NoRequest}
          /\ door \in {"low", "high"}
          /\ opened \in BOOLEAN

Init == request = NoRequest /\ door = "low" /\ opened = FALSE

Submit(r) == /\ request = NoRequest
             /\ request' = r
             /\ UNCHANGED <<door, opened>>

Open == /\ request \in AuthorisedRequests
        /\ ~opened
        /\ opened' = TRUE
        /\ door' = "high"
        /\ UNCHANGED request

Shut == /\ door = "high"
        /\ door' = "low"
        /\ UNCHANGED <<request, opened>>

Finish == /\ request # NoRequest
          /\ door = "low"
          /\ opened = (request \in AuthorisedRequests)
          /\ request' = NoRequest
          /\ opened' = FALSE
          /\ UNCHANGED door

Restart == request' = NoRequest /\ door' = "low" /\ opened' = FALSE

Next == (\E r \in Requests : Submit(r)) \/ Open \/ Shut \/ Finish \/ Restart

Safe == Init /\ [][Next]_vars

Spec == Safe /\ WF_vars(Open) /\ WF_vars(Shut) /\ WF_vars(Finish)
=============================================================================
