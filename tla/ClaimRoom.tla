----------------------------- MODULE ClaimRoom ------------------------------
(***************************************************************************)
(* What a discussion promises about its claims, without rounds, entries,   *)
(* batches or failures.  A claim is proposed once, is OPEN until the Host  *)
(* closes it, and from then on changes only through requests to reopen it: *)
(* a request is made on a CLOSED claim, each at most once ever, and a      *)
(* ruling on a claim with requests decides all of them together and        *)
(* reopens the claim or leaves it CLOSED.  The room ends, once.            *)
(*                                                                         *)
(* Discussion implements this module.                                      *)
(***************************************************************************)
CONSTANTS Keywords, \* the possible claims
          Request   \* the possible requests to reopen one

VARIABLES status,  \* of each claim
          pending, \* the undecided requests on each claim
          decided, \* the decided ones
          outcome  \* how the room ended

roomVars == <<status, pending, decided, outcome>>

RoomInit ==
    /\ status = [k \in Keywords |-> "ABSENT"]
    /\ pending = [k \in Keywords |-> {}]
    /\ decided = [k \in Keywords |-> {}]
    /\ outcome = "running"

Propose ==
    /\ outcome = "running"
    /\ \E new \in SUBSET {k \in Keywords : status[k] = "ABSENT"} :
          status' = [k \in Keywords |-> IF k \in new THEN "OPEN" ELSE status[k]]
    /\ UNCHANGED <<pending, decided, outcome>>

\* At most one new request for each CLOSED claim, and none for the others.
AskReopen ==
    /\ outcome = "running"
    /\ pending' \in [Keywords -> SUBSET Request]
    /\ \A k \in Keywords :
          \/ pending'[k] = pending[k]
          \/ /\ status[k] = "CLOSED"
             /\ \E r \in pending'[k] \ (pending[k] \cup decided[k]) :
                   pending'[k] = pending[k] \cup {r}
    /\ UNCHANGED <<status, decided, outcome>>

\* One ruling on the claims of ruled: an OPEN one is closed, the requests on
\* a CLOSED one are decided and those of reopened are OPEN again.
Rule ==
    /\ outcome = "running"
    /\ \E closed \in SUBSET {k \in Keywords : status[k] = "OPEN"},
          heard \in SUBSET {k \in Keywords :
                              status[k] = "CLOSED" /\ pending[k] # {}} :
          \E reopened \in SUBSET heard :
             /\ status' = [k \in Keywords |->
                             IF k \in closed THEN "CLOSED"
                             ELSE IF k \in reopened THEN "OPEN"
                             ELSE status[k]]
             /\ pending' = [k \in Keywords |->
                              IF k \in heard THEN {} ELSE pending[k]]
             /\ decided' = [k \in Keywords |->
                              IF k \in heard THEN decided[k] \cup pending[k]
                              ELSE decided[k]]
    /\ UNCHANGED outcome

\* Only a room with a claim can converge.
End ==
    /\ outcome = "running"
    /\ \/ outcome' \in {"limit", "error"}
       \/ /\ \E k \in Keywords : status[k] # "ABSENT"
          /\ outcome' = "converged"
    /\ UNCHANGED <<status, pending, decided>>

RoomNext == Propose \/ AskReopen \/ Rule \/ End

\* The claims live through their lifecycle.
RoomSafety == RoomInit /\ [][RoomNext]_roomVars

\* The room does not go on forever.
RoomSpec == RoomSafety /\ WF_roomVars(End)
=============================================================================
