--------------------------- MODULE RequestContract ---------------------------
(***************************************************************************)
(* What a server promises for the requests it receives: a request is       *)
(* answered once, by a return or by an error, or it is given up without an *)
(* answer because code of the user let go of it; nothing happens to it     *)
(* after that.                                                             *)
(***************************************************************************)
CONSTANT Requests

VARIABLE status

Outcome == {"return", "error", "dropped"}
Status  == {"unsent", "pending"} \cup Outcome

Init == status = [r \in Requests |-> "unsent"]

Arrive(r) == /\ status[r] = "unsent"
             /\ status' = [status EXCEPT ![r] = "pending"]

Finish(r) == /\ status[r] = "pending"
             /\ \E o \in Outcome : status' = [status EXCEPT ![r] = o]

Next == \/ \E r \in Requests : Arrive(r) \/ Finish(r)
        \* a server that goes away lets go of several requests at once
        \/ \E gone \in SUBSET {r \in Requests : status[r] = "pending"} :
              status' = [r \in Requests |-> IF r \in gone THEN "dropped" ELSE status[r]]

Spec == Init /\ [][Next]_status
=============================================================================
