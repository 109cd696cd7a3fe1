-------------------------------- MODULE Orders --------------------------------
(***************************************************************************)
(* What a user may expect of what was confirmed, in the modal of a transfer*)
(* or the dialog of a conversion: it is asked of the server at most once,  *)
(* in the terms that were confirmed and in no others, and not any more     *)
(* once the user was told that it failed.                                  *)
(***************************************************************************)
CONSTANTS Ids, Terms, Nothing

VARIABLE order

Free == [at |-> "none"]

OrdersInit == order = [i \in Ids |-> Free]

Confirmed(terms) == [at |-> "confirmed", terms |-> terms, posted |-> Nothing]

(* The terms are any: they are read off the order that is made.            *)
Confirm(i) ==
    /\ order[i] = Free
    /\ order'[i].at = "confirmed" /\ order'[i].terms \in Terms
    /\ order' = [order EXCEPT ![i] = Confirmed(order'[i].terms)]

Post(i) ==
    /\ order[i].at = "confirmed"
    /\ order' = [order EXCEPT ![i] =
          [at |-> "posted", terms |-> order[i].terms,
           posted |-> order[i].terms]]

(* With an answer, or before there was one.                                *)
End(i) ==
    /\ order[i].at \in {"confirmed", "posted"}
    /\ order' = [order EXCEPT ![i] =
          [at |-> "over", terms |-> order[i].terms,
           posted |-> order[i].posted]]

OrdersNext == \E i \in Ids : Confirm(i) \/ Post(i) \/ End(i)

OrdersSteps == OrdersInit /\ [][OrdersNext]_order
=============================================================================
