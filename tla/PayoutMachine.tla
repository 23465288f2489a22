--------------------------- MODULE PayoutMachine ---------------------------
(***************************************************************************)
(* What a payout promises: the money goes to the processor at most once at  *)
(* a time, what arrived is never sent again, and only what arrived is       *)
(* called released. A transfer that comes back is owed again. An admin who  *)
(* retries a payout on stale sight of it takes it out of these promises.    *)
(***************************************************************************)
CONSTANT Payouts

VARIABLE state

Init == state = [d \in Payouts |-> "owed"]

Move(d, from, to) ==
  /\ state[d] \in from
  /\ state' = [state EXCEPT ![d] = to]

Next ==
  \E d \in Payouts :
    \/ Move(d, {"owed"}, "sent")
    \/ Move(d, {"sent"}, "owed")
    \/ Move(d, {"owed", "sent"}, "arrived")
    \/ Move(d, {"arrived"}, "released")
    \/ Move(d, {"owed", "sent", "arrived", "released"}, "overruled")

Spec == Init /\ [][Next]_state
=============================================================================
