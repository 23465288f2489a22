--------------------------- MODULE PaymentMachine ---------------------------
(***************************************************************************)
(* What a payment promises: it is captured at most once, by one charge, and *)
(* from there only a refund moves it. A refund that is turned down leaves   *)
(* it captured; one that went through is final.                             *)
(***************************************************************************)
CONSTANTS
  Payments,
  Charges,    \* the processor's ids of the money it took
  NoCharge

VARIABLES
  state,
  charge      \* the charge the payment stands for

Init ==
  /\ state = [p \in Payments |-> "unpaid"]
  /\ charge = [p \in Payments |-> NoCharge]

Capture(p, ch) ==
  /\ state[p] = "unpaid"
  /\ state' = [state EXCEPT ![p] = "paid"]
  /\ charge' = [charge EXCEPT ![p] = ch]

Move(p, from, to) ==
  /\ state[p] \in from
  /\ state' = [state EXCEPT ![p] = to]
  /\ UNCHANGED charge

Next ==
  \E p \in Payments :
    \/ \E ch \in Charges : Capture(p, ch)
    \/ Move(p, {"paid"}, "refunding")
    \/ Move(p, {"refunding"}, "paid")
    \/ Move(p, {"paid", "refunding"}, "refunded")

Spec == Init /\ [][Next]_<<state, charge>>
=============================================================================
