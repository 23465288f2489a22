--------------------------- MODULE EventOutboxMC ---------------------------
(***************************************************************************)
(* A small instance of EventOutbox for TLC: a transition that concerns both *)
(* seats of a booking, and a payment published after the fact whose notice  *)
(* has the key of one of theirs.                                            *)
(***************************************************************************)
EXTENDS EventOutbox

CONSTANTS e1, e2, toCustomer, toProvider

WhoIsOwed ==
  [e \in Events |-> IF e = e1 THEN {toCustomer, toProvider} ELSE {toProvider}]
=============================================================================
