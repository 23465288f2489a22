-------------------------- MODULE RefundReviewsMC --------------------------
(***************************************************************************)
(* A small instance of RefundReviews: a payment of either method, two       *)
(* admins and a customer, two requests at a time, whole and half refunds,   *)
(* a price that is the payment's or half as much again.                     *)
(***************************************************************************)
EXTENDS RefundReviews, TLC

CONSTANTS pay1, anna, ben, carla, c1, c2

AnyNames == Permutations(Admins) \cup Permutations(Calls)
=============================================================================
