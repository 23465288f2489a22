------------------------- MODULE BookingCreationMC -------------------------
(***************************************************************************)
(* A small instance of BookingCreation for TLC.                             *)
(***************************************************************************)
EXTENDS BookingCreation, TLC

CONSTANTS customer, admin, k1, k2, morning, evening, d1, c1, c2

OneEach == [s \in Slots |-> 1]
OnlyAdmin == [d \in Drafts |-> admin]
EitherCall == Permutations(Calls) \cup Permutations(Keys)
=============================================================================
