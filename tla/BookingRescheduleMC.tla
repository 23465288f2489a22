------------------------ MODULE BookingRescheduleMC ------------------------
(***************************************************************************)
(* Small instances of BookingReschedule for TLC.                            *)
(***************************************************************************)
EXTENDS BookingReschedule, BookingExecutorMC

CONSTANTS m1, m2

\* Two bookings after the same provider, while both are being moved.
MoveRequests ==
  {ByProvider("PROVIDER_CANCEL", p1, b1), ByProvider("PROVIDER_ACCEPT", p1, b1)}
  \cup {Aimed(BySystem("AUTO_ASSIGN", b), p1) : b \in Bookings}

MoverOrder == AnyOrder \cup Permutations(Movers)
=============================================================================
