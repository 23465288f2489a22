------------------------- MODULE BookingDisputesMC -------------------------
(***************************************************************************)
(* A small instance of BookingDisputes for TLC: the provider's own road from *)
(* an assignment to a completed job, with a dispute raised on the way.      *)
(***************************************************************************)
EXTENDS BookingDisputes, BookingExecutorMC

CONSTANT d1

RoadRequests ==
  {Aimed(ByAdmin("ADMIN_ASSIGN", b1), p1),
   ByProvider("PROVIDER_ACCEPT", p1, b1),
   ByProvider("PROVIDER_EN_ROUTE", p1, b1),
   ByProvider("PROVIDER_CANCEL", p1, b1)}

=============================================================================
