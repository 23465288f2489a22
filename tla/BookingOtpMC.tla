---------------------------- MODULE BookingOtpMC ----------------------------
(***************************************************************************)
(* A small instance of BookingOtp for TLC: a booking that is confirmed, then *)
(* assigned, declined and assigned again.                                   *)
(***************************************************************************)
EXTENDS BookingOtp, BookingExecutorMC

CONSTANT i1

CodeRequests ==
  {Coded(ByCustomer("CUSTOMER_CONFIRM_OTP", b1), k1),
   Coded(Aimed(BySystem("AUTO_ASSIGN", b1), p1), k1),
   ByProvider("PROVIDER_DECLINE", p1, b1),
   Coded(ByProvider("PROVIDER_START", p1, b1), k1),
   Coded(ByProvider("PROVIDER_START", p1, b1), k2)}
=============================================================================
