------------------------- MODULE BookingExecutorMC -------------------------
(***************************************************************************)
(* Small instances of BookingExecutor for TLC.                              *)
(***************************************************************************)
EXTENDS BookingExecutor, TLC

CONSTANTS b1, b2, p1, p2, customer, admin, system, k1, k2, key1, c1, c2, c3

Ask(action, role, actor, booking) ==
  [action |-> action, role |-> role, actor |-> actor, booking |-> booking,
   target |-> NoOne, code |-> NoCode, key |-> NoKey, expected |-> "NONE"]

ByCustomer(action, b) == Ask(action, "customer", customer, b)
ByAdmin(action, b) == Ask(action, "admin", admin, b)
BySystem(action, b) == Ask(action, "system", system, b)
ByProvider(action, p, b) == Ask(action, "assigned_provider", p, b)

Aimed(r, p) == [r EXCEPT !.target = p]
Coded(r, code) == [r EXCEPT !.code = code]
Keyed(r) == [r EXCEPT !.key = key1]
Expecting(r, state) == [r EXCEPT !.expected = state]

\* Everything that can be asked of one booking.
AllRequests(b) ==
  {Coded(ByCustomer("CUSTOMER_CONFIRM_OTP", b), k1),
   Keyed(ByCustomer("CUSTOMER_CANCEL", b)),
   Expecting(ByCustomer("CUSTOMER_CANCEL", b), "ASSIGNED"),
   ByAdmin("ADMIN_CANCEL", b),
   ByAdmin("ADMIN_APPROVE_COMPLETION", b),
   BySystem("SYSTEM_EXPIRE", b)}
  \cup UNION {
    {Aimed(ByAdmin("ADMIN_ASSIGN", b), p),
     Coded(Aimed(BySystem("AUTO_ASSIGN", b), p), k1),
     Aimed(ByAdmin("ADMIN_REASSIGN", b), p),
     Aimed(ByAdmin("ADMIN_CONFIRM_ASSIGNMENT", b), p),
     ByProvider("PROVIDER_ACCEPT", p, b),
     ByProvider("PROVIDER_DECLINE", p, b),
     ByProvider("PROVIDER_CANCEL", p, b),
     ByProvider("PROVIDER_EN_ROUTE", p, b),
     ByProvider("PROVIDER_ARRIVED", p, b),
     Coded(ByProvider("PROVIDER_START", p, b), k1),
     ByProvider("PROVIDER_COMPLETE", p, b)} : p \in Providers}

CoreRequests == AllRequests(b1)

\* Two bookings that want the same providers.
PairRequests ==
  {ByAdmin("ADMIN_CANCEL", b1)}
  \cup UNION {
    {Coded(Aimed(BySystem("AUTO_ASSIGN", b), p), k1),
     Aimed(ByAdmin("ADMIN_REASSIGN", b), p)} : p \in Providers, b \in Bookings}

OneCustomer == [b \in Bookings |-> customer]
TwoHours == [b \in Bookings |-> 2]

\* With starts 0 and 2: the long job first runs into the other, the short one
\* first ends as the other starts.
LongAndShort == [b \in Bookings |-> IF b = b1 THEN 3 ELSE 2]

AnyOrder == Permutations(Providers) \cup Permutations(Calls)
=============================================================================
