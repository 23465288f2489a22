--------------------------- MODULE BookingMachine ---------------------------
(***************************************************************************)
(* What the booking lifecycle promises to everyone who watches a booking:   *)
(* one canonical state and at most one provider per booking, moves only     *)
(* along the whitelist, and no provider committed to two jobs whose spans   *)
(* overlap. No rows, locks, calls or retries: BookingExecutor implements    *)
(* this with them.                                                          *)
(*                                                                         *)
(* The moves are TRANSITIONS of services/booking/canonicalState.ts read     *)
(* without the actors; the promise about spans is                           *)
(* CONFLICTING_BOOKING_SQL of services/booking/eligibilityPipeline.ts.      *)
(***************************************************************************)
EXTENDS BookingStates

CONSTANTS
  Bookings,
  Providers,
  NoOne,       \* bookings.worker_uid IS NULL
  Duration     \* the length of each booking's span

VARIABLES
  state,       \* canonical state of each booking
  provider,    \* who holds it
  schedule     \* when it starts

machineVars == <<state, provider, schedule>>

\* A finished booking keeps its provider but occupies nobody.
Holds(b, p) == provider[b] = p /\ state[b] \notin TerminalStates

FreeFor(b, p) ==
  \A other \in Bookings \ {b} :
    Holds(other, p) =>
      ~SpansOverlap(schedule[other], Duration[other], schedule[b], Duration[b])

Init ==
  /\ state \in [Bookings -> {"PENDING_OTP", "AWAITING_ASSIGNMENT"}]
  /\ provider = [b \in Bookings |-> NoOne]
  /\ schedule \in [Bookings -> Int]

Become(b, from, to) ==
  /\ state[b] \in from
  /\ state' = [state EXCEPT ![b] = to]
  /\ UNCHANGED schedule

Confirm(b) == Become(b, {"PENDING_OTP"}, "AWAITING_ASSIGNMENT") /\ UNCHANGED provider

\* A first assignment, or a hand-over to somebody else.
Assign(b, p) ==
  /\ p # provider[b]
  /\ FreeFor(b, p)
  /\ Become(b, {"AWAITING_ASSIGNMENT"} \cup Cancellable, "ASSIGNED")
  /\ provider' = [provider EXCEPT ![b] = p]

\* The holder moves the job forward, never back.
Advance(b) ==
  /\ \/ Become(b, {"ASSIGNED"}, "ACCEPTED")
     \/ Become(b, {"ACCEPTED"}, "EN_ROUTE")
     \/ Become(b, {"EN_ROUTE"}, "ARRIVED")
     \/ Become(b, OnTheWay, "IN_PROGRESS")
  /\ UNCHANGED provider

Release(b) ==
  /\ Become(b, Cancellable, "AWAITING_ASSIGNMENT")
  /\ provider' = [provider EXCEPT ![b] = NoOne]

Finish(b) ==
  /\ \/ Become(b, {"ASSIGNED", "ACCEPTED", "IN_PROGRESS"}, "COMPLETED")
     \/ Become(b, BookingStates \ TerminalStates, "CANCELLED")
     \/ Become(b, {"PENDING_OTP"}, "EXPIRED")
  /\ UNCHANGED provider

Next ==
  \E b \in Bookings :
    \/ Confirm(b)
    \/ \E p \in Providers : Assign(b, p)
    \/ Advance(b)
    \/ Release(b)
    \/ Finish(b)

Spec == Init /\ [][Next]_machineVars
=============================================================================
