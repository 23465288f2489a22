-------------------------- MODULE BookingDisputes --------------------------
(***************************************************************************)
(* Disputes next to the executor. booking_escalations is one table with two *)
(* writers, openDispute (bookingDisputeService.ts, any party) and           *)
(* adminEscalateBooking (adminBookingService.ts), and a partial unique index*)
(* that allows one unresolved row per booking. Nothing in the code base     *)
(* writes resolved_at, so an open dispute stays open here.                  *)
(*                                                                         *)
(* Readers derive the canonical state from that table; the executor looks   *)
(* for a DISPUTED row in booking_transitions.                               *)
(***************************************************************************)
EXTENDS BookingExecutor

CONSTANT Reporters   \* openDispute calls in flight

VARIABLES
  open,      \* bookings with an unresolved booking_escalations row
  filing     \* the bookings each reporter has been cleared to dispute

disputeVars == <<open, filing>>
allVars == <<vars, disputeVars>>

DISPUTABLE_STATES == OnTheWay \cup {"IN_PROGRESS", "COMPLETED", "CANCELLED", "DISPUTED"}

\* What every reader shows: loadBookingFacts, the admin list, the job cards.
ReadersState(b) ==
  DeriveCanonicalState(status[b], AssignmentStatus(b), workerUid[b] # NoOne, b \in open)

\* The unlocked policy check, then the insert.
JudgeDispute(d, b) ==
  /\ filing[d] = {}
  /\ b \notin open
  /\ ReadersState(b) \in DISPUTABLE_STATES
  /\ filing' = [filing EXCEPT ![d] = {b}]
  /\ UNCHANGED <<vars, open>>

\* The second of two inserts meets the unique index and reports ALREADY_OPEN.
InsertDispute(d) ==
  /\ filing[d] # {}
  /\ open' = open \cup filing[d]
  /\ filing' = [filing EXCEPT ![d] = {}]
  /\ UNCHANGED vars

\* An admin escalates in any state; on an open dispute the index refuses.
AdminEscalate(b) ==
  /\ b \notin open
  /\ open' = open \cup {b}
  /\ UNCHANGED <<vars, filing>>

DisputeSpec ==
  /\ Init /\ open = {} /\ filing = [d \in Reporters |-> {}]
  /\ [][\/ Next /\ UNCHANGED disputeVars
        \/ \E d \in Reporters, b \in Bookings : JudgeDispute(d, b)
        \/ \E d \in Reporters : InsertDispute(d)
        \/ \E b \in Bookings : AdminEscalate(b)]_allVars

\* "An escalation makes the booking DISPUTED. Read inside the same transaction
\* so a dispute raised concurrently cannot be missed by this decision"
\* (transitionExecutor.ts, loadForUpdate): a decision on an escalated booking
\* is made on the state DISPUTED.
DisputeNotMissed ==
  [][\A c \in Calls :
       Decide(c) /\ request[c].booking \in open => loaded'[c].state = "DISPUTED"]_allVars
=============================================================================
