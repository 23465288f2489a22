------------------------- MODULE BookingReschedule -------------------------
(***************************************************************************)
(* Moving a booking in time, next to the executor that moves it through its *)
(* lifecycle. Both write the same bookings row; only the executor takes the *)
(* provider advisory lock.                                                  *)
(*                                                                         *)
(*   rescheduleBooking        read, judge, look at the provider's calendar, *)
(*     (bookingRescheduleService.ts)   compare-and-set on the schedule read *)
(*   adminRescheduleBooking   read the status word, overwrite               *)
(*     (adminBookingService.ts)                                             *)
(*                                                                         *)
(* Neither runs in a transaction: each statement commits on its own, and    *)
(* its UPDATE waits for a transition that holds the row FOR UPDATE.         *)
(***************************************************************************)
EXTENDS BookingExecutor

CONSTANTS
  Movers,      \* reschedule calls in flight
  NoMove

VARIABLES
  moveStage,   \* where each reschedule is
  move         \* what it asks and what it read

moveVars == <<moveStage, move>>
allVars == <<vars, moveVars>>

RESCHEDULABLE_STATES == {"PENDING_OTP", "AWAITING_ASSIGNMENT"} \cup Cancellable

MoveType ==
  [booking : Bookings, to : Starts, seen : Starts,
   provider : Providers \cup {NoOne}, blind : BOOLEAN]

\* providerHasConflict: the span at the PROPOSED start against the jobs the
\* provider has now.
Collides(b, to, p) ==
  \E other \in Bookings \ {b} :
    /\ Occupies(other, p)
    /\ SpansOverlap(schedule[other], Duration[other], to, Duration[b])

Begin(m, b, to, seen, at, blind) ==
  /\ moveStage[m] = "idle"
  /\ moveStage' = [moveStage EXCEPT ![m] = at]
  /\ move' = [move EXCEPT ![m] = [booking |-> b, to |-> to, seen |-> seen,
                                  provider |-> workerUid[b], blind |-> blind]]
  /\ UNCHANGED vars

\* The unlocked read and evaluateReschedule. A state it refuses changes nothing.
\* The UPDATE will expect the schedule read here, or the one the caller sent.
ReadForMove(m, b, to, expectedSchedule) ==
  /\ CanonicalState(b) \in RESCHEDULABLE_STATES
  /\ Begin(m, b, to, expectedSchedule, "read", FALSE)

\* adminRescheduleBooking looks at the status word alone.
ReadForAdminMove(m, b, to) ==
  /\ status[b] \notin {"COMPLETED", "CANCELLED"}
  /\ Begin(m, b, to, schedule[b], "checked", TRUE)

\* The calendar of the provider that was READ; none to look at without one.
CheckCalendar(m) ==
  /\ moveStage[m] = "read"
  /\ move[m].provider # NoOne => ~Collides(move[m].booking, move[m].to, move[m].provider)
  /\ moveStage' = [moveStage EXCEPT ![m] = "checked"]
  /\ UNCHANGED <<vars, move>>

EndMove(m) ==
  /\ moveStage' = [moveStage EXCEPT ![m] = "idle"]
  /\ move' = [move EXCEPT ![m] = NoMove]

\* A busy provider, or a notice window, lead bound or reason outside the model.
RefuseMove(m) ==
  /\ moveStage[m] = "read"
  /\ EndMove(m)
  /\ UNCHANGED vars

\* The UPDATE: compare-and-set on the expected schedule, except for the admin's.
StillThere(m) == move[m].blind \/ schedule[move[m].booking] = move[m].seen

ApplyMove(m) ==
  /\ moveStage[m] = "checked"
  /\ RowFree(move[m].booking)
  /\ StillThere(m)
  /\ schedule' = [schedule EXCEPT ![move[m].booking] = move[m].to]
  /\ EndMove(m)
  /\ UNCHANGED <<status, workerUid, workerCode, otpCode, newest, earlier, toState, idem, callVars>>

\* SCHEDULE_CHANGED.
LoseMove(m) ==
  /\ moveStage[m] = "checked"
  /\ RowFree(move[m].booking)
  /\ ~StillThere(m)
  /\ EndMove(m)
  /\ UNCHANGED vars

\* The process dies between two statements: what is written stays written.
CrashMove(m) ==
  /\ moveStage[m] # "idle"
  /\ EndMove(m)
  /\ UNCHANGED vars

SettleMove(m) == CheckCalendar(m) \/ RefuseMove(m) \/ ApplyMove(m) \/ LoseMove(m)

MoveInit == moveStage = [m \in Movers |-> "idle"] /\ move = [m \in Movers |-> NoMove]

ServiceMove ==
  \E m \in Movers :
    \/ \E b \in Bookings, to, seen \in Starts : ReadForMove(m, b, to, seen)
    \/ SettleMove(m)
    \/ CrashMove(m)

AdminMove == \E m \in Movers, b \in Bookings, to \in Starts : ReadForAdminMove(m, b, to)

Transition == Next /\ UNCHANGED moveVars

\* rescheduleBooking and the executor; then the admin's overwrite as well.
ServiceSpec == Init /\ MoveInit /\ [][Transition \/ ServiceMove]_allVars

MoveSpec == Init /\ MoveInit /\ [][Transition \/ ServiceMove \/ AdminMove]_allVars

(***************************************************************************)
(* Properties.                                                              *)
(***************************************************************************)
MoveTypeOK ==
  /\ moveStage \in [Movers -> {"idle", "read", "checked"}]
  /\ move \in [Movers -> MoveType \cup {NoMove}]
  /\ \A m \in Movers : IF moveStage[m] = "idle" THEN move[m] = NoMove ELSE move[m] \in MoveType

\* The guards of a transition measure against the schedule in the row they
\* hold: it stands still from the locked read to the COMMIT, however many
\* reschedules are under way.
ScheduleHeldStill ==
  [][\A c \in Calls :
       stage[c] \in {"decided", "cleared"} =>
         schedule'[request[c].booking] = schedule[request[c].booking]]_allVars
=============================================================================
