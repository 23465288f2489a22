---------------------- MODULE BookingRescheduleProofs ----------------------
(***************************************************************************)
(* Proofs about the executor and the reschedules together, for any number   *)
(* of both. A move writes one booking's schedule and only while no          *)
(* transition holds that booking's row; a transition writes no schedule.    *)
(* So neither disturbs what the other decides on, the calendar apart.       *)
(***************************************************************************)
EXTENDS BookingReschedule, BookingExecutorProofs

MoveInv == TypeOK /\ MoveTypeOK

MoveNext == Transition \/ ServiceMove \/ AdminMove

\* No action of the executor writes a schedule.
LEMMA ExecutorKeepsSchedule == TypeOK /\ [Next]_vars => UNCHANGED schedule
<1> SUFFICES ASSUME TypeOK, [Next]_vars PROVE schedule' = schedule
  OBVIOUS
<1>1. ASSUME NEW c \in Calls, NEW r \in Requests, Call(c, r) PROVE schedule' = schedule
  BY <1>1 DEF Call, bookingVars
<1>2. ASSUME NEW c \in Calls, Decide(c) \/ ClearTarget(c) PROVE schedule' = schedule
  BY <1>2 DEF Decide, ClearTarget, bookingVars
<1>3. ASSUME NEW c \in Calls, Refuse(c) \/ RefuseTarget(c) \/ RefuseWrite(c) \/ Crash(c)
      PROVE  schedule' = schedule
  BY <1>3, RefusalEnds DEF bookingVars
<1>4. ASSUME NEW c \in Calls, Commit(c) PROVE schedule' = schedule
  BY <1>4, CommitRecords
<1>5. CASE UNCHANGED vars
  BY <1>5 DEF vars, bookingVars
<1> QED BY <1>1, <1>2, <1>3, <1>4, <1>5 DEF Next, Settle

\* A reschedule in flight is typed, and goes on to a stage it has.
LEMMA MoveEnds ==
  ASSUME MoveTypeOK, NEW m \in Movers, EndMove(m) PROVE MoveTypeOK'
<1>1. moveStage' \in [Movers -> {"idle", "read", "checked"}] /\ move' \in [Movers -> MoveType \cup {NoMove}]
  BY DEF MoveTypeOK, EndMove
<1>2. \A n \in Movers : IF moveStage'[n] = "idle" THEN move'[n] = NoMove ELSE move'[n] \in MoveType
  BY DEF MoveTypeOK, EndMove
<1> QED BY <1>1, <1>2 DEF MoveTypeOK

LEMMA MoveBegins ==
  ASSUME MoveInv, NEW m \in Movers, NEW b \in Bookings, NEW to \in Starts, NEW seen \in Starts,
         NEW at \in {"read", "checked"}, NEW blind \in BOOLEAN, Begin(m, b, to, seen, at, blind)
  PROVE  MoveInv'
<1> DEFINE q == [booking |-> b, to |-> to, seen |-> seen, provider |-> workerUid[b], blind |-> blind]
<1>1. q \in MoveType
  BY DEF MoveInv, TypeOK, MoveType
<1>2. move' = [move EXCEPT ![m] = q] /\ moveStage' = [moveStage EXCEPT ![m] = at]
  BY DEF Begin
<1> HIDE DEF q
<1>3. moveStage' \in [Movers -> {"idle", "read", "checked"}] /\ move' \in [Movers -> MoveType \cup {NoMove}]
  BY <1>1, <1>2 DEF MoveInv, MoveTypeOK
<1>4. \A n \in Movers : IF moveStage'[n] = "idle" THEN move'[n] = NoMove ELSE move'[n] \in MoveType
  BY <1>1, <1>2 DEF MoveInv, MoveTypeOK
<1>5. TypeOK'
  BY TypeStep DEF Begin, MoveInv
<1> QED BY <1>3, <1>4, <1>5 DEF MoveInv, MoveTypeOK

\* What a reschedule does to the booking's columns.
LEMMA MoveApplies ==
  ASSUME MoveInv, NEW m \in Movers, ApplyMove(m)
  PROVE  /\ MoveInv' /\ move[m].booking \in Bookings
         /\ schedule' = [schedule EXCEPT ![move[m].booking] = move[m].to]
<1>1. move[m].booking \in Bookings /\ move[m].to \in Starts
  BY DEF MoveInv, MoveTypeOK, ApplyMove, MoveType
<1>2. schedule' = [schedule EXCEPT ![move[m].booking] = move[m].to] /\ MoveTypeOK'
  BY MoveEnds DEF ApplyMove, MoveInv
<1>3. TypeOK'
  BY <1>1, <1>2 DEF ApplyMove, MoveInv, TypeOK, callVars
<1> QED BY <1>1, <1>2, <1>3 DEF MoveInv

LEMMA MoveStep == MoveInv /\ [MoveNext]_allVars => MoveInv'
<1> SUFFICES ASSUME MoveInv, [MoveNext]_allVars PROVE MoveInv'
  OBVIOUS
<1>1. CASE Transition
  BY <1>1, TypeStep DEF Transition, moveVars, MoveInv, MoveTypeOK
<1>2. ASSUME NEW m \in Movers, NEW b \in Bookings, NEW to \in Starts, NEW seen \in Starts,
             ReadForMove(m, b, to, seen)
      PROVE  MoveInv'
  BY <1>2, MoveBegins DEF ReadForMove
<1>3. ASSUME NEW m \in Movers, NEW b \in Bookings, NEW to \in Starts, ReadForAdminMove(m, b, to)
      PROVE  MoveInv'
  <2>1. schedule[b] \in Starts
    BY DEF MoveInv, TypeOK
  <2> QED BY <1>3, <2>1, MoveBegins DEF ReadForAdminMove
<1>4. ASSUME NEW m \in Movers, CheckCalendar(m) PROVE MoveInv'
  <2>1. TypeOK'
    BY <1>4, TypeStep DEF CheckCalendar, MoveInv
  <2>2. MoveTypeOK'
    BY <1>4 DEF CheckCalendar, MoveInv, MoveTypeOK
  <2> QED BY <2>1, <2>2 DEF MoveInv
<1>5. ASSUME NEW m \in Movers, RefuseMove(m) \/ LoseMove(m) \/ CrashMove(m) PROVE MoveInv'
  BY <1>5, TypeStep, MoveEnds DEF RefuseMove, LoseMove, CrashMove, MoveInv
<1>6. ASSUME NEW m \in Movers, ApplyMove(m) PROVE MoveInv'
  BY <1>6, MoveApplies
<1>7. CASE UNCHANGED allVars
  BY <1>7, TypeStep DEF allVars, moveVars, MoveInv, MoveTypeOK
<1> QED BY <1>1, <1>2, <1>3, <1>4, <1>5, <1>6, <1>7 DEF MoveNext, ServiceMove, SettleMove, AdminMove

\* Reschedules leave every table of the executor typed, and are typed themselves.
THEOREM MovesTyped == MoveSpec => []MoveInv
<1>1. Init /\ MoveInit => MoveInv
  BY TypeInit DEF MoveInit, MoveInv, MoveTypeOK
<1> QED BY <1>1, MoveStep, PTL DEF MoveSpec, MoveNext

\* However many reschedules run, of whatever bookings, none writes the schedule of a
\* booking while a transition measures its notice window or its span against it.
THEOREM ScheduleStandsStill == MoveSpec => ScheduleHeldStill
<1> DEFINE Still ==
      \A c \in Calls : stage[c] \in {"decided", "cleared"} =>
        schedule'[request[c].booking] = schedule[request[c].booking]
<1>1. ASSUME MoveInv, [MoveNext]_allVars PROVE [Still]_allVars
  <2>1. CASE Transition
    BY <1>1, <2>1, ExecutorKeepsSchedule DEF Transition, MoveInv
  <2>2. ASSUME NEW m \in Movers, ApplyMove(m) PROVE Still
    <3> SUFFICES ASSUME NEW c \in Calls, stage[c] \in {"decided", "cleared"}
                 PROVE  schedule'[request[c].booking] = schedule[request[c].booking]
      OBVIOUS
    <3>1. request[c].booking # move[m].booking
      BY <2>2 DEF ApplyMove, RowFree, HoldsRow
    <3>2. stage[c] # "idle" /\ request[c].booking \in Bookings
      BY <1>1, RequestFields DEF MoveInv
    <3>3. schedule' = [schedule EXCEPT ![move[m].booking] = move[m].to] /\ schedule \in [Bookings -> Starts]
      BY <1>1, <2>2, MoveApplies DEF MoveInv, TypeOK
    <3> QED BY <3>1, <3>2, <3>3
  <2>3. CASE UNCHANGED vars
    BY <2>3 DEF vars, bookingVars
  <2>4. ASSUME ServiceMove \/ AdminMove, ~\E n \in Movers : ApplyMove(n)
        PROVE  UNCHANGED vars
    BY <2>4 DEF ServiceMove, SettleMove, AdminMove, ReadForMove, ReadForAdminMove, Begin,
       CheckCalendar, RefuseMove, LoseMove, CrashMove
  <2>5. CASE UNCHANGED allVars
    BY <2>5
  <2> QED BY <1>1, <2>1, <2>2, <2>3, <2>4, <2>5 DEF MoveNext, ServiceMove, AdminMove
<1> QED BY <1>1, MovesTyped, PTL DEF MoveSpec, MoveNext, ScheduleHeldStill

(***************************************************************************)
(* What a reschedule leaves the executor. It takes no provider lock, so of  *)
(* the executor's invariant only the half that the row lock carries can     *)
(* survive, and all of it does: decisions stay current, the columns and     *)
(* rows go on telling one story. The calendar half does not: a schedule may *)
(* be written between an assignment's conflict query and its commit.        *)
(***************************************************************************)
BookingInv == DecisionInv /\ TablesInv /\ CodeNeedsHolder /\ StillEntitled

\* None of it looks at a schedule.
LEMMA ScheduleIsNotRead ==
  ASSUME BookingInv, TypeOK', UNCHANGED callVars,
         UNCHANGED <<status, workerUid, workerCode, newest, earlier, toState>>
  PROVE  /\ BookingInv'
         /\ \A b \in Bookings : CanonicalState(b)' = CanonicalState(b)
<1>1. UNCHANGED stage /\ UNCHANGED request /\ UNCHANGED loaded
  BY DEF callVars
<1>2. LocksExclusive' /\ DecisionLegal' /\ NoDisputedRow' /\ TargetNamed' /\ NotSameTarget'
  BY <1>1 DEF BookingInv, DecisionInv, TablesInv, LocksExclusive, HoldsRow, HoldsProvider,
     DecisionLegal, NoDisputedRow, TargetNamed, NotSameTarget
<1>3. DecisionStillCurrent'
  BY <1>1 DEF BookingInv, DecisionInv, DecisionStillCurrent, Snapshot, CanonicalState,
     AssignmentStatus, HasEscalation
<1>4. \A b \in Bookings : CanonicalState(b)' = CanonicalState(b)
  BY DEF CanonicalState, AssignmentStatus, HasEscalation
<1>5. \A b \in Bookings : RowsAgree(b)' /\ OthersClosed(b)'
  BY DEF BookingInv, TablesInv, RowsAgree, OthersClosed
<1>6. TimelineAgrees'
  BY <1>4 DEF BookingInv, TablesInv, TimelineAgrees
<1>7. CodeNeedsHolder' /\ StillEntitled'
  BY <1>1 DEF BookingInv, CodeNeedsHolder, StillEntitled, Authorized
<1> QED BY <1>2, <1>3, <1>4, <1>5, <1>6, <1>7 DEF BookingInv, DecisionInv, TablesInv

LEMMA BookingStep == BookingInv /\ [Next]_vars => BookingInv'
<1> SUFFICES ASSUME BookingInv, [Next]_vars PROVE BookingInv'
  OBVIOUS
<1>1. DecisionInv /\ TablesInv /\ CodeNeedsHolder /\ StillEntitled
  BY DEF BookingInv
<1>2. DecisionInv'
  BY <1>1, DecisionStep
<1> QED BY <1>1, <1>2, TablesStep, CodeStep, EntitledStep DEF BookingInv

\* A step of the whole moves the executor, or a schedule, or no table at all.
LEMMA WholeStep ==
  ASSUME MoveInv, [MoveNext]_allVars
  PROVE  \/ [Next]_vars
         \/ /\ UNCHANGED callVars
            /\ UNCHANGED <<status, workerUid, workerCode, newest, earlier, toState>>
<1>1. CASE Transition
  BY <1>1 DEF Transition
<1>2. ASSUME NEW m \in Movers, ApplyMove(m)
      PROVE  /\ UNCHANGED callVars
             /\ UNCHANGED <<status, workerUid, workerCode, newest, earlier, toState>>
  BY <1>2 DEF ApplyMove
<1>3. ASSUME ServiceMove \/ AdminMove, ~\E n \in Movers : ApplyMove(n)
      PROVE  UNCHANGED vars
  BY <1>3 DEF ServiceMove, SettleMove, AdminMove, ReadForMove, ReadForAdminMove, Begin,
     CheckCalendar, RefuseMove, LoseMove, CrashMove
<1>4. CASE UNCHANGED allVars
  BY <1>4 DEF allVars
<1> QED BY <1>1, <1>2, <1>3, <1>4 DEF MoveNext

LEMMA BookingsHold == MoveSpec => []BookingInv
<1>1. Init => BookingInv
  <2>1. Init => DecisionInv
    BY InvInit, InvariantHalves
  <2> QED BY <2>1, TablesInit, CodeInit, EntitledInit DEF BookingInv
<1>2. BookingInv /\ MoveInv /\ MoveInv' /\ [MoveNext]_allVars => BookingInv'
  BY WholeStep, BookingStep, ScheduleIsNotRead DEF MoveInv
<1> QED BY <1>1, <1>2, MovesTyped, PTL DEF MoveSpec, MoveNext

\* However often bookings are moved in time, and whatever the admin overwrites, a
\* transition commits on what it read, under an authorization that still stands.
THEOREM MovesSpareDecisions == MoveSpec => [](DecisionStillCurrent /\ StillEntitled)
<1>1. BookingInv => DecisionStillCurrent /\ StillEntitled
  BY DEF BookingInv, DecisionInv
<1> QED BY <1>1, BookingsHold, PTL

\* Nor do they part the pointer, the assignment rows, the timeline and the start code.
THEOREM MovesSpareTables == MoveSpec => [](OnlyTheHolderIsLive /\ TimelineAgrees /\ CodeNeedsHolder)
<1>1. BookingInv => OnlyTheHolderIsLive /\ TimelineAgrees /\ CodeNeedsHolder
  BY TablesSayWhoIsLive DEF BookingInv, TablesInv
<1> QED BY <1>1, BookingsHold, PTL

\* A reschedule in flight when its booking finishes may still write the schedule of a
\* finished job, but brings neither the job back nor another provider to it.
THEOREM MovesReviveNothing == MoveSpec => FinishedForGood
<1>1. ASSUME BookingInv, BookingInv', MoveInv, [MoveNext]_allVars
      PROVE  [\A b \in Bookings : StaysFinished(b)]_vars
  <2>1. CASE [Next]_vars
    BY <1>1, <2>1, FinishedStep DEF BookingInv
  <2>2. CASE /\ UNCHANGED callVars
             /\ UNCHANGED <<status, workerUid, workerCode, newest, earlier, toState>>
    BY <2>2 DEF StaysFinished, CanonicalState, AssignmentStatus, HasEscalation
  <2> QED BY <1>1, <2>1, <2>2, WholeStep
<1>2. BookingInv /\ BookingInv' /\ MoveInv /\ [MoveNext]_allVars
        => [\A b \in Bookings : StaysFinished(b)]_vars
  BY <1>1
<1> QED BY <1>2, BookingsHold, MovesTyped, PTL DEF MoveSpec, MoveNext, FinishedForGood, StaysFinished

\* Nor does a booking change its state or its hands by being moved: under any number of
\* reschedules every such change is still a whitelisted move of somebody entitled to it.
THEOREM MovesStayEntitled == MoveSpec => EveryMoveIsEntitled
<1> DEFINE Entitled ==
      \A b \in Bookings :
        (CanonicalState(b)' # CanonicalState(b) \/ workerUid'[b] # workerUid[b]) => EntitledMove(b)
<1>1. ASSUME BookingInv, BookingInv', MoveInv, [MoveNext]_allVars
      PROVE  [Entitled]_vars
  <2>1. CASE [Next]_vars
    BY <1>1, <2>1, MoveIsEntitled DEF BookingInv
  <2>2. CASE /\ UNCHANGED callVars
             /\ UNCHANGED <<status, workerUid, workerCode, newest, earlier, toState>>
    BY <2>2 DEF CanonicalState, AssignmentStatus, HasEscalation
  <2> QED BY <1>1, <2>1, <2>2, WholeStep
<1>2. BookingInv /\ BookingInv' /\ MoveInv /\ [MoveNext]_allVars => [Entitled]_vars
  BY <1>1
<1> QED BY <1>2, BookingsHold, MovesTyped, PTL DEF MoveSpec, MoveNext, EveryMoveIsEntitled
=============================================================================
