----------------------- MODULE BookingExecutorProofs -----------------------
(***************************************************************************)
(* Proofs about BookingExecutor for any number of bookings, providers and   *)
(* calls, and any set of requests.                                          *)
(***************************************************************************)
EXTENDS BookingExecutor, TLAPS

(***************************************************************************)
(* The derivation.                                                          *)
(***************************************************************************)
\* deriveCanonicalState answers with a canonical state for every pair of
\* columns that can be stored.
LEMMA DeriveType ==
  ASSUME NEW bs \in BookingStatuses, NEW ws \in RowStatuses \cup {"NONE"},
         NEW hw \in BOOLEAN, NEW he \in BOOLEAN
  PROVE  DeriveCanonicalState(bs, ws, hw, he) \in BookingStates
BY DEF DeriveCanonicalState, BookingStates, ProviderStages, OnTheWay

\* A finished status word decides, whatever the assignment row says.
LEMMA FinishedWordDecides ==
  ASSUME NEW bs \in NON_OCCUPYING_STATUSES, NEW ws, NEW hw
  PROVE  DeriveCanonicalState(bs, ws, hw, FALSE) \in TerminalStates
BY DEF DeriveCanonicalState, NON_OCCUPYING_STATUSES, TerminalStates

\* No action leaves a finished state: the whitelist's only way out leads to
\* DISPUTED, and no action does.
LEMMA NothingLeavesTerminal ==
  ASSUME NEW r, NEW from \in TerminalStates
  PROVE  ~Permitted(r, from)
BY DEF Permitted, CanTransition, Destination, TerminalStates, Cancellable, OnTheWay,
       ReleaseActions, AssignActions, AcceptActions, CompleteActions, CancelActions

\* The destination of an action is a state, and never DISPUTED.
LEMMA DestinationType ==
  ASSUME NEW a
  PROVE  Destination(a) \in BookingStates \ {"DISPUTED", "NONE"}
BY DEF Destination, BookingStates, ReleaseActions, AssignActions, AcceptActions,
       CompleteActions, CancelActions

LEMMA CanonicalType ==
  ASSUME TypeOK, NEW b \in Bookings
  PROVE  CanonicalState(b) \in BookingStates
<1>1. AssignmentStatus(b) \in RowStatuses \cup {"NONE"}
  BY DEF AssignmentStatus, TypeOK
<1>2. status[b] \in BookingStatuses
  BY DEF TypeOK
<1> QED BY <1>1, <1>2, DeriveType DEF CanonicalState, HasEscalation

(***************************************************************************)
(* Type correctness.                                                        *)
(***************************************************************************)
\* A call that is under way carries a request, and its fields have their types.
LEMMA RequestFields ==
  ASSUME TypeOK, NEW c \in Calls, stage[c] # "idle"
  PROVE  /\ request[c] \in Requests
         /\ request[c] # NoRequest
         /\ request[c].booking \in Bookings
         /\ request[c].target \in Providers \cup {NoOne}
         /\ request[c].code \in Codes \cup {NoCode}
<1>1. request[c] \in Requests
  BY NullsAssumption DEF TypeOK
<1> QED BY <1>1, RequestsAssumption, NullsAssumption DEF RequestType

LEMMA UnreadType ==
  Unread \in [status : BookingStatuses \cup {"NONE"}, provider : Providers \cup {NoOne},
              state : BookingStates \cup {"NONE"}]
BY DEF Unread

\* Ending a call leaves every call well typed, and idle calls without a request.
LEMMA EndType ==
  ASSUME TypeOK, NEW c \in Calls, End(c)
  PROVE  /\ stage' \in [Calls -> Stages]
         /\ request' \in [Calls -> Requests \cup {NoRequest}]
         /\ loaded' \in [Calls -> [status : BookingStatuses \cup {"NONE"},
                                  provider : Providers \cup {NoOne},
                                  state : BookingStates \cup {"NONE"}]]
         /\ \A d \in Calls : (stage'[d] = "idle") <=> (request'[d] = NoRequest)
BY UnreadType DEF TypeOK, End, Stages

\* The writes that end every commit are well typed.
LEMMA RecordType ==
  ASSUME TypeOK, NEW c \in Calls, stage[c] # "idle",
         NEW to \in BookingStates \cup {"NONE"}, Record(c, to)
  PROVE  /\ toState' \in [Bookings -> BookingStates \cup {"NONE"}]
         /\ idem' \subseteq Requests
         /\ End(c)
<1>1. toState' = [toState EXCEPT ![request[c].booking] = to]
  BY DEF Record
<1>2. idem' \subseteq idem \cup {request[c]}
  BY DEF Record
<1>3. End(c)
  BY DEF Record
<1> QED BY <1>1, <1>2, <1>3, RequestFields DEF TypeOK

\* So is UPDATE ... WHERE booking_id AND worker_uid.
LEMMA SetRowsType ==
  ASSUME TypeOK, NEW b \in Bookings, NEW p \in Providers \cup {NoOne},
         NEW w \in RowStatuses, SetRows(b, p, w)
  PROVE  /\ newest' \in [Bookings -> [Providers -> RowStatuses \cup {"NONE"}]]
         /\ earlier' \in [Bookings -> [Providers -> SUBSET RowStatuses]]
<1>1. CASE p = NoOne
  BY <1>1 DEF TypeOK, SetRows
<1>2. CASE p # NoOne
  <2>1. p \in Providers
    BY <1>2
  <2>2. newest' = [newest EXCEPT ![b] = [newest[b] EXCEPT ![p] =
                     IF newest[b][p] = "NONE" THEN newest[b][p] ELSE w]]
    BY <1>2 DEF SetRows
  <2>3. newest[b] \in [Providers -> RowStatuses \cup {"NONE"}]
    BY DEF TypeOK
  <2>4. newest' \in [Bookings -> [Providers -> RowStatuses \cup {"NONE"}]]
    BY <2>1, <2>2, <2>3 DEF TypeOK
  <2>5. earlier' = [earlier EXCEPT ![b] = [earlier[b] EXCEPT ![p] =
                      IF earlier[b][p] = {} THEN earlier[b][p] ELSE {w}]]
    BY <1>2 DEF SetRows
  <2>6. earlier[b] \in [Providers -> SUBSET RowStatuses]
    BY DEF TypeOK
  <2>7. (IF earlier[b][p] = {} THEN earlier[b][p] ELSE {w}) \in SUBSET RowStatuses
    BY <2>1, <2>6
  <2>8. [earlier[b] EXCEPT ![p] = IF earlier[b][p] = {} THEN earlier[b][p] ELSE {w}]
          \in [Providers -> SUBSET RowStatuses]
    BY <2>6, <2>7
  <2>9. earlier' \in [Bookings -> [Providers -> SUBSET RowStatuses]]
    BY <2>5, <2>8 DEF TypeOK
  <2> QED BY <2>4, <2>9
<1> QED BY <1>1, <1>2

\* What every commit does to the call, the timeline and the idempotency table.
LEMMA CommitRecords ==
  ASSUME TypeOK, NEW c \in Calls, Commit(c)
  PROVE  /\ stage[c] \in {"decided", "cleared"}
         /\ \E to \in BookingStates \cup {"NONE"} : Record(c, to)
         /\ otpCode' = otpCode
         /\ schedule' = schedule
<1>1. stage[c] \in {"decided", "cleared"}
  BY DEF Commit, CommitConfirmOtp, CommitRelease, CommitAssign, CommitAccept, CommitArrival,
         CommitStart, CommitComplete, CommitCancel, CommitExpire, CommitEvent, Commits, Writing
<1>2. Record(c, Destination(request[c].action)) \/ Record(c, loaded[c].state)
  BY DEF Commit, CommitConfirmOtp, CommitRelease, CommitAssign, CommitAccept, CommitArrival,
         CommitStart, CommitComplete, CommitCancel, CommitExpire, CommitEvent, Commits
<1>3. loaded[c].state \in BookingStates \cup {"NONE"}
  BY DEF TypeOK
<1>4. otpCode' = otpCode /\ schedule' = schedule
  BY DEF Commit, CommitConfirmOtp, CommitRelease, CommitAssign, CommitAccept, CommitArrival,
         CommitStart, CommitComplete, CommitCancel, CommitExpire, CommitEvent
<1> QED BY <1>1, <1>2, <1>3, <1>4, DestinationType

\* The booking columns and the assignment rows stay well typed in every commit.
LEMMA CommitColumnsType ==
  ASSUME TypeOK, NEW c \in Calls, Commit(c)
  PROVE  /\ status' \in [Bookings -> BookingStatuses]
         /\ workerUid' \in [Bookings -> Providers \cup {NoOne}]
         /\ workerCode' \in [Bookings -> Codes \cup {NoCode}]
         /\ newest' \in [Bookings -> [Providers -> RowStatuses \cup {"NONE"}]]
         /\ earlier' \in [Bookings -> [Providers -> SUBSET RowStatuses]]
<1> DEFINE b == request[c].booking
           l == loaded[c].provider
<1>1. stage[c] # "idle"
  BY CommitRecords
<1>2. /\ b \in Bookings
      /\ l \in Providers \cup {NoOne}
      /\ request[c].target \in Providers \cup {NoOne}
      /\ request[c].code \in Codes \cup {NoCode}
  BY <1>1, RequestFields DEF TypeOK
<1>3. {"ACCEPTED", "EN_ROUTE", "ARRIVED", "IN_PROGRESS", "COMPLETED", "DECLINED", "CANCELLED",
       "ASSIGNED"} \subseteq RowStatuses
  BY DEF RowStatuses, LiveRows, ClosedRows, Cancellable, OnTheWay
<1>4. {"CONFIRMED", "WORKER_ASSIGNED", "EN_ROUTE", "ARRIVED", "COMPLETED", "CANCELLED", "EXPIRED"}
        \subseteq BookingStatuses
  BY DEF BookingStatuses
<1> HIDE DEF b, l
<1>5. ASSUME NEW w \in BookingStatuses, SetStatus(b, w)
      PROVE  status' \in [Bookings -> BookingStatuses]
  BY <1>2, <1>5 DEF TypeOK, SetStatus
<1>6. ASSUME NEW w \in RowStatuses, SetRows(b, l, w)
      PROVE  /\ newest' \in [Bookings -> [Providers -> RowStatuses \cup {"NONE"}]]
             /\ earlier' \in [Bookings -> [Providers -> SUBSET RowStatuses]]
  BY <1>2, <1>6, SetRowsType
<1>10. CASE CommitConfirmOtp(c)
  BY <1>4, <1>5, <1>10 DEF CommitConfirmOtp, TypeOK, b
<1>20. CASE CommitRelease(c)
  <2>1. CASE l = NoOne
    BY <2>1, <1>20 DEF CommitRelease, TypeOK, l
  <2>2. CASE l # NoOne
    <3>1. SetRows(b, l, "DECLINED") \/ SetRows(b, l, "CANCELLED")
      BY <2>2, <1>20 DEF CommitRelease, l, b
    <3>2. SetStatus(b, "CONFIRMED")
      BY <2>2, <1>20 DEF CommitRelease, l, b
    <3>3. workerUid' = [workerUid EXCEPT ![b] = NoOne] /\ workerCode' = [workerCode EXCEPT ![b] = NoCode]
      BY <2>2, <1>20 DEF CommitRelease, ReleasedCode, l, b
    <3> QED BY <3>1, <3>2, <3>3, <1>2, <1>3, <1>4, <1>5, <1>6 DEF TypeOK
  <2> QED BY <2>1, <2>2
<1>30. CASE CommitAssign(c)
  <2> DEFINE t == request[c].target
  <2>1. t \in Providers \cup {NoOne}
    BY <1>2
  <2>2. SetStatus(b, "WORKER_ASSIGNED")
    BY <1>30 DEF CommitAssign, b
  <2>3. workerUid' = [workerUid EXCEPT ![b] = t]
    BY <1>30 DEF CommitAssign, b
  <2>4. workerCode' = [workerCode EXCEPT ![b] =
          IF request[c].code = NoCode THEN workerCode[b] ELSE request[c].code]
    BY <1>30 DEF CommitAssign, b
  <2>5. \A x \in Bookings, p \in Providers : newest'[x][p] \in RowStatuses \cup {"NONE"}
    BY <1>30, <1>3, <1>2 DEF CommitAssign, TypeOK, OutgoingWord, b
  <2>6. newest' \in [Bookings -> [Providers -> RowStatuses \cup {"NONE"}]]
    BY <1>30, <1>3, <1>2 DEF CommitAssign, TypeOK, OutgoingWord, b
  <2>7. \A p \in Providers : newest[b][p] \in RowStatuses \cup {"NONE"} /\ earlier[b][p] \subseteq RowStatuses
    BY <1>2 DEF TypeOK
  <2>8. earlier' \in [Bookings -> [Providers -> SUBSET RowStatuses]]
    BY <1>30, <1>3, <1>2, <2>7 DEF CommitAssign, TypeOK, OutgoingWord, b
  <2> QED BY <2>1, <2>2, <2>3, <2>4, <2>6, <2>8, <1>2, <1>4, <1>5 DEF TypeOK
<1>40. CASE CommitAccept(c)
  BY <1>3, <1>6, <1>40 DEF CommitAccept, TypeOK, b, l
<1>50. CASE CommitArrival(c)
  <2> DEFINE to == Destination(request[c].action)
  <2>1. to \in {"EN_ROUTE", "ARRIVED"}
    BY <1>50 DEF CommitArrival, Commits, Destination, ReleaseActions, AssignActions, AcceptActions
  <2>2. SetRows(b, l, to) /\ (SetStatus(b, to) \/ UNCHANGED status)
    BY <1>50 DEF CommitArrival, b, l
  <2>3. UNCHANGED <<workerUid, workerCode>>
    BY <1>50 DEF CommitArrival
  <2> HIDE DEF to
  <2> QED BY <2>1, <2>2, <2>3, <1>3, <1>4, <1>5, <1>6 DEF TypeOK
<1>60. CASE CommitStart(c)
  BY <1>3, <1>6, <1>60 DEF CommitStart, TypeOK, b, l
<1>70. CASE CommitComplete(c)
  BY <1>3, <1>4, <1>5, <1>6, <1>70 DEF CommitComplete, TypeOK, b, l
<1>80. CASE CommitCancel(c)
  <2>1. SetStatus(b, "CANCELLED") /\ UNCHANGED <<workerUid, workerCode>>
    BY <1>80 DEF CommitCancel, b
  <2>2. newest' \in [Bookings -> [Providers -> RowStatuses \cup {"NONE"}]]
    BY <1>80, <1>2, <1>3 DEF CommitCancel, TypeOK, CancelledRow, b
  <2>3. \A p \in Providers : {CancelledRow(w) : w \in earlier[b][p]} \in SUBSET RowStatuses
    BY <1>2, <1>3 DEF TypeOK, CancelledRow
  <2>4. earlier' \in [Bookings -> [Providers -> SUBSET RowStatuses]]
    BY <1>80, <1>2, <2>3 DEF CommitCancel, TypeOK, b
  <2> QED BY <2>1, <2>2, <2>4, <1>4, <1>5 DEF TypeOK
<1>90. CASE CommitExpire(c)
  BY <1>4, <1>5, <1>90 DEF CommitExpire, TypeOK, b
<1>100. CASE CommitEvent(c)
  BY <1>100 DEF CommitEvent, TypeOK
<1> QED
  BY <1>10, <1>20, <1>30, <1>40, <1>50, <1>60, <1>70, <1>80, <1>90, <1>100 DEF Commit

\* Each refusal, and a crash, only ends the call.
LEMMA RefusalEnds ==
  ASSUME NEW c \in Calls,
         Refuse(c) \/ RefuseTarget(c) \/ RefuseWrite(c) \/ Crash(c)
  PROVE  stage[c] # "idle" /\ End(c) /\ UNCHANGED <<bookingVars, idem>>
BY DEF Refuse, RefuseTarget, RefuseWrite, Crash, Writing

LEMMA TypeInit == Init => TypeOK
<1> SUFFICES ASSUME Init PROVE TypeOK
  OBVIOUS
<1>1. status \in [Bookings -> BookingStatuses]
  BY DEF Init, BookingStatuses
<1>2. newest \in [Bookings -> [Providers -> RowStatuses \cup {"NONE"}]]
  BY DEF Init
<1>3. earlier \in [Bookings -> [Providers -> SUBSET RowStatuses]]
  BY DEF Init
<1>4. toState \in [Bookings -> BookingStates \cup {"NONE"}]
  BY DEF Init
<1> QED BY <1>1, <1>2, <1>3, <1>4, UnreadType DEF Init, TypeOK, Stages

LEMMA TypeStep == TypeOK /\ [Next]_vars => TypeOK'
<1> SUFFICES ASSUME TypeOK, [Next]_vars PROVE TypeOK'
  OBVIOUS
<1>1. ASSUME NEW c \in Calls, NEW r \in Requests, Call(c, r)
      PROVE  TypeOK'
  BY <1>1, NullsAssumption DEF TypeOK, Call, bookingVars, Stages
<1>2. ASSUME NEW c \in Calls, Decide(c)
      PROVE  TypeOK'
  <2>1. stage[c] = "called"
    BY <1>2 DEF Decide
  <2>2. request[c].booking \in Bookings /\ request[c] # NoRequest
    BY <2>1, RequestFields
  <2>3. Snapshot(request[c].booking) \in [status : BookingStatuses \cup {"NONE"},
          provider : Providers \cup {NoOne}, state : BookingStates \cup {"NONE"}]
    BY <2>2, CanonicalType DEF Snapshot, TypeOK
  <2> QED BY <1>2, <2>1, <2>2, <2>3 DEF TypeOK, Decide, bookingVars, Stages
<1>3. ASSUME NEW c \in Calls, ClearTarget(c)
      PROVE  TypeOK'
  BY <1>3, RequestFields DEF TypeOK, ClearTarget, bookingVars, Stages
<1>4. ASSUME NEW c \in Calls, Refuse(c) \/ RefuseTarget(c) \/ RefuseWrite(c) \/ Crash(c)
      PROVE  TypeOK'
  BY <1>4, RefusalEnds, EndType DEF TypeOK, bookingVars
<1>5. ASSUME NEW c \in Calls, Commit(c)
      PROVE  TypeOK'
  <2>1. PICK to \in BookingStates \cup {"NONE"} : Record(c, to)
    BY <1>5, CommitRecords
  <2>2. stage[c] # "idle" /\ otpCode' = otpCode /\ schedule' = schedule
    BY <1>5, CommitRecords
  <2>3. End(c) /\ idem' \subseteq Requests /\ toState' \in [Bookings -> BookingStates \cup {"NONE"}]
    BY <2>1, <2>2, RecordType
  <2> QED BY <1>5, <2>2, <2>3, EndType, CommitColumnsType DEF TypeOK
<1>6. CASE UNCHANGED vars
  BY <1>6 DEF TypeOK, vars, bookingVars, callVars
<1> QED BY <1>1, <1>2, <1>3, <1>4, <1>5, <1>6 DEF Next, Settle

\* Every variable keeps its type: in particular the status columns only ever
\* hold words that deriveCanonicalState knows.
THEOREM TypeCorrect == Spec => []TypeOK
BY TypeInit, TypeStep, PTL DEF Spec

(***************************************************************************)
(* The executor's locks do their work, for any number of bookings,          *)
(* providers and calls: what a call decided on is still true when it        *)
(* commits, and no provider ever holds two overlapping jobs.                *)
(*                                                                         *)
(* The argument: the row lock keeps everyone else's commits off the         *)
(* booking a call has read (CommitTouchesOneBooking), so its snapshot       *)
(* stays current; the only commit that gives a provider a job he did not    *)
(* have is an assignment holding his advisory lock (NewOccupant), so a      *)
(* clear conflict query stays clear for as long as that lock is held.       *)
(***************************************************************************)

(***************************************************************************)
(* The invariant in two halves. DecisionInv is what the row lock alone      *)
(* gives: it says nothing of the calendar, so it survives a reschedule      *)
(* (BookingRescheduleProofs). The rest is what the provider lock adds.      *)
(***************************************************************************)
\* A call past the conflict query is an assignment, and names whom it assigns.
TargetNamed ==
  \A c \in Calls :
    stage[c] = "cleared" => request[c].action \in AssignActions /\ request[c].target \in Providers

DecisionInv ==
  /\ TypeOK
  /\ LocksExclusive
  /\ DecisionLegal
  /\ DecisionStillCurrent
  /\ NoDisputedRow
  /\ TargetNamed

LEMMA InvariantHalves == ExecutorInv <=> DecisionInv /\ TargetStaysFree /\ NoDoubleBooking
BY DEF ExecutorInv, DecisionInv, TargetNamed, TargetStaysFree

(***************************************************************************)
(* What a step leaves alone.                                                *)
(***************************************************************************)
\* A commit writes the columns and rows of its own booking only.
LEMMA CommitTouchesOneBooking ==
  ASSUME TypeOK, NEW c \in Calls, Commit(c),
         NEW b \in Bookings, b # request[c].booking
  PROVE  /\ status'[b] = status[b]
         /\ workerUid'[b] = workerUid[b]
         /\ newest'[b] = newest[b]
         /\ toState'[b] = toState[b]
<1>1. PICK to \in BookingStates \cup {"NONE"} : Record(c, to)
  BY CommitRecords
<1>2. toState'[b] = toState[b]
  BY <1>1 DEF Record, TypeOK
<1>3. ASSUME NEW w, SetStatus(request[c].booking, w)
      PROVE  status'[b] = status[b]
  BY <1>3 DEF SetStatus, TypeOK
<1>4. ASSUME NEW p, NEW w, SetRows(request[c].booking, p, w)
      PROVE  newest'[b] = newest[b]
  BY <1>4 DEF SetRows, TypeOK
<1>10. CASE CommitConfirmOtp(c)
  BY <1>2, <1>3, <1>10 DEF CommitConfirmOtp
<1>20. CASE CommitRelease(c)
  BY <1>2, <1>3, <1>4, <1>20 DEF CommitRelease, TypeOK
<1>30. CASE CommitAssign(c)
  BY <1>2, <1>3, <1>30 DEF CommitAssign, TypeOK
<1>40. CASE CommitAccept(c)
  BY <1>2, <1>4, <1>40 DEF CommitAccept
<1>50. CASE CommitArrival(c)
  BY <1>2, <1>3, <1>4, <1>50 DEF CommitArrival
<1>60. CASE CommitStart(c)
  BY <1>2, <1>4, <1>60 DEF CommitStart
<1>70. CASE CommitComplete(c)
  BY <1>2, <1>3, <1>4, <1>70 DEF CommitComplete
<1>80. CASE CommitCancel(c)
  BY <1>2, <1>3, <1>80 DEF CommitCancel, TypeOK
<1>90. CASE CommitExpire(c)
  BY <1>2, <1>3, <1>90 DEF CommitExpire
<1>100. CASE CommitEvent(c)
  BY <1>2, <1>100 DEF CommitEvent
<1> QED
  BY <1>10, <1>20, <1>30, <1>40, <1>50, <1>60, <1>70, <1>80, <1>90, <1>100 DEF Commit

\* A snapshot is a function of four columns of its booking.
LEMMA SnapshotDependsOn ==
  ASSUME NEW b \in Bookings, status'[b] = status[b], workerUid'[b] = workerUid[b],
         newest'[b] = newest[b], toState'[b] = toState[b]
  PROVE  Snapshot(b)' = Snapshot(b)
BY DEF Snapshot, CanonicalState, AssignmentStatus, HasEscalation

\* A call that ends leaves every other call where it is.
LEMMA EndLeavesOthers ==
  ASSUME TypeOK, NEW c \in Calls, End(c)
  PROVE  /\ stage'[c] = "idle"
         /\ \A d \in Calls \ {c} :
              stage'[d] = stage[d] /\ request'[d] = request[d] /\ loaded'[d] = loaded[d]
BY DEF End, TypeOK

\* It only gives locks back.
LEMMA EndReleases ==
  ASSUME TypeOK, NEW c \in Calls, End(c), LocksExclusive
  PROVE  LocksExclusive'
<1>1. ASSUME NEW d \in Calls, NEW b, HoldsRow(d, b)'
      PROVE  HoldsRow(d, b)
  BY <1>1, EndLeavesOthers DEF HoldsRow
<1>2. ASSUME NEW d \in Calls, NEW p, HoldsProvider(d, p)'
      PROVE  HoldsProvider(d, p)
  BY <1>2, EndLeavesOthers DEF HoldsProvider
<1> QED BY <1>1, <1>2 DEF LocksExclusive

\* Ending a call, with the tables untouched, disturbs no other decision.
LEMMA EndKeepsDecisions ==
  ASSUME DecisionInv, TypeOK', NEW c \in Calls, End(c), UNCHANGED bookingVars
  PROVE  DecisionInv'
<1> USE DEF DecisionInv
<1>1. LocksExclusive'
  BY EndReleases
<1>2. DecisionLegal'
  BY EndLeavesOthers DEF DecisionLegal
<1>3. \A b \in Bookings : Snapshot(b)' = Snapshot(b)
  BY SnapshotDependsOn DEF bookingVars
<1>4. DecisionStillCurrent'
  <2> SUFFICES ASSUME NEW d \in Calls, stage'[d] \in {"decided", "cleared"}
               PROVE  (loaded[d] = Snapshot(request[d].booking))'
    BY DEF DecisionStillCurrent
  <2>1. d # c /\ stage'[d] = stage[d] /\ request'[d] = request[d] /\ loaded'[d] = loaded[d]
    BY EndLeavesOthers
  <2>2. PICK b \in Bookings : b = request[d].booking
    BY <2>1, RequestFields
  <2>3. loaded'[d] = Snapshot(b)'
    BY <2>1, <2>2, <1>3 DEF DecisionStillCurrent
  <2>4. request'[d].booking = b
    BY <2>1, <2>2
  <2> QED
    BY <2>3, <2>4 DEF Snapshot, CanonicalState, AssignmentStatus, HasEscalation
<1>5. NoDisputedRow'
  BY DEF NoDisputedRow, bookingVars
<1>6. TargetNamed'
  BY EndLeavesOthers DEF TargetNamed
<1> QED BY <1>1, <1>2, <1>4, <1>5, <1>6

(***************************************************************************)
(* What a commit can do to a provider's calendar.                           *)
(***************************************************************************)
\* A call about to change a booking has found it unfinished, and it still is.
LEMMA ChangingUnfinished ==
  ASSUME DecisionInv, NEW c \in Calls, stage[c] \in {"decided", "cleared"}, Changing(c)
  PROVE  status[request[c].booking] \notin NON_OCCUPYING_STATUSES
<1>1. PICK b \in Bookings : b = request[c].booking
  BY RequestFields DEF DecisionInv
<1>2. loaded[c].state = CanonicalState(b)
  <2>1. loaded[c] = Snapshot(b)
    BY <1>1 DEF DecisionInv, DecisionStillCurrent
  <2> QED BY <2>1 DEF Snapshot
<1>3. Permitted(request[c], loaded[c].state)
  BY DEF DecisionInv, DecisionLegal, Changing
<1>4. CanonicalState(b) \notin TerminalStates
  BY <1>2, <1>3, NothingLeavesTerminal
<1>5. HasEscalation(b) = FALSE
  BY DEF DecisionInv, NoDisputedRow, HasEscalation
<1> QED BY <1>1, <1>4, <1>5, FinishedWordDecides DEF CanonicalState

\* A commit leaves the pointer alone, clears it, or (an assignment, under the
\* provider lock) points it at its target.
LEMMA CommitHolder ==
  ASSUME TypeOK, NEW c \in Calls, Commit(c), NEW b \in Bookings, b = request[c].booking
  PROVE  \/ workerUid'[b] = workerUid[b] /\ (Changing(c) \/ status' = status)
         \/ workerUid'[b] = NoOne
         \/ stage[c] = "cleared" /\ workerUid'[b] = request[c].target
<1>10. CASE CommitRelease(c)
  BY <1>10 DEF CommitRelease, Commits, TypeOK
<1>20. CASE CommitAssign(c)
  BY <1>20 DEF CommitAssign, Commits, Writing, TypeOK
<1>30. CASE CommitEvent(c)
  BY <1>30 DEF CommitEvent
<1>40. CASE CommitConfirmOtp(c) \/ CommitAccept(c) \/ CommitArrival(c) \/ CommitStart(c)
  BY <1>40 DEF CommitConfirmOtp, CommitAccept, CommitArrival, CommitStart, Commits
<1>50. CASE CommitComplete(c) \/ CommitCancel(c) \/ CommitExpire(c)
  BY <1>50 DEF CommitComplete, CommitCancel, CommitExpire, Commits
<1> QED BY <1>10, <1>20, <1>30, <1>40, <1>50 DEF Commit

\* So a provider occupied by a booking after a commit was occupied by it
\* before, or is the target whose lock the committing call holds.
LEMMA NewOccupant ==
  ASSUME DecisionInv, NEW c \in Calls, Commit(c), NEW b \in Bookings, NEW p \in Providers,
         Occupies(b, p)'
  PROVE  \/ Occupies(b, p)
         \/ HoldsProvider(c, p) /\ request[c].booking = b
<1> USE DEF DecisionInv
<1>1. CASE b # request[c].booking
  BY <1>1, CommitTouchesOneBooking DEF Occupies
<1>2. CASE b = request[c].booking
  <2>1. stage[c] \in {"decided", "cleared"}
    BY CommitRecords
  <2>2. p # NoOne
    BY NullsAssumption
  <2>3. CASE workerUid'[b] = workerUid[b] /\ (Changing(c) \/ status' = status)
    BY <1>2, <2>1, <2>3, ChangingUnfinished DEF Occupies
  <2>4. CASE stage[c] = "cleared" /\ workerUid'[b] = request[c].target
    BY <1>2, <2>4 DEF Occupies, HoldsProvider
  <2> QED BY <1>2, <2>2, <2>3, <2>4, CommitHolder DEF Occupies
<1> QED BY <1>1, <1>2

\* Spans overlap in either order of naming them, and no commit moves one.
LEMMA OverlapSymmetric ==
  ASSUME NEW b1 \in Bookings, NEW b2 \in Bookings
  PROVE  Overlap(b1, b2) <=> Overlap(b2, b1)
BY DEF Overlap, SpansOverlap

(***************************************************************************)
(* Every step keeps the invariant.                                          *)
(***************************************************************************)
LEMMA CommitKeepsDecisions ==
  ASSUME DecisionInv, TypeOK', NEW c \in Calls, Commit(c)
  PROVE  DecisionInv'
<1> DEFINE bc == request[c].booking
<1>1. /\ stage[c] \in {"decided", "cleared"}
      /\ bc \in Bookings
      /\ HoldsRow(c, bc)
  BY CommitRecords, RequestFields DEF DecisionInv, HoldsRow
<1>2. End(c)
  BY CommitRecords DEF DecisionInv, Record
<1>4. ASSUME NEW d \in Calls, stage'[d] \in {"decided", "cleared"}
      PROVE  /\ d # c
             /\ stage'[d] = stage[d] /\ request'[d] = request[d] /\ loaded'[d] = loaded[d]
             /\ request[d].booking \in Bookings \ {bc}
  <2>1. /\ d # c
        /\ stage'[d] = stage[d] /\ request'[d] = request[d] /\ loaded'[d] = loaded[d]
    BY <1>2, <1>4, EndLeavesOthers DEF DecisionInv
  <2>2. request[d].booking \in Bookings
    BY <1>4, <2>1, RequestFields DEF DecisionInv
  <2>3. request[d].booking # bc
    BY <1>1, <1>4, <2>1, <2>2 DEF DecisionInv, LocksExclusive, HoldsRow
  <2> QED BY <2>1, <2>2, <2>3
<1>5. LocksExclusive'
  BY <1>2, EndReleases DEF DecisionInv
<1>6. DecisionLegal'
  BY <1>4 DEF DecisionInv, DecisionLegal
<1>7. DecisionStillCurrent'
  <2> SUFFICES ASSUME NEW d \in Calls, stage'[d] \in {"decided", "cleared"}
               PROVE  (loaded[d] = Snapshot(request[d].booking))'
    BY DEF DecisionStillCurrent
  <2>1. PICK b \in Bookings : b = request[d].booking
    BY <1>4
  <2>2. b # bc /\ request'[d].booking = b
    BY <1>4, <2>1
  <2>3. Snapshot(b)' = Snapshot(b)
    BY <2>2, SnapshotDependsOn, CommitTouchesOneBooking DEF DecisionInv
  <2>4. loaded'[d] = Snapshot(b)'
    BY <1>4, <2>1, <2>3 DEF DecisionInv, DecisionStillCurrent
  <2> QED
    BY <2>2, <2>4 DEF Snapshot, CanonicalState, AssignmentStatus, HasEscalation
<1>8. NoDisputedRow'
  <2>1. Record(c, Destination(request[c].action))
          \/ (Record(c, loaded[c].state) /\ ~Changing(c))
    BY DEF Commit, CommitConfirmOtp, CommitRelease, CommitAssign, CommitAccept, CommitArrival,
           CommitStart, CommitComplete, CommitCancel, CommitExpire, CommitEvent, Commits
  <2>2. \E to : to # "DISPUTED" /\ Record(c, to)
    BY <2>1, DestinationType DEF Changing, EventOnly
  <2> QED BY <1>1, <2>2 DEF DecisionInv, NoDisputedRow, Record, TypeOK
<1>9. TargetNamed'
  BY <1>4 DEF DecisionInv, TargetNamed
<1> QED BY <1>5, <1>6, <1>7, <1>8, <1>9 DEF DecisionInv

\* The provider lock: of the calls that hold one, only its holder gives that
\* provider a job, and his conflict query has looked at all the others.
LEMMA CommitKeepsCalendar ==
  ASSUME ExecutorInv, DecisionInv', NEW c \in Calls, Commit(c)
  PROVE  TargetStaysFree' /\ NoDoubleBooking'
<1> DEFINE bc == request[c].booking
<1>1. /\ DecisionInv /\ TypeOK /\ LocksExclusive /\ TargetStaysFree /\ NoDoubleBooking
      /\ bc \in Bookings
      /\ schedule' = schedule
      /\ HoldsRow(c, bc)
      /\ End(c)
  BY InvariantHalves, CommitRecords, RequestFields DEF DecisionInv, HoldsRow, Record
<1>3. \A b1, b2 : Overlap(b1, b2)' <=> Overlap(b1, b2)
  BY <1>1 DEF Overlap
<1>4. TargetStaysFree'
  <2> SUFFICES ASSUME NEW d \in Calls, stage'[d] = "cleared"
               PROVE  (/\ request[d].action \in AssignActions
                       /\ request[d].target \in Providers
                       /\ ~HasConflict(request[d].booking, request[d].target))'
    BY DEF TargetStaysFree
  <2>1. PICK b \in Bookings, p \in Providers : b = request[d].booking /\ p = request[d].target
    <3>1. d # c /\ stage[d] = "cleared"
      BY <1>1, EndLeavesOthers
    <3> QED BY <1>1, <3>1, RequestFields DEF TargetStaysFree
  <2>2. d # c /\ stage[d] = "cleared" /\ request'[d] = request[d]
    BY <1>1, EndLeavesOthers
  <2>3. request[d].action \in AssignActions /\ ~HasConflict(b, p)
    BY <1>1, <2>1, <2>2 DEF TargetStaysFree
  <2>4. ~HoldsProvider(c, p)
    BY <1>1, <2>1, <2>2 DEF LocksExclusive, HoldsProvider
  <2>5. \A other \in Bookings : Occupies(other, p)' => Occupies(other, p)
    BY <1>1, <2>4, NewOccupant
  <2>6. \A other \in Bookings \ {b} : ~(Occupies(other, p)' /\ Overlap(other, b)')
    BY <1>3, <2>3, <2>5 DEF HasConflict
  <2>7. ~HasConflict(b, p)'
    BY <2>6 DEF HasConflict
  <2> QED
    BY <2>1, <2>2, <2>3, <2>7 DEF HasConflict, Occupies, Overlap
<1>5. NoDoubleBooking'
  <2>1. ASSUME NEW b1 \in Bookings, NEW b2 \in Bookings, NEW p \in Providers, b1 # b2,
               Occupies(b1, p)', Occupies(b2, p)', b2 # bc
        PROVE  ~Overlap(b1, b2)
    <3>1. Occupies(b2, p)
      BY <1>1, <2>1, NewOccupant
    <3>2. CASE Occupies(b1, p)
      BY <1>1, <2>1, <3>1, <3>2 DEF NoDoubleBooking
    <3>3. CASE HoldsProvider(c, p) /\ bc = b1
      <4>1. ~HasConflict(b1, p)
        BY <1>1, <3>3 DEF TargetStaysFree, HoldsProvider
      <4>2. ~Overlap(b2, b1)
        BY <2>1, <3>1, <4>1 DEF HasConflict
      <4> QED BY <4>2, OverlapSymmetric
    <3> QED BY <1>1, <2>1, <3>2, <3>3, NewOccupant
  <2>2. ASSUME NEW b1 \in Bookings, NEW b2 \in Bookings, NEW p \in Providers, b1 # b2,
               Occupies(b1, p)', Occupies(b2, p)'
        PROVE  ~Overlap(b1, b2)
    <3>1. CASE b2 # bc
      BY <2>1, <2>2, <3>1
    <3>2. CASE b1 # bc
      <4>1. ~Overlap(b2, b1)
        BY <2>1, <2>2, <3>2
      <4> QED BY <4>1, OverlapSymmetric
    <3> QED BY <2>2, <3>1, <3>2
  <2> QED BY <1>3, <2>2 DEF NoDoubleBooking
<1> QED BY <1>4, <1>5

LEMMA InvInit == Init => ExecutorInv
<1> SUFFICES ASSUME Init PROVE ExecutorInv
  OBVIOUS
<1>1. TypeOK
  BY TypeInit
<1>2. LocksExclusive /\ DecisionLegal /\ DecisionStillCurrent /\ TargetStaysFree
  BY DEF Init, LocksExclusive, HoldsRow, HoldsProvider, DecisionLegal, DecisionStillCurrent,
         TargetStaysFree
<1>3. NoDisputedRow
  BY DEF Init, NoDisputedRow
<1>4. NoDoubleBooking
  BY NullsAssumption DEF Init, NoDoubleBooking, Occupies
<1> QED BY <1>1, <1>2, <1>3, <1>4 DEF ExecutorInv

\* A step that moves one call and no table keeps what the tables alone decide.
LEMMA TablesKept ==
  ASSUME NoDisputedRow, UNCHANGED bookingVars
  PROVE  NoDisputedRow' /\ \A b \in Bookings : Snapshot(b)' = Snapshot(b)
BY SnapshotDependsOn DEF NoDisputedRow, bookingVars

LEMMA DecisionStep == DecisionInv /\ [Next]_vars => DecisionInv'
<1> SUFFICES ASSUME DecisionInv, [Next]_vars PROVE DecisionInv'
  OBVIOUS
<1>0. TypeOK'
  BY TypeStep DEF DecisionInv
<1>1. ASSUME NEW c \in Calls, NEW r \in Requests, Call(c, r)
      PROVE  DecisionInv'
  <2>1. UNCHANGED bookingVars /\ stage[c] = "idle" /\ stage'[c] = "called" /\ loaded' = loaded
    BY <1>1 DEF Call, DecisionInv, TypeOK
  <2>2. \A d \in Calls \ {c} : stage'[d] = stage[d] /\ request'[d] = request[d]
    BY <1>1 DEF Call, DecisionInv, TypeOK
  <2>3. LocksExclusive'
    BY <2>1, <2>2 DEF DecisionInv, LocksExclusive, HoldsRow, HoldsProvider
  <2>4. DecisionLegal'
    BY <2>1, <2>2 DEF DecisionInv, DecisionLegal
  <2>5. DecisionStillCurrent'
    <3> SUFFICES ASSUME NEW d \in Calls, stage'[d] \in {"decided", "cleared"}
                 PROVE  (loaded[d] = Snapshot(request[d].booking))'
      BY DEF DecisionStillCurrent
    <3>1. d # c /\ stage[d] \in {"decided", "cleared"}
      BY <2>1, <2>2
    <3>2. loaded[d] = Snapshot(request[d].booking)
      BY <3>1 DEF DecisionInv, DecisionStillCurrent
    <3> QED BY <2>1, <2>2, <3>1, <3>2 DEF Snapshot, CanonicalState, AssignmentStatus,
               HasEscalation, bookingVars
  <2>6. TargetNamed'
    BY <2>1, <2>2 DEF DecisionInv, TargetNamed
  <2> QED BY <1>0, <2>1, <2>3, <2>4, <2>5, <2>6, TablesKept DEF DecisionInv
<1>2. ASSUME NEW c \in Calls, Decide(c)
      PROVE  DecisionInv'
  <2>1. /\ UNCHANGED <<bookingVars, request>> /\ stage[c] = "called" /\ stage'[c] = "decided"
        /\ RowFree(request[c].booking) /\ Proceeds(request[c])
    BY <1>2 DEF Decide, DecisionInv, TypeOK
  <2>2. \A d \in Calls \ {c} : stage'[d] = stage[d] /\ loaded'[d] = loaded[d]
    BY <1>2 DEF Decide, DecisionInv, TypeOK
  <2>3. PICK b \in Bookings : b = request[c].booking
    BY <2>1, RequestFields DEF DecisionInv
  <2>4. loaded'[c] = Snapshot(b)
    BY <1>2, <2>3 DEF Decide, DecisionInv, TypeOK
  <2>5. LocksExclusive'
    BY <2>1, <2>2 DEF DecisionInv, LocksExclusive, RowFree, HoldsRow, HoldsProvider
  <2>6. DecisionLegal'
    <3>1. loaded'[c].state = CanonicalState(b)
      BY <2>4 DEF Snapshot
    <3>2. EventOnly(request[c].action, CanonicalState(b)) \/ Permitted(request[c], CanonicalState(b))
      BY <2>1, <2>3 DEF Proceeds
    <3> QED BY <2>1, <2>2, <3>1, <3>2 DEF DecisionInv, DecisionLegal
  <2>7. DecisionStillCurrent'
    <3> SUFFICES ASSUME NEW d \in Calls, stage'[d] \in {"decided", "cleared"}
                 PROVE  (loaded[d] = Snapshot(request[d].booking))'
      BY DEF DecisionStillCurrent
    <3>1. loaded'[d] = Snapshot(request[d].booking)
      BY <2>1, <2>2, <2>3, <2>4 DEF DecisionInv, DecisionStillCurrent
    <3> QED BY <2>1, <3>1 DEF Snapshot, CanonicalState, AssignmentStatus,
               HasEscalation, bookingVars
  <2>8. TargetNamed'
    BY <2>1, <2>2 DEF DecisionInv, TargetNamed
  <2> QED BY <1>0, <2>1, <2>5, <2>6, <2>7, <2>8, TablesKept DEF DecisionInv
<1>3. ASSUME NEW c \in Calls, ClearTarget(c)
      PROVE  DecisionInv'
  <2>1. /\ UNCHANGED <<bookingVars, request, loaded>>
        /\ stage[c] = "decided" /\ stage'[c] = "cleared"
        /\ ProviderFree(request[c].target) /\ request[c].action \in AssignActions
    BY <1>3 DEF ClearTarget, DecisionInv, TypeOK
  <2>2. \A d \in Calls \ {c} : stage'[d] = stage[d]
    BY <1>3 DEF ClearTarget, DecisionInv, TypeOK
  <2>3. request[c].target \in Providers
    BY <1>3, <2>1, RequestFields DEF ClearTarget, DecisionInv
  <2>4. LocksExclusive'
    BY <2>1, <2>2 DEF DecisionInv, LocksExclusive, ProviderFree, HoldsRow, HoldsProvider
  <2>5. DecisionLegal'
    BY <2>1, <2>2 DEF DecisionInv, DecisionLegal
  <2>6. DecisionStillCurrent'
    <3> SUFFICES ASSUME NEW d \in Calls, stage'[d] \in {"decided", "cleared"}
                 PROVE  (loaded[d] = Snapshot(request[d].booking))'
      BY DEF DecisionStillCurrent
    <3>1. loaded[d] = Snapshot(request[d].booking)
      BY <2>1, <2>2 DEF DecisionInv, DecisionStillCurrent
    <3> QED BY <2>1, <3>1 DEF Snapshot, CanonicalState, AssignmentStatus,
               HasEscalation, bookingVars
  <2>7. TargetNamed'
    BY <2>1, <2>2, <2>3 DEF DecisionInv, TargetNamed
  <2> QED BY <1>0, <2>1, <2>4, <2>5, <2>6, <2>7, TablesKept DEF DecisionInv
<1>4. ASSUME NEW c \in Calls, Refuse(c) \/ RefuseTarget(c) \/ RefuseWrite(c) \/ Crash(c)
      PROVE  DecisionInv'
  BY <1>0, <1>4, RefusalEnds, EndKeepsDecisions
<1>5. ASSUME NEW c \in Calls, Commit(c)
      PROVE  DecisionInv'
  BY <1>0, <1>5, CommitKeepsDecisions
<1>6. CASE UNCHANGED vars
  <2>1. UNCHANGED <<bookingVars, stage, request, loaded>>
    BY <1>6 DEF vars, callVars
  <2>2. LocksExclusive' /\ DecisionLegal'
    BY <2>1 DEF DecisionInv, LocksExclusive, HoldsRow, HoldsProvider, DecisionLegal
  <2>3. DecisionStillCurrent'
    BY <2>1 DEF DecisionInv, DecisionStillCurrent, Snapshot, CanonicalState, AssignmentStatus,
                HasEscalation, bookingVars
  <2>4. TargetNamed'
    BY <2>1 DEF DecisionInv, TargetNamed
  <2> QED BY <1>0, <2>1, <2>2, <2>3, <2>4, TablesKept DEF DecisionInv
<1> QED BY <1>1, <1>2, <1>3, <1>4, <1>5, <1>6 DEF Next, Settle

\* A step that writes no table leaves every calendar as it is; a call it lets
\* past the conflict query has found its target free.
LEMMA CalendarsKept ==
  ASSUME ExecutorInv, DecisionInv', UNCHANGED bookingVars,
         \A c \in Calls : stage'[c] = "cleared" =>
           request'[c] = request[c] /\ ~HasConflict(request[c].booking, request[c].target)
  PROVE  TargetStaysFree' /\ NoDoubleBooking'
<1>1. \A b, p : HasConflict(b, p)' <=> HasConflict(b, p)
  BY DEF HasConflict, Occupies, Overlap, bookingVars
<1>2. TargetStaysFree'
  <2> SUFFICES ASSUME NEW c \in Calls, stage'[c] = "cleared"
               PROVE  (/\ request[c].action \in AssignActions
                       /\ request[c].target \in Providers
                       /\ ~HasConflict(request[c].booking, request[c].target))'
    BY DEF TargetStaysFree
  <2>1. request'[c].action \in AssignActions /\ request'[c].target \in Providers
    BY DEF DecisionInv, TargetNamed
  <2> QED BY <2>1 DEF HasConflict, Occupies, Overlap, bookingVars
<1>3. NoDoubleBooking'
  BY DEF ExecutorInv, NoDoubleBooking, Occupies, Overlap, bookingVars
<1> QED BY <1>2, <1>3

LEMMA CalendarStep ==
  ASSUME ExecutorInv, DecisionInv', [Next]_vars
  PROVE  TargetStaysFree' /\ NoDoubleBooking'
<1>1. ASSUME NEW c \in Calls, NEW r \in Requests, Call(c, r)
      PROVE  TargetStaysFree' /\ NoDoubleBooking'
  <2>1. UNCHANGED bookingVars /\ stage'[c] = "called"
        /\ \A d \in Calls \ {c} : stage'[d] = stage[d] /\ request'[d] = request[d]
    BY <1>1 DEF Call, ExecutorInv, TypeOK
  <2> QED BY <2>1, CalendarsKept DEF ExecutorInv, TargetStaysFree
<1>2. ASSUME NEW c \in Calls, Decide(c)
      PROVE  TargetStaysFree' /\ NoDoubleBooking'
  <2>1. UNCHANGED bookingVars /\ stage'[c] = "decided" /\ request' = request
        /\ \A d \in Calls \ {c} : stage'[d] = stage[d]
    BY <1>2 DEF Decide, ExecutorInv, TypeOK
  <2> QED BY <2>1, CalendarsKept DEF ExecutorInv, TargetStaysFree
<1>3. ASSUME NEW c \in Calls, ClearTarget(c)
      PROVE  TargetStaysFree' /\ NoDoubleBooking'
  <2>1. UNCHANGED bookingVars /\ request' = request
        /\ ~HasConflict(request[c].booking, request[c].target)
        /\ \A d \in Calls \ {c} : stage'[d] = stage[d]
    BY <1>3 DEF ClearTarget, ExecutorInv, TypeOK
  <2> QED BY <2>1, CalendarsKept DEF ExecutorInv, TargetStaysFree
<1>4. ASSUME NEW c \in Calls, Refuse(c) \/ RefuseTarget(c) \/ RefuseWrite(c) \/ Crash(c)
      PROVE  TargetStaysFree' /\ NoDoubleBooking'
  <2>1. UNCHANGED bookingVars /\ stage'[c] = "idle"
        /\ \A d \in Calls \ {c} : stage'[d] = stage[d] /\ request'[d] = request[d]
    BY <1>4, RefusalEnds, EndLeavesOthers DEF ExecutorInv
  <2> QED BY <2>1, CalendarsKept DEF ExecutorInv, TargetStaysFree
<1>5. ASSUME NEW c \in Calls, Commit(c)
      PROVE  TargetStaysFree' /\ NoDoubleBooking'
  BY <1>5, CommitKeepsCalendar
<1>6. CASE UNCHANGED vars
  <2>1. UNCHANGED bookingVars /\ stage' = stage /\ request' = request
    BY <1>6 DEF vars, callVars
  <2> QED BY <2>1, CalendarsKept DEF ExecutorInv, TargetStaysFree
<1> QED BY <1>1, <1>2, <1>3, <1>4, <1>5, <1>6 DEF Next, Settle

LEMMA InvStep == ExecutorInv /\ [Next]_vars => ExecutorInv'
<1> SUFFICES ASSUME ExecutorInv, [Next]_vars PROVE ExecutorInv'
  OBVIOUS
<1>1. DecisionInv'
  BY InvariantHalves, DecisionStep
<1>2. TargetStaysFree' /\ NoDoubleBooking'
  BY <1>1, CalendarStep
<1> QED BY <1>1, <1>2 DEF ExecutorInv, DecisionInv

(***************************************************************************)
(* The theorems.                                                            *)
(***************************************************************************)
\* The whole inductive invariant: the locks exclude each other, every decision
\* is legal and current, and every cleared target is free.
THEOREM InvariantHolds == Spec => []ExecutorInv
BY InvInit, InvStep, PTL DEF Spec

LEMMA DecisionsHold == Spec => []DecisionInv
<1>1. ExecutorInv => DecisionInv
  BY InvariantHalves
<1> QED BY <1>1, InvariantHolds, PTL

\* What a call read under the row lock is what the tables say until it ends:
\* the executor never writes on a stale read.
THEOREM DecisionsStayCurrent == Spec => []DecisionStillCurrent
<1>1. ExecutorInv => DecisionStillCurrent
  BY DEF ExecutorInv
<1> QED BY <1>1, InvariantHolds, PTL

\* However many calls race for a provider, he never holds two jobs whose spans
\* overlap.
THEOREM ProvidersNeverDoubleBooked == Spec => []NoDoubleBooking
<1>1. ExecutorInv => NoDoubleBooking
  BY DEF ExecutorInv
<1> QED BY <1>1, InvariantHolds, PTL

StaysFinished(b) ==
  CanonicalState(b) \in TerminalStates =>
    CanonicalState(b)' = CanonicalState(b) /\ workerUid'[b] = workerUid[b]

LEMMA FinishedStep ==
  DecisionInv /\ DecisionInv' /\ [Next]_vars => [\A b \in Bookings : StaysFinished(b)]_vars
<1>1. ASSUME NEW b \in Bookings, Snapshot(b)' = Snapshot(b)
      PROVE  StaysFinished(b)
  BY <1>1 DEF Snapshot, StaysFinished
<1>2. ASSUME DecisionInv, UNCHANGED bookingVars
      PROVE  \A b \in Bookings : StaysFinished(b)
  BY <1>1, <1>2, TablesKept DEF DecisionInv
<1>3. ASSUME DecisionInv, DecisionInv', NEW c \in Calls, Commit(c), NEW b \in Bookings
      PROVE  StaysFinished(b)
  <2>1. CASE b # request[c].booking
    BY <1>1, <1>3, <2>1, SnapshotDependsOn, CommitTouchesOneBooking DEF DecisionInv
  <2>2. CASE b = request[c].booking /\ Changing(c)
    <3>1. stage[c] \in {"decided", "cleared"}
      BY <1>3, CommitRecords DEF DecisionInv
    <3>2. loaded[c] = Snapshot(b)
      BY <1>3, <2>2, <3>1 DEF DecisionInv, DecisionStillCurrent
    <3>3. Permitted(request[c], loaded[c].state)
      BY <1>3, <2>2, <3>1 DEF DecisionInv, DecisionLegal, Changing
    <3> QED BY <3>2, <3>3, NothingLeavesTerminal DEF Snapshot, StaysFinished
  <2>3. CASE ~Changing(c)
    <3>1. UNCHANGED <<status, workerUid, newest>>
      BY <1>3, <2>3 DEF Commit, CommitConfirmOtp, CommitRelease, CommitAssign, CommitAccept,
           CommitArrival, CommitStart, CommitComplete, CommitCancel, CommitExpire, CommitEvent,
           Commits
    <3>2. HasEscalation(b)' = HasEscalation(b)
      BY <1>3 DEF DecisionInv, NoDisputedRow, HasEscalation
    <3> QED BY <3>1, <3>2 DEF CanonicalState, AssignmentStatus, StaysFinished
  <2> QED BY <2>1, <2>2, <2>3
<1>4. CASE UNCHANGED vars
  BY <1>4
<1>5. ASSUME DecisionInv, DecisionInv', Next PROVE \A b \in Bookings : StaysFinished(b)
  <2>1. ASSUME NEW c \in Calls,
               (\E r \in Requests : Call(c, r)) \/ Decide(c) \/ ClearTarget(c)
        PROVE  UNCHANGED bookingVars
    BY <2>1 DEF Call, Decide, ClearTarget
  <2>2. ASSUME NEW c \in Calls, Refuse(c) \/ RefuseTarget(c) \/ RefuseWrite(c) \/ Crash(c)
        PROVE  UNCHANGED bookingVars
    BY <2>2, RefusalEnds
  <2> QED BY <1>2, <1>3, <1>5, <2>1, <2>2 DEF Next, Settle
<1> QED BY <1>5

\* No call, however late it commits, takes a booking out of a finished state or
\* changes who did the job: a call that decided before the booking finished
\* cannot exist, because it would hold the row.
THEOREM FinishedStaysFinished == Spec => FinishedForGood
BY FinishedStep, DecisionsHold, PTL DEF Spec, FinishedForGood, StaysFinished

LEMMA CodeStep == DecisionInv /\ CodeNeedsHolder /\ [Next]_vars => CodeNeedsHolder'
<1> SUFFICES ASSUME DecisionInv, CodeNeedsHolder, [Next]_vars PROVE CodeNeedsHolder'
  OBVIOUS
<1>1. ASSUME NEW c \in Calls, Commit(c)
      PROVE  CodeNeedsHolder'
  <2> DEFINE bc == request[c].booking
  <2>1. /\ stage[c] \in {"decided", "cleared"}
        /\ bc \in Bookings
    BY <1>1, CommitRecords, RequestFields DEF DecisionInv
  <2>2. CASE CommitRelease(c)
    <3>1. loaded[c].provider = workerUid[bc]
      <4>1. loaded[c] = Snapshot(bc)
        BY <1>1, <2>1 DEF DecisionInv, DecisionStillCurrent
      <4> QED BY <4>1 DEF Snapshot
    <3>2. CASE loaded[c].provider = NoOne
      BY <1>1, <2>2, <3>2 DEF CommitRelease, CodeNeedsHolder
    <3>3. CASE loaded[c].provider # NoOne
      BY <1>1, <2>1, <2>2, <3>3 DEF CommitRelease, ReleasedCode, CodeNeedsHolder, DecisionInv, TypeOK
    <3> QED BY <3>2, <3>3
  <2>3. CASE CommitAssign(c)
    <3>1. stage[c] = "cleared"
      BY <2>3 DEF CommitAssign, Commits, Writing
    <3>2. request[c].target # NoOne
      BY <1>1, <3>1, NullsAssumption DEF DecisionInv, TargetNamed
    <3> QED BY <1>1, <2>1, <2>3, <3>2 DEF CommitAssign, CodeNeedsHolder, DecisionInv, TypeOK
  <2>4. CASE ~CommitRelease(c) /\ ~CommitAssign(c)
    <3>1. UNCHANGED <<workerUid, workerCode>>
      BY <1>1, <2>4 DEF Commit, CommitConfirmOtp, CommitAccept, CommitArrival, CommitStart,
           CommitComplete, CommitCancel, CommitExpire, CommitEvent
    <3> QED BY <1>1, <3>1 DEF CodeNeedsHolder
  <2> QED BY <2>2, <2>3, <2>4
<1>2. CASE \E c \in Calls : Commit(c)
  BY <1>1, <1>2
<1>3. CASE UNCHANGED bookingVars
  BY <1>3 DEF bookingVars, CodeNeedsHolder
<1>4. ASSUME NEW c \in Calls, Refuse(c) \/ RefuseTarget(c) \/ RefuseWrite(c) \/ Crash(c)
      PROVE  UNCHANGED bookingVars
  BY <1>4, RefusalEnds
<1> QED BY <1>2, <1>3, <1>4 DEF Next, Settle, vars, Call, Decide, ClearTarget

LEMMA CodeInit == Init => CodeNeedsHolder
BY DEF Init, CodeNeedsHolder

\* A booking back in the pool has no start code: the release that clears the
\* pointer clears the code, and nothing else clears the pointer.
THEOREM NoCodeWithoutHolder == Spec => []CodeNeedsHolder
BY CodeInit, CodeStep, DecisionsHold, PTL DEF Spec

(***************************************************************************)
(* The two status columns, the pointer and the timeline tell one story, and *)
(* the executor implements BookingMachine.                                  *)
(*                                                                         *)
(* OnlyTheHolderIsLive and TimelineAgrees are not inductive: which row      *)
(* words a commit may find depends on the status word beside them. RowsAgree *)
(* lists the pairs that occur; with it a call's snapshot names the holder's *)
(* row, so each commit's effect on the derived state can be computed.       *)
(***************************************************************************)
OpenWords == {"PENDING_OTP", "CONFIRMED", "PAID"}
HeldWords == {"WORKER_ASSIGNED", "EN_ROUTE", "ARRIVED"}

RowsAgree(b) ==
  LET holder == workerUid[b]
  IN  IF holder = NoOne THEN status[b] \in OpenWords \cup {"CANCELLED", "EXPIRED"}
      ELSE \/ status[b] \in HeldWords /\ newest[b][holder] \in LiveRows
           \/ status[b] \in {"COMPLETED", "CANCELLED"}

OthersClosed(b) ==
  \A q \in Providers :
    workerUid[b] # q => newest[b][q] \notin LiveRows /\ earlier[b][q] \cap LiveRows = {}

\* A reassignment under way is one to somebody else.
NotSameTarget ==
  \A c \in Calls :
    stage[c] \in {"decided", "cleared"} /\ request[c].action = "ADMIN_REASSIGN"
      /\ request[c].target # NoOne
        => request[c].target # loaded[c].provider

TablesInv ==
  /\ \A b \in Bookings : RowsAgree(b) /\ OthersClosed(b)
  /\ TimelineAgrees
  /\ NotSameTarget

\* What an action's sources come to, once the whitelist has had its say.
LEMMA SourcesOf ==
  ASSUME NEW r, NEW from \in BookingStates \ {"DISPUTED"}, Permitted(r, from)
  PROVE  /\ r.action = "CUSTOMER_CONFIRM_OTP" => from \in {"PENDING_OTP", "AWAITING_ASSIGNMENT"}
         /\ r.action \in ReleaseActions => from \in Cancellable
         /\ r.action \in AssignActions =>
              IF r.action = "ADMIN_REASSIGN" THEN from \in Cancellable
              ELSE from = "AWAITING_ASSIGNMENT"
         /\ r.action \in AcceptActions => from = "ASSIGNED"
         /\ r.action = "PROVIDER_EN_ROUTE" => from = "ACCEPTED"
         /\ r.action = "PROVIDER_ARRIVED" => from = "EN_ROUTE"
         /\ r.action = "PROVIDER_START" => from \in OnTheWay
         /\ r.action \in CompleteActions => from \in {"ASSIGNED", "ACCEPTED", "IN_PROGRESS"}
         /\ r.action \in CancelActions => from \in BookingStates \ TerminalStates
         /\ r.action = "SYSTEM_EXPIRE" => from = "PENDING_OTP"
<1>1. r.action \in ReleaseActions => from \in Cancellable
  BY DEF Permitted, CanTransition, Destination, DeclaredSources, ReleaseActions, Cancellable, OnTheWay
<1>2. r.action \in AssignActions =>
        IF r.action = "ADMIN_REASSIGN" THEN from \in Cancellable
        ELSE from = "AWAITING_ASSIGNMENT"
  BY DEF Permitted, DeclaredSources, AssignActions
<1>3. r.action \in AcceptActions => from = "ASSIGNED"
  BY DEF Permitted, CanTransition, Destination, ReleaseActions, AssignActions, AcceptActions
<1>4. r.action = "CUSTOMER_CONFIRM_OTP" => from \in {"PENDING_OTP", "AWAITING_ASSIGNMENT"}
  BY DEF Permitted, DeclaredSources
<1>5. r.action = "PROVIDER_EN_ROUTE" => from = "ACCEPTED"
  BY DEF Permitted, CanTransition, Destination, ReleaseActions, AssignActions, AcceptActions
<1>6. r.action = "PROVIDER_ARRIVED" => from = "EN_ROUTE"
  BY DEF Permitted, CanTransition, Destination, ReleaseActions, AssignActions, AcceptActions
<1>7. r.action = "PROVIDER_START" => from \in OnTheWay
  BY DEF Permitted, CanTransition, Destination, ReleaseActions, AssignActions, AcceptActions
<1>8. r.action \in CompleteActions => from \in {"ASSIGNED", "ACCEPTED", "IN_PROGRESS"}
  BY DEF Permitted, CanTransition, Destination, ReleaseActions, AssignActions, AcceptActions,
         CompleteActions
<1>9. r.action \in CancelActions => from \in BookingStates \ TerminalStates
  BY NothingLeavesTerminal
<1>10. r.action = "SYSTEM_EXPIRE" => from = "PENDING_OTP"
  BY DEF Permitted, CanTransition, Destination, ReleaseActions, AssignActions, AcceptActions,
         CompleteActions, CancelActions
<1> QED BY <1>1, <1>2, <1>3, <1>4, <1>5, <1>6, <1>7, <1>8, <1>9, <1>10

\* Where each kind of action leads.
LEMMA DestinationsByKind ==
  ASSUME NEW a
  PROVE  /\ a \in {"CUSTOMER_CONFIRM_OTP"} \cup ReleaseActions => Destination(a) = "AWAITING_ASSIGNMENT"
         /\ a \in AssignActions => Destination(a) = "ASSIGNED"
         /\ a \in AcceptActions => Destination(a) = "ACCEPTED"
         /\ a = "PROVIDER_EN_ROUTE" => Destination(a) = "EN_ROUTE"
         /\ a = "PROVIDER_ARRIVED" => Destination(a) = "ARRIVED"
         /\ a = "PROVIDER_START" => Destination(a) = "IN_PROGRESS"
         /\ a \in CompleteActions => Destination(a) = "COMPLETED"
         /\ a \in CancelActions => Destination(a) = "CANCELLED"
         /\ a = "SYSTEM_EXPIRE" => Destination(a) = "EXPIRED"
BY DEF Destination, ReleaseActions, AssignActions, AcceptActions, CompleteActions, CancelActions

\* The derivation on the pairs of columns that occur.
LEMMA DeriveOpen ==
  ASSUME NEW bs \in OpenWords
  PROVE  DeriveCanonicalState(bs, "NONE", FALSE, FALSE) =
           IF bs = "PENDING_OTP" THEN "PENDING_OTP" ELSE "AWAITING_ASSIGNMENT"
BY DEF OpenWords, DeriveCanonicalState, ProviderStages, OnTheWay

LEMMA DeriveHeld ==
  ASSUME NEW bs \in HeldWords, NEW ws \in LiveRows
  PROVE  DeriveCanonicalState(bs, ws, TRUE, FALSE) = ws
BY DEF HeldWords, LiveRows, Cancellable, DeriveCanonicalState, ProviderStages, OnTheWay

LEMMA DeriveFinished ==
  ASSUME NEW bs \in {"COMPLETED", "CANCELLED", "EXPIRED"}, NEW ws, NEW hw
  PROVE  DeriveCanonicalState(bs, ws, hw, FALSE) = bs
BY DEF DeriveCanonicalState

\* The derived state of a booking whose columns agree, case by case.
LEMMA StateOfColumns ==
  ASSUME NoDisputedRow, NEW b \in Bookings
  PROVE  /\ workerUid[b] = NoOne /\ status[b] = "PENDING_OTP" => CanonicalState(b) = "PENDING_OTP"
         /\ workerUid[b] = NoOne /\ status[b] \in {"CONFIRMED", "PAID"}
              => CanonicalState(b) = "AWAITING_ASSIGNMENT"
         /\ workerUid[b] # NoOne /\ status[b] \in HeldWords /\ newest[b][workerUid[b]] \in LiveRows
              => CanonicalState(b) = newest[b][workerUid[b]]
         /\ status[b] \in {"COMPLETED", "CANCELLED", "EXPIRED"} => CanonicalState(b) = status[b]
<1>1. HasEscalation(b) = FALSE
  BY DEF NoDisputedRow, HasEscalation
<1>2. CanonicalState(b) =
        DeriveCanonicalState(status[b], AssignmentStatus(b), workerUid[b] # NoOne, FALSE)
  BY <1>1 DEF CanonicalState
<1>3. workerUid[b] = NoOne => AssignmentStatus(b) = "NONE" /\ (workerUid[b] # NoOne) = FALSE
  BY DEF AssignmentStatus
<1>4. workerUid[b] # NoOne =>
        AssignmentStatus(b) = newest[b][workerUid[b]] /\ (workerUid[b] # NoOne) = TRUE
  BY DEF AssignmentStatus
<1>5. workerUid[b] = NoOne /\ status[b] \in OpenWords =>
        CanonicalState(b) = IF status[b] = "PENDING_OTP" THEN "PENDING_OTP" ELSE "AWAITING_ASSIGNMENT"
  BY <1>2, <1>3, DeriveOpen
<1>6. workerUid[b] # NoOne /\ status[b] \in HeldWords /\ newest[b][workerUid[b]] \in LiveRows
        => CanonicalState(b) = newest[b][workerUid[b]]
  BY <1>2, <1>4, DeriveHeld
<1>7. status[b] \in {"COMPLETED", "CANCELLED", "EXPIRED"} => CanonicalState(b) = status[b]
  BY <1>2, DeriveFinished
<1> QED BY <1>5, <1>6, <1>7 DEF OpenWords

\* Read backwards: what an unfinished state says of the columns.
LEMMA ColumnsOfState ==
  ASSUME NoDisputedRow, NEW b \in Bookings, RowsAgree(b)
  PROVE  /\ CanonicalState(b) = "PENDING_OTP" => workerUid[b] = NoOne /\ status[b] = "PENDING_OTP"
         /\ CanonicalState(b) = "AWAITING_ASSIGNMENT"
              => workerUid[b] = NoOne /\ status[b] \in {"CONFIRMED", "PAID"}
         /\ CanonicalState(b) \in LiveRows =>
              /\ workerUid[b] # NoOne
              /\ status[b] \in HeldWords
              /\ newest[b][workerUid[b]] = CanonicalState(b)
         /\ CanonicalState(b) \in TerminalStates <=> status[b] \in NON_OCCUPYING_STATUSES
<1>1. CASE workerUid[b] = NoOne /\ status[b] \in OpenWords
  BY <1>1, StateOfColumns DEF OpenWords, LiveRows, Cancellable, OnTheWay, TerminalStates,
     NON_OCCUPYING_STATUSES
<1>2. CASE workerUid[b] # NoOne /\ status[b] \in HeldWords /\ newest[b][workerUid[b]] \in LiveRows
  BY <1>2, StateOfColumns DEF HeldWords, LiveRows, Cancellable, OnTheWay, TerminalStates,
     NON_OCCUPYING_STATUSES
<1>3. CASE status[b] \in {"COMPLETED", "CANCELLED", "EXPIRED"}
  BY <1>3, StateOfColumns DEF LiveRows, Cancellable, OnTheWay, TerminalStates,
     NON_OCCUPYING_STATUSES
<1> QED BY <1>1, <1>2, <1>3 DEF RowsAgree

\* What a call about to change a booking knows of it.
LEMMA ChangingFinds ==
  ASSUME DecisionInv, NEW c \in Calls, stage[c] \in {"decided", "cleared"}, Changing(c),
         NEW b \in Bookings, b = request[c].booking
  PROVE  /\ loaded[c].provider = workerUid[b]
         /\ loaded[c].state = CanonicalState(b)
         /\ CanonicalState(b) \in BookingStates \ {"DISPUTED"}
         /\ Permitted(request[c], CanonicalState(b))
<1>1. loaded[c] = Snapshot(b)
  BY DEF DecisionInv, DecisionStillCurrent
<1>2. loaded[c].provider = workerUid[b] /\ loaded[c].state = CanonicalState(b)
  BY <1>1 DEF Snapshot
<1>3. Permitted(request[c], CanonicalState(b))
  BY <1>2 DEF DecisionInv, DecisionLegal, Changing
<1>4. CanonicalState(b) # "DISPUTED"
  <2>1. HasEscalation(b) = FALSE
    BY DEF DecisionInv, NoDisputedRow, HasEscalation
  <2> QED BY <2>1 DEF CanonicalState, DeriveCanonicalState, ProviderStages, OnTheWay
<1>5. CanonicalState(b) \in BookingStates
  BY CanonicalType DEF DecisionInv
<1> QED BY <1>2, <1>3, <1>4, <1>5

\* The same, of the columns a step leaves behind.
LEMMA NextStateOfColumns ==
  ASSUME NoDisputedRow', NEW b \in Bookings
  PROVE  /\ workerUid'[b] = NoOne /\ status'[b] \in {"CONFIRMED", "PAID"}
              => CanonicalState(b)' = "AWAITING_ASSIGNMENT"
         /\ workerUid'[b] # NoOne /\ status'[b] \in HeldWords /\ newest'[b][workerUid'[b]] \in LiveRows
              => CanonicalState(b)' = newest'[b][workerUid'[b]]
         /\ status'[b] \in {"COMPLETED", "CANCELLED", "EXPIRED"} => CanonicalState(b)' = status'[b]
<1>1. HasEscalation(b)' = FALSE
  BY DEF NoDisputedRow, HasEscalation
<1>2. CanonicalState(b)' =
        DeriveCanonicalState(status'[b], AssignmentStatus(b)', workerUid'[b] # NoOne, FALSE)
  BY <1>1 DEF CanonicalState
<1>3. workerUid'[b] = NoOne => AssignmentStatus(b)' = "NONE" /\ (workerUid'[b] # NoOne) = FALSE
  BY DEF AssignmentStatus
<1>4. workerUid'[b] # NoOne =>
        AssignmentStatus(b)' = newest'[b][workerUid'[b]] /\ (workerUid'[b] # NoOne) = TRUE
  BY DEF AssignmentStatus
<1>5. workerUid'[b] = NoOne /\ status'[b] \in OpenWords =>
        CanonicalState(b)' = IF status'[b] = "PENDING_OTP" THEN "PENDING_OTP" ELSE "AWAITING_ASSIGNMENT"
  BY <1>2, <1>3, DeriveOpen
<1>6. workerUid'[b] # NoOne /\ status'[b] \in HeldWords /\ newest'[b][workerUid'[b]] \in LiveRows
        => CanonicalState(b)' = newest'[b][workerUid'[b]]
  BY <1>2, <1>4, DeriveHeld
<1>7. status'[b] \in {"COMPLETED", "CANCELLED", "EXPIRED"} => CanonicalState(b)' = status'[b]
  BY <1>2, DeriveFinished
<1> QED BY <1>5, <1>6, <1>7 DEF OpenWords

\* UPDATE ... WHERE booking_id AND worker_uid, on a provider with a row.
LEMMA SetRowsEffect ==
  ASSUME TypeOK, NEW b \in Bookings, NEW p \in Providers, NEW w,
         newest[b][p] # "NONE", SetRows(b, p, w)
  PROVE  /\ newest'[b][p] = w
         /\ earlier'[b][p] \subseteq {w}
         /\ \A q \in Providers \ {p} : newest'[b][q] = newest[b][q] /\ earlier'[b][q] = earlier[b][q]
<1>1. p # NoOne
  BY NullsAssumption
<1>2. newest' = [newest EXCEPT ![b] = [newest[b] EXCEPT ![p] =
                   IF newest[b][p] = "NONE" THEN newest[b][p] ELSE w]]
  BY <1>1 DEF SetRows
<1>3. earlier' = [earlier EXCEPT ![b] = [earlier[b] EXCEPT ![p] =
                    IF earlier[b][p] = {} THEN earlier[b][p] ELSE {w}]]
  BY <1>1 DEF SetRows
<1>4. newest'[b] = [newest[b] EXCEPT ![p] = w]
  BY <1>2 DEF TypeOK
<1>5. earlier'[b] = [earlier[b] EXCEPT ![p] = IF earlier[b][p] = {} THEN earlier[b][p] ELSE {w}]
  BY <1>3 DEF TypeOK
<1>6. newest[b] \in [Providers -> RowStatuses \cup {"NONE"}] /\ earlier[b] \in [Providers -> SUBSET RowStatuses]
  BY DEF TypeOK
<1>7. earlier'[b][p] = IF earlier[b][p] = {} THEN earlier[b][p] ELSE {w}
  BY <1>5, <1>6
<1> QED BY <1>4, <1>5, <1>6, <1>7

(***************************************************************************)
(* What each commit leaves behind on its own booking.                       *)
(***************************************************************************)
Lands(b, to) == RowsAgree(b)' /\ OthersClosed(b)' /\ CanonicalState(b)' = to

\* The holder's row moves from one live word to another.
LEMMA LandsHeld ==
  ASSUME DecisionInv, DecisionInv', TablesInv, NEW b \in Bookings, NEW to \in LiveRows,
         CanonicalState(b) \in LiveRows, SetRows(b, workerUid[b], to),
         UNCHANGED workerUid, status'[b] \in HeldWords
  PROVE  Lands(b, to)
<1> DEFINE h == workerUid[b]
<1>1. TypeOK /\ NoDisputedRow /\ NoDisputedRow' /\ RowsAgree(b) /\ OthersClosed(b)
  BY DEF DecisionInv, TablesInv
<1>2. h # NoOne /\ newest[b][h] = CanonicalState(b)
  BY <1>1, ColumnsOfState
<1>3. h \in Providers /\ newest[b][h] # "NONE"
  BY <1>1, <1>2 DEF TypeOK, LiveRows, Cancellable, OnTheWay
<1>4. newest'[b][h] = to /\ \A q \in Providers \ {h} : newest'[b][q] = newest[b][q] /\ earlier'[b][q] = earlier[b][q]
  BY <1>1, <1>3, SetRowsEffect
<1>5. workerUid'[b] = h
  OBVIOUS
<1>6. CanonicalState(b)' = to
  BY <1>1, <1>2, <1>4, <1>5, NextStateOfColumns
<1>7. RowsAgree(b)'
  BY <1>2, <1>4, <1>5 DEF RowsAgree
<1>8. OthersClosed(b)'
  BY <1>1, <1>4, <1>5 DEF OthersClosed
<1> QED BY <1>6, <1>7, <1>8 DEF Lands

LEMMA LandsCommit ==
  ASSUME DecisionInv, DecisionInv', TablesInv, NEW c \in Calls, Commit(c), Changing(c),
         NEW b \in Bookings, b = request[c].booking
  PROVE  Lands(b, Destination(request[c].action))
<1> DEFINE r == request[c]
           h == workerUid[b]
           s == CanonicalState(b)
<1>1. /\ TypeOK /\ TypeOK' /\ NoDisputedRow /\ NoDisputedRow' /\ RowsAgree(b) /\ OthersClosed(b)
      /\ stage[c] \in {"decided", "cleared"}
  BY CommitRecords DEF DecisionInv, TablesInv
<1>2. /\ loaded[c].provider = h /\ loaded[c].state = s
      /\ s \in BookingStates \ {"DISPUTED"} /\ Permitted(r, s)
  BY <1>1, ChangingFinds
<1>3. h \in Providers \cup {NoOne}
  BY <1>1 DEF TypeOK
<1>4. \A w : SetStatus(b, w) => status'[b] = w
  BY <1>1 DEF SetStatus, TypeOK
<1>10. CASE CommitConfirmOtp(c)
  <2>1. r.action = "CUSTOMER_CONFIRM_OTP" /\ SetStatus(b, "CONFIRMED")
        /\ UNCHANGED workerUid /\ UNCHANGED newest /\ UNCHANGED earlier
    BY <1>10 DEF CommitConfirmOtp, Commits
  <2>2. s \in {"PENDING_OTP", "AWAITING_ASSIGNMENT"}
    BY <1>2, <2>1, SourcesOf
  <2>3. h = NoOne
    BY <1>1, <2>2, ColumnsOfState
  <2>4. status'[b] = "CONFIRMED" /\ workerUid'[b] = NoOne
    BY <1>4, <2>1, <2>3
  <2>5. CanonicalState(b)' = "AWAITING_ASSIGNMENT"
    BY <1>1, <2>4, NextStateOfColumns
  <2>6. RowsAgree(b)'
    BY <2>4 DEF RowsAgree, OpenWords
  <2>7. OthersClosed(b)'
    BY <1>1, <2>1 DEF OthersClosed
  <2>8. Destination(r.action) = "AWAITING_ASSIGNMENT"
    BY <2>1, DestinationsByKind
  <2> QED BY <2>5, <2>6, <2>7, <2>8 DEF Lands
<1>20. CASE CommitRelease(c)
  <2> DEFINE word == IF r.action = "PROVIDER_DECLINE" THEN "DECLINED" ELSE "CANCELLED"
  <2>1. r.action \in ReleaseActions
    BY <1>20 DEF CommitRelease, Commits
  <2>2. s \in LiveRows
    BY <1>2, <2>1, SourcesOf DEF LiveRows
  <2>3. h # NoOne /\ newest[b][h] = s
    BY <1>1, <2>2, ColumnsOfState
  <2>4. SetRows(b, h, word) /\ SetStatus(b, "CONFIRMED") /\ workerUid' = [workerUid EXCEPT ![b] = NoOne]
    BY <1>2, <1>20, <2>3 DEF CommitRelease
  <2>5. word \notin LiveRows
    BY DEF LiveRows, Cancellable, OnTheWay
  <2>6. h \in Providers /\ newest[b][h] # "NONE"
    BY <1>3, <2>2, <2>3 DEF LiveRows, Cancellable, OnTheWay
  <2>7. status'[b] = "CONFIRMED" /\ workerUid'[b] = NoOne
    BY <1>1, <1>4, <2>4 DEF TypeOK
  <2> HIDE DEF word
  <2>8. /\ newest'[b][h] = word /\ earlier'[b][h] \subseteq {word}
        /\ \A q \in Providers \ {h} : newest'[b][q] = newest[b][q] /\ earlier'[b][q] = earlier[b][q]
    BY <1>1, <2>4, <2>6, SetRowsEffect
  <2>9. OthersClosed(b)'
    BY <1>1, <2>5, <2>8 DEF OthersClosed
  <2>10. RowsAgree(b)'
    BY <2>7 DEF RowsAgree, OpenWords
  <2>11. CanonicalState(b)' = "AWAITING_ASSIGNMENT"
    BY <1>1, <2>7, NextStateOfColumns
  <2>12. Destination(r.action) = "AWAITING_ASSIGNMENT"
    BY <2>1, DestinationsByKind
  <2> QED BY <2>9, <2>10, <2>11, <2>12 DEF Lands
<1>30. CASE CommitAssign(c)
  <2> DEFINE t == r.target
             closes(p) == p = Outgoing(c) /\ newest[b][p] # "NONE"
  <2>1. r.action \in AssignActions /\ stage[c] = "cleared" /\ MayWrite(c)
    BY <1>30 DEF CommitAssign, Commits, Writing
  <2>2. t \in Providers /\ t # NoOne
    BY <2>1, NullsAssumption DEF DecisionInv, TargetNamed
  <2>3. t # h
    <3>1. CASE r.action = "ADMIN_REASSIGN"
      BY <1>2, <2>1, <2>2, <3>1 DEF TablesInv, NotSameTarget
    <3>2. CASE r.action # "ADMIN_REASSIGN"
      <4>1. s = "AWAITING_ASSIGNMENT"
        BY <1>2, <2>1, <3>2, SourcesOf
      <4> QED BY <1>1, <2>2, <4>1, ColumnsOfState
    <3> QED BY <3>1, <3>2
  <2>4. Outgoing(c) = h
    BY <1>2, <2>3 DEF Outgoing
  <2>5. newest'[b] = [p \in Providers |-> IF p = t THEN "ASSIGNED"
                         ELSE IF closes(p) THEN OutgoingWord ELSE newest[b][p]]
    BY <1>1, <1>30 DEF CommitAssign, TypeOK
  <2>6. earlier'[b] = [p \in Providers |-> IF p = t THEN earlier[b][p] \cup ({newest[b][p]} \ {"NONE"})
                          ELSE IF closes(p) /\ earlier[b][p] # {} THEN {OutgoingWord} ELSE earlier[b][p]]
    BY <1>1, <1>30 DEF CommitAssign, TypeOK
  <2>7. SetStatus(b, "WORKER_ASSIGNED") /\ workerUid' = [workerUid EXCEPT ![b] = t]
    BY <1>30 DEF CommitAssign
  <2>8. status'[b] = "WORKER_ASSIGNED" /\ workerUid'[b] = t
    BY <1>1, <1>4, <2>7 DEF TypeOK
  <2>9. newest'[b][t] = "ASSIGNED"
    BY <2>2, <2>5
  <2>10. "ASSIGNED" \in LiveRows /\ "WORKER_ASSIGNED" \in HeldWords /\ OutgoingWord \notin LiveRows
    BY DEF LiveRows, Cancellable, OnTheWay, HeldWords, OutgoingWord
  <2>11. OthersClosed(b)'
    <3> SUFFICES ASSUME NEW q \in Providers, t # q
                 PROVE  newest'[b][q] \notin LiveRows /\ earlier'[b][q] \cap LiveRows = {}
      BY <2>8 DEF OthersClosed
    <3>1. newest'[b][q] = (IF closes(q) THEN OutgoingWord ELSE newest[b][q])
      BY <2>5
    <3>2. earlier'[b][q] = (IF closes(q) /\ earlier[b][q] # {} THEN {OutgoingWord} ELSE earlier[b][q])
      BY <2>6
    <3>3. CASE q # h
      BY <1>1, <2>4, <3>1, <3>2, <3>3 DEF OthersClosed
    <3>4. CASE q = h
      <4>1. newest[b][h] # "NONE" => newest'[b][q] = OutgoingWord /\ earlier'[b][q] \subseteq {OutgoingWord}
        BY <2>4, <3>1, <3>2, <3>4
      <4>2. newest[b][h] # "NONE"
        <5>1. h # NoOne
          BY <3>4, NullsAssumption
        <5>2. s # "AWAITING_ASSIGNMENT"
          BY <1>1, <5>1, ColumnsOfState
        <5>3. s \in LiveRows
          BY <1>2, <2>1, <5>2, SourcesOf DEF LiveRows
        <5> QED BY <1>1, <5>3, ColumnsOfState DEF LiveRows, Cancellable, OnTheWay
      <4> QED BY <2>10, <4>1, <4>2
    <3> QED BY <3>3, <3>4
  <2>12. RowsAgree(b)'
    BY <2>2, <2>8, <2>9, <2>10 DEF RowsAgree
  <2>13. CanonicalState(b)' = "ASSIGNED"
    BY <1>1, <2>2, <2>8, <2>9, <2>10, NextStateOfColumns
  <2>14. Destination(r.action) = "ASSIGNED"
    BY <2>1, DestinationsByKind
  <2> QED BY <2>11, <2>12, <2>13, <2>14 DEF Lands
<1>40. CASE CommitAccept(c)
  <2>1. r.action \in AcceptActions /\ SetRows(b, h, "ACCEPTED") /\ UNCHANGED status /\ UNCHANGED workerUid
    BY <1>2, <1>40 DEF CommitAccept, Commits
  <2>2. s \in LiveRows /\ "ACCEPTED" \in LiveRows
    BY <1>2, <2>1, SourcesOf DEF LiveRows, Cancellable, OnTheWay
  <2>3. status'[b] \in HeldWords
    BY <1>1, <2>1, <2>2, ColumnsOfState
  <2>4. Destination(r.action) = "ACCEPTED"
    BY <2>1, DestinationsByKind
  <2> QED BY <2>1, <2>2, <2>3, <2>4, LandsHeld
<1>50. CASE CommitArrival(c)
  <2> DEFINE to == Destination(r.action)
  <2>1. r.action \in {"PROVIDER_EN_ROUTE", "PROVIDER_ARRIVED"} /\ UNCHANGED workerUid
    BY <1>50 DEF CommitArrival, Commits
  <2>2. SetRows(b, h, to) /\ (h # NoOne => SetStatus(b, to))
    BY <1>2, <1>50 DEF CommitArrival
  <2>3. s \in LiveRows
    BY <1>2, <2>1, SourcesOf DEF LiveRows, Cancellable, OnTheWay
  <2>4. to \in LiveRows /\ to \in HeldWords
    BY <2>1, DestinationsByKind DEF LiveRows, Cancellable, OnTheWay, HeldWords
  <2> HIDE DEF to
  <2>5. status'[b] \in HeldWords
    BY <1>1, <1>4, <2>2, <2>3, <2>4, ColumnsOfState
  <2>6. Lands(b, to)
    BY <2>1, <2>2, <2>3, <2>4, <2>5, LandsHeld
  <2> QED BY <2>6 DEF to
<1>60. CASE CommitStart(c)
  <2>1. r.action = "PROVIDER_START" /\ SetRows(b, h, "IN_PROGRESS") /\ UNCHANGED status /\ UNCHANGED workerUid
    BY <1>2, <1>60 DEF CommitStart, Commits
  <2>2. s \in LiveRows /\ "IN_PROGRESS" \in LiveRows
    BY <1>2, <2>1, SourcesOf DEF LiveRows, Cancellable, OnTheWay
  <2>3. status'[b] \in HeldWords
    BY <1>1, <2>1, <2>2, ColumnsOfState
  <2>4. Destination(r.action) = "IN_PROGRESS"
    BY <2>1, DestinationsByKind
  <2> QED BY <2>1, <2>2, <2>3, <2>4, LandsHeld
<1>70. CASE CommitComplete(c)
  <2>1. r.action \in CompleteActions /\ SetStatus(b, "COMPLETED") /\ SetRows(b, h, "COMPLETED")
        /\ UNCHANGED workerUid
    BY <1>2, <1>70 DEF CommitComplete, Commits
  <2>2. s \in LiveRows
    BY <1>2, <2>1, SourcesOf DEF LiveRows, Cancellable, OnTheWay
  <2>3. h # NoOne /\ newest[b][h] = s
    BY <1>1, <2>2, ColumnsOfState
  <2>4. h \in Providers /\ newest[b][h] # "NONE"
    BY <1>3, <2>2, <2>3 DEF LiveRows, Cancellable, OnTheWay
  <2>5. \A q \in Providers \ {h} : newest'[b][q] = newest[b][q] /\ earlier'[b][q] = earlier[b][q]
    BY <1>1, <2>1, <2>4, SetRowsEffect
  <2>6. status'[b] = "COMPLETED" /\ workerUid'[b] = h
    BY <1>4, <2>1
  <2>7. RowsAgree(b)' /\ CanonicalState(b)' = "COMPLETED"
    BY <1>1, <2>3, <2>6, NextStateOfColumns DEF RowsAgree
  <2>8. OthersClosed(b)'
    BY <1>1, <2>5, <2>6 DEF OthersClosed
  <2>9. Destination(r.action) = "COMPLETED"
    BY <2>1, DestinationsByKind
  <2> QED BY <2>7, <2>8, <2>9 DEF Lands
<1>80. CASE CommitCancel(c)
  <2>1. r.action \in CancelActions /\ SetStatus(b, "CANCELLED") /\ UNCHANGED workerUid
    BY <1>80 DEF CommitCancel, Commits
  <2>2. newest'[b] = [p \in Providers |-> CancelledRow(newest[b][p])]
    BY <1>1, <1>80 DEF CommitCancel, TypeOK
  <2>3. earlier'[b] = [p \in Providers |-> {CancelledRow(w) : w \in earlier[b][p]}]
    BY <1>1, <1>80 DEF CommitCancel, TypeOK
  <2>4. \A w : w \notin LiveRows => CancelledRow(w) \notin LiveRows
    BY DEF CancelledRow, LiveRows, Cancellable, OnTheWay
  <2>5. OthersClosed(b)'
    <3> SUFFICES ASSUME NEW q \in Providers, workerUid[b] # q
                 PROVE  newest'[b][q] \notin LiveRows /\ earlier'[b][q] \cap LiveRows = {}
      BY <2>1 DEF OthersClosed
    <3>1. newest[b][q] \notin LiveRows /\ \A w \in earlier[b][q] : w \notin LiveRows
      BY <1>1 DEF OthersClosed
    <3>2. newest'[b][q] = CancelledRow(newest[b][q])
      BY <2>2
    <3>3. earlier'[b][q] = {CancelledRow(w) : w \in earlier[b][q]}
      BY <2>3
    <3> QED BY <2>4, <3>1, <3>2, <3>3
  <2>6. status'[b] = "CANCELLED"
    BY <1>4, <2>1
  <2>7. RowsAgree(b)' /\ CanonicalState(b)' = "CANCELLED"
    BY <1>1, <2>6, NextStateOfColumns DEF RowsAgree
  <2>8. Destination(r.action) = "CANCELLED"
    BY <2>1, DestinationsByKind
  <2> QED BY <2>5, <2>7, <2>8 DEF Lands
<1>90. CASE CommitExpire(c)
  <2>1. /\ r.action = "SYSTEM_EXPIRE" /\ SetStatus(b, "EXPIRED")
        /\ UNCHANGED workerUid /\ UNCHANGED newest /\ UNCHANGED earlier
    BY <1>90 DEF CommitExpire, Commits
  <2>2. s = "PENDING_OTP"
    BY <1>2, <2>1, SourcesOf
  <2>3. h = NoOne
    BY <1>1, <2>2, ColumnsOfState
  <2>4. status'[b] = "EXPIRED" /\ workerUid'[b] = NoOne
    BY <1>4, <2>1, <2>3
  <2>5. RowsAgree(b)' /\ CanonicalState(b)' = "EXPIRED"
    BY <1>1, <2>4, NextStateOfColumns DEF RowsAgree
  <2>6. OthersClosed(b)'
    BY <1>1, <2>1 DEF OthersClosed
  <2>7. Destination(r.action) = "EXPIRED"
    BY <2>1, DestinationsByKind
  <2> QED BY <2>5, <2>6, <2>7 DEF Lands
<1>100. ~CommitEvent(c)
  BY DEF CommitEvent
<1> QED
  BY <1>10, <1>20, <1>30, <1>40, <1>50, <1>60, <1>70, <1>80, <1>90, <1>100 DEF Commit

\* An administrative record writes its timeline row and moves no column.
LEMMA EventKeepsColumns ==
  ASSUME NEW c \in Calls, Commit(c), ~Changing(c)
  PROVE  /\ UNCHANGED status /\ UNCHANGED workerUid /\ UNCHANGED newest /\ UNCHANGED earlier
         /\ Record(c, loaded[c].state)
BY DEF Commit, CommitConfirmOtp, CommitRelease, CommitAssign, CommitAccept, CommitArrival,
       CommitStart, CommitComplete, CommitCancel, CommitExpire, CommitEvent, Commits

\* The rows before the newest of other bookings stay too.
LEMMA CommitLeavesEarlier ==
  ASSUME TypeOK, NEW c \in Calls, Commit(c),
         NEW b \in Bookings, b # request[c].booking
  PROVE  earlier'[b] = earlier[b]
<1>1. ASSUME NEW p, NEW w, SetRows(request[c].booking, p, w)
      PROVE  earlier'[b] = earlier[b]
  BY <1>1 DEF SetRows, TypeOK
<1>2. CASE CommitConfirmOtp(c) \/ CommitExpire(c) \/ CommitEvent(c)
  BY <1>2 DEF CommitConfirmOtp, CommitExpire, CommitEvent
<1>3. CASE CommitRelease(c)
  BY <1>1, <1>3 DEF CommitRelease
<1>4. CASE CommitAssign(c)
  BY <1>4 DEF CommitAssign, TypeOK
<1>5. CASE CommitAccept(c) \/ CommitArrival(c) \/ CommitStart(c) \/ CommitComplete(c)
  BY <1>1, <1>5 DEF CommitAccept, CommitArrival, CommitStart, CommitComplete
<1>6. CASE CommitCancel(c)
  BY <1>6 DEF CommitCancel, TypeOK
<1> QED BY <1>2, <1>3, <1>4, <1>5, <1>6 DEF Commit

\* Where the derived state of each booking is after a commit.
LEMMA CommitStates ==
  ASSUME DecisionInv, DecisionInv', TablesInv, NEW c \in Calls, Commit(c), NEW b \in Bookings
  PROVE  CanonicalState(b)' = IF b = request[c].booking /\ Changing(c)
                              THEN Destination(request[c].action) ELSE CanonicalState(b)
<1>1. CASE b = request[c].booking /\ Changing(c)
  BY <1>1, LandsCommit DEF Lands
<1>2. CASE b # request[c].booking
  <2>1. Snapshot(b)' = Snapshot(b)
    BY <1>2, CommitTouchesOneBooking, SnapshotDependsOn DEF DecisionInv
  <2> QED BY <1>2, <2>1 DEF Snapshot
<1>3. CASE ~Changing(c)
  <2>1. UNCHANGED status /\ UNCHANGED workerUid /\ UNCHANGED newest
    BY <1>3, EventKeepsColumns
  <2>2. HasEscalation(b)' = HasEscalation(b)
    BY DEF DecisionInv, NoDisputedRow, HasEscalation
  <2>3. CanonicalState(b)' = CanonicalState(b)
    BY <2>1, <2>2 DEF CanonicalState, AssignmentStatus
  <2> QED BY <1>3, <2>3
<1> QED BY <1>1, <1>2, <1>3

LEMMA TablesInit == Init => TablesInv
<1> SUFFICES ASSUME Init PROVE TablesInv
  OBVIOUS
<1>1. ASSUME NEW b \in Bookings
      PROVE  RowsAgree(b) /\ OthersClosed(b) /\ toState[b] = "NONE"
  <2>1. workerUid[b] = NoOne /\ status[b] \in {"PENDING_OTP", "PAID"} /\ toState[b] = "NONE"
    BY DEF Init
  <2>2. \A q \in Providers : newest[b][q] = "NONE" /\ earlier[b][q] = {}
    BY DEF Init
  <2> QED BY <2>1, <2>2 DEF RowsAgree, OpenWords, OthersClosed, LiveRows, Cancellable, OnTheWay
<1>2. NotSameTarget
  BY DEF Init, NotSameTarget
<1> QED BY <1>1, <1>2 DEF TablesInv, TimelineAgrees

\* A step that writes no table keeps their agreement.
LEMMA TablesStay ==
  ASSUME TablesInv, UNCHANGED bookingVars, NotSameTarget'
  PROVE  TablesInv'
<1>1. \A b \in Bookings : RowsAgree(b)' /\ OthersClosed(b)'
  BY DEF TablesInv, RowsAgree, OthersClosed, bookingVars
<1>2. TimelineAgrees'
  BY DEF TablesInv, TimelineAgrees, CanonicalState, AssignmentStatus, HasEscalation, bookingVars
<1> QED BY <1>1, <1>2 DEF TablesInv

LEMMA CommitKeepsTables ==
  ASSUME DecisionInv, DecisionInv', TablesInv, NEW c \in Calls, Commit(c)
  PROVE  TablesInv'
<1> DEFINE bc == request[c].booking
<1>1. TypeOK /\ stage[c] \in {"decided", "cleared"} /\ bc \in Bookings /\ End(c)
  BY CommitRecords, RequestFields DEF DecisionInv, Record
<1>2. ASSUME NEW b \in Bookings
      PROVE  RowsAgree(b)' /\ OthersClosed(b)'
  <2>1. CASE b = bc /\ Changing(c)
    BY <2>1, LandsCommit DEF Lands
  <2>2. CASE b # bc
    <3>1. /\ status'[b] = status[b] /\ workerUid'[b] = workerUid[b] /\ newest'[b] = newest[b]
          /\ earlier'[b] = earlier[b]
      BY <1>1, <2>2, CommitTouchesOneBooking, CommitLeavesEarlier
    <3> QED BY <3>1 DEF TablesInv, RowsAgree, OthersClosed
  <2>3. CASE ~Changing(c)
    BY <2>3, EventKeepsColumns DEF TablesInv, RowsAgree, OthersClosed
  <2> QED BY <2>1, <2>2, <2>3
<1>3. ASSUME NEW b \in Bookings
      PROVE  toState'[b] \in {"NONE", CanonicalState(b)'}
  <2>1. CASE b # bc
    <3>1. toState'[b] = toState[b]
      BY <1>1, <2>1, CommitTouchesOneBooking
    <3>2. CanonicalState(b)' = CanonicalState(b)
      BY <2>1, CommitStates
    <3> QED BY <3>1, <3>2 DEF TablesInv, TimelineAgrees
  <2>2. CASE b = bc /\ Changing(c)
    <3>1. Record(c, Destination(request[c].action))
      BY <2>2 DEF Commit, CommitConfirmOtp, CommitRelease, CommitAssign, CommitAccept,
           CommitArrival, CommitStart, CommitComplete, CommitCancel, CommitExpire, CommitEvent,
           Commits
    <3>2. toState'[b] = Destination(request[c].action)
      BY <1>1, <2>2, <3>1 DEF Record, TypeOK
    <3> QED BY <2>2, <3>2, CommitStates
  <2>3. CASE b = bc /\ ~Changing(c)
    <3>1. Record(c, loaded[c].state)
      BY <2>3, EventKeepsColumns
    <3>2. toState'[b] = loaded[c].state
      BY <1>1, <2>3, <3>1 DEF Record, TypeOK
    <3>3. loaded[c].state = CanonicalState(b)
      <4>1. loaded[c] = Snapshot(b)
        BY <1>1, <2>3 DEF DecisionInv, DecisionStillCurrent
      <4> QED BY <4>1 DEF Snapshot
    <3>4. CanonicalState(b)' = CanonicalState(b)
      BY <2>3, CommitStates
    <3> QED BY <3>2, <3>3, <3>4
  <2> QED BY <2>1, <2>2, <2>3
<1>4. NotSameTarget'
  BY <1>1, EndLeavesOthers DEF TablesInv, NotSameTarget
<1> QED BY <1>2, <1>3, <1>4 DEF TablesInv, TimelineAgrees

LEMMA TablesStep ==
  ASSUME DecisionInv, DecisionInv', TablesInv, [Next]_vars
  PROVE  TablesInv'
<1>1. ASSUME NEW c \in Calls, NEW r \in Requests, Call(c, r)
      PROVE  TablesInv'
  <2>1. UNCHANGED bookingVars /\ loaded' = loaded
    BY <1>1 DEF Call
  <2>2. stage'[c] = "called" /\ \A d \in Calls \ {c} : stage'[d] = stage[d] /\ request'[d] = request[d]
    BY <1>1 DEF Call, DecisionInv, TypeOK
  <2>3. NotSameTarget'
    BY <2>1, <2>2 DEF TablesInv, NotSameTarget
  <2> QED BY <2>1, <2>3, TablesStay
<1>2. ASSUME NEW c \in Calls, Decide(c)
      PROVE  TablesInv'
  <2>1. UNCHANGED bookingVars /\ request' = request /\ stage[c] = "called" /\ Proceeds(request[c])
    BY <1>2 DEF Decide
  <2>2. \A d \in Calls \ {c} : stage'[d] = stage[d] /\ loaded'[d] = loaded[d]
    BY <1>2 DEF Decide, DecisionInv, TypeOK
  <2>3. loaded'[c].provider = workerUid[request[c].booking]
    BY <1>2 DEF Decide, Snapshot, DecisionInv, TypeOK
  <2>4. ~SameTarget(request[c])
    BY <2>1 DEF Proceeds
  <2>5. NotSameTarget'
    BY <2>1, <2>2, <2>3, <2>4 DEF TablesInv, NotSameTarget, SameTarget
  <2> QED BY <2>1, <2>5, TablesStay
<1>3. ASSUME NEW c \in Calls, ClearTarget(c)
      PROVE  TablesInv'
  <2>1. UNCHANGED bookingVars /\ request' = request /\ loaded' = loaded /\ stage[c] = "decided"
    BY <1>3 DEF ClearTarget
  <2>2. \A d \in Calls \ {c} : stage'[d] = stage[d]
    BY <1>3 DEF ClearTarget, DecisionInv, TypeOK
  <2>3. NotSameTarget'
    BY <2>1, <2>2 DEF TablesInv, NotSameTarget
  <2> QED BY <2>1, <2>3, TablesStay
<1>4. ASSUME NEW c \in Calls, Refuse(c) \/ RefuseTarget(c) \/ RefuseWrite(c) \/ Crash(c)
      PROVE  TablesInv'
  <2>1. End(c) /\ UNCHANGED bookingVars
    BY <1>4, RefusalEnds
  <2>2. NotSameTarget'
    BY <2>1, EndLeavesOthers DEF DecisionInv, TablesInv, NotSameTarget
  <2> QED BY <2>1, <2>2, TablesStay
<1>5. ASSUME NEW c \in Calls, Commit(c)
      PROVE  TablesInv'
  BY <1>5, CommitKeepsTables
<1>6. CASE UNCHANGED vars
  <2>1. UNCHANGED bookingVars
    BY <1>6 DEF vars
  <2>2. NotSameTarget'
    BY <1>6 DEF vars, callVars, TablesInv, NotSameTarget
  <2> QED BY <2>1, <2>2, TablesStay
<1> QED BY <1>1, <1>2, <1>3, <1>4, <1>5, <1>6 DEF Next, Settle

LEMMA TablesHold == Spec => []TablesInv
<1>1. DecisionInv /\ DecisionInv' /\ TablesInv /\ [Next]_vars => TablesInv'
  BY TablesStep
<1> QED BY <1>1, TablesInit, DecisionsHold, PTL DEF Spec

LEMMA TablesSayWhoIsLive ==
  ASSUME DecisionInv, TablesInv
  PROVE  OnlyTheHolderIsLive
<1> SUFFICES ASSUME NEW b \in Bookings, NEW p \in Providers
             PROVE  IF workerUid[b] = p
                    THEN CanonicalState(b) \in TerminalStates \/ newest[b][p] \in LiveRows
                    ELSE newest[b][p] \notin LiveRows /\ earlier[b][p] \cap LiveRows = {}
  BY DEF OnlyTheHolderIsLive
<1>1. NoDisputedRow /\ RowsAgree(b) /\ OthersClosed(b)
  BY DEF DecisionInv, TablesInv
<1>2. CASE workerUid[b] = p
  <2>1. workerUid[b] # NoOne
    BY <1>2, NullsAssumption
  <2>2. newest[b][p] \in LiveRows \/ status[b] \in {"COMPLETED", "CANCELLED"}
    BY <1>1, <1>2, <2>1 DEF RowsAgree
  <2>3. status[b] \in {"COMPLETED", "CANCELLED"} => CanonicalState(b) \in TerminalStates
    BY <1>1, ColumnsOfState DEF NON_OCCUPYING_STATUSES
  <2> QED BY <1>2, <2>2, <2>3
<1>3. CASE workerUid[b] # p
  BY <1>1, <1>3 DEF OthersClosed
<1> QED BY <1>2, <1>3

\* The assignment rows never outlive the pointer: whoever is in worker_uid has
\* the one live row of an unfinished booking, and nobody else has any.
THEOREM HolderAloneIsLive == Spec => []OnlyTheHolderIsLive
<1>1. DecisionInv /\ TablesInv => OnlyTheHolderIsLive
  BY TablesSayWhoIsLive
<1> QED BY <1>1, DecisionsHold, TablesHold, PTL

\* The last timeline row of a booking names the state its columns derive to.
THEOREM TimelineTellsTheState == Spec => []TimelineAgrees
<1>1. TablesInv => TimelineAgrees
  BY DEF TablesInv
<1> QED BY <1>1, TablesHold, PTL

(***************************************************************************)
(* The executor implements BookingMachine.                                  *)
(***************************************************************************)
\* A commit rewrites the abstract state of its own booking and of no other.
LEMMA CommitMoves ==
  ASSUME DecisionInv, DecisionInv', TablesInv, NEW c \in Calls, Commit(c), Changing(c),
         NEW b \in Bookings, b = request[c].booking
  PROVE  /\ canonicalStates' = [canonicalStates EXCEPT ![b] = Destination(request[c].action)]
         /\ canonicalStates[b] = CanonicalState(b)
         /\ schedule' = schedule
<1>1. \A x \in Bookings : CanonicalState(x)' =
        IF x = b THEN Destination(request[c].action) ELSE CanonicalState(x)
  BY CommitStates
<1>2. canonicalStates' = [x \in Bookings |-> CanonicalState(x)']
  BY DEF canonicalStates
<1> QED BY <1>1, <1>2, CommitRecords DEF canonicalStates, DecisionInv

\* A target without a conflicting booking is free in the abstract calendar.
LEMMA NoConflictIsFree ==
  ASSUME ExecutorInv, TablesInv, NEW b \in Bookings, NEW p \in Providers, ~HasConflict(b, p)
  PROVE  Machine!FreeFor(b, p)
<1> SUFFICES ASSUME NEW other \in Bookings \ {b}, Machine!Holds(other, p)
             PROVE  ~SpansOverlap(schedule[other], Duration[other], schedule[b], Duration[b])
  BY DEF Machine!FreeFor, Machine!SpansOverlap, SpansOverlap
<1>1. workerUid[other] = p /\ CanonicalState(other) \notin TerminalStates
  BY DEF Machine!Holds, canonicalStates, Machine!TerminalStates, TerminalStates
<1>2. NoDisputedRow /\ RowsAgree(other)
  BY DEF ExecutorInv, TablesInv
<1>3. Occupies(other, p)
  BY <1>1, <1>2, ColumnsOfState DEF Occupies
<1> QED BY <1>3 DEF HasConflict, Overlap

\* Every commit is one move of the machine, or none.
LEMMA CommitRefines ==
  ASSUME ExecutorInv, ExecutorInv', TablesInv, NEW c \in Calls, Commit(c)
  PROVE  [Machine!Next]_<<canonicalStates, workerUid, schedule>>
<1> DEFINE r == request[c]
           s == CanonicalState(r.booking)
<1>0. DecisionInv /\ DecisionInv'
  BY DEF ExecutorInv, DecisionInv, TargetNamed, TargetStaysFree
<1>1. PICK b \in Bookings : b = r.booking
  BY CommitRecords, RequestFields DEF ExecutorInv
<1>2. /\ TypeOK /\ NoDisputedRow /\ RowsAgree(b)
      /\ stage[c] \in {"decided", "cleared"} /\ schedule' = schedule
  BY CommitRecords DEF ExecutorInv, TablesInv
<1>3. CASE ~Changing(c)
  <2>1. workerUid' = workerUid
    BY <1>3, EventKeepsColumns
  <2>2. \A x \in Bookings : CanonicalState(x)' = CanonicalState(x)
    BY <1>0, <1>3, CommitStates
  <2>3. canonicalStates' = canonicalStates
    BY <2>2 DEF canonicalStates
  <2> QED BY <1>2, <2>1, <2>3
<1>4. CASE Changing(c)
  <2>1. /\ canonicalStates' = [canonicalStates EXCEPT ![b] = Destination(r.action)]
        /\ canonicalStates[b] = CanonicalState(b)
    BY <1>0, <1>1, <1>4, CommitMoves
  <2>2. /\ loaded[c].provider = workerUid[b] /\ CanonicalState(b) \in BookingStates \ {"DISPUTED"}
        /\ Permitted(r, CanonicalState(b))
    BY <1>0, <1>1, <1>2, <1>4, ChangingFinds
  <2>3. \A from : CanonicalState(b) \in from => Machine!Become(b, from, Destination(r.action))
    BY <1>2, <2>1 DEF Machine!Become
  <2>10. CASE CommitConfirmOtp(c)
    <3>1. r.action = "CUSTOMER_CONFIRM_OTP" /\ workerUid' = workerUid
      BY <2>10 DEF CommitConfirmOtp, Commits
    <3>2. CanonicalState(b) \in {"PENDING_OTP", "AWAITING_ASSIGNMENT"}
          /\ Destination(r.action) = "AWAITING_ASSIGNMENT"
      BY <2>2, <3>1, SourcesOf, DestinationsByKind
    <3>3. CASE CanonicalState(b) = "PENDING_OTP"
      <4>1. Machine!Become(b, {"PENDING_OTP"}, "AWAITING_ASSIGNMENT")
        BY <2>3, <3>2, <3>3
      <4>2. Machine!Confirm(b)
        BY <3>1, <4>1 DEF Machine!Confirm
      <4> QED BY <4>2 DEF Machine!Next
    <3>4. CASE CanonicalState(b) = "AWAITING_ASSIGNMENT"
      <4>1. canonicalStates' = canonicalStates
        BY <2>1, <3>2, <3>4 DEF canonicalStates
      <4> QED BY <1>2, <3>1, <4>1
    <3> QED BY <3>2, <3>3, <3>4
  <2>20. CASE CommitRelease(c)
    <3>1. r.action \in ReleaseActions
      BY <2>20 DEF CommitRelease, Commits
    <3>2. CanonicalState(b) \in Cancellable /\ Destination(r.action) = "AWAITING_ASSIGNMENT"
      BY <2>2, <3>1, SourcesOf, DestinationsByKind
    <3>3. workerUid[b] # NoOne
      BY <1>2, <3>2, ColumnsOfState DEF LiveRows
    <3>4. workerUid' = [workerUid EXCEPT ![b] = NoOne]
      BY <1>1, <2>2, <2>20, <3>3 DEF CommitRelease
    <3>5. Machine!Become(b, Machine!Cancellable, "AWAITING_ASSIGNMENT")
      BY <2>3, <3>2 DEF Machine!Cancellable, Cancellable, Machine!OnTheWay, OnTheWay
    <3>6. Machine!Release(b)
      BY <3>4, <3>5 DEF Machine!Release
    <3> QED BY <3>6 DEF Machine!Next
  <2>30. CASE CommitAssign(c)
    <3>1. r.action \in AssignActions /\ stage[c] = "cleared" /\ workerUid' = [workerUid EXCEPT ![b] = r.target]
      BY <1>1, <2>30 DEF CommitAssign, Commits, Writing
    <3>2. PICK p \in Providers : p = r.target
      BY <3>1 DEF ExecutorInv, TargetStaysFree
    <3>3. ~HasConflict(b, p)
      BY <1>1, <3>1, <3>2 DEF ExecutorInv, TargetStaysFree
    <3>4. Machine!FreeFor(b, p)
      BY <3>3, NoConflictIsFree
    <3>5. p # NoOne
      BY <3>2, NullsAssumption
    <3>6. CanonicalState(b) \in {"AWAITING_ASSIGNMENT"} \cup Cancellable /\ Destination(r.action) = "ASSIGNED"
      BY <2>2, <3>1, SourcesOf, DestinationsByKind
    <3>7. p # workerUid[b]
      <4>1. CASE r.action = "ADMIN_REASSIGN"
        BY <2>2, <3>1, <3>2, <3>5, <4>1 DEF TablesInv, NotSameTarget
      <4>2. CASE r.action # "ADMIN_REASSIGN"
        <5>1. CanonicalState(b) = "AWAITING_ASSIGNMENT"
          BY <2>2, <3>1, <4>2, SourcesOf
        <5> QED BY <1>2, <3>5, <5>1, ColumnsOfState
      <4> QED BY <4>1, <4>2
    <3>8. Machine!Become(b, {"AWAITING_ASSIGNMENT"} \cup Machine!Cancellable, "ASSIGNED")
      BY <2>3, <3>6 DEF Machine!Cancellable, Cancellable, Machine!OnTheWay, OnTheWay
    <3>9. Machine!Assign(b, p)
      BY <3>1, <3>2, <3>4, <3>7, <3>8 DEF Machine!Assign
    <3> QED BY <3>9 DEF Machine!Next
  <2>40. CASE CommitAccept(c) \/ CommitArrival(c) \/ CommitStart(c)
    <3>1. workerUid' = workerUid
      BY <2>40 DEF CommitAccept, CommitArrival, CommitStart
    <3>2. r.action \in AcceptActions \cup {"PROVIDER_EN_ROUTE", "PROVIDER_ARRIVED", "PROVIDER_START"}
      BY <2>40 DEF CommitAccept, CommitArrival, CommitStart, Commits
    <3>3. \/ Machine!Become(b, {"ASSIGNED"}, "ACCEPTED")
          \/ Machine!Become(b, {"ACCEPTED"}, "EN_ROUTE")
          \/ Machine!Become(b, {"EN_ROUTE"}, "ARRIVED")
          \/ Machine!Become(b, Machine!OnTheWay, "IN_PROGRESS")
      <4>1. CASE r.action \in AcceptActions
        <5>1. CanonicalState(b) \in {"ASSIGNED"} /\ Destination(r.action) = "ACCEPTED"
          BY <2>2, <4>1, SourcesOf, DestinationsByKind
        <5> QED BY <2>3, <5>1
      <4>2. CASE r.action = "PROVIDER_EN_ROUTE"
        <5>1. CanonicalState(b) \in {"ACCEPTED"} /\ Destination(r.action) = "EN_ROUTE"
          BY <2>2, <4>2, SourcesOf, DestinationsByKind
        <5> QED BY <2>3, <5>1
      <4>3. CASE r.action = "PROVIDER_ARRIVED"
        <5>1. CanonicalState(b) \in {"EN_ROUTE"} /\ Destination(r.action) = "ARRIVED"
          BY <2>2, <4>3, SourcesOf, DestinationsByKind
        <5> QED BY <2>3, <5>1
      <4>4. CASE r.action = "PROVIDER_START"
        <5>1. CanonicalState(b) \in OnTheWay /\ Destination(r.action) = "IN_PROGRESS"
          BY <2>2, <4>4, SourcesOf, DestinationsByKind
        <5>2. Machine!OnTheWay = OnTheWay
          BY DEF Machine!OnTheWay, OnTheWay
        <5> QED BY <2>3, <5>1, <5>2
      <4> QED BY <3>2, <4>1, <4>2, <4>3, <4>4
    <3>4. Machine!Advance(b)
      BY <3>1, <3>3 DEF Machine!Advance
    <3> QED BY <3>4 DEF Machine!Next
  <2>50. CASE CommitComplete(c) \/ CommitCancel(c) \/ CommitExpire(c)
    <3>1. workerUid' = workerUid
      BY <2>50 DEF CommitComplete, CommitCancel, CommitExpire
    <3>2. r.action \in CompleteActions \cup CancelActions \cup {"SYSTEM_EXPIRE"}
      BY <2>50 DEF CommitComplete, CommitCancel, CommitExpire, Commits
    <3>3. \/ Machine!Become(b, {"ASSIGNED", "ACCEPTED", "IN_PROGRESS"}, "COMPLETED")
          \/ Machine!Become(b, Machine!BookingStates \ Machine!TerminalStates, "CANCELLED")
          \/ Machine!Become(b, {"PENDING_OTP"}, "EXPIRED")
      <4>1. CASE r.action \in CompleteActions
        <5>1. CanonicalState(b) \in {"ASSIGNED", "ACCEPTED", "IN_PROGRESS"}
              /\ Destination(r.action) = "COMPLETED"
          BY <2>2, <4>1, SourcesOf, DestinationsByKind
        <5> QED BY <2>3, <5>1
      <4>2. CASE r.action \in CancelActions
        <5>1. CanonicalState(b) \in BookingStates \ TerminalStates
              /\ Destination(r.action) = "CANCELLED"
          BY <2>2, <4>2, SourcesOf, DestinationsByKind
        <5>2. Machine!BookingStates = BookingStates /\ Machine!TerminalStates = TerminalStates
          BY DEF Machine!BookingStates, BookingStates, Machine!TerminalStates, TerminalStates
        <5> QED BY <2>3, <5>1, <5>2
      <4>3. CASE r.action = "SYSTEM_EXPIRE"
        <5>1. CanonicalState(b) \in {"PENDING_OTP"} /\ Destination(r.action) = "EXPIRED"
          BY <2>2, <4>3, SourcesOf, DestinationsByKind
        <5> QED BY <2>3, <5>1
      <4> QED BY <3>2, <4>1, <4>2, <4>3
    <3>4. Machine!Finish(b)
      BY <3>1, <3>3 DEF Machine!Finish
    <3> QED BY <3>4 DEF Machine!Next
  <2>60. ~CommitEvent(c)
    BY <1>4 DEF CommitEvent
  <2> QED BY <2>10, <2>20, <2>30, <2>40, <2>50, <2>60 DEF Commit
<1> QED BY <1>3, <1>4

\* For everyone who watches bookings, all the calls, locks, refusals and
\* crashes amount to the moves of BookingMachine: each step of the executor is
\* one of them or invisible.
THEOREM RefinesMachine == Spec => ImplementsMachine
<1>1. Init => Machine!Init
  <2> SUFFICES ASSUME Init PROVE Machine!Init
    OBVIOUS
  <2>1. NoDisputedRow /\ \A b \in Bookings : workerUid[b] = NoOne /\ status[b] \in {"PENDING_OTP", "PAID"}
    BY InvInit DEF Init, ExecutorInv
  <2>2. \A b \in Bookings : CanonicalState(b) \in {"PENDING_OTP", "AWAITING_ASSIGNMENT"}
    BY <2>1, StateOfColumns
  <2>3. schedule \in [Bookings -> Int]
    <3>1. schedule \in [Bookings -> Starts] /\ Starts \subseteq Int
      BY BookingsAssumption DEF Init
    <3> QED BY <3>1
  <2> QED BY <2>2, <2>3 DEF Init, Machine!Init, canonicalStates
<1>2. ASSUME ExecutorInv, ExecutorInv', TablesInv, [Next]_vars
      PROVE  [Machine!Next]_<<canonicalStates, workerUid, schedule>>
  <2>1. ASSUME UNCHANGED bookingVars
        PROVE  UNCHANGED <<canonicalStates, workerUid, schedule>>
    BY <2>1 DEF bookingVars, canonicalStates, CanonicalState, AssignmentStatus, HasEscalation
  <2>2. ASSUME NEW c \in Calls, Commit(c)
        PROVE  [Machine!Next]_<<canonicalStates, workerUid, schedule>>
    BY <1>2, <2>2, CommitRefines
  <2>3. ASSUME NEW c \in Calls, Refuse(c) \/ RefuseTarget(c) \/ RefuseWrite(c) \/ Crash(c)
        PROVE  UNCHANGED bookingVars
    BY <2>3, RefusalEnds
  <2>4. ASSUME NEW c \in Calls,
               (\E r \in Requests : Call(c, r)) \/ Decide(c) \/ ClearTarget(c)
        PROVE  UNCHANGED bookingVars
    BY <2>4 DEF Call, Decide, ClearTarget
  <2>5. UNCHANGED vars => UNCHANGED bookingVars
    BY DEF vars
  <2> QED BY <1>2, <2>1, <2>2, <2>3, <2>4, <2>5 DEF Next, Settle
<1>3. ExecutorInv /\ ExecutorInv' /\ TablesInv /\ [Next]_vars
        => [Machine!Next]_<<canonicalStates, workerUid, schedule>>
  BY <1>2
<1> QED BY <1>1, <1>3, InvariantHolds, TablesHold, PTL
     DEF Spec, ImplementsMachine, Machine!Spec, Machine!machineVars

(***************************************************************************)
(* What a provider is promised, and what a booking's owner is.              *)
(***************************************************************************)
\* The half-open span a booking takes of a calendar.
Span(b) == {t \in Nat : schedule[b] <= t /\ t < schedule[b] + Duration[b]}

\* At any instant a provider has one job at most.
OneJobAtATime ==
  \A p \in Providers, t \in Nat, b1, b2 \in Bookings :
    (Occupies(b1, p) /\ t \in Span(b1) /\ Occupies(b2, p) /\ t \in Span(b2)) => b1 = b2

\* A provider's own rows show it too: of two of his jobs whose spans overlap,
\* the rows of one at least are closed.
NoTwoLiveJobs ==
  \A b1, b2 \in Bookings, p \in Providers :
    (/\ b1 # b2 /\ Overlap(b1, b2)
     /\ status[b1] \notin NON_OCCUPYING_STATUSES /\ status[b2] \notin NON_OCCUPYING_STATUSES
     /\ newest[b1][p] \in LiveRows)
      => newest[b2][p] \notin LiveRows /\ earlier[b2][p] \cap LiveRows = {}

\* OVERLAPS_SPAN_SQL is right: two spans of positive length share an instant
\* exactly when it says they overlap.
LEMMA OverlapIsShared ==
  ASSUME NEW s1 \in Nat, NEW s2 \in Nat, NEW d1 \in Nat \ {0}, NEW d2 \in Nat \ {0}
  PROVE  SpansOverlap(s1, d1, s2, d2) <=>
           \E t \in Nat : s1 <= t /\ t < s1 + d1 /\ s2 <= t /\ t < s2 + d2
<1>1. ASSUME SpansOverlap(s1, d1, s2, d2), s1 <= s2
      PROVE  s1 <= s2 /\ s2 < s1 + d1 /\ s2 <= s2 /\ s2 < s2 + d2
  BY <1>1 DEF SpansOverlap
<1>2. ASSUME SpansOverlap(s1, d1, s2, d2), s2 <= s1
      PROVE  s1 <= s1 /\ s1 < s1 + d1 /\ s2 <= s1 /\ s1 < s2 + d2
  BY <1>2 DEF SpansOverlap
<1>3. ASSUME NEW t \in Nat, s1 <= t, t < s1 + d1, s2 <= t, t < s2 + d2
      PROVE  SpansOverlap(s1, d1, s2, d2)
  BY <1>3 DEF SpansOverlap
<1>4. s1 <= s2 \/ s2 <= s1
  OBVIOUS
<1> QED BY <1>1, <1>2, <1>3, <1>4

\* However many calls compete for a provider, there is no instant at which he
\* is expected in two places.
THEOREM NeverInTwoPlaces == Spec => []OneJobAtATime
<1>1. ASSUME TypeOK, NoDoubleBooking
      PROVE  OneJobAtATime
  <2> SUFFICES ASSUME NEW p \in Providers, NEW t \in Nat, NEW b1 \in Bookings, NEW b2 \in Bookings,
                      Occupies(b1, p), t \in Span(b1), Occupies(b2, p), t \in Span(b2), b1 # b2
               PROVE  FALSE
    BY DEF OneJobAtATime
  <2>1. schedule[b1] \in Nat /\ schedule[b2] \in Nat
    BY <1>1, BookingsAssumption DEF TypeOK
  <2>2. Duration[b1] \in Nat \ {0} /\ Duration[b2] \in Nat \ {0}
    BY BookingsAssumption
  <2>3. Overlap(b1, b2)
    BY <2>1, <2>2, OverlapIsShared DEF Overlap, Span
  <2> QED BY <1>1, <2>3 DEF NoDoubleBooking
<1>2. ExecutorInv => OneJobAtATime
  BY <1>1 DEF ExecutorInv
<1> QED BY <1>2, InvariantHolds, PTL

\* The assignment rows a provider's own job list is made of never hold two
\* unfinished jobs at the same time.
THEOREM JobListsNeverClash == Spec => []NoTwoLiveJobs
<1>1. ASSUME ExecutorInv, OnlyTheHolderIsLive
      PROVE  NoTwoLiveJobs
  <2> SUFFICES ASSUME NEW b1 \in Bookings, NEW b2 \in Bookings, NEW p \in Providers,
                      b1 # b2, Overlap(b1, b2),
                      status[b1] \notin NON_OCCUPYING_STATUSES,
                      status[b2] \notin NON_OCCUPYING_STATUSES,
                      newest[b1][p] \in LiveRows
               PROVE  newest[b2][p] \notin LiveRows /\ earlier[b2][p] \cap LiveRows = {}
    BY DEF NoTwoLiveJobs
  <2>1. Occupies(b1, p)
    BY <1>1 DEF OnlyTheHolderIsLive, Occupies
  <2>2. ~Occupies(b2, p)
    BY <1>1, <2>1 DEF ExecutorInv, NoDoubleBooking
  <2> QED BY <1>1, <2>2 DEF OnlyTheHolderIsLive, Occupies
<1>2. ExecutorInv /\ OnlyTheHolderIsLive => NoTwoLiveJobs
  BY <1>1
<1> QED BY <1>2, InvariantHolds, HolderAloneIsLive, PTL

(***************************************************************************)
(* Authorization is checked at the decision and used at the commit.         *)
(***************************************************************************)
\* The caller of a decided call is entitled to it NOW: it is still the
\* customer's booking, or the provider is still the one assigned.
StillEntitled ==
  \A c \in Calls : stage[c] \in {"decided", "cleared"} => Authorized(request[c])

\* A booking changes its state or its provider only through a request in flight
\* that the whitelist allows and whose caller is entitled at that very moment.
EntitledMove(b) ==
  \E c \in Calls :
    /\ HoldsRow(c, b)
    /\ Authorized(request[c])
    /\ CanTransition(CanonicalState(b), CanonicalState(b)', request[c].role)

EveryMoveIsEntitled ==
  [][\A b \in Bookings :
       (CanonicalState(b)' # CanonicalState(b) \/ workerUid'[b] # workerUid[b]) => EntitledMove(b)]_vars

\* A call that was decided before a step and still is finds its booking's
\* provider unchanged.
LEMMA ProviderHeldStill ==
  ASSUME DecisionInv, DecisionInv', NEW c \in Calls, stage[c] \in {"decided", "cleared"},
         stage'[c] \in {"decided", "cleared"}, request'[c] = request[c], loaded'[c] = loaded[c],
         Authorized(request[c])
  PROVE  Authorized(request[c])'
<1>1. PICK r \in Requests : r = request[c]
  BY RequestFields DEF DecisionInv
<1>2. r.booking \in Bookings /\ r = request'[c]
  BY <1>1, RequestFields DEF DecisionInv
<1>3. loaded[c].provider = workerUid[r.booking]
  <2>1. loaded[c] = Snapshot(r.booking)
    BY <1>1 DEF DecisionInv, DecisionStillCurrent
  <2> QED BY <2>1 DEF Snapshot
<1>4. loaded'[c].provider = workerUid'[r.booking]
  <2>1. loaded'[c] = Snapshot(request[c].booking)'
    BY DEF DecisionInv, DecisionStillCurrent
  <2>2. loaded'[c].provider = workerUid'[request'[c].booking]
    BY <2>1 DEF Snapshot
  <2> QED BY <1>2, <2>2
<1> QED BY <1>1, <1>2, <1>3, <1>4 DEF Authorized

LEMMA EntitledStep ==
  ASSUME DecisionInv, DecisionInv', StillEntitled, [Next]_vars
  PROVE  StillEntitled'
<1> SUFFICES ASSUME NEW c \in Calls, stage'[c] \in {"decided", "cleared"}
             PROVE  Authorized(request[c])'
  BY DEF StillEntitled
<1>1. CASE stage[c] \in {"decided", "cleared"} /\ request'[c] = request[c] /\ loaded'[c] = loaded[c]
  BY <1>1, ProviderHeldStill DEF StillEntitled
<1>2. CASE Decide(c)
  <2>1. Authorized(request[c]) /\ workerUid' = workerUid /\ request' = request
    BY <1>2 DEF Decide, Proceeds, bookingVars
  <2> QED BY <2>1 DEF Authorized
<1>3. ASSUME NEW d \in Calls, (\E r \in Requests : Call(d, r)) \/ ClearTarget(d)
      PROVE  stage[c] \in {"decided", "cleared"} /\ request'[c] = request[c] /\ loaded'[c] = loaded[c]
  BY <1>3 DEF Call, ClearTarget, DecisionInv, TypeOK
<1>4. ASSUME NEW d \in Calls, Decide(d), d # c
      PROVE  stage[c] \in {"decided", "cleared"} /\ request'[c] = request[c] /\ loaded'[c] = loaded[c]
  BY <1>4 DEF Decide, DecisionInv, TypeOK
<1>5. ASSUME NEW d \in Calls, End(d)
      PROVE  stage[c] \in {"decided", "cleared"} /\ request'[c] = request[c] /\ loaded'[c] = loaded[c]
  BY <1>5, EndLeavesOthers DEF DecisionInv
<1>6. ASSUME NEW d \in Calls, Refuse(d) \/ RefuseTarget(d) \/ RefuseWrite(d) \/ Crash(d)
      PROVE  End(d)
  BY <1>6, RefusalEnds
<1>7. ASSUME NEW d \in Calls, Commit(d)
      PROVE  End(d)
  BY <1>7, CommitRecords DEF DecisionInv, Record
<1>8. CASE UNCHANGED vars
  BY <1>1, <1>8 DEF vars, callVars
<1> QED BY <1>1, <1>2, <1>3, <1>4, <1>5, <1>6, <1>7, <1>8 DEF Next, Settle

LEMMA EntitledInit == Init => StillEntitled
BY DEF Init, StillEntitled

\* Authorization is no stale check: the customer or provider it let through is
\* still the booking's own when the call writes.
THEOREM AuthorizationHolds == Spec => []StillEntitled
<1>1. DecisionInv /\ DecisionInv' /\ StillEntitled /\ [Next]_vars => StillEntitled'
  BY EntitledStep
<1> QED BY <1>1, EntitledInit, DecisionsHold, PTL DEF Spec

LEMMA MoveIsEntitled ==
  ASSUME DecisionInv, DecisionInv', TablesInv, StillEntitled, [Next]_vars, NEW b \in Bookings,
         CanonicalState(b)' # CanonicalState(b) \/ workerUid'[b] # workerUid[b]
  PROVE  EntitledMove(b)
<1>1. ~UNCHANGED bookingVars
  BY DEF bookingVars, CanonicalState, AssignmentStatus, HasEscalation
<1>2. PICK c \in Calls : Commit(c)
  <2>1. ASSUME NEW c \in Calls, (\E r \in Requests : Call(c, r)) \/ Decide(c) \/ ClearTarget(c)
        PROVE  UNCHANGED bookingVars
    BY <2>1 DEF Call, Decide, ClearTarget
  <2>2. ASSUME NEW c \in Calls, Refuse(c) \/ RefuseTarget(c) \/ RefuseWrite(c) \/ Crash(c)
        PROVE  UNCHANGED bookingVars
    BY <2>2, RefusalEnds
  <2>3. UNCHANGED vars => UNCHANGED bookingVars
    BY DEF vars
  <2> QED BY <1>1, <2>1, <2>2, <2>3 DEF Next, Settle
<1>3. b = request[c].booking
  <2>1. ASSUME b # request[c].booking PROVE FALSE
    <3>1. workerUid'[b] = workerUid[b]
      BY <1>2, <2>1, CommitTouchesOneBooking DEF DecisionInv
    <3>2. CanonicalState(b)' = CanonicalState(b)
      BY <1>2, <2>1, CommitStates
    <3> QED BY <3>1, <3>2
  <2> QED BY <2>1
<1>4. Changing(c)
  <2>1. ASSUME ~Changing(c) PROVE FALSE
    <3>1. UNCHANGED workerUid
      BY <1>2, <2>1, EventKeepsColumns
    <3>2. CanonicalState(b)' = CanonicalState(b)
      BY <1>2, <2>1, CommitStates
    <3> QED BY <3>1, <3>2
  <2> QED BY <2>1
<1>5. stage[c] \in {"decided", "cleared"} /\ HoldsRow(c, b)
  BY <1>2, <1>3, CommitRecords DEF DecisionInv, HoldsRow
<1>6. Permitted(request[c], CanonicalState(b))
  BY <1>3, <1>4, <1>5, ChangingFinds
<1>7. CanonicalState(b)' = Destination(request[c].action)
  BY <1>2, <1>3, <1>4, CommitStates
<1>8. CanTransition(CanonicalState(b), CanonicalState(b)', request[c].role)
  BY <1>6, <1>7 DEF Permitted
<1> QED BY <1>5, <1>8 DEF EntitledMove, StillEntitled

\* Nothing moves a booking, and nothing changes who does it, but a request of
\* somebody entitled to it, along a rule of the whitelist that names his role.
THEOREM MovesAreEntitled == Spec => EveryMoveIsEntitled
<1>1. DecisionInv /\ DecisionInv' /\ TablesInv /\ StillEntitled /\ [Next]_vars
        => [\A b \in Bookings :
              (CanonicalState(b)' # CanonicalState(b) \/ workerUid'[b] # workerUid[b])
                => EntitledMove(b)]_vars
  BY MoveIsEntitled
<1> QED BY <1>1, DecisionsHold, TablesHold, AuthorizationHolds, PTL DEF Spec, EveryMoveIsEntitled
=============================================================================
