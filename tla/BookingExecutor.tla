-------------------------- MODULE BookingExecutor --------------------------
(***************************************************************************)
(* transitionBooking: the one function that writes bookings.status and      *)
(* booking_workers.status, as any number of concurrent calls run it         *)
(* (services/booking/transitionExecutor.ts).                                *)
(*                                                                         *)
(* A call is one request on its own pooled connection. It goes through the  *)
(* points where another call can get in between:                            *)
(*                                                                         *)
(*   idle --Call--> called     idempotency lookup done, no lock yet         *)
(*   called --Decide--> decided    booking row locked and read, move legal  *)
(*   decided --ClearTarget--> cleared   (assignments) provider advisory     *)
(*                                  lock held, no schedule conflict         *)
(*   decided/cleared --Commit...--> idle   every write and COMMIT           *)
(*                                                                         *)
(* or it is refused, or rolled back by a crash. Row and advisory locks      *)
(* belong to the transaction, so a lock is held exactly while its call is   *)
(* in the stages after the acquisition. The writes of one transaction       *)
(* become visible together at COMMIT, so they are one step.                 *)
(***************************************************************************)
EXTENDS BookingStates, FiniteSets

CONSTANTS
  Bookings,
  Providers,
  Actors,       \* uids of everyone who may call
  CustomerOf,   \* bookings.user_id
  Duration,     \* duration_mins of the booked service
  Starts,       \* when a booking may be scheduled
  Codes,        \* worker codes and booking OTPs
  Keys,         \* idempotency keys
  Calls,        \* transitions in flight: pooled connections
  Requests,     \* the requests the callers may make
  NoOne, NoCode, NoKey, NoRequest

RequestType ==
  [action : Actions, role : Roles, actor : Actors, booking : Bookings,
   target : Providers \cup {NoOne},      \* metadata.providerUid
   code : Codes \cup {NoCode},           \* metadata.otp / workerCode / assignment.workerCode
   key : Keys \cup {NoKey},              \* idempotencyKey
   expected : BookingStates \cup {"NONE"}] \* expectedState

ASSUME RequestsAssumption == Requests \subseteq RequestType
ASSUME NullsAssumption ==
  NoOne \notin Actors \cup Providers /\ NoCode \notin Codes /\ NoKey \notin Keys
    /\ NoRequest \notin Requests
ASSUME BookingsAssumption ==
  /\ CustomerOf \in [Bookings -> Actors]
  /\ Duration \in [Bookings -> Nat \ {0}]
  /\ Starts \subseteq Nat

VARIABLES
  status,       \* bookings.status
  workerUid,    \* bookings.worker_uid
  workerCode,   \* bookings.worker_code
  otpCode,      \* bookings.otp_code (only read here)
  schedule,     \* bookings.schedule (only read here)
  newest,       \* status of the newest booking_workers row of a booking and provider
  earlier,      \* statuses of that provider's older rows on that booking
  toState,      \* to_state of the newest booking_transitions row
  idem,         \* rows of booking_transition_idempotency
  stage,        \* where each call is
  request,      \* what it asks
  loaded        \* what it read under the row lock

bookingVars == <<status, workerUid, workerCode, otpCode, schedule, newest, earlier, toState>>
callVars == <<stage, request, loaded>>
vars == <<bookingVars, idem, callVars>>

Unread == [status |-> "NONE", provider |-> NoOne, state |-> "NONE"]

Stages == {"idle", "called", "decided", "cleared"}

(***************************************************************************)
(* What a transaction reads.                                                *)
(***************************************************************************)
\* The newest row of the booking's CURRENT provider, none when worker_uid is NULL.
AssignmentStatus(b) == IF workerUid[b] = NoOne THEN "NONE" ELSE newest[b][workerUid[b]]

\* An escalation is a DISPUTED timeline row. No action leads to DISPUTED, so
\* looking at the newest row finds one whenever looking at all of them does.
HasEscalation(b) == toState[b] = "DISPUTED"

CanonicalState(b) ==
  DeriveCanonicalState(status[b], AssignmentStatus(b), workerUid[b] # NoOne, HasEscalation(b))

Snapshot(b) == [status |-> status[b], provider |-> workerUid[b], state |-> CanonicalState(b)]

Occupies(b, p) == workerUid[b] = p /\ status[b] \notin NON_OCCUPYING_STATUSES

Overlap(b1, b2) == SpansOverlap(schedule[b1], Duration[b1], schedule[b2], Duration[b2])

\* CONFLICTING_BOOKING_SQL.
HasConflictAtSameStart(b, p) ==
  \E other \in Bookings \ {b} : Occupies(other, p) /\ schedule[other] = schedule[b]
HasConflict(b, p) == \E other \in Bookings \ {b} : Occupies(other, p) /\ Overlap(other, b)

(***************************************************************************)
(* Locks, held by the transaction that took them until it ends.             *)
(***************************************************************************)
HoldsRow(c, b) == stage[c] \in {"decided", "cleared"} /\ request[c].booking = b
HoldsProvider(c, p) == stage[c] = "cleared" /\ request[c].target = p

RowFreeUnlocked(b) == TRUE
RowFree(b) == \A c \in Calls : ~HoldsRow(c, b)

ProviderFreeUnlocked(p) == TRUE
ProviderFree(p) == \A c \in Calls : ~HoldsProvider(c, p)

(***************************************************************************)
(* The checks before any write.                                             *)
(***************************************************************************)
\* The primary key of the idempotency table.
Identity(r) == <<r.actor, r.booking, r.action, r.key>>
Recorded(r) == r.key # NoKey /\ \E q \in idem : Identity(q) = Identity(r)

Authorized(r) ==
  CASE r.role \in {"admin", "system"} -> TRUE
    [] r.role = "customer" -> CustomerOf[r.booking] = r.actor
    [] OTHER -> workerUid[r.booking] = r.actor

\* A reassignment to the provider already there succeeds and writes nothing.
SameTargetIgnored(r) == FALSE
SameTarget(r) ==
  r.action = "ADMIN_REASSIGN" /\ r.target # NoOne /\ r.target = workerUid[r.booking]

Permitted(r, from) ==
  /\ from \in DeclaredSources(r.action)
  /\ CanTransition(from, Destination(r.action), r.role)

Proceeds(r) ==
  LET from == CanonicalState(r.booking)
  IN  /\ r.expected \in {"NONE", from}
      /\ Authorized(r)
      /\ ~SameTarget(r)
      /\ EventOnly(r.action, from) \/ Permitted(r, from)

(***************************************************************************)
(* A call up to its last check.                                             *)
(***************************************************************************)
\* The lookup runs outside the transaction. A recorded key is answered from
\* the table (a replay, or IDEMPOTENCY_KEY_REUSED) and changes nothing, so only
\* a miss starts a call.
Call(c, r) ==
  /\ stage[c] = "idle"
  /\ ~Recorded(r)
  /\ stage' = [stage EXCEPT ![c] = "called"]
  /\ request' = [request EXCEPT ![c] = r]
  /\ UNCHANGED <<bookingVars, idem, loaded>>

Decide(c) ==
  LET r == request[c]
  IN  /\ stage[c] = "called"
      /\ RowFree(r.booking)
      /\ Proceeds(r)
      /\ stage' = [stage EXCEPT ![c] = "decided"]
      /\ loaded' = [loaded EXCEPT ![c] = Snapshot(r.booking)]
      /\ UNCHANGED <<bookingVars, idem, request>>

\* The transaction ends, by COMMIT or ROLLBACK, and its locks with it.
End(c) ==
  /\ stage' = [stage EXCEPT ![c] = "idle"]
  /\ request' = [request EXCEPT ![c] = NoRequest]
  /\ loaded' = [loaded EXCEPT ![c] = Unread]

\* A refusal, or the same-target no-op.
Refuse(c) ==
  /\ stage[c] = "called"
  /\ RowFree(request[c].booking)
  /\ ~Proceeds(request[c])
  /\ End(c)
  /\ UNCHANGED <<bookingVars, idem>>

\* Row first, provider second. The conflict query runs under both locks.
ClearTarget(c) ==
  LET r == request[c]
  IN  /\ stage[c] = "decided"
      /\ r.action \in AssignActions
      /\ r.target # NoOne
      /\ ProviderFree(r.target)
      /\ ~HasConflict(r.booking, r.target)
      /\ stage' = [stage EXCEPT ![c] = "cleared"]
      /\ UNCHANGED <<bookingVars, idem, request, loaded>>

\* No target, a conflict, or data outside the model: the target's role, archive
\* state and capability, the reason a reassignment must give.
RefuseTargetNever(c) == FALSE /\ UNCHANGED vars
RefuseTarget(c) ==
  LET r == request[c]
  IN  /\ stage[c] = "decided"
      /\ r.action \in AssignActions
      /\ r.target = NoOne \/ ProviderFree(r.target)
      /\ End(c)
      /\ UNCHANGED <<bookingVars, idem>>

(***************************************************************************)
(* The writes. `loaded` decides them: what was read under the lock.         *)
(***************************************************************************)
\* Ready for its writes: nothing left but the guard and the credential.
Writing(c) ==
  \/ stage[c] = "decided" /\ request[c].action \notin AssignActions
  \/ stage[c] = "cleared"

Changing(c) == ~EventOnly(request[c].action, loaded[c].state)

\* The guards and credentials that the rows decide.
MayWrite(c) ==
  LET r == request[c]
      l == loaded[c]
  IN  CASE r.action = "CUSTOMER_CONFIRM_OTP" ->
             /\ AwaitsOtpConfirmation(l.status, l.provider # NoOne)
             /\ r.code # NoCode /\ r.code = otpCode[r.booking]
        [] r.action = "CUSTOMER_CANCEL" -> CustomerMayCancel(l.status)
        [] r.action = "PROVIDER_START" -> r.code # NoCode /\ r.code = workerCode[r.booking]
        [] r.action = "ADMIN_CONFIRM_ASSIGNMENT" -> r.target # NoOne /\ r.target = l.provider
        [] r.action = "ADMIN_ASSIGN" -> l.provider = NoOne
        [] r.action = "ADMIN_REASSIGN" -> l.provider # NoOne
        [] OTHER -> TRUE

\* Guards on data outside the model: the notice window and the payment rows.
PolicyMayRefuse(action) == action \in {"PROVIDER_CANCEL", "PROVIDER_COMPLETE"}

RefuseWrite(c) ==
  /\ Writing(c)
  /\ Changing(c)
  /\ ~MayWrite(c) \/ PolicyMayRefuse(request[c].action)
  /\ End(c)
  /\ UNCHANGED <<bookingVars, idem>>

\* What every committed transition writes last: its timeline row and its
\* idempotency row (ON CONFLICT DO NOTHING).
Record(c, to) ==
  LET r == request[c]
  IN  /\ toState' = [toState EXCEPT ![r.booking] = to]
      /\ idem' = idem \cup (IF r.key = NoKey \/ Recorded(r) THEN {} ELSE {r})
      /\ End(c)

\* A commit of `action`'s kind: the call is ready and its guard holds.
Commits(c, actions) ==
  /\ Writing(c)
  /\ Changing(c)
  /\ request[c].action \in actions
  /\ MayWrite(c)
  /\ Record(c, Destination(request[c].action))

\* UPDATE booking_workers ... WHERE booking_id AND worker_uid: every row of
\* that provider on that booking, not only the newest.
SetRows(b, p, rowStatus) ==
  IF p = NoOne THEN UNCHANGED <<newest, earlier>>
  ELSE /\ newest' = [newest EXCEPT ![b][p] = IF @ = "NONE" THEN @ ELSE rowStatus]
       /\ earlier' = [earlier EXCEPT ![b][p] = IF @ = {} THEN @ ELSE {rowStatus}]

SetStatus(b, word) == status' = [status EXCEPT ![b] = word]

CommitConfirmOtp(c) ==
  /\ Commits(c, {"CUSTOMER_CONFIRM_OTP"})
  /\ SetStatus(request[c].booking, "CONFIRMED")
  /\ UNCHANGED <<workerUid, workerCode, otpCode, schedule, newest, earlier>>

\* The full release: pointer, status word and worker code.
ReleasedCodeKept(b) == workerCode[b]
ReleasedCode(b) == NoCode

CommitRelease(c) ==
  LET b == request[c].booking
      released == IF request[c].action = "PROVIDER_DECLINE" THEN "DECLINED" ELSE "CANCELLED"
  IN  /\ Commits(c, ReleaseActions)
      /\ IF loaded[c].provider = NoOne
         THEN UNCHANGED <<status, workerUid, workerCode, newest, earlier>>
         ELSE /\ SetRows(b, loaded[c].provider, released)
              /\ SetStatus(b, "CONFIRMED")
              /\ workerUid' = [workerUid EXCEPT ![b] = NoOne]
              /\ workerCode' = [workerCode EXCEPT ![b] = ReleasedCode(b)]
      /\ UNCHANGED <<otpCode, schedule>>

\* Whose rows an assignment closes, and with which word.
OutgoingNobody(c) == NoOne
Outgoing(c) ==
  IF loaded[c].provider = request[c].target THEN NoOne ELSE loaded[c].provider

OutgoingWord == "DECLINED"

\* Close the outgoing provider's rows, insert the incoming one's, move the
\* pointer and the status word; a code in the payload replaces the old one.
CommitAssign(c) ==
  LET r == request[c]
      b == r.booking
      closes(p) == p = Outgoing(c) /\ newest[b][p] # "NONE"
  IN  /\ Commits(c, AssignActions)
      /\ newest' = [newest EXCEPT ![b] =
           [p \in Providers |-> IF p = r.target THEN "ASSIGNED"
                                ELSE IF closes(p) THEN OutgoingWord ELSE @[p]]]
      /\ earlier' = [earlier EXCEPT ![b] =
           [p \in Providers |-> IF p = r.target THEN @[p] \cup ({newest[b][p]} \ {"NONE"})
                                ELSE IF closes(p) /\ @[p] # {} THEN {OutgoingWord} ELSE @[p]]]
      /\ SetStatus(b, "WORKER_ASSIGNED")
      /\ workerUid' = [workerUid EXCEPT ![b] = r.target]
      /\ workerCode' = [workerCode EXCEPT ![b] = IF r.code = NoCode THEN @ ELSE r.code]
      /\ UNCHANGED <<otpCode, schedule>>

CommitAccept(c) ==
  /\ Commits(c, AcceptActions)
  /\ SetRows(request[c].booking, loaded[c].provider, "ACCEPTED")
  /\ UNCHANGED <<status, workerUid, workerCode, otpCode, schedule>>

\* The arrival stages are projected onto bookings.status for the customer app.
CommitArrival(c) ==
  LET r == request[c]
      to == Destination(r.action)
  IN  /\ Commits(c, {"PROVIDER_EN_ROUTE", "PROVIDER_ARRIVED"})
      /\ SetRows(r.booking, loaded[c].provider, to)
      /\ IF loaded[c].provider # NoOne /\ workerUid[r.booking] = loaded[c].provider
         THEN SetStatus(r.booking, to) ELSE UNCHANGED status
      /\ UNCHANGED <<workerUid, workerCode, otpCode, schedule>>

\* The code is compared in the UPDATE and is not consumed.
CommitStart(c) ==
  /\ Commits(c, {"PROVIDER_START"})
  /\ SetRows(request[c].booking, loaded[c].provider, "IN_PROGRESS")
  /\ UNCHANGED <<status, workerUid, workerCode, otpCode, schedule>>

CommitComplete(c) ==
  /\ Commits(c, CompleteActions)
  /\ SetStatus(request[c].booking, "COMPLETED")
  /\ SetRows(request[c].booking, loaded[c].provider, "COMPLETED")
  /\ UNCHANGED <<workerUid, workerCode, otpCode, schedule>>

\* Every assignment row of the booking in a cancellable status, whoever holds it.
CancelledRow(rowStatus) == IF rowStatus \in Cancellable THEN "CANCELLED" ELSE rowStatus

CommitCancel(c) ==
  LET b == request[c].booking
  IN  /\ Commits(c, CancelActions)
      /\ SetStatus(b, "CANCELLED")
      /\ newest' = [newest EXCEPT ![b] = [p \in Providers |-> CancelledRow(@[p])]]
      /\ earlier' = [earlier EXCEPT ![b] =
           [p \in Providers |-> {CancelledRow(rowStatus) : rowStatus \in @[p]}]]
      /\ UNCHANGED <<workerUid, workerCode, otpCode, schedule>>

CommitExpire(c) ==
  /\ Commits(c, {"SYSTEM_EXPIRE"})
  /\ SetStatus(request[c].booking, "EXPIRED")
  /\ UNCHANGED <<workerUid, workerCode, otpCode, schedule, newest, earlier>>

\* An administrative record: a timeline row and nothing else.
CommitEvent(c) ==
  /\ Writing(c)
  /\ ~Changing(c)
  /\ Record(c, loaded[c].state)
  /\ UNCHANGED <<status, workerUid, workerCode, otpCode, schedule, newest, earlier>>

\* The process dies or the connection drops: Postgres rolls back.
Crash(c) ==
  /\ stage[c] # "idle"
  /\ End(c)
  /\ UNCHANGED <<bookingVars, idem>>

(***************************************************************************)
(* The specification.                                                       *)
(***************************************************************************)
Commit(c) ==
  \/ CommitConfirmOtp(c)
  \/ CommitRelease(c)
  \/ CommitAssign(c)
  \/ CommitAccept(c)
  \/ CommitArrival(c)
  \/ CommitStart(c)
  \/ CommitComplete(c)
  \/ CommitCancel(c)
  \/ CommitExpire(c)
  \/ CommitEvent(c)

Settle(c) ==
  \/ Decide(c) \/ Refuse(c)
  \/ ClearTarget(c) \/ RefuseTarget(c)
  \/ RefuseWrite(c) \/ Commit(c)

\* A booking as createBooking leaves it, or one paid under the old flow.
Init ==
  /\ status \in [Bookings -> {"PENDING_OTP", "PAID"}]
  /\ workerUid = [b \in Bookings |-> NoOne]
  /\ workerCode = [b \in Bookings |-> NoCode]
  /\ otpCode \in [Bookings -> Codes]
  /\ schedule \in [Bookings -> Starts]
  /\ newest = [b \in Bookings |-> [p \in Providers |-> "NONE"]]
  /\ earlier = [b \in Bookings |-> [p \in Providers |-> {}]]
  /\ toState = [b \in Bookings |-> "NONE"]
  /\ idem = {}
  /\ stage = [c \in Calls |-> "idle"]
  /\ request = [c \in Calls |-> NoRequest]
  /\ loaded = [c \in Calls |-> Unread]

Next ==
  \E c \in Calls :
    \/ \E r \in Requests : Call(c, r)
    \/ Settle(c)
    \/ Crash(c)

Spec == Init /\ [][Next]_vars

\* Postgres serves lock waiters in the order they queued, and a transaction
\* that holds its locks runs on to its end. Nobody has to call, nothing has to
\* crash.
Fairness == \A c \in Calls : SF_vars(Settle(c))

FairSpec == Spec /\ Fairness

(***************************************************************************)
(* Properties.                                                              *)
(***************************************************************************)
TypeOK ==
  /\ status \in [Bookings -> BookingStatuses]
  /\ workerUid \in [Bookings -> Providers \cup {NoOne}]
  /\ workerCode \in [Bookings -> Codes \cup {NoCode}]
  /\ otpCode \in [Bookings -> Codes]
  /\ schedule \in [Bookings -> Starts]
  /\ newest \in [Bookings -> [Providers -> RowStatuses \cup {"NONE"}]]
  /\ earlier \in [Bookings -> [Providers -> SUBSET RowStatuses]]
  /\ toState \in [Bookings -> BookingStates \cup {"NONE"}]
  /\ idem \subseteq Requests
  /\ stage \in [Calls -> Stages]
  /\ request \in [Calls -> Requests \cup {NoRequest}]
  /\ loaded \in [Calls -> [status : BookingStatuses \cup {"NONE"},
                          provider : Providers \cup {NoOne},
                          state : BookingStates \cup {"NONE"}]]
  /\ \A c \in Calls : (stage[c] = "idle") <=> (request[c] = NoRequest)

\* Between the locked read and the COMMIT nothing moves the booking: what a
\* call decided on is still what the tables say, so the provider it authorized
\* is still the current one.
DecisionStillCurrent ==
  \A c \in Calls :
    stage[c] \in {"decided", "cleared"} => loaded[c] = Snapshot(request[c].booking)

\* Two overlapping jobs never occupy one provider, although the conflict query
\* looks at other bookings whose rows the call has not locked.
NoDoubleBooking ==
  \A b1, b2 \in Bookings, p \in Providers :
    b1 # b2 /\ Occupies(b1, p) /\ Occupies(b2, p) => ~Overlap(b1, b2)

\* What the two properties above rest on. Each lock has one holder; what a call
\* was allowed to do is allowed from the state it read; a call holding a
\* provider has no job of his in its way; no timeline row says DISPUTED.
LocksExclusive ==
  \A c, d \in Calls :
    /\ \A b \in Bookings : HoldsRow(c, b) /\ HoldsRow(d, b) => c = d
    /\ \A p \in Providers : HoldsProvider(c, p) /\ HoldsProvider(d, p) => c = d

DecisionLegal ==
  \A c \in Calls :
    stage[c] \in {"decided", "cleared"} =>
      \/ EventOnly(request[c].action, loaded[c].state)
      \/ Permitted(request[c], loaded[c].state)

TargetStaysFree ==
  \A c \in Calls :
    stage[c] = "cleared" =>
      /\ request[c].action \in AssignActions
      /\ request[c].target \in Providers
      /\ ~HasConflict(request[c].booking, request[c].target)

NoDisputedRow == \A b \in Bookings : toState[b] # "DISPUTED"

\* The inductive invariant of the executor.
ExecutorInv ==
  /\ TypeOK
  /\ LocksExclusive
  /\ DecisionLegal
  /\ DecisionStillCurrent
  /\ NoDisputedRow
  /\ TargetStaysFree
  /\ NoDoubleBooking

\* The pointer and the assignment rows tell one story: only the provider in
\* worker_uid has a row that is still live, and he has one until the booking
\* is over.
OnlyTheHolderIsLive ==
  \A b \in Bookings, p \in Providers :
    IF workerUid[b] = p
    THEN CanonicalState(b) \in TerminalStates \/ newest[b][p] \in LiveRows
    ELSE newest[b][p] \notin LiveRows /\ earlier[b][p] \cap LiveRows = {}

\* The timeline is evidence: its last row names the state that the two status
\* columns derive to.
TimelineAgrees ==
  \A b \in Bookings : toState[b] \in {"NONE", CanonicalState(b)}

\* A provider's start code lives no longer than his assignment: a booking back
\* in the pool has none.
CodeNeedsHolder ==
  \A b \in Bookings : workerUid[b] = NoOne => workerCode[b] = NoCode

\* A finished booking stays finished, with its provider on record, whatever is
\* still in flight.
FinishedForGood ==
  [][\A b \in Bookings :
       CanonicalState(b) \in TerminalStates =>
         CanonicalState(b)' = CanonicalState(b) /\ workerUid'[b] = workerUid[b]]_vars

\* Every call is answered: waiting for a booking row and then for a provider
\* lock never becomes waiting for ever.
EveryCallEnds == \A c \in Calls : stage[c] # "idle" ~> stage[c] = "idle"

\* The executor implements the abstract lifecycle.
canonicalStates == [b \in Bookings |-> CanonicalState(b)]
Machine == INSTANCE BookingMachine WITH state <- canonicalStates, provider <- workerUid
ImplementsMachine == Machine!Spec
=============================================================================
