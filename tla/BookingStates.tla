--------------------------- MODULE BookingStates ---------------------------
(***************************************************************************)
(* The pure half of the booking lifecycle: the canonical states, the        *)
(* whitelist of moves, the action table and the derivation of a canonical   *)
(* state from the two physical status columns.                              *)
(*                                                                         *)
(* Sources: services/booking/canonicalState.ts, the BOOKING_ACTIONS table   *)
(* and the data-only guards of services/booking/transitionExecutor.ts,      *)
(* services/booking/bookingPolicies.ts, NON_OCCUPYING_STATUSES of           *)
(* services/booking/eligibilityPipeline.ts.                                 *)
(*                                                                         *)
(* Column values are the strings the code stores. "NONE" stands for SQL     *)
(* NULL in a status column (no assignment row, no transition row yet).      *)
(***************************************************************************)
EXTENDS Integers

BookingStates ==
  {"PENDING_OTP", "AWAITING_ASSIGNMENT", "ASSIGNED", "ACCEPTED", "EN_ROUTE",
   "ARRIVED", "IN_PROGRESS", "COMPLETED", "CANCELLED", "DISPUTED", "EXPIRED"}

TerminalStates == {"COMPLETED", "CANCELLED", "EXPIRED"}

Roles == {"customer", "assigned_provider", "admin", "system"}

\* bookings.status as this code base writes it; PAID only occurs in rows
\* written before payments stopped moving the booking.
BookingStatuses ==
  {"PENDING_OTP", "CONFIRMED", "PAID", "WORKER_ASSIGNED", "EN_ROUTE", "ARRIVED",
   "COMPLETED", "CANCELLED", "EXPIRED"}

\* booking_workers.status, "NONE" when there is no such row.
OnTheWay == {"ACCEPTED", "EN_ROUTE", "ARRIVED"}
Cancellable == {"ASSIGNED"} \cup OnTheWay
LiveRows == Cancellable \cup {"IN_PROGRESS"}
ClosedRows == {"DECLINED", "CANCELLED", "COMPLETED"}
RowStatuses == LiveRows \cup ClosedRows

(***************************************************************************)
(* TRANSITIONS and canTransition: is there a rule from -> to naming actor?  *)
(* The refusal codes only shape the answer, so the verdict is a Boolean.    *)
(***************************************************************************)
CanTransition(from, to, actor) ==
  \/ /\ from \in {"PENDING_OTP", "AWAITING_ASSIGNMENT"}
     /\ to \in {"AWAITING_ASSIGNMENT", "CANCELLED"}
     /\ actor \in {"customer", "admin"}
  \/ from = "PENDING_OTP" /\ to = "EXPIRED" /\ actor = "system"
  \/ from = "AWAITING_ASSIGNMENT" /\ to = "ASSIGNED" /\ actor \in {"admin", "system"}
  \/ from = "ASSIGNED" /\ to = "ACCEPTED" /\ actor \in {"assigned_provider", "admin"}
  \/ from \in Cancellable /\ to = "AWAITING_ASSIGNMENT" /\ actor = "assigned_provider"
  \/ from \in Cancellable /\ to = "ASSIGNED" /\ actor = "admin"
  \/ from \in Cancellable /\ to = "CANCELLED" /\ actor \in {"customer", "admin"}
  \/ from = "ACCEPTED" /\ to = "EN_ROUTE" /\ actor = "assigned_provider"
  \/ from = "EN_ROUTE" /\ to = "ARRIVED" /\ actor = "assigned_provider"
  \/ from \in OnTheWay /\ to = "IN_PROGRESS" /\ actor = "assigned_provider"
  \/ from = "IN_PROGRESS" /\ to = "COMPLETED" /\ actor \in {"assigned_provider", "admin"}
  \/ from \in {"ASSIGNED", "ACCEPTED"} /\ to = "COMPLETED" /\ actor = "admin"
  \/ from = "IN_PROGRESS" /\ to = "CANCELLED" /\ actor = "admin"
  \/ from \in {"COMPLETED", "IN_PROGRESS"} /\ to = "DISPUTED" /\ actor \in {"customer", "admin"}
  \/ from = "DISPUTED" /\ to \in {"COMPLETED", "CANCELLED"} /\ actor = "admin"

(***************************************************************************)
(* BOOKING_ACTIONS: destination, declared sources, extra requirements.      *)
(***************************************************************************)
ReleaseActions == {"PROVIDER_DECLINE", "PROVIDER_CANCEL"}
AssignActions == {"ADMIN_ASSIGN", "AUTO_ASSIGN", "ADMIN_REASSIGN"}
AcceptActions == {"PROVIDER_ACCEPT", "ADMIN_CONFIRM_ASSIGNMENT"}
CompleteActions == {"PROVIDER_COMPLETE", "ADMIN_APPROVE_COMPLETION"}
CancelActions == {"CUSTOMER_CANCEL", "ADMIN_CANCEL"}

Actions ==
  {"CUSTOMER_CONFIRM_OTP", "PROVIDER_EN_ROUTE", "PROVIDER_ARRIVED", "PROVIDER_START",
   "SYSTEM_EXPIRE"}
    \cup ReleaseActions \cup AssignActions \cup AcceptActions
    \cup CompleteActions \cup CancelActions

Destination(action) ==
  IF action \in {"CUSTOMER_CONFIRM_OTP"} \cup ReleaseActions THEN "AWAITING_ASSIGNMENT"
  ELSE IF action \in AssignActions THEN "ASSIGNED"
  ELSE IF action \in AcceptActions THEN "ACCEPTED"
  ELSE IF action = "PROVIDER_EN_ROUTE" THEN "EN_ROUTE"
  ELSE IF action = "PROVIDER_ARRIVED" THEN "ARRIVED"
  ELSE IF action = "PROVIDER_START" THEN "IN_PROGRESS"
  ELSE IF action \in CompleteActions THEN "COMPLETED"
  ELSE IF action \in CancelActions THEN "CANCELLED"
  ELSE "EXPIRED"

\* The action's own `from` list; an action that declares none is left to the
\* whitelist.
DeclaredSources(action) ==
  CASE action = "CUSTOMER_CONFIRM_OTP" -> {"PENDING_OTP", "AWAITING_ASSIGNMENT"}
    [] action \in {"PROVIDER_DECLINE", "ADMIN_CONFIRM_ASSIGNMENT"} -> {"ASSIGNED"}
    [] action = "PROVIDER_CANCEL" -> OnTheWay
    [] action \in {"ADMIN_ASSIGN", "AUTO_ASSIGN"} -> {"AWAITING_ASSIGNMENT"}
    [] action = "ADMIN_REASSIGN" -> Cancellable
    [] action = "ADMIN_CANCEL" -> BookingStates \ TerminalStates
    [] action = "ADMIN_APPROVE_COMPLETION" -> {"ASSIGNED", "ACCEPTED", "IN_PROGRESS"}
    [] OTHER -> BookingStates

\* eventOnly: an administrative record against a state already reached.
EventOnly(action, from) == action = "ADMIN_APPROVE_COMPLETION" /\ from = "COMPLETED"

(***************************************************************************)
(* deriveCanonicalState: terminal words of the booking row first, then the  *)
(* worker lifecycle, then the booking's own intake words. `hasWorker` is    *)
(* bookings.worker_uid being set.                                           *)
(***************************************************************************)
\* The row words that ARE canonical states once the provider has answered.
ProviderStagesWithoutArrival == {"ACCEPTED", "EN_ROUTE", "IN_PROGRESS"}
ProviderStages == OnTheWay \cup {"IN_PROGRESS"}

DeriveCanonicalState(bookingStatus, workerStatus, hasWorker, hasEscalation) ==
  IF hasEscalation THEN "DISPUTED"
  ELSE IF bookingStatus \in {"CANCELLED", "REFUNDED", "FAILED"} THEN "CANCELLED"
  ELSE IF bookingStatus = "EXPIRED" THEN "EXPIRED"
  ELSE IF "COMPLETED" \in {bookingStatus, workerStatus} THEN "COMPLETED"
  ELSE IF workerStatus \in ProviderStages THEN workerStatus
  ELSE IF workerStatus \in {"DECLINED", "REASSIGNED", "CANCELLED"} THEN "AWAITING_ASSIGNMENT"
  ELSE IF workerStatus = "ASSIGNED" THEN "ASSIGNED"
  ELSE IF bookingStatus = "PENDING_OTP" THEN "PENDING_OTP"
  ELSE IF bookingStatus \in {"WORKER_ASSIGNED", "CONFIRMED", "PAID"} /\ hasWorker THEN "ASSIGNED"
  ELSE "AWAITING_ASSIGNMENT"

(***************************************************************************)
(* Policies that the columns alone decide.                                  *)
(***************************************************************************)
CUSTOMER_NON_CANCELLABLE_STATUSES ==
  {"CANCELLED", "COMPLETED", "IN_PROGRESS", "EN_ROUTE", "ARRIVED", "AWAITING_COMPLETION",
   "REVIEWED", "REFUNDED", "EXPIRED", "FAILED"}

\* guard customerCancellationStage, on the RAW column.
CustomerMayCancel(bookingStatus) == bookingStatus \notin CUSTOMER_NON_CANCELLABLE_STATUSES

\* guard bookingAwaitsOtpConfirmation.
AwaitsOtpConfirmation(bookingStatus, hasWorker) ==
  bookingStatus = "PENDING_OTP" \/ (bookingStatus = "PAID" /\ ~hasWorker)

NON_OCCUPYING_STATUSES == {"COMPLETED", "CANCELLED", "REFUNDED", "FAILED", "EXPIRED"}

\* OVERLAPS_SPAN_SQL: half-open spans [start, start + length).
SpansOverlap(start1, length1, start2, length2) ==
  start1 < start2 + length2 /\ start2 < start1 + length1
=============================================================================
