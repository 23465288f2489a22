-------------------------- MODULE BookingCreation --------------------------
(***************************************************************************)
(* How a booking comes to be: a customer's submit (bookingService.ts,       *)
(* bookingController.ts), an admin's (adminCreateBookingService.ts), and an *)
(* admin's draft turned into a booking (adminBookingDraftService.ts). All   *)
(* of them share one idempotency table, keyed by caller and key.            *)
(*                                                                         *)
(*   customer  idle -> checked -> counted (slot locked) -> COMMIT           *)
(*   admin     idle -> checked -> keyed (key locked) -> COMMIT              *)
(*   draft     idle -> loaded -> claimed -> the admin's path -> created     *)
(*                  -> draft marked, or failed -> draft put back            *)
(*                                                                         *)
(* Each path's writes are one transaction: booking, payment row, add-ons,   *)
(* assignment and idempotency row appear together. The statements on a      *)
(* draft are not part of it.                                                *)
(***************************************************************************)
EXTENDS Naturals, Sequences, FiniteSets

CONSTANTS
  Customers, Admins,
  Keys,          \* idempotency keys callers may send
  Slots,         \* a branch, a day and a time of the day
  Capacity,      \* branch_slots.max_capacity
  Drafts,
  Owner,         \* created_by_admin_uid
  Calls,         \* requests in flight
  MaxBookings,   \* bound: bookings
  MaxEdits,      \* bound: autosaves of a draft
  MaxLost,       \* bound: commits whose answer is lost
  Nothing

Actors == Customers \cup Admins

ASSUME SlotsAssumption == Capacity \in [Slots -> Nat] /\ Nothing \notin Slots
ASSUME DraftsAssumption == Owner \in [Drafts -> Admins] /\ Nothing \notin Drafts \cup Keys
ASSUME RolesAssumption == Customers \cap Admins = {}
ASSUME BoundsAssumption == MaxBookings \in Nat /\ MaxEdits \in Nat /\ MaxLost \in Nat

VARIABLES
  bookings,   \* the rows, in the order of their ids
  idem,       \* booking_create_idempotency: caller and key to booking, 0 if none
  draft,      \* admin_booking_drafts: status, content, converted_booking_id
  stage,      \* where each request is
  ask,        \* what it asks, and the draft content it has read
  made,       \* the booking it got for its draft
  lost,
  moved,      \* history: slots a reschedule moved a booking into
  doubted     \* history: drafts whose booking was committed and reported failed

callVars == <<stage, ask, made>>
vars == <<bookings, idem, draft, callVars, lost, moved, doubted>>

Ids == 1..Len(bookings)
DraftStatuses ==
  {"editing", "ready_for_review", "converting", "converted", "discarded", "expired"}
Mutable == {"editing", "ready_for_review"}
Stages == {"idle", "checked", "counted", "keyed", "loaded", "claimed", "created", "failed"}

Request ==
  [actor : Actors, key : Keys \cup {Nothing}, slot : Slots \cup {Nothing},
   draft : Drafts \cup {Nothing}, content : 0..MaxEdits]
Booking ==
  [actor : Actors, key : Keys \cup {Nothing}, slot : Slots \cup {Nothing},
   draft : Drafts \cup {Nothing}, content : 0..MaxEdits, open : BOOLEAN]

Recorded(r) == IF r.key = Nothing THEN 0 ELSE idem[r.actor][r.key]

InSlot(s) == {i \in Ids : bookings[i].slot = s /\ bookings[i].open}

Go(c, to) == stage' = [stage EXCEPT ![c] = to] /\ UNCHANGED <<ask, made>>

End(c) ==
  /\ stage' = [stage EXCEPT ![c] = "idle"]
  /\ ask' = [ask EXCEPT ![c] = Nothing]
  /\ made' = [made EXCEPT ![c] = 0]

\* A draft's request goes on to its draft, any other is answered.
Answer(c, id) ==
  IF ask[c].draft = Nothing THEN End(c)
  ELSE /\ stage' = [stage EXCEPT ![c] = IF id = 0 THEN "failed" ELSE "created"]
       /\ made' = [made EXCEPT ![c] = id]
       /\ UNCHANGED ask

(***************************************************************************)
(* The customer's submit.                                                   *)
(***************************************************************************)
\* The lookup outside the transaction. A hit is answered and changes nothing.
Submit(c, a, k, s) ==
  LET r == [actor |-> a, key |-> k, slot |-> s, draft |-> Nothing, content |-> 0]
  IN  /\ stage[c] = "idle"
      /\ Recorded(r) = 0
      /\ stage' = [stage EXCEPT ![c] = "checked"]
      /\ ask' = [ask EXCEPT ![c] = r]
      /\ UNCHANGED <<made, bookings, idem, draft, lost, moved, doubted>>

\* SELECT ... FOR UPDATE OF bs, then the count, in one transaction.
SlotFreeUnlocked(s) == TRUE
SlotFree(s) == \A c \in Calls : ~(stage[c] = "counted" /\ ask[c].slot = s)

HasRoomForOneLess(s) == Cardinality(InSlot(s)) <= Capacity[s]
HasRoom(s) == Cardinality(InSlot(s)) < Capacity[s]

\* SLOT_FULL when there is no room. A booking at home has no slot to lock.
LockSlot(c) ==
  LET s == ask[c].slot
  IN  /\ stage[c] = "checked"
      /\ ask[c].actor \in Customers
      /\ s # Nothing => SlotFree(s)
      /\ IF s = Nothing \/ HasRoom(s) THEN Go(c, "counted") ELSE End(c)
      /\ UNCHANGED <<bookings, idem, draft, lost, moved, doubted>>

Row(r) ==
  [actor |-> r.actor, key |-> r.key, slot |-> r.slot, draft |-> r.draft,
   content |-> r.content, open |-> TRUE]

Insert(r) ==
  /\ Len(bookings) < MaxBookings
  /\ bookings' = Append(bookings, Row(r))
  /\ idem' = IF r.key = Nothing \/ Recorded(r) # 0 THEN idem
             ELSE [idem EXCEPT ![r.actor][r.key] = Len(bookings) + 1]

\* The unique constraint on the idempotency row: the second of two submits
\* rolls back and is answered with the first one's booking.
TwinCommittedIgnored(r) == FALSE
TwinCommitted(r) == Recorded(r) # 0

CommitCustomer(c) ==
  /\ stage[c] = "counted"
  /\ IF TwinCommitted(ask[c]) THEN UNCHANGED <<bookings, idem>> ELSE Insert(ask[c])
  /\ End(c)
  /\ UNCHANGED <<draft, lost, moved, doubted>>

(***************************************************************************)
(* The admin's submit.                                                      *)
(***************************************************************************)
AdminSubmit(c, a, k) ==
  /\ k # Nothing
  /\ Submit(c, a, k, Nothing)

\* adminCreateBooking for a claimed draft starts with the same lookup.
CheckForDraft(c) ==
  /\ stage[c] = "claimed"
  /\ IF Recorded(ask[c]) # 0 THEN Answer(c, Recorded(ask[c])) ELSE Go(c, "checked")
  /\ UNCHANGED <<bookings, idem, draft, lost, moved, doubted>>

\* An ineligible provider, or input the service turns down.
Reject(c) ==
  /\ stage[c] = "checked"
  /\ ask[c].actor \in Admins
  /\ Answer(c, 0)
  /\ UNCHANGED <<bookings, idem, draft, lost, moved, doubted>>

\* pg_advisory_xact_lock on key and caller, then the lookup again. On a hit the
\* connection is released twice and the request ends in that error.
KeyFree(r) ==
  \A c \in Calls : ~(stage[c] = "keyed" /\ ask[c].actor = r.actor /\ ask[c].key = r.key)

LockKey(c) ==
  /\ stage[c] = "checked"
  /\ ask[c].actor \in Admins
  /\ KeyFree(ask[c])
  /\ IF TwinCommitted(ask[c]) THEN Answer(c, 0) ELSE Go(c, "keyed")
  /\ UNCHANGED <<bookings, idem, draft, lost, moved, doubted>>

CommitAdmin(c) ==
  /\ stage[c] = "keyed"
  /\ Insert(ask[c])
  /\ Answer(c, Len(bookings'))
  /\ UNCHANGED <<draft, lost, moved, doubted>>

\* COMMIT went through, the connection broke before it said so.
LoseAnswer(c) ==
  /\ stage[c] = "keyed"
  /\ lost < MaxLost
  /\ lost' = lost + 1
  /\ Insert(ask[c])
  /\ Answer(c, 0)
  /\ doubted' = doubted \cup ({ask[c].draft} \ {Nothing})
  /\ UNCHANGED <<draft, moved>>

(***************************************************************************)
(* Drafts.                                                                  *)
(***************************************************************************)
SetDraft(d, word) == draft' = [draft EXCEPT ![d].status = word]

\* patchDraft. The status it computes looks at the columns before the patch.
PatchDraft(d) ==
  /\ draft[d].status \in Mutable
  /\ draft[d].content < MaxEdits
  /\ \E word \in Mutable :
       draft' = [draft EXCEPT ![d].status = word, ![d].content = @ + 1]
  /\ UNCHANGED <<bookings, idem, callVars, lost, moved, doubted>>

CloseDraft(d) ==
  /\ draft[d].status \in Mutable
  /\ SetDraft(d, "discarded") \/ SetDraft(d, "expired")
  /\ UNCHANGED <<bookings, idem, callVars, lost, moved, doubted>>

\* convertDraft reads the draft. FOR UPDATE outside a transaction: the lock is
\* gone when the statement ends. A finished draft is answered and changes nothing.
LoadDraft(c, d, k) ==
  /\ stage[c] = "idle"
  /\ draft[d].status \in Mutable \cup {"converting"}
  /\ stage' = [stage EXCEPT ![c] = "loaded"]
  /\ ask' = [ask EXCEPT ![c] = [actor |-> Owner[d], key |-> k, slot |-> Nothing,
                                draft |-> d, content |-> draft[d].content]]
  /\ UNCHANGED <<made, bookings, idem, draft, lost, moved, doubted>>

\* UPDATE ... SET status = 'converting' WHERE status IN (...).
ConvertibleAny(d) == draft[d].status \notin {"discarded", "expired"}
Convertible(d) == draft[d].status \in Mutable

ClaimDraft(c) ==
  /\ stage[c] = "loaded"
  /\ IF Convertible(ask[c].draft)
     THEN SetDraft(ask[c].draft, "converting") /\ Go(c, "claimed")
     ELSE End(c) /\ UNCHANGED draft
  /\ UNCHANGED <<bookings, idem, lost, moved, doubted>>

\* Neither of the two last writes looks at the status.
MarkConverted(c) ==
  /\ stage[c] = "created"
  /\ draft' = [draft EXCEPT ![ask[c].draft].status = "converted", ![ask[c].draft].booking = made[c]]
  /\ End(c)
  /\ UNCHANGED <<bookings, idem, lost, moved, doubted>>

PutBack(c) ==
  /\ stage[c] = "failed"
  /\ SetDraft(ask[c].draft, "ready_for_review")
  /\ End(c)
  /\ UNCHANGED <<bookings, idem, lost, moved, doubted>>

(***************************************************************************)
(* Afterwards, and the specification.                                       *)
(***************************************************************************)
\* A booking leaves its slot when it ends.
Finish(i) ==
  /\ bookings[i].open
  /\ bookings' = [bookings EXCEPT ![i].open = FALSE]
  /\ UNCHANGED <<idem, draft, callVars, lost, moved, doubted>>

\* A reschedule writes the time of a booking at a branch. It does not look at
\* the capacity there.
Move(i, s) ==
  /\ bookings[i].open
  /\ bookings[i].slot \notin {Nothing, s}
  /\ bookings' = [bookings EXCEPT ![i].slot = s]
  /\ moved' = moved \cup {s}
  /\ UNCHANGED <<idem, draft, callVars, lost, doubted>>

\* The process dies: the transaction rolls back, a claimed draft stays claimed.
Crash(c) ==
  /\ stage[c] # "idle"
  /\ End(c)
  /\ UNCHANGED <<bookings, idem, draft, lost, moved, doubted>>

Init ==
  /\ bookings = <<>>
  /\ idem = [a \in Actors |-> [k \in Keys |-> 0]]
  /\ draft = [d \in Drafts |-> [status |-> "editing", content |-> 0, booking |-> 0]]
  /\ stage = [c \in Calls |-> "idle"]
  /\ ask = [c \in Calls |-> Nothing]
  /\ made = [c \in Calls |-> 0]
  /\ lost = 0 /\ moved = {} /\ doubted = {}

Next ==
  \/ \E c \in Calls :
       \/ \E a \in Customers, k \in Keys \cup {Nothing}, s \in Slots \cup {Nothing} : Submit(c, a, k, s)
       \/ \E a \in Admins, k \in Keys : AdminSubmit(c, a, k)
       \/ \E d \in Drafts, k \in Keys : LoadDraft(c, d, k)
       \/ LockSlot(c) \/ CommitCustomer(c)
       \/ Reject(c) \/ LockKey(c) \/ CommitAdmin(c) \/ LoseAnswer(c)
       \/ ClaimDraft(c) \/ CheckForDraft(c) \/ MarkConverted(c) \/ PutBack(c)
       \/ Crash(c)
  \/ \E d \in Drafts : PatchDraft(d) \/ CloseDraft(d)
  \/ \E i \in Ids : Finish(i) \/ \E s \in Slots : Move(i, s)

Spec == Init /\ [][Next]_vars

(***************************************************************************)
(* Properties.                                                              *)
(***************************************************************************)
TypeOK ==
  /\ bookings \in Seq(Booking)
  /\ idem \in [Actors -> [Keys -> 0..MaxBookings]]
  /\ draft \in [Drafts -> [status : DraftStatuses, content : 0..MaxEdits, booking : 0..MaxBookings]]
  /\ stage \in [Calls -> Stages]
  /\ ask \in [Calls -> Request \cup {Nothing}]
  /\ \A c \in Calls : IF stage[c] = "idle" THEN ask[c] = Nothing ELSE ask[c] \in Request
  /\ made \in [Calls -> 0..MaxBookings]
  /\ lost \in 0..MaxLost /\ moved \subseteq Slots /\ doubted \subseteq Drafts

\* Submitting twice is submitting once: whatever is retried, doubled, in flight
\* together or cut off, a caller's key has made at most one booking, and the
\* table names that one.
OneBookingPerKey ==
  \A i \in Ids :
    bookings[i].key # Nothing => idem[bookings[i].actor][bookings[i].key] = i

\* Customers checking out at once never fill a slot beyond its capacity, as
\* long as no reschedule moved a booking into it.
SlotNeverOverfull ==
  \A s \in Slots \ moved : Cardinality(InSlot(s)) <= Capacity[s]

\* A draft makes at most one booking, whichever keys its conversions were sent
\* with, unless a commit was reported as a failure.
OneBookingPerDraft ==
  \A d \in Drafts \ doubted :
    Cardinality({i \in Ids : bookings[i].draft = d}) <= 1

\* All the checks, locks and retries amount to bookings placed one at a time.
Register == INSTANCE BookingRegister WITH register <- bookings
ImplementsRegister == Register!Spec
=============================================================================
