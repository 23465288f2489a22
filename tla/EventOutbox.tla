---------------------------- MODULE EventOutbox ----------------------------
(***************************************************************************)
(* The outbox between a fact and the people it concerns                     *)
(* (services/events/eventOutbox.ts, services/events/notificationProjector.ts*)
(* and the producers' use of them).                                         *)
(*                                                                         *)
(* A transactional producer (transitionBooking) inserts the outbox row in   *)
(* the transaction of the fact; any other producer commits the fact first   *)
(* and publishes after it. Either way it then calls dispatchSoon, never     *)
(* awaited: a drain that claims the oldest PENDING rows, whoever published  *)
(* them, and projects each. So there is one drain per publish, known here   *)
(* by the event whose producer started it, and drains overlap.              *)
(*                                                                         *)
(*   stage:  before -> open -> committed          transactional             *)
(*           before -> happened -> committed      the others                *)
(*   run:    off -> draining -> spent             the drain it starts       *)
(*                                                                         *)
(* Every statement of a drain commits on its own. A crash takes every       *)
(* drain, open transaction and pending dispatchSoon with it; rows stay.     *)
(***************************************************************************)
EXTENDS Naturals, FiniteSets

CONSTANTS
  Events,          \* facts with their (event_name, dedupe_key)
  Transactional,   \* those published inside the fact's transaction
  Notices,         \* an owner and a notification key
  Owed,            \* the notices an event projects to
  Limit,           \* rows one claim may take (50 in the code)
  MAX_DISPATCH_ATTEMPTS,
  MaxDismissals,   \* bound on how often one notice is dismissed
  NoEvent

ASSUME EventsAssumption ==
  Transactional \subseteq Events /\ NoEvent \notin Events /\ Owed \in [Events -> SUBSET Notices]
ASSUME LimitsAssumption ==
  Limit \in Nat \ {0} /\ MAX_DISPATCH_ATTEMPTS \in Nat \ {0, 1} /\ MaxDismissals \in Nat

VARIABLES
  fact,        \* has the fact been committed
  row,         \* status of its outbox row; WRITTEN: inserted, not committed
  older,       \* which row has the lower id: pairs of events
  attempts,    \* claims of the row, counted up to MAX_DISPATCH_ATTEMPTS
  stage,       \* where the producer is
  untold,      \* notices it is about to write itself, past the outbox
  run,         \* where the drain it starts is
  batch,       \* claimed by a drain and not yet taken up
  current,     \* the event a drain is projecting
  owing,       \* notices of that event it has not tried yet
  inbox,       \* rows of provider_notifications and customer_notifications
  \* what happened, for the properties
  pushes,      \* how often each notice was pushed to its owner
  dismissals,  \* how often its owner deleted it
  undelivered, \* notices whose write failed in some drain
  troubled     \* a crash, a failing statement or a backlog beyond Limit

producerVars == <<fact, older, stage, untold>>
drainVars == <<run, batch, current, owing>>
noticeVars == <<inbox, pushes, dismissals>>
vars == <<producerVars, row, attempts, drainVars, noticeVars, undelivered, troubled>>

RowWords == {"none", "WRITTEN", "PENDING", "DISPATCHED", "FAILED"}

told == {n \in Notices : pushes[n] > 0}

(***************************************************************************)
(* Producers.                                                               *)
(***************************************************************************)
Insert(e, word) ==
  /\ row' = [row EXCEPT ![e] = word]
  /\ older' = older \cup {f \in Events : row[f] # "none"} \X {e}

\* A call site from before the older, where one is left: once the fact is
\* committed the producer starts the same writes itself and awaits none.
OwesLegacy(e) == untold' = [untold EXCEPT ![e] = Owed[e]]

\* transitionBooking has written the transition and, last, its event.
Open(e) ==
  /\ e \in Transactional
  /\ stage[e] = "before"
  /\ stage' = [stage EXCEPT ![e] = "open"]
  /\ Insert(e, "WRITTEN")
  /\ UNCHANGED <<fact, untold, attempts, drainVars, noticeVars, undelivered, troubled>>

CommitFact(e) ==
  /\ stage[e] = "open"
  /\ stage' = [stage EXCEPT ![e] = "committed"]
  /\ fact' = [fact EXCEPT ![e] = TRUE]
  /\ row' = [row EXCEPT ![e] = "PENDING"]
  /\ OwesLegacy(e)
  /\ UNCHANGED <<older, attempts, drainVars, noticeVars, undelivered, troubled>>

\* The rows of the transactions that end without a COMMIT are gone.
Undo(gone) ==
  /\ row' = [e \in Events |-> IF e \in gone THEN "none" ELSE row[e]]
  /\ older' = older \cap (Events \ gone) \X (Events \ gone)

Rollback(e) ==
  /\ stage[e] = "open"
  /\ stage' = [stage EXCEPT ![e] = "before"]
  /\ Undo({e})
  /\ UNCHANGED <<fact, untold, attempts, drainVars, noticeVars, undelivered, troubled>>

\* A producer without a transaction to join: the fact is committed alone.
Happen(e) ==
  /\ e \in Events \ Transactional
  /\ stage[e] = "before"
  /\ stage' = [stage EXCEPT ![e] = "happened"]
  /\ fact' = [fact EXCEPT ![e] = TRUE]
  /\ OwesLegacy(e)
  /\ UNCHANGED <<older, row, attempts, drainVars, noticeVars, undelivered, troubled>>

\* publishEventSafely: a second publish of the same fact collapses onto its row.
PublishSafely(e) ==
  /\ stage[e] = "happened"
  /\ stage' = [stage EXCEPT ![e] = "committed"]
  /\ IF row[e] = "none" THEN Insert(e, "PENDING") ELSE UNCHANGED <<row, older>>
  /\ UNCHANGED <<fact, untold, attempts, drainVars, noticeVars, undelivered, troubled>>

\* It swallows an error, and dispatchSoon is called all the same.
PublishFails(e) ==
  /\ stage[e] = "happened"
  /\ stage' = [stage EXCEPT ![e] = "committed"]
  /\ troubled' = TRUE
  /\ UNCHANGED <<fact, row, older, untold, attempts, drainVars, noticeVars, undelivered>>

\* The caller repeats the request.
Repeat(e) ==
  /\ e \in Events \ Transactional
  /\ run[e] = "spent"
  /\ stage' = [stage EXCEPT ![e] = "happened"]
  /\ run' = [run EXCEPT ![e] = "off"]
  /\ OwesLegacy(e)
  /\ UNCHANGED <<fact, row, older, attempts, batch, current, owing, noticeVars, undelivered, troubled>>

(***************************************************************************)
(* Notices. The unique index on owner and key is what tells a first write   *)
(* from a repeated one; only a first write is pushed.                       *)
(***************************************************************************)
IsNewIgnoringIndex(n) == TRUE
IsNew(n) == n \notin inbox

CreateNotifications(notices) ==
  /\ inbox' = inbox \cup notices
  /\ pushes' = [n \in Notices |-> IF n \in notices /\ IsNew(n) THEN pushes[n] + 1 ELSE pushes[n]]
  /\ UNCHANGED dismissals

LegacyTell(e, n) ==
  /\ n \in untold[e]
  /\ untold' = [untold EXCEPT ![e] = @ \ {n}]
  /\ CreateNotifications({n})
  /\ UNCHANGED <<fact, older, stage, row, attempts, drainVars, undelivered, troubled>>

\* deleteNotificationByKey: dismissing deletes the row.
Dismiss(n) ==
  /\ n \in inbox
  /\ dismissals[n] < MaxDismissals
  /\ inbox' = inbox \ {n}
  /\ dismissals' = [dismissals EXCEPT ![n] = @ + 1]
  /\ UNCHANGED <<producerVars, row, attempts, drainVars, pushes, undelivered, troubled>>

(***************************************************************************)
(* dispatchPending.                                                         *)
(***************************************************************************)
\* dispatchSoon comes after the COMMIT.
DispatchStagesEarly == {"open", "committed"}
DispatchStages == {"committed"}

VisiblePendingDirty == {e \in Events : row[e] \in {"WRITTEN", "PENDING"}}
VisiblePending == {e \in Events : row[e] = "PENDING"}

\* ORDER BY id LIMIT. The claim leaves the status as it is.
Before(f, e) == <<f, e>> \in older
Oldest ==
  {e \in VisiblePending : Cardinality({f \in VisiblePending : Before(f, e)}) < Limit}

Claim(d) ==
  /\ run[d] = "off"
  /\ stage[d] \in DispatchStages
  /\ run' = [run EXCEPT ![d] = "draining"]
  /\ batch' = [batch EXCEPT ![d] = Oldest]
  /\ attempts' = [e \in Events |->
       IF e \in Oldest /\ attempts[e] < MAX_DISPATCH_ATTEMPTS THEN attempts[e] + 1 ELSE attempts[e]]
  /\ troubled' = (troubled \/ Oldest # VisiblePending)
  /\ UNCHANGED <<producerVars, row, current, owing, noticeVars, undelivered>>

\* The loop over the claimed rows: projectAndDeliver, one notice at a time.
Take(d, e) ==
  /\ current[d] = NoEvent
  /\ e \in batch[d]
  /\ batch' = [batch EXCEPT ![d] = @ \ {e}]
  /\ current' = [current EXCEPT ![d] = e]
  /\ owing' = [owing EXCEPT ![d] = Owed[e]]
  /\ UNCHANGED <<producerVars, row, attempts, run, noticeVars, undelivered, troubled>>

Deliver(d, n) ==
  /\ n \in owing[d]
  /\ owing' = [owing EXCEPT ![d] = @ \ {n}]
  /\ CreateNotifications({n})
  /\ UNCHANGED <<producerVars, row, attempts, run, batch, current, undelivered, troubled>>

\* One recipient's failure is logged and the row still completes.
LoseDelivery(d, n) ==
  /\ n \in owing[d]
  /\ owing' = [owing EXCEPT ![d] = @ \ {n}]
  /\ undelivered' = undelivered \cup {n}
  /\ UNCHANGED <<producerVars, row, attempts, run, batch, current, noticeVars, troubled>>

\* The UPDATE by id: no status in its predicate.
MarkRow(d, word) ==
  /\ row' = [row EXCEPT ![current[d]] = word]
  /\ current' = [current EXCEPT ![d] = NoEvent]
  /\ owing' = [owing EXCEPT ![d] = {}]
  /\ UNCHANGED <<producerVars, attempts, run, batch, noticeVars, undelivered>>

ProjectedAtOnce(d) == current[d] # NoEvent
Projected(d) == current[d] # NoEvent /\ owing[d] = {}

MarkDispatched(d) ==
  /\ Projected(d)
  /\ MarkRow(d, "DISPATCHED")
  /\ UNCHANGED troubled

\* The envelope the claim returns has no attempts column, so markFailed is
\* always told of one.
AttemptsSeen(e) == 1

\* markDispatched fails and markFailed does not.
MarkFailed(d) ==
  /\ Projected(d)
  /\ MarkRow(d, IF AttemptsSeen(current[d]) >= MAX_DISPATCH_ATTEMPTS THEN "FAILED" ELSE "PENDING")
  /\ troubled' = TRUE

\* Nothing left in the batch.
FinishDrain(d) ==
  /\ run[d] = "draining"
  /\ batch[d] = {} /\ current[d] = NoEvent
  /\ run' = [run EXCEPT ![d] = "spent"]
  /\ UNCHANGED <<producerVars, row, attempts, batch, current, owing, noticeVars, undelivered, troubled>>

\* The drains of `gone` end where they are; the rows they claimed stay PENDING.
Abandoned(gone) ==
  /\ run' = [d \in Events |-> IF d \in gone THEN "spent" ELSE run[d]]
  /\ batch' = [d \in Events |-> IF d \in gone THEN {} ELSE batch[d]]
  /\ current' = [d \in Events |-> IF d \in gone THEN NoEvent ELSE current[d]]
  /\ owing' = [d \in Events |-> IF d \in gone THEN {} ELSE owing[d]]
  /\ troubled' = TRUE
  /\ UNCHANGED <<fact, attempts, noticeVars, undelivered>>

\* claimPending or markFailed itself fails: dispatchSoon swallows the error.
Abandon(d) ==
  /\ stage[d] \in DispatchStages
  /\ run[d] = "off" \/ Projected(d)
  /\ Abandoned({d})
  /\ UNCHANGED <<row, older, stage, untold>>

Crash ==
  /\ \E e \in Events : run[e] # "spent" /\ stage[e] # "before"
  /\ Abandoned({e \in Events : stage[e] \in {"happened", "committed"}})
  /\ Undo({e \in Events : stage[e] = "open"})
  /\ stage' = [e \in Events |-> IF stage[e] = "open" THEN "before"
                               ELSE IF stage[e] = "happened" THEN "committed" ELSE stage[e]]
  /\ untold' = [e \in Events |-> {}]

(***************************************************************************)
(* The specification.                                                       *)
(***************************************************************************)
Init ==
  /\ fact = [e \in Events |-> FALSE]
  /\ row = [e \in Events |-> "none"]
  /\ older = {}
  /\ attempts = [e \in Events |-> 0]
  /\ stage = [e \in Events |-> "before"]
  /\ untold = [e \in Events |-> {}]
  /\ run = [e \in Events |-> "off"]
  /\ batch = [e \in Events |-> {}]
  /\ current = [e \in Events |-> NoEvent]
  /\ owing = [e \in Events |-> {}]
  /\ inbox = {}
  /\ pushes = [n \in Notices |-> 0]
  /\ dismissals = [n \in Notices |-> 0]
  /\ undelivered = {}
  /\ troubled = FALSE

\* What a running process does by itself once a fact is under way.
Proceed(e) ==
  \/ CommitFact(e) \/ Rollback(e)
  \/ PublishSafely(e) \/ PublishFails(e)
  \/ Claim(e)
  \/ \E f \in Events : Take(e, f)
  \/ \E n \in Notices : Deliver(e, n) \/ LoseDelivery(e, n)
  \/ MarkDispatched(e) \/ MarkFailed(e)
  \/ FinishDrain(e)
  \/ Abandon(e)

Next ==
  \/ \E e \in Events : Open(e) \/ Happen(e) \/ Repeat(e) \/ Proceed(e)
  \/ \E e \in Events, n \in Notices : LegacyTell(e, n)
  \/ \E n \in Notices : Dismiss(n)
  \/ Crash

Spec == Init /\ [][Next]_vars

\* The event loop runs every continuation. Nobody has to publish, and no timer
\* or boot step of the code drains the outbox.
FairSpec == Spec /\ \A e \in Events : WF_vars(Proceed(e))

(***************************************************************************)
(* Properties.                                                              *)
(***************************************************************************)
\* The rows there are, and no others, stand in the order of their ids.
RowsAreOrdered ==
  /\ older \subseteq Events \X Events
  /\ \A e, f \in Events : Before(e, f) => row[e] # "none" /\ row[f] # "none"
  /\ \A e, f \in Events :
       row[e] # "none" /\ row[f] # "none" /\ e # f => (Before(e, f) <=> ~Before(f, e))
  /\ \A e \in Events : ~Before(e, e)
  /\ \A e, f, g \in Events : Before(e, f) /\ Before(f, g) => Before(e, g)

TypeOK ==
  /\ fact \in [Events -> BOOLEAN]
  /\ row \in [Events -> RowWords]
  /\ RowsAreOrdered
  /\ attempts \in [Events -> 0 .. MAX_DISPATCH_ATTEMPTS]
  /\ stage \in [Events -> {"before", "open", "happened", "committed"}]
  /\ untold \in [Events -> SUBSET Notices]
  /\ run \in [Events -> {"off", "draining", "spent"}]
  /\ batch \in [Events -> SUBSET Events]
  /\ current \in [Events -> Events \cup {NoEvent}]
  /\ owing \in [Events -> SUBSET Notices]
  /\ inbox \subseteq Notices
  /\ pushes \in [Notices -> Nat]
  /\ dismissals \in [Notices -> 0 .. MaxDismissals]
  /\ undelivered \subseteq Notices
  /\ troubled \in BOOLEAN

\* Nobody is told of a booking that did not change: every notice that went out
\* belongs to a committed fact, whatever is rolled back or crashes meanwhile.
NothingAnnouncedEarly ==
  \A n \in told : \E e \in Events : fact[e] /\ n \in Owed[e]

\* DISPATCHED is the truth about an event, with drains of the same row racing
\* and dying at any point: each notice it owed went out, or its write was tried
\* and failed.
DispatchedMeansTried ==
  \A e \in Events : row[e] = "DISPATCHED" => Owed[e] \subseteq told \cup undelivered

\* Overlapping drains, redelivered rows and the older call sites all write the
\* same notices; a person is told again only after dismissing the first one.
ToldAgainOnlyAfterDismissal ==
  \A n \in Notices : pushes[n] <= 1 + dismissals[n]

\* As long as the process lives, its statements succeed and the backlog fits one
\* claim, every fact reaches everyone it concerns.
FactsAreAnnounced ==
  \A e \in Events : fact[e] ~> (Owed[e] \subseteq told \cup undelivered \/ troubled)
=============================================================================
