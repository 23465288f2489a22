------------------------------ MODULE Payments ------------------------------
(***************************************************************************)
(* Online payments: checkout sessions, the processor's webhooks, refunds,   *)
(* and the additional-work request a payment may be for                     *)
(* (services/paymentService.ts, refund.service.ts, additional.service.ts).  *)
(*                                                                         *)
(* A checkout runs under the booking's advisory lock with the payment row   *)
(* locked from its first read to its COMMIT, so it is one step; so is each  *)
(* webhook, a transaction of its own. A checkout rolled back after the      *)
(* POST leaves nothing: its attempt number, and so its Idempotency-Key and  *)
(* its session, are used again, and nobody was given the link. A refund is  *)
(* not a transaction: it claims, posts and settles in separate steps.       *)
(*                                                                         *)
(* An admin may also record that money of a payment was sent back by hand   *)
(* (services/adminFinanceService.ts). Nothing there asks how it was paid.   *)
(*                                                                         *)
(* The processor is external: it keeps every session payable, sends its     *)
(* events in any order and again until they are acknowledged.               *)
(***************************************************************************)
EXTENDS Naturals, FiniteSets

CONSTANTS
  Rows,         \* payments
  MaxSessions,  \* bound: checkout sessions per payment
  MaxCrashes,   \* bound: refunds that die between two steps
  MaxByHand,    \* bound: reviews by hand of a payment at a time
  None

ASSUME BoundsAssumption ==
  MaxSessions \in Nat \ {0} /\ MaxCrashes \in Nat /\ MaxByHand \in Nat
ASSUME NoneAssumption == None \notin Nat \cup Rows

Sessions == 1..MaxSessions

\* Refunds of a payment: by the API, and by someone at the processor.
Refunds == {"api", "dashboard"}

VARIABLES
  status,       \* payments.status; "NONE": the row of an extra is not there yet
  attempt,      \* checkout_attempt: sessions 1..attempt were handed out
  current,      \* the session in provider_payment_id, None once it is a charge
  charge,       \* the session whose charge is in provider_payment_id, else None
  superseded,   \* superseded_session_ids
  raw,          \* the session raw_response names, else None
  lastEvent,    \* webhook_event_id
  refundRef,    \* refund_reference
  request,      \* booking_additional_requests.status, "NONE": a booking's payment
  ledger,       \* finance_ledger_events about payments
  stage,        \* where the refund call of a payment is
  crashes,
  standing,     \* reviews opened about a payment and not carried out
  byHand,       \* history: payments a review carried out made REFUNDED
  charged,      \* processor: sessions paid
  books,        \* processor: what became of each refund
  sent,         \* processor: events
  acked         \* processor: events acknowledged

rowVars == <<status, attempt, current, charge, superseded, raw, lastEvent, refundRef, request, ledger>>
handVars == <<standing, byHand>>
callVars == <<stage, crashes, handVars>>
processorVars == <<charged, books, sent, acked>>
vars == <<rowVars, callVars, processorVars>>

Statuses == {"NONE", "PENDING", "FAILED", "PAID", "REFUNDING", "REFUNDED"}
RequestStatuses ==
  {"NONE", "PENDING_ADMIN_APPROVAL", "WAITING_FOR_PAYMENT", "WAITING_WORKER_APPROVAL",
   "ACCEPTED", "IN_PROGRESS", "REJECTED", "CANCELLED", "REFUNDED"}
Stages == {"none", "due", "claimed", "succeeded", "pending", "refused", "unknown"}
BookStates == {"none", "open", "succeeded", "failed"}

SettledStatuses == {"PAID", "REFUNDING", "REFUNDED"}

PaidEvent(p, n) == [type |-> "checkout_session.payment.paid", row |-> p, of |-> n]
FailedEvent(p, n) == [type |-> "checkout_session.payment.failed", row |-> p, of |-> n]
RefundEvent(p, k) == [type |-> "refund.succeeded", row |-> p, of |-> k]
Events ==
  {PaidEvent(p, n) : p \in Rows, n \in Sessions}
    \cup {FailedEvent(p, n) : p \in Rows, n \in Sessions}
    \cup {RefundEvent(p, k) : p \in Rows, k \in Refunds}

Captured(p) == <<"PAYMENT_CAPTURED", p>>
Refunded(p) == <<"PAYMENT_REFUNDED", p>>

Init ==
  /\ request \in [Rows -> {"NONE", "PENDING_ADMIN_APPROVAL"}]
  /\ status = [p \in Rows |-> IF request[p] = "NONE" THEN "PENDING" ELSE "NONE"]
  /\ attempt = [p \in Rows |-> 0]
  /\ current = [p \in Rows |-> None]
  /\ charge = [p \in Rows |-> None]
  /\ superseded = [p \in Rows |-> {}]
  /\ raw = [p \in Rows |-> None]
  /\ lastEvent = [p \in Rows |-> None]
  /\ refundRef = [p \in Rows |-> None]
  /\ ledger = {}
  /\ stage = [p \in Rows |-> "none"]
  /\ crashes = 0
  /\ standing = [p \in Rows |-> 0] /\ byHand = {}
  /\ charged = [p \in Rows |-> {}]
  /\ books = [p \in Rows |-> [k \in Refunds |-> "none"]]
  /\ sent = {} /\ acked = {}

Superseded(p) == superseded[p] \cup ({current[p]} \ {None})

Checkout(p) ==
  /\ request[p] \in {"NONE", "WAITING_FOR_PAYMENT"}
  /\ status[p] \in {"NONE", "PENDING", "FAILED"}
  /\ attempt[p] < MaxSessions
  /\ attempt' = [attempt EXCEPT ![p] = @ + 1]
  /\ current' = [current EXCEPT ![p] = attempt[p] + 1]
  /\ raw' = [raw EXCEPT ![p] = attempt[p] + 1]
  /\ superseded' = [superseded EXCEPT ![p] = Superseded(p)]
  /\ status' = [status EXCEPT ![p] = "PENDING"]
  /\ UNCHANGED <<charge, lastEvent, refundRef, request, ledger, callVars, processorVars>>

(***************************************************************************)
(* The processor and the customer.                                          *)
(***************************************************************************)
\* Every session handed out stays payable, also after another one was paid.
Pay(p, n) ==
  /\ n \in 1..attempt[p] \ charged[p]
  /\ charged' = [charged EXCEPT ![p] = @ \cup {n}]
  /\ sent' = sent \cup {PaidEvent(p, n)}
  /\ UNCHANGED <<rowVars, callVars, books, acked>>

\* A declined card. The session can still be paid.
Decline(p, n) ==
  /\ n \in 1..attempt[p] \ charged[p]
  /\ sent' = sent \cup {FailedEvent(p, n)}
  /\ UNCHANGED <<rowVars, callVars, charged, books, acked>>

\* An accepted refund goes through, with an event, or fails without one.
SucceedRefund(p, k) ==
  /\ books[p][k] = "open"
  /\ books' = [books EXCEPT ![p][k] = "succeeded"]
  /\ sent' = sent \cup {RefundEvent(p, k)}
  /\ UNCHANGED <<rowVars, callVars, charged, acked>>

FailRefund(p, k) ==
  /\ books[p][k] = "open"
  /\ books' = [books EXCEPT ![p][k] = "failed"]
  /\ UNCHANGED <<rowVars, callVars, charged, sent, acked>>

\* The processor refunds a charge once.
Refundable(p) == \A k \in Refunds : books[p][k] \in {"none", "failed"}

DashboardRefund(p) ==
  /\ charge[p] # None
  /\ Refundable(p)
  /\ books[p]["dashboard"] = "none"
  /\ books' = [books EXCEPT ![p]["dashboard"] = "open"]
  /\ UNCHANGED <<rowVars, callVars, charged, sent, acked>>

(***************************************************************************)
(* Webhooks. One event per delivery; an event that throws is not            *)
(* acknowledged and comes again.                                            *)
(***************************************************************************)
\* The predicate of both UPDATEs, and what the lookup after them also finds.
Matches(p, n) == n = current[p] \/ n \in superseded[p]
Known(p, n) == Matches(p, n) \/ n = raw[p]

Acknowledge(e) == acked' = acked \cup {e}

\* claimWebhookEvent: the event is the last one this row took.
DeliverAgain(e) ==
  /\ e \in sent
  /\ lastEvent[e.row] = e
  /\ Acknowledge(e)
  /\ UNCHANGED <<rowVars, callVars, charged, books, sent>>

New(e, type) == e \in sent /\ e.type = type /\ lastEvent[e.row] # e

CapturableAgain(p) == status[p] # "NONE"
Capturable(p) == status[p] \in {"PENDING", "FAILED"}

\* The charge, its ledger event and the request, in one transaction.
DeliverPaid(e) ==
  LET p == e.row
  IN  /\ New(e, "checkout_session.payment.paid")
      /\ Matches(p, e.of)
      /\ Capturable(p)
      /\ status' = [status EXCEPT ![p] = "PAID"]
      /\ charge' = [charge EXCEPT ![p] = e.of]
      /\ current' = [current EXCEPT ![p] = None]
      /\ raw' = [raw EXCEPT ![p] = e.of]
      /\ lastEvent' = [lastEvent EXCEPT ![p] = e]
      /\ ledger' = ledger \cup {Captured(p)}
      /\ request' = [request EXCEPT ![p] =
                       IF @ = "WAITING_FOR_PAYMENT" THEN "WAITING_WORKER_APPROVAL" ELSE @]
      /\ Acknowledge(e)
      /\ UNCHANGED <<attempt, superseded, refundRef, callVars, charged, books, sent>>

\* Failure only from PENDING: a late one never demotes a charge.
FailableAlways(p) == status[p] \in Statuses \ {"NONE"}
Failable(p) == status[p] = "PENDING"

DeliverFailed(e) ==
  LET p == e.row
  IN  /\ New(e, "checkout_session.payment.failed")
      /\ Matches(p, e.of)
      /\ Failable(p)
      /\ status' = [status EXCEPT ![p] = "FAILED"]
      /\ raw' = [raw EXCEPT ![p] = e.of]
      /\ lastEvent' = [lastEvent EXCEPT ![p] = e]
      /\ Acknowledge(e)
      /\ UNCHANGED <<attempt, current, charge, superseded, refundRef, request, ledger,
                     callVars, charged, books, sent>>

\* A paid or failed event about a session the row knows, once it is settled
\* (or, for a failure, already failed), is acknowledged and changes nothing.
DeliverLate(e) ==
  /\ \/ New(e, "checkout_session.payment.paid")
     \/ New(e, "checkout_session.payment.failed")
  /\ Known(e.row, e.of)
  /\ \/ status[e.row] \in SettledStatuses
     \/ status[e.row] = "FAILED" /\ e.type = "checkout_session.payment.failed"
  /\ Acknowledge(e)
  /\ UNCHANGED <<rowVars, callVars, charged, books, sent>>

\* A refund ends the request, wherever it is.
KeptRequest(p) == request[p]
RefundedRequest(p) == IF request[p] = "NONE" THEN "NONE" ELSE "REFUNDED"

\* refund.succeeded names the charge, which the row holds since it was paid.
DeliverRefund(e) ==
  LET p == e.row
  IN  /\ New(e, "refund.succeeded")
      /\ charge[p] # None
      /\ \/ /\ status[p] = "REFUNDED" /\ refundRef[p] = e.of
            /\ UNCHANGED <<status, refundRef, request, ledger>>
         \/ /\ status[p] \in {"PAID", "REFUNDING"}
            /\ status' = [status EXCEPT ![p] = "REFUNDED"]
            /\ refundRef' = [refundRef EXCEPT ![p] = e.of]
            /\ request' = [request EXCEPT ![p] = RefundedRequest(p)]
            /\ ledger' = ledger \cup {Refunded(p)}
      /\ raw' = [raw EXCEPT ![p] = None]
      /\ lastEvent' = [lastEvent EXCEPT ![p] = e]
      /\ Acknowledge(e)
      /\ UNCHANGED <<attempt, current, charge, superseded, callVars, charged, books, sent>>

Deliver(e) ==
  \/ DeliverAgain(e) \/ DeliverPaid(e) \/ DeliverFailed(e)
  \/ DeliverLate(e) \/ DeliverRefund(e)

(***************************************************************************)
(* The additional-work request.                                             *)
(***************************************************************************)
MoveRequest(p, from, to) ==
  /\ request[p] \in from
  /\ request' = [request EXCEPT ![p] = to]

OtherThanRequest ==
  <<status, attempt, current, charge, superseded, raw, lastEvent, refundRef, ledger, crashes, handVars,
    processorVars>>

Approve(p) ==
  /\ MoveRequest(p, {"PENDING_ADMIN_APPROVAL"}, "WAITING_FOR_PAYMENT")
  /\ UNCHANGED <<OtherThanRequest, stage>>

\* workerDecision, workerConfirmProceed, workerWithdraw: the last one leaves a
\* payment that was made as it is.
AcceptWork(p) ==
  /\ MoveRequest(p, {"WAITING_WORKER_APPROVAL"}, "ACCEPTED")
  /\ UNCHANGED <<OtherThanRequest, stage>>

ConfirmProceed(p) ==
  /\ MoveRequest(p, {"ACCEPTED"}, "IN_PROGRESS")
  /\ UNCHANGED <<OtherThanRequest, stage>>

Withdrawable == {"PENDING_ADMIN_APPROVAL", "WAITING_WORKER_APPROVAL"}

Withdraw(p) ==
  /\ MoveRequest(p, Withdrawable, "CANCELLED")
  /\ UNCHANGED <<OtherThanRequest, stage>>

RejectWork(p) ==
  /\ MoveRequest(p, {"WAITING_WORKER_APPROVAL"}, "REJECTED")
  /\ stage' = [stage EXCEPT ![p] = "due"]
  /\ UNCHANGED OtherThanRequest

(***************************************************************************)
(* refundAdditionalRequest, called after the rejection was written.         *)
(***************************************************************************)
ClaimRefund(p) ==
  /\ stage[p] = "due"
  /\ IF status[p] = "PAID" /\ charge[p] # None
     THEN /\ status' = [status EXCEPT ![p] = "REFUNDING"]
          /\ stage' = [stage EXCEPT ![p] = "claimed"]
     ELSE stage' = [stage EXCEPT ![p] = "none"] /\ UNCHANGED status
  /\ UNCHANGED <<attempt, current, charge, superseded, raw, lastEvent, refundRef, request, ledger,
                 crashes, handVars, processorVars>>

\* What the processor did, and what the caller learns of it.
AnswersTo(entry) ==
  CASE entry = "succeeded" -> {"succeeded", "unknown"}
    [] entry = "open" -> {"pending", "unknown"}
    [] entry = "failed" -> {"refused", "unknown"}
    [] OTHER -> {"unknown"}

PostRefund(p) ==
  /\ stage[p] = "claimed"
  /\ \E entry \in IF Refundable(p) THEN BookStates ELSE {"none", "failed"} :
       /\ books' = [books EXCEPT ![p]["api"] = entry]
       /\ sent' = sent \cup (IF entry = "succeeded" THEN {RefundEvent(p, "api")} ELSE {})
       /\ \E known \in AnswersTo(entry) : stage' = [stage EXCEPT ![p] = known]
  /\ UNCHANGED <<rowVars, crashes, handVars, charged, acked>>

\* Every write has WHERE status = 'REFUNDING'. An outcome nobody knows writes
\* nothing.
PutsBackWhenUnsure(p) == stage[p] \in {"refused", "unknown"}
PutsBack(p) == stage[p] = "refused"

SucceededIfAccepted(p) == stage[p] \in {"succeeded", "pending"}
Succeeded(p) == stage[p] = "succeeded"

SettleRefund(p) ==
  /\ stage[p] \in {"succeeded", "pending", "refused", "unknown"}
  /\ stage' = [stage EXCEPT ![p] = "none"]
  /\ CASE status[p] = "REFUNDING" /\ Succeeded(p) ->
            /\ status' = [status EXCEPT ![p] = "REFUNDED"]
            /\ refundRef' = [refundRef EXCEPT ![p] = "api"]
            /\ raw' = [raw EXCEPT ![p] = None]
            /\ request' = [request EXCEPT ![p] = RefundedRequest(p)]
            /\ ledger' = ledger \cup {Refunded(p)}
       [] status[p] = "REFUNDING" /\ stage[p] = "pending" ->
            /\ refundRef' = [refundRef EXCEPT ![p] = "api"]
            /\ raw' = [raw EXCEPT ![p] = None]
            /\ UNCHANGED <<status, request, ledger>>
       [] status[p] = "REFUNDING" /\ PutsBack(p) ->
            /\ status' = [status EXCEPT ![p] = "PAID"]
            /\ UNCHANGED <<refundRef, raw, request, ledger>>
       [] OTHER -> UNCHANGED <<status, refundRef, raw, request, ledger>>
  /\ UNCHANGED <<attempt, current, charge, superseded, lastEvent, crashes, handVars, processorVars>>

CrashRefund(p) ==
  /\ stage[p] # "none"
  /\ crashes < MaxCrashes
  /\ crashes' = crashes + 1
  /\ stage' = [stage EXCEPT ![p] = "none"]
  /\ UNCHANGED <<rowVars, handVars, processorVars>>

(***************************************************************************)
(* Refunds by hand. RefundReviews has the reviews themselves; here one only *)
(* stands, from the read that found the payment PAID, until it is carried   *)
(* out. One that is refused, or never inserted, is one never carried out.   *)
(***************************************************************************)
OpenReview(p) ==
  /\ status[p] = "PAID"
  /\ standing[p] < MaxByHand
  /\ standing' = [standing EXCEPT ![p] = @ + 1]
  /\ UNCHANGED <<rowVars, stage, crashes, byHand, processorVars>>

\* markRefundProcessed writes the payment whatever has become of it since: with
\* the rest of the amount it is REFUNDED, with a part the status stays. Neither
\* the processor, nor the request, nor the ledger hears of it.
WriteRefundByHand(p) ==
  /\ standing[p] > 0
  /\ standing' = [standing EXCEPT ![p] = @ - 1]
  /\ refundRef' = [refundRef EXCEPT ![p] = "hand"]
  /\ \/ UNCHANGED <<status, byHand>>
     \/ /\ status[p] # "REFUNDED"
        /\ status' = [status EXCEPT ![p] = "REFUNDED"]
        /\ byHand' = byHand \cup {p}
  /\ UNCHANGED <<attempt, current, charge, superseded, raw, lastEvent, request, ledger,
                 stage, crashes, processorVars>>

(***************************************************************************)
(* The specification.                                                       *)
(***************************************************************************)
RefundStep(p) == ClaimRefund(p) \/ PostRefund(p) \/ SettleRefund(p)

Next ==
  \/ \E p \in Rows :
       \/ Checkout(p)
       \/ \E n \in Sessions : Pay(p, n) \/ Decline(p, n)
       \/ \E k \in Refunds : SucceedRefund(p, k) \/ FailRefund(p, k)
       \/ DashboardRefund(p)
       \/ Approve(p) \/ AcceptWork(p) \/ ConfirmProceed(p) \/ Withdraw(p) \/ RejectWork(p)
       \/ RefundStep(p) \/ CrashRefund(p)
       \/ OpenReview(p) \/ WriteRefundByHand(p)
  \/ \E e \in Events : Deliver(e)

Spec == Init /\ [][Next]_vars

\* The processor delivers an event until it is acknowledged, and the event loop
\* carries a refund on.
Fairness ==
  /\ \A e \in Events : WF_vars(e \notin acked /\ Deliver(e))
  /\ \A p \in Rows : WF_vars(RefundStep(p))

FairSpec == Spec /\ Fairness

(***************************************************************************)
(* Properties.                                                              *)
(***************************************************************************)
TypeOK ==
  /\ status \in [Rows -> Statuses]
  /\ attempt \in [Rows -> 0..MaxSessions]
  /\ current \in [Rows -> Sessions \cup {None}]
  /\ charge \in [Rows -> Sessions \cup {None}]
  /\ superseded \in [Rows -> SUBSET Sessions]
  /\ raw \in [Rows -> Sessions \cup {None}]
  /\ lastEvent \in [Rows -> Events \cup {None}]
  /\ refundRef \in [Rows -> Refunds \cup {"hand", None}]
  /\ request \in [Rows -> RequestStatuses]
  /\ ledger \subseteq {Captured(p) : p \in Rows} \cup {Refunded(p) : p \in Rows}
  /\ stage \in [Rows -> Stages]
  /\ crashes \in Nat
  /\ standing \in [Rows -> 0..MaxByHand] /\ byHand \subseteq Rows
  /\ charged \in [Rows -> SUBSET Sessions]
  /\ books \in [Rows -> [Refunds -> BookStates]]
  /\ sent \subseteq Events /\ acked \subseteq sent

\* The row and the processor agree on what was captured: a row counts as paid
\* exactly while it names a charge the processor really took, and the ledger
\* has the capture from that moment on.
CaptureAgrees ==
  \A p \in Rows :
    /\ status[p] \in SettledStatuses <=> charge[p] # None
    /\ charge[p] # None => charge[p] \in charged[p]
    /\ Captured(p) \in ledger <=> charge[p] # None

\* Two tables, one story: work that waits for the provider or goes ahead is
\* paid for, and is stopped by the refund that takes the money back, unless
\* that was a refund by hand, which leaves the request where it is.
WorkIsPaidFor ==
  \A p \in Rows :
    request[p] \in {"WAITING_WORKER_APPROVAL", "ACCEPTED", "IN_PROGRESS"} =>
      status[p] = "PAID" \/ p \in byHand

\* A refund the API sent is never taken for one that was turned down: while the
\* processor has or may have accepted it, the row does not say PAID again.
RefundNotForgotten ==
  \A p \in Rows : status[p] = "PAID" => books[p]["api"] \in {"none", "failed"}

\* The ledger has the refund of a payment exactly while the row says REFUNDED,
\* a refund by hand apart, and only for money the processor did send back, also
\* when a webhook, the API's answer and a refund by hand overtake each other.
RefundedIsReturned ==
  \A p \in Rows :
    /\ Refunded(p) \in ledger <=> status[p] = "REFUNDED" /\ p \notin byHand
    /\ Refunded(p) \in ledger => \E k \in Refunds : books[p][k] = "succeeded"


\* The service implements the abstract payment: a late failure, a duplicate, a
\* second charge or an unknown refund never moves a payment backwards.
states ==
  [p \in Rows |->
     CASE status[p] = "PAID" -> "paid"
       [] status[p] = "REFUNDING" -> "refunding"
       [] status[p] = "REFUNDED" -> "refunded"
       [] OTHER -> "unpaid"]
Machine == INSTANCE PaymentMachine WITH
  Payments <- Rows, Charges <- Sessions, NoCharge <- None, state <- states
ImplementsMachine == Machine!Spec
=============================================================================
