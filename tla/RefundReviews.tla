--------------------------- MODULE RefundReviews ---------------------------
(***************************************************************************)
(* Payments made by hand (GCash and cash) and the refunds carried out by    *)
(* hand: services/paymentService.ts, the payment and refund-review          *)
(* operations of services/adminFinanceService.ts, and the refund requests   *)
(* of services/finance/bookingPaymentService.ts.                            *)
(*                                                                         *)
(* Each operation on a payment or a review is one conditional UPDATE, with  *)
(* two exceptions, neither of them a transaction:                           *)
(*                                                                         *)
(*   opening a review    read the payment, look for open reviews, insert    *)
(*   marking one processed    write the review, then the payment            *)
(*                                                                         *)
(* A payment by hand is the one its booking was created with, so looking    *)
(* for the booking's open reviews finds those of the payment. It may find   *)
(* one about the booking's additional work as well, and refuse (Drop).      *)
(***************************************************************************)
EXTENDS Naturals, Sequences, FiniteSets

CONSTANTS
  Rows,         \* payments
  Amount,       \* payments.amount, the same for all
  Amounts,      \* what a review may be about
  Prices,       \* what computeBookingFinance may find a booking's price to be
  Admins,
  Customers,
  Calls,        \* requests in flight that open a review
  SelfApprovalAllowed,  \* REFUND_ALLOW_SELF_APPROVAL
  MaxReviews,   \* bound: reviews
  MaxCrashes,   \* bound: processes that die between the two writes
  Nothing

ASSUME AmountsAssumption ==
  /\ Amount \in Nat \ {0} /\ Amounts \subseteq Nat \ {0} /\ Prices \subseteq Nat
  /\ MaxReviews \in Nat /\ MaxCrashes \in Nat
ASSUME PeopleAssumption ==
  /\ Nothing \notin Admins \cup Customers
  /\ SelfApprovalAllowed \in BOOLEAN

VARIABLES
  method,     \* payments.method, as the booking was created
  status,     \* payments.status
  refunded,   \* refunded_amount
  reviews,    \* finance_refund_reviews in the order of their ids
  opening,    \* the review each call is about to insert
  due,        \* reviews processed whose payment is not written yet
  lost,       \* reviews processed whose payment never will be
  loose       \* history: payments with a review let in by an opening that met another

vars == <<method, status, refunded, reviews, opening, due, lost, loose>>

Methods == {"GCASH", "CASH"}
Statuses == {"PENDING", "PAID", "REJECTED", "REFUNDED"}
ReviewStatuses == {"requested", "approved", "rejected", "processed", "failed"}
OpenStatuses == {"requested", "approved"}
Paths == {"portal", "app"}
People == Admins \cup Customers

\* Reviews from before requested_by was recorded have Nothing there.
Review == [row : Rows, amount : Amounts, by : People \cup {Nothing}, status : ReviewStatuses]

\* met is history: since the call read the payment, or when it did, another
\* refund of the payment was on its way that the columns do not show.
Opening == [row : Rows, amount : Amounts, by : People, path : Paths,
            checked : BOOLEAN, met : BOOLEAN]

Ids == 1..Len(reviews)
ReviewsOf(p) == {i \in Ids : reviews[i].row = p}
Processed(p) == {i \in ReviewsOf(p) : reviews[i].status = "processed"}

\* The money sent back by hand for a set of reviews: the sum of their amounts,
\* counted unit by unit so that it can be reasoned about without induction.
Units(table, ids) == UNION {{i} \X (1..table[i].amount) : i \in ids}
Total(ids) == Cardinality(Units(reviews, ids))

(***************************************************************************)
(* The payment.                                                             *)
(***************************************************************************)
SetStatus(p, word) ==
  /\ status' = [status EXCEPT ![p] = word]
  /\ UNCHANGED <<refunded, reviews, opening, due, lost, loose>>

\* Neither looks at the status, so a refunded payment is PENDING or PAID again.
SubmitGcash(p) == method[p] = "GCASH" /\ SetStatus(p, "PENDING")
ApprovePayment(p) == method[p] = "GCASH" /\ SetStatus(p, "PAID")
MarkCashPaid(p) == method[p] = "CASH" /\ SetStatus(p, "PAID")

ApproveGcashPayment(p) ==
  method[p] = "GCASH" /\ status[p] = "PENDING" /\ SetStatus(p, "PAID")
RejectGcashPayment(p) ==
  method[p] = "GCASH" /\ status[p] = "PENDING" /\ SetStatus(p, "REJECTED")
AdminConfirmCash(p) ==
  method[p] = "CASH" /\ status[p] # "PAID" /\ SetStatus(p, "PAID")

(***************************************************************************)
(* Opening a review.                                                        *)
(***************************************************************************)
OpeningsOf(p) == {c \in Calls : opening[c] # Nothing /\ opening[c].row = p}
Unsettled(p) == OpeningsOf(p) # {} \/ \E i \in due \cup lost : reviews[i].row = p

Read(c, p, amount, who, path, beyond) ==
  /\ opening[c] = Nothing
  /\ status[p] = "PAID"
  /\ opening' = [opening EXCEPT ![c] =
       [row |-> p, amount |-> amount, by |-> who, path |-> path, checked |-> FALSE,
        met |-> beyond \/ Unsettled(p)]]
  /\ UNCHANGED <<status, refunded, reviews, due, lost, loose>>

\* adminFinanceService measures against the payment.
ReadFromPortal(c, a, p, amount) ==
  /\ refunded[p] + amount <= Amount
  /\ Read(c, p, amount, a, "portal", FALSE)

\* bookingPaymentService, for the customer or an admin, measures against the
\* booking's price: additional work included, and an edited price as well.
ReadFromApp(c, who, p, amount, price) ==
  /\ refunded[p] + amount <= price
  /\ Read(c, p, amount, who, "app", price > Amount)

\* The reviews each path looks for. The app's other word, under_review, is one
\* nobody writes.
BlockingUnapproved(path) == {"requested"}
Blocking(path) == IF path = "portal" THEN OpenStatuses ELSE {"requested"}

CheckReviews(c) ==
  LET p == opening[c].row
  IN  /\ opening[c] # Nothing /\ ~opening[c].checked
      /\ \A i \in ReviewsOf(p) : reviews[i].status \notin Blocking(opening[c].path)
      /\ opening' = [opening EXCEPT
           ![c].checked = TRUE,
           ![c].met = @ \/ (opening[c].path = "app"
                              /\ \E i \in ReviewsOf(p) : reviews[i].status = "approved")]
      /\ UNCHANGED <<status, refunded, reviews, due, lost, loose>>

\* An open review was found (the app answers with it), or the call dies.
Drop(c) ==
  /\ opening[c] # Nothing
  /\ opening' = [opening EXCEPT ![c] = Nothing]
  /\ UNCHANGED <<status, refunded, reviews, due, lost, loose>>

InsertReview(c) ==
  /\ opening[c] # Nothing /\ opening[c].checked
  /\ Len(reviews) < MaxReviews
  /\ reviews' = Append(reviews,
       [row |-> opening[c].row, amount |-> opening[c].amount, by |-> opening[c].by,
        status |-> "requested"])
  /\ loose' = loose \cup (IF opening[c].met THEN {opening[c].row} ELSE {})
  /\ opening' = [opening EXCEPT ![c] = Nothing]
  /\ UNCHANGED <<status, refunded, due, lost>>

(***************************************************************************)
(* Deciding on it and carrying it out.                                      *)
(***************************************************************************)
SetReview(i, word) == reviews' = [reviews EXCEPT ![i].status = word]

\* In the UPDATE itself: the approver is somebody else, unless nobody knows who
\* asked or the installation has lifted the rule.
MayApprove(a, i) == SelfApprovalAllowed \/ reviews[i].by = Nothing \/ reviews[i].by # a

ApproveRefund(a, i) ==
  /\ reviews[i].status = "requested"
  /\ MayApprove(a, i)
  /\ SetReview(i, "approved")
  /\ UNCHANGED <<status, refunded, opening, due, lost, loose>>

Rejectable(i) == reviews[i].status \in OpenStatuses

RejectRefund(i) ==
  /\ Rejectable(i)
  /\ SetReview(i, "rejected")
  /\ UNCHANGED <<status, refunded, opening, due, lost, loose>>

MarkRefundFailed(i) ==
  /\ reviews[i].status = "approved"
  /\ SetReview(i, "failed")
  /\ UNCHANGED <<status, refunded, opening, due, lost, loose>>

\* markRefundProcessed: the money is on its way, the payment does not say so yet.
MarkRefundProcessed(i) ==
  /\ reviews[i].status = "approved"
  /\ SetReview(i, "processed")
  /\ due' = due \cup {i}
  /\ opening' = [c \in Calls |-> IF c \in OpeningsOf(reviews[i].row)
                                THEN [opening[c] EXCEPT !.met = TRUE] ELSE opening[c]]
  /\ UNCHANGED <<status, refunded, lost, loose>>

NewTotalOverwritten(i) == reviews[i].amount
NewTotal(i) == refunded[reviews[i].row] + reviews[i].amount

WriteRefund(i) ==
  LET p == reviews[i].row
  IN  /\ i \in due
      /\ refunded' = [refunded EXCEPT ![p] = NewTotal(i)]
      /\ status' = [status EXCEPT ![p] = IF NewTotal(i) >= Amount THEN "REFUNDED" ELSE @]
      /\ due' = due \ {i}
      /\ UNCHANGED <<reviews, opening, lost, loose>>

CrashBetween(i) ==
  /\ i \in due
  /\ Cardinality(lost) < MaxCrashes
  /\ due' = due \ {i}
  /\ lost' = lost \cup {i}
  /\ UNCHANGED <<status, refunded, reviews, opening, loose>>

(***************************************************************************)
(* The specification.                                                       *)
(***************************************************************************)
\* Among the old payments one that is paid may have a review without a name.
Init ==
  /\ \/ status = [p \in Rows |-> "PENDING"] /\ reviews = <<>>
     \/ \E p \in Rows, amount \in Amounts :
          /\ amount <= Amount
          /\ status = [q \in Rows |-> IF q = p THEN "PAID" ELSE "PENDING"]
          /\ reviews = <<[row |-> p, amount |-> amount, by |-> Nothing, status |-> "requested"]>>
  /\ method \in [Rows -> Methods]
  /\ refunded = [p \in Rows |-> 0]
  /\ opening = [c \in Calls |-> Nothing]
  /\ due = {} /\ lost = {} /\ loose = {}

PaymentStep(p) ==
  \/ SubmitGcash(p) \/ ApprovePayment(p) \/ MarkCashPaid(p)
  \/ ApproveGcashPayment(p) \/ RejectGcashPayment(p) \/ AdminConfirmCash(p)

OpeningStep(c) ==
  \/ \E p \in Rows, amount \in Amounts :
       \/ \E a \in Admins : ReadFromPortal(c, a, p, amount)
       \/ \E who \in People, price \in Prices : ReadFromApp(c, who, p, amount, price)
  \/ CheckReviews(c) \/ Drop(c) \/ InsertReview(c)

ReviewStep(i) ==
  \/ \E a \in Admins : ApproveRefund(a, i)
  \/ RejectRefund(i) \/ MarkRefundFailed(i)
  \/ MarkRefundProcessed(i) \/ WriteRefund(i) \/ CrashBetween(i)

Next ==
  /\ \/ \E p \in Rows : PaymentStep(p)
     \/ \E c \in Calls : OpeningStep(c)
     \/ \E i \in Ids : ReviewStep(i)
  /\ UNCHANGED method

Spec == Init /\ [][Next]_vars

(***************************************************************************)
(* Properties.                                                              *)
(***************************************************************************)
TypeOK ==
  /\ method \in [Rows -> Methods]
  /\ status \in [Rows -> Statuses]
  /\ refunded \in [Rows -> Nat]
  /\ reviews \in Seq(Review)
  /\ opening \in [Calls -> Opening \cup {Nothing}]
  /\ due \subseteq Ids /\ lost \subseteq Ids /\ due \cap lost = {}
  /\ loose \subseteq Rows

\* The column is the sum of what was sent back, short of the writes that are
\* still due or were lost: no refund is counted twice, none that was rejected
\* or failed is counted at all.
RefundsAddUp ==
  \A p \in Rows :
    refunded[p] = Total(Processed(p) \ (due \cup lost))

\* No more goes back by hand than was paid, whoever opens, approves, rejects and
\* carries out reviews in whatever order: unless one was let in by an opening
\* that met another refund halfway (its read, its check and its insert are
\* separate statements), or in one of the two ways the app's own request is
\* lenient, beside an approved review and up to a price above the payment.
NeverOverRefunded ==
  \A p \in Rows \ loose : Total(Processed(p)) <= Amount
=============================================================================
