--------------------------- MODULE PaymentsProofs ---------------------------
(***************************************************************************)
(* Proofs about Payments for any payments and bounds.                       *)
(***************************************************************************)
EXTENDS Payments, TLAPS

\* What an event says of the processor's books.
SentIsTrue ==
  \A e \in sent :
    /\ e.type = "checkout_session.payment.paid" => e.of \in charged[e.row]
    /\ e.type = "refund.succeeded" => books[e.row][e.of] = "succeeded"

\* Where the refunds of a payment are, against the tables and the processor.
StageOK(p) ==
  /\ stage[p] # "none" => request[p] \in {"REJECTED", "REFUNDED"}
  /\ stage[p] \notin {"none", "due"} => status[p] \in {"REFUNDING", "REFUNDED"}
  /\ stage[p] = "claimed" => books[p]["api"] \in {"none", "failed"}
  /\ stage[p] = "succeeded" => books[p]["api"] = "succeeded"
  /\ stage[p] = "refused" => books[p]["api"] = "failed"
  /\ books[p]["api"] \notin {"none", "failed"} => status[p] \in {"REFUNDING", "REFUNDED"}
  /\ standing[p] > 0 => status[p] \in {"PAID", "REFUNDING", "REFUNDED"}
  /\ p \in byHand => status[p] = "REFUNDED"

StagesOK == \A p \in Rows : StageOK(p)

PaymentsInv ==
  /\ TypeOK /\ SentIsTrue /\ StagesOK
  /\ CaptureAgrees /\ WorkIsPaidFor /\ RefundNotForgotten /\ RefundedIsReturned

LEMMA LedgerWords ==
  /\ \A p, q \in Rows : Captured(p) # Refunded(q)
  /\ \A p, q \in Rows : (Captured(p) = Captured(q) \/ Refunded(p) = Refunded(q)) => p = q
BY DEF Captured, Refunded

LEMMA EventWords ==
  ASSUME NEW p \in Rows
  PROVE  /\ \A n \in Sessions :
              /\ PaidEvent(p, n) \in Events /\ FailedEvent(p, n) \in Events
              /\ PaidEvent(p, n).type = "checkout_session.payment.paid"
              /\ PaidEvent(p, n).row = p /\ PaidEvent(p, n).of = n
              /\ FailedEvent(p, n).type = "checkout_session.payment.failed"
         /\ \A k \in Refunds :
              /\ RefundEvent(p, k) \in Events
              /\ RefundEvent(p, k).type = "refund.succeeded"
              /\ RefundEvent(p, k).row = p /\ RefundEvent(p, k).of = k
<1>1. \A n \in Sessions : PaidEvent(p, n) \in Events /\ FailedEvent(p, n) \in Events
  BY DEF Events
<1>2. \A k \in Refunds : RefundEvent(p, k) \in Events
  BY DEF Events
<1> QED BY <1>1, <1>2 DEF PaidEvent, FailedEvent, RefundEvent

LEMMA EventParts ==
  ASSUME NEW e \in Events
  PROVE  /\ e.row \in Rows
         /\ e.type \in {"checkout_session.payment.paid", "checkout_session.payment.failed"}
              => e.of \in Sessions
         /\ e.type = "refund.succeeded" => e.of \in Refunds
BY DEF Events, PaidEvent, FailedEvent, RefundEvent

(***************************************************************************)
(* The initial state.                                                       *)
(***************************************************************************)
LEMMA InitOK == Init => PaymentsInv
<1> SUFFICES ASSUME Init PROVE PaymentsInv
  OBVIOUS
<1>1. request \in [Rows -> RequestStatuses] /\ status \in [Rows -> Statuses]
  BY DEF Init, RequestStatuses, Statuses
<1>2. TypeOK
  BY <1>1, BoundsAssumption DEF TypeOK, Init, Stages, BookStates
<1>3. \A p \in Rows : status[p] \in {"NONE", "PENDING"} /\ request[p] \in {"NONE", "PENDING_ADMIN_APPROVAL"}
  BY DEF Init
<1>4. CaptureAgrees /\ WorkIsPaidFor /\ RefundNotForgotten /\ RefundedIsReturned
  BY <1>3 DEF Init, CaptureAgrees, WorkIsPaidFor, RefundNotForgotten, RefundedIsReturned, SettledStatuses
<1>5. SentIsTrue /\ StagesOK
  BY DEF Init, SentIsTrue, StagesOK, StageOK, Refunds
<1> QED BY <1>2, <1>4, <1>5 DEF PaymentsInv

(***************************************************************************)
(* Checkout and the processor.                                              *)
(***************************************************************************)
LEMMA CheckoutKeeps ==
  ASSUME PaymentsInv, NEW p \in Rows, Checkout(p)
  PROVE  PaymentsInv'
<1> USE DEF Checkout, callVars, handVars, processorVars
<1>1. attempt[p] + 1 \in Sessions /\ attempt[p] + 1 \in 0..MaxSessions
  BY BoundsAssumption DEF PaymentsInv, TypeOK, Sessions
<1>2. Superseded(p) \in SUBSET Sessions
  BY DEF PaymentsInv, TypeOK, Superseded
<1>3. TypeOK'
  BY <1>1, <1>2 DEF PaymentsInv, TypeOK, Statuses
<1>4. \A q \in Rows : status'[q] = IF q = p THEN "PENDING" ELSE status[q]
  BY DEF PaymentsInv, TypeOK
<1>5. CaptureAgrees' /\ WorkIsPaidFor' /\ RefundNotForgotten' /\ RefundedIsReturned'
  BY <1>4 DEF PaymentsInv, CaptureAgrees, WorkIsPaidFor, RefundNotForgotten, RefundedIsReturned,
              SettledStatuses
<1>6. SentIsTrue' /\ StagesOK'
  BY <1>4 DEF PaymentsInv, SentIsTrue, StagesOK, StageOK
<1> QED BY <1>3, <1>5, <1>6 DEF PaymentsInv

LEMMA PayKeeps ==
  ASSUME PaymentsInv, NEW p \in Rows, NEW n \in Sessions, Pay(p, n) \/ Decline(p, n)
  PROVE  PaymentsInv'
<1>1. /\ UNCHANGED status /\ UNCHANGED attempt /\ UNCHANGED current /\ UNCHANGED charge
      /\ UNCHANGED superseded /\ UNCHANGED raw /\ UNCHANGED lastEvent /\ UNCHANGED refundRef
      /\ UNCHANGED request /\ UNCHANGED ledger /\ UNCHANGED stage /\ UNCHANGED crashes /\ UNCHANGED standing /\ UNCHANGED byHand
      /\ UNCHANGED books /\ UNCHANGED acked
  BY DEF Pay, Decline, rowVars, callVars, handVars
<1>c. charged \in [Rows -> SUBSET Sessions]
  BY DEF PaymentsInv, TypeOK
<1>s. \/ charged' = [charged EXCEPT ![p] = @ \cup {n}] /\ sent' = sent \cup {PaidEvent(p, n)}
      \/ UNCHANGED charged /\ sent' = sent \cup {FailedEvent(p, n)}
  BY DEF Pay, Decline
<1>2. charged' \in [Rows -> SUBSET Sessions] /\ \A q \in Rows : charged[q] \subseteq charged'[q]
  <2>1. CASE charged' = [charged EXCEPT ![p] = @ \cup {n}]
    BY <1>c, <2>1
  <2>2. CASE UNCHANGED charged
    BY <1>c, <2>2
  <2> QED BY <1>s, <2>1, <2>2
<1>3. \/ sent' = sent \cup {PaidEvent(p, n)} /\ n \in charged'[p]
      \/ sent' = sent \cup {FailedEvent(p, n)}
  BY <1>c, <1>s
<1>4. sent' \subseteq Events /\ sent \subseteq sent'
  BY <1>3, EventWords DEF PaymentsInv, TypeOK
<1>5. TypeOK'
  BY <1>1, <1>2, <1>4 DEF PaymentsInv, TypeOK
<1>6. CaptureAgrees' /\ WorkIsPaidFor' /\ RefundNotForgotten' /\ RefundedIsReturned' /\ StagesOK'
  BY <1>1, <1>2 DEF PaymentsInv, CaptureAgrees, WorkIsPaidFor, RefundNotForgotten, RefundedIsReturned,
                    StagesOK, StageOK
<1>7. SentIsTrue'
  <2> SUFFICES ASSUME NEW e \in sent'
               PROVE  /\ e.type = "checkout_session.payment.paid" => e.of \in charged'[e.row]
                      /\ e.type = "refund.succeeded" => books[e.row][e.of] = "succeeded"
    BY <1>1 DEF SentIsTrue
  <2>1. e.row \in Rows
    BY <1>4, EventParts
  <2>2. CASE e \in sent
    BY <2>1, <2>2, <1>2 DEF PaymentsInv, SentIsTrue
  <2>3. CASE e \notin sent
    BY <2>3, <1>3, EventWords
  <2> QED BY <2>2, <2>3
<1> QED BY <1>5, <1>6, <1>7 DEF PaymentsInv

\* An entry of the processor that is not final changes; a refund that went
\* through is told.
LEMMA BooksAfter ==
  ASSUME PaymentsInv, NEW p \in Rows, NEW k \in Refunds, NEW word \in BookStates,
         books[p][k] # "succeeded", books' = [books EXCEPT ![p][k] = word],
         k = "api" => status[p] # "PAID",
         sent' = sent \/ (sent' = sent \cup {RefundEvent(p, k)} /\ word = "succeeded"),
         rowVars' = rowVars, UNCHANGED crashes /\ UNCHANGED standing /\ UNCHANGED byHand, UNCHANGED charged, UNCHANGED acked,
         stage' \in [Rows -> Stages]
  PROVE  /\ TypeOK' /\ SentIsTrue'
         /\ CaptureAgrees' /\ WorkIsPaidFor' /\ RefundNotForgotten' /\ RefundedIsReturned'
         /\ books'[p][k] = word
         /\ \A q \in Rows, j \in Refunds : (q # p \/ j # k) => books'[q][j] = books[q][j]
<1>1. /\ UNCHANGED status /\ UNCHANGED attempt /\ UNCHANGED current /\ UNCHANGED charge
      /\ UNCHANGED superseded /\ UNCHANGED raw /\ UNCHANGED lastEvent /\ UNCHANGED refundRef
      /\ UNCHANGED request /\ UNCHANGED ledger
  BY DEF rowVars
<1>b. books \in [Rows -> [Refunds -> BookStates]]
  BY DEF PaymentsInv, TypeOK
<1>2. books' \in [Rows -> [Refunds -> BookStates]]
  BY <1>b
<1>3. /\ books'[p][k] = word
      /\ \A q \in Rows, j \in Refunds : (q # p \/ j # k) => books'[q][j] = books[q][j]
  BY <1>b
<1>4. sent' \subseteq Events /\ sent \subseteq sent'
  BY EventWords DEF PaymentsInv, TypeOK
<1>5. TypeOK'
  BY <1>1, <1>2, <1>4 DEF PaymentsInv, TypeOK
<1>6. \A q \in Rows, j \in Refunds : books[q][j] = "succeeded" => books'[q][j] = "succeeded"
  BY <1>3
<1>7. SentIsTrue'
  <2> SUFFICES ASSUME NEW e \in sent'
               PROVE  /\ e.type = "checkout_session.payment.paid" => e.of \in charged[e.row]
                      /\ e.type = "refund.succeeded" => books'[e.row][e.of] = "succeeded"
    BY DEF SentIsTrue
  <2>1. e.row \in Rows /\ (e.type = "refund.succeeded" => e.of \in Refunds)
    BY <1>4, EventParts
  <2>2. CASE e \in sent
    BY <2>1, <2>2, <1>6 DEF PaymentsInv, SentIsTrue
  <2>3. CASE e \notin sent
    <3>1. e = RefundEvent(p, k) /\ word = "succeeded"
      BY <2>3
    <3> QED BY <3>1, <1>3, EventWords
  <2> QED BY <2>2, <2>3
<1>8. CaptureAgrees' /\ WorkIsPaidFor'
  BY <1>1 DEF PaymentsInv, CaptureAgrees, WorkIsPaidFor
<1>9. RefundNotForgotten'
  <2> SUFFICES ASSUME NEW q \in Rows, status[q] = "PAID" PROVE books'[q]["api"] \in {"none", "failed"}
    BY <1>1 DEF RefundNotForgotten
  <2>1. q # p \/ k # "api"
    OBVIOUS
  <2>2. books'[q]["api"] = books[q]["api"]
    BY <2>1, <1>3 DEF Refunds
  <2> QED BY <2>2 DEF PaymentsInv, RefundNotForgotten
<1>10. RefundedIsReturned'
  BY <1>1, <1>6 DEF PaymentsInv, RefundedIsReturned
<1> QED BY <1>3, <1>5, <1>7, <1>8, <1>9, <1>10

LEMMA ProcessorKeeps ==
  ASSUME PaymentsInv, NEW p \in Rows, NEW k \in Refunds,
         SucceedRefund(p, k) \/ FailRefund(p, k) \/ DashboardRefund(p)
  PROVE  PaymentsInv'
<1>0. rowVars' = rowVars /\ UNCHANGED stage /\ UNCHANGED crashes /\ UNCHANGED standing /\ UNCHANGED byHand /\ UNCHANGED charged /\ UNCHANGED acked
  BY DEF SucceedRefund, FailRefund, DashboardRefund, callVars, handVars
<1>s. stage' \in [Rows -> Stages] /\ UNCHANGED status /\ UNCHANGED request
  BY <1>0 DEF PaymentsInv, TypeOK, rowVars
<1>1. CASE SucceedRefund(p, k) \/ FailRefund(p, k)
  <2>1. PICK word \in {"succeeded", "failed"} :
          /\ books[p][k] = "open" /\ books' = [books EXCEPT ![p][k] = word]
          /\ sent' = sent \/ (sent' = sent \cup {RefundEvent(p, k)} /\ word = "succeeded")
    BY <1>1 DEF SucceedRefund, FailRefund
  <2>2. word \in BookStates
    BY DEF BookStates
  <2>3. k = "api" => status[p] # "PAID"
    BY <2>1 DEF PaymentsInv, RefundNotForgotten
  <2>4. /\ TypeOK' /\ SentIsTrue'
        /\ CaptureAgrees' /\ WorkIsPaidFor' /\ RefundNotForgotten' /\ RefundedIsReturned'
        /\ books'[p][k] = word
        /\ \A q \in Rows, j \in Refunds : (q # p \/ j # k) => books'[q][j] = books[q][j]
    BY <2>1, <2>2, <2>3, <1>0, <1>s, BooksAfter
  <2>5. \A q \in Rows : books'[q]["api"] = books[q]["api"] \/ (q = p /\ books[q]["api"] = "open")
    BY <2>1, <2>4 DEF Refunds
  <2>6. StagesOK'
    BY <2>5, <1>0, <1>s DEF PaymentsInv, StagesOK, StageOK
  <2> QED BY <2>4, <2>6 DEF PaymentsInv
<1>2. CASE DashboardRefund(p)
  <2>1. /\ "dashboard" \in Refunds /\ "open" \in BookStates
        /\ books[p]["dashboard"] # "succeeded" /\ books' = [books EXCEPT ![p]["dashboard"] = "open"]
        /\ sent' = sent
    BY <1>2 DEF DashboardRefund, Refunds, BookStates
  <2>2. /\ TypeOK' /\ SentIsTrue'
        /\ CaptureAgrees' /\ WorkIsPaidFor' /\ RefundNotForgotten' /\ RefundedIsReturned'
        /\ \A q \in Rows, j \in Refunds : (q # p \/ j # "dashboard") => books'[q][j] = books[q][j]
    BY <2>1, <1>0, <1>s, BooksAfter
  <2>3. \A q \in Rows : books'[q]["api"] = books[q]["api"]
    BY <2>2 DEF Refunds
  <2>4. StagesOK'
    BY <2>3, <1>0, <1>s DEF PaymentsInv, StagesOK, StageOK
  <2> QED BY <2>2, <2>4 DEF PaymentsInv
<1> QED BY <1>1, <1>2

LEMMA PostKeeps ==
  ASSUME PaymentsInv, NEW p \in Rows, PostRefund(p)
  PROVE  PaymentsInv'
<1>0. rowVars' = rowVars /\ UNCHANGED crashes /\ UNCHANGED standing /\ UNCHANGED byHand /\ UNCHANGED charged /\ UNCHANGED acked /\ stage[p] = "claimed"
  BY DEF PostRefund, handVars
<1>1. PICK entry \in BookStates, known \in Stages :
        /\ known \in AnswersTo(entry)
        /\ books' = [books EXCEPT ![p]["api"] = entry]
        /\ sent' = sent \cup (IF entry = "succeeded" THEN {RefundEvent(p, "api")} ELSE {})
        /\ stage' = [stage EXCEPT ![p] = known]
  <2>1. \A x \in {"none", "failed"} : x \in BookStates
    BY DEF BookStates
  <2>2. \A x \in BookStates : AnswersTo(x) \subseteq Stages
    BY DEF BookStates, AnswersTo, Stages
  <2> QED BY <2>1, <2>2 DEF PostRefund
<1>2. /\ known \in {"succeeded", "pending", "refused", "unknown"}
      /\ known = "succeeded" => entry = "succeeded"
      /\ known = "refused" => entry = "failed"
  <2>1. \A x \in BookStates :
          /\ AnswersTo(x) \subseteq {"succeeded", "pending", "refused", "unknown"}
          /\ "succeeded" \in AnswersTo(x) => x = "succeeded"
          /\ "refused" \in AnswersTo(x) => x = "failed"
    BY DEF AnswersTo, BookStates
  <2> QED BY <2>1, <1>1
<1>3. books[p]["api"] \in {"none", "failed"} /\ status[p] \in {"REFUNDING", "REFUNDED"}
      /\ request[p] \in {"REJECTED", "REFUNDED"}
  BY <1>0 DEF PaymentsInv, StagesOK, StageOK
<1>4. stage \in [Rows -> Stages] /\ UNCHANGED status /\ UNCHANGED request
  BY <1>0 DEF PaymentsInv, TypeOK, rowVars
<1>5. /\ stage' \in [Rows -> Stages]
      /\ \A q \in Rows : stage'[q] = IF q = p THEN known ELSE stage[q]
  BY <1>1, <1>2, <1>4 DEF Stages
<1>6. "api" \in Refunds
  BY DEF Refunds
<1>7. sent' = sent \/ (sent' = sent \cup {RefundEvent(p, "api")} /\ entry = "succeeded")
  BY <1>1
<1>8. /\ TypeOK' /\ SentIsTrue'
      /\ CaptureAgrees' /\ WorkIsPaidFor' /\ RefundNotForgotten' /\ RefundedIsReturned'
      /\ books'[p]["api"] = entry
      /\ \A q \in Rows, j \in Refunds : (q # p \/ j # "api") => books'[q][j] = books[q][j]
  BY <1>0, <1>1, <1>3, <1>5, <1>6, <1>7, BooksAfter
<1>9. \A q \in Rows : q # p => books'[q]["api"] = books[q]["api"]
  BY <1>6, <1>8
<1>10. \A q \in Rows : StageOK(q)'
  <2> TAKE q \in Rows
  <2>1. CASE q = p
    BY <2>1, <1>0, <1>2, <1>3, <1>4, <1>5, <1>8 DEF PaymentsInv, StagesOK, StageOK
  <2>2. CASE q # p
    BY <2>2, <1>0, <1>4, <1>5, <1>9 DEF PaymentsInv, StagesOK, StageOK
  <2> QED BY <2>1, <2>2
<1> QED BY <1>8, <1>10 DEF PaymentsInv, StagesOK

(***************************************************************************)
(* Webhooks.                                                                *)
(***************************************************************************)
LEMMA AcknowledgedOnly ==
  ASSUME PaymentsInv, NEW e \in Events, DeliverAgain(e) \/ DeliverLate(e)
  PROVE  PaymentsInv'
<1>1. /\ e \in sent /\ acked' = acked \cup {e}
      /\ rowVars' = rowVars /\ UNCHANGED stage /\ UNCHANGED crashes /\ UNCHANGED standing /\ UNCHANGED byHand
      /\ UNCHANGED charged /\ UNCHANGED books /\ UNCHANGED sent
  BY DEF DeliverAgain, DeliverLate, New, Acknowledge, callVars, handVars
<1>2. TypeOK'
  BY <1>1 DEF PaymentsInv, TypeOK, rowVars
<1>3. SentIsTrue' /\ StagesOK'
  BY <1>1 DEF PaymentsInv, SentIsTrue, StagesOK, StageOK, rowVars
<1>4. CaptureAgrees' /\ WorkIsPaidFor' /\ RefundNotForgotten' /\ RefundedIsReturned'
  BY <1>1 DEF PaymentsInv, CaptureAgrees, WorkIsPaidFor, RefundNotForgotten, RefundedIsReturned, rowVars
<1> QED BY <1>2, <1>3, <1>4 DEF PaymentsInv

LEMMA PaidKeeps ==
  ASSUME PaymentsInv, NEW e \in Events, DeliverPaid(e)
  PROVE  PaymentsInv'
<1> DEFINE p == e.row
<1>1. p \in Rows /\ e.of \in Sessions /\ e \in sent /\ e.of \in charged[p] /\ e.of # None
  BY EventParts, NoneAssumption DEF PaymentsInv, DeliverPaid, New, SentIsTrue, Sessions
<1>2. /\ status[p] \in {"PENDING", "FAILED"}
      /\ status' = [status EXCEPT ![p] = "PAID"]
      /\ charge' = [charge EXCEPT ![p] = e.of]
      /\ current' = [current EXCEPT ![p] = None]
      /\ raw' = [raw EXCEPT ![p] = e.of]
      /\ lastEvent' = [lastEvent EXCEPT ![p] = e]
      /\ ledger' = ledger \cup {Captured(p)}
      /\ request' = [request EXCEPT ![p] =
                       IF @ = "WAITING_FOR_PAYMENT" THEN "WAITING_WORKER_APPROVAL" ELSE @]
      /\ acked' = acked \cup {e}
      /\ UNCHANGED attempt /\ UNCHANGED superseded /\ UNCHANGED refundRef /\ UNCHANGED stage
      /\ UNCHANGED crashes /\ UNCHANGED standing /\ UNCHANGED byHand /\ UNCHANGED charged /\ UNCHANGED books /\ UNCHANGED sent
  BY DEF DeliverPaid, Capturable, Acknowledge, callVars, handVars
<1> HIDE DEF p
<1>3. request \in [Rows -> RequestStatuses] /\ status \in [Rows -> Statuses]
      /\ charge \in [Rows -> Sessions \cup {None}]
  BY DEF PaymentsInv, TypeOK
<1>4. /\ \A q \in Rows : status'[q] = IF q = p THEN "PAID" ELSE status[q]
      /\ \A q \in Rows : charge'[q] = IF q = p THEN e.of ELSE charge[q]
      /\ \A q \in Rows : request'[q] = request[q]
                        \/ (q = p /\ request[p] = "WAITING_FOR_PAYMENT")
      /\ request' \in [Rows -> RequestStatuses]
  BY <1>1, <1>2, <1>3 DEF RequestStatuses
<1>5. TypeOK'
  BY <1>1, <1>2, <1>4 DEF PaymentsInv, TypeOK, Statuses
<1>6. SentIsTrue'
  BY <1>2 DEF PaymentsInv, SentIsTrue
<1>7. CaptureAgrees'
  <2>1. \A q \in Rows : Captured(q) \in ledger' <=> (q = p \/ Captured(q) \in ledger)
    BY <1>1, <1>2, LedgerWords
  <2> QED BY <2>1, <1>1, <1>2, <1>4 DEF PaymentsInv, CaptureAgrees, SettledStatuses
<1>8. WorkIsPaidFor'
  BY <1>1, <1>2, <1>4 DEF PaymentsInv, WorkIsPaidFor
<1>9. books[p]["api"] \in {"none", "failed"}
  BY <1>1, <1>2 DEF PaymentsInv, StagesOK, StageOK
<1>10. RefundNotForgotten'
  BY <1>1, <1>2, <1>4, <1>9 DEF PaymentsInv, RefundNotForgotten
<1>11. RefundedIsReturned'
  <2>1. \A q \in Rows : Refunded(q) \in ledger' <=> Refunded(q) \in ledger
    BY <1>1, <1>2, LedgerWords
  <2> QED BY <2>1, <1>1, <1>2, <1>4 DEF PaymentsInv, RefundedIsReturned
<1>12. StagesOK'
  BY <1>1, <1>2, <1>4, <1>9 DEF PaymentsInv, StagesOK, StageOK
<1> QED BY <1>5, <1>6, <1>7, <1>8, <1>10, <1>11, <1>12 DEF PaymentsInv

LEMMA FailedKeeps ==
  ASSUME PaymentsInv, NEW e \in Events, DeliverFailed(e)
  PROVE  PaymentsInv'
<1> DEFINE p == e.row
<1>1. p \in Rows /\ e.of \in Sessions /\ e \in sent
  BY EventParts DEF DeliverFailed, New
<1>2. /\ status[p] = "PENDING"
      /\ status' = [status EXCEPT ![p] = "FAILED"]
      /\ raw' = [raw EXCEPT ![p] = e.of]
      /\ lastEvent' = [lastEvent EXCEPT ![p] = e]
      /\ acked' = acked \cup {e}
      /\ UNCHANGED attempt /\ UNCHANGED current /\ UNCHANGED charge /\ UNCHANGED superseded
      /\ UNCHANGED refundRef /\ UNCHANGED request /\ UNCHANGED ledger /\ UNCHANGED stage
      /\ UNCHANGED crashes /\ UNCHANGED standing /\ UNCHANGED byHand /\ UNCHANGED charged /\ UNCHANGED books /\ UNCHANGED sent
  BY DEF DeliverFailed, Failable, Acknowledge, callVars, handVars
<1> HIDE DEF p
<1>3. TypeOK'
  BY <1>1, <1>2 DEF PaymentsInv, TypeOK, Statuses
<1>4. \A q \in Rows : status'[q] = IF q = p THEN "FAILED" ELSE status[q]
  BY <1>1, <1>2 DEF PaymentsInv, TypeOK
<1>5. CaptureAgrees' /\ WorkIsPaidFor' /\ RefundNotForgotten' /\ RefundedIsReturned'
  BY <1>1, <1>2, <1>4
     DEF PaymentsInv, CaptureAgrees, WorkIsPaidFor, RefundNotForgotten, RefundedIsReturned, SettledStatuses
<1>6. SentIsTrue' /\ StagesOK'
  BY <1>1, <1>2, <1>4 DEF PaymentsInv, SentIsTrue, StagesOK, StageOK
<1> QED BY <1>3, <1>5, <1>6 DEF PaymentsInv

\* A row becomes REFUNDED, with its ledger event and its request: by an event
\* or by the refund call itself.
LEMMA RefundedAfter ==
  ASSUME PaymentsInv, NEW p \in Rows, NEW k \in Refunds,
         status[p] \in {"PAID", "REFUNDING"}, books[p][k] = "succeeded",
         status' = [status EXCEPT ![p] = "REFUNDED"],
         request' = [request EXCEPT ![p] = RefundedRequest(p)],
         ledger' = ledger \cup {Refunded(p)},
         UNCHANGED charge, UNCHANGED charged, UNCHANGED books, UNCHANGED sent, UNCHANGED byHand
  PROVE  /\ CaptureAgrees' /\ WorkIsPaidFor' /\ RefundNotForgotten' /\ RefundedIsReturned' /\ SentIsTrue'
         /\ status' \in [Rows -> Statuses] /\ request' \in [Rows -> RequestStatuses]
         /\ ledger' \subseteq {Captured(q) : q \in Rows} \cup {Refunded(q) : q \in Rows}
         /\ \A q \in Rows : status'[q] = IF q = p THEN "REFUNDED" ELSE status[q]
         /\ \A q \in Rows : q # p => request'[q] = request[q]
         /\ request'[p] \in {"NONE", "REFUNDED"} /\ (request[p] # "NONE" => request'[p] = "REFUNDED")
<1>1. RefundedRequest(p) \in {"NONE", "REFUNDED"} /\ (request[p] # "NONE" => RefundedRequest(p) = "REFUNDED")
  BY DEF RefundedRequest
<1>2. request \in [Rows -> RequestStatuses] /\ status \in [Rows -> Statuses]
  BY DEF PaymentsInv, TypeOK
<1>3. /\ status' \in [Rows -> Statuses] /\ request' \in [Rows -> RequestStatuses]
      /\ \A q \in Rows : status'[q] = IF q = p THEN "REFUNDED" ELSE status[q]
      /\ \A q \in Rows : request'[q] = IF q = p THEN RefundedRequest(p) ELSE request[q]
  BY <1>1, <1>2 DEF Statuses, RequestStatuses
<1>4. ledger' \subseteq {Captured(q) : q \in Rows} \cup {Refunded(q) : q \in Rows}
  BY DEF PaymentsInv, TypeOK
<1>5. \A q \in Rows : /\ Captured(q) \in ledger' <=> Captured(q) \in ledger
                      /\ Refunded(q) \in ledger' <=> (q = p \/ Refunded(q) \in ledger)
  <2>1. ledger' = ledger \cup {Refunded(p)}
    OBVIOUS
  <2> QED BY <2>1, LedgerWords
<1>6. CaptureAgrees'
  <2>1. charge[p] # None
    BY DEF PaymentsInv, CaptureAgrees, SettledStatuses
  <2>2. \A q \in Rows : status'[q] \in SettledStatuses <=> status[q] \in SettledStatuses
    BY <1>3 DEF SettledStatuses
  <2> QED BY <2>1, <2>2, <1>5 DEF PaymentsInv, CaptureAgrees
<1>7. WorkIsPaidFor' /\ RefundNotForgotten'
  <2>1. \A q \in Rows : request'[q] \in {"WAITING_WORKER_APPROVAL", "ACCEPTED", "IN_PROGRESS"} =>
           q # p /\ request'[q] = request[q] /\ status'[q] = status[q]
    BY <1>1, <1>3
  <2> QED BY <2>1, <1>3 DEF PaymentsInv, WorkIsPaidFor, RefundNotForgotten
<1>8. RefundedIsReturned'
  <2> SUFFICES ASSUME NEW q \in Rows
               PROVE  /\ Refunded(q) \in ledger' <=> status'[q] = "REFUNDED" /\ q \notin byHand
                      /\ Refunded(q) \in ledger' => \E j \in Refunds : books[q][j] = "succeeded"
    BY DEF RefundedIsReturned
  <2>0. p \notin byHand
    BY DEF PaymentsInv, StagesOK, StageOK
  <2>1. CASE q = p
    BY <2>0, <2>1, <1>3, <1>5
  <2>2. CASE q # p
    BY <2>2, <1>3, <1>5 DEF PaymentsInv, RefundedIsReturned
  <2> QED BY <2>1, <2>2
<1>9. SentIsTrue'
  BY DEF PaymentsInv, SentIsTrue
<1> QED BY <1>1, <1>3, <1>4, <1>6, <1>7, <1>8, <1>9

LEMMA RefundEventKeeps ==
  ASSUME PaymentsInv, NEW e \in Events, DeliverRefund(e)
  PROVE  PaymentsInv'
<1> DEFINE p == e.row
<1>1. p \in Rows /\ e.of \in Refunds /\ e \in sent /\ books[p][e.of] = "succeeded"
  BY EventParts DEF PaymentsInv, DeliverRefund, New, SentIsTrue
<1>2. /\ raw' = [raw EXCEPT ![p] = None]
      /\ lastEvent' = [lastEvent EXCEPT ![p] = e]
      /\ acked' = acked \cup {e}
      /\ UNCHANGED attempt /\ UNCHANGED current /\ UNCHANGED charge /\ UNCHANGED superseded
      /\ UNCHANGED stage /\ UNCHANGED crashes /\ UNCHANGED standing /\ UNCHANGED byHand /\ UNCHANGED charged /\ UNCHANGED books /\ UNCHANGED sent
  BY DEF DeliverRefund, Acknowledge, callVars, handVars
<1>3. \/ UNCHANGED status /\ UNCHANGED refundRef /\ UNCHANGED request /\ UNCHANGED ledger
      \/ /\ status[p] \in {"PAID", "REFUNDING"}
         /\ status' = [status EXCEPT ![p] = "REFUNDED"]
         /\ refundRef' = [refundRef EXCEPT ![p] = e.of]
         /\ request' = [request EXCEPT ![p] = RefundedRequest(p)]
         /\ ledger' = ledger \cup {Refunded(p)}
  BY DEF DeliverRefund
<1> HIDE DEF p
<1>4. CASE UNCHANGED status /\ UNCHANGED refundRef /\ UNCHANGED request /\ UNCHANGED ledger
  <2>1. TypeOK'
    BY <1>1, <1>2, <1>4 DEF PaymentsInv, TypeOK
  <2>2. CaptureAgrees' /\ WorkIsPaidFor' /\ RefundNotForgotten' /\ RefundedIsReturned'
    BY <1>2, <1>4 DEF PaymentsInv, CaptureAgrees, WorkIsPaidFor, RefundNotForgotten, RefundedIsReturned
  <2>3. SentIsTrue' /\ StagesOK'
    BY <1>2, <1>4 DEF PaymentsInv, SentIsTrue, StagesOK, StageOK
  <2> QED BY <2>1, <2>2, <2>3 DEF PaymentsInv
<1>5. CASE /\ status[p] \in {"PAID", "REFUNDING"}
           /\ status' = [status EXCEPT ![p] = "REFUNDED"]
           /\ refundRef' = [refundRef EXCEPT ![p] = e.of]
           /\ request' = [request EXCEPT ![p] = RefundedRequest(p)]
           /\ ledger' = ledger \cup {Refunded(p)}
  <2>1. /\ CaptureAgrees' /\ WorkIsPaidFor' /\ RefundNotForgotten' /\ RefundedIsReturned' /\ SentIsTrue'
        /\ status' \in [Rows -> Statuses] /\ request' \in [Rows -> RequestStatuses]
        /\ ledger' \subseteq {Captured(q) : q \in Rows} \cup {Refunded(q) : q \in Rows}
        /\ \A q \in Rows : status'[q] = IF q = p THEN "REFUNDED" ELSE status[q]
        /\ \A q \in Rows : q # p => request'[q] = request[q]
        /\ request'[p] \in {"NONE", "REFUNDED"} /\ (request[p] # "NONE" => request'[p] = "REFUNDED")
    BY <1>1, <1>2, <1>5, RefundedAfter
  <2>2. TypeOK'
    BY <1>1, <1>2, <1>5, <2>1 DEF PaymentsInv, TypeOK
  <2>3. StagesOK'
    BY <1>2, <2>1 DEF PaymentsInv, StagesOK, StageOK
  <2> QED BY <2>1, <2>2, <2>3 DEF PaymentsInv
<1> QED BY <1>3, <1>4, <1>5

(***************************************************************************)
(* The additional-work request.                                             *)
(***************************************************************************)
LEMMA RequestKeeps ==
  ASSUME PaymentsInv, NEW p \in Rows,
         Approve(p) \/ AcceptWork(p) \/ ConfirmProceed(p) \/ Withdraw(p) \/ RejectWork(p)
  PROVE  PaymentsInv'
<1>1. /\ UNCHANGED status /\ UNCHANGED attempt /\ UNCHANGED current /\ UNCHANGED charge
      /\ UNCHANGED superseded /\ UNCHANGED raw /\ UNCHANGED lastEvent /\ UNCHANGED refundRef
      /\ UNCHANGED ledger /\ UNCHANGED crashes /\ UNCHANGED standing /\ UNCHANGED byHand
      /\ UNCHANGED charged /\ UNCHANGED books /\ UNCHANGED sent /\ UNCHANGED acked
  BY DEF Approve, AcceptWork, ConfirmProceed, Withdraw, RejectWork, OtherThanRequest, handVars, processorVars
<1>2. request \in [Rows -> RequestStatuses] /\ stage \in [Rows -> Stages]
  BY DEF PaymentsInv, TypeOK
<1>3. PICK word \in RequestStatuses :
        /\ request' = [request EXCEPT ![p] = word]
        /\ request[p] \notin {"REJECTED", "REFUNDED"}
        /\ word \in {"WAITING_WORKER_APPROVAL", "ACCEPTED", "IN_PROGRESS"}
             => request[p] \in {"WAITING_WORKER_APPROVAL", "ACCEPTED", "IN_PROGRESS"}
        /\ \/ UNCHANGED stage
           \/ stage' = [stage EXCEPT ![p] = "due"] /\ word = "REJECTED"
  <2>1. \A x \in {"WAITING_FOR_PAYMENT", "ACCEPTED", "IN_PROGRESS", "CANCELLED", "REJECTED"} :
          x \in RequestStatuses
    BY DEF RequestStatuses
  <2> QED BY <2>1 DEF Approve, AcceptWork, ConfirmProceed, Withdraw, RejectWork, MoveRequest, Withdrawable
<1>4. \A q \in Rows : request'[q] = IF q = p THEN word ELSE request[q]
  BY <1>2, <1>3
<1>5. stage[p] = "none"
  BY <1>3 DEF PaymentsInv, StagesOK, StageOK
<1>6. /\ stage' \in [Rows -> Stages]
      /\ \A q \in Rows : stage'[q] = stage[q] \/ (q = p /\ stage'[q] = "due" /\ word = "REJECTED")
  <2>1. "due" \in Stages
    BY DEF Stages
  <2> QED BY <2>1, <1>2, <1>3
<1>7. TypeOK'
  BY <1>1, <1>2, <1>3, <1>6 DEF PaymentsInv, TypeOK
<1>8. CaptureAgrees' /\ RefundNotForgotten' /\ RefundedIsReturned' /\ SentIsTrue'
  BY <1>1 DEF PaymentsInv, CaptureAgrees, RefundNotForgotten, RefundedIsReturned, SentIsTrue
<1>9. WorkIsPaidFor'
  BY <1>1, <1>3, <1>4 DEF PaymentsInv, WorkIsPaidFor
<1>10. \A q \in Rows : StageOK(q)'
  <2> TAKE q \in Rows
  <2>1. CASE q = p
    BY <2>1, <1>1, <1>4, <1>5, <1>6 DEF PaymentsInv, StagesOK, StageOK
  <2>2. CASE q # p
    BY <2>2, <1>1, <1>4, <1>6 DEF PaymentsInv, StagesOK, StageOK
  <2> QED BY <2>1, <2>2
<1> QED BY <1>7, <1>8, <1>9, <1>10 DEF PaymentsInv, StagesOK

(***************************************************************************)
(* The refund call.                                                         *)
(***************************************************************************)
LEMMA ClaimKeeps ==
  ASSUME PaymentsInv, NEW p \in Rows, ClaimRefund(p)
  PROVE  PaymentsInv'
<1>1. /\ UNCHANGED attempt /\ UNCHANGED current /\ UNCHANGED charge
      /\ UNCHANGED superseded /\ UNCHANGED raw /\ UNCHANGED lastEvent /\ UNCHANGED refundRef
      /\ UNCHANGED request /\ UNCHANGED ledger /\ UNCHANGED crashes /\ UNCHANGED standing /\ UNCHANGED byHand
      /\ UNCHANGED charged /\ UNCHANGED books /\ UNCHANGED sent /\ UNCHANGED acked
      /\ stage[p] = "due"
  BY DEF ClaimRefund, handVars, processorVars
<1>2. status \in [Rows -> Statuses] /\ stage \in [Rows -> Stages]
  BY DEF PaymentsInv, TypeOK
<1>3. PICK word \in {"claimed", "none"} :
        /\ stage' = [stage EXCEPT ![p] = word]
        /\ IF word = "claimed"
           THEN status[p] = "PAID" /\ status' = [status EXCEPT ![p] = "REFUNDING"]
           ELSE UNCHANGED status
  BY DEF ClaimRefund
<1>4. /\ stage' \in [Rows -> Stages] /\ status' \in [Rows -> Statuses]
      /\ \A q \in Rows : stage'[q] = IF q = p THEN word ELSE stage[q]
      /\ \A q \in Rows : status'[q] = IF q = p /\ word = "claimed" THEN "REFUNDING" ELSE status[q]
      /\ word = "claimed" => status[p] = "PAID"
  BY <1>2, <1>3 DEF Stages, Statuses
<1>5. request[p] \in {"REJECTED", "REFUNDED"}
  BY <1>1 DEF PaymentsInv, StagesOK, StageOK
<1>6. TypeOK'
  BY <1>1, <1>4 DEF PaymentsInv, TypeOK
<1>7. \A q \in Rows : status'[q] \in SettledStatuses <=> status[q] \in SettledStatuses
  BY <1>4 DEF SettledStatuses
<1>8. CaptureAgrees'
  BY <1>1, <1>7 DEF PaymentsInv, CaptureAgrees
<1>9. WorkIsPaidFor' /\ RefundNotForgotten' /\ RefundedIsReturned' /\ SentIsTrue'
  BY <1>1, <1>4, <1>5 DEF PaymentsInv, WorkIsPaidFor, RefundNotForgotten, RefundedIsReturned, SentIsTrue
<1>10. \A q \in Rows : StageOK(q)'
  <2> TAKE q \in Rows
  <2>1. CASE q = p /\ word = "claimed"
    BY <2>1, <1>1, <1>4, <1>5 DEF PaymentsInv, RefundNotForgotten, StagesOK, StageOK
  <2>2. CASE q # p \/ word # "claimed"
    BY <2>2, <1>1, <1>4 DEF PaymentsInv, StagesOK, StageOK
  <2> QED BY <2>1, <2>2
<1> QED BY <1>6, <1>8, <1>9, <1>10 DEF PaymentsInv, StagesOK

\* The arms of the settlement, one at a time.
LEMMA SettleCases ==
  ASSUME NEW p, SettleRefund(p)
  PROVE  /\ (status[p] = "REFUNDING" /\ Succeeded(p)) =>
               /\ status' = [status EXCEPT ![p] = "REFUNDED"]
               /\ refundRef' = [refundRef EXCEPT ![p] = "api"]
               /\ raw' = [raw EXCEPT ![p] = None]
               /\ request' = [request EXCEPT ![p] = RefundedRequest(p)]
               /\ ledger' = ledger \cup {Refunded(p)}
         /\ (status[p] = "REFUNDING" /\ stage[p] = "pending") =>
               /\ refundRef' = [refundRef EXCEPT ![p] = "api"]
               /\ raw' = [raw EXCEPT ![p] = None]
               /\ UNCHANGED status /\ UNCHANGED request /\ UNCHANGED ledger
         /\ (status[p] = "REFUNDING" /\ PutsBack(p)) =>
               /\ status' = [status EXCEPT ![p] = "PAID"]
               /\ UNCHANGED refundRef /\ UNCHANGED raw /\ UNCHANGED request /\ UNCHANGED ledger
         /\ (status[p] # "REFUNDING" \/ stage[p] = "unknown") =>
               /\ UNCHANGED status /\ UNCHANGED refundRef /\ UNCHANGED raw
               /\ UNCHANGED request /\ UNCHANGED ledger
<1>1. (status[p] = "REFUNDING" /\ Succeeded(p)) => stage[p] = "succeeded"
  BY DEF Succeeded
<1>2. (status[p] = "REFUNDING" /\ PutsBack(p)) => stage[p] = "refused"
  BY DEF PutsBack
<1> QED BY <1>1, <1>2 DEF SettleRefund, Succeeded, PutsBack

LEMMA SettleKeeps ==
  ASSUME PaymentsInv, NEW p \in Rows, SettleRefund(p)
  PROVE  PaymentsInv'
<1>1. /\ UNCHANGED attempt /\ UNCHANGED current /\ UNCHANGED charge
      /\ UNCHANGED superseded /\ UNCHANGED lastEvent /\ UNCHANGED crashes /\ UNCHANGED standing /\ UNCHANGED byHand
      /\ UNCHANGED charged /\ UNCHANGED books /\ UNCHANGED sent /\ UNCHANGED acked
      /\ stage[p] \in {"succeeded", "pending", "refused", "unknown"}
      /\ stage' = [stage EXCEPT ![p] = "none"]
  BY DEF SettleRefund, handVars, processorVars
<1>2. /\ stage' \in [Rows -> Stages]
      /\ \A q \in Rows : stage'[q] = IF q = p THEN "none" ELSE stage[q]
  BY <1>1 DEF PaymentsInv, TypeOK, Stages
<1>3. request[p] \in {"REJECTED", "REFUNDED"} /\ status[p] \in {"REFUNDING", "REFUNDED"}
  BY <1>1 DEF PaymentsInv, StagesOK, StageOK
<1>4. "api" \in Refunds
  BY DEF Refunds
<1>5. CASE status[p] = "REFUNDING" /\ stage[p] = "succeeded"
  <2>1. /\ status' = [status EXCEPT ![p] = "REFUNDED"]
        /\ refundRef' = [refundRef EXCEPT ![p] = "api"]
        /\ raw' = [raw EXCEPT ![p] = None]
        /\ request' = [request EXCEPT ![p] = RefundedRequest(p)]
        /\ ledger' = ledger \cup {Refunded(p)}
    BY <1>5, SettleCases DEF Succeeded
  <2>2. books[p]["api"] = "succeeded"
    BY <1>5 DEF PaymentsInv, StagesOK, StageOK
  <2>3. /\ CaptureAgrees' /\ WorkIsPaidFor' /\ RefundNotForgotten' /\ RefundedIsReturned' /\ SentIsTrue'
        /\ status' \in [Rows -> Statuses] /\ request' \in [Rows -> RequestStatuses]
        /\ ledger' \subseteq {Captured(q) : q \in Rows} \cup {Refunded(q) : q \in Rows}
        /\ \A q \in Rows : status'[q] = IF q = p THEN "REFUNDED" ELSE status[q]
        /\ \A q \in Rows : q # p => request'[q] = request[q]
    BY <1>1, <1>4, <1>5, <2>1, <2>2, RefundedAfter
  <2>4. TypeOK'
    BY <1>1, <1>2, <1>4, <2>1, <2>3 DEF PaymentsInv, TypeOK
  <2>5. StagesOK'
    BY <1>1, <1>2, <2>3 DEF PaymentsInv, StagesOK, StageOK
  <2> QED BY <2>3, <2>4, <2>5 DEF PaymentsInv
<1>6. CASE ~(status[p] = "REFUNDING" /\ stage[p] = "succeeded")
  <2>1. /\ \/ UNCHANGED refundRef /\ UNCHANGED raw
           \/ refundRef' = [refundRef EXCEPT ![p] = "api"] /\ raw' = [raw EXCEPT ![p] = None]
        /\ UNCHANGED request /\ UNCHANGED ledger
        /\ \/ UNCHANGED status
           \/ status[p] = "REFUNDING" /\ stage[p] = "refused" /\ status' = [status EXCEPT ![p] = "PAID"]
    <3>1. \/ status[p] = "REFUNDING" /\ stage[p] = "pending"
          \/ status[p] = "REFUNDING" /\ stage[p] = "refused"
          \/ status[p] # "REFUNDING" \/ stage[p] = "unknown"
      BY <1>1, <1>6
    <3> QED BY <3>1, SettleCases DEF PutsBack
  <2>2. status \in [Rows -> Statuses]
    BY DEF PaymentsInv, TypeOK
  <2>3. /\ status' \in [Rows -> Statuses]
        /\ \A q \in Rows : status'[q] = status[q]
             \/ (q = p /\ status[q] = "REFUNDING" /\ stage[q] = "refused" /\ status'[q] = "PAID")
    BY <2>1, <2>2 DEF Statuses
  <2>a. refundRef \in [Rows -> Refunds \cup {"hand", None}] /\ raw \in [Rows -> Sessions \cup {None}]
    BY DEF PaymentsInv, TypeOK
  <2>b. refundRef' \in [Rows -> Refunds \cup {"hand", None}] /\ raw' \in [Rows -> Sessions \cup {None}]
    BY <2>1, <2>a, <1>4
  <2>4. TypeOK'
    BY <1>1, <1>2, <2>1, <2>3, <2>b DEF PaymentsInv, TypeOK
  <2>5. \A q \in Rows : /\ status'[q] \in SettledStatuses <=> status[q] \in SettledStatuses
                        /\ status'[q] = "REFUNDED" <=> status[q] = "REFUNDED"
                        /\ status[q] = "PAID" => status'[q] = "PAID"
    BY <2>3 DEF SettledStatuses
  <2>6. CaptureAgrees' /\ WorkIsPaidFor' /\ RefundedIsReturned' /\ SentIsTrue'
    BY <1>1, <2>1, <2>5 DEF PaymentsInv, CaptureAgrees, WorkIsPaidFor, RefundedIsReturned, SentIsTrue
  <2>7. RefundNotForgotten'
    BY <1>1, <2>3 DEF PaymentsInv, RefundNotForgotten, StagesOK, StageOK
  <2>8. \A q \in Rows : StageOK(q)'
    <3> TAKE q \in Rows
    <3>1. StageOK(q)
      BY DEF PaymentsInv, StagesOK
    <3>2. CASE q = p
      BY <3>1, <3>2, <1>1, <1>2, <2>1, <2>3 DEF StageOK
    <3>3. CASE q # p
      BY <3>1, <3>3, <1>1, <1>2, <2>1, <2>3 DEF StageOK
    <3> QED BY <3>2, <3>3
  <2> QED BY <2>4, <2>6, <2>7, <2>8 DEF PaymentsInv, StagesOK
<1> QED BY <1>5, <1>6

LEMMA CrashKeeps ==
  ASSUME PaymentsInv, NEW p \in Rows, CrashRefund(p)
  PROVE  PaymentsInv'
<1>1. /\ rowVars' = rowVars /\ UNCHANGED charged /\ UNCHANGED books /\ UNCHANGED sent /\ UNCHANGED acked
      /\ UNCHANGED standing /\ UNCHANGED byHand
      /\ crashes' = crashes + 1 /\ stage' = [stage EXCEPT ![p] = "none"]
  BY DEF CrashRefund, handVars, processorVars
<1>2. \A q \in Rows : stage'[q] = IF q = p THEN "none" ELSE stage[q]
  BY <1>1 DEF PaymentsInv, TypeOK
<1>3. TypeOK'
  BY <1>1 DEF PaymentsInv, TypeOK, Stages, rowVars
<1>4. SentIsTrue' /\ StagesOK'
  BY <1>1, <1>2 DEF PaymentsInv, SentIsTrue, StagesOK, StageOK, rowVars
<1>5. CaptureAgrees' /\ WorkIsPaidFor' /\ RefundNotForgotten' /\ RefundedIsReturned'
  BY <1>1 DEF PaymentsInv, CaptureAgrees, WorkIsPaidFor, RefundNotForgotten, RefundedIsReturned, rowVars
<1> QED BY <1>3, <1>4, <1>5 DEF PaymentsInv

(***************************************************************************)
(* Refunds by hand. A review can stand beside the refund call, so a write   *)
(* may meet any settled status; only the one that makes the payment         *)
(* REFUNDED is remembered in byHand.                                        *)
(***************************************************************************)
LEMMA OpenKeeps ==
  ASSUME PaymentsInv, NEW p \in Rows, OpenReview(p)
  PROVE  PaymentsInv'
<1>1. /\ rowVars' = rowVars /\ UNCHANGED stage /\ UNCHANGED crashes /\ UNCHANGED byHand
      /\ UNCHANGED charged /\ UNCHANGED books /\ UNCHANGED sent /\ UNCHANGED acked
      /\ standing[p] < MaxByHand /\ standing' = [standing EXCEPT ![p] = @ + 1]
      /\ status[p] = "PAID"
  BY DEF OpenReview, processorVars
<1>2. standing \in [Rows -> 0..MaxByHand] /\ standing[p] + 1 \in 0..MaxByHand
  BY <1>1, BoundsAssumption DEF PaymentsInv, TypeOK
<1>3. /\ standing' \in [Rows -> 0..MaxByHand]
      /\ \A q \in Rows : q = p \/ standing'[q] = standing[q]
  BY <1>1, <1>2
<1>4. TypeOK'
  BY <1>1, <1>3 DEF PaymentsInv, TypeOK, rowVars
<1>5. SentIsTrue' /\ StagesOK'
  BY <1>1, <1>3 DEF PaymentsInv, SentIsTrue, StagesOK, StageOK, rowVars
<1>6. CaptureAgrees' /\ WorkIsPaidFor' /\ RefundNotForgotten' /\ RefundedIsReturned'
  BY <1>1 DEF PaymentsInv, CaptureAgrees, WorkIsPaidFor, RefundNotForgotten, RefundedIsReturned, rowVars
<1> QED BY <1>4, <1>5, <1>6 DEF PaymentsInv

LEMMA ByHandKeeps ==
  ASSUME PaymentsInv, NEW p \in Rows, WriteRefundByHand(p)
  PROVE  PaymentsInv'
<1>1. /\ UNCHANGED attempt /\ UNCHANGED current /\ UNCHANGED charge
      /\ UNCHANGED superseded /\ UNCHANGED raw /\ UNCHANGED lastEvent
      /\ UNCHANGED request /\ UNCHANGED ledger /\ UNCHANGED stage /\ UNCHANGED crashes
      /\ UNCHANGED charged /\ UNCHANGED books /\ UNCHANGED sent /\ UNCHANGED acked
      /\ standing[p] > 0 /\ standing' = [standing EXCEPT ![p] = @ - 1]
      /\ refundRef' = [refundRef EXCEPT ![p] = "hand"]
  BY DEF WriteRefundByHand, processorVars
<1>2. /\ standing \in [Rows -> 0..MaxByHand] /\ status \in [Rows -> Statuses]
      /\ refundRef \in [Rows -> Refunds \cup {"hand", None}] /\ byHand \subseteq Rows
  BY DEF PaymentsInv, TypeOK
<1>3. /\ standing' \in [Rows -> 0..MaxByHand]
      /\ \A q \in Rows : standing'[q] > 0 => standing[q] > 0
  <2>1. standing[p] - 1 \in 0..MaxByHand
    BY <1>1, <1>2, BoundsAssumption
  <2> QED BY <2>1, <1>1, <1>2
<1>4. refundRef' \in [Rows -> Refunds \cup {"hand", None}]
  BY <1>1, <1>2
<1>5. status[p] \in {"PAID", "REFUNDING", "REFUNDED"}
  BY <1>1 DEF PaymentsInv, StagesOK, StageOK
<1>6. CASE UNCHANGED status /\ UNCHANGED byHand
  <2>1. TypeOK'
    BY <1>1, <1>3, <1>4, <1>6 DEF PaymentsInv, TypeOK
  <2>2. SentIsTrue' /\ StagesOK'
    BY <1>1, <1>3, <1>6 DEF PaymentsInv, SentIsTrue, StagesOK, StageOK
  <2>3. CaptureAgrees' /\ WorkIsPaidFor' /\ RefundNotForgotten' /\ RefundedIsReturned'
    BY <1>1, <1>6 DEF PaymentsInv, CaptureAgrees, WorkIsPaidFor, RefundNotForgotten, RefundedIsReturned
  <2> QED BY <2>1, <2>2, <2>3 DEF PaymentsInv
<1>7. CASE /\ status[p] # "REFUNDED" /\ status' = [status EXCEPT ![p] = "REFUNDED"]
           /\ byHand' = byHand \cup {p}
  <2>1. /\ status' \in [Rows -> Statuses] /\ byHand' \subseteq Rows
        /\ status'[p] = "REFUNDED" /\ p \in byHand'
        /\ \A q \in Rows : q # p => status'[q] = status[q] /\ (q \in byHand' <=> q \in byHand)
    BY <1>2, <1>7 DEF Statuses
  <2>2. TypeOK'
    BY <1>1, <1>3, <1>4, <2>1 DEF PaymentsInv, TypeOK
  <2>3. \A q \in Rows : status'[q] \in SettledStatuses <=> status[q] \in SettledStatuses
    BY <1>5, <2>1 DEF SettledStatuses
  <2>4. CaptureAgrees'
    BY <1>1, <2>3 DEF PaymentsInv, CaptureAgrees
  <2>5. Refunded(p) \notin ledger
    BY <1>7 DEF PaymentsInv, RefundedIsReturned
  <2>6. WorkIsPaidFor' /\ RefundNotForgotten' /\ RefundedIsReturned' /\ SentIsTrue'
    BY <1>1, <2>1, <2>5
       DEF PaymentsInv, WorkIsPaidFor, RefundNotForgotten, RefundedIsReturned, SentIsTrue
  <2>7. \A q \in Rows : StageOK(q)'
    <3> TAKE q \in Rows
    <3>1. StageOK(q)
      BY DEF PaymentsInv, StagesOK
    <3>2. CASE q = p
      BY <3>1, <3>2, <1>1, <1>3, <2>1 DEF StageOK
    <3>3. CASE q # p
      BY <3>1, <3>3, <1>1, <1>3, <2>1 DEF StageOK
    <3> QED BY <3>2, <3>3
  <2> QED BY <2>2, <2>4, <2>6, <2>7 DEF PaymentsInv, StagesOK
<1> QED BY <1>6, <1>7 DEF WriteRefundByHand

(***************************************************************************)
(* The theorems.                                                            *)
(***************************************************************************)
LEMMA StepKeeps == PaymentsInv /\ [Next]_vars => PaymentsInv'
<1> SUFFICES ASSUME PaymentsInv, [Next]_vars PROVE PaymentsInv'
  OBVIOUS
<1>1. CASE UNCHANGED vars
  <2>1. /\ rowVars' = rowVars /\ UNCHANGED stage /\ UNCHANGED crashes /\ UNCHANGED standing /\ UNCHANGED byHand
        /\ UNCHANGED charged /\ UNCHANGED books /\ UNCHANGED sent /\ UNCHANGED acked
    BY <1>1 DEF vars, callVars, handVars, processorVars
  <2>2. TypeOK'
    BY <2>1 DEF PaymentsInv, TypeOK, rowVars
  <2>3. SentIsTrue' /\ StagesOK'
    BY <2>1 DEF PaymentsInv, SentIsTrue, StagesOK, StageOK, rowVars
  <2>4. CaptureAgrees' /\ WorkIsPaidFor' /\ RefundNotForgotten' /\ RefundedIsReturned'
    BY <2>1 DEF PaymentsInv, CaptureAgrees, WorkIsPaidFor, RefundNotForgotten, RefundedIsReturned, rowVars
  <2> QED BY <2>2, <2>3, <2>4 DEF PaymentsInv
<1>2. CASE \E p \in Rows : Checkout(p)
  BY <1>2, CheckoutKeeps
<1>3. CASE \E p \in Rows : \E n \in Sessions : Pay(p, n) \/ Decline(p, n)
  BY <1>3, PayKeeps
<1>4. CASE \E p \in Rows : \/ \E k \in Refunds : SucceedRefund(p, k) \/ FailRefund(p, k)
                          \/ DashboardRefund(p)
  <2>1. \E k \in Refunds : TRUE
    BY DEF Refunds
  <2> QED BY <1>4, <2>1, ProcessorKeeps
<1>5. CASE \E p \in Rows :
             Approve(p) \/ AcceptWork(p) \/ ConfirmProceed(p) \/ Withdraw(p) \/ RejectWork(p)
  BY <1>5, RequestKeeps
<1>6. CASE \E p \in Rows : RefundStep(p) \/ CrashRefund(p)
  BY <1>6, ClaimKeeps, PostKeeps, SettleKeeps, CrashKeeps DEF RefundStep
<1>7. CASE \E e \in Events : Deliver(e)
  BY <1>7, AcknowledgedOnly, PaidKeeps, FailedKeeps, RefundEventKeeps DEF Deliver
<1>8. CASE \E p \in Rows : OpenReview(p) \/ WriteRefundByHand(p)
  BY <1>8, OpenKeeps, ByHandKeeps
<1> QED BY <1>1, <1>2, <1>3, <1>4, <1>5, <1>6, <1>7, <1>8 DEF Next

\* The inductive invariant of online payments holds in every state, whatever
\* the order webhooks arrive in.
THEOREM PaymentsInvariant == Spec => []PaymentsInv
<1> QED BY InitOK, StepKeeps, PTL DEF Spec

\* Rows, sessions and the processor's books keep their types.
THEOREM TypeCorrect == Spec => []TypeOK
<1>1. PaymentsInv => TypeOK
  BY DEF PaymentsInv
<1> QED BY <1>1, PaymentsInvariant, PTL

\* A payment counts as paid exactly while it names a charge the processor took
\* (DeliverPaid, paymentService.ts), and the ledger agrees.
THEOREM CapturesAreReal == Spec => []CaptureAgrees
<1>1. PaymentsInv => CaptureAgrees
  BY DEF PaymentsInv
<1> QED BY <1>1, PaymentsInvariant, PTL

\* Additional work is only ever waiting, accepted or under way while its
\* payment is there, or went back by hand, of which the request does not hear
\* (additional.service.ts, refund.service.ts, adminFinanceService.ts).
THEOREM WorkHasItsMoney == Spec => []WorkIsPaidFor
<1>1. PaymentsInv => WorkIsPaidFor
  BY DEF PaymentsInv
<1> QED BY <1>1, PaymentsInvariant, PTL

\* A refund the processor may have accepted is not taken for one it turned
\* down: the row does not go back to PAID (refund.service.ts).
THEOREM RefundsAreRemembered == Spec => []RefundNotForgotten
<1>1. PaymentsInv => RefundNotForgotten
  BY DEF PaymentsInv
<1> QED BY <1>1, PaymentsInvariant, PTL

\* The ledger has a refund exactly while the row says REFUNDED other than by
\* hand, and only for money the processor sent back.
THEOREM RefundsAreReal == Spec => []RefundedIsReturned
<1>1. PaymentsInv => RefundedIsReturned
  BY DEF PaymentsInv
<1> QED BY <1>1, PaymentsInvariant, PTL

(***************************************************************************)
(* The service implements the abstract payment.                             *)
(***************************************************************************)
AbstractWord(w) ==
  CASE w = "PAID" -> "paid"
    [] w = "REFUNDING" -> "refunding"
    [] w = "REFUNDED" -> "refunded"
    [] OTHER -> "unpaid"

LEMMA Words ==
  /\ AbstractWord("PAID") = "paid" /\ AbstractWord("REFUNDING") = "refunding"
  /\ AbstractWord("REFUNDED") = "refunded"
  /\ \A w \in {"NONE", "PENDING", "FAILED"} : AbstractWord(w) = "unpaid"
BY DEF AbstractWord

LEMMA StatesByWord == states = [p \in Rows |-> AbstractWord(status[p])]
BY DEF states, AbstractWord

LEMMA Stutters ==
  ASSUME UNCHANGED status, UNCHANGED charge
  PROVE  UNCHANGED <<states, charge>>
BY DEF states

\* One row's status is written.
LEMMA WritesOne ==
  ASSUME PaymentsInv, NEW p \in Rows, NEW w \in Statuses, NEW from, NEW to,
         status' = [status EXCEPT ![p] = w],
         AbstractWord(status[p]) = from, AbstractWord(w) = to
  PROVE  states' = [states EXCEPT ![p] = to] /\ states[p] = from
<1>1. status \in [Rows -> Statuses]
  BY DEF PaymentsInv, TypeOK
<1>2. states' = [q \in Rows |-> AbstractWord(status'[q])]
  BY DEF states, AbstractWord
<1>3. status' = [q \in Rows |-> IF q = p THEN w ELSE status[q]]
  BY <1>1
<1>4. \A q \in Rows : status'[q] = IF q = p THEN w ELSE status[q]
  BY <1>3
<1> QED BY <1>2, <1>4, StatesByWord

\* The writes there are.
LEMMA Writes ==
  ASSUME PaymentsInv, NEW p \in Rows
  PROVE  /\ (status[p] \in {"NONE", "PENDING", "FAILED"} /\ status' = [status EXCEPT ![p] = "PENDING"])
              => states' = states
         /\ (status[p] = "PENDING" /\ status' = [status EXCEPT ![p] = "FAILED"])
              => states' = states
         /\ (status[p] \in {"PENDING", "FAILED"} /\ status' = [status EXCEPT ![p] = "PAID"])
              => states' = [states EXCEPT ![p] = "paid"] /\ states[p] = "unpaid"
         /\ (status[p] = "PAID" /\ status' = [status EXCEPT ![p] = "REFUNDING"])
              => states' = [states EXCEPT ![p] = "refunding"] /\ states[p] = "paid"
         /\ (status[p] = "REFUNDING" /\ status' = [status EXCEPT ![p] = "PAID"])
              => states' = [states EXCEPT ![p] = "paid"] /\ states[p] = "refunding"
         /\ (status[p] \in {"PAID", "REFUNDING"} /\ status' = [status EXCEPT ![p] = "REFUNDED"])
              => states' = [states EXCEPT ![p] = "refunded"] /\ states[p] \in {"paid", "refunding"}
<1>0. \A w \in {"PENDING", "FAILED", "PAID", "REFUNDING", "REFUNDED"} : w \in Statuses
  BY DEF Statuses
<1>s. states = [states EXCEPT ![p] = states[p]]
  BY DEF states
<1>1. ASSUME status[p] \in {"NONE", "PENDING", "FAILED"},
             NEW w \in {"PENDING", "FAILED"}, status' = [status EXCEPT ![p] = w]
      PROVE  states' = states
  <2>1. AbstractWord(status[p]) = "unpaid" /\ AbstractWord(w) = "unpaid"
    BY <1>1, Words
  <2>2. states' = [states EXCEPT ![p] = "unpaid"] /\ states[p] = "unpaid"
    BY <1>0, <1>1, <2>1, WritesOne
  <2> QED BY <2>2, <1>s
<1>2. ASSUME status[p] \in {"PENDING", "FAILED"}, status' = [status EXCEPT ![p] = "PAID"]
      PROVE  states' = [states EXCEPT ![p] = "paid"] /\ states[p] = "unpaid"
  <2>1. AbstractWord(status[p]) = "unpaid"
    BY <1>2, Words
  <2>2. "PAID" \in Statuses /\ AbstractWord("PAID") = "paid"
    BY <1>0, Words
  <2> QED BY <1>2, <2>1, <2>2, WritesOne
<1>3. ASSUME status[p] = "PAID", status' = [status EXCEPT ![p] = "REFUNDING"]
      PROVE  states' = [states EXCEPT ![p] = "refunding"] /\ states[p] = "paid"
  <2>1. AbstractWord(status[p]) = "paid"
    BY <1>3, Words
  <2>2. "REFUNDING" \in Statuses /\ AbstractWord("REFUNDING") = "refunding"
    BY <1>0, Words
  <2> QED BY <1>3, <2>1, <2>2, WritesOne
<1>4. ASSUME status[p] = "REFUNDING", status' = [status EXCEPT ![p] = "PAID"]
      PROVE  states' = [states EXCEPT ![p] = "paid"] /\ states[p] = "refunding"
  <2>1. AbstractWord(status[p]) = "refunding"
    BY <1>4, Words
  <2>2. "PAID" \in Statuses /\ AbstractWord("PAID") = "paid"
    BY <1>0, Words
  <2> QED BY <1>4, <2>1, <2>2, WritesOne
<1>5. ASSUME status[p] \in {"PAID", "REFUNDING"}, status' = [status EXCEPT ![p] = "REFUNDED"]
      PROVE  states' = [states EXCEPT ![p] = "refunded"] /\ states[p] \in {"paid", "refunding"}
  <2>1. PICK from : from = AbstractWord(status[p])
    OBVIOUS
  <2>2. from \in {"paid", "refunding"}
    BY <1>5, <2>1, Words
  <2>3. "REFUNDED" \in Statuses /\ AbstractWord("REFUNDED") = "refunded"
    BY <1>0, Words
  <2>4. states' = [states EXCEPT ![p] = "refunded"] /\ states[p] = from
    BY <1>5, <2>1, <2>3, WritesOne
  <2> QED BY <2>2, <2>4
<1> QED BY <1>1, <1>2, <1>3, <1>4, <1>5

LEMMA StepRefines ==
  ASSUME PaymentsInv, [Next]_vars
  PROVE  [Machine!Next]_<<states, charge>>
<1>1. CASE UNCHANGED vars
  BY <1>1, Stutters DEF vars, rowVars
<1>2. ASSUME NEW p \in Rows, Checkout(p)
      PROVE  UNCHANGED <<states, charge>>
  <2>1. /\ status' = [status EXCEPT ![p] = "PENDING"] /\ UNCHANGED charge
        /\ status[p] \in {"NONE", "PENDING", "FAILED"}
    BY <1>2 DEF Checkout
  <2> QED BY <2>1, Writes
<1>3. ASSUME NEW p \in Rows,
             \/ \E n \in Sessions : Pay(p, n) \/ Decline(p, n)
             \/ \E k \in Refunds : SucceedRefund(p, k) \/ FailRefund(p, k)
             \/ DashboardRefund(p)
             \/ Approve(p) \/ AcceptWork(p) \/ ConfirmProceed(p) \/ Withdraw(p) \/ RejectWork(p)
             \/ PostRefund(p) \/ CrashRefund(p)
      PROVE  UNCHANGED <<states, charge>>
  <2>1. UNCHANGED status /\ UNCHANGED charge
    BY <1>3 DEF Pay, Decline, SucceedRefund, FailRefund, DashboardRefund, Approve, AcceptWork,
                ConfirmProceed, Withdraw, RejectWork, PostRefund, CrashRefund, OtherThanRequest, rowVars
  <2> QED BY <2>1, Stutters
<1>4. ASSUME NEW p \in Rows, ClaimRefund(p)
      PROVE  Machine!Next \/ UNCHANGED <<states, charge>>
  <2>1. UNCHANGED charge
    BY <1>4 DEF ClaimRefund
  <2>2. CASE UNCHANGED status
    BY <2>1, <2>2, Stutters
  <2>3. CASE status[p] = "PAID" /\ status' = [status EXCEPT ![p] = "REFUNDING"]
    <3>1. Machine!Move(p, {"paid"}, "refunding")
      BY <2>1, <2>3, Writes DEF Machine!Move
    <3> QED BY <3>1 DEF Machine!Next
  <2> QED BY <1>4, <2>2, <2>3 DEF ClaimRefund
<1>5. ASSUME NEW p \in Rows, SettleRefund(p)
      PROVE  Machine!Next \/ UNCHANGED <<states, charge>>
  <2>1. UNCHANGED charge
    BY <1>5 DEF SettleRefund
  <2>2. \/ UNCHANGED status
        \/ status[p] = "REFUNDING" /\ status' = [status EXCEPT ![p] = "REFUNDED"]
        \/ status[p] = "REFUNDING" /\ status' = [status EXCEPT ![p] = "PAID"]
    <3>1. stage[p] \in {"succeeded", "pending", "refused", "unknown"}
      BY <1>5 DEF SettleRefund
    <3> QED BY <1>5, <3>1, SettleCases DEF Succeeded, PutsBack
  <2>3. CASE UNCHANGED status
    BY <2>1, <2>3, Stutters
  <2>4. CASE status[p] = "REFUNDING" /\ status' = [status EXCEPT ![p] = "REFUNDED"]
    <3>1. Machine!Move(p, {"paid", "refunding"}, "refunded")
      BY <2>1, <2>4, Writes DEF Machine!Move
    <3> QED BY <3>1 DEF Machine!Next
  <2>5. CASE status[p] = "REFUNDING" /\ status' = [status EXCEPT ![p] = "PAID"]
    <3>1. Machine!Move(p, {"refunding"}, "paid")
      BY <2>1, <2>5, Writes DEF Machine!Move
    <3> QED BY <3>1 DEF Machine!Next
  <2> QED BY <2>2, <2>3, <2>4, <2>5
<1>6. ASSUME NEW e \in Events, Deliver(e)
      PROVE  Machine!Next \/ UNCHANGED <<states, charge>>
  <2>1. CASE DeliverAgain(e) \/ DeliverLate(e)
    BY <2>1, Stutters DEF DeliverAgain, DeliverLate, rowVars
  <2>2. CASE DeliverPaid(e)
    <3>1. e.row \in Rows /\ e.of \in Sessions
      BY <2>2, EventParts DEF DeliverPaid, New
    <3>2. /\ status[e.row] \in {"PENDING", "FAILED"} /\ status' = [status EXCEPT ![e.row] = "PAID"]
          /\ charge' = [charge EXCEPT ![e.row] = e.of]
      BY <2>2 DEF DeliverPaid, Capturable
    <3>3. Machine!Capture(e.row, e.of)
      BY <3>1, <3>2, Writes DEF Machine!Capture
    <3> QED BY <3>1, <3>3 DEF Machine!Next
  <2>3. CASE DeliverFailed(e)
    <3>1. e.row \in Rows
      BY EventParts
    <3>2. /\ status[e.row] = "PENDING" /\ status' = [status EXCEPT ![e.row] = "FAILED"]
          /\ UNCHANGED charge
      BY <2>3 DEF DeliverFailed, Failable
    <3> QED BY <3>1, <3>2, Writes
  <2>4. CASE DeliverRefund(e)
    <3>1. e.row \in Rows /\ UNCHANGED charge
      BY <2>4, EventParts DEF DeliverRefund
    <3>2. CASE UNCHANGED status
      BY <3>1, <3>2, Stutters
    <3>3. CASE status[e.row] \in {"PAID", "REFUNDING"} /\ status' = [status EXCEPT ![e.row] = "REFUNDED"]
      <4>1. Machine!Move(e.row, {"paid", "refunding"}, "refunded")
        BY <3>1, <3>3, Writes DEF Machine!Move
      <4> QED BY <3>1, <4>1 DEF Machine!Next
    <3> QED BY <2>4, <3>2, <3>3 DEF DeliverRefund
  <2> QED BY <1>6, <2>1, <2>2, <2>3, <2>4 DEF Deliver
<1>7. ASSUME NEW p \in Rows, OpenReview(p)
      PROVE  UNCHANGED <<states, charge>>
  BY <1>7, Stutters DEF OpenReview, rowVars
<1>8. ASSUME NEW p \in Rows, WriteRefundByHand(p)
      PROVE  Machine!Next \/ UNCHANGED <<states, charge>>
  <2>1. UNCHANGED charge /\ standing[p] > 0
    BY <1>8 DEF WriteRefundByHand
  <2>2. CASE UNCHANGED status
    BY <2>1, <2>2, Stutters
  <2>3. CASE status[p] # "REFUNDED" /\ status' = [status EXCEPT ![p] = "REFUNDED"]
    <3>1. status[p] \in {"PAID", "REFUNDING"}
      BY <2>1, <2>3 DEF PaymentsInv, StagesOK, StageOK
    <3>2. Machine!Move(p, {"paid", "refunding"}, "refunded")
      BY <2>1, <2>3, <3>1, Writes DEF Machine!Move
    <3> QED BY <3>2 DEF Machine!Next
  <2> QED BY <1>8, <2>2, <2>3 DEF WriteRefundByHand
<1> QED BY <1>1, <1>2, <1>3, <1>4, <1>5, <1>6, <1>7, <1>8 DEF Next, RefundStep

\* Checkout, webhooks, refunds and crashes together only ever do what
\* PaymentMachine allows: one capture, and then nothing but a refund.
THEOREM RefinesMachine == Spec => ImplementsMachine
<1>1. Init => Machine!Init
  <2> SUFFICES ASSUME Init PROVE Machine!Init
    OBVIOUS
  <2>1. \A p \in Rows : status[p] \in {"NONE", "PENDING"}
    BY DEF Init
  <2>2. states = [p \in Rows |-> "unpaid"]
    BY <2>1, StatesByWord, Words
  <2> QED BY <2>2 DEF Init, Machine!Init
<1>2. PaymentsInv /\ [Next]_vars => [Machine!Next]_<<states, charge>>
  BY StepRefines
<1> QED BY <1>1, <1>2, PaymentsInvariant, PTL DEF Spec, ImplementsMachine, Machine!Spec
=============================================================================
