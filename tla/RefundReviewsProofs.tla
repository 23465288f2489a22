------------------------ MODULE RefundReviewsProofs ------------------------
(***************************************************************************)
(* Proofs about RefundReviews for any payments, people, calls, amounts and  *)
(* bounds, whether or not self-approval is allowed.                         *)
(***************************************************************************)
EXTENDS RefundReviews, FiniteSetTheorems, SequenceTheorems, TLAPS

\* What is due or lost has been carried out.
LateOK == \A i \in due \cup lost : reviews[i].status = "processed"

ReviewsInv == TypeOK /\ LateOK

Verdict(i) ==
  \/ \E a \in Admins : ApproveRefund(a, i)
  \/ RejectRefund(i) \/ MarkRefundFailed(i) \/ MarkRefundProcessed(i)

LEMMA ReviewKnown ==
  ASSUME ReviewsInv, NEW i \in Ids
  PROVE  reviews[i] \in Review
BY ElementOfSeq DEF ReviewsInv, TypeOK, Ids

LEMMA OpeningKnown ==
  ASSUME ReviewsInv, NEW c \in Calls, opening[c] # Nothing
  PROVE  opening[c] \in Opening
BY DEF ReviewsInv, TypeOK

(***************************************************************************)
(* What each group of steps does.                                           *)
(***************************************************************************)
LEMMA PaymentFacts ==
  ASSUME ReviewsInv, NEW p \in Rows, PaymentStep(p)
  PROVE  /\ UNCHANGED refunded /\ UNCHANGED reviews /\ UNCHANGED opening
         /\ UNCHANGED due /\ UNCHANGED lost /\ UNCHANGED loose
         /\ status' \in [Rows -> Statuses]
<1>1. PICK word \in Statuses : SetStatus(p, word)
  BY DEF PaymentStep, SubmitGcash, ApprovePayment, MarkCashPaid, ApproveGcashPayment,
         RejectGcashPayment, AdminConfirmCash, Statuses
<1> QED BY <1>1 DEF SetStatus, ReviewsInv, TypeOK

\* A call that reads, checks or is dropped changes its own opening only.
Reads(c) ==
  \E p \in Rows, amount \in Amounts :
    \/ \E a \in Admins : ReadFromPortal(c, a, p, amount)
    \/ \E who \in People, price \in Prices : ReadFromApp(c, who, p, amount, price)

\* What was measured fits the payment, or is marked.
LEMMA ReadFacts ==
  ASSUME ReviewsInv, NEW c \in Calls, Reads(c)
  PROVE  /\ UNCHANGED status /\ UNCHANGED refunded /\ UNCHANGED reviews
         /\ UNCHANGED due /\ UNCHANGED lost /\ UNCHANGED loose
         /\ \E new \in Opening :
              /\ opening' = [opening EXCEPT ![c] = new] /\ ~new.checked
              /\ ~new.met => /\ ~Unsettled(new.row)
                             /\ refunded[new.row] + new.amount <= Amount
<1>1. PICK p \in Rows, amount \in Amounts, who \in People, path \in Paths, beyond \in BOOLEAN :
        /\ Read(c, p, amount, who, path, beyond)
        /\ ~beyond => refunded[p] + amount <= Amount
  <2>1. CASE \E p \in Rows, amount \in Amounts, a \in Admins : ReadFromPortal(c, a, p, amount)
    BY <2>1 DEF ReadFromPortal, People, Paths
  <2>2. CASE \E p \in Rows, amount \in Amounts, who \in People, price \in Prices :
               ReadFromApp(c, who, p, amount, price)
    <3>1. PICK p \in Rows, amount \in Amounts, who \in People, price \in Prices :
            ReadFromApp(c, who, p, amount, price)
      BY <2>2
    <3>2. refunded[p] \in Nat /\ amount \in Nat /\ price \in Nat /\ Amount \in Nat
      BY AmountsAssumption DEF ReviewsInv, TypeOK
    <3>3. refunded[p] + amount <= price
      BY <3>1 DEF ReadFromApp
    <3>4. ~(price > Amount) => refunded[p] + amount <= Amount
      BY <3>2, <3>3
    <3>5. Read(c, p, amount, who, "app", price > Amount)
      BY <3>1 DEF ReadFromApp
    <3>6. (price > Amount) \in BOOLEAN /\ "app" \in Paths
      BY DEF Paths
    <3> QED BY <3>4, <3>5, <3>6
  <2> QED BY <2>1, <2>2 DEF Reads
<1> DEFINE new == [row |-> p, amount |-> amount, by |-> who, path |-> path, checked |-> FALSE,
                   met |-> beyond \/ Unsettled(p)]
<1>2. opening' = [opening EXCEPT ![c] = new]
  BY <1>1 DEF Read
<1>3. Unsettled(p) \in BOOLEAN
  BY DEF Unsettled
<1>4. new \in Opening
  BY <1>3 DEF Opening
<1>5. /\ new.row = p /\ new.amount = amount /\ ~new.checked
      /\ new.met = (beyond \/ Unsettled(p))
  OBVIOUS
<1>6. /\ UNCHANGED status /\ UNCHANGED refunded /\ UNCHANGED reviews
      /\ UNCHANGED due /\ UNCHANGED lost /\ UNCHANGED loose
  BY <1>1 DEF Read
<1> HIDE DEF new
<1> QED BY <1>1, <1>2, <1>4, <1>5, <1>6

\* A check that leaves its call unmarked has found no review that is open.
LEMMA CheckFacts ==
  ASSUME ReviewsInv, NEW c \in Calls, CheckReviews(c)
  PROVE  /\ UNCHANGED status /\ UNCHANGED refunded /\ UNCHANGED reviews
         /\ UNCHANGED due /\ UNCHANGED lost /\ UNCHANGED loose
         /\ opening[c] # Nothing
         /\ \E new \in Opening :
              /\ opening' = [opening EXCEPT ![c] = new]
              /\ new.row = opening[c].row /\ new.amount = opening[c].amount
              /\ ~new.met => /\ ~opening[c].met
                             /\ \A i \in ReviewsOf(new.row) : reviews[i].status \notin OpenStatuses
<1>1. opening[c] # Nothing /\ opening[c] \in Opening
  BY OpeningKnown DEF CheckReviews
<1> DEFINE beside == opening[c].path = "app"
                       /\ \E i \in ReviewsOf(opening[c].row) : reviews[i].status = "approved"
           new == [opening[c] EXCEPT !.checked = TRUE, !.met = opening[c].met \/ beside]
<1>2. opening \in [Calls -> Opening \cup {Nothing}]
  BY DEF ReviewsInv, TypeOK
<1>3. opening' = [opening EXCEPT ![c] = new]
  BY <1>1, <1>2 DEF CheckReviews
<1>4. beside \in BOOLEAN
  OBVIOUS
<1>5. \A i \in ReviewsOf(opening[c].row) : reviews[i].status \notin Blocking(opening[c].path)
  BY DEF CheckReviews
<1>6. ~beside => \A i \in ReviewsOf(opening[c].row) : reviews[i].status \notin OpenStatuses
  BY <1>1, <1>5 DEF Blocking, OpenStatuses, Opening, Paths
<1> HIDE DEF beside
<1>7. /\ new \in Opening /\ new.row = opening[c].row /\ new.amount = opening[c].amount
      /\ new.met = (opening[c].met \/ beside)
  BY <1>1, <1>4 DEF Opening
<1>8. /\ UNCHANGED status /\ UNCHANGED refunded /\ UNCHANGED reviews
      /\ UNCHANGED due /\ UNCHANGED lost /\ UNCHANGED loose
  BY DEF CheckReviews
<1> HIDE DEF new
<1> QED BY <1>1, <1>3, <1>6, <1>7, <1>8

LEMMA DropFacts ==
  ASSUME NEW c \in Calls, Drop(c)
  PROVE  /\ UNCHANGED status /\ UNCHANGED refunded /\ UNCHANGED reviews
         /\ UNCHANGED due /\ UNCHANGED lost /\ UNCHANGED loose
         /\ opening' = [opening EXCEPT ![c] = Nothing]
BY DEF Drop

\* A new review leaves the others alone, and is open.
LEMMA InsertFacts ==
  ASSUME ReviewsInv, NEW c \in Calls, InsertReview(c)
  PROVE  LET i == Len(reviews) + 1
         IN  /\ Ids' = Ids \cup {i} /\ i \notin Ids /\ i \notin due \cup lost
             /\ reviews' \in Seq(Review)
             /\ \A j \in Ids : reviews'[j] = reviews[j]
             /\ reviews'[i].row = opening[c].row /\ reviews'[i].amount = opening[c].amount
             /\ reviews'[i].status = "requested"
             /\ opening[c] \in Opening /\ opening[c] # Nothing /\ opening[c].checked
             /\ opening' = [opening EXCEPT ![c] = Nothing]
             /\ loose' = loose \cup (IF opening[c].met THEN {opening[c].row} ELSE {})
             /\ UNCHANGED status /\ UNCHANGED refunded /\ UNCHANGED due /\ UNCHANGED lost
<1> DEFINE row == [row |-> opening[c].row, amount |-> opening[c].amount, by |-> opening[c].by,
                   status |-> "requested"]
<1>1. /\ UNCHANGED status /\ UNCHANGED refunded /\ UNCHANGED due /\ UNCHANGED lost
      /\ opening[c] # Nothing /\ opening[c].checked
      /\ opening' = [opening EXCEPT ![c] = Nothing]
      /\ reviews' = Append(reviews, row)
      /\ loose' = loose \cup (IF opening[c].met THEN {opening[c].row} ELSE {})
  BY DEF InsertReview
<1>2. opening[c] \in Opening
  BY <1>1, OpeningKnown
<1>3. row \in Review
  BY <1>2 DEF Opening, Review, ReviewStatuses
<1>4. /\ row.row = opening[c].row /\ row.amount = opening[c].amount
      /\ row.status = "requested"
  OBVIOUS
<1> HIDE DEF row
<1>5. /\ reviews' \in Seq(Review) /\ Len(reviews') = Len(reviews) + 1 /\ Len(reviews) \in Nat
      /\ \A j \in Ids : reviews'[j] = reviews[j]
      /\ reviews'[Len(reviews) + 1] = row
  BY <1>1, <1>3, AppendProperties, LenProperties DEF ReviewsInv, TypeOK, Ids
<1>6. Ids' = Ids \cup {Len(reviews) + 1} /\ Len(reviews) + 1 \notin Ids
  BY <1>5 DEF Ids
<1>7. Len(reviews) + 1 \notin due \cup lost
  BY <1>6 DEF ReviewsInv, TypeOK
<1> QED BY <1>1, <1>2, <1>4, <1>5, <1>6, <1>7

\* What an approval, a rejection, a failure and a refund carried out have in
\* common: the review was open, and only its status changes. The calls about to
\* open another are marked by the last of them, and keep everything else.
LEMMA VerdictFacts ==
  ASSUME ReviewsInv, NEW i \in Ids, Verdict(i)
  PROVE  /\ Ids' = Ids /\ reviews[i].status \in OpenStatuses /\ i \notin due \cup lost
         /\ reviews' \in Seq(Review)
         /\ \A j \in Ids : reviews'[j].row = reviews[j].row /\ reviews'[j].amount = reviews[j].amount
         /\ \A j \in Ids \ {i} : reviews'[j].status = reviews[j].status
         /\ UNCHANGED status /\ UNCHANGED refunded /\ UNCHANGED lost /\ UNCHANGED loose
         /\ \/ UNCHANGED due /\ reviews'[i].status # "processed" /\ UNCHANGED opening
            \/ /\ due' = due \cup {i} /\ reviews'[i].status = "processed"
               /\ opening' = [c \in Calls |-> IF c \in OpeningsOf(reviews[i].row)
                                THEN [opening[c] EXCEPT !.met = TRUE] ELSE opening[c]]
<1>1. reviews[i] \in Review
  BY ReviewKnown
<1>2. PICK word \in ReviewStatuses :
        /\ SetReview(i, word)
        /\ \/ UNCHANGED due /\ word # "processed" /\ UNCHANGED opening
           \/ /\ due' = due \cup {i} /\ word = "processed"
              /\ opening' = [c \in Calls |-> IF c \in OpeningsOf(reviews[i].row)
                               THEN [opening[c] EXCEPT !.met = TRUE] ELSE opening[c]]
  BY DEF Verdict, ApproveRefund, RejectRefund, MarkRefundFailed, MarkRefundProcessed,
         ReviewStatuses
<1> DEFINE row == [reviews[i] EXCEPT !.status = word]
<1>3. /\ row \in Review /\ row.row = reviews[i].row /\ row.amount = reviews[i].amount
      /\ row.status = word
  BY <1>1 DEF Review
<1>4. reviews' = [reviews EXCEPT ![i] = row]
  BY <1>2 DEF SetReview
<1> HIDE DEF row
<1>5. /\ reviews' \in Seq(Review) /\ Len(reviews') = Len(reviews)
      /\ \A j \in Ids : reviews'[j] = IF j = i THEN row ELSE reviews[j]
  BY <1>3, <1>4, ExceptSeq DEF ReviewsInv, TypeOK, Ids
<1>6. Ids' = Ids
  BY <1>5 DEF Ids
<1>7. reviews[i].status \in OpenStatuses
  BY DEF Verdict, ApproveRefund, RejectRefund, Rejectable, MarkRefundFailed,
         MarkRefundProcessed, OpenStatuses
<1>8. i \notin due \cup lost
  BY <1>7 DEF ReviewsInv, LateOK, OpenStatuses
<1>9. UNCHANGED status /\ UNCHANGED refunded /\ UNCHANGED lost /\ UNCHANGED loose
  BY DEF Verdict, ApproveRefund, RejectRefund, MarkRefundFailed, MarkRefundProcessed
<1> QED BY <1>2, <1>3, <1>5, <1>6, <1>7, <1>8, <1>9

\* Only a written refund changes what counts on a payment.
LEMMA WriteFacts ==
  ASSUME ReviewsInv, NEW i \in Ids, WriteRefund(i)
  PROVE  LET p == reviews[i].row
         IN  /\ p \in Rows /\ reviews[i].amount \in Nat
             /\ i \in due /\ due' = due \ {i} /\ UNCHANGED lost /\ i \notin lost
             /\ reviews[i].status = "processed"
             /\ status' \in [Rows -> Statuses]
             /\ refunded' = [refunded EXCEPT ![p] = refunded[p] + reviews[i].amount]
             /\ UNCHANGED reviews /\ UNCHANGED opening /\ UNCHANGED loose
<1>1. reviews[i].row \in Rows /\ reviews[i].amount \in Nat
  BY ReviewKnown, AmountsAssumption DEF Review
<1>2. /\ i \in due /\ due' = due \ {i} /\ UNCHANGED lost
      /\ refunded' = [refunded EXCEPT ![reviews[i].row] = refunded[reviews[i].row] + reviews[i].amount]
      /\ UNCHANGED reviews /\ UNCHANGED opening /\ UNCHANGED loose
  BY DEF WriteRefund, NewTotal
<1>3. i \notin lost /\ reviews[i].status = "processed"
  BY <1>2 DEF ReviewsInv, TypeOK, LateOK
<1>4. PICK word \in Statuses : status' = [status EXCEPT ![reviews[i].row] = word]
  BY <1>1 DEF WriteRefund, ReviewsInv, TypeOK, Statuses
<1>5. status' \in [Rows -> Statuses]
  BY <1>1, <1>4 DEF ReviewsInv, TypeOK
<1> QED BY <1>1, <1>2, <1>3, <1>5

LEMMA CrashFacts ==
  ASSUME ReviewsInv, NEW i, CrashBetween(i)
  PROVE  /\ UNCHANGED status /\ UNCHANGED refunded /\ UNCHANGED reviews
         /\ UNCHANGED opening /\ UNCHANGED loose
         /\ due' \subseteq Ids /\ lost' \subseteq Ids /\ due' \cap lost' = {}
         /\ (due \cup lost)' = due \cup lost
<1>1. i \in due /\ due' = due \ {i} /\ lost' = lost \cup {i}
  BY DEF CrashBetween
<1>2. /\ UNCHANGED status /\ UNCHANGED refunded /\ UNCHANGED reviews
      /\ UNCHANGED opening /\ UNCHANGED loose
  BY DEF CrashBetween
<1> QED BY <1>1, <1>2 DEF ReviewsInv, TypeOK

(***************************************************************************)
(* Types.                                                                   *)
(***************************************************************************)
\* A step that leaves the reviews alone keeps what is known of them.
LEMMA ReviewsStand ==
  ASSUME ReviewsInv, UNCHANGED reviews, UNCHANGED method, (due \cup lost)' = due \cup lost,
         status' \in [Rows -> Statuses], refunded' \in [Rows -> Nat],
         opening' \in [Calls -> Opening \cup {Nothing}],
         due' \subseteq Ids, lost' \subseteq Ids, due' \cap lost' = {}, loose' \subseteq Rows
  PROVE  ReviewsInv'
<1>1. Ids' = Ids
  BY DEF Ids
<1>2. TypeOK'
  BY <1>1 DEF ReviewsInv, TypeOK
<1>3. LateOK'
  BY DEF ReviewsInv, LateOK
<1> QED BY <1>2, <1>3 DEF ReviewsInv

LEMMA PaymentKeeps ==
  ASSUME ReviewsInv, UNCHANGED method, NEW p \in Rows, PaymentStep(p)
  PROVE  ReviewsInv'
BY PaymentFacts, ReviewsStand DEF ReviewsInv, TypeOK

LEMMA OpeningKeeps ==
  ASSUME ReviewsInv, UNCHANGED method, NEW c \in Calls, OpeningStep(c)
  PROVE  ReviewsInv'
<1>1. ASSUME NEW new \in Opening \cup {Nothing}, opening' = [opening EXCEPT ![c] = new],
             UNCHANGED status, UNCHANGED refunded, UNCHANGED reviews,
             UNCHANGED due, UNCHANGED lost, UNCHANGED loose
      PROVE  ReviewsInv'
  <2>1. opening' \in [Calls -> Opening \cup {Nothing}]
    BY <1>1 DEF ReviewsInv, TypeOK
  <2> QED BY <1>1, <2>1, ReviewsStand DEF ReviewsInv, TypeOK
<1>2. CASE Reads(c)
  BY <1>1, <1>2, ReadFacts
<1>3. CASE CheckReviews(c)
  BY <1>1, <1>3, CheckFacts
<1>4. CASE Drop(c)
  BY <1>1, <1>4, DropFacts
<1>5. CASE InsertReview(c)
  <2> DEFINE i == Len(reviews) + 1
  <2>1. /\ Ids' = Ids \cup {i} /\ i \notin Ids
        /\ reviews' \in Seq(Review)
        /\ \A j \in Ids : reviews'[j] = reviews[j]
        /\ opening[c] \in Opening
        /\ opening' = [opening EXCEPT ![c] = Nothing]
        /\ loose' = loose \cup (IF opening[c].met THEN {opening[c].row} ELSE {})
        /\ UNCHANGED status /\ UNCHANGED refunded /\ UNCHANGED due /\ UNCHANGED lost
    BY <1>5, InsertFacts
  <2> HIDE DEF i
  <2>2. opening' \in [Calls -> Opening \cup {Nothing}]
    BY <2>1 DEF ReviewsInv, TypeOK
  <2>3. opening[c].row \in Rows
    BY <2>1 DEF Opening
  <2>4. loose' \subseteq Rows
    BY <2>1, <2>3 DEF ReviewsInv, TypeOK
  <2>5. TypeOK'
    BY <2>1, <2>2, <2>4 DEF ReviewsInv, TypeOK
  <2>6. LateOK'
    BY <2>1 DEF ReviewsInv, LateOK, TypeOK
  <2> QED BY <2>5, <2>6 DEF ReviewsInv
<1> QED BY <1>2, <1>3, <1>4, <1>5 DEF OpeningStep, Reads

LEMMA VerdictKeeps ==
  ASSUME ReviewsInv, UNCHANGED method, NEW i \in Ids, Verdict(i)
  PROVE  ReviewsInv'
<1>1. /\ Ids' = Ids /\ i \notin due \cup lost /\ reviews' \in Seq(Review)
      /\ \A j \in Ids \ {i} : reviews'[j].status = reviews[j].status
      /\ UNCHANGED status /\ UNCHANGED refunded /\ UNCHANGED lost /\ UNCHANGED loose
      /\ UNCHANGED due \/ (due' = due \cup {i} /\ reviews'[i].status = "processed")
  BY VerdictFacts
<1>2. \/ UNCHANGED opening
      \/ opening' = [c \in Calls |-> IF c \in OpeningsOf(reviews[i].row)
                       THEN [opening[c] EXCEPT !.met = TRUE] ELSE opening[c]]
  BY VerdictFacts
<1>3. \A c \in OpeningsOf(reviews[i].row) : [opening[c] EXCEPT !.met = TRUE] \in Opening
  BY OpeningKnown DEF OpeningsOf, Opening
<1>4. opening \in [Calls -> Opening \cup {Nothing}]
  BY DEF ReviewsInv, TypeOK
<1>5. opening' \in [Calls -> Opening \cup {Nothing}]
  BY <1>2, <1>3, <1>4
<1>6. due' \subseteq Ids /\ due' \cap lost = {}
  BY <1>1 DEF ReviewsInv, TypeOK
<1>7. TypeOK'
  BY <1>1, <1>5, <1>6 DEF ReviewsInv, TypeOK
<1>8. LateOK'
  BY <1>1 DEF ReviewsInv, LateOK, TypeOK
<1> QED BY <1>7, <1>8 DEF ReviewsInv

\* The payment is written, or never will be.
LEMMA WriteKeeps ==
  ASSUME ReviewsInv, UNCHANGED method, NEW i \in Ids, WriteRefund(i)
  PROVE  ReviewsInv'
<1> DEFINE p == reviews[i].row
<1>1. /\ p \in Rows /\ reviews[i].amount \in Nat
      /\ i \in due /\ due' = due \ {i} /\ UNCHANGED lost
      /\ status' \in [Rows -> Statuses]
      /\ refunded' = [refunded EXCEPT ![p] = refunded[p] + reviews[i].amount]
      /\ UNCHANGED reviews /\ UNCHANGED opening /\ UNCHANGED loose
  BY WriteFacts
<1> HIDE DEF p
<1>2. refunded' \in [Rows -> Nat]
  BY <1>1 DEF ReviewsInv, TypeOK
<1>3. Ids' = Ids
  BY <1>1 DEF Ids
<1>4. TypeOK'
  BY <1>1, <1>2, <1>3 DEF ReviewsInv, TypeOK
<1>5. LateOK'
  BY <1>1 DEF ReviewsInv, LateOK
<1> QED BY <1>4, <1>5 DEF ReviewsInv

LEMMA CrashKeeps ==
  ASSUME ReviewsInv, UNCHANGED method, NEW i, CrashBetween(i)
  PROVE  ReviewsInv'
BY CrashFacts, ReviewsStand DEF ReviewsInv, TypeOK

LEMMA InitReviews == Init => ReviewsInv
<1> SUFFICES ASSUME Init PROVE ReviewsInv
  OBVIOUS
<1>1. reviews \in Seq(Review)
  <2>1. CASE reviews = <<>>
    BY <2>1, EmptySeq
  <2>2. CASE reviews # <<>>
    <3>1. PICK p \in Rows, amount \in Amounts :
            reviews = <<[row |-> p, amount |-> amount, by |-> Nothing, status |-> "requested"]>>
      BY <2>2 DEF Init
    <3> DEFINE row == [row |-> p, amount |-> amount, by |-> Nothing, status |-> "requested"]
    <3>2. row \in Review
      BY DEF Review, ReviewStatuses
    <3>3. reviews = <<row>>
      BY <3>1
    <3> HIDE DEF row
    <3> QED BY <3>2, <3>3
  <2> QED BY <2>1, <2>2
<1>2. status \in [Rows -> Statuses]
  BY DEF Init, Statuses
<1>3. due = {} /\ lost = {} /\ loose = {} /\ method \in [Rows -> Methods]
      /\ refunded \in [Rows -> Nat] /\ opening \in [Calls -> Opening \cup {Nothing}]
  BY DEF Init
<1> QED BY <1>1, <1>2, <1>3 DEF ReviewsInv, TypeOK, LateOK

LEMMA StepReviews == ReviewsInv /\ [Next]_vars => ReviewsInv'
<1> SUFFICES ASSUME ReviewsInv, [Next]_vars PROVE ReviewsInv'
  OBVIOUS
<1>1. UNCHANGED method
  BY DEF Next, vars
<1>2. CASE Next
  <2>1. \/ \E p \in Rows : PaymentStep(p)
        \/ \E c \in Calls : OpeningStep(c)
        \/ \E i \in Ids : Verdict(i) \/ WriteRefund(i) \/ CrashBetween(i)
    BY <1>2 DEF Next, ReviewStep, Verdict
  <2> QED BY <1>1, <2>1, PaymentKeeps, OpeningKeeps, VerdictKeeps, WriteKeeps, CrashKeeps
<1>3. CASE UNCHANGED vars
  BY <1>1, <1>3, ReviewsStand DEF vars, ReviewsInv, TypeOK
<1> QED BY <1>2, <1>3

\* The inductive invariant: well typed, nothing due twice, and nothing due or
\* lost that was not carried out.
THEOREM ReviewsInvariant == Spec => []ReviewsInv
BY InitReviews, StepReviews, PTL DEF Spec

\* Every table is well typed; a refund is due or lost, never both.
THEOREM TypeCorrect == Spec => []TypeOK
<1>1. ReviewsInv => TypeOK
  BY DEF ReviewsInv
<1> QED BY <1>1, ReviewsInvariant, PTL

(***************************************************************************)
(* Sums. A sum of amounts is the number of units they stand for, so what is *)
(* needed of it follows from what is known of finite sets.                  *)
(***************************************************************************)
LEMMA IntervalCount ==
  ASSUME NEW n \in Nat PROVE IsFiniteSet(1..n) /\ Cardinality(1..n) = n
<1>1. 1 \in Int /\ n \in Int
  OBVIOUS
<1>2. IsFiniteSet(1..n) /\ Cardinality(1..n) = IF 1 > n THEN 0 ELSE n - 1 + 1
  BY <1>1, FS_Interval
<1> QED BY <1>2

LEMMA UnitsFinite ==
  ASSUME NEW table, NEW ids, IsFiniteSet(ids), \A i \in ids : table[i].amount \in Nat
  PROVE  IsFiniteSet(Units(table, ids))
<1> DEFINE parts == {{i} \X (1..table[i].amount) : i \in ids}
           part == [i \in ids |-> {i} \X (1..table[i].amount)]
<1>1. part \in Surjection(ids, parts)
  BY DEF Surjection
<1>2. IsFiniteSet(parts)
  BY <1>1, FS_Surjection
<1>3. ASSUME NEW i \in ids
      PROVE  IsFiniteSet({i} \X (1..table[i].amount))
  <2>1. IsFiniteSet({i}) /\ IsFiniteSet(1..table[i].amount)
    BY FS_Singleton, IntervalCount
  <2> QED BY <2>1, FS_Product
<1>4. \A part1 \in parts : IsFiniteSet(part1)
  BY <1>3
<1> QED BY <1>2, <1>4, FS_UNION DEF Units

\* One more review adds its amount.
LEMMA UnitsAdd ==
  ASSUME NEW table, NEW ids, IsFiniteSet(ids), NEW i, i \notin ids,
         \A j \in ids \cup {i} : table[j].amount \in Nat
  PROVE  /\ Cardinality(Units(table, ids \cup {i})) = Cardinality(Units(table, ids)) + table[i].amount
         /\ Cardinality(Units(table, ids)) \in Nat
<1> DEFINE n == table[i].amount
           new == {i} \X (1..n)
           old == Units(table, ids)
<1>1. n \in Nat
  OBVIOUS
<1>2. IsFiniteSet(old)
  BY UnitsFinite
<1>3. IsFiniteSet(new) /\ Cardinality(new) = n
  <2>1. IsFiniteSet({i}) /\ Cardinality({i}) = 1
    BY FS_Singleton
  <2>2. IsFiniteSet(1..n) /\ Cardinality(1..n) = n
    BY <1>1, IntervalCount
  <2>3. IsFiniteSet(new) /\ Cardinality(new) = 1 * n
    BY <2>1, <2>2, FS_Product
  <2> QED BY <1>1, <2>3
<1>4. Units(table, ids \cup {i}) = old \cup new
  BY DEF Units
<1>5. old \cap new = {}
  BY DEF Units
<1>6. Cardinality(old) \in Nat
  BY <1>2, FS_CardinalityType
<1> HIDE DEF old, new, n
<1>7. Cardinality(old \cup new) = Cardinality(old) + Cardinality(new) - Cardinality({})
  BY <1>2, <1>3, <1>5, FS_Union
<1>8. Cardinality({}) = 0
  BY FS_EmptySet
<1>9. Cardinality(old \cup new) = Cardinality(old) + n
  BY <1>1, <1>3, <1>6, <1>7, <1>8
<1> QED BY <1>4, <1>6, <1>9 DEF old, n

\* Only the amounts matter.
LEMMA UnitsSame ==
  ASSUME NEW table1, NEW table2, NEW ids, \A i \in ids : table1[i].amount = table2[i].amount
  PROVE  Units(table1, ids) = Units(table2, ids)
BY DEF Units

LEMMA NoUnits == ASSUME NEW table PROVE Cardinality(Units(table, {})) = 0
BY FS_EmptySet DEF Units

\* What is on the payment: carried out, and written.
Counted(p) == Processed(p) \ (due \cup lost)

\* A set of reviews is finite, and what it is about is a number.
LEMMA ReviewSets ==
  ASSUME ReviewsInv, NEW ids, ids \subseteq Ids
  PROVE  IsFiniteSet(ids) /\ \A i \in ids : reviews[i].amount \in Nat
<1>1. Len(reviews) \in Nat
  BY LenProperties DEF ReviewsInv, TypeOK
<1>2. IsFiniteSet(Ids)
  BY <1>1, IntervalCount DEF Ids
<1>3. \A i \in Ids : reviews[i].amount \in Nat
  BY ReviewKnown, AmountsAssumption DEF Review
<1> QED BY <1>2, <1>3, FS_Subset

\* As long as the same reviews count, the column stays right.
LEMMA SumStands ==
  ASSUME ReviewsInv, RefundsAddUp, UNCHANGED refunded,
         \A p \in Rows : Counted(p)' = Counted(p),
         \A i \in Ids : reviews'[i].amount = reviews[i].amount
  PROVE  RefundsAddUp'
<1> SUFFICES ASSUME NEW p \in Rows
             PROVE  refunded'[p] = Cardinality(Units(reviews', Counted(p)'))
  BY DEF RefundsAddUp, Total, Counted
<1> DEFINE ids == Counted(p)
<1>1. Counted(p)' = ids /\ ids \subseteq Ids
  BY DEF Counted, Processed, ReviewsOf
<1>2. refunded[p] = Cardinality(Units(reviews, ids))
  BY DEF RefundsAddUp, Total, Counted
<1> HIDE DEF ids
<1>3. \A i \in ids : reviews[i].amount = reviews'[i].amount
  BY <1>1
<1>4. Units(reviews, ids) = Units(reviews', ids)
  BY <1>3, UnitsSame
<1> QED BY <1>1, <1>2, <1>4

(***************************************************************************)
(* The column adds up. Only WriteRefund changes what counts, and by exactly *)
(* the amount it adds.                                                      *)
(***************************************************************************)
LEMMA VerdictAddsUp ==
  ASSUME ReviewsInv, RefundsAddUp, NEW i \in Ids, Verdict(i)
  PROVE  RefundsAddUp'
<1>1. /\ Ids' = Ids /\ reviews[i].status \in OpenStatuses
      /\ \A j \in Ids : reviews'[j].row = reviews[j].row /\ reviews'[j].amount = reviews[j].amount
      /\ \A j \in Ids \ {i} : reviews'[j].status = reviews[j].status
      /\ UNCHANGED refunded /\ UNCHANGED lost
      /\ \/ UNCHANGED due /\ reviews'[i].status # "processed"
         \/ due' = due \cup {i} /\ reviews'[i].status = "processed"
  BY VerdictFacts
<1>2. reviews[i].status # "processed"
  BY <1>1 DEF OpenStatuses
<1>3. ASSUME NEW p \in Rows
      PROVE  Counted(p)' = Counted(p)
  <2>1. \A j \in Ids : j \in Counted(p)' <=> j \in Counted(p)
    BY <1>1, <1>2 DEF Counted, Processed, ReviewsOf
  <2>2. Counted(p) \subseteq Ids /\ Counted(p)' \subseteq Ids
    BY <1>1 DEF Counted, Processed, ReviewsOf
  <2> QED BY <2>1, <2>2
<1> QED BY <1>1, <1>3, SumStands

LEMMA InsertAddsUp ==
  ASSUME ReviewsInv, RefundsAddUp, NEW c \in Calls, InsertReview(c)
  PROVE  RefundsAddUp'
<1> DEFINE i == Len(reviews) + 1
<1>1. /\ Ids' = Ids \cup {i} /\ i \notin Ids
      /\ \A j \in Ids : reviews'[j] = reviews[j]
      /\ reviews'[i].status = "requested"
      /\ UNCHANGED refunded /\ UNCHANGED due /\ UNCHANGED lost
  BY InsertFacts
<1> HIDE DEF i
<1>2. ASSUME NEW p \in Rows
      PROVE  Counted(p)' = Counted(p)
  <2>1. \A j \in Ids : j \in Counted(p)' <=> j \in Counted(p)
    BY <1>1 DEF Counted, Processed, ReviewsOf
  <2>2. Counted(p) \subseteq Ids /\ Counted(p)' \subseteq Ids
    BY <1>1 DEF Counted, Processed, ReviewsOf
  <2> QED BY <2>1, <2>2
<1> QED BY <1>1, <1>2, SumStands

LEMMA WriteAddsUp ==
  ASSUME ReviewsInv, RefundsAddUp, NEW i \in Ids, WriteRefund(i)
  PROVE  RefundsAddUp'
<1> DEFINE p == reviews[i].row
<1>1. /\ p \in Rows /\ reviews[i].amount \in Nat
      /\ i \in due /\ due' = due \ {i} /\ UNCHANGED lost /\ i \notin lost
      /\ reviews[i].status = "processed"
      /\ refunded' = [refunded EXCEPT ![p] = refunded[p] + reviews[i].amount]
      /\ UNCHANGED reviews
  BY WriteFacts
<1>2. SUFFICES ASSUME NEW q \in Rows
               PROVE  refunded'[q] = Cardinality(Units(reviews', Counted(q)'))
  BY DEF RefundsAddUp, Total, Counted
<1>3. Ids' = Ids
  BY <1>1 DEF Ids
<1>4. refunded[q] = Cardinality(Units(reviews, Counted(q)))
  BY DEF RefundsAddUp, Total, Counted
<1>5. CASE q = p
  <2> DEFINE ids == Counted(p)
  <2>1. Counted(p)' = ids \cup {i} /\ i \notin ids /\ ids \subseteq Ids
    BY <1>1, <1>3 DEF Counted, Processed, ReviewsOf
  <2> HIDE DEF ids
  <2>2. IsFiniteSet(ids) /\ \A j \in ids \cup {i} : reviews[j].amount \in Nat
    BY <1>1, <2>1, ReviewSets
  <2>3. Cardinality(Units(reviews, ids \cup {i}))
          = Cardinality(Units(reviews, ids)) + reviews[i].amount
    BY <2>1, <2>2, UnitsAdd
  <2>4. refunded'[p] = refunded[p] + reviews[i].amount
    BY <1>1 DEF ReviewsInv, TypeOK
  <2> QED BY <1>1, <1>4, <1>5, <2>1, <2>3, <2>4 DEF ids
<1>6. CASE q # p
  <2>1. Counted(q)' = Counted(q)
    BY <1>1, <1>3, <1>6 DEF Counted, Processed, ReviewsOf
  <2>2. refunded'[q] = refunded[q]
    BY <1>1, <1>6 DEF ReviewsInv, TypeOK
  <2> QED BY <1>1, <1>4, <2>1, <2>2
<1> QED BY <1>5, <1>6

\* The other steps change neither the column nor what counts.
LEMMA OthersAddUp ==
  ASSUME ReviewsInv, RefundsAddUp, UNCHANGED refunded, UNCHANGED reviews,
         (due \cup lost)' = due \cup lost
  PROVE  RefundsAddUp'
<1>1. \A p \in Rows : Counted(p)' = Counted(p)
  BY DEF Counted, Processed, ReviewsOf, Ids
<1> QED BY <1>1, SumStands

LEMMA StepAddsUp == ReviewsInv /\ RefundsAddUp /\ [Next]_vars => RefundsAddUp'
<1> SUFFICES ASSUME ReviewsInv, RefundsAddUp, [Next]_vars PROVE RefundsAddUp'
  OBVIOUS
<1>1. CASE UNCHANGED vars
  BY <1>1, OthersAddUp DEF vars
<1>2. CASE \E p \in Rows : PaymentStep(p)
  BY <1>2, PaymentFacts, OthersAddUp
<1>3. ASSUME NEW c \in Calls, Reads(c) \/ CheckReviews(c) \/ Drop(c)
      PROVE  RefundsAddUp'
  <2>1. UNCHANGED refunded /\ UNCHANGED reviews /\ UNCHANGED due /\ UNCHANGED lost
    BY <1>3, ReadFacts, CheckFacts, DropFacts
  <2> QED BY <2>1, OthersAddUp
<1>4. CASE \E c \in Calls : InsertReview(c)
  BY <1>4, InsertAddsUp
<1>5. CASE \E i \in Ids : Verdict(i)
  BY <1>5, VerdictAddsUp
<1>6. CASE \E i \in Ids : WriteRefund(i)
  BY <1>6, WriteAddsUp
<1>7. CASE \E i \in Ids : CrashBetween(i)
  BY <1>7, CrashFacts, OthersAddUp
<1> QED BY <1>1, <1>2, <1>3, <1>4, <1>5, <1>6, <1>7
        DEF Next, OpeningStep, Reads, ReviewStep, Verdict

LEMMA InitAddsUp == Init => RefundsAddUp
<1> SUFFICES ASSUME Init, NEW p \in Rows
             PROVE  refunded[p] = Total(Processed(p) \ (due \cup lost))
  BY DEF RefundsAddUp
<1>1. Processed(p) = {}
  BY DEF Init, Processed, ReviewsOf, Ids
<1> QED BY <1>1, NoUnits DEF Init, Total

(***************************************************************************)
(* No more goes back than was paid. Of the calls about to open a review for *)
(* a payment only the first is unmarked, and only as long as no refund is   *)
(* carried out. On a payment that is not loose, at most one refund is open  *)
(* or on its way to the payment, none of them beside an unmarked call that  *)
(* has checked, and there is room for each.                                 *)
(***************************************************************************)
Unmet(p) == {c \in OpeningsOf(p) : ~opening[c].met}
Late(p) == {i \in ReviewsOf(p) : i \in due \cup lost}
Standing(p) == {i \in ReviewsOf(p) : reviews[i].status \in OpenStatuses} \cup Late(p)

RoomOK(p) ==
  /\ \A c, d \in Unmet(p) : c = d
  /\ \A i, j \in Standing(p) : i = j
  /\ Unmet(p) = {} \/ Late(p) = {}
  /\ \A c \in Unmet(p) : opening[c].checked => Standing(p) = {}
  /\ refunded[p] <= Amount
  /\ \A c \in Unmet(p) : refunded[p] + opening[c].amount <= Amount
  /\ \A i \in Standing(p) : refunded[p] + reviews[i].amount <= Amount

RoomInv == \A p \in Rows \ loose : RoomOK(p)

\* A payment on which nothing new is under way keeps its room.
LEMMA RoomStands ==
  ASSUME ReviewsInv, NEW p, RoomOK(p), refunded'[p] = refunded[p],
         Unmet(p)' \subseteq Unmet(p), Standing(p)' \subseteq Standing(p),
         Unmet(p)' = {} \/ Late(p)' = {},
         \A c \in Unmet(p)' : opening'[c] = opening[c],
         \A i \in Ids : reviews'[i].amount = reviews[i].amount
  PROVE  RoomOK(p)'
<1>1. Standing(p) \subseteq Ids
  BY DEF Standing, Late, ReviewsOf
<1>2. \A i \in Standing(p)' : reviews'[i].amount = reviews[i].amount
  BY <1>1
<1> QED BY <1>2 DEF RoomOK

\* The opening of one call is written: what the others are about stays.
LEMMA OneOpening ==
  ASSUME ReviewsInv, NEW c \in Calls, NEW new, opening' = [opening EXCEPT ![c] = new], NEW q
  PROVE  /\ opening'[c] = new
         /\ \A d \in Calls \ {c} : opening'[d] = opening[d]
         /\ \A d \in Calls \ {c} : d \in Unmet(q)' <=> d \in Unmet(q)
         /\ c \in Unmet(q)' <=> new # Nothing /\ new.row = q /\ ~new.met
         /\ Unmet(q)' \subseteq Calls /\ Unmet(q) \subseteq Calls
<1>1. opening'[c] = new /\ \A d \in Calls \ {c} : opening'[d] = opening[d]
  BY DEF ReviewsInv, TypeOK
<1> QED BY <1>1 DEF Unmet, OpeningsOf

\* The read sees a payment with room. It is the first, or it is marked.
LEMMA ReadKeepsRoom ==
  ASSUME ReviewsInv, RoomInv, NEW c \in Calls, Reads(c)
  PROVE  RoomInv'
<1>1. PICK new \in Opening :
        /\ opening' = [opening EXCEPT ![c] = new] /\ ~new.checked
        /\ ~new.met => ~Unsettled(new.row) /\ refunded[new.row] + new.amount <= Amount
  BY ReadFacts
<1>2. /\ UNCHANGED refunded /\ UNCHANGED reviews /\ UNCHANGED due /\ UNCHANGED lost
      /\ UNCHANGED loose
  BY ReadFacts
<1>3. opening[c] = Nothing
  BY DEF Reads, ReadFromPortal, ReadFromApp, Read
<1> SUFFICES ASSUME NEW q \in Rows \ loose'
             PROVE  RoomOK(q)'
  BY DEF RoomInv
<1>4. RoomOK(q)
  BY <1>2 DEF RoomInv
<1>5. Standing(q)' = Standing(q) /\ Late(q)' = Late(q)
  BY <1>2 DEF Standing, Late, ReviewsOf, Ids
<1>6. /\ opening'[c] = new
      /\ \A d \in Calls \ {c} : opening'[d] = opening[d]
      /\ \A d \in Calls \ {c} : d \in Unmet(q)' <=> d \in Unmet(q)
      /\ c \in Unmet(q)' <=> new # Nothing /\ new.row = q /\ ~new.met
      /\ Unmet(q)' \subseteq Calls
  BY <1>1, OneOpening
<1>7. CASE c \notin Unmet(q)'
  <2>1. Unmet(q)' \subseteq Unmet(q) /\ \A d \in Unmet(q)' : opening'[d] = opening[d]
    BY <1>6, <1>7
  <2>2. Unmet(q)' = {} \/ Late(q)' = {}
    BY <1>4, <1>5, <2>1 DEF RoomOK
  <2> QED BY <1>2, <1>4, <1>5, <2>1, <2>2, RoomStands
<1>8. CASE c \in Unmet(q)'
  <2>1. new.row = q /\ ~Unsettled(q) /\ refunded[q] + new.amount <= Amount
    BY <1>1, <1>6, <1>8
  <2>2. Unmet(q) = {} /\ Late(q) = {}
    BY <2>1 DEF Unsettled, Unmet, Late, ReviewsOf
  <2>3. Unmet(q)' = {c}
    BY <1>6, <1>8, <2>2
  <2> QED BY <1>1, <1>2, <1>4, <1>5, <1>6, <2>1, <2>2, <2>3 DEF RoomOK
<1> QED BY <1>7, <1>8

\* An unmarked call that has checked has found nothing open.
LEMMA CheckKeepsRoom ==
  ASSUME ReviewsInv, RoomInv, NEW c \in Calls, CheckReviews(c)
  PROVE  RoomInv'
<1>1. PICK new \in Opening :
        /\ opening' = [opening EXCEPT ![c] = new]
        /\ new.row = opening[c].row /\ new.amount = opening[c].amount
        /\ ~new.met => /\ ~opening[c].met
                       /\ \A i \in ReviewsOf(new.row) : reviews[i].status \notin OpenStatuses
  BY CheckFacts
<1>2. /\ UNCHANGED refunded /\ UNCHANGED reviews /\ UNCHANGED due /\ UNCHANGED lost
      /\ UNCHANGED loose /\ opening[c] # Nothing
  BY CheckFacts
<1> SUFFICES ASSUME NEW q \in Rows \ loose'
             PROVE  RoomOK(q)'
  BY DEF RoomInv
<1>3. RoomOK(q)
  BY <1>2 DEF RoomInv
<1>4. Standing(q)' = Standing(q) /\ Late(q)' = Late(q)
  BY <1>2 DEF Standing, Late, ReviewsOf, Ids
<1>5. /\ opening'[c] = new
      /\ \A d \in Calls \ {c} : opening'[d] = opening[d]
      /\ \A d \in Calls \ {c} : d \in Unmet(q)' <=> d \in Unmet(q)
      /\ c \in Unmet(q)' <=> new # Nothing /\ new.row = q /\ ~new.met
      /\ Unmet(q)' \subseteq Calls
  BY <1>1, OneOpening
<1>6. CASE c \notin Unmet(q)'
  <2>1. Unmet(q)' \subseteq Unmet(q) /\ \A d \in Unmet(q)' : opening'[d] = opening[d]
    BY <1>5, <1>6
  <2>2. Unmet(q)' = {} \/ Late(q)' = {}
    BY <1>3, <1>4, <2>1 DEF RoomOK
  <2> QED BY <1>2, <1>3, <1>4, <2>1, <2>2, RoomStands
<1>7. CASE c \in Unmet(q)'
  <2>1. new.row = q /\ ~new.met
    BY <1>5, <1>7
  <2>2. c \in Unmet(q)
    BY <1>1, <1>2, <2>1 DEF Unmet, OpeningsOf
  <2>3. Unmet(q) = {c} /\ Late(q) = {} /\ refunded[q] + opening[c].amount <= Amount
    BY <1>3, <2>2 DEF RoomOK
  <2>4. Standing(q) = {}
    BY <1>1, <2>1, <2>3 DEF Standing
  <2>5. Unmet(q)' = {c}
    BY <1>5, <1>7, <2>3
  <2>6. refunded'[q] <= Amount /\ refunded'[q] + opening'[c].amount <= Amount
    BY <1>1, <1>2, <1>3, <1>5, <2>3 DEF RoomOK
  <2> QED BY <1>4, <2>3, <2>4, <2>5, <2>6 DEF RoomOK
<1> QED BY <1>6, <1>7

LEMMA DropKeepsRoom ==
  ASSUME ReviewsInv, RoomInv, NEW c \in Calls, Drop(c)
  PROVE  RoomInv'
<1>1. /\ UNCHANGED refunded /\ UNCHANGED reviews /\ UNCHANGED due /\ UNCHANGED lost
      /\ UNCHANGED loose /\ opening' = [opening EXCEPT ![c] = Nothing]
  BY DropFacts
<1> SUFFICES ASSUME NEW q \in Rows \ loose'
             PROVE  RoomOK(q)'
  BY DEF RoomInv
<1>2. RoomOK(q)
  BY <1>1 DEF RoomInv
<1>3. Standing(q)' = Standing(q) /\ Late(q)' = Late(q)
  BY <1>1 DEF Standing, Late, ReviewsOf, Ids
<1>4. /\ \A d \in Calls \ {c} : opening'[d] = opening[d]
      /\ \A d \in Calls \ {c} : d \in Unmet(q)' <=> d \in Unmet(q)
      /\ c \notin Unmet(q)' /\ Unmet(q)' \subseteq Calls
  BY <1>1, OneOpening
<1>5. Unmet(q)' \subseteq Unmet(q) /\ \A d \in Unmet(q)' : opening'[d] = opening[d]
  BY <1>4
<1>6. Unmet(q)' = {} \/ Late(q)' = {}
  BY <1>2, <1>3, <1>5 DEF RoomOK
<1> QED BY <1>1, <1>2, <1>3, <1>5, <1>6, RoomStands

\* What an unmarked call has checked is inserted; a marked one makes its payment
\* loose.
LEMMA InsertKeepsRoom ==
  ASSUME ReviewsInv, RoomInv, NEW c \in Calls, InsertReview(c)
  PROVE  RoomInv'
<1> DEFINE i == Len(reviews) + 1
<1>1. /\ Ids' = Ids \cup {i} /\ i \notin Ids /\ i \notin due \cup lost
      /\ \A j \in Ids : reviews'[j] = reviews[j]
      /\ reviews'[i].row = opening[c].row /\ reviews'[i].amount = opening[c].amount
      /\ reviews'[i].status = "requested"
      /\ opening[c] # Nothing /\ opening[c].checked
      /\ opening' = [opening EXCEPT ![c] = Nothing]
      /\ loose' = loose \cup (IF opening[c].met THEN {opening[c].row} ELSE {})
      /\ UNCHANGED refunded /\ UNCHANGED due /\ UNCHANGED lost
  BY InsertFacts
<1> HIDE DEF i
<1> SUFFICES ASSUME NEW p \in Rows \ loose'
             PROVE  RoomOK(p)'
  BY DEF RoomInv
<1>2. RoomOK(p)
  BY <1>1 DEF RoomInv
<1>3. /\ \A d \in Calls \ {c} : opening'[d] = opening[d]
      /\ \A d \in Calls \ {c} : d \in Unmet(p)' <=> d \in Unmet(p)
      /\ c \notin Unmet(p)' /\ Unmet(p)' \subseteq Calls
  BY <1>1, OneOpening
<1>4. Unmet(p)' \subseteq Unmet(p) /\ \A d \in Unmet(p)' : opening'[d] = opening[d]
  BY <1>3
<1>5. Late(p)' = Late(p)
  <2>1. \A j \in Ids : j \in Late(p)' <=> j \in Late(p)
    BY <1>1 DEF Late, ReviewsOf
  <2>2. i \notin Late(p)'
    BY <1>1 DEF Late
  <2>3. Late(p) \subseteq Ids /\ Late(p)' \subseteq Ids'
    BY DEF Late, ReviewsOf
  <2> QED BY <1>1, <2>1, <2>2, <2>3
<1>6. Unmet(p)' = {} \/ Late(p)' = {}
  BY <1>2, <1>4, <1>5 DEF RoomOK
<1>7. \A j \in Ids : j \in Standing(p)' <=> j \in Standing(p)
  BY <1>1, <1>5 DEF Standing, ReviewsOf
<1>8. Standing(p) \subseteq Ids /\ Standing(p)' \subseteq Ids'
  BY DEF Standing, Late, ReviewsOf
<1>9. CASE opening[c].row # p
  <2>1. i \notin Standing(p)'
    BY <1>1, <1>9 DEF Standing, Late, ReviewsOf
  <2>2. Standing(p)' = Standing(p)
    BY <1>1, <1>7, <1>8, <2>1
  <2> QED BY <1>1, <1>2, <1>4, <1>6, <2>2, RoomStands
<1>10. CASE opening[c].row = p
  <2>1. c \in Unmet(p)
    BY <1>1, <1>10 DEF Unmet, OpeningsOf
  <2>2. Standing(p) = {} /\ Unmet(p) = {c} /\ refunded[p] + opening[c].amount <= Amount
    BY <1>1, <1>2, <2>1 DEF RoomOK
  <2>3. Standing(p)' \subseteq {i}
    BY <1>1, <1>7, <1>8, <2>2
  <2>4. Unmet(p)' = {}
    BY <1>3, <1>4, <2>2
  <2>5. refunded'[p] <= Amount /\ refunded'[p] + reviews'[i].amount <= Amount
    BY <1>1, <1>2, <1>10, <2>2 DEF RoomOK
  <2> QED BY <2>3, <2>4, <2>5 DEF RoomOK
<1> QED BY <1>9, <1>10

\* A refund that is carried out marks whoever is about to open another.
LEMMA VerdictKeepsRoom ==
  ASSUME ReviewsInv, RoomInv, NEW i \in Ids, Verdict(i)
  PROVE  RoomInv'
<1>1. /\ Ids' = Ids /\ reviews[i].status \in OpenStatuses
      /\ \A j \in Ids : reviews'[j].row = reviews[j].row /\ reviews'[j].amount = reviews[j].amount
      /\ \A j \in Ids \ {i} : reviews'[j].status = reviews[j].status
      /\ UNCHANGED refunded /\ UNCHANGED lost /\ UNCHANGED loose
      /\ \/ UNCHANGED due /\ UNCHANGED opening
         \/ /\ due' = due \cup {i}
            /\ opening' = [c \in Calls |-> IF c \in OpeningsOf(reviews[i].row)
                             THEN [opening[c] EXCEPT !.met = TRUE] ELSE opening[c]]
  BY VerdictFacts
<1> SUFFICES ASSUME NEW p \in Rows \ loose'
             PROVE  RoomOK(p)'
  BY DEF RoomInv
<1>2. RoomOK(p)
  BY <1>1 DEF RoomInv
<1>3. Standing(p)' \subseteq Standing(p)
  BY <1>1 DEF Standing, Late, ReviewsOf
<1>4. CASE UNCHANGED due /\ UNCHANGED opening
  <2>1. Unmet(p)' = Unmet(p)
    BY <1>4 DEF Unmet, OpeningsOf
  <2>2. Late(p)' = Late(p)
    BY <1>1, <1>4 DEF Late, ReviewsOf
  <2>3. Unmet(p)' = {} \/ Late(p)' = {}
    BY <1>2, <2>1, <2>2 DEF RoomOK
  <2> QED BY <1>1, <1>2, <1>3, <1>4, <2>1, <2>3, RoomStands
<1>5. CASE /\ due' = due \cup {i}
           /\ opening' = [c \in Calls |-> IF c \in OpeningsOf(reviews[i].row)
                            THEN [opening[c] EXCEPT !.met = TRUE] ELSE opening[c]]
  <2>1. \A c \in OpeningsOf(reviews[i].row) :
           /\ opening'[c] # Nothing => opening'[c].met
    <3>1. ASSUME NEW c \in OpeningsOf(reviews[i].row)
          PROVE  opening'[c].met
      <4>1. c \in Calls /\ opening[c] \in Opening
        BY OpeningKnown DEF OpeningsOf
      <4>2. opening'[c] = [opening[c] EXCEPT !.met = TRUE]
        BY <1>5, <4>1
      <4> QED BY <4>1, <4>2 DEF Opening
    <3> QED BY <3>1
  <2>2. \A c \in Calls \ OpeningsOf(reviews[i].row) : opening'[c] = opening[c]
    BY <1>5
  <2>3. CASE reviews[i].row # p
    <3>1. \A c \in Unmet(p)' : c \in Calls \ OpeningsOf(reviews[i].row)
      BY <2>1 DEF Unmet, OpeningsOf
    <3>2. Unmet(p)' \subseteq Unmet(p) /\ \A c \in Unmet(p)' : opening'[c] = opening[c]
      BY <2>2, <3>1 DEF Unmet, OpeningsOf
    <3>3. Late(p)' = Late(p)
      BY <1>1, <1>5, <2>3 DEF Late, ReviewsOf
    <3>4. Unmet(p)' = {} \/ Late(p)' = {}
      BY <1>2, <3>2, <3>3 DEF RoomOK
    <3> QED BY <1>1, <1>2, <1>3, <3>2, <3>4, RoomStands
  <2>4. CASE reviews[i].row = p
    <3>1. Unmet(p)' = {}
      BY <2>1, <2>2, <2>4 DEF Unmet, OpeningsOf
    <3> QED BY <1>1, <1>2, <1>3, <3>1, RoomStands
  <2> QED BY <2>3, <2>4
<1> QED BY <1>1, <1>4, <1>5

\* A written refund takes the room that was kept for it.
LEMMA WriteKeepsRoom ==
  ASSUME ReviewsInv, RoomInv, NEW i \in Ids, WriteRefund(i)
  PROVE  RoomInv'
<1> DEFINE p == reviews[i].row
<1>1. /\ p \in Rows /\ reviews[i].amount \in Nat
      /\ i \in due /\ due' = due \ {i} /\ UNCHANGED lost /\ i \notin lost
      /\ reviews[i].status = "processed"
      /\ refunded' = [refunded EXCEPT ![p] = refunded[p] + reviews[i].amount]
      /\ UNCHANGED reviews /\ UNCHANGED opening /\ UNCHANGED loose
  BY WriteFacts
<1> SUFFICES ASSUME NEW q \in Rows \ loose'
             PROVE  RoomOK(q)'
  BY DEF RoomInv
<1>2. RoomOK(q)
  BY <1>1 DEF RoomInv
<1>3. Unmet(q)' = Unmet(q)
  BY <1>1 DEF Unmet, OpeningsOf
<1>4. Standing(q)' = Standing(q) \ {i} /\ Late(q)' = Late(q) \ {i}
  BY <1>1 DEF Standing, Late, ReviewsOf, Ids, OpenStatuses
<1>5. CASE q # p
  <2>1. refunded'[q] = refunded[q]
    BY <1>1, <1>5 DEF ReviewsInv, TypeOK
  <2>2. Unmet(q)' = {} \/ Late(q)' = {}
    BY <1>2, <1>3, <1>4 DEF RoomOK
  <2> QED BY <1>1, <1>2, <1>3, <1>4, <2>1, <2>2, RoomStands
<1>6. CASE q = p
  <2>1. i \in Standing(p) /\ i \in Late(p)
    BY <1>1 DEF Standing, Late, ReviewsOf
  <2>2. Standing(p) = {i} /\ Unmet(p) = {} /\ refunded[p] + reviews[i].amount <= Amount
    BY <1>2, <1>6, <2>1 DEF RoomOK
  <2>3. refunded'[p] <= Amount
    BY <1>1, <2>2 DEF ReviewsInv, TypeOK
  <2>4. Standing(q)' = {} /\ Unmet(q)' = {} /\ refunded'[q] <= Amount
    BY <1>3, <1>4, <1>6, <2>2, <2>3
  <2> QED BY <2>4 DEF RoomOK
<1> QED BY <1>5, <1>6

LEMMA OthersKeepRoom ==
  ASSUME ReviewsInv, RoomInv, UNCHANGED refunded, UNCHANGED reviews, UNCHANGED opening,
         UNCHANGED loose, (due \cup lost)' = due \cup lost
  PROVE  RoomInv'
<1> SUFFICES ASSUME NEW p \in Rows \ loose'
             PROVE  RoomOK(p)'
  BY DEF RoomInv
<1>1. RoomOK(p)
  BY DEF RoomInv
<1>2. Unmet(p)' = Unmet(p) /\ Standing(p)' = Standing(p) /\ Late(p)' = Late(p)
  BY DEF Unmet, OpeningsOf, Standing, Late, ReviewsOf, Ids
<1>3. Unmet(p)' = {} \/ Late(p)' = {}
  BY <1>1, <1>2 DEF RoomOK
<1> QED BY <1>1, <1>2, <1>3, RoomStands

LEMMA StepKeepsRoom == ReviewsInv /\ RoomInv /\ [Next]_vars => RoomInv'
<1> SUFFICES ASSUME ReviewsInv, RoomInv, [Next]_vars PROVE RoomInv'
  OBVIOUS
<1>1. CASE UNCHANGED vars
  BY <1>1, OthersKeepRoom DEF vars
<1>2. CASE \E p \in Rows : PaymentStep(p)
  BY <1>2, PaymentFacts, OthersKeepRoom
<1>3. CASE \E c \in Calls : Reads(c) \/ CheckReviews(c) \/ Drop(c) \/ InsertReview(c)
  BY <1>3, ReadKeepsRoom, CheckKeepsRoom, DropKeepsRoom, InsertKeepsRoom
<1>4. CASE \E i \in Ids : Verdict(i) \/ WriteRefund(i)
  BY <1>4, VerdictKeepsRoom, WriteKeepsRoom
<1>5. CASE \E i \in Ids : CrashBetween(i)
  BY <1>5, CrashFacts, OthersKeepRoom
<1> QED BY <1>1, <1>2, <1>3, <1>4, <1>5 DEF Next, OpeningStep, Reads, ReviewStep, Verdict

\* In the beginning at most one review is open, and there is room for it.
LEMMA InitHasRoom == Init => RoomInv
<1> SUFFICES ASSUME Init, NEW p \in Rows PROVE RoomOK(p)
  BY DEF RoomInv
<1>1. Unmet(p) = {} /\ Late(p) = {}
  BY DEF Init, Unmet, OpeningsOf, Late
<1>2. refunded[p] = 0 /\ 0 <= Amount
  BY AmountsAssumption DEF Init
<1>3. /\ Ids \subseteq {1}
      /\ \A i \in Ids : reviews[i].amount \in Nat /\ reviews[i].amount <= Amount
  <2>1. CASE reviews = <<>>
    BY <2>1 DEF Ids
  <2>2. CASE reviews # <<>>
    <3>1. PICK q \in Rows, amount \in Amounts :
            /\ reviews = <<[row |-> q, amount |-> amount, by |-> Nothing, status |-> "requested"]>>
            /\ amount <= Amount
      BY <2>2 DEF Init
    <3>2. Len(reviews) = 1 /\ reviews[1].amount = amount
      BY <3>1
    <3>3. amount \in Nat
      BY AmountsAssumption
    <3> QED BY <3>1, <3>2, <3>3 DEF Ids
  <2> QED BY <2>1, <2>2
<1>4. Standing(p) \subseteq Ids
  BY DEF Standing, Late, ReviewsOf
<1>5. \A i, k \in Standing(p) : i = k
  BY <1>3, <1>4
<1>6. ASSUME NEW i \in Standing(p)
      PROVE  refunded[p] + reviews[i].amount <= Amount
  <2>1. reviews[i].amount \in Nat /\ reviews[i].amount <= Amount
    BY <1>3, <1>4
  <2>2. 0 + reviews[i].amount = reviews[i].amount
    BY <2>1
  <2> QED BY <1>2, <2>1, <2>2
<1> QED BY <1>1, <1>2, <1>5, <1>6 DEF RoomOK

\* What was carried out on a payment is what it says, and at most one refund more.
LEMMA RoomIsEnough ==
  ASSUME ReviewsInv, RefundsAddUp, RoomInv
  PROVE  NeverOverRefunded
<1> SUFFICES ASSUME NEW p \in Rows \ loose
             PROVE  Total(Processed(p)) <= Amount
  BY DEF NeverOverRefunded
<1> DEFINE ids == Counted(p)
           late == Processed(p) \cap (due \cup lost)
<1>1. RoomOK(p)
  BY DEF RoomInv
<1>2. refunded[p] = Total(ids)
  BY DEF RefundsAddUp, Counted
<1>3. Processed(p) = ids \cup late /\ ids \cap late = {} /\ Processed(p) \subseteq Ids
  BY DEF Counted, Processed, ReviewsOf
<1>4. late \subseteq Standing(p)
  BY DEF Processed, Standing, Late
<1> HIDE DEF ids, late
<1>5. CASE late = {}
  BY <1>1, <1>2, <1>3, <1>5 DEF RoomOK
<1>6. CASE late # {}
  <2>1. PICK i \in late : TRUE
    BY <1>6
  <2>2. Processed(p) = ids \cup {i} /\ i \notin ids /\ ids \subseteq Ids /\ i \in Ids
    BY <1>1, <1>3, <1>4, <2>1 DEF RoomOK
  <2>3. IsFiniteSet(ids) /\ \A j \in ids \cup {i} : reviews[j].amount \in Nat
    BY <1>3, <2>2, ReviewSets
  <2>4. Cardinality(Units(reviews, ids \cup {i}))
          = Cardinality(Units(reviews, ids)) + reviews[i].amount
    BY <2>2, <2>3, UnitsAdd
  <2>5. refunded[p] + reviews[i].amount <= Amount
    BY <1>1, <1>4, <2>1 DEF RoomOK
  <2> QED BY <1>2, <2>2, <2>4, <2>5 DEF Total
<1> QED BY <1>5, <1>6

\* The column of every payment is the sum of the refunds carried out on it, short
\* of the writes that are due or lost, for any number of payments and reviews.
THEOREM RefundsAlwaysAddUp == Spec => []RefundsAddUp
BY ReviewsInvariant, InitAddsUp, StepAddsUp, PTL DEF Spec

\* One refund at a time, with room for it: the invariant behind the next theorem.
THEOREM RoomInvariant == Spec => []RoomInv
BY ReviewsInvariant, InitHasRoom, StepKeepsRoom, PTL DEF Spec

\* However the statements of any number of calls, approvals and writes interleave
\* and wherever the process dies, a payment never gives back more than was paid,
\* unless an opening that met another refund halfway, or one of the app's lenient
\* two, let a review in.
THEOREM NeverTooMuchBack == Spec => []NeverOverRefunded
<1>1. ReviewsInv /\ RefundsAddUp /\ RoomInv => NeverOverRefunded
  BY RoomIsEnough
<1> QED BY <1>1, ReviewsInvariant, RefundsAlwaysAddUp, RoomInvariant, PTL
=============================================================================
