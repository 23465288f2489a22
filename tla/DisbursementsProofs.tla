------------------------ MODULE DisbursementsProofs ------------------------
(***************************************************************************)
(* Proofs about Disbursements for any number of payouts, runs and admins,   *)
(* and any bounds.                                                          *)
(*                                                                         *)
(* What makes a payout leave once is the pair of a row and its attempt: a   *)
(* run that has claimed a payout and not settled it is the only one to hold *)
(* that attempt, and unless an admin overruled the row, that attempt is the *)
(* latest and the row says PROCESSING for as long as it is held.            *)
(***************************************************************************)
EXTENDS Disbursements, TLAPS

\* The run has claimed the payout and is not through with it.
Holds(r, d) == phase[r] \in {"claimed", "answered", "noting"} /\ current[r] = d

\* It has not written the outcome either.
Unsettled(r, d) == phase[r] \in {"claimed", "answered"} /\ current[r] = d

RunsOK ==
  \A r \in Runs :
    /\ phase[r] \in {"idle", "loop"} => current[r] = Nothing
    /\ phase[r] \notin {"idle", "loop"} => current[r] \in Payouts
    /\ phase[r] \in {"claimed", "answered", "noting"} => tried[r] \in Attempts

\* There is room for the attempt a PENDING row will get.
RoomOK ==
  \A d \in Payouts :
    /\ status[d] = "PENDING" => attempt[d] < MaxAttempts
    /\ status[d] = "NONE" => attempt[d] = 0

\* The processor knows nothing of an attempt that was not made.
BooksOK ==
  \A d \in Payouts, n \in Attempts : n > attempt[d] => books[d][n] = "none"

\* Every attempt has been made by one run, which has yet to send it or has sent
\* it once.
TriesOK ==
  \A r \in Runs, d \in Payouts :
    Holds(r, d) =>
      /\ tried[r] <= attempt[d]
      /\ phase[r] = "claimed" => books[d][tried[r]] = "none"
      /\ \A q \in Runs : Holds(q, d) /\ tried[q] = tried[r] => q = r

\* What a run knows is so.
AnswersOK ==
  \A r \in Runs, d \in Payouts :
    Holds(r, d) /\ phase[r] # "claimed" =>
      /\ answer[r] = "paid" => books[d][tried[r]] = "paid"
      /\ answer[r] = "refused" => books[d][tried[r]] \notin {"open", "paid"}
      /\ phase[r] = "noting" => answer[r] \in {"paid", "refused"}

HoldersOK ==
  \A r \in Runs, d \in Payouts :
    Unsettled(r, d) /\ d \notin overruled =>
      status[d] = "PROCESSING" /\ tried[r] = attempt[d]

SentOK ==
  \A d \in Payouts, n \in Attempts :
    books[d][n] \in {"open", "paid"} /\ d \notin overruled =>
      n = attempt[d] /\ status[d] \in {"PROCESSING", "RELEASED"}

LedgerOK ==
  \A d \in Payouts :
    /\ ReleasedEvent(d) \in ledger => \E n \in Attempts : books[d][n] = "paid"
    /\ \A n \in Attempts : FailedEvent(d, n) \in ledger =>
         /\ books[d][n] \notin {"open", "paid"}
         /\ n <= attempt[d]
         /\ \A r \in Runs : ~(phase[r] = "claimed" /\ current[r] = d /\ tried[r] = n)

FirmOK ==
  \A d \in firm :
    /\ status[d] = "PENDING" /\ d \in held
    /\ \A r \in Runs : d \notin todo[r] /\ current[r] # d

DisbursementsInv ==
  /\ TypeOK /\ RunsOK /\ RoomOK /\ BooksOK /\ TriesOK
  /\ AnswersOK /\ HoldersOK /\ SentOK /\ LedgerOK /\ FirmOK

(***************************************************************************)
(* Each action keeps the invariant.                                         *)
(***************************************************************************)
\* A claim takes the next attempt, which nobody holds and the processor has not
\* seen; a claim that matches no row only moves on.
LEMMA ClaimKeeps ==
  ASSUME DisbursementsInv, NEW r \in Runs, NEW d \in Payouts, Claim(r, d)
  PROVE  DisbursementsInv'
<1> USE DEF DisbursementsInv
<1>1. CASE ~Claimable(d)
  <2>1. /\ phase' = [phase EXCEPT ![r] = "loop"]
        /\ current' = [current EXCEPT ![r] = Nothing]
        /\ tried' = [tried EXCEPT ![r] = 0]
        /\ answer' = [answer EXCEPT ![r] = "none"]
        /\ todo' = [todo EXCEPT ![r] = @ \ {d}]
        /\ UNCHANGED <<status, attempt, retries, held, due, crashes, read, books, ledger, overruled, firm>>
    BY <1>1 DEF Claim, NextRow
  <2>2. TypeOK'
    BY <2>1, BoundsAssumption DEF TypeOK, Phases, Answers
  <2>3. /\ \A q \in Runs : q # r => phase'[q] = phase[q] /\ current'[q] = current[q] /\ tried'[q] = tried[q]
                                      /\ answer'[q] = answer[q] /\ todo'[q] = todo[q]
        /\ phase'[r] = "loop" /\ current'[r] = Nothing
    BY <2>1 DEF TypeOK
  <2>4. RunsOK'
    BY <2>1, <2>3 DEF RunsOK
  <2>5. RoomOK' /\ BooksOK' /\ SentOK'
    BY <2>1 DEF RoomOK, BooksOK, SentOK
  <2>6. TriesOK' /\ AnswersOK' /\ HoldersOK'
    BY <2>1, <2>3 DEF TriesOK, AnswersOK, HoldersOK, Holds, Unsettled
  <2>7. LedgerOK'
    BY <2>1, <2>3 DEF LedgerOK
  <2>8. FirmOK'
    BY <2>1, <2>3, RunsAssumption DEF FirmOK, TypeOK
  <2> QED BY <2>2, <2>4, <2>5, <2>6, <2>7, <2>8
<1>2. CASE Claimable(d)
  <2>1. /\ phase[r] \in {"loop", "reset"} /\ status[d] = "PENDING" /\ attempt[d] < MaxAttempts
    BY <1>2 DEF Claim, InHand, Claimable, RoomOK
  <2>2. /\ status' = [status EXCEPT ![d] = "PROCESSING"]
        /\ attempt' = [attempt EXCEPT ![d] = attempt[d] + 1]
        /\ tried' = [tried EXCEPT ![r] = attempt[d] + 1]
        /\ phase' = [phase EXCEPT ![r] = "claimed"]
        /\ current' = [current EXCEPT ![r] = d]
        /\ todo' = [todo EXCEPT ![r] = @ \ {d}]
        /\ UNCHANGED <<answer, retries, held, due, crashes, read, books, ledger, overruled, firm>>
    BY <1>2 DEF Claim, NextAttempt
  <2>3. attempt[d] \in 0..MaxAttempts /\ attempt[d] + 1 \in Attempts
    BY <2>1, BoundsAssumption DEF TypeOK, Attempts
  <2>4. TypeOK'
    BY <2>2, <2>3 DEF TypeOK, Attempts, Statuses, Phases
  <2>5. RunsOK'
    BY <2>2, <2>3 DEF RunsOK, TypeOK
  <2>6. RoomOK' /\ BooksOK'
    BY <2>1, <2>2, <2>3, BoundsAssumption DEF RoomOK, BooksOK, TypeOK, Attempts
  <2>7. /\ books[d][attempt[d] + 1] = "none"
        /\ \A q \in Runs : Holds(q, d) => q # r /\ tried[q] < attempt[d] + 1
    BY <2>1, <2>3, BoundsAssumption DEF BooksOK, TriesOK, TypeOK, Holds, Attempts
  <2>8. TriesOK'
    BY <2>1, <2>2, <2>3, <2>7, BoundsAssumption DEF TriesOK, Holds, TypeOK, Attempts
  <2>9. AnswersOK'
    BY <2>1, <2>2 DEF AnswersOK, Holds, TypeOK
  <2>10. HoldersOK'
    BY <2>1, <2>2 DEF HoldersOK, Unsettled, TypeOK
  <2>11. SentOK'
    BY <2>1, <2>2 DEF SentOK, TypeOK
  <2>12. LedgerOK'
    BY <2>1, <2>2, <2>3, BoundsAssumption DEF LedgerOK, TypeOK, Attempts
  <2>13. FirmOK'
    BY <2>1, <2>2, RunsAssumption DEF FirmOK, TypeOK, InHand, Claim
  <2> QED BY <2>4, <2>5, <2>6, <2>8, <2>9, <2>10, <2>11, <2>12, <2>13
<1> QED BY <1>1, <1>2

\* A new row owes nothing yet and no run has it.
LEMMA CreateKeeps ==
  ASSUME DisbursementsInv, NEW d \in Payouts, Create(d)
  PROVE  DisbursementsInv'
<1> USE DEF DisbursementsInv
<1>1. /\ status[d] = "NONE" /\ status' = [status EXCEPT ![d] = "PENDING"]
      /\ UNCHANGED <<attempt, retries, held, due, phase, todo, current, tried, answer, crashes,
                     read, books, ledger, overruled, firm>>
  BY DEF Create, runVars
<1>2. TypeOK'
  BY <1>1 DEF TypeOK, Statuses
<1>3. RoomOK' /\ FirmOK'
  BY <1>1, BoundsAssumption DEF RoomOK, FirmOK, TypeOK
<1>4. RunsOK' /\ BooksOK' /\ TriesOK' /\ AnswersOK' /\ LedgerOK'
  BY <1>1 DEF RunsOK, BooksOK, TriesOK, AnswersOK, LedgerOK, Holds
<1>5. HoldersOK' /\ SentOK'
  BY <1>1 DEF HoldersOK, SentOK, Unsettled, TypeOK
<1> QED BY <1>2, <1>3, <1>4, <1>5

\* Becoming due and holds touch neither the status nor any run.
LEMMA RowStepKeeps ==
  ASSUME DisbursementsInv, NEW d \in Payouts, BecomeDue(d) \/ HoldPayout(d) \/ EndHold(d)
  PROVE  DisbursementsInv'
<1> USE DEF DisbursementsInv
<1>1. UNCHANGED <<status, attempt, retries, phase, todo, current, tried, answer, crashes,
                  read, books, ledger, overruled>>
  BY DEF BecomeDue, HoldPayout, EndHold, runVars
<1>2. TypeOK'
  BY <1>1 DEF TypeOK, BecomeDue, HoldPayout, EndHold
<1>3. RunsOK' /\ RoomOK' /\ BooksOK' /\ TriesOK' /\ AnswersOK' /\ HoldersOK' /\ SentOK' /\ LedgerOK'
  BY <1>1 DEF RunsOK, RoomOK, BooksOK, TriesOK, AnswersOK, HoldersOK, SentOK, LedgerOK, Holds, Unsettled
<1>4. FirmOK'
  <2>1. CASE BecomeDue(d)
    BY <1>1, <2>1 DEF FirmOK, BecomeDue
  <2>2. CASE HoldPayout(d)
    BY <1>1, <2>2 DEF FirmOK, HoldPayout
  <2>3. CASE EndHold(d)
    BY <1>1, <2>3 DEF FirmOK, EndHold
  <2> QED BY <2>1, <2>2, <2>3
<1> QED BY <1>2, <1>3, <1>4

\* Reading is harmless; it is the write that follows that is blind.
LEMMA ReadFailedKeeps ==
  ASSUME DisbursementsInv, NEW a \in Admins, NEW d \in Payouts, ReadFailed(a, d)
  PROVE  DisbursementsInv'
<1> USE DEF DisbursementsInv
<1>1. /\ read' = [read EXCEPT ![a] = d]
      /\ UNCHANGED <<status, attempt, retries, held, due, phase, todo, current, tried, answer,
                     crashes, books, ledger, overruled, firm>>
  BY DEF ReadFailed, rowVars, runVars
<1>2. TypeOK'
  BY <1>1 DEF TypeOK
<1> QED
  BY <1>1, <1>2 DEF RunsOK, RoomOK, BooksOK, TriesOK, AnswersOK, HoldersOK, SentOK, LedgerOK,
                    FirmOK, Holds, Unsettled

\* The blind write. If the row was FAILED nothing of it was under way or sent;
\* otherwise the payout is overruled.
LEMMA WriteRetryKeeps ==
  ASSUME DisbursementsInv, NEW a \in Admins, WriteRetry(a)
  PROVE  DisbursementsInv'
<1> DEFINE d == read[a]
<1> USE DEF DisbursementsInv
<1>1. /\ d \in Payouts /\ attempt[d] < MaxAttempts
      /\ status' = [status EXCEPT ![d] = "PENDING"]
      /\ retries' = [retries EXCEPT ![d] = @ + 1]
      /\ read' = [read EXCEPT ![a] = Nothing]
      /\ overruled \subseteq overruled' /\ overruled' \subseteq overruled \cup {d}
      /\ d \notin overruled' => status[d] = "FAILED"
      /\ UNCHANGED <<attempt, held, due, phase, todo, current, tried, answer, crashes, books,
                     ledger, firm>>
  BY DEF WriteRetry, runVars, TypeOK
<1>2. TypeOK'
  BY <1>1 DEF TypeOK, Statuses
<1>3. RoomOK' /\ FirmOK'
  BY <1>1 DEF RoomOK, FirmOK, TypeOK
<1>4. RunsOK' /\ BooksOK' /\ TriesOK' /\ AnswersOK' /\ LedgerOK'
  BY <1>1 DEF RunsOK, BooksOK, TriesOK, AnswersOK, LedgerOK, Holds
<1>5. HoldersOK' /\ SentOK'
  BY <1>1 DEF HoldersOK, SentOK, Unsettled, TypeOK
<1> QED BY <1>2, <1>3, <1>4, <1>5

\* An accepted attempt stays accepted or comes back.
LEMMA ResolveKeeps ==
  ASSUME DisbursementsInv, NEW d \in Payouts, NEW n \in Attempts, Resolve(d, n)
  PROVE  DisbursementsInv'
<1> USE DEF DisbursementsInv
<1>1. PICK entry \in {"paid", "refused"} : books' = [books EXCEPT ![d][n] = entry]
  BY DEF Resolve
<1>2. /\ books[d][n] = "open"
      /\ UNCHANGED <<status, attempt, retries, held, due, phase, todo, current, tried, answer,
                     crashes, read, ledger, overruled, firm>>
  BY DEF Resolve, rowVars, runVars
<1>3. TypeOK'
  BY <1>1, <1>2 DEF TypeOK, BookStates
<1>4. RunsOK' /\ RoomOK' /\ HoldersOK' /\ FirmOK'
  BY <1>2 DEF RunsOK, RoomOK, HoldersOK, FirmOK, Unsettled
<1>5. \A e \in Payouts, k \in Attempts : 
        books'[e][k] = books[e][k] \/ (e = d /\ k = n /\ books'[e][k] = entry)
  BY <1>1 DEF TypeOK
<1>6. BooksOK' /\ SentOK'
  BY <1>2, <1>5 DEF BooksOK, SentOK
<1>7. TriesOK' /\ AnswersOK'
  BY <1>2, <1>5 DEF RunsOK, TriesOK, AnswersOK, Holds
<1>8. LedgerOK'
  BY <1>2, <1>5 DEF LedgerOK
<1> QED BY <1>3, <1>4, <1>6, <1>7, <1>8

\* A pass over the due payouts selects no held one, the retry pass only FAILED
\* rows: neither selects a payout under a firm hold.
LEMMA SelectKeeps ==
  ASSUME DisbursementsInv, NEW r \in Runs, Select(r)
  PROVE  DisbursementsInv'
<1> USE DEF DisbursementsInv
<1>1. PICK rows \in SUBSET Payouts :
        /\ r \in DueRuns => rows = Due
        /\ r \in RetryRuns => \A d \in rows : status[d] = "FAILED"
        /\ todo' = [todo EXCEPT ![r] = rows]
  BY DEF Select
<1>2. /\ phase[r] = "idle" /\ phase' = [phase EXCEPT ![r] = "loop"]
      /\ UNCHANGED <<status, attempt, retries, held, due, current, tried, answer, crashes, read,
                     books, ledger, overruled, firm>>
  BY DEF Select, rowVars
<1>3. TypeOK'
  BY <1>1, <1>2 DEF TypeOK, Phases
<1>4. RunsOK' /\ RoomOK' /\ BooksOK' /\ SentOK'
  BY <1>2 DEF RunsOK, RoomOK, BooksOK, SentOK, TypeOK
<1>5. TriesOK' /\ AnswersOK' /\ HoldersOK' /\ LedgerOK'
  BY <1>2 DEF TriesOK, AnswersOK, HoldersOK, LedgerOK, Holds, Unsettled, TypeOK
<1>6. FirmOK'
  <2>1. \A d \in firm : d \notin rows
    BY <1>1 DEF FirmOK, Due, Runs
  <2> QED BY <1>1, <1>2, <2>1 DEF FirmOK, TypeOK
<1> QED BY <1>3, <1>4, <1>5, <1>6

\* The reset starts from FAILED, so nothing of the payout was accepted.
LEMMA ResetKeeps ==
  ASSUME DisbursementsInv, NEW r \in Runs, NEW d \in Payouts, Reset(r, d)
  PROVE  DisbursementsInv'
<1> USE DEF DisbursementsInv
<1>1. /\ phase[r] = "loop" /\ d \in todo[r]
      /\ todo' = [todo EXCEPT ![r] = @ \ {d}]
      /\ UNCHANGED <<attempt, retries, held, due, tried, answer, crashes, read, books, ledger,
                     overruled, firm>>
  BY DEF Reset
<1>2. CASE Resettable(d) /\ attempt[d] < MaxAttempts
  <2>1. /\ status[d] = "FAILED"
        /\ status' = [status EXCEPT ![d] = "PENDING"]
        /\ phase' = [phase EXCEPT ![r] = "reset"]
        /\ current' = [current EXCEPT ![r] = d]
    BY <1>2 DEF Reset, Resettable
  <2>2. TypeOK'
    BY <1>1, <2>1 DEF TypeOK, Statuses, Phases
  <2>3. RunsOK' /\ RoomOK' /\ BooksOK'
    BY <1>1, <1>2, <2>1 DEF RunsOK, RoomOK, BooksOK, TypeOK
  <2>4. TriesOK' /\ AnswersOK' /\ LedgerOK'
    BY <1>1, <2>1 DEF TriesOK, AnswersOK, LedgerOK, Holds, TypeOK
  <2>5. HoldersOK' /\ SentOK'
    BY <1>1, <2>1 DEF HoldersOK, SentOK, Unsettled, TypeOK
  <2>6. FirmOK'
    BY <1>1, <2>1, RunsAssumption DEF FirmOK, TypeOK
  <2> QED BY <2>2, <2>3, <2>4, <2>5, <2>6
<1>3. CASE ~(Resettable(d) /\ attempt[d] < MaxAttempts)
  <2>1. UNCHANGED <<status, phase, current>>
    BY <1>3 DEF Reset
  <2>2. TypeOK' /\ FirmOK'
    BY <1>1, <2>1 DEF TypeOK, FirmOK
  <2>3. RunsOK' /\ RoomOK' /\ BooksOK' /\ TriesOK' /\ AnswersOK' /\ HoldersOK' /\ SentOK' /\ LedgerOK'
    BY <1>1, <2>1 DEF RunsOK, RoomOK, BooksOK, TriesOK, AnswersOK, HoldersOK, SentOK, LedgerOK,
                      Holds, Unsettled
  <2> QED BY <2>2, <2>3
<1> QED BY <1>2, <1>3

\* An attempt given up before it is sent was never accepted.
LEMMA FailPreconditionKeeps ==
  ASSUME DisbursementsInv, NEW r \in Runs, FailPrecondition(r)
  PROVE  DisbursementsInv'
<1> USE DEF DisbursementsInv
<1>1. /\ phase[r] = "claimed"
      /\ phase' = [phase EXCEPT ![r] = "answered"]
      /\ answer' = [answer EXCEPT ![r] = "refused"]
      /\ UNCHANGED <<status, attempt, retries, held, due, todo, current, tried, crashes, read,
                     books, ledger, overruled, firm>>
  BY DEF FailPrecondition, rowVars
<1>2. TypeOK'
  BY <1>1 DEF TypeOK, Phases, Answers
<1>3. RunsOK' /\ RoomOK' /\ BooksOK' /\ SentOK' /\ FirmOK'
  BY <1>1 DEF RunsOK, RoomOK, BooksOK, SentOK, FirmOK, TypeOK
<1>4. TriesOK' /\ AnswersOK' /\ HoldersOK' /\ LedgerOK'
  BY <1>1 DEF TriesOK, AnswersOK, HoldersOK, LedgerOK, Holds, Unsettled, TypeOK
<1> QED BY <1>2, <1>3, <1>4

\* The attempt is sent: only this run holds it, and the processor had no entry.
LEMMA SubmitKeeps ==
  ASSUME DisbursementsInv, NEW r \in Runs, Submit(r)
  PROVE  DisbursementsInv'
<1> DEFINE d == current[r]
           n == tried[r]
<1> USE DEF DisbursementsInv
<1>1. PICK entry \in BookStates, known \in Answers :
        /\ known \in AnswersTo(entry)
        /\ books' = [books EXCEPT ![d][n] = entry]
        /\ answer' = [answer EXCEPT ![r] = known]
  BY DEF Submit, AnswersTo, Answers, BookStates
<1>2. /\ phase[r] = "claimed"
      /\ phase' = [phase EXCEPT ![r] = "answered"]
      /\ UNCHANGED <<status, attempt, retries, held, due, todo, current, tried, crashes, read,
                     ledger, overruled, firm>>
  BY DEF Submit, rowVars
<1>3. d \in Payouts /\ n \in Attempts /\ Holds(r, d) /\ Unsettled(r, d)
  BY <1>2 DEF RunsOK, Holds, Unsettled
<1>4. /\ books[d][n] = "none" /\ n <= attempt[d]
      /\ \A q \in Runs : Holds(q, d) /\ tried[q] = n => q = r
  BY <1>2, <1>3 DEF TriesOK
<1>5. /\ books'[d][n] = entry
      /\ \A e \in Payouts, k \in Attempts : e # d \/ k # n => books'[e][k] = books[e][k]
  BY <1>1, <1>3 DEF TypeOK
<1>6. TypeOK'
  BY <1>1, <1>2, <1>3 DEF TypeOK, Phases
<1>7. RunsOK' /\ RoomOK' /\ FirmOK'
  BY <1>2 DEF RunsOK, RoomOK, FirmOK, TypeOK
<1>8. BooksOK'
  <2>1. SUFFICES ASSUME NEW e \in Payouts, NEW k \in Attempts, k > attempt[e]
                 PROVE  books'[e][k] = "none"
    BY <1>2 DEF BooksOK
  <2>2. attempt[e] \in 0..MaxAttempts /\ books[e][k] = "none" /\ k \in Nat /\ n \in Nat
    BY <2>1, <1>3 DEF BooksOK, TypeOK, Attempts
  <2>3. e # d \/ k # n
    BY <2>1, <2>2, <1>4
  <2> QED BY <2>2, <2>3, <1>5
<1>9. TriesOK'
  BY <1>2, <1>3, <1>4, <1>5 DEF TriesOK, RunsOK, Holds, TypeOK
<1>10. AnswersOK'
  BY <1>1, <1>2, <1>3, <1>4, <1>5 DEF AnswersOK, AnswersTo, RunsOK, Holds, TypeOK
<1>11. HoldersOK'
  BY <1>2 DEF HoldersOK, Unsettled, TypeOK
<1>12. SentOK'
  BY <1>2, <1>3, <1>5 DEF SentOK, HoldersOK, TypeOK
<1>13. LedgerOK'
  <2>1. ASSUME NEW e \in Payouts, ReleasedEvent(e) \in ledger
        PROVE  \E k \in Attempts : books'[e][k] = "paid"
    <3>1. PICK k \in Attempts : books[e][k] = "paid"
      BY <2>1 DEF LedgerOK
    <3> QED BY <3>1, <1>4, <1>5
  <2>2. ASSUME NEW e \in Payouts, NEW k \in Attempts, FailedEvent(e, k) \in ledger
        PROVE  /\ books'[e][k] \notin {"open", "paid"} /\ k <= attempt[e]
               /\ \A q \in Runs : ~(phase'[q] = "claimed" /\ current[q] = e /\ tried[q] = k)
    <3>1. /\ books[e][k] \notin {"open", "paid"} /\ k <= attempt[e]
          /\ \A q \in Runs : ~(phase[q] = "claimed" /\ current[q] = e /\ tried[q] = k)
      BY <2>2 DEF LedgerOK
    <3>2. e # d \/ k # n
      BY <3>1, <1>2
    <3>3. \A q \in Runs : phase'[q] = "claimed" => phase[q] = "claimed"
      BY <1>2 DEF TypeOK
    <3> QED BY <3>1, <3>2, <3>3, <1>5
  <2> QED BY <2>1, <2>2, <1>2 DEF LedgerOK
<1> QED BY <1>6, <1>7, <1>8, <1>9, <1>10, <1>11, <1>12, <1>13

\* Moving on only lets go of the row in hand.
LEMMA NextRowKeeps ==
  ASSUME DisbursementsInv, NEW r \in Runs, NextRow(r),
         UNCHANGED <<status, attempt, retries, held, due, todo, crashes, read, books, ledger,
                     overruled, firm>>
  PROVE  DisbursementsInv'
<1> USE DEF DisbursementsInv
<1>1. TypeOK'
  BY BoundsAssumption DEF TypeOK, NextRow, Phases, Answers
<1>2. RunsOK' /\ RoomOK' /\ BooksOK' /\ SentOK'
  BY DEF RunsOK, RoomOK, BooksOK, SentOK, NextRow, TypeOK
<1>3. TriesOK' /\ AnswersOK' /\ HoldersOK' /\ LedgerOK'
  BY DEF TriesOK, AnswersOK, HoldersOK, LedgerOK, Holds, Unsettled, NextRow, TypeOK
<1>4. FirmOK'
  BY RunsAssumption DEF FirmOK, NextRow, TypeOK
<1> QED BY <1>1, <1>2, <1>3, <1>4

\* The holder of an attempt that is not overruled is the only one, and writes
\* what the processor said of it.
LEMMA SettleKeeps ==
  ASSUME DisbursementsInv, NEW r \in Runs, Settle(r)
  PROVE  DisbursementsInv'
<1> DEFINE d == current[r]
           word == SettledWord(answer[r])
<1> USE DEF DisbursementsInv
<1>1. /\ phase[r] = "answered"
      /\ UNCHANGED <<attempt, retries, held, due, todo, crashes, read, books, ledger, overruled, firm>>
  BY DEF Settle
<1>2. d \in Payouts /\ tried[r] \in Attempts /\ Holds(r, d) /\ Unsettled(r, d)
  BY <1>1 DEF RunsOK, Holds, Unsettled
<1>3. CASE status[d] = "PROCESSING" /\ word # "PROCESSING"
  <2>1. /\ status' = [status EXCEPT ![d] = word]
        /\ phase' = [phase EXCEPT ![r] = "noting"]
        /\ UNCHANGED <<current, tried, answer>>
    BY <1>3 DEF Settle
  <2>2. \/ word = "RELEASED" /\ answer[r] = "paid"
        \/ /\ word = "FAILED" /\ answer[r] = "refused"
           /\ books[d][tried[r]] \notin {"open", "paid"}
    BY <1>1, <1>2, <1>3 DEF SettledWord, AnswersOK
  <2>3. \A q \in Runs : Holds(q, d) /\ tried[q] = tried[r] => q = r
    BY <1>2 DEF TriesOK
  <2>4. TypeOK'
    BY <1>1, <2>1, <2>2 DEF TypeOK, Statuses, Phases
  <2>5. RunsOK' /\ RoomOK' /\ BooksOK'
    BY <1>1, <1>3, <2>1, <2>2 DEF RunsOK, RoomOK, BooksOK, TypeOK
  <2>6. TriesOK' /\ AnswersOK'
    BY <1>1, <1>2, <2>1, <2>2 DEF TriesOK, AnswersOK, Holds, TypeOK
  <2>7. HoldersOK'
    BY <1>1, <1>2, <2>1, <2>3 DEF HoldersOK, Holds, Unsettled, TypeOK
  <2>8. SentOK'
    BY <1>1, <1>2, <2>1, <2>2 DEF SentOK, HoldersOK, TypeOK
  <2>9. LedgerOK'
    BY <1>1, <2>1 DEF LedgerOK, TypeOK
  <2>10. FirmOK'
    BY <1>1, <1>3, <2>1 DEF FirmOK, TypeOK
  <2> QED BY <2>4, <2>5, <2>6, <2>7, <2>8, <2>9, <2>10
<1>4. CASE ~(status[d] = "PROCESSING" /\ word # "PROCESSING")
  <2>1. NextRow(r) /\ UNCHANGED status
    BY <1>4 DEF Settle
  <2> QED BY <1>1, <2>1, NextRowKeeps
<1> QED BY <1>3, <1>4

\* Two ledger events are one only if they are about the same attempt.
LEMMA EventsDiffer ==
  ASSUME NEW d, NEW e, NEW n, NEW k
  PROVE  /\ ReleasedEvent(d) = ReleasedEvent(e) => d = e
         /\ FailedEvent(d, n) = FailedEvent(e, k) => d = e /\ n = k
         /\ ReleasedEvent(d) # FailedEvent(e, k)
BY DEF ReleasedEvent, FailedEvent

\* The event of an outcome is written by the run that knows it.
LEMMA NoteKeeps ==
  ASSUME DisbursementsInv, NEW r \in Runs, Note(r)
  PROVE  DisbursementsInv'
<1> DEFINE d == current[r]
           n == tried[r]
<1> USE DEF DisbursementsInv
<1>1. /\ phase[r] = "noting" /\ NextRow(r)
      /\ ledger' \in {ledger, ledger \cup {EventOf(r)}}
      /\ UNCHANGED <<status, attempt, retries, held, due, todo, crashes, read, books, overruled, firm>>
  BY DEF Note, rowVars
<1>2. d \in Payouts /\ n \in Attempts /\ Holds(r, d)
  BY <1>1 DEF RunsOK, Holds
<1>3. \/ EventOf(r) = ReleasedEvent(d) /\ books[d][n] = "paid"
      \/ EventOf(r) = FailedEvent(d, n) /\ books[d][n] \notin {"open", "paid"}
  BY <1>1, <1>2 DEF EventOf, AnswersOK
<1>4. /\ n <= attempt[d]
      /\ \A q \in Runs : ~(phase[q] = "claimed" /\ current[q] = d /\ tried[q] = n)
  BY <1>1, <1>2 DEF TriesOK, Holds
<1>5. ledger' \subseteq LedgerEvents
  BY <1>1, <1>2, <1>3 DEF LedgerEvents, TypeOK
<1>6. TypeOK'
  BY <1>1, <1>5, BoundsAssumption DEF TypeOK, NextRow, Phases, Answers
<1>7. RunsOK' /\ RoomOK' /\ BooksOK' /\ SentOK'
  BY <1>1 DEF RunsOK, RoomOK, BooksOK, SentOK, NextRow, TypeOK
<1>8. TriesOK' /\ AnswersOK' /\ HoldersOK'
  BY <1>1 DEF TriesOK, AnswersOK, HoldersOK, Holds, Unsettled, NextRow, TypeOK
<1>9. LedgerOK'
  <2>1. \A e \in Payouts, k \in Attempts, q \in Runs :
          phase'[q] = "claimed" /\ current'[q] = e /\ tried'[q] = k
            => phase[q] = "claimed" /\ current[q] = e /\ tried[q] = k
    BY <1>1 DEF NextRow, TypeOK
  <2>2. ASSUME NEW e \in Payouts, ReleasedEvent(e) \in ledger'
        PROVE  \E k \in Attempts : books'[e][k] = "paid"
    BY <1>1, <1>2, <1>3, <2>2, EventsDiffer DEF LedgerOK
  <2>3. ASSUME NEW e \in Payouts, NEW k \in Attempts, FailedEvent(e, k) \in ledger'
        PROVE  /\ books'[e][k] \notin {"open", "paid"} /\ k <= attempt'[e]
               /\ \A q \in Runs : ~(phase'[q] = "claimed" /\ current'[q] = e /\ tried'[q] = k)
    BY <1>1, <1>2, <1>3, <1>4, <2>1, <2>3, EventsDiffer DEF LedgerOK
  <2> QED BY <2>2, <2>3 DEF LedgerOK
<1>10. FirmOK'
  BY <1>1, RunsAssumption DEF FirmOK, NextRow, TypeOK
<1> QED BY <1>6, <1>7, <1>8, <1>9, <1>10

\* A run that ends, or dies, lets go of everything.
LEMMA EndRunKeeps ==
  ASSUME DisbursementsInv, NEW r \in Runs, EndRun(r), crashes' \in Nat,
         UNCHANGED <<rowVars, read, books, ledger, overruled, firm>>
  PROVE  DisbursementsInv'
<1> USE DEF DisbursementsInv
<1>1. UNCHANGED <<status, attempt, retries, held, due>>
  BY DEF rowVars
<1>2. TypeOK'
  BY <1>1, BoundsAssumption DEF TypeOK, EndRun, Phases, Answers
<1>3. RunsOK' /\ RoomOK' /\ BooksOK' /\ SentOK'
  BY <1>1 DEF RunsOK, RoomOK, BooksOK, SentOK, EndRun, TypeOK
<1>4. TriesOK' /\ AnswersOK' /\ HoldersOK' /\ LedgerOK'
  BY <1>1 DEF TriesOK, AnswersOK, HoldersOK, LedgerOK, Holds, Unsettled, EndRun, TypeOK
<1>5. FirmOK'
  BY <1>1, RunsAssumption DEF FirmOK, EndRun, TypeOK
<1> QED BY <1>2, <1>3, <1>4, <1>5

(***************************************************************************)
(* The invariant and what follows from it.                                  *)
(***************************************************************************)
\* At the start there is no row, no attempt and no run.
LEMMA InitInv == Init => DisbursementsInv
<1> SUFFICES ASSUME Init PROVE DisbursementsInv
  OBVIOUS
<1> USE DEF Init
<1>1. TypeOK
  BY BoundsAssumption DEF TypeOK, Statuses, Phases, Answers, BookStates
<1>2. RunsOK /\ RoomOK /\ BooksOK
  BY DEF RunsOK, RoomOK, BooksOK
<1>3. TriesOK /\ AnswersOK /\ HoldersOK
  BY DEF TriesOK, AnswersOK, HoldersOK, Holds, Unsettled
<1>4. SentOK /\ LedgerOK /\ FirmOK
  BY DEF SentOK, LedgerOK, FirmOK
<1> QED BY <1>1, <1>2, <1>3, <1>4 DEF DisbursementsInv

\* Every step of every actor, or none, keeps it.
LEMMA StepInv == DisbursementsInv /\ [Next]_vars => DisbursementsInv'
<1> SUFFICES ASSUME DisbursementsInv, [Next]_vars PROVE DisbursementsInv'
  OBVIOUS
<1>1. CASE UNCHANGED vars
  BY <1>1 DEF vars, rowVars, runVars, DisbursementsInv, TypeOK, RunsOK, RoomOK, BooksOK, TriesOK,
              AnswersOK, HoldersOK, SentOK, LedgerOK, FirmOK, Holds, Unsettled
<1>2. ASSUME NEW d \in Payouts,
             \/ Create(d) \/ BecomeDue(d) \/ HoldPayout(d) \/ EndHold(d)
             \/ \E a \in Admins : ReadFailed(a, d)
             \/ \E n \in Attempts : Resolve(d, n)
      PROVE  DisbursementsInv'
  BY <1>2, CreateKeeps, RowStepKeeps, ReadFailedKeeps, ResolveKeeps
<1>3. ASSUME NEW a \in Admins, WriteRetry(a)
      PROVE  DisbursementsInv'
  BY <1>3, WriteRetryKeeps
<1>4. ASSUME NEW r \in Runs, Select(r) \/ FailPrecondition(r) \/ Submit(r) \/ Settle(r) \/ Note(r)
      PROVE  DisbursementsInv'
  BY <1>4, SelectKeeps, FailPreconditionKeeps, SubmitKeeps, SettleKeeps, NoteKeeps
<1>5. ASSUME NEW r \in Runs, NEW d \in Payouts, Reset(r, d) \/ Claim(r, d)
      PROVE  DisbursementsInv'
  BY <1>5, ResetKeeps, ClaimKeeps
<1>6. ASSUME NEW r \in Runs, FinishRun(r) \/ Crash(r)
      PROVE  DisbursementsInv'
  <2>1. /\ EndRun(r) /\ crashes' \in Nat
        /\ UNCHANGED <<rowVars, read, books, ledger, overruled, firm>>
    BY <1>6 DEF FinishRun, Crash, DisbursementsInv, TypeOK
  <2> QED BY <2>1, EndRunKeeps
<1> QED BY <1>1, <1>2, <1>3, <1>4, <1>5, <1>6 DEF Next, Proceed

\* Whatever the passes, admins, crashes and the processor do, who holds which
\* attempt, what was sent and what the row says agree.
THEOREM DisbursementsInvariant == Spec => []DisbursementsInv
<1> QED BY InitInv, StepInv, PTL DEF Spec

\* Every row, run and ledger entry keeps its form.
THEOREM TypeCorrect == Spec => []TypeOK
<1>1. DisbursementsInv => TypeOK
  BY DEF DisbursementsInv
<1> QED BY <1>1, DisbursementsInvariant, PTL

\* releaseDisbursement sends money at most once: two accepted attempts would
\* both be the row's latest.
THEOREM PaysOnce == Spec => []PaidOnce
<1>1. DisbursementsInv => PaidOnce
  BY DEF DisbursementsInv, SentOK, PaidOnce, Accepted
<1> QED BY <1>1, DisbursementsInvariant, PTL

\* A row that may be claimed or retried has had no attempt accepted.
THEOREM SendsTheUnsent == Spec => []SendableMeansUnsent
<1>1. DisbursementsInv => SendableMeansUnsent
  BY DEF DisbursementsInv, SentOK, SendableMeansUnsent, Accepted
<1> QED BY <1>1, DisbursementsInvariant, PTL

\* The ledger records no release that was not paid, and no failure of an attempt
\* that was accepted, not even of an overruled payout.
THEOREM LedgerIsTrue == Spec => []LedgerTellsTheTruth
<1>1. DisbursementsInv => LedgerTellsTheTruth
  BY DEF DisbursementsInv, LedgerOK, LedgerTellsTheTruth, Accepted
<1> QED BY <1>1, DisbursementsInvariant, PTL

\* Only Submit and the processor write its books, and Submit writes an entry that
\* was empty: an Idempotency-Key is never sent twice.
THEOREM KeysStayFresh == Spec => KeysAreFresh
<1> DEFINE Fresh == \A d \in Payouts, n \in Attempts :
                      books[d][n] # "none" => books'[d][n] = books[d][n] \/ books[d][n] = "open"
<1>1. DisbursementsInv /\ [Next]_vars => [Fresh]_vars
  <2> SUFFICES ASSUME DisbursementsInv, [Next]_vars PROVE Fresh \/ UNCHANGED vars
    OBVIOUS
  <2>1. CASE UNCHANGED vars
    BY <2>1
  <2>2. CASE UNCHANGED books
    BY <2>2
  <2>3. ASSUME NEW d \in Payouts, NEW n \in Attempts, Resolve(d, n)
        PROVE  Fresh
    BY <2>3 DEF Resolve, DisbursementsInv, TypeOK
  <2>4. ASSUME NEW r \in Runs, Submit(r)
        PROVE  Fresh
    <3>1. current[r] \in Payouts /\ books[current[r]][tried[r]] = "none"
      BY <2>4 DEF Submit, DisbursementsInv, RunsOK, TriesOK, Holds
    <3>2. PICK entry \in BookStates : books' = [books EXCEPT ![current[r]][tried[r]] = entry]
      BY <2>4 DEF Submit
    <3> QED BY <3>1, <3>2 DEF DisbursementsInv, TypeOK
  <2>5. CASE Next
    <3>1. \/ UNCHANGED books
          \/ \E d \in Payouts, n \in Attempts : Resolve(d, n)
          \/ \E r \in Runs : Submit(r)
      BY <2>5 DEF Next, Proceed, Create, BecomeDue, HoldPayout, EndHold, ReadFailed, WriteRetry,
                  Select, Reset, Claim, FailPrecondition, Settle, Note, FinishRun, Crash
    <3> QED BY <3>1, <2>2, <2>3, <2>4
  <2> QED BY <2>1, <2>5
<1> QED BY <1>1, DisbursementsInvariant, PTL DEF Spec, KeysAreFresh

\* holdPayout stops a payout that no pass has in hand: it stays PENDING until the
\* hold ends.
THEOREM FirmHoldsStop == Spec => FirmHoldStops
<1>1. DisbursementsInv /\ DisbursementsInv' => [\A d \in firm \cap firm' : status'[d] = "PENDING"]_vars
  BY DEF DisbursementsInv, FirmOK
<1> QED BY <1>1, DisbursementsInvariant, PTL DEF FirmHoldStops

(***************************************************************************)
(* Disbursements implements PayoutMachine. What was sent is the row's last   *)
(* attempt (SentOK), so there is at most one of it: where a payout stands    *)
(* depends on its word, on that attempt's entry and on nothing else.         *)
(***************************************************************************)
\* Attempts and entries that stand still leave a payout where it is, whatever
\* word the row gets, short of RELEASED.
LEMMA StandsStill ==
  ASSUME NEW d \in Payouts, books'[d] = books[d], d \in overruled' <=> d \in overruled,
         d \notin overruled => (status'[d] = "RELEASED" <=> status[d] = "RELEASED")
  PROVE  StandingOf(d)' = StandingOf(d)
<1>1. Accepted(d)' = Accepted(d)
  BY DEF Accepted
<1>2. (\E n \in Attempts : books'[d][n] = "paid") <=> \E n \in Attempts : books[d][n] = "paid"
  OBVIOUS
<1>3. CASE d \in overruled
  BY <1>3 DEF StandingOf
<1>4. CASE d \notin overruled
  <2> DEFINE twice == \E m, n \in Accepted(d) : m # n
             paid == \E n \in Attempts : books[d][n] = "paid"
             some == Accepted(d) # {}
             released == status[d] = "RELEASED"
             word == IF twice THEN "sent twice" ELSE IF released THEN "released"
                     ELSE IF paid THEN "arrived" ELSE IF some THEN "sent" ELSE "owed"
  <2>1. (twice' <=> twice) /\ (paid' <=> paid) /\ (some' <=> some) /\ (released' <=> released)
    BY <1>1, <1>2, <1>4
  <2>2. StandingOf(d) = word /\ StandingOf(d)' = word'
    BY <1>4 DEF StandingOf
  <2> HIDE DEF twice, paid, some, released
  <2> QED BY <2>1, <2>2
<1> QED BY <1>3, <1>4

LEMMA Stutters ==
  ASSUME UNCHANGED books, UNCHANGED overruled,
         \A d \in Payouts \ overruled : status'[d] = "RELEASED" <=> status[d] = "RELEASED"
  PROVE  UNCHANGED standings
<1>1. \A d \in Payouts : StandingOf(d)' = StandingOf(d)
  BY StandsStill
<1> QED BY <1>1 DEF standings

\* A step that moves one payout is that payout's move, if there is one.
LEMMA OneMoves ==
  ASSUME NEW d \in Payouts, \A e \in Payouts \ {d} : StandingOf(e)' = StandingOf(e)
  PROVE  standings' = [standings EXCEPT ![d] = StandingOf(d)'] /\ standings[d] = StandingOf(d)
BY DEF standings

\* At most one attempt is out, and none of a row that may be sent again.
LEMMA WhereItStands ==
  ASSUME DisbursementsInv, NEW d \in Payouts \ overruled
  PROVE  /\ ~\E m, n \in Accepted(d) : m # n
         /\ \A n \in Accepted(d) : n = attempt[d] /\ status[d] \in {"PROCESSING", "RELEASED"}
         /\ StandingOf(d) \in {"owed", "sent", "arrived", "released"}
         /\ Accepted(d) = {} /\ status[d] # "RELEASED" => StandingOf(d) = "owed"
<1>1. \A n \in Accepted(d) : n = attempt[d] /\ status[d] \in {"PROCESSING", "RELEASED"}
  BY DEF DisbursementsInv, SentOK, Accepted
<1> QED BY <1>1 DEF StandingOf, Accepted

\* Submit sends a payout of which nothing is out.
LEMMA SubmitMoves ==
  ASSUME DisbursementsInv, DisbursementsInv', NEW r \in Runs, Submit(r)
  PROVE  Machine!Next \/ UNCHANGED standings
<1>1. /\ phase[r] = "claimed" /\ UNCHANGED status /\ UNCHANGED overruled
  BY DEF Submit, rowVars
<1>2. PICK d \in Payouts, n \in Attempts :
        d = current[r] /\ n = tried[r] /\ Holds(r, d) /\ Unsettled(r, d)
  BY <1>1 DEF DisbursementsInv, RunsOK, Holds, Unsettled
<1>3. PICK entry \in BookStates : books' = [books EXCEPT ![d][n] = entry]
  BY <1>2 DEF Submit
<1>4. /\ \A e \in Payouts \ {d} : books'[e] = books[e]
      /\ \A k \in Attempts : books'[d][k] = IF k = n THEN entry ELSE books[d][k]
  BY <1>2, <1>3 DEF DisbursementsInv, TypeOK
<1>5. \A e \in Payouts \ {d} : StandingOf(e)' = StandingOf(e)
  BY <1>1, <1>4, StandsStill
<1>6. standings' = [standings EXCEPT ![d] = StandingOf(d)'] /\ standings[d] = StandingOf(d)
  BY <1>2, <1>5, OneMoves
<1>7. CASE d \in overruled
  <2>1. StandingOf(d)' = StandingOf(d)
    BY <1>1, <1>7 DEF StandingOf
  <2> QED BY <1>5, <2>1 DEF standings
<1>8. CASE d \notin overruled
  <2>1. status[d] = "PROCESSING" /\ books[d][n] = "none" /\ n = attempt[d]
    BY <1>1, <1>2, <1>8 DEF DisbursementsInv, HoldersOK, TriesOK
  <2>2. Accepted(d) = {}
    BY <1>2, <1>8, <2>1, WhereItStands DEF Accepted
  <2>3. StandingOf(d) = "owed"
    BY <1>2, <1>8, <2>1, <2>2, WhereItStands
  <2>4. Accepted(d)' = IF entry \in {"open", "paid"} THEN {n} ELSE {}
    BY <1>2, <1>4, <2>2 DEF Accepted
  <2>5. StandingOf(d)' = IF entry = "paid" THEN "arrived"
                         ELSE IF entry = "open" THEN "sent" ELSE "owed"
    <3>1. ~\E k \in Attempts : k # n /\ books'[d][k] = "paid"
      BY <1>4, <2>2 DEF Accepted
    <3>2. (\E k \in Attempts : books'[d][k] = "paid") <=> entry = "paid"
      BY <1>2, <1>4, <3>1
    <3> QED BY <1>1, <1>8, <2>1, <2>4, <3>2 DEF StandingOf
  <2>6. CASE entry = "paid"
    <3>1. Machine!Move(d, {"owed", "sent"}, "arrived")
      BY <1>6, <2>3, <2>5, <2>6 DEF Machine!Move
    <3> QED BY <1>2, <3>1 DEF Machine!Next
  <2>7. CASE entry = "open"
    <3>1. Machine!Move(d, {"owed"}, "sent")
      BY <1>6, <2>3, <2>5, <2>7 DEF Machine!Move
    <3> QED BY <1>2, <3>1 DEF Machine!Next
  <2>8. CASE entry \notin {"paid", "open"}
    BY <1>5, <2>3, <2>5, <2>8 DEF standings
  <2> QED BY <2>6, <2>7, <2>8
<1> QED BY <1>7, <1>8

\* The processor moves what was sent, one way or the other.
LEMMA ResolveMoves ==
  ASSUME DisbursementsInv, NEW d \in Payouts, NEW n \in Attempts, Resolve(d, n)
  PROVE  Machine!Next \/ UNCHANGED standings
<1>1. PICK entry \in {"paid", "refused"} : books' = [books EXCEPT ![d][n] = entry]
  BY DEF Resolve
<1>2. books[d][n] = "open" /\ UNCHANGED status /\ UNCHANGED overruled
  BY DEF Resolve, rowVars
<1>3. /\ \A e \in Payouts \ {d} : books'[e] = books[e]
      /\ \A k \in Attempts : books'[d][k] = IF k = n THEN entry ELSE books[d][k]
  BY <1>1 DEF DisbursementsInv, TypeOK
<1>4. \A e \in Payouts \ {d} : StandingOf(e)' = StandingOf(e)
  BY <1>2, <1>3, StandsStill
<1>5. standings' = [standings EXCEPT ![d] = StandingOf(d)'] /\ standings[d] = StandingOf(d)
  BY <1>4, OneMoves
<1>6. CASE d \in overruled
  <2>1. StandingOf(d)' = StandingOf(d)
    BY <1>2, <1>6 DEF StandingOf
  <2> QED BY <1>4, <2>1 DEF standings
<1>7. CASE d \notin overruled
  <2>1. Accepted(d) = {n}
    BY <1>2, <1>7, WhereItStands DEF Accepted
  <2>2. \A k \in Attempts \ {n} : books[d][k] \notin {"open", "paid"}
    BY <2>1 DEF Accepted
  <2>3. Accepted(d)' = IF entry = "paid" THEN {n} ELSE {}
    BY <1>3, <2>2 DEF Accepted
  <2>4. ~\E k \in Attempts : books[d][k] = "paid"
    BY <1>2, <2>2
  <2>5. (\E k \in Attempts : books'[d][k] = "paid") <=> entry = "paid"
    BY <1>3, <2>2
  <2>6. CASE status[d] = "RELEASED"
    <3>1. StandingOf(d) = "released" /\ StandingOf(d)' = "released"
      BY <1>2, <1>7, <2>1, <2>3, <2>6 DEF StandingOf
    <3> QED BY <1>4, <3>1 DEF standings
  <2>7. CASE status[d] # "RELEASED"
    <3>1. StandingOf(d) = "sent"
      BY <1>2, <1>7, <2>1, <2>4, <2>7 DEF StandingOf
    <3>2. StandingOf(d)' = IF entry = "paid" THEN "arrived" ELSE "owed"
      BY <1>2, <1>7, <2>3, <2>5, <2>7 DEF StandingOf
    <3>3. CASE entry = "paid"
      <4>1. Machine!Move(d, {"owed", "sent"}, "arrived")
        BY <1>5, <3>1, <3>2, <3>3 DEF Machine!Move
      <4> QED BY <4>1 DEF Machine!Next
    <3>4. CASE entry = "refused"
      <4>1. Machine!Move(d, {"sent"}, "owed")
        BY <1>5, <3>1, <3>2, <3>4 DEF Machine!Move
      <4> QED BY <4>1 DEF Machine!Next
    <3> QED BY <3>3, <3>4
  <2> QED BY <2>6, <2>7
<1> QED BY <1>6, <1>7

\* The word RELEASED is written of a payout that arrived.
LEMMA SettleMoves ==
  ASSUME DisbursementsInv, NEW r \in Runs, Settle(r)
  PROVE  Machine!Next \/ UNCHANGED standings
<1>1. phase[r] = "answered" /\ UNCHANGED books /\ UNCHANGED overruled
  BY DEF Settle
<1>2. PICK d \in Payouts : d = current[r] /\ tried[r] \in Attempts /\ Holds(r, d)
  BY <1>1 DEF DisbursementsInv, RunsOK, Holds
<1>3. CASE UNCHANGED status
  BY <1>1, <1>3, Stutters
<1>4. CASE ~UNCHANGED status
  <2>1. PICK word \in Statuses :
          /\ word = SettledWord(answer[r]) /\ word # "PROCESSING"
          /\ status[d] = "PROCESSING" /\ status' = [status EXCEPT ![d] = word]
    BY <1>2, <1>4 DEF Settle, SettledWord, Statuses
  <2>2. \/ word = "RELEASED" /\ books[d][tried[r]] = "paid"
        \/ word = "FAILED"
    BY <1>1, <1>2, <2>1 DEF SettledWord, DisbursementsInv, AnswersOK
  <2>3. status'[d] = word /\ \A e \in Payouts \ {d} : status'[e] = status[e]
    BY <1>2, <2>1 DEF DisbursementsInv, TypeOK
  <2>4. CASE word = "FAILED" \/ d \in overruled
    BY <1>1, <1>2, <2>1, <2>3, <2>4, Stutters
  <2>5. CASE word = "RELEASED" /\ d \notin overruled
    <3>1. \A e \in Payouts \ {d} : StandingOf(e)' = StandingOf(e)
      BY <1>1, <2>3, StandsStill
    <3>2. standings' = [standings EXCEPT ![d] = StandingOf(d)'] /\ standings[d] = StandingOf(d)
      BY <1>2, <3>1, OneMoves
    <3>3. ~\E m, n \in Accepted(d) : m # n
      BY <1>2, <2>5, WhereItStands
    <3>4. \E n \in Attempts : books[d][n] = "paid"
      BY <1>2, <2>2, <2>5
    <3>5. StandingOf(d) = "arrived"
      BY <2>1, <2>5, <3>3, <3>4 DEF StandingOf
    <3>6. StandingOf(d)' = "released"
      BY <1>1, <2>3, <2>5, <3>3 DEF StandingOf, Accepted
    <3>7. Machine!Move(d, {"arrived"}, "released")
      BY <3>2, <3>5, <3>6 DEF Machine!Move
    <3> QED BY <1>2, <3>7 DEF Machine!Next
  <2> QED BY <2>2, <2>4, <2>5
<1> QED BY <1>3, <1>4

\* An admin's blind write overrules, or finds a row of which nothing is out.
LEMMA RetryMoves ==
  ASSUME DisbursementsInv, NEW a \in Admins, WriteRetry(a)
  PROVE  Machine!Next \/ UNCHANGED standings
<1>1. PICK d \in Payouts :
      /\ status' = [status EXCEPT ![d] = "PENDING"]
      /\ overruled' = overruled \cup (IF status[d] = "FAILED" THEN {} ELSE {d})
      /\ UNCHANGED books
  BY DEF WriteRetry, DisbursementsInv, TypeOK
<1>2. status'[d] = "PENDING" /\ \A e \in Payouts \ {d} : status'[e] = status[e]
  BY <1>1 DEF DisbursementsInv, TypeOK
<1>3. \A e \in Payouts \ {d} : StandingOf(e)' = StandingOf(e)
  BY <1>1, <1>2, StandsStill
<1>4. standings' = [standings EXCEPT ![d] = StandingOf(d)'] /\ standings[d] = StandingOf(d)
  BY <1>1, <1>3, OneMoves
<1>5. CASE status[d] = "FAILED" \/ d \in overruled
  <2>1. StandingOf(d)' = StandingOf(d)
    BY <1>1, <1>2, <1>5, StandsStill
  <2> QED BY <1>3, <2>1 DEF standings
<1>6. CASE status[d] # "FAILED" /\ d \notin overruled
  <2>1. StandingOf(d)' = "overruled"
    BY <1>1, <1>6 DEF StandingOf
  <2>2. Machine!Move(d, {"owed", "sent", "arrived", "released"}, "overruled")
    BY <1>1, <1>4, <1>6, <2>1, WhereItStands DEF Machine!Move
  <2> QED BY <1>1, <2>2 DEF Machine!Next
<1> QED BY <1>5, <1>6

\* Creating, resetting and claiming write words that are not about the money.
LEMMA WordsOnly ==
  ASSUME DisbursementsInv,
         \/ \E d \in Payouts : Create(d)
         \/ \E r \in Runs, d \in Payouts : Reset(r, d) \/ Claim(r, d)
  PROVE  UNCHANGED standings
<1>1. UNCHANGED books /\ UNCHANGED overruled
  BY DEF Create, Reset, Claim
<1>2. CASE UNCHANGED status
  BY <1>1, <1>2, Stutters
<1>3. CASE ~UNCHANGED status
  <2>1. PICK d \in Payouts, word \in {"PENDING", "PROCESSING"} :
          status[d] \in {"NONE", "FAILED", "PENDING"} /\ status' = [status EXCEPT ![d] = word]
    BY <1>3 DEF Create, Reset, Claim, Resettable, Claimable
  <2>2. \A e \in Payouts : status'[e] = "RELEASED" <=> status[e] = "RELEASED"
    BY <2>1 DEF DisbursementsInv, TypeOK
  <2> QED BY <1>1, <2>2, Stutters
<1> QED BY <1>2, <1>3

LEMMA StepMoves ==
  ASSUME DisbursementsInv, DisbursementsInv', [Next]_vars
  PROVE  [Machine!Next]_standings
<1>1. CASE UNCHANGED <<status, books, overruled>>
  BY <1>1, Stutters
<1>2. ASSUME NEW r \in Runs, Submit(r) \/ Settle(r)
      PROVE  Machine!Next \/ UNCHANGED standings
  BY <1>2, SubmitMoves, SettleMoves
<1>3. ASSUME NEW d \in Payouts, NEW n \in Attempts, Resolve(d, n)
      PROVE  Machine!Next \/ UNCHANGED standings
  BY <1>3, ResolveMoves
<1>4. ASSUME NEW a \in Admins, WriteRetry(a)
      PROVE  Machine!Next \/ UNCHANGED standings
  BY <1>4, RetryMoves
<1>5. ASSUME \/ \E d \in Payouts : Create(d)
             \/ \E r \in Runs, d \in Payouts : Reset(r, d) \/ Claim(r, d)
      PROVE  UNCHANGED standings
  BY <1>5, WordsOnly
<1>6. \/ UNCHANGED <<status, books, overruled>>
      \/ \E r \in Runs : Submit(r) \/ Settle(r)
      \/ \E d \in Payouts, n \in Attempts : Resolve(d, n)
      \/ \E a \in Admins : WriteRetry(a)
      \/ \E d \in Payouts : Create(d)
      \/ \E r \in Runs, d \in Payouts : Reset(r, d) \/ Claim(r, d)
  BY DEF Next, Proceed, BecomeDue, HoldPayout, EndHold, ReadFailed, Select, FailPrecondition,
         Note, FinishRun, Crash, vars, rowVars
<1> QED BY <1>1, <1>2, <1>3, <1>4, <1>5, <1>6

\* Passes, retries, crashes, lost answers and admins together only ever do what
\* PayoutMachine allows: one transfer at a time, nothing after it arrived, and
\* released only once it did.
THEOREM RefinesPayout == Spec => ImplementsMachine
<1>1. Init => Machine!Init
  <2> SUFFICES ASSUME Init PROVE Machine!Init
    OBVIOUS
  <2>1. \A d \in Payouts : StandingOf(d) = "owed"
    BY DEF Init, StandingOf, Accepted
  <2> QED BY <2>1 DEF standings, Machine!Init
<1>2. DisbursementsInv /\ DisbursementsInv' /\ [Next]_vars => [Machine!Next]_standings
  BY StepMoves
<1> QED BY <1>1, <1>2, DisbursementsInvariant, PTL DEF Spec, ImplementsMachine, Machine!Spec
=============================================================================
