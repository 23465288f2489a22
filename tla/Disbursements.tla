--------------------------- MODULE Disbursements ---------------------------
(***************************************************************************)
(* Payouts to providers (services/disbursement.service.ts and the payout    *)
(* operations of services/adminFinanceService.ts).                          *)
(*                                                                         *)
(* A run is one pass of a batch: the hourly job and the admin's trigger     *)
(* release what is due, the six-hour job resets what failed and releases    *)
(* it. A run selects its rows once and then works through them, one         *)
(* statement or one processor call at a time:                               *)
(*                                                                         *)
(*   idle --Select--> loop --Claim--> claimed --Submit--> answered          *)
(*        --Settle--> noting --Note--> loop ...  (retry: --Reset--> reset)  *)
(*                                                                         *)
(* The processor keeps its own books, keyed by the Idempotency-Key of each  *)
(* attempt, and its answer may be lost or may say only "pending".           *)
(***************************************************************************)
EXTENDS Naturals, FiniteSets

CONSTANTS
  Payouts,      \* bookings that will owe a payout: one disbursements row each
  DueRuns,      \* passes of processPendingDisbursements
  RetryRuns,    \* passes of retryFailedDisbursements
  Timers,       \* the runs a timer starts; an admin triggers the others
  Admins,       \* retryPayout requests in flight
  MaxRetries,   \* PAYOUT_MAX_RETRIES
  MaxAttempts,  \* bound: attempts per payout
  MaxCrashes,   \* bound: runs that die
  Nothing

Runs == DueRuns \cup RetryRuns
Attempts == 1..MaxAttempts

ASSUME RunsAssumption == 
  DueRuns \cap RetryRuns = {} /\ Timers \subseteq Runs /\ Nothing \notin Payouts
ASSUME BoundsAssumption == MaxRetries \in Nat /\ MaxAttempts \in Nat \ {0} /\ MaxCrashes \in Nat

VARIABLES
  status,     \* disbursements.status, "NONE" before the row exists
  attempt,    \* payout_attempt
  retries,    \* retry_count
  held,       \* payouts with a hold in force
  due,        \* payouts whose 72 hours are over
  phase,      \* where each run is
  todo,       \* the rows it selected and has not come to
  current,    \* the row in hand
  tried,      \* the attempt it claimed
  answer,     \* what it knows of that attempt
  read,       \* the FAILED row each retryPayout request has read
  books,      \* the processor's record of each attempt
  ledger,     \* finance_ledger_events about payouts
  crashes,
  overruled,  \* history: payouts whose row was not FAILED when retryPayout wrote
  firm        \* history: payouts held while no run had selected them

rowVars == <<status, attempt, retries, held, due>>
runVars == <<phase, todo, current, tried, answer, crashes>>
vars == <<rowVars, runVars, read, books, ledger, overruled, firm>>

Statuses == {"NONE", "PENDING", "PROCESSING", "RELEASED", "FAILED"}
Phases == {"idle", "loop", "reset", "claimed", "answered", "noting"}

\* What the caller learns: done, under way, definitely not done, no idea.
Answers == {"none", "paid", "pending", "refused", "unknown"}

\* What the processor did with an attempt: nothing, accepted it, moved the
\* money, or turned it down.
BookStates == {"none", "open", "paid", "refused"}

Accepted(d) == {n \in Attempts : books[d][n] \in {"open", "paid"}}

ReleasedEvent(d) == <<"PROVIDER_PAYOUT_RELEASED", d, 0>>
FailedEvent(d, n) == <<"PROVIDER_PAYOUT_FAILED", d, n>>
LedgerEvents ==
  {ReleasedEvent(d) : d \in Payouts} \cup {FailedEvent(d, n) : d \in Payouts, n \in Attempts}

(***************************************************************************)
(* The row, apart from the runs.                                            *)
(***************************************************************************)
\* createDisbursement on completion. ON CONFLICT DO NOTHING: a second
\* completion finds the row.
Create(d) ==
  /\ status[d] = "NONE"
  /\ status' = [status EXCEPT ![d] = "PENDING"]
  /\ UNCHANGED <<attempt, retries, held, due, runVars, read, books, ledger, overruled, firm>>

\* PROVIDER_RELEASE_HOURS have passed since the job was completed.
BecomeDue(d) ==
  /\ status[d] # "NONE"
  /\ d \notin due
  /\ due' = due \cup {d}
  /\ UNCHANGED <<status, attempt, retries, held, runVars, read, books, ledger, overruled, firm>>

\* holdPayout: only a PENDING row can be held.
HoldPayout(d) ==
  /\ status[d] = "PENDING"
  /\ held' = held \cup {d}
  /\ firm' = firm \cup (IF \E r \in Runs : d \in todo[r] \cup {current[r]} THEN {} ELSE {d})
  /\ UNCHANGED <<status, attempt, retries, due, runVars, read, books, ledger, overruled>>

\* releasePayoutHold, or hold_until passing. Neither looks at the status.
EndHold(d) ==
  /\ d \in held
  /\ held' = held \ {d}
  /\ firm' = firm \ {d}
  /\ UNCHANGED <<status, attempt, retries, due, runVars, read, books, ledger, overruled>>

\* retryPayout reads the row, and later writes it without looking again.
ReadFailed(a, d) ==
  /\ read[a] = Nothing
  /\ status[d] = "FAILED"
  /\ retries[d] < MaxRetries
  /\ read' = [read EXCEPT ![a] = d]
  /\ UNCHANGED <<rowVars, runVars, books, ledger, overruled, firm>>

WriteRetry(a) ==
  LET d == read[a]
  IN  /\ d # Nothing
      /\ attempt[d] < MaxAttempts
      /\ status' = [status EXCEPT ![d] = "PENDING"]
      /\ retries' = [retries EXCEPT ![d] = @ + 1]
      /\ read' = [read EXCEPT ![a] = Nothing]
      /\ overruled' = overruled \cup (IF status[d] = "FAILED" THEN {} ELSE {d})
      /\ UNCHANGED <<attempt, held, due, runVars, books, ledger, firm>>

(***************************************************************************)
(* A run.                                                                   *)
(***************************************************************************)
\* On to the next row of the loop.
NextRow(r) ==
  /\ phase' = [phase EXCEPT ![r] = "loop"]
  /\ current' = [current EXCEPT ![r] = Nothing]
  /\ tried' = [tried EXCEPT ![r] = 0]
  /\ answer' = [answer EXCEPT ![r] = "none"]

\* The due-and-not-held query.
DueIgnoringHolds == {d \in due : status[d] = "PENDING"}
DueUntried == {d \in due : status[d] = "PENDING" /\ d \notin held /\ attempt[d] = 0}
Due == {d \in due : status[d] = "PENDING" /\ d \notin held}

\* The retry job's window (6 hours since the last write, 7 days since creation)
\* decides which failed rows it sees; holds play no part.
Select(r) ==
  /\ phase[r] = "idle"
  /\ \E rows \in SUBSET Payouts :
       /\ r \in DueRuns => rows = Due
       /\ r \in RetryRuns => \A d \in rows : status[d] = "FAILED"
       /\ rows # {}
       /\ todo' = [todo EXCEPT ![r] = rows]
  /\ phase' = [phase EXCEPT ![r] = "loop"]
  /\ UNCHANGED <<rowVars, current, tried, answer, crashes, read, books, ledger, overruled, firm>>

\* UPDATE ... SET status = 'PENDING' WHERE status = 'FAILED'.
ResettableBlindly(d) == status[d] # "RELEASED"
Resettable(d) == status[d] = "FAILED"

Reset(r, d) ==
  /\ r \in RetryRuns
  /\ phase[r] = "loop"
  /\ d \in todo[r]
  /\ todo' = [todo EXCEPT ![r] = @ \ {d}]
  /\ IF Resettable(d) /\ attempt[d] < MaxAttempts
     THEN /\ status' = [status EXCEPT ![d] = "PENDING"]
          /\ phase' = [phase EXCEPT ![r] = "reset"]
          /\ current' = [current EXCEPT ![r] = d]
     ELSE UNCHANGED <<status, phase, current>>
  /\ UNCHANGED <<attempt, retries, held, due, tried, answer, crashes, read, books, ledger, overruled, firm>>

\* The row this run would release now.
InHand(r, d) ==
  \/ r \in DueRuns /\ phase[r] = "loop" /\ d \in todo[r]
  \/ r \in RetryRuns /\ phase[r] = "reset" /\ d = current[r]

\* UPDATE ... SET status = 'PROCESSING', payout_attempt + 1 WHERE status =
\* 'PENDING'. The hold is not looked at again.
ClaimableAgain(d) == status[d] \in {"PENDING", "PROCESSING"} /\ attempt[d] < MaxAttempts
Claimable(d) == status[d] = "PENDING"

NextAttemptSame(d) == IF attempt[d] = 0 THEN 1 ELSE attempt[d]
NextAttempt(d) == attempt[d] + 1

Claim(r, d) ==
  /\ InHand(r, d)
  /\ todo' = [todo EXCEPT ![r] = @ \ {d}]
  /\ IF Claimable(d)
     THEN /\ status' = [status EXCEPT ![d] = "PROCESSING"]
          /\ attempt' = [attempt EXCEPT ![d] = NextAttempt(d)]
          /\ tried' = [tried EXCEPT ![r] = NextAttempt(d)]
          /\ phase' = [phase EXCEPT ![r] = "claimed"]
          /\ current' = [current EXCEPT ![r] = d]
          /\ UNCHANGED answer
     ELSE NextRow(r) /\ UNCHANGED <<status, attempt>>
  /\ UNCHANGED <<retries, held, due, crashes, read, books, ledger, overruled, firm>>

\* No bank account, no usable amount, no processor key: the attempt ends before
\* anything is sent.
FailPrecondition(r) ==
  /\ phase[r] = "claimed"
  /\ phase' = [phase EXCEPT ![r] = "answered"]
  /\ answer' = [answer EXCEPT ![r] = "refused"]
  /\ UNCHANGED <<rowVars, todo, current, tried, crashes, read, books, ledger, overruled, firm>>

\* The POST. What comes back agrees with the processor's books unless it is lost
\* on the way; an error that is not a definite rejection says nothing.
AnswersTo(entry) ==
  CASE entry = "paid" -> {"paid", "unknown"}
    [] entry = "open" -> {"pending", "unknown"}
    [] entry = "refused" -> {"refused", "unknown"}
    [] OTHER -> {"unknown"}

Submit(r) ==
  /\ phase[r] = "claimed"
  /\ \E entry \in BookStates :
       /\ books' = [books EXCEPT ![current[r]][tried[r]] = entry]
       /\ \E known \in AnswersTo(entry) : answer' = [answer EXCEPT ![r] = known]
  /\ phase' = [phase EXCEPT ![r] = "answered"]
  /\ UNCHANGED <<rowVars, todo, current, tried, crashes, read, ledger, overruled, firm>>

\* The word the row gets. Anything but a definite outcome leaves PROCESSING.
SettledWordTimeoutFails(known) ==
  CASE known = "paid" -> "RELEASED"
    [] known \in {"refused", "unknown"} -> "FAILED"
    [] OTHER -> "PROCESSING"
SettledWord(known) ==
  CASE known = "paid" -> "RELEASED"
    [] known = "refused" -> "FAILED"
    [] OTHER -> "PROCESSING"

\* Every write of an outcome has WHERE status = 'PROCESSING', and none names the
\* attempt.
Settle(r) ==
  LET d == current[r]
      word == SettledWord(answer[r])
  IN  /\ phase[r] = "answered"
      /\ IF status[d] = "PROCESSING" /\ word # "PROCESSING"
         THEN /\ status' = [status EXCEPT ![d] = word]
              /\ phase' = [phase EXCEPT ![r] = "noting"]
              /\ UNCHANGED <<current, tried, answer>>
         ELSE NextRow(r) /\ UNCHANGED status
      /\ UNCHANGED <<attempt, retries, held, due, todo, crashes, read, books, ledger, overruled, firm>>

\* The ledger event, best effort: it may be lost.
EventOf(r) ==
  IF answer[r] = "paid" THEN ReleasedEvent(current[r]) ELSE FailedEvent(current[r], tried[r])

Note(r) ==
  /\ phase[r] = "noting"
  /\ ledger' \in {ledger, ledger \cup {EventOf(r)}}
  /\ NextRow(r)
  /\ UNCHANGED <<rowVars, todo, crashes, read, books, overruled, firm>>

EndRun(r) ==
  /\ phase' = [phase EXCEPT ![r] = "idle"]
  /\ todo' = [todo EXCEPT ![r] = {}]
  /\ current' = [current EXCEPT ![r] = Nothing]
  /\ tried' = [tried EXCEPT ![r] = 0]
  /\ answer' = [answer EXCEPT ![r] = "none"]

FinishRun(r) ==
  /\ phase[r] = "loop"
  /\ todo[r] = {}
  /\ EndRun(r)
  /\ UNCHANGED <<rowVars, crashes, read, books, ledger, overruled, firm>>

\* The process dies. What it had claimed stays PROCESSING.
Crash(r) ==
  /\ phase[r] # "idle"
  /\ crashes < MaxCrashes
  /\ crashes' = crashes + 1
  /\ EndRun(r)
  /\ UNCHANGED <<rowVars, read, books, ledger, overruled, firm>>

\* An accepted transfer arrives, or comes back. Nobody tells the API.
Resolve(d, n) ==
  /\ books[d][n] = "open"
  /\ \E entry \in {"paid", "refused"} : books' = [books EXCEPT ![d][n] = entry]
  /\ UNCHANGED <<rowVars, runVars, read, ledger, overruled, firm>>

(***************************************************************************)
(* The specification.                                                       *)
(***************************************************************************)
Init ==
  /\ status = [d \in Payouts |-> "NONE"]
  /\ attempt = [d \in Payouts |-> 0]
  /\ retries = [d \in Payouts |-> 0]
  /\ held = {} /\ due = {}
  /\ phase = [r \in Runs |-> "idle"]
  /\ todo = [r \in Runs |-> {}]
  /\ current = [r \in Runs |-> Nothing]
  /\ tried = [r \in Runs |-> 0]
  /\ answer = [r \in Runs |-> "none"]
  /\ read = [a \in Admins |-> Nothing]
  /\ books = [d \in Payouts |-> [n \in Attempts |-> "none"]]
  /\ ledger = {} /\ crashes = 0 /\ overruled = {} /\ firm = {}

\* What a run does once it has selected its rows.
Proceed(r) ==
  \/ \E d \in Payouts : Reset(r, d) \/ Claim(r, d)
  \/ FailPrecondition(r) \/ Submit(r) \/ Settle(r) \/ Note(r) \/ FinishRun(r)

Next ==
  \/ \E d \in Payouts :
       \/ Create(d) \/ BecomeDue(d) \/ HoldPayout(d) \/ EndHold(d)
       \/ \E a \in Admins : ReadFailed(a, d)
       \/ \E n \in Attempts : Resolve(d, n)
  \/ \E a \in Admins : WriteRetry(a)
  \/ \E r \in Runs : Select(r) \/ Proceed(r) \/ Crash(r)

Spec == Init /\ [][Next]_vars

\* The timers fire for ever and the event loop carries every run on. Nothing
\* else has to happen.
Fairness ==
  /\ \A r \in Timers : WF_vars(Select(r))
  /\ \A r \in Runs : WF_vars(Proceed(r))

FairSpec == Spec /\ Fairness

(***************************************************************************)
(* Properties.                                                              *)
(***************************************************************************)
TypeOK ==
  /\ status \in [Payouts -> Statuses]
  /\ attempt \in [Payouts -> 0..MaxAttempts]
  /\ retries \in [Payouts -> Nat]
  /\ held \subseteq Payouts /\ due \subseteq Payouts
  /\ phase \in [Runs -> Phases]
  /\ todo \in [Runs -> SUBSET Payouts]
  /\ current \in [Runs -> Payouts \cup {Nothing}]
  /\ tried \in [Runs -> 0..MaxAttempts]
  /\ answer \in [Runs -> Answers]
  /\ read \in [Admins -> Payouts \cup {Nothing}]
  /\ books \in [Payouts -> [Attempts -> BookStates]]
  /\ ledger \subseteq LedgerEvents
  /\ crashes \in Nat
  /\ overruled \subseteq Payouts /\ firm \subseteq Payouts

\* The money leaves once: whatever runs overlap, die or lose an answer, the
\* processor has accepted at most one attempt for a payout, unless an admin's
\* retry overwrote a row that had moved on since it was read.
PaidOnce ==
  \A d \in Payouts \ overruled : \A m, n \in Accepted(d) : m = n

\* A row that a run may send again has not been sent: PENDING and FAILED are
\* never the words for money that is, or may be, on its way.
SendableMeansUnsent ==
  \A d \in Payouts \ overruled :
    status[d] \in {"NONE", "PENDING", "FAILED"} => Accepted(d) = {}

\* The ledger is right about what it does record: a released event is about
\* money that was paid, a failed event about an attempt that was not accepted.
LedgerTellsTheTruth ==
  \A d \in Payouts :
    /\ ReleasedEvent(d) \in ledger => \E n \in Attempts : books[d][n] = "paid"
    /\ \A n \in Attempts : FailedEvent(d, n) \in ledger => n \notin Accepted(d)

\* No Idempotency-Key is sent twice, not even when an admin overrules a row
\* under way: an attempt the processor has an entry for only ever resolves.
KeysAreFresh ==
  [][\A d \in Payouts, n \in Attempts :
       books[d][n] # "none" =>
         books'[d][n] = books[d][n] \/ books[d][n] = "open"]_vars

\* A hold placed while no run had selected the payout stops it until the hold
\* ends.
FirmHoldStops ==
  [][\A d \in firm \cap firm' : status'[d] = "PENDING"]_vars

\* A payout that is due and not held is taken up by a timer's pass.
DueIsTaken ==
  \A d \in Payouts :
    (status[d] = "PENDING" /\ d \in due /\ d \notin held)
      ~> (status[d] # "PENDING" \/ d \in held)

\* The money leaves once, what arrived stays, and only what arrived is called
\* released: every step is one of the abstract payout's, or none. Two accepted
\* attempts would be a state that one does not have.
StandingOf(d) ==
  IF d \in overruled THEN "overruled"
  ELSE IF \E m, n \in Accepted(d) : m # n THEN "sent twice"
  ELSE IF status[d] = "RELEASED" THEN "released"
  ELSE IF \E n \in Attempts : books[d][n] = "paid" THEN "arrived"
  ELSE IF Accepted(d) # {} THEN "sent"
  ELSE "owed"
standings == [d \in Payouts |-> StandingOf(d)]
Machine == INSTANCE PayoutMachine WITH state <- standings
ImplementsMachine == Machine!Spec
=============================================================================
