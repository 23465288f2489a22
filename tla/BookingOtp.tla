----------------------------- MODULE BookingOtp -----------------------------
(***************************************************************************)
(* The policy around the two codes of a booking (bookingOtpService.ts), on  *)
(* top of the executor that compares them. A code is a column of bookings;  *)
(* its age, its wrong attempts and the number of issues are read off the    *)
(* log booking_otp_events, and off bookings.created_at while that is empty. *)
(*                                                                         *)
(*   request  judged -> UPDATE the column -> INSERT 'ISSUED'                *)
(*   verify   judged -> the executor's transition -> INSERT 'FAILED'        *)
(*                                                                         *)
(* Each arrow is a statement on its own. An assignment writes worker_code   *)
(* in the executor and writes nothing to the log.                           *)
(***************************************************************************)
EXTENDS BookingExecutor

CONSTANTS
  Issuers,             \* requestBookingOtp calls in flight
  MaxIssues,           \* maxIssues of BOOKING_OTP_PURPOSES
  MaxVerifyAttempts    \* maxVerifyAttempts

VARIABLES
  log,         \* what the events of a booking and purpose add up to
  issuing,     \* the code each request is about, and how far it is
  verifying,   \* which executor calls verify a code
  charge       \* the wrong attempts a call has yet to record

otpVars == <<vars, log, issuing, verifying, charge>>

Purposes == {"BOOKING_CONFIRMATION", "SERVICE_START"}

Action(purpose) ==
  IF purpose = "SERVICE_START" THEN "PROVIDER_START" ELSE "CUSTOMER_CONFIRM_OTP"
VerifiableBy(purpose) ==
  IF purpose = "SERVICE_START" THEN {"assigned_provider"} ELSE {"customer", "admin"}
ValidStates(purpose) ==
  IF purpose = "SERVICE_START" THEN {"ASSIGNED", "ACCEPTED", "EN_ROUTE", "ARRIVED"}
  ELSE {"PENDING_OTP", "AWAITING_ASSIGNMENT"}

Code(b, purpose) == IF purpose = "SERVICE_START" THEN workerCode[b] ELSE otpCode[b]

\* Since the last ISSUED row: within the resend cooldown, then valid, then
\* expired. Without one the age is the booking's and there is no cooldown.
Ages == {"cooling", "valid", "expired"}

HasAttempts(b, purpose) == log[b][purpose].failures < MaxVerifyAttempts
Usable(b, purpose) == log[b][purpose].age # "expired" /\ HasAttempts(b, purpose)

Nobody == [booking |-> NoRequest, purpose |-> "none", step |-> "idle"]
Idle(i) == issuing' = [issuing EXCEPT ![i] = Nobody]

(***************************************************************************)
(* A new code: customers and admins may ask, the provider may not.          *)
(***************************************************************************)
JudgeRequest(i, b, purpose) ==
  /\ issuing[i] = Nobody
  /\ CanonicalState(b) \in ValidStates(purpose)
  /\ log[b][purpose].age # "cooling"
  /\ log[b][purpose].issues < MaxIssues
  /\ issuing' = [issuing EXCEPT ![i] = [booking |-> b, purpose |-> purpose, step |-> "judged"]]
  /\ UNCHANGED <<vars, log, verifying, charge>>

\* A bare UPDATE: it waits for a transaction that holds the row, and looks at
\* nothing else.
Rotate(i) ==
  LET b == issuing[i].booking
  IN  /\ issuing[i].step = "judged"
      /\ RowFree(b)
      /\ \E code \in Codes :
           IF issuing[i].purpose = "SERVICE_START"
           THEN workerCode' = [workerCode EXCEPT ![b] = code] /\ UNCHANGED otpCode
           ELSE otpCode' = [otpCode EXCEPT ![b] = code] /\ UNCHANGED workerCode
      /\ issuing' = [issuing EXCEPT ![i].step = "rotated"]
      /\ UNCHANGED <<status, workerUid, schedule, newest, earlier, toState, idem,
                     callVars, log, verifying, charge>>

\* The failures that count are those after the last ISSUED row.
RecordIssued(i) ==
  /\ issuing[i].step = "rotated"
  /\ log' = [log EXCEPT ![issuing[i].booking][issuing[i].purpose] =
               [issues |-> @.issues + 1, failures |-> 0, age |-> "cooling"]]
  /\ Idle(i)
  /\ UNCHANGED <<vars, verifying, charge>>

RequestDies(i) ==
  /\ issuing[i] # Nobody
  /\ Idle(i)
  /\ UNCHANGED <<vars, log, verifying, charge>>

(***************************************************************************)
(* Presenting a code: policy first, executor second, log third.             *)
(***************************************************************************)
BeginVerify(c, r, purpose) ==
  /\ r.action = Action(purpose)
  /\ r.role \in VerifiableBy(purpose)
  /\ CanonicalState(r.booking) \in ValidStates(purpose)
  /\ Code(r.booking, purpose) # NoCode
  /\ Usable(r.booking, purpose)
  /\ charge[c] = {}
  /\ Call(c, r)
  /\ verifying' = [verifying EXCEPT ![c] = purpose]
  /\ UNCHANGED <<log, issuing, charge>>

\* The zero rows of a wrong code. Any other refusal costs no attempt.
WrongCode(c) ==
  /\ verifying[c] # "no"
  /\ Writing(c)
  /\ request[c].code # Code(request[c].booking, verifying[c])

RefuseCode(c) ==
  /\ WrongCode(c)
  /\ RefuseWrite(c)
  /\ charge' = [charge EXCEPT ![c] = {<<request[c].booking, verifying[c]>>}]
  /\ verifying' = [verifying EXCEPT ![c] = "no"]
  /\ UNCHANGED <<log, issuing>>

RecordFailed(c) ==
  \E <<b, purpose>> \in charge[c] :
    /\ log' = [log EXCEPT ![b][purpose].failures = @ + 1]
    /\ charge' = [charge EXCEPT ![c] = {}]
    /\ UNCHANGED <<vars, issuing, verifying>>

\* Every other step of the executor. The provider's app also starts a job
\* without this policy (technicianService.startJob).
ExecutorStep(c) ==
  /\ charge[c] = {}
  /\ \/ \E r \in Requests : r.action # "CUSTOMER_CONFIRM_OTP" /\ Call(c, r)
     \/ ~WrongCode(c) /\ Settle(c)
     \/ Crash(c)
  /\ verifying' = [verifying EXCEPT ![c] = IF stage'[c] = "idle" THEN "no" ELSE @]
  /\ UNCHANGED <<log, issuing, charge>>

TimePasses(b, purpose) ==
  /\ log[b][purpose].age # "expired"
  /\ log' = [log EXCEPT ![b][purpose].age = IF @ = "cooling" THEN "valid" ELSE "expired"]
  /\ UNCHANGED <<vars, issuing, verifying, charge>>

OtpSpec ==
  /\ Init
  /\ log = [b \in Bookings |-> [purpose \in Purposes |->
              [issues |-> 0, failures |-> 0, age |-> "valid"]]]
  /\ issuing = [i \in Issuers |-> Nobody]
  /\ verifying = [c \in Calls |-> "no"]
  /\ charge = [c \in Calls |-> {}]
  /\ [][\/ \E i \in Issuers :
             \/ \E b \in Bookings, purpose \in Purposes : JudgeRequest(i, b, purpose)
             \/ Rotate(i) \/ RecordIssued(i) \/ RequestDies(i)
        \/ \E c \in Calls :
             \/ \E r \in Requests, purpose \in Purposes : BeginVerify(c, r, purpose)
             \/ RefuseCode(c) \/ RecordFailed(c) \/ ExecutorStep(c)
        \/ \E b \in Bookings, purpose \in Purposes : TimePasses(b, purpose)]_otpVars

\* "an absent log is seeded from bookings.created_at, which is when the code was
\* in fact minted" and a rotation is "a fresh credential and a fresh budget"
\* (bookingOtpService.ts, readCredentialState): a code minted with an assignment
\* is not judged expired, or out of attempts, by the time it is written.
MintedCodeIsUsable ==
  [][\A c \in Calls, b \in Bookings :
       CommitAssign(c) /\ request[c].booking = b /\ request[c].code # NoCode
         => Usable(b, "SERVICE_START")']_otpVars
=============================================================================
