-------------------------- MODULE DisbursementsMC --------------------------
(***************************************************************************)
(* Small instances of Disbursements, and what its comments say of it.       *)
(***************************************************************************)
EXTENDS Disbursements

CONSTANTS d1, d2, hourly, trigger, sixHourly, admin1, admin2

\* disbursement.service.ts:51-53: an outcome that may have gone through is
\* "never changed to FAILED and submitted again as a new payout".
EveryPayoutPaidOnce == \A d \in Payouts : \A m, n \in Accepted(d) : m = n
=============================================================================
