------------------------ MODULE ServiceApplications ------------------------
(***************************************************************************)
(* A provider's applications for further services                           *)
(* (services/serviceApplicationService.ts), the services he holds and the   *)
(* requirements he applies under (the offerings and their mappings, in      *)
(* services/providerCatalogService.ts). Everything is keyed by the          *)
(* provider: the module is about one of them, on several devices, and about *)
(* the admins who review him.                                               *)
(*                                                                         *)
(*   submit   idle -> looked -> screened (no lock held)                     *)
(*            -> locked -> policed -> new -> notHeld -> COMMIT              *)
(*   other operations are one statement, or one transaction on a locked row *)
(*                                                                         *)
(* The statements of a submit see what others commit in between, with two   *)
(* exceptions: the advisory lock keeps out submits for the same service,    *)
(* and the share lock on the service's offerings keeps out changes of those *)
(* offerings. It does not keep out a mapping of another offering to the     *)
(* service, or the end of one.                                              *)
(***************************************************************************)
EXTENDS Naturals, Sequences, FiniteSets

CONSTANTS
  Services,         \* service_families
  Keys,             \* client request ids
  Calls,            \* submits in flight
  MaxApplications,  \* bound: rows
  MaxVersion,       \* bound: changes of one row
  MaxPolicy,        \* bound: versions of a service's requirements
  Nothing

ASSUME BoundsAssumption ==
  MaxApplications \in Nat /\ MaxVersion \in Nat /\ MaxPolicy \in Nat
ASSUME NothingAssumption == Nothing \notin Services \cup Keys

VARIABLES
  applications,  \* worker_service_applications in the order of their ids
  held,          \* employee_services
  policy,        \* version of the requirements of each service
  stage, ask,    \* each submit: where it is and what it asks
  remapped       \* history: submits whose service was mapped anew since their lock

vars == <<applications, held, policy, stage, ask, remapped>>

OpenStatuses == {"pending_review", "action_required"}
Statuses == OpenStatuses \cup {"approved", "rejected", "cancelled"}
Stages == {"idle", "looked", "screened", "locked", "policed", "new", "notHeld"}

\* Next to the columns: the version that the provider wrote last, the one the last
\* decision was made on (0 if none), the keys on the timeline and how often he answered.
\* The column requirements_version is written once, from the request, and only shown.
Application ==
  [service : Services, key : Keys, status : Statuses, version : Nat, told : Nat,
   judged : Nat, timeline : SUBSET Keys, answers : Nat]
Request == [service : Services, key : Keys, requirements : Nat]

Ids == 1..Len(applications)
KeyUsed(k) == \E i \in Ids : applications[i].key = k
Open(i) == applications[i].status \in OpenStatuses
HasOpenPending(s) ==
  \E i \in Ids : applications[i].service = s /\ applications[i].status = "pending_review"
HasOpen(s) == \E i \in Ids : applications[i].service = s /\ Open(i)

(***************************************************************************)
(* submitApplication.                                                       *)
(***************************************************************************)
Go(c, to) ==
  stage' = [stage EXCEPT ![c] = to] /\ UNCHANGED <<applications, held, policy, ask, remapped>>
End(c) ==
  /\ stage' = [stage EXCEPT ![c] = "idle"]
  /\ ask' = [ask EXCEPT ![c] = Nothing]
  /\ remapped' = remapped \ {c}
Continue(c, ok, to) ==
  IF ok THEN Go(c, to) ELSE End(c) /\ UNCHANGED <<applications, held, policy>>

\* A key that has its row is answered with it, or refused for another service.
\* The requirements are the ones the provider has read, perhaps long ago.
Submit(c, s, k, r) ==
  /\ stage[c] = "idle"
  /\ ~KeyUsed(k)
  /\ stage' = [stage EXCEPT ![c] = "looked"]
  /\ ask' = [ask EXCEPT ![c] = [service |-> s, key |-> k, requirements |-> r]]
  /\ UNCHANGED <<applications, held, policy, remapped>>

\* evaluateApplicationEligibility.
Screen(c) ==
  LET s == ask[c].service
  IN  stage[c] = "looked"
      /\ Continue(c, s \notin held /\ ~HasOpen(s) /\ ask[c].requirements = policy[s], "screened")

InTransaction == {"locked", "policed", "new", "notHeld"}
Sharing == {"policed", "new", "notHeld"}

\* pg_advisory_xact_lock, by provider and service.
Lock(c) ==
  /\ stage[c] = "screened"
  /\ \A d \in Calls : stage[d] \in InTransaction => ask[d].service # ask[c].service
  /\ Go(c, "locked")

\* SELECT ... FOR SHARE OF o, held until the COMMIT, and evaluateServicePolicy under it.
Police(c) ==
  /\ stage[c] = "locked"
  /\ Continue(c, ask[c].requirements = policy[ask[c].service], "policed")

CheckKey(c) == stage[c] = "policed" /\ Continue(c, ~KeyUsed(ask[c].key), "new")
CheckHeld(c) == stage[c] = "new" /\ Continue(c, ask[c].service \notin held, "notHeld")

\* wsa_provider_request_idempotency: one row for a key, for any service.
KeyFreeUnindexed(k) == TRUE
KeyFree(k) == ~KeyUsed(k)

\* openCheck, the INSERT, its timeline row and the COMMIT. Nobody else inserts for
\* the service before the COMMIT, so openCheck and the index
\* wsa_unique_open_application find the same rows, save one closed in between,
\* which only makes openCheck refuse more.
Insert(c) ==
  LET a == ask[c]
  IN  /\ stage[c] = "notHeld"
      /\ Len(applications) < MaxApplications
      /\ End(c)
      /\ applications' =
           IF HasOpen(a.service) \/ ~KeyFree(a.key) THEN applications
           ELSE Append(applications,
             [service |-> a.service, key |-> a.key, status |-> "pending_review",
              version |-> 1, told |-> 1, judged |-> 0, timeline |-> {}, answers |-> 0])
      /\ UNCHANGED <<held, policy>>

\* A refusal on what the module does not hold (account, area, qualification,
\* closed service), a lost connection, a crash: ROLLBACK.
GiveUp(c) == stage[c] # "idle" /\ End(c) /\ UNCHANGED <<applications, held, policy>>

(***************************************************************************)
(* The review. Each of these locks the row, or is a conditional UPDATE.     *)
(***************************************************************************)
Change(i, row) ==
  /\ applications' = [applications EXCEPT ![i] = row]
  /\ UNCHANGED <<policy, stage, ask, remapped>>

\* expectedVersion is the version the caller has on the screen.
UpToDateAnyway(i, expected) == TRUE
UpToDate(i, expected) == applications[i].version = expected
MayChange(i) == applications[i].version < MaxVersion

Decided(i, expected, word) ==
  [applications[i] EXCEPT !.status = word, !.version = @ + 1, !.judged = expected]

\* approveApplicationAtomic: the grant and the verdict in one transaction.
Approve(i, expected) ==
  /\ UpToDate(i, expected) /\ Open(i) /\ MayChange(i)
  /\ held' = held \cup {applications[i].service}
  /\ Change(i, Decided(i, expected, "approved"))

\* decideApplicationAtomic.
Decide(i, expected, word) ==
  /\ UpToDate(i, expected) /\ Open(i) /\ MayChange(i)
  /\ Change(i, Decided(i, expected, word))
  /\ UNCHANGED held

\* resubmitApplication: a key on the timeline has been answered already.
AnsweredUnasked(i, k) == FALSE
Answered(i, k) == k \in applications[i].timeline

Resubmit(i, k, expected) ==
  /\ ~Answered(i, k)
  /\ UpToDate(i, expected) /\ applications[i].status = "action_required" /\ MayChange(i)
  /\ Change(i, [applications[i] EXCEPT !.status = "pending_review", !.version = @ + 1,
       !.told = applications[i].version + 1, !.timeline = @ \cup {k}, !.answers = @ + 1])
  /\ UNCHANGED held

\* cancelApplication: the provider needs no version.
CancellableAlways(i) == TRUE
Cancellable(i) == Open(i)
Cancel(i) ==
  /\ Cancellable(i) /\ MayChange(i)
  /\ Change(i, [applications[i] EXCEPT !.status = "cancelled", !.version = @ + 1])
  /\ UNCHANGED held

(***************************************************************************)
(* Services given and taken directly, and requirements changed.             *)
(***************************************************************************)
\* assignServicesToEmployee; removeServiceFromEmployee and removeProviderService.
Assign(s) == held' = held \cup {s} /\ UNCHANGED <<applications, policy, stage, ask, remapped>>
Remove(s) ==
  s \in held /\ held' = held \ {s} /\ UNCHANGED <<applications, policy, stage, ask, remapped>>

\* The version of a service's requirements is the highest of the active offerings
\* mapped to it: whatever is done to one of them can raise it or lower it.
Require(s, v) ==
  /\ v # policy[s]
  /\ policy' = [policy EXCEPT ![s] = v]
  /\ UNCHANGED <<applications, held, stage, ask>>

\* saveOfferingPolicy, updateOffering and updateOfferingStatus write the offering's
\* row: not while a submit shares it. An offering mapped since is shared by nobody.
PolicyFreeUnlocked(s) == TRUE
PolicyFree(s) ==
  \A c \in Calls : stage[c] \in Sharing /\ ask[c].service = s => c \in remapped

SaveOfferingPolicy(s, v) == PolicyFree(s) /\ Require(s, v) /\ UNCHANGED remapped

\* createOfferingMapping, updateOfferingMapping, archiveOfferingMapping and the
\* mapping that createSpecificService adds write the mapping's row, which no submit
\* locks.
MapOffering(s, v) ==
  /\ Require(s, v)
  /\ remapped' =
       remapped \cup {c \in Calls : stage[c] \in InTransaction /\ ask[c].service = s}

Init ==
  /\ applications = <<>>
  /\ held = {}
  /\ policy = [s \in Services |-> 1]
  /\ stage = [c \in Calls |-> "idle"]
  /\ ask = [c \in Calls |-> Nothing]
  /\ remapped = {}

Submitting ==
  \E c \in Calls :
    \/ \E s \in Services, k \in Keys, r \in 1..MaxPolicy : Submit(c, s, k, r)
    \/ Screen(c) \/ Lock(c) \/ Police(c) \/ CheckKey(c) \/ CheckHeld(c) \/ Insert(c)
    \/ GiveUp(c)

Reviewing ==
  \E i \in Ids :
    \/ Cancel(i)
    \/ \E v \in 1..applications[i].version :
         \/ Approve(i, v)
         \/ Decide(i, v, "rejected")
         \/ Decide(i, v, "action_required")
         \/ \E k \in Keys : Resubmit(i, k, v)

Administering ==
  \E s \in Services :
    \/ Assign(s)
    \/ Remove(s)
    \/ \E v \in 1..MaxPolicy : SaveOfferingPolicy(s, v) \/ MapOffering(s, v)

Next == Submitting \/ Reviewing \/ Administering
Spec == Init /\ [][Next]_vars

-----------------------------------------------------------------------------
TypeOK ==
  /\ applications \in Seq(Application)
  /\ held \subseteq Services
  /\ policy \in [Services -> Nat]
  /\ stage \in [Calls -> Stages]
  /\ ask \in [Calls -> Request \cup {Nothing}]
  /\ remapped \subseteq Calls

\* Two tabs, two keys, an answer asked for and a submit in between: the provider
\* never has two applications for one service that wait for him or for an admin.
OneOpenApplication ==
  \A i, j \in Ids :
    /\ applications[i].service = applications[j].service
    /\ {applications[i].status, applications[j].status}
         \subseteq {"pending_review", "action_required"}
    => i = j

\* A key sent again makes one application, whatever service it is sent for, and
\* counts as one answer: what the provider sent is on the timeline once.
OncePerKey ==
  /\ \A i, j \in Ids : applications[i].key = applications[j].key => i = j
  /\ \A i \in Ids : applications[i].answers = Cardinality(applications[i].timeline)

\* The requirements a provider agreed to are those in force when his application is
\* committed, however long ago he read them and whoever was editing, showing or
\* archiving the offerings of the service. The exception is the code's: who maps an
\* offering to the service, or ends a mapping, while the submit is in its transaction
\* waits for no lock, and the application is committed under what was.
AppliedAsRequired ==
  [][\A c \in Calls :
       stage'[c] # stage[c] /\ applications' # applications /\ c \notin remapped
         => ask[c].requirements = policy[ask[c].service]]_vars

\* The verdict an application has was given on what the provider wrote last: no
\* admin rejects, approves or asks again with an older page in front of him.
JudgedOnTheLastAnswer ==
  \A i \in Ids :
    applications[i].status \in {"approved", "rejected", "action_required"}
      => applications[i].told <= applications[i].judged

\* An application that is approved, rejected or cancelled stays as it is: a
\* cancellation and a verdict on their way together leave one of the two.
ClosedForGood ==
  [][\A i \in Ids :
       applications[i].status \in {"approved", "rejected", "cancelled"}
         => applications'[i] = applications[i]]_vars
=============================================================================
