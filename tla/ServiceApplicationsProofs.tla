--------------------- MODULE ServiceApplicationsProofs ---------------------
(***************************************************************************)
(* Proofs about ServiceApplications for any services, keys, submits in      *)
(* flight and bounds. Every operation on a row is a Change of that row that *)
(* keeps it legal; a submit that shares the offerings of its service knows  *)
(* the requirements in force until it commits, or has had it mapped anew.   *)
(***************************************************************************)
EXTENDS ServiceApplications, FiniteSetTheorems, SequenceTheorems, TLAPS

\* A request in flight is a request.
CallsOK == \A c \in Calls : stage[c] # "idle" => ask[c] \in Request

\* The version a submit agreed to is in force for as long as it shares the offerings
\* and nobody maps its service anew.
SharedOK ==
  \A c \in Calls :
    stage[c] \in Sharing /\ c \notin remapped => ask[c].requirements = policy[ask[c].service]

\* What a row says of itself, whatever the other rows say.
RowOK(a) ==
  /\ a.told <= a.version
  /\ a.status \in {"approved", "rejected", "action_required"} => a.told <= a.judged
  /\ IsFiniteSet(a.timeline)
  /\ a.answers = Cardinality(a.timeline)

RowsOK == \A i \in Ids : RowOK(applications[i])

KeysOnce == \A i, j \in Ids : applications[i].key = applications[j].key => i = j

ApplicationsInv ==
  TypeOK /\ CallsOK /\ SharedOK /\ RowsOK /\ KeysOnce /\ OneOpenApplication

\* The part of a submit's step that is about the submits themselves.
LEMMA StageStep ==
  ASSUME TypeOK, CallsOK, SharedOK, NEW c \in Calls, NEW to \in Stages,
         stage' = [stage EXCEPT ![c] = to], UNCHANGED policy,
         remapped' \in {remapped, remapped \ {c}}, to # "idle" => UNCHANGED remapped,
         \/ to = "idle" /\ ask' = [ask EXCEPT ![c] = Nothing]
         \/ /\ UNCHANGED ask
            /\ stage[c] # "idle"
            /\ to \in Sharing /\ c \notin remapped
                 => ask[c].requirements = policy[ask[c].service]
  PROVE  stage' \in [Calls -> Stages] /\ ask' \in [Calls -> Request \cup {Nothing}]
         /\ CallsOK' /\ SharedOK' /\ remapped' \subseteq Calls
<1>1. stage' \in [Calls -> Stages] /\ ask' \in [Calls -> Request \cup {Nothing}]
  BY DEF TypeOK
<1>2. \A d \in Calls : d # c => stage'[d] = stage[d] /\ ask'[d] = ask[d]
  BY DEF TypeOK
<1>3. stage'[c] = to /\ (to # "idle" => ask'[c] = ask[c])
  BY DEF TypeOK
<1>4. CallsOK'
  BY <1>2, <1>3 DEF CallsOK
<1>5. \A d \in Calls : d # c => (d \in remapped' <=> d \in remapped)
  OBVIOUS
<1>6. SharedOK'
  BY <1>2, <1>3, <1>5 DEF SharedOK, Sharing
<1>7. remapped' \subseteq Calls
  BY DEF TypeOK
<1> QED BY <1>1, <1>4, <1>6, <1>7

\* A step that leaves the rows alone leaves what is said of them alone.
LEMMA RowsStand ==
  ASSUME RowsOK, KeysOnce, OneOpenApplication, UNCHANGED applications
  PROVE  RowsOK' /\ KeysOnce' /\ OneOpenApplication'
BY DEF RowsOK, RowOK, KeysOnce, OneOpenApplication, Ids

LEMMA StagesKnown == ASSUME TypeOK PROVE \A c \in Calls : stage[c] \in Stages
BY DEF TypeOK

\* Every step of a submit but the first and the last.
LEMMA SubmitMoves ==
  ASSUME ApplicationsInv, NEW c \in Calls,
         Screen(c) \/ Lock(c) \/ Police(c) \/ CheckKey(c) \/ CheckHeld(c) \/ GiveUp(c)
  PROVE  ApplicationsInv'
<1>1. UNCHANGED <<applications, held, policy>>
  BY DEF Screen, Lock, Police, CheckKey, CheckHeld, GiveUp, Continue, Go, End
<1>2. PICK to \in Stages :
        /\ stage' = [stage EXCEPT ![c] = to]
        /\ remapped' \in {remapped, remapped \ {c}} /\ (to # "idle" => UNCHANGED remapped)
        /\ \/ to = "idle" /\ ask' = [ask EXCEPT ![c] = Nothing]
           \/ /\ UNCHANGED ask
              /\ stage[c] # "idle"
              /\ to \in Sharing /\ c \notin remapped
                   => ask[c].requirements = policy[ask[c].service]
  <2>1. CASE End(c)
    BY <2>1 DEF End, Stages
  <2>2. CASE Screen(c)
    BY <2>2, <2>1 DEF Screen, Continue, Go, Stages, Sharing
  <2>3. CASE Lock(c)
    BY <2>3 DEF Lock, Go, Stages, Sharing
  <2>4. CASE Police(c)
    BY <2>4, <2>1 DEF Police, Continue, Go, Stages, Sharing
  <2>5. CASE CheckKey(c)
    BY <2>5, <2>1 DEF CheckKey, Continue, Go, Stages, Sharing, ApplicationsInv, SharedOK
  <2>6. CASE CheckHeld(c)
    BY <2>6, <2>1 DEF CheckHeld, Continue, Go, Stages, Sharing, ApplicationsInv, SharedOK
  <2>7. CASE GiveUp(c)
    BY <2>7, <2>1 DEF GiveUp
  <2> QED BY <2>2, <2>3, <2>4, <2>5, <2>6, <2>7
<1>3. stage' \in [Calls -> Stages] /\ ask' \in [Calls -> Request \cup {Nothing}]
      /\ CallsOK' /\ SharedOK' /\ remapped' \subseteq Calls
  BY <1>1, <1>2, StageStep DEF ApplicationsInv
<1>4. RowsOK' /\ KeysOnce' /\ OneOpenApplication'
  BY <1>1, RowsStand DEF ApplicationsInv
<1>5. TypeOK'
  BY <1>1, <1>3 DEF ApplicationsInv, TypeOK
<1> QED BY <1>3, <1>4, <1>5 DEF ApplicationsInv

LEMMA SubmitKeeps ==
  ASSUME ApplicationsInv, NEW c \in Calls, NEW s \in Services, NEW k \in Keys,
         NEW r \in 1..MaxPolicy, Submit(c, s, k, r)
  PROVE  ApplicationsInv'
<1> DEFINE q == [service |-> s, key |-> k, requirements |-> r]
<1>1. /\ UNCHANGED applications /\ UNCHANGED held /\ UNCHANGED policy
      /\ UNCHANGED remapped
      /\ stage' = [stage EXCEPT ![c] = "looked"] /\ ask' = [ask EXCEPT ![c] = q]
  BY DEF Submit
<1>2. q \in Request
  BY BoundsAssumption DEF Request
<1>3. stage' \in [Calls -> Stages] /\ ask' \in [Calls -> Request \cup {Nothing}]
  BY <1>1, <1>2 DEF ApplicationsInv, TypeOK, Stages
<1>4. /\ stage'[c] = "looked" /\ ask'[c] = q
      /\ \A d \in Calls : d # c => stage'[d] = stage[d] /\ ask'[d] = ask[d]
  BY <1>1 DEF ApplicationsInv, TypeOK
<1> HIDE DEF q
<1>5. CallsOK'
  BY <1>2, <1>4 DEF ApplicationsInv, CallsOK
<1>6. SharedOK'
  BY <1>1, <1>4 DEF ApplicationsInv, SharedOK, Sharing
<1>7. RowsOK' /\ KeysOnce' /\ OneOpenApplication'
  BY <1>1, RowsStand DEF ApplicationsInv
<1>8. TypeOK'
  BY <1>1, <1>3 DEF ApplicationsInv, TypeOK
<1> QED BY <1>5, <1>6, <1>7, <1>8 DEF ApplicationsInv

\* The new row is refused by an index, or is the only one with its key and the
\* only one open for its service.
LEMMA InsertKeeps ==
  ASSUME ApplicationsInv, NEW c \in Calls, Insert(c)
  PROVE  ApplicationsInv'
<1> DEFINE a == ask[c]
           row == [service |-> a.service, key |-> a.key, status |-> "pending_review",
                   version |-> 1, told |-> 1, judged |-> 0, timeline |-> {}, answers |-> 0]
<1>1. /\ UNCHANGED held /\ UNCHANGED policy /\ remapped' = remapped \ {c}
      /\ stage' = [stage EXCEPT ![c] = "idle"] /\ ask' = [ask EXCEPT ![c] = Nothing]
      /\ stage[c] = "notHeld"
      /\ \/ UNCHANGED applications
         \/ /\ ~HasOpen(a.service) /\ ~KeyUsed(a.key)
            /\ applications' = Append(applications, row)
  BY DEF Insert, End, KeyFree
<1>2. stage' \in [Calls -> Stages] /\ ask' \in [Calls -> Request \cup {Nothing}]
      /\ CallsOK' /\ SharedOK' /\ remapped' \subseteq Calls
  BY <1>1, StageStep DEF ApplicationsInv, Stages
<1>3. CASE UNCHANGED applications
  <2>1. RowsOK' /\ KeysOnce' /\ OneOpenApplication'
    BY <1>3, RowsStand DEF ApplicationsInv
  <2>2. TypeOK'
    BY <1>1, <1>2, <1>3 DEF ApplicationsInv, TypeOK
  <2> QED BY <1>2, <2>1, <2>2 DEF ApplicationsInv
<1>4. CASE /\ ~HasOpen(a.service) /\ ~KeyUsed(a.key)
           /\ applications' = Append(applications, row)
  <2>1. a \in Request
    BY <1>1 DEF ApplicationsInv, CallsOK
  <2>2. /\ row \in Application /\ RowOK(row)
        /\ row.key = a.key /\ row.service = a.service
    <3>1. IsFiniteSet({}) /\ Cardinality({}) = 0
      BY FS_EmptySet
    <3> QED BY <2>1, <3>1
            DEF Application, Request, Statuses, OpenStatuses, RowOK
  <2> HIDE DEF row
  <2>3. /\ applications' \in Seq(Application)
        /\ Len(applications') = Len(applications) + 1
        /\ Len(applications) \in Nat
        /\ \A i \in Ids : applications'[i] = applications[i]
        /\ applications'[Len(applications) + 1] = row
    BY <1>4, <2>2, AppendProperties, LenProperties DEF ApplicationsInv, TypeOK, Ids
  <2>4. Ids' = Ids \cup {Len(applications) + 1} /\ Len(applications) + 1 \notin Ids
    BY <2>3 DEF Ids
  <2>5. RowsOK'
    BY <2>2, <2>3, <2>4 DEF ApplicationsInv, RowsOK
  <2>6. KeysOnce'
    <3>1. \A i \in Ids : applications[i].key # row.key
      BY <1>4, <2>2 DEF KeyUsed
    <3> QED BY <3>1, <2>3, <2>4 DEF ApplicationsInv, KeysOnce
  <2>7. OneOpenApplication'
    <3>1. \A i \in Ids : applications[i].service = a.service
                           => applications[i].status \notin {"pending_review", "action_required"}
      BY <1>4 DEF HasOpen, Open, OpenStatuses
    <3> QED BY <3>1, <2>2, <2>3, <2>4 DEF ApplicationsInv, OneOpenApplication
  <2>8. TypeOK'
    BY <1>1, <1>2, <2>3 DEF ApplicationsInv, TypeOK
  <2> QED BY <1>2, <2>5, <2>6, <2>7, <2>8 DEF ApplicationsInv
<1> QED BY <1>1, <1>3, <1>4

\* A change of one row that keeps its names and its honesty,
\* and opens no row that was closed.
LEMMA ChangeKeeps ==
  ASSUME ApplicationsInv, NEW i \in Ids, NEW row \in Application, Change(i, row),
         held' \subseteq Services,
         row.service = applications[i].service, row.key = applications[i].key,
         row.status \in {"pending_review", "action_required"} => Open(i),
         RowOK(row)
  PROVE  ApplicationsInv'
<1>1. /\ UNCHANGED policy /\ UNCHANGED stage /\ UNCHANGED ask /\ UNCHANGED remapped
      /\ applications' = [applications EXCEPT ![i] = row]
  BY DEF Change
<1>2. /\ applications' \in Seq(Application)
      /\ Ids' = Ids
      /\ \A j \in Ids : applications'[j] = IF j = i THEN row ELSE applications[j]
  BY <1>1, ExceptSeq DEF ApplicationsInv, TypeOK, Ids
<1>3. CallsOK' /\ SharedOK'
  BY <1>1 DEF ApplicationsInv, CallsOK, SharedOK
<1>4. TypeOK'
  BY <1>1, <1>2 DEF ApplicationsInv, TypeOK
<1>5. RowsOK'
  BY <1>2 DEF ApplicationsInv, RowsOK
<1>6. KeysOnce'
  BY <1>2 DEF ApplicationsInv, KeysOnce
<1>7. OneOpenApplication'
  BY <1>2 DEF ApplicationsInv, OneOpenApplication, Open, OpenStatuses
<1> QED BY <1>3, <1>4, <1>5, <1>6, <1>7 DEF ApplicationsInv

\* What is known of a row before it changes.
LEMMA RowKnown ==
  ASSUME ApplicationsInv, NEW i \in Ids
  PROVE  applications[i] \in Application /\ RowOK(applications[i])
BY ElementOfSeq DEF ApplicationsInv, TypeOK, RowsOK, Ids

\* A row with some of its columns written is a row.
LEMMA Judging ==
  ASSUME NEW a \in Application, NEW w \in Statuses, NEW v \in Nat, NEW u \in Nat
  PROVE  [a EXCEPT !.status = w, !.version = v, !.judged = u] \in Application
BY DEF Application

LEMMA Cancelling ==
  ASSUME NEW a \in Application, NEW w \in Statuses, NEW v \in Nat
  PROVE  [a EXCEPT !.status = w, !.version = v] \in Application
BY DEF Application

LEMMA Answering ==
  ASSUME NEW a \in Application, NEW w \in Statuses, NEW v \in Nat, NEW u \in Nat,
         NEW t \in SUBSET Keys, NEW n \in Nat
  PROVE  [a EXCEPT !.status = w, !.version = v, !.told = u, !.timeline = t, !.answers = n]
           \in Application
<1> DEFINE b == [a EXCEPT !.status = w, !.version = v, !.told = u]
<1>1. b \in Application
  BY DEF Application
<1>2. [a EXCEPT !.status = w, !.version = v, !.told = u, !.timeline = t, !.answers = n]
        = [b EXCEPT !.timeline = t, !.answers = n]
  OBVIOUS
<1> HIDE DEF b
<1> QED BY <1>1, <1>2 DEF Application

LEMMA DecisionKeeps ==
  ASSUME ApplicationsInv, NEW i \in Ids, NEW v \in 1..applications[i].version,
         \/ Approve(i, v)
         \/ Decide(i, v, "rejected")
         \/ Decide(i, v, "action_required")
  PROVE  ApplicationsInv'
<1> DEFINE a == applications[i]
<1>1. a \in Application /\ RowOK(a)
  BY RowKnown
<1>2. PICK word \in {"approved", "rejected", "action_required"} :
        Change(i, Decided(i, v, word)) /\ a.version = v /\ Open(i)
        /\ (held' = held \cup {a.service} \/ UNCHANGED held)
  BY DEF Approve, Decide, UpToDate
<1>3. held' \subseteq Services
  BY <1>1, <1>2 DEF ApplicationsInv, TypeOK, Application
<1> DEFINE row == Decided(i, v, word)
<1>4. row \in Application
  <2>1. a.version + 1 \in Nat /\ v \in Nat /\ word \in Statuses
    BY <1>1, <1>2 DEF Application, Statuses, OpenStatuses
  <2> QED BY <1>1, <2>1, Judging DEF Decided
<1>5. /\ row.service = a.service /\ row.key = a.key /\ row.status = word
      /\ row.version = a.version + 1 /\ row.judged = v /\ row.told = a.told
      /\ row.timeline = a.timeline /\ row.answers = a.answers
  BY <1>1 DEF Decided, Application
<1>6. RowOK(row)
  <2>1. a.told \in Nat /\ a.version \in Nat /\ a.told <= a.version
    BY <1>1 DEF Application, RowOK
  <2>2. row.told <= row.version /\ row.told <= row.judged
    BY <2>1, <1>2, <1>5
  <2>3. /\ IsFiniteSet(row.timeline)
        /\ row.answers = Cardinality(row.timeline)
    BY <1>1, <1>5, Zenon DEF RowOK
  <2> HIDE DEF row
  <2> QED BY <2>2, <2>3 DEF RowOK
<1> HIDE DEF row
<1>7. Change(i, row)
  BY <1>2 DEF row
<1> QED BY <1>2, <1>3, <1>4, <1>5, <1>6, <1>7, ChangeKeeps

LEMMA ResubmitKeeps ==
  ASSUME ApplicationsInv, NEW i \in Ids, NEW k \in Keys, NEW v \in 1..applications[i].version,
         Resubmit(i, k, v)
  PROVE  ApplicationsInv'
<1> DEFINE a == applications[i]
           row == [a EXCEPT !.status = "pending_review", !.version = @ + 1,
                     !.told = a.version + 1, !.timeline = @ \cup {k}, !.answers = @ + 1]
<1>1. a \in Application /\ RowOK(a)
  BY RowKnown
<1>2. Change(i, row) /\ k \notin a.timeline /\ a.status = "action_required" /\ UNCHANGED held
  BY DEF Resubmit, Answered
<1>3. IsFiniteSet(a.timeline \cup {k}) /\ Cardinality(a.timeline \cup {k}) = a.answers + 1
  BY <1>1, <1>2, FS_AddElement DEF RowOK
<1>4. row \in Application
  <2>1. /\ a.version + 1 \in Nat /\ a.answers + 1 \in Nat
        /\ a.timeline \cup {k} \in SUBSET Keys /\ "pending_review" \in Statuses
    BY <1>1 DEF Application, Statuses, OpenStatuses
  <2> QED BY <1>1, <2>1, Answering
<1>5. /\ row.service = a.service /\ row.key = a.key /\ row.status = "pending_review"
      /\ row.version = a.version + 1 /\ row.told = a.version + 1
      /\ row.timeline = a.timeline \cup {k} /\ row.answers = a.answers + 1
  BY <1>1 DEF Application
<1>6. RowOK(row)
  <2>1. row.told <= row.version
    BY <1>1, <1>5 DEF Application
  <2>2. /\ IsFiniteSet(row.timeline)
        /\ row.answers = Cardinality(row.timeline)
    BY <1>1, <1>3, <1>5, Zenon DEF RowOK
  <2>3. row.status = "pending_review"
    BY <1>5
  <2> HIDE DEF row
  <2> QED BY <2>1, <2>2, <2>3 DEF RowOK
<1>7. held' \subseteq Services /\ Open(i)
  BY <1>2 DEF ApplicationsInv, TypeOK, Open, OpenStatuses
<1> HIDE DEF row
<1> QED BY <1>2, <1>4, <1>5, <1>6, <1>7, ChangeKeeps

LEMMA CancelKeeps ==
  ASSUME ApplicationsInv, NEW i \in Ids, Cancel(i)
  PROVE  ApplicationsInv'
<1> DEFINE a == applications[i]
           row == [a EXCEPT !.status = "cancelled", !.version = @ + 1]
<1>1. a \in Application /\ RowOK(a)
  BY RowKnown
<1>2. Change(i, row) /\ UNCHANGED held
  BY DEF Cancel
<1>3. row \in Application
  <2>1. a.version + 1 \in Nat /\ "cancelled" \in Statuses
    BY <1>1 DEF Application, Statuses
  <2> QED BY <1>1, <2>1, Cancelling
<1>4. /\ row.service = a.service /\ row.key = a.key /\ row.status = "cancelled"
      /\ row.version = a.version + 1 /\ row.told = a.told
      /\ row.timeline = a.timeline /\ row.answers = a.answers
  BY <1>1 DEF Application
<1>5. RowOK(row)
  <2>1. row.told <= row.version
    BY <1>1, <1>4 DEF Application, RowOK
  <2>2. /\ IsFiniteSet(row.timeline)
        /\ row.answers = Cardinality(row.timeline)
    BY <1>1, <1>4, Zenon DEF RowOK
  <2>3. row.status = "cancelled"
    BY <1>4
  <2> HIDE DEF row
  <2> QED BY <2>1, <2>2, <2>3 DEF RowOK
<1>6. held' \subseteq Services
  BY <1>2 DEF ApplicationsInv, TypeOK
<1> HIDE DEF row
<1> QED BY <1>2, <1>3, <1>4, <1>5, <1>6, ChangeKeeps

\* Requirements change only where nobody shares them, or every submit that does is
\* noted as remapped.
LEMMA AdministeringKeeps ==
  ASSUME ApplicationsInv, NEW s \in Services,
         \/ Assign(s)
         \/ Remove(s)
         \/ \E v \in 1..MaxPolicy : SaveOfferingPolicy(s, v) \/ MapOffering(s, v)
  PROVE  ApplicationsInv'
<1>1. UNCHANGED applications /\ UNCHANGED stage /\ UNCHANGED ask /\ held' \subseteq Services
  BY DEF Assign, Remove, SaveOfferingPolicy, MapOffering, Require, ApplicationsInv, TypeOK
<1>2. policy' \in [Services -> Nat]
  BY BoundsAssumption
     DEF Assign, Remove, SaveOfferingPolicy, MapOffering, Require, ApplicationsInv, TypeOK
<1>3. remapped' \subseteq Calls /\ remapped \subseteq remapped'
  BY DEF Assign, Remove, SaveOfferingPolicy, MapOffering, ApplicationsInv, TypeOK
<1>4. SharedOK'
  <2>1. CASE UNCHANGED policy
    BY <1>1, <1>3, <2>1 DEF ApplicationsInv, SharedOK
  <2>2. CASE \E v \in 1..MaxPolicy : SaveOfferingPolicy(s, v) \/ MapOffering(s, v)
    <3>1. \A c \in Calls : stage[c] \in Sharing /\ c \notin remapped' => ask[c].service # s
      BY <2>2
         DEF SaveOfferingPolicy, PolicyFree, MapOffering, Sharing, InTransaction
    <3>2. \A c \in Calls : stage[c] \in Sharing => ask[c].service \in Services
      BY DEF ApplicationsInv, CallsOK, Sharing, Request
    <3>3. \A t \in Services : t # s => policy'[t] = policy[t]
      BY <2>2 DEF SaveOfferingPolicy, MapOffering, Require, ApplicationsInv, TypeOK
    <3> QED BY <1>1, <1>3, <3>1, <3>2, <3>3 DEF ApplicationsInv, SharedOK
  <2> QED BY <2>1, <2>2 DEF Assign, Remove
<1>5. CallsOK'
  BY <1>1 DEF ApplicationsInv, CallsOK
<1>6. RowsOK' /\ KeysOnce' /\ OneOpenApplication'
  BY <1>1, RowsStand DEF ApplicationsInv
<1>7. TypeOK'
  BY <1>1, <1>2, <1>3 DEF ApplicationsInv, TypeOK
<1> QED BY <1>4, <1>5, <1>6, <1>7 DEF ApplicationsInv

LEMMA InitApplications == Init => ApplicationsInv
<1> SUFFICES ASSUME Init PROVE ApplicationsInv
  OBVIOUS
<1>1. Ids = {}
  BY EmptySeq DEF Init, Ids
<1>2. TypeOK
  BY EmptySeq DEF Init, TypeOK, Stages
<1>3. CallsOK /\ SharedOK
  BY DEF Init, CallsOK, SharedOK, Sharing
<1> QED BY <1>1, <1>2, <1>3 DEF ApplicationsInv, RowsOK, KeysOnce, OneOpenApplication

LEMMA StepApplications == ApplicationsInv /\ [Next]_vars => ApplicationsInv'
<1> SUFFICES ASSUME ApplicationsInv, [Next]_vars PROVE ApplicationsInv'
  OBVIOUS
<1>1. CASE Submitting
  BY <1>1, SubmitMoves, SubmitKeeps, InsertKeeps DEF Submitting
<1>2. CASE Reviewing
  BY <1>2, DecisionKeeps, ResubmitKeeps, CancelKeeps DEF Reviewing
<1>3. CASE Administering
  BY <1>3, AdministeringKeeps DEF Administering
<1>4. CASE UNCHANGED vars
  <2>1. UNCHANGED applications /\ UNCHANGED held /\ UNCHANGED policy
        /\ UNCHANGED stage /\ UNCHANGED ask /\ UNCHANGED remapped
    BY <1>4 DEF vars
  <2>2. RowsOK' /\ KeysOnce' /\ OneOpenApplication'
    BY <2>1, RowsStand DEF ApplicationsInv
  <2>3. TypeOK' /\ CallsOK' /\ SharedOK'
    BY <2>1 DEF ApplicationsInv, TypeOK, CallsOK, SharedOK
  <2> QED BY <2>2, <2>3 DEF ApplicationsInv
<1> QED BY <1>1, <1>2, <1>3, <1>4 DEF Next

\* The inductive invariant: rows that are honest about themselves, keys and open
\* applications that are unique, submits that know the requirements they hold.
THEOREM ApplicationsInvariant == Spec => []ApplicationsInv
BY InitApplications, StepApplications, PTL DEF Spec

\* Every table and every submit in flight is well typed.
THEOREM TypeCorrect == Spec => []TypeOK
<1>1. ApplicationsInv => TypeOK
  BY DEF ApplicationsInv
<1> QED BY <1>1, ApplicationsInvariant, PTL

\* However many submits, answers and verdicts are under way, a provider has one
\* open application for a service.
THEOREM OneApplicationOpen == Spec => []OneOpenApplication
<1>1. ApplicationsInv => OneOpenApplication
  BY DEF ApplicationsInv
<1> QED BY <1>1, ApplicationsInvariant, PTL

\* A key makes one application and one answer, however often it is sent.
THEOREM KeysWorkOnce == Spec => []OncePerKey
<1>1. ApplicationsInv => OncePerKey
  BY DEF ApplicationsInv, KeysOnce, RowsOK, RowOK, OncePerKey
<1> QED BY <1>1, ApplicationsInvariant, PTL

\* Only the last step of a submit adds a row, and it knows the requirements then.
LEMMA CommitAsRequired ==
  ASSUME ApplicationsInv, Next, NEW c \in Calls,
         stage'[c] # stage[c], applications' # applications, c \notin remapped
  PROVE  ask[c].requirements = policy[ask[c].service]
<1>1. CASE Submitting
  <2>1. PICK d \in Calls : Insert(d)
    BY <1>1 DEF Submitting, Submit, Screen, Lock, Police, CheckKey, CheckHeld, GiveUp,
                Continue, Go
  <2>2. d = c /\ stage[d] = "notHeld"
    BY <2>1 DEF Insert, End, ApplicationsInv, TypeOK
  <2> QED BY <2>2 DEF ApplicationsInv, SharedOK, Sharing
<1>2. CASE Reviewing
  BY <1>2 DEF Reviewing, Cancel, Approve, Decide, Resubmit, Change
<1>3. CASE Administering
  BY <1>3 DEF Administering, Assign, Remove, SaveOfferingPolicy, MapOffering, Require
<1> QED BY <1>1, <1>2, <1>3 DEF Next

\* An application is committed under the requirements its provider agreed to, whatever
\* happens to the offerings that were mapped to its service when it began.
THEOREM RequirementsAgreed == Spec => AppliedAsRequired
<1>1. ApplicationsInv /\ [Next]_vars =>
        [\A c \in Calls :
           stage'[c] # stage[c] /\ applications' # applications /\ c \notin remapped
             => ask[c].requirements = policy[ask[c].service]]_vars
  BY CommitAsRequired
<1> QED BY <1>1, ApplicationsInvariant, PTL DEF Spec, AppliedAsRequired

\* A verdict that stands was given on the provider's last answer.
THEOREM VerdictsAreInformed == Spec => []JudgedOnTheLastAnswer
<1>1. ApplicationsInv => JudgedOnTheLastAnswer
  BY DEF ApplicationsInv, RowsOK, RowOK, JudgedOnTheLastAnswer
<1> QED BY <1>1, ApplicationsInvariant, PTL

\* Only an open row changes; a submit adds a row and touches none.
LEMMA OnlyOpenRowsChange ==
  ASSUME ApplicationsInv, Next, NEW i \in Ids,
         applications[i].status \in {"approved", "rejected", "cancelled"}
  PROVE  applications'[i] = applications[i]
<1>1. ~Open(i) /\ applications[i].status # "action_required"
  BY DEF Open, OpenStatuses
<1>2. ASSUME NEW j \in Ids, NEW row, Change(j, row), j # i
      PROVE  applications'[i] = applications[i]
  BY <1>2 DEF Change, ApplicationsInv, TypeOK, Ids
<1>3. CASE Submitting
  <2>1. ASSUME NEW c \in Calls, Insert(c) PROVE applications'[i] = applications[i]
    <3>1. PICK row : UNCHANGED applications \/ applications' = Append(applications, row)
      BY <2>1 DEF Insert
    <3> QED BY <3>1 DEF ApplicationsInv, TypeOK, Ids
  <2>2. ASSUME NEW c \in Calls, ~Insert(c),
               \/ \E s \in Services, k \in Keys, r \in 1..MaxPolicy : Submit(c, s, k, r)
               \/ Screen(c) \/ Lock(c) \/ Police(c) \/ CheckKey(c) \/ CheckHeld(c)
               \/ GiveUp(c)
        PROVE  applications'[i] = applications[i]
    BY <2>2 DEF Submit, Screen, Lock, Police, CheckKey, CheckHeld, GiveUp, Continue, Go
  <2> QED BY <1>3, <2>1, <2>2 DEF Submitting
<1>4. CASE Reviewing
  <2>1. PICK j \in Ids :
          \/ Cancel(j)
          \/ \E v \in 1..applications[j].version :
               \/ Approve(j, v)
               \/ Decide(j, v, "rejected")
               \/ Decide(j, v, "action_required")
               \/ \E k \in Keys : Resubmit(j, k, v)
    BY <1>4 DEF Reviewing
  <2>2. j # i
    BY <2>1, <1>1 DEF Cancel, Cancellable, Approve, Decide, Resubmit
  <2>3. \E row : Change(j, row)
    BY <2>1 DEF Cancel, Approve, Decide, Resubmit
  <2> QED BY <2>2, <2>3, <1>2
<1>5. CASE Administering
  BY <1>5 DEF Administering, Assign, Remove, SaveOfferingPolicy, MapOffering, Require
<1> QED BY <1>3, <1>4, <1>5 DEF Next

\* A closed application stays as it is, whatever is on its way to it.
THEOREM ClosedStaysClosed == Spec => ClosedForGood
<1>1. ApplicationsInv /\ [Next]_vars =>
        [\A i \in Ids :
           applications[i].status \in {"approved", "rejected", "cancelled"}
             => applications'[i] = applications[i]]_vars
  BY OnlyOpenRowsChange
<1> QED BY <1>1, ApplicationsInvariant, PTL DEF Spec, ClosedForGood
=============================================================================
