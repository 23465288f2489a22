------------------------- MODULE EventOutboxProofs -------------------------
(***************************************************************************)
(* Proofs about EventOutbox for any events, notices and limits: first what  *)
(* is promised of facts, rows and notices, then the order of the rows.      *)
(***************************************************************************)
EXTENDS EventOutbox, TLAPS

OutboxTypes ==
  /\ fact \in [Events -> BOOLEAN]
  /\ row \in [Events -> RowWords]
  /\ stage \in [Events -> {"before", "open", "happened", "committed"}]
  /\ untold \in [Events -> SUBSET Notices]
  /\ run \in [Events -> {"off", "draining", "spent"}]
  /\ batch \in [Events -> SUBSET Events]
  /\ current \in [Events -> Events \cup {NoEvent}]
  /\ owing \in [Events -> SUBSET Notices]
  /\ inbox \subseteq Notices
  /\ pushes \in [Notices -> Nat]
  /\ dismissals \in [Notices -> Nat]
  /\ undelivered \subseteq Notices

\* Until the COMMIT there is no fact, and no row anybody else can see.
ProducerOK(e) ==
  /\ stage[e] = "before" => ~fact[e] /\ row[e] = "none"
  /\ stage[e] = "open" => ~fact[e] /\ row[e] = "WRITTEN"
  /\ stage[e] \in {"happened", "committed"} => fact[e] /\ row[e] # "WRITTEN"
  /\ untold[e] # {} => fact[e]
  /\ untold[e] \subseteq Owed[e]
  /\ run[e] # "off" => stage[e] = "committed"

\* A drain works on facts, and owes of the current one what it has not tried.
DrainOK(d) ==
  /\ \A e \in batch[d] : fact[e]
  /\ IF current[d] = NoEvent THEN owing[d] = {}
     ELSE /\ fact[current[d]]
          /\ owing[d] \subseteq Owed[current[d]]
          /\ Owed[current[d]] \subseteq told \cup undelivered \cup owing[d]

\* Each telling but one has been dismissed, and that one is in the inbox.
TellingOK(n) ==
  /\ pushes[n] <= dismissals[n] + (IF n \in inbox THEN 1 ELSE 0)
  /\ n \in inbox => n \in told

OutboxInv ==
  /\ OutboxTypes
  /\ \A e \in Events : ProducerOK(e)
  /\ \A d \in Events : DrainOK(d)
  /\ \A n \in Notices : TellingOK(n)
  /\ NothingAnnouncedEarly
  /\ DispatchedMeansTried

LEMMA InitOK == Init => OutboxInv
<1> SUFFICES ASSUME Init PROVE OutboxInv
  OBVIOUS
<1> USE DEF Init
<1>1. OutboxTypes
  BY DEF OutboxTypes, RowWords
<1>2. \A e \in Events : ProducerOK(e) /\ DrainOK(e)
  BY DEF ProducerOK, DrainOK
<1>3. \A n \in Notices : TellingOK(n)
  BY DEF TellingOK
<1>4. NothingAnnouncedEarly /\ DispatchedMeansTried
  BY DEF NothingAnnouncedEarly, DispatchedMeansTried, told
<1> QED BY <1>1, <1>2, <1>3, <1>4 DEF OutboxInv

(***************************************************************************)
(* Notices.                                                                 *)
(***************************************************************************)
\* A write of notices that a fact owes keeps every promise about tellings.
LEMMA Telling ==
  ASSUME OutboxInv, NEW notices \in SUBSET Notices, CreateNotifications(notices)
  PROVE  /\ inbox' \subseteq Notices /\ pushes' \in [Notices -> Nat] /\ UNCHANGED dismissals
         /\ \A n \in Notices : TellingOK(n)'
         /\ told' = told \cup notices
<1>1. /\ inbox' = inbox \cup notices /\ UNCHANGED dismissals
      /\ pushes' = [n \in Notices |-> IF n \in notices /\ n \notin inbox THEN pushes[n] + 1 ELSE pushes[n]]
  BY DEF CreateNotifications, IsNew
<1>2. /\ inbox \subseteq Notices /\ pushes \in [Notices -> Nat] /\ dismissals \in [Notices -> Nat]
      /\ \A n \in Notices : TellingOK(n)
  BY DEF OutboxInv, OutboxTypes
<1>3. inbox' \subseteq Notices /\ pushes' \in [Notices -> Nat]
  BY <1>1, <1>2
<1>4. \A n \in Notices : pushes'[n] > 0 <=> (pushes[n] > 0 \/ n \in notices)
  BY <1>1, <1>2 DEF TellingOK, told
<1>5. told' = told \cup notices
  BY <1>4 DEF told
<1>6. \A n \in Notices : TellingOK(n)'
  <2> SUFFICES ASSUME NEW n \in Notices
               PROVE  /\ pushes'[n] <= dismissals[n] + (IF n \in inbox' THEN 1 ELSE 0)
                      /\ n \in inbox' => n \in told'
    BY <1>1 DEF TellingOK
  <2>1. pushes[n] \in Nat /\ dismissals[n] \in Nat
    BY <1>2
  <2> QED BY <1>1, <1>2, <1>5, <2>1 DEF TellingOK
<1> QED BY <1>1, <1>3, <1>5, <1>6

\* Promises about facts, rows and drains survive while facts stay facts and
\* more is told or tried.
LEMMA Lasting ==
  ASSUME OutboxInv, NEW notices \in SUBSET Notices, NEW e \in Events,
         fact[e], notices \subseteq Owed[e], UNCHANGED fact, told' = told \cup notices
  PROVE  NothingAnnouncedEarly'
BY DEF OutboxInv, NothingAnnouncedEarly, OutboxTypes

LEMMA LegacyKeeps ==
  ASSUME OutboxInv, NEW e \in Events, NEW n \in Notices, LegacyTell(e, n)
  PROVE  OutboxInv'
<1>1. /\ n \in untold[e] /\ untold' = [untold EXCEPT ![e] = @ \ {n}] /\ CreateNotifications({n})
      /\ UNCHANGED fact /\ UNCHANGED stage /\ UNCHANGED row /\ UNCHANGED run /\ UNCHANGED batch
      /\ UNCHANGED current /\ UNCHANGED owing /\ UNCHANGED undelivered
  BY DEF LegacyTell, drainVars
<1>2. /\ inbox' \subseteq Notices /\ pushes' \in [Notices -> Nat] /\ UNCHANGED dismissals
      /\ \A m \in Notices : TellingOK(m)'
      /\ told' = told \cup {n}
  BY <1>1, Telling
<1>3. fact[e] /\ n \in Owed[e]
  BY <1>1 DEF OutboxInv, ProducerOK
<1>4. NothingAnnouncedEarly'
  BY <1>1, <1>2, <1>3, Lasting
<1>5. OutboxTypes'
  BY <1>1, <1>2 DEF OutboxInv, OutboxTypes
<1>6. \A f \in Events : ProducerOK(f)'
  BY <1>1 DEF OutboxInv, OutboxTypes, ProducerOK
<1>7. \A d \in Events : DrainOK(d)'
  BY <1>1, <1>2 DEF OutboxInv, DrainOK
<1>8. DispatchedMeansTried'
  BY <1>1, <1>2 DEF OutboxInv, DispatchedMeansTried
<1> QED BY <1>2, <1>4, <1>5, <1>6, <1>7, <1>8 DEF OutboxInv

LEMMA DismissKeeps ==
  ASSUME OutboxInv, NEW n \in Notices, Dismiss(n)
  PROVE  OutboxInv'
<1>1. /\ n \in inbox /\ inbox' = inbox \ {n} /\ dismissals' = [dismissals EXCEPT ![n] = @ + 1]
      /\ UNCHANGED fact /\ UNCHANGED stage /\ UNCHANGED row /\ UNCHANGED untold
      /\ UNCHANGED run /\ UNCHANGED batch /\ UNCHANGED current /\ UNCHANGED owing
      /\ UNCHANGED pushes /\ UNCHANGED undelivered
  BY DEF Dismiss, producerVars, drainVars
<1>2. told' = told
  BY <1>1 DEF told
<1>3. OutboxTypes'
  BY <1>1 DEF OutboxInv, OutboxTypes
<1>4. \A m \in Notices : TellingOK(m)'
  <2> SUFFICES ASSUME NEW m \in Notices
               PROVE  /\ pushes[m] <= dismissals'[m] + (IF m \in inbox' THEN 1 ELSE 0)
                      /\ m \in inbox' => m \in told'
    BY <1>1 DEF TellingOK
  <2>1. pushes[m] \in Nat /\ dismissals[m] \in Nat /\ TellingOK(m)
    BY DEF OutboxInv, OutboxTypes
  <2>2. dismissals'[m] = IF m = n THEN dismissals[m] + 1 ELSE dismissals[m]
    BY <1>1 DEF OutboxInv, OutboxTypes
  <2> QED BY <1>1, <1>2, <2>1, <2>2 DEF TellingOK
<1>5. /\ \A e \in Events : ProducerOK(e)'
      /\ \A d \in Events : DrainOK(d)'
      /\ NothingAnnouncedEarly' /\ DispatchedMeansTried'
  BY <1>1, <1>2 DEF OutboxInv, ProducerOK, DrainOK, NothingAnnouncedEarly, DispatchedMeansTried
<1> QED BY <1>3, <1>4, <1>5 DEF OutboxInv

(***************************************************************************)
(* Producers.                                                               *)
(***************************************************************************)
\* A producer's step leaves the drains and the notices to themselves.
LEMMA ProducerStep ==
  ASSUME OutboxInv,
         UNCHANGED batch, UNCHANGED current, UNCHANGED owing, UNCHANGED inbox,
         UNCHANGED pushes, UNCHANGED dismissals, UNCHANGED undelivered,
         fact' \in [Events -> BOOLEAN], row' \in [Events -> RowWords],
         stage' \in [Events -> {"before", "open", "happened", "committed"}],
         untold' \in [Events -> SUBSET Notices],
         run' \in [Events -> {"off", "draining", "spent"}],
         \A e \in Events : fact[e] => fact'[e],
         \A e \in Events : row'[e] = "DISPATCHED" => row[e] = "DISPATCHED",
         \A e \in Events : ProducerOK(e)'
  PROVE  OutboxInv'
<1>1. told' = told
  BY DEF told
<1>2. OutboxTypes'
  BY DEF OutboxInv, OutboxTypes
<1>3. \A d \in Events : DrainOK(d)'
  BY <1>1 DEF OutboxInv, DrainOK, OutboxTypes
<1>4. \A n \in Notices : TellingOK(n)'
  BY <1>1 DEF OutboxInv, TellingOK
<1>5. NothingAnnouncedEarly' /\ DispatchedMeansTried'
  BY <1>1 DEF OutboxInv, NothingAnnouncedEarly, DispatchedMeansTried
<1> QED BY <1>2, <1>3, <1>4, <1>5 DEF OutboxInv

LEMMA OpenKeeps ==
  ASSUME OutboxInv, NEW e \in Events, Open(e)
  PROVE  OutboxInv'
<1>1. /\ stage[e] = "before" /\ stage' = [stage EXCEPT ![e] = "open"]
      /\ row' = [row EXCEPT ![e] = "WRITTEN"]
      /\ UNCHANGED fact /\ UNCHANGED untold /\ UNCHANGED run /\ UNCHANGED batch /\ UNCHANGED current
      /\ UNCHANGED owing /\ UNCHANGED inbox /\ UNCHANGED pushes /\ UNCHANGED dismissals
      /\ UNCHANGED undelivered
  BY DEF Open, Insert, drainVars, noticeVars
<1>2. /\ row' \in [Events -> RowWords]
      /\ stage' \in [Events -> {"before", "open", "happened", "committed"}]
  BY <1>1 DEF OutboxInv, OutboxTypes, RowWords
<1>3. \A f \in Events : ProducerOK(f)'
  BY <1>1 DEF OutboxInv, OutboxTypes, ProducerOK
<1>4. \A f \in Events : row'[f] = "DISPATCHED" => row[f] = "DISPATCHED"
  BY <1>1 DEF OutboxInv, OutboxTypes
<1> QED BY <1>1, <1>2, <1>3, <1>4, ProducerStep DEF OutboxInv, OutboxTypes

LEMMA CommitFactKeeps ==
  ASSUME OutboxInv, NEW e \in Events, CommitFact(e)
  PROVE  OutboxInv'
<1>1. /\ stage[e] = "open" /\ stage' = [stage EXCEPT ![e] = "committed"]
      /\ fact' = [fact EXCEPT ![e] = TRUE]
      /\ row' = [row EXCEPT ![e] = "PENDING"]
      /\ untold' = [untold EXCEPT ![e] = Owed[e]]
      /\ UNCHANGED run /\ UNCHANGED batch /\ UNCHANGED current
      /\ UNCHANGED owing /\ UNCHANGED inbox /\ UNCHANGED pushes /\ UNCHANGED dismissals
      /\ UNCHANGED undelivered
  BY DEF CommitFact, OwesLegacy, drainVars, noticeVars
<1>2. /\ row' \in [Events -> RowWords] /\ fact' \in [Events -> BOOLEAN]
      /\ untold' \in [Events -> SUBSET Notices]
      /\ stage' \in [Events -> {"before", "open", "happened", "committed"}]
  BY <1>1, EventsAssumption DEF OutboxInv, OutboxTypes, RowWords
<1>3. \A f \in Events : ProducerOK(f)'
  BY <1>1 DEF OutboxInv, OutboxTypes, ProducerOK
<1>4. /\ \A f \in Events : row'[f] = "DISPATCHED" => row[f] = "DISPATCHED"
      /\ \A f \in Events : fact[f] => fact'[f]
  BY <1>1 DEF OutboxInv, OutboxTypes
<1> QED BY <1>1, <1>2, <1>3, <1>4, ProducerStep DEF OutboxInv, OutboxTypes

LEMMA RollbackKeeps ==
  ASSUME OutboxInv, NEW e \in Events, Rollback(e)
  PROVE  OutboxInv'
<1>1. /\ stage[e] = "open" /\ stage' = [stage EXCEPT ![e] = "before"]
      /\ row' = [f \in Events |-> IF f \in {e} THEN "none" ELSE row[f]]
      /\ UNCHANGED fact /\ UNCHANGED untold /\ UNCHANGED run /\ UNCHANGED batch /\ UNCHANGED current
      /\ UNCHANGED owing /\ UNCHANGED inbox /\ UNCHANGED pushes /\ UNCHANGED dismissals
      /\ UNCHANGED undelivered
  BY DEF Rollback, Undo, drainVars, noticeVars
<1>2. /\ row' \in [Events -> RowWords]
      /\ stage' \in [Events -> {"before", "open", "happened", "committed"}]
  BY <1>1 DEF OutboxInv, OutboxTypes, RowWords
<1>3. \A f \in Events : ProducerOK(f)'
  BY <1>1 DEF OutboxInv, OutboxTypes, ProducerOK
<1>4. \A f \in Events : row'[f] = "DISPATCHED" => row[f] = "DISPATCHED"
  BY <1>1
<1> QED BY <1>1, <1>2, <1>3, <1>4, ProducerStep DEF OutboxInv, OutboxTypes

LEMMA HappenKeeps ==
  ASSUME OutboxInv, NEW e \in Events, Happen(e)
  PROVE  OutboxInv'
<1>1. /\ stage[e] = "before" /\ stage' = [stage EXCEPT ![e] = "happened"]
      /\ fact' = [fact EXCEPT ![e] = TRUE]
      /\ untold' = [untold EXCEPT ![e] = Owed[e]]
      /\ UNCHANGED row /\ UNCHANGED run /\ UNCHANGED batch /\ UNCHANGED current
      /\ UNCHANGED owing /\ UNCHANGED inbox /\ UNCHANGED pushes /\ UNCHANGED dismissals
      /\ UNCHANGED undelivered
  BY DEF Happen, OwesLegacy, drainVars, noticeVars
<1>2. /\ fact' \in [Events -> BOOLEAN]
      /\ untold' \in [Events -> SUBSET Notices]
      /\ stage' \in [Events -> {"before", "open", "happened", "committed"}]
  BY <1>1, EventsAssumption DEF OutboxInv, OutboxTypes
<1>3. \A f \in Events : ProducerOK(f)'
  BY <1>1 DEF OutboxInv, OutboxTypes, ProducerOK
<1>4. \A f \in Events : fact[f] => fact'[f]
  BY <1>1 DEF OutboxInv, OutboxTypes
<1> QED BY <1>1, <1>2, <1>3, <1>4, ProducerStep DEF OutboxInv, OutboxTypes

LEMMA PublishSafelyKeeps ==
  ASSUME OutboxInv, NEW e \in Events, PublishSafely(e)
  PROVE  OutboxInv'
<1>1. /\ stage[e] = "happened" /\ stage' = [stage EXCEPT ![e] = "committed"]
      /\ \/ row' = [row EXCEPT ![e] = "PENDING"]
         \/ UNCHANGED row
      /\ UNCHANGED fact /\ UNCHANGED untold /\ UNCHANGED run /\ UNCHANGED batch /\ UNCHANGED current
      /\ UNCHANGED owing /\ UNCHANGED inbox /\ UNCHANGED pushes /\ UNCHANGED dismissals
      /\ UNCHANGED undelivered
  BY DEF PublishSafely, Insert, drainVars, noticeVars
<1>2. /\ row' \in [Events -> RowWords]
      /\ stage' \in [Events -> {"before", "open", "happened", "committed"}]
  BY <1>1 DEF OutboxInv, OutboxTypes, RowWords
<1>3. \A f \in Events : ProducerOK(f)'
  <2>1. CASE UNCHANGED row
    BY <1>1, <2>1 DEF OutboxInv, OutboxTypes, ProducerOK
  <2>2. CASE row' = [row EXCEPT ![e] = "PENDING"]
    BY <1>1, <2>2 DEF OutboxInv, OutboxTypes, ProducerOK
  <2> QED BY <1>1, <2>1, <2>2
<1>4. \A f \in Events : row'[f] = "DISPATCHED" => row[f] = "DISPATCHED"
  BY <1>1 DEF OutboxInv, OutboxTypes
<1> QED BY <1>1, <1>2, <1>3, <1>4, ProducerStep DEF OutboxInv, OutboxTypes

LEMMA PublishFailsKeeps ==
  ASSUME OutboxInv, NEW e \in Events, PublishFails(e)
  PROVE  OutboxInv'
<1>1. /\ stage[e] = "happened" /\ stage' = [stage EXCEPT ![e] = "committed"]
      /\ UNCHANGED row /\ UNCHANGED fact /\ UNCHANGED untold /\ UNCHANGED run /\ UNCHANGED batch
      /\ UNCHANGED current /\ UNCHANGED owing /\ UNCHANGED inbox /\ UNCHANGED pushes
      /\ UNCHANGED dismissals /\ UNCHANGED undelivered
  BY DEF PublishFails, drainVars, noticeVars
<1>2. stage' \in [Events -> {"before", "open", "happened", "committed"}]
  BY <1>1 DEF OutboxInv, OutboxTypes
<1>3. \A f \in Events : ProducerOK(f)'
  BY <1>1 DEF OutboxInv, OutboxTypes, ProducerOK
<1> QED BY <1>1, <1>2, <1>3, ProducerStep DEF OutboxInv, OutboxTypes

LEMMA RepeatKeeps ==
  ASSUME OutboxInv, NEW e \in Events, Repeat(e)
  PROVE  OutboxInv'
<1>1. /\ run[e] = "spent" /\ stage' = [stage EXCEPT ![e] = "happened"]
      /\ run' = [run EXCEPT ![e] = "off"]
      /\ untold' = [untold EXCEPT ![e] = Owed[e]]
      /\ UNCHANGED row /\ UNCHANGED fact /\ UNCHANGED batch
      /\ UNCHANGED current /\ UNCHANGED owing /\ UNCHANGED inbox /\ UNCHANGED pushes
      /\ UNCHANGED dismissals /\ UNCHANGED undelivered
  BY DEF Repeat, OwesLegacy, noticeVars
<1>2. /\ stage' \in [Events -> {"before", "open", "happened", "committed"}]
      /\ run' \in [Events -> {"off", "draining", "spent"}]
      /\ untold' \in [Events -> SUBSET Notices]
  BY <1>1, EventsAssumption DEF OutboxInv, OutboxTypes
<1>3. stage[e] = "committed"
  BY <1>1 DEF OutboxInv, ProducerOK
<1>4. \A f \in Events : ProducerOK(f)'
  BY <1>1, <1>3 DEF OutboxInv, OutboxTypes, ProducerOK
<1> QED BY <1>1, <1>2, <1>4, ProducerStep DEF OutboxInv, OutboxTypes

(***************************************************************************)
(* Drains.                                                                  *)
(***************************************************************************)
\* What every step of a drain but the writes of notices and rows leaves alone.
LEMMA DrainStep ==
  ASSUME OutboxInv,
         UNCHANGED fact, UNCHANGED row, UNCHANGED stage, UNCHANGED untold,
         UNCHANGED inbox, UNCHANGED pushes, UNCHANGED dismissals,
         undelivered \subseteq undelivered', undelivered' \subseteq Notices,
         run' \in [Events -> {"off", "draining", "spent"}],
         batch' \in [Events -> SUBSET Events],
         current' \in [Events -> Events \cup {NoEvent}],
         owing' \in [Events -> SUBSET Notices],
         \A d \in Events : run'[d] # "off" => stage[d] = "committed",
         \A d \in Events : DrainOK(d)'
  PROVE  OutboxInv'
<1>1. told' = told
  BY DEF told
<1>2. OutboxTypes'
  BY DEF OutboxInv, OutboxTypes
<1>3. \A e \in Events : ProducerOK(e)'
  BY DEF OutboxInv, ProducerOK
<1>4. \A n \in Notices : TellingOK(n)'
  BY <1>1 DEF OutboxInv, TellingOK
<1>5. NothingAnnouncedEarly' /\ DispatchedMeansTried'
  BY <1>1 DEF OutboxInv, NothingAnnouncedEarly, DispatchedMeansTried
<1> QED BY <1>2, <1>3, <1>4, <1>5 DEF OutboxInv

\* A claim sees committed rows only.
LEMMA ClaimKeeps ==
  ASSUME OutboxInv, NEW d \in Events, Claim(d)
  PROVE  OutboxInv'
<1>1. /\ stage[d] = "committed" /\ run' = [run EXCEPT ![d] = "draining"]
      /\ batch' = [batch EXCEPT ![d] = Oldest]
      /\ UNCHANGED fact /\ UNCHANGED row /\ UNCHANGED stage /\ UNCHANGED untold
      /\ UNCHANGED current /\ UNCHANGED owing /\ UNCHANGED inbox /\ UNCHANGED pushes
      /\ UNCHANGED dismissals /\ UNCHANGED undelivered
  BY DEF Claim, DispatchStages, producerVars, noticeVars
<1>2. \A e \in Oldest : e \in Events /\ row[e] = "PENDING"
  BY DEF Oldest, VisiblePending
<1>3. \A e \in Oldest : fact[e]
  BY <1>2 DEF OutboxInv, OutboxTypes, ProducerOK
<1>4. /\ run' \in [Events -> {"off", "draining", "spent"}]
      /\ batch' \in [Events -> SUBSET Events]
  BY <1>1, <1>2 DEF OutboxInv, OutboxTypes
<1>5. \A x \in Events : run'[x] # "off" => stage[x] = "committed"
  BY <1>1 DEF OutboxInv, OutboxTypes, ProducerOK
<1>6. told' = told
  BY <1>1 DEF told
<1>7. \A x \in Events : \A e \in batch'[x] : fact[e]
  BY <1>1, <1>3 DEF OutboxInv, OutboxTypes, DrainOK
<1>8. \A x \in Events : DrainOK(x)'
  BY <1>1, <1>6, <1>7 DEF OutboxInv, DrainOK
<1> QED BY <1>1, <1>4, <1>5, <1>8, DrainStep DEF OutboxInv, OutboxTypes

LEMMA TakeKeeps ==
  ASSUME OutboxInv, NEW d \in Events, NEW e \in Events, Take(d, e)
  PROVE  OutboxInv'
<1>1. /\ e \in batch[d] /\ batch' = [batch EXCEPT ![d] = @ \ {e}]
      /\ current' = [current EXCEPT ![d] = e]
      /\ owing' = [owing EXCEPT ![d] = Owed[e]]
      /\ UNCHANGED fact /\ UNCHANGED row /\ UNCHANGED stage /\ UNCHANGED untold
      /\ UNCHANGED run /\ UNCHANGED inbox /\ UNCHANGED pushes
      /\ UNCHANGED dismissals /\ UNCHANGED undelivered
  BY DEF Take, producerVars, noticeVars
<1>2. e # NoEvent /\ Owed[e] \subseteq Notices
  BY EventsAssumption
<1>3. /\ batch' \in [Events -> SUBSET Events]
      /\ current' \in [Events -> Events \cup {NoEvent}]
      /\ owing' \in [Events -> SUBSET Notices]
  BY <1>1, <1>2 DEF OutboxInv, OutboxTypes
<1>4. told' = told
  BY <1>1 DEF told
<1>5. fact[e]
  BY <1>1 DEF OutboxInv, DrainOK
<1>6. \A x \in Events : DrainOK(x)'
  <2> SUFFICES ASSUME NEW x \in Events
               PROVE  DrainOK(x)'
    OBVIOUS
  <2>1. CASE x = d
    BY <1>1, <1>2, <1>4, <1>5, <2>1 DEF OutboxInv, OutboxTypes, DrainOK
  <2>2. CASE x # d
    BY <1>1, <1>4, <2>2 DEF OutboxInv, OutboxTypes, DrainOK
  <2> QED BY <2>1, <2>2
<1>7. \A x \in Events : run'[x] # "off" => stage[x] = "committed"
  BY <1>1 DEF OutboxInv, ProducerOK
<1> QED BY <1>1, <1>3, <1>6, <1>7, DrainStep DEF OutboxInv, OutboxTypes

LEMMA DeliverKeeps ==
  ASSUME OutboxInv, NEW d \in Events, NEW n \in Notices, Deliver(d, n)
  PROVE  OutboxInv'
<1>1. /\ n \in owing[d] /\ owing' = [owing EXCEPT ![d] = @ \ {n}] /\ CreateNotifications({n})
      /\ UNCHANGED fact /\ UNCHANGED row /\ UNCHANGED stage /\ UNCHANGED untold /\ UNCHANGED run
      /\ UNCHANGED batch /\ UNCHANGED current /\ UNCHANGED undelivered
  BY DEF Deliver, producerVars
<1>2. /\ inbox' \subseteq Notices /\ pushes' \in [Notices -> Nat] /\ UNCHANGED dismissals
      /\ \A m \in Notices : TellingOK(m)'
      /\ told' = told \cup {n}
  BY <1>1, Telling
<1>3. current[d] \in Events /\ fact[current[d]] /\ n \in Owed[current[d]]
  BY <1>1 DEF OutboxInv, OutboxTypes, DrainOK
<1>4. NothingAnnouncedEarly'
  BY <1>1, <1>2, <1>3, Lasting
<1>5. OutboxTypes'
  BY <1>1, <1>2 DEF OutboxInv, OutboxTypes
<1>6. \A e \in Events : ProducerOK(e)'
  BY <1>1 DEF OutboxInv, ProducerOK
<1>7. \A x \in Events : DrainOK(x)'
  <2> SUFFICES ASSUME NEW x \in Events
               PROVE  DrainOK(x)'
    OBVIOUS
  <2>1. CASE x = d
    BY <1>1, <1>2, <2>1 DEF OutboxInv, OutboxTypes, DrainOK
  <2>2. CASE x # d
    BY <1>1, <1>2, <2>2 DEF OutboxInv, OutboxTypes, DrainOK
  <2> QED BY <2>1, <2>2
<1>8. DispatchedMeansTried'
  BY <1>1, <1>2 DEF OutboxInv, DispatchedMeansTried
<1> QED BY <1>2, <1>4, <1>5, <1>6, <1>7, <1>8 DEF OutboxInv

LEMMA LoseDeliveryKeeps ==
  ASSUME OutboxInv, NEW d \in Events, NEW n \in Notices, LoseDelivery(d, n)
  PROVE  OutboxInv'
<1>1. /\ n \in owing[d] /\ owing' = [owing EXCEPT ![d] = @ \ {n}]
      /\ undelivered' = undelivered \cup {n}
      /\ UNCHANGED fact /\ UNCHANGED row /\ UNCHANGED stage /\ UNCHANGED untold /\ UNCHANGED run
      /\ UNCHANGED batch /\ UNCHANGED current /\ UNCHANGED inbox /\ UNCHANGED pushes
      /\ UNCHANGED dismissals
  BY DEF LoseDelivery, producerVars, noticeVars
<1>2. told' = told
  BY <1>1 DEF told
<1>3. owing' \in [Events -> SUBSET Notices] /\ undelivered' \subseteq Notices
  BY <1>1 DEF OutboxInv, OutboxTypes
<1>4. \A x \in Events : DrainOK(x)'
  <2> SUFFICES ASSUME NEW x \in Events
               PROVE  DrainOK(x)'
    OBVIOUS
  <2>1. CASE x = d
    BY <1>1, <1>2, <2>1 DEF OutboxInv, OutboxTypes, DrainOK
  <2>2. CASE x # d
    BY <1>1, <1>2, <2>2 DEF OutboxInv, OutboxTypes, DrainOK
  <2> QED BY <2>1, <2>2
<1>5. \A x \in Events : run'[x] # "off" => stage[x] = "committed"
  BY <1>1 DEF OutboxInv, ProducerOK
<1> QED BY <1>1, <1>3, <1>4, <1>5, DrainStep DEF OutboxInv, OutboxTypes

\* A row is marked once nothing is owed of its event any more.
LEMMA MarkRowKeeps ==
  ASSUME OutboxInv, NEW d \in Events, Projected(d),
         NEW word \in {"DISPATCHED", "FAILED", "PENDING"}, MarkRow(d, word)
  PROVE  OutboxInv'
<1> DEFINE e == current[d]
<1>1. /\ row' = [row EXCEPT ![e] = word]
      /\ current' = [current EXCEPT ![d] = NoEvent]
      /\ owing' = [owing EXCEPT ![d] = {}]
      /\ UNCHANGED fact /\ UNCHANGED stage /\ UNCHANGED untold /\ UNCHANGED run
      /\ UNCHANGED batch /\ UNCHANGED inbox /\ UNCHANGED pushes
      /\ UNCHANGED dismissals /\ UNCHANGED undelivered
  BY DEF MarkRow, producerVars, noticeVars
<1>2. e \in Events /\ fact[e] /\ Owed[e] \subseteq told \cup undelivered
  BY DEF OutboxInv, OutboxTypes, DrainOK, Projected
<1>3. stage[e] \in {"happened", "committed"}
  BY <1>2 DEF OutboxInv, OutboxTypes, ProducerOK
<1> HIDE DEF e
<1>4. told' = told
  BY <1>1 DEF told
<1>5. OutboxTypes'
  BY <1>1, <1>2 DEF OutboxInv, OutboxTypes, RowWords
<1>6. \A f \in Events : ProducerOK(f)'
  BY <1>1, <1>2, <1>3 DEF OutboxInv, OutboxTypes, ProducerOK
<1>7. \A x \in Events : DrainOK(x)'
  <2> SUFFICES ASSUME NEW x \in Events
               PROVE  DrainOK(x)'
    OBVIOUS
  <2>1. CASE x = d
    BY <1>1, <2>1 DEF OutboxInv, OutboxTypes, DrainOK
  <2>2. CASE x # d
    BY <1>1, <1>4, <2>2 DEF OutboxInv, OutboxTypes, DrainOK
  <2> QED BY <2>1, <2>2
<1>8. \A n \in Notices : TellingOK(n)'
  BY <1>1, <1>4 DEF OutboxInv, TellingOK
<1>9. NothingAnnouncedEarly'
  BY <1>1, <1>4 DEF OutboxInv, NothingAnnouncedEarly
<1>10. DispatchedMeansTried'
  BY <1>1, <1>2, <1>4 DEF OutboxInv, OutboxTypes, DispatchedMeansTried
<1> QED BY <1>5, <1>6, <1>7, <1>8, <1>9, <1>10 DEF OutboxInv

LEMMA FinishDrainKeeps ==
  ASSUME OutboxInv, NEW d \in Events, FinishDrain(d)
  PROVE  OutboxInv'
<1>1. /\ run[d] = "draining" /\ run' = [run EXCEPT ![d] = "spent"]
      /\ UNCHANGED fact /\ UNCHANGED row /\ UNCHANGED stage /\ UNCHANGED untold
      /\ UNCHANGED batch /\ UNCHANGED current /\ UNCHANGED owing
      /\ UNCHANGED inbox /\ UNCHANGED pushes /\ UNCHANGED dismissals /\ UNCHANGED undelivered
  BY DEF FinishDrain, producerVars, noticeVars
<1>2. run' \in [Events -> {"off", "draining", "spent"}]
  BY <1>1 DEF OutboxInv, OutboxTypes
<1>3. \A x \in Events : run'[x] # "off" => stage[x] = "committed"
  BY <1>1 DEF OutboxInv, OutboxTypes, ProducerOK
<1>4. told' = told
  BY <1>1 DEF told
<1>5. \A x \in Events : DrainOK(x)'
  BY <1>1, <1>4 DEF OutboxInv, DrainOK
<1> QED BY <1>1, <1>2, <1>3, <1>5, DrainStep DEF OutboxInv, OutboxTypes

\* Drains may end anywhere: what they had claimed is owed by the row again.
LEMMA AbandonedDrains ==
  ASSUME OutboxInv, NEW gone \in SUBSET Events, Abandoned(gone)
  PROVE  /\ UNCHANGED fact /\ UNCHANGED inbox /\ UNCHANGED pushes /\ UNCHANGED dismissals
         /\ UNCHANGED undelivered
         /\ run' = [x \in Events |-> IF x \in gone THEN "spent" ELSE run[x]]
         /\ run' \in [Events -> {"off", "draining", "spent"}]
         /\ batch' \in [Events -> SUBSET Events]
         /\ current' \in [Events -> Events \cup {NoEvent}]
         /\ owing' \in [Events -> SUBSET Notices]
         /\ \A x \in Events : DrainOK(x)'
<1>1. /\ UNCHANGED fact /\ UNCHANGED inbox /\ UNCHANGED pushes /\ UNCHANGED dismissals
      /\ UNCHANGED undelivered
      /\ run' = [x \in Events |-> IF x \in gone THEN "spent" ELSE run[x]]
      /\ batch' = [x \in Events |-> IF x \in gone THEN {} ELSE batch[x]]
      /\ current' = [x \in Events |-> IF x \in gone THEN NoEvent ELSE current[x]]
      /\ owing' = [x \in Events |-> IF x \in gone THEN {} ELSE owing[x]]
  BY DEF Abandoned, noticeVars
<1>2. /\ run' \in [Events -> {"off", "draining", "spent"}]
      /\ batch' \in [Events -> SUBSET Events]
      /\ current' \in [Events -> Events \cup {NoEvent}]
      /\ owing' \in [Events -> SUBSET Notices]
  BY <1>1 DEF OutboxInv, OutboxTypes
<1>3. told' = told
  BY <1>1 DEF told
<1>4. \A x \in Events : DrainOK(x)'
  BY <1>1, <1>3 DEF OutboxInv, DrainOK
<1> QED BY <1>1, <1>2, <1>4

LEMMA AbandonKeeps ==
  ASSUME OutboxInv, NEW d \in Events, Abandon(d)
  PROVE  OutboxInv'
<1>1. /\ stage[d] = "committed" /\ Abandoned({d})
      /\ UNCHANGED row /\ UNCHANGED stage /\ UNCHANGED untold
  BY DEF Abandon, DispatchStages
<1> DEFINE gone == {d}
<1>2. gone \in SUBSET Events /\ Abandoned(gone)
  BY <1>1
<1>3. /\ UNCHANGED fact /\ UNCHANGED inbox /\ UNCHANGED pushes /\ UNCHANGED dismissals
      /\ UNCHANGED undelivered
      /\ run' = [x \in Events |-> IF x \in gone THEN "spent" ELSE run[x]]
      /\ run' \in [Events -> {"off", "draining", "spent"}]
      /\ batch' \in [Events -> SUBSET Events]
      /\ current' \in [Events -> Events \cup {NoEvent}]
      /\ owing' \in [Events -> SUBSET Notices]
      /\ \A x \in Events : DrainOK(x)'
  <2> HIDE DEF gone
  <2> QED BY <1>2, AbandonedDrains
<1>4. \A x \in Events : run'[x] # "off" => stage[x] = "committed"
  BY <1>1, <1>3 DEF OutboxInv, ProducerOK
<1>5. undelivered \subseteq undelivered' /\ undelivered' \subseteq Notices
  BY <1>3 DEF OutboxInv, OutboxTypes
<1> QED BY <1>1, <1>3, <1>4, <1>5, DrainStep

\* A crash ends the drains and undoes the open transactions, nothing else.
LEMMA CrashKeeps ==
  ASSUME OutboxInv, Crash
  PROVE  OutboxInv'
<1> DEFINE gone == {e \in Events : stage[e] \in {"happened", "committed"}}
<1>1. /\ Abandoned(gone)
      /\ row' = [e \in Events |-> IF e \in {f \in Events : stage[f] = "open"} THEN "none" ELSE row[e]]
      /\ stage' = [e \in Events |-> IF stage[e] = "open" THEN "before"
                                   ELSE IF stage[e] = "happened" THEN "committed" ELSE stage[e]]
      /\ untold' = [e \in Events |-> {}]
  BY DEF Crash, Undo
<1>2. gone \in SUBSET Events
  OBVIOUS
<1>3. /\ UNCHANGED fact /\ UNCHANGED inbox /\ UNCHANGED pushes /\ UNCHANGED dismissals
      /\ UNCHANGED undelivered
      /\ run' = [x \in Events |-> IF x \in gone THEN "spent" ELSE run[x]]
      /\ run' \in [Events -> {"off", "draining", "spent"}]
      /\ batch' \in [Events -> SUBSET Events]
      /\ current' \in [Events -> Events \cup {NoEvent}]
      /\ owing' \in [Events -> SUBSET Notices]
      /\ \A x \in Events : DrainOK(x)'
  <2> HIDE DEF gone
  <2> QED BY <1>1, <1>2, AbandonedDrains
<1>4. told' = told
  BY <1>3 DEF told
<1>5. OutboxTypes'
  BY <1>1, <1>3 DEF OutboxInv, OutboxTypes, RowWords
<1>6. \A e \in Events : ProducerOK(e)'
  BY <1>1, <1>3 DEF OutboxInv, OutboxTypes, ProducerOK
<1>7. \A n \in Notices : TellingOK(n)'
  BY <1>3, <1>4 DEF OutboxInv, TellingOK
<1>8. NothingAnnouncedEarly' /\ DispatchedMeansTried'
  BY <1>1, <1>3, <1>4 DEF OutboxInv, NothingAnnouncedEarly, DispatchedMeansTried
<1> QED BY <1>3, <1>5, <1>6, <1>7, <1>8 DEF OutboxInv

(***************************************************************************)
(* The invariant.                                                           *)
(***************************************************************************)
LEMMA StepKeeps == OutboxInv /\ [Next]_vars => OutboxInv'
<1> SUFFICES ASSUME OutboxInv, [Next]_vars
             PROVE  OutboxInv'
  OBVIOUS
<1>1. ASSUME NEW e \in Events, Open(e) \/ Happen(e) \/ Repeat(e)
      PROVE  OutboxInv'
  BY <1>1, OpenKeeps, HappenKeeps, RepeatKeeps
<1>2. ASSUME NEW e \in Events, Proceed(e)
      PROVE  OutboxInv'
  <2>1. CASE CommitFact(e) \/ Rollback(e) \/ PublishSafely(e) \/ PublishFails(e)
    BY <2>1, CommitFactKeeps, RollbackKeeps, PublishSafelyKeeps, PublishFailsKeeps
  <2>2. CASE Claim(e) \/ FinishDrain(e) \/ Abandon(e)
    BY <2>2, ClaimKeeps, FinishDrainKeeps, AbandonKeeps
  <2>3. ASSUME NEW f \in Events, Take(e, f)
        PROVE  OutboxInv'
    BY <2>3, TakeKeeps
  <2>4. ASSUME NEW n \in Notices, Deliver(e, n) \/ LoseDelivery(e, n)
        PROVE  OutboxInv'
    BY <2>4, DeliverKeeps, LoseDeliveryKeeps
  <2>5. CASE MarkDispatched(e)
    BY <2>5, MarkRowKeeps DEF MarkDispatched
  <2>6. CASE MarkFailed(e)
    <3>1. PICK word \in {"FAILED", "PENDING"} : Projected(e) /\ MarkRow(e, word)
      BY <2>6 DEF MarkFailed
    <3> QED BY <3>1, MarkRowKeeps
  <2> QED BY <1>2, <2>1, <2>2, <2>3, <2>4, <2>5, <2>6 DEF Proceed
<1>3. ASSUME NEW e \in Events, NEW n \in Notices, LegacyTell(e, n)
      PROVE  OutboxInv'
  BY <1>3, LegacyKeeps
<1>4. ASSUME NEW n \in Notices, Dismiss(n)
      PROVE  OutboxInv'
  BY <1>4, DismissKeeps
<1>5. CASE Crash
  BY <1>5, CrashKeeps
<1>6. CASE UNCHANGED vars
  BY <1>6 DEF vars, producerVars, drainVars, noticeVars, OutboxInv, OutboxTypes, ProducerOK, DrainOK,
              TellingOK, NothingAnnouncedEarly, DispatchedMeansTried, told
<1> QED BY <1>1, <1>2, <1>3, <1>4, <1>5, <1>6 DEF Next

\* What producers, drains and inboxes promise each other always holds.
THEOREM OutboxInvariant == Spec => []OutboxInv
<1> QED BY InitOK, StepKeeps, PTL DEF Spec

\* No notice goes out for a fact that did not commit (publishEvent inside the
\* transaction, dispatchSoon after it), however many drains race or crash.
THEOREM NothingEarly == Spec => []NothingAnnouncedEarly
<1>1. OutboxInv => NothingAnnouncedEarly
  BY DEF OutboxInv
<1> QED BY <1>1, OutboxInvariant, PTL

\* A row marked DISPATCHED owes nothing (dispatchPending): each of its notices
\* went out or its write was tried and failed.
THEOREM DispatchedIsTrue == Spec => []DispatchedMeansTried
<1>1. OutboxInv => DispatchedMeansTried
  BY DEF OutboxInv
<1> QED BY <1>1, OutboxInvariant, PTL

\* The unique index on owner and key makes every retelling the owner's doing,
\* for any number of events, overlapping drains and older call sites.
THEOREM ToldOnce == Spec => []ToldAgainOnlyAfterDismissal
<1>1. OutboxInv => ToldAgainOnlyAfterDismissal
  <2> SUFFICES ASSUME OutboxInv, NEW n \in Notices
               PROVE  pushes[n] <= 1 + dismissals[n]
    BY DEF ToldAgainOnlyAfterDismissal
  <2>1. pushes[n] \in Nat /\ dismissals[n] \in Nat /\ TellingOK(n)
    BY DEF OutboxInv, OutboxTypes
  <2> QED BY <2>1 DEF TellingOK
<1> QED BY <1>1, OutboxInvariant, PTL

(***************************************************************************)
(* The rows. Ids are handed out as rows are inserted, so their order is one *)
(* of the rows there are, whatever is rolled back in between.               *)
(***************************************************************************)
\* A drain works on rows that are there: only an open transaction's can vanish.
ClaimedOK(d) ==
  /\ \A e \in batch[d] : row[e] \notin {"none", "WRITTEN"}
  /\ current[d] # NoEvent => row[current[d]] \notin {"none", "WRITTEN"}

RowsInv ==
  /\ RowsAreOrdered
  /\ \A d \in Events : ClaimedOK(d)
  /\ attempts \in [Events -> 0 .. MAX_DISPATCH_ATTEMPTS]
  /\ dismissals \in [Notices -> 0 .. MaxDismissals]
  /\ troubled \in BOOLEAN

LEMMA Inserted ==
  ASSUME OutboxInv, RowsAreOrdered, NEW e \in Events, row[e] = "none",
         NEW word \in {"WRITTEN", "PENDING"}, Insert(e, word)
  PROVE  RowsAreOrdered'
<1>1. /\ row'[e] = word /\ word # "none"
      /\ \A f \in Events \ {e} : row'[f] = row[f]
  BY DEF Insert, OutboxInv, OutboxTypes
<1>2. \A f, g \in Events :
        Before(f, g)' <=> Before(f, g) \/ (g = e /\ row[f] # "none")
  BY DEF Insert, Before
<1>3. \A f \in Events : ~Before(f, e) /\ ~Before(e, f)
  BY DEF RowsAreOrdered
<1>4. older' \subseteq Events \X Events
  BY DEF Insert, RowsAreOrdered
<1>5. \A f, g \in Events : Before(f, g)' => row'[f] # "none" /\ row'[g] # "none"
  BY <1>1, <1>2 DEF RowsAreOrdered
<1>6. \A f, g \in Events :
        row'[f] # "none" /\ row'[g] # "none" /\ f # g => (Before(f, g)' <=> ~Before(g, f)')
  BY <1>1, <1>2, <1>3 DEF RowsAreOrdered
<1>7. \A f \in Events : ~Before(f, f)'
  BY <1>2 DEF RowsAreOrdered
<1>8. \A f, g, h \in Events : Before(f, g)' /\ Before(g, h)' => Before(f, h)'
  BY <1>2, <1>3 DEF RowsAreOrdered
<1> QED BY <1>4, <1>5, <1>6, <1>7, <1>8 DEF RowsAreOrdered

LEMMA Undone ==
  ASSUME OutboxInv, RowsAreOrdered, NEW gone \in SUBSET Events, Undo(gone)
  PROVE  RowsAreOrdered'
<1>1. \A f \in Events : row'[f] # "none" <=> f \notin gone /\ row[f] # "none"
  BY DEF Undo
<1>2. \A f, g \in Events : Before(f, g)' <=> Before(f, g) /\ f \notin gone /\ g \notin gone
  BY DEF Undo, Before
<1>3. older' \subseteq Events \X Events
  BY DEF Undo, RowsAreOrdered
<1> QED BY <1>1, <1>2, <1>3 DEF RowsAreOrdered

\* Rows that neither come nor go keep their order.
LEMMA OrderStands ==
  ASSUME RowsAreOrdered, UNCHANGED older,
         \A e \in Events : row'[e] = "none" <=> row[e] = "none"
  PROVE  RowsAreOrdered'
BY DEF RowsAreOrdered, Before

\* Steps that leave the rows, the counters and what drains have claimed alone.
LEMMA RowsStand ==
  ASSUME OutboxInv, RowsInv, UNCHANGED older, UNCHANGED attempts,
         dismissals' \in [Notices -> 0 .. MaxDismissals], troubled' \in BOOLEAN,
         UNCHANGED row,
         \A d \in Events : batch'[d] \subseteq batch[d],
         \A d \in Events : current'[d] \in {current[d], NoEvent} \cup batch[d]
  PROVE  RowsInv'
<1>1. RowsAreOrdered'
  BY OrderStands DEF RowsInv
<1>2. \A d \in Events : ClaimedOK(d)'
  BY DEF RowsInv, ClaimedOK
<1> QED BY <1>1, <1>2 DEF RowsInv

\* A producer's step: drains have claimed no row that it writes.
LEMMA ProducerRows ==
  ASSUME OutboxInv, RowsInv, RowsAreOrdered', UNCHANGED attempts, UNCHANGED dismissals,
         UNCHANGED batch, UNCHANGED current, troubled' \in BOOLEAN,
         \A e \in Events : row'[e] \in {"none", "WRITTEN"} => row[e] \in {"none", "WRITTEN"}
  PROVE  RowsInv'
<1>1. \A d \in Events : ClaimedOK(d)'
  BY DEF RowsInv, ClaimedOK, OutboxInv, OutboxTypes
<1> QED BY <1>1 DEF RowsInv

LEMMA ProducersKeepRows ==
  ASSUME OutboxInv, RowsInv, NEW e \in Events,
         \/ Open(e) \/ CommitFact(e) \/ Rollback(e)
         \/ Happen(e) \/ PublishSafely(e) \/ PublishFails(e)
  PROVE  RowsInv'
<1>1. /\ UNCHANGED attempts /\ UNCHANGED dismissals /\ UNCHANGED batch /\ UNCHANGED current
      /\ troubled' \in BOOLEAN
  BY DEF Open, CommitFact, Rollback, Happen, PublishSafely, PublishFails, drainVars, noticeVars,
         RowsInv
<1>2. RowsAreOrdered
  BY DEF RowsInv
<1>3. CASE Open(e)
  <2>1. Insert(e, "WRITTEN") /\ row[e] = "none" /\ row' = [row EXCEPT ![e] = "WRITTEN"]
    BY <1>3 DEF Open, Insert, OutboxInv, ProducerOK
  <2>2. RowsAreOrdered'
    BY <1>2, <2>1, Inserted
  <2>3. \A f \in Events : row'[f] \in {"none", "WRITTEN"} => row[f] \in {"none", "WRITTEN"}
    BY <2>1 DEF OutboxInv, OutboxTypes
  <2> QED BY <1>1, <2>2, <2>3, ProducerRows
<1>4. CASE CommitFact(e)
  <2>1. row[e] = "WRITTEN" /\ row' = [row EXCEPT ![e] = "PENDING"] /\ UNCHANGED older
    BY <1>4 DEF CommitFact, OutboxInv, ProducerOK
  <2>2. \A f \in Events : row'[f] = "none" <=> row[f] = "none"
    BY <2>1 DEF OutboxInv, OutboxTypes
  <2>3. RowsAreOrdered'
    BY <1>2, <2>1, <2>2, OrderStands
  <2>4. \A f \in Events : row'[f] \in {"none", "WRITTEN"} => row[f] \in {"none", "WRITTEN"}
    BY <2>1 DEF OutboxInv, OutboxTypes
  <2> QED BY <1>1, <2>3, <2>4, ProducerRows
<1>5. CASE Rollback(e)
  <2> DEFINE gone == {e}
  <2>1. Undo(gone) /\ gone \in SUBSET Events /\ row[e] = "WRITTEN"
    BY <1>5 DEF Rollback, OutboxInv, ProducerOK
  <2>2. row' = [f \in Events |-> IF f \in gone THEN "none" ELSE row[f]]
    BY <2>1 DEF Undo
  <2>3. \A f \in Events : row'[f] \in {"none", "WRITTEN"} => row[f] \in {"none", "WRITTEN"}
    BY <2>1, <2>2
  <2> HIDE DEF gone
  <2>4. RowsAreOrdered'
    BY <1>2, <2>1, Undone
  <2> QED BY <1>1, <2>3, <2>4, ProducerRows
<1>6. CASE Happen(e) \/ PublishFails(e) \/ (PublishSafely(e) /\ row[e] # "none")
  <2>1. UNCHANGED row /\ UNCHANGED older
    BY <1>6 DEF Happen, PublishFails, PublishSafely
  <2>2. RowsAreOrdered'
    BY <1>2, <2>1, OrderStands
  <2> QED BY <1>1, <2>1, <2>2, ProducerRows
<1>7. CASE PublishSafely(e) /\ row[e] = "none"
  <2>1. Insert(e, "PENDING") /\ row' = [row EXCEPT ![e] = "PENDING"]
    BY <1>7 DEF PublishSafely, Insert
  <2>2. RowsAreOrdered'
    BY <1>2, <1>7, <2>1, Inserted
  <2>3. \A f \in Events : row'[f] \in {"none", "WRITTEN"} => row[f] \in {"none", "WRITTEN"}
    BY <2>1 DEF OutboxInv, OutboxTypes
  <2> QED BY <1>1, <2>2, <2>3, ProducerRows
<1> QED BY <1>3, <1>4, <1>5, <1>6, <1>7

LEMMA ClaimKeepsRows ==
  ASSUME OutboxInv, RowsInv, NEW d \in Events, Claim(d)
  PROVE  RowsInv'
<1>1. /\ batch' = [batch EXCEPT ![d] = Oldest]
      /\ UNCHANGED row /\ UNCHANGED older /\ UNCHANGED current /\ UNCHANGED dismissals
  BY DEF Claim, producerVars, noticeVars
<1>2. attempts' \in [Events -> 0 .. MAX_DISPATCH_ATTEMPTS]
  <2> SUFFICES ASSUME NEW e \in Events
               PROVE  (IF e \in Oldest /\ attempts[e] < MAX_DISPATCH_ATTEMPTS
                         THEN attempts[e] + 1 ELSE attempts[e]) \in 0 .. MAX_DISPATCH_ATTEMPTS
    BY DEF Claim
  <2>1. attempts[e] \in 0 .. MAX_DISPATCH_ATTEMPTS /\ MAX_DISPATCH_ATTEMPTS \in Nat
    BY LimitsAssumption DEF RowsInv
  <2> QED BY <2>1
<1>3. troubled' \in BOOLEAN
  BY DEF Claim, RowsInv
<1>4. \A e \in Oldest : row[e] = "PENDING"
  BY DEF Oldest, VisiblePending
<1>5. \A x \in Events : ClaimedOK(x)'
  <2> SUFFICES ASSUME NEW x \in Events PROVE ClaimedOK(x)'
    OBVIOUS
  <2>1. \A e \in batch'[x] : row[e] \notin {"none", "WRITTEN"}
    BY <1>1, <1>4 DEF RowsInv, ClaimedOK, OutboxInv, OutboxTypes
  <2> QED BY <1>1, <2>1 DEF RowsInv, ClaimedOK
<1>6. RowsAreOrdered'
  BY <1>1, OrderStands DEF RowsInv
<1> QED BY <1>1, <1>2, <1>3, <1>5, <1>6 DEF RowsInv

LEMMA MarkKeepsRows ==
  ASSUME OutboxInv, RowsInv, NEW d \in Events, Projected(d),
         NEW word \in {"DISPATCHED", "FAILED", "PENDING"}, MarkRow(d, word),
         troubled' \in BOOLEAN
  PROVE  RowsInv'
<1> DEFINE e == current[d]
<1>1. /\ row' = [row EXCEPT ![e] = word] /\ current' = [current EXCEPT ![d] = NoEvent]
      /\ UNCHANGED older /\ UNCHANGED batch /\ UNCHANGED attempts /\ UNCHANGED dismissals
  BY DEF MarkRow, producerVars, noticeVars
<1>2. e \in Events /\ row[e] \notin {"none", "WRITTEN"}
  BY DEF Projected, RowsInv, ClaimedOK, OutboxInv, OutboxTypes
<1> HIDE DEF e
<1>3. /\ \A f \in Events : row'[f] = "none" <=> row[f] = "none"
      /\ \A f \in Events : row'[f] \in {"none", "WRITTEN"} => row[f] \in {"none", "WRITTEN"}
  BY <1>1, <1>2 DEF OutboxInv, OutboxTypes
<1>4. RowsAreOrdered'
  BY <1>1, <1>3, OrderStands DEF RowsInv
<1>5. \A x \in Events : ClaimedOK(x)'
  BY <1>1, <1>3 DEF RowsInv, ClaimedOK, OutboxInv, OutboxTypes
<1> QED BY <1>1, <1>4, <1>5 DEF RowsInv

LEMMA CrashKeepsRows ==
  ASSUME OutboxInv, RowsInv, Crash
  PROVE  RowsInv'
<1> DEFINE dead == {e \in Events : stage[e] \in {"happened", "committed"}}
           gone == {e \in Events : stage[e] = "open"}
<1>1. Undo(gone) /\ gone \in SUBSET Events /\ (\A e \in gone : row[e] = "WRITTEN")
  BY DEF Crash, OutboxInv, ProducerOK
<1>2. row' = [e \in Events |-> IF e \in gone THEN "none" ELSE row[e]]
  BY <1>1 DEF Undo
<1>3. /\ batch' = [d \in Events |-> IF d \in dead THEN {} ELSE batch[d]]
      /\ current' = [d \in Events |-> IF d \in dead THEN NoEvent ELSE current[d]]
      /\ UNCHANGED attempts /\ UNCHANGED dismissals /\ troubled' = TRUE
  BY DEF Crash, Abandoned, noticeVars
<1>4. \A e \in Events : row'[e] \in {"none", "WRITTEN"} => row[e] \in {"none", "WRITTEN"}
  BY <1>1, <1>2
<1> HIDE DEF gone, dead
<1>5. RowsAreOrdered'
  BY <1>1, Undone DEF RowsInv
<1>6. \A d \in Events : ClaimedOK(d)'
  BY <1>3, <1>4 DEF RowsInv, ClaimedOK, OutboxInv, OutboxTypes
<1> QED BY <1>3, <1>5, <1>6 DEF RowsInv

\* The other steps of a drain, of an owner and of an older call site.
LEMMA OthersKeepRows ==
  ASSUME OutboxInv, RowsInv,
         \/ \E e \in Events :
              \/ Repeat(e) \/ FinishDrain(e) \/ Abandon(e)
              \/ \E f \in Events : Take(e, f)
              \/ \E n \in Notices : Deliver(e, n) \/ LoseDelivery(e, n) \/ LegacyTell(e, n)
         \/ \E n \in Notices : Dismiss(n)
         \/ UNCHANGED vars
  PROVE  RowsInv'
<1>1. /\ UNCHANGED older /\ UNCHANGED attempts /\ UNCHANGED row /\ troubled' \in BOOLEAN
  BY DEF Repeat, FinishDrain, Abandon, Abandoned, Take, Deliver, LoseDelivery, LegacyTell, Dismiss,
         vars, producerVars, drainVars, RowsInv
<1>2. dismissals' \in [Notices -> 0 .. MaxDismissals]
  <2>1. ASSUME NEW n \in Notices, Dismiss(n)
        PROVE  dismissals' \in [Notices -> 0 .. MaxDismissals]
    <3>1. dismissals[n] \in 0 .. MaxDismissals /\ dismissals[n] < MaxDismissals
          /\ MaxDismissals \in Nat
      BY <2>1, LimitsAssumption DEF RowsInv, Dismiss
    <3>2. dismissals[n] + 1 \in 0 .. MaxDismissals
      BY <3>1
    <3> QED BY <2>1, <3>2 DEF Dismiss, RowsInv
  <2>2. CASE UNCHANGED dismissals
    BY <2>2 DEF RowsInv
  <2>3. UNCHANGED dismissals \/ \E n \in Notices : Dismiss(n)
    BY DEF Repeat, FinishDrain, Abandon, Abandoned, Take, Deliver, LoseDelivery, LegacyTell,
           CreateNotifications, vars, noticeVars
  <2> QED BY <2>1, <2>2, <2>3
<1>3. \A d \in Events : /\ batch'[d] \subseteq batch[d]
                        /\ current'[d] \in {current[d], NoEvent} \cup batch[d]
  <2>1. CASE UNCHANGED batch /\ UNCHANGED current
    BY <2>1
  <2>2. ASSUME NEW e \in Events, NEW f \in Events, Take(e, f)
        PROVE  \A d \in Events : /\ batch'[d] \subseteq batch[d]
                                /\ current'[d] \in {current[d], NoEvent} \cup batch[d]
    <3>1. /\ f \in batch[e] /\ batch' = [batch EXCEPT ![e] = @ \ {f}]
          /\ current' = [current EXCEPT ![e] = f]
      BY <2>2 DEF Take
    <3> QED BY <3>1 DEF OutboxInv, OutboxTypes
  <2>3. ASSUME NEW e \in Events, Abandon(e)
        PROVE  \A d \in Events : /\ batch'[d] \subseteq batch[d]
                                /\ current'[d] \in {current[d], NoEvent} \cup batch[d]
    BY <2>3 DEF Abandon, Abandoned
  <2>4. \/ UNCHANGED batch /\ UNCHANGED current
        \/ \E e \in Events : Abandon(e) \/ \E f \in Events : Take(e, f)
    BY DEF Repeat, FinishDrain, Deliver, LoseDelivery, LegacyTell, Dismiss, vars, drainVars
  <2> QED BY <2>1, <2>2, <2>3, <2>4
<1> QED BY <1>1, <1>2, <1>3, RowsStand

LEMMA StepKeepsRows == OutboxInv /\ RowsInv /\ [Next]_vars => RowsInv'
<1> SUFFICES ASSUME OutboxInv, RowsInv, [Next]_vars
             PROVE  RowsInv'
  OBVIOUS
<1>1. CASE \E e \in Events :
             \/ Open(e) \/ CommitFact(e) \/ Rollback(e)
             \/ Happen(e) \/ PublishSafely(e) \/ PublishFails(e)
  BY <1>1, ProducersKeepRows
<1>2. CASE \E e \in Events : Claim(e)
  BY <1>2, ClaimKeepsRows
<1>3. ASSUME NEW e \in Events, MarkDispatched(e) \/ MarkFailed(e)
      PROVE  RowsInv'
  <2>1. PICK word \in {"DISPATCHED", "FAILED", "PENDING"} : Projected(e) /\ MarkRow(e, word)
    BY <1>3 DEF MarkDispatched, MarkFailed
  <2>2. troubled' \in BOOLEAN
    BY <1>3 DEF MarkDispatched, MarkFailed, RowsInv
  <2> QED BY <2>1, <2>2, MarkKeepsRows
<1>4. CASE Crash
  BY <1>4, CrashKeepsRows
<1> QED BY <1>1, <1>2, <1>3, <1>4, OthersKeepRows DEF Next, Proceed

LEMMA InitRows == Init => RowsInv
<1> SUFFICES ASSUME Init PROVE RowsInv
  OBVIOUS
<1>1. RowsAreOrdered
  BY DEF Init, RowsAreOrdered, Before
<1>2. \A d \in Events : ClaimedOK(d)
  BY DEF Init, ClaimedOK
<1>3. 0 \in 0 .. MAX_DISPATCH_ATTEMPTS /\ 0 \in 0 .. MaxDismissals
  BY LimitsAssumption
<1> QED BY <1>1, <1>2, <1>3 DEF Init, RowsInv

\* What a drain has claimed stays there until it is done with it, and the rows
\* are in the order of their ids.
THEOREM RowsInvariant == Spec => []RowsInv
BY OutboxInvariant, InitRows, StepKeepsRows, PTL DEF Spec

\* The outbox is what TypeOK says of it: in particular the rows there are, and
\* no others, stand in one order, through every rollback and crash (publishEvent
\* inside the transaction, claimPending's ORDER BY id).
THEOREM TypeCorrect == Spec => []TypeOK
<1>1. OutboxInv /\ RowsInv => TypeOK
  BY DEF OutboxInv, OutboxTypes, RowsInv, TypeOK
<1> QED BY <1>1, OutboxInvariant, RowsInvariant, PTL
=============================================================================
