----------------------- MODULE BookingCreationProofs -----------------------
(***************************************************************************)
(* Proofs about BookingCreation for any callers, keys, slots, capacities,   *)
(* drafts, requests in flight and bounds. The argument is about who holds   *)
(* what: the holder of the key lock is alone and has found no booking under *)
(* his key, the holder of a slot is alone and has found room in it, and one *)
(* request at most is converting a draft, which is unmade until it commits. *)
(***************************************************************************)
EXTENDS BookingCreation, FiniteSetTheorems, SequenceTheorems, TLAPS

Draft == [status : DraftStatuses, content : 0..MaxEdits, booking : 0..MaxBookings]

\* What a request in flight may ask.
AskOK ==
  \A c \in Calls :
    /\ stage[c] = "counted" => ask[c].actor \in Customers
    /\ stage[c] = "keyed" => ask[c].actor \in Admins
    /\ stage[c] # "idle" /\ ask[c].actor \in Admins =>
         ask[c].slot = Nothing /\ ask[c].key # Nothing
    /\ stage[c] # "idle" /\ ask[c].draft # Nothing => ask[c].actor \in Admins
    /\ stage[c] \in {"loaded", "claimed", "created", "failed"} => ask[c].draft # Nothing

\* Who holds the key lock has found no booking under the key, and is alone.
KeysOK ==
  \A c \in Calls : stage[c] = "keyed" =>
    /\ idem[ask[c].actor][ask[c].key] = 0
    /\ \A e \in Calls :
         stage[e] = "keyed" /\ ask[e].actor = ask[c].actor /\ ask[e].key = ask[c].key => e = c

\* Who holds a slot has found room, and is alone.
SlotsOK ==
  \A c \in Calls, s \in Slots : stage[c] = "counted" /\ ask[c].slot = s =>
    /\ s \in moved \/ HasRoom(s)
    /\ \A e \in Calls : stage[e] = "counted" /\ ask[e].slot = s => e = c

\* The request is converting the draft.
Busy(c, d) == stage[c] \in {"claimed", "checked", "keyed", "created", "failed"} /\ ask[c].draft = d

Unmade(d) == \A i \in Ids : bookings[i].draft # d

DraftsOK ==
  /\ \A d \in Drafts, c \in Calls : Busy(c, d) =>
       /\ draft[d].status = "converting"
       /\ \A e \in Calls : Busy(e, d) => e = c
  /\ \A d \in Drafts \ doubted :
       /\ draft[d].status \in Mutable => Unmade(d)
       /\ \A c \in Calls : Busy(c, d) /\ stage[c] # "created" => Unmade(d)
       /\ \A i, j \in Ids : bookings[i].draft = d /\ bookings[j].draft = d => i = j

CreationInv ==
  TypeOK /\ AskOK /\ KeysOK /\ SlotsOK /\ DraftsOK /\ OneBookingPerKey /\ SlotNeverOverfull

-----------------------------------------------------------------------------
\* What a request in flight asks has its type.
LEMMA AskTyped ==
  ASSUME TypeOK, NEW c \in Calls, stage[c] # "idle"
  PROVE  /\ ask[c] \in Request /\ ask[c].actor \in Actors
         /\ ask[c].key \in Keys \cup {Nothing} /\ ask[c].slot \in Slots \cup {Nothing}
         /\ ask[c].draft \in Drafts \cup {Nothing} /\ ask[c].content \in 0..MaxEdits
         /\ Recorded(ask[c]) \in 0..MaxBookings
<1>1. ask[c] \in Request
  BY DEF TypeOK
<1>2. /\ ask[c].actor \in Actors
      /\ ask[c].key \in Keys \cup {Nothing} /\ ask[c].slot \in Slots \cup {Nothing}
      /\ ask[c].draft \in Drafts \cup {Nothing} /\ ask[c].content \in 0..MaxEdits
  BY <1>1 DEF Request
<1>3. Recorded(ask[c]) \in 0..MaxBookings
  BY <1>2, BoundsAssumption DEF Recorded, TypeOK
<1> QED BY <1>1, <1>2, <1>3

\* Nothing is no slot, no draft and no key.
LEMMA DistinctNothing == Nothing \notin Slots /\ Nothing \notin Drafts /\ Nothing \notin Keys
BY SlotsAssumption, DraftsAssumption

\* The rows and their ids.
LEMMA BookingIds ==
  ASSUME TypeOK
  PROVE  /\ Len(bookings) \in Nat /\ Ids = 1..Len(bookings)
         /\ \A i \in Ids : i \in Nat /\ i >= 1 /\ bookings[i] \in Booking
BY ElementOfSeq, LenProperties DEF TypeOK, Ids

\* One request moves, all the others stand.
CallStep(c, to) ==
  /\ stage' = [stage EXCEPT ![c] = to]
  /\ ask' = [ask EXCEPT ![c] = ask'[c]]

\* The stage and the question of every other request after a step of one.
LEMMA OthersStand ==
  ASSUME TypeOK, NEW c \in Calls, NEW to \in Stages, CallStep(c, to)
  PROVE  /\ stage'[c] = to /\ stage' \in [Calls -> Stages]
         /\ \A e \in Calls : e # c => stage'[e] = stage[e] /\ ask'[e] = ask[e]
BY DEF TypeOK, CallStep

\* Stages and questions stay typed through a step of one request.
LEMMA CallTyped ==
  ASSUME TypeOK, NEW c \in Calls, NEW to \in Stages, CallStep(c, to),
         IF to = "idle" THEN ask'[c] = Nothing ELSE ask'[c] \in Request
  PROVE  /\ stage' \in [Calls -> Stages] /\ ask' \in [Calls -> Request \cup {Nothing}]
         /\ \A e \in Calls : IF stage'[e] = "idle" THEN ask'[e] = Nothing ELSE ask'[e] \in Request
<1>1. stage' \in [Calls -> Stages] /\ ask' \in [Calls -> Request \cup {Nothing}]
  BY DEF TypeOK, CallStep
<1>2. \A e \in Calls : IF stage'[e] = "idle" THEN ask'[e] = Nothing ELSE ask'[e] \in Request
  BY OthersStand DEF TypeOK
<1> QED BY <1>1, <1>2

\* What requests may ask stays true through a step of one request.
LEMMA AskStep ==
  ASSUME TypeOK, AskOK, NEW c \in Calls, NEW to \in Stages, CallStep(c, to),
         to = "counted" => ask'[c].actor \in Customers,
         to = "keyed" => ask'[c].actor \in Admins,
         to # "idle" /\ ask'[c].actor \in Admins => ask'[c].slot = Nothing /\ ask'[c].key # Nothing,
         to # "idle" /\ ask'[c].draft # Nothing => ask'[c].actor \in Admins,
         to \in {"loaded", "claimed", "created", "failed"} => ask'[c].draft # Nothing
  PROVE  AskOK'
<1>1. /\ stage'[c] = to
      /\ \A e \in Calls : e # c => stage'[e] = stage[e] /\ ask'[e] = ask[e]
  BY OthersStand
<1> QED BY <1>1 DEF AskOK

\* Who takes the key lock is alone with it and has found no booking; who has it keeps both.
LEMMA KeysStep ==
  ASSUME TypeOK, KeysOK, NEW c \in Calls, NEW to \in Stages, CallStep(c, to),
         to = "keyed" => /\ ask'[c] = ask[c] /\ KeyFree(ask[c])
                         /\ idem'[ask[c].actor][ask[c].key] = 0,
         \A e \in Calls : e # c /\ stage[e] = "keyed" => idem'[ask[e].actor][ask[e].key] = 0
  PROVE  KeysOK'
<1>1. /\ stage'[c] = to
      /\ \A e \in Calls : e # c => stage'[e] = stage[e] /\ ask'[e] = ask[e]
  BY OthersStand
<1> SUFFICES ASSUME NEW x \in Calls, stage'[x] = "keyed"
             PROVE  /\ idem'[ask'[x].actor][ask'[x].key] = 0
                    /\ \A e \in Calls :
                         stage'[e] = "keyed" /\ ask'[e].actor = ask'[x].actor
                           /\ ask'[e].key = ask'[x].key => e = x
  BY DEF KeysOK
<1>2. idem'[ask'[x].actor][ask'[x].key] = 0
  BY <1>1
<1>3. ASSUME NEW e \in Calls, stage'[e] = "keyed", ask'[e].actor = ask'[x].actor,
             ask'[e].key = ask'[x].key
      PROVE  e = x
  <2>1. CASE x = c
    BY <2>1, <1>1, <1>3 DEF KeyFree
  <2>2. CASE x # c /\ e = c
    BY <2>2, <1>1, <1>3 DEF KeyFree
  <2>3. CASE x # c /\ e # c
    BY <2>3, <1>1, <1>3 DEF KeysOK
  <2> QED BY <2>1, <2>2, <2>3
<1> QED BY <1>2, <1>3

\* Who takes a slot is alone with it and has found room; who has it keeps both.
LEMMA SlotsStep ==
  ASSUME TypeOK, SlotsOK, NEW c \in Calls, NEW to \in Stages, CallStep(c, to),
         to = "counted" => /\ ask'[c] = ask[c]
                           /\ ask[c].slot # Nothing => SlotFree(ask[c].slot)
                           /\ \A s \in Slots : ask[c].slot = s => HasRoom(s)',
         \A e \in Calls, s \in Slots : e # c /\ stage[e] = "counted" /\ ask[e].slot = s =>
           s \in moved' \/ HasRoom(s)'
  PROVE  SlotsOK'
<1>1. /\ stage'[c] = to
      /\ \A e \in Calls : e # c => stage'[e] = stage[e] /\ ask'[e] = ask[e]
  BY OthersStand
<1> SUFFICES ASSUME NEW x \in Calls, NEW s \in Slots, stage'[x] = "counted", ask'[x].slot = s
             PROVE  /\ s \in moved' \/ HasRoom(s)'
                    /\ \A e \in Calls : stage'[e] = "counted" /\ ask'[e].slot = s => e = x
  BY DEF SlotsOK
<1>2. s \in moved' \/ HasRoom(s)'
  BY <1>1
<1>3. ASSUME NEW e \in Calls, stage'[e] = "counted", ask'[e].slot = s PROVE e = x
  <2>1. CASE x = c
    BY <2>1, <1>1, <1>3, DistinctNothing DEF SlotFree
  <2>2. CASE x # c /\ e = c
    BY <2>2, <1>1, <1>3, DistinctNothing DEF SlotFree
  <2>3. CASE x # c /\ e # c
    BY <2>3, <1>1, <1>3 DEF SlotsOK
  <2> QED BY <2>1, <2>2, <2>3
<1> QED BY <1>2, <1>3

\* A step of a request that makes no booking and whose draft, if it is busy with one
\* afterwards, it was busy with before.
LEMMA DraftsStep ==
  ASSUME TypeOK, DraftsOK, NEW c \in Calls, NEW to \in Stages, CallStep(c, to),
         UNCHANGED bookings, UNCHANGED draft, UNCHANGED doubted,
         \A d \in Drafts : Busy(c, d)' => Busy(c, d) /\ (stage[c] = "created" => to = "created")
  PROVE  DraftsOK'
<1>1. /\ stage'[c] = to
      /\ \A e \in Calls : e # c => stage'[e] = stage[e] /\ ask'[e] = ask[e]
  BY OthersStand
<1>2. \A e \in Calls, d \in Drafts :
        Busy(e, d)' => Busy(e, d) /\ (stage[e] = "created" => stage'[e] = "created")
  BY <1>1 DEF Busy
<1>3. Ids' = Ids /\ \A d : Unmade(d)' = Unmade(d)
  BY DEF Ids, Unmade
<1> QED BY <1>2, <1>3 DEF DraftsOK

\* What is said of the bookings alone, while they and the key table stand.
LEMMA BookingsStand ==
  ASSUME CreationInv, UNCHANGED bookings, UNCHANGED idem, UNCHANGED moved
  PROVE  /\ OneBookingPerKey' /\ SlotNeverOverfull'
         /\ \A s : HasRoom(s)' = HasRoom(s)
BY DEF CreationInv, OneBookingPerKey, SlotNeverOverfull, Ids, InSlot, HasRoom

\* A request that ends, at any point, whatever becomes of its draft.
LEMMA EndKeeps ==
  ASSUME CreationInv, NEW c \in Calls, End(c), UNCHANGED bookings, UNCHANGED idem,
         draft' \in [Drafts -> Draft], UNCHANGED lost, UNCHANGED moved, UNCHANGED doubted
  PROVE  /\ TypeOK' /\ AskOK' /\ KeysOK' /\ SlotsOK' /\ OneBookingPerKey' /\ SlotNeverOverfull'
         /\ CallStep(c, "idle") /\ \A d \in Drafts : ~Busy(c, d)'
<1>1. "idle" \in Stages /\ 0 \in 0..MaxBookings
  BY BoundsAssumption DEF Stages
<1>2. CallStep(c, "idle") /\ ask'[c] = Nothing /\ made' \in [Calls -> 0..MaxBookings]
  BY <1>1 DEF End, CallStep, CreationInv, TypeOK
<1>3. TypeOK'
  BY <1>1, <1>2, CallTyped DEF CreationInv, TypeOK, Draft
<1>4. AskOK'
  BY <1>1, <1>2, AskStep DEF CreationInv
<1>5. OneBookingPerKey' /\ SlotNeverOverfull' /\ \A s : HasRoom(s)' = HasRoom(s)
  BY BookingsStand
<1>6. KeysOK'
  <2>1. \A e \in Calls : e # c /\ stage[e] = "keyed" => idem'[ask[e].actor][ask[e].key] = 0
    BY DEF CreationInv, KeysOK
  <2> QED BY <2>1, <1>1, <1>2, KeysStep DEF CreationInv
<1>7. SlotsOK'
  <2>1. \A e \in Calls, s \in Slots : e # c /\ stage[e] = "counted" /\ ask[e].slot = s =>
          s \in moved' \/ HasRoom(s)'
    BY <1>5 DEF CreationInv, SlotsOK
  <2> QED BY <2>1, <1>1, <1>2, SlotsStep DEF CreationInv
<1>8. \A d \in Drafts : ~Busy(c, d)'
  BY <1>1, <1>2, OthersStand DEF Busy, CreationInv
<1> QED BY <1>2, <1>3, <1>4, <1>5, <1>6, <1>7, <1>8

\* A request that ends and leaves its draft alone: a crash, a refusal, an answer.
LEMMA EndStep ==
  ASSUME CreationInv, NEW c \in Calls, End(c), UNCHANGED bookings, UNCHANGED idem,
         UNCHANGED draft, UNCHANGED lost, UNCHANGED moved, UNCHANGED doubted
  PROVE  CreationInv'
<1>1. "idle" \in Stages /\ draft' \in [Drafts -> Draft]
  BY DEF Stages, CreationInv, TypeOK, Draft
<1>2. DraftsOK'
  BY <1>1, EndKeeps, DraftsStep DEF CreationInv
<1> QED BY <1>1, <1>2, EndKeeps DEF CreationInv

\* A request that asks the same as before and makes nothing.
LEMMA GoStep ==
  ASSUME CreationInv, NEW c \in Calls, NEW to \in Stages, stage[c] # "idle", to # "idle",
         stage' = [stage EXCEPT ![c] = to], UNCHANGED ask, made' \in [Calls -> 0..MaxBookings],
         UNCHANGED bookings, UNCHANGED idem,
         UNCHANGED draft, UNCHANGED lost, UNCHANGED moved, UNCHANGED doubted,
         stage[c] \in {"claimed", "checked"},
         \/ to = "checked"
         \/ to \in {"created", "failed"} /\ ask[c].draft # Nothing
         \/ /\ to = "counted" /\ ask[c].actor \in Customers
            /\ ask[c].slot # Nothing => HasRoom(ask[c].slot) /\ SlotFree(ask[c].slot)
         \/ /\ to = "keyed" /\ ask[c].actor \in Admins
            /\ KeyFree(ask[c]) /\ Recorded(ask[c]) = 0
  PROVE  CreationInv'
<1>1. CallStep(c, to) /\ ask'[c] = ask[c]
  BY DEF CallStep, CreationInv, TypeOK
<1>2. ask[c] \in Request
  BY AskTyped DEF CreationInv
<1>3. TypeOK'
  BY <1>1, <1>2, CallTyped DEF CreationInv, TypeOK
<1>4. AskOK'
  <2>1. /\ ask[c].actor \in Admins => ask[c].slot = Nothing /\ ask[c].key # Nothing
        /\ ask[c].draft # Nothing => ask[c].actor \in Admins
    BY DEF CreationInv, AskOK
  <2> QED BY <2>1, <1>1, AskStep DEF CreationInv
<1>5. OneBookingPerKey' /\ SlotNeverOverfull' /\ \A s : HasRoom(s)' = HasRoom(s)
  BY BookingsStand
<1>6. KeysOK'
  <2>1. \A e \in Calls : e # c /\ stage[e] = "keyed" => idem'[ask[e].actor][ask[e].key] = 0
    BY DEF CreationInv, KeysOK
  <2>2. to = "keyed" => KeyFree(ask[c]) /\ idem'[ask[c].actor][ask[c].key] = 0
    BY DEF CreationInv, AskOK, Recorded
  <2> QED BY <2>1, <2>2, <1>1, KeysStep DEF CreationInv
<1>7. SlotsOK'
  <2>1. \A e \in Calls, s \in Slots : e # c /\ stage[e] = "counted" /\ ask[e].slot = s =>
          s \in moved' \/ HasRoom(s)'
    BY <1>5 DEF CreationInv, SlotsOK
  <2>2. to = "counted" => /\ ask[c].slot # Nothing => SlotFree(ask[c].slot)
                          /\ \A s \in Slots : ask[c].slot = s => HasRoom(s)'
    BY <1>5, DistinctNothing
  <2> QED BY <2>1, <2>2, <1>1, SlotsStep DEF CreationInv
<1>8. DraftsOK'
  <2>1. \A d \in Drafts : Busy(c, d)' => Busy(c, d) /\ stage[c] # "created"
    BY <1>1 DEF Busy
  <2> QED BY <2>1, <1>1, DraftsStep DEF CreationInv
<1> QED BY <1>3, <1>4, <1>5, <1>6, <1>7, <1>8 DEF CreationInv

\* A request that begins: a customer's, an admin's, or a draft's.
LEMMA BeginStep ==
  ASSUME CreationInv, NEW c \in Calls, NEW to \in {"checked", "loaded"}, NEW r \in Request,
         stage[c] = "idle",
         stage' = [stage EXCEPT ![c] = to], ask' = [ask EXCEPT ![c] = r],
         UNCHANGED made, UNCHANGED bookings, UNCHANGED idem,
         UNCHANGED draft, UNCHANGED lost, UNCHANGED moved, UNCHANGED doubted,
         r.actor \in Admins => r.slot = Nothing /\ r.key # Nothing,
         r.draft # Nothing => to = "loaded" /\ r.actor \in Admins,
         to = "loaded" => r.draft # Nothing
  PROVE  CreationInv'
<1>0. to \in Stages
  BY DEF Stages
<1>1. CallStep(c, to) /\ ask'[c] = r
  BY DEF CallStep, CreationInv, TypeOK
<1>3. TypeOK'
  BY <1>0, <1>1, CallTyped DEF CreationInv, TypeOK
<1>4. AskOK'
  BY <1>0, <1>1, AskStep DEF CreationInv
<1>5. OneBookingPerKey' /\ SlotNeverOverfull' /\ \A s : HasRoom(s)' = HasRoom(s)
  BY BookingsStand
<1>6. KeysOK'
  <2>1. \A e \in Calls : e # c /\ stage[e] = "keyed" => idem'[ask[e].actor][ask[e].key] = 0
    BY DEF CreationInv, KeysOK
  <2> QED BY <2>1, <1>0, <1>1, KeysStep DEF CreationInv
<1>7. SlotsOK'
  <2>1. \A e \in Calls, s \in Slots : e # c /\ stage[e] = "counted" /\ ask[e].slot = s =>
          s \in moved' \/ HasRoom(s)'
    BY <1>5 DEF CreationInv, SlotsOK
  <2> QED BY <2>1, <1>0, <1>1, SlotsStep DEF CreationInv
<1>8. DraftsOK'
  <2>1. \A d \in Drafts : ~Busy(c, d)'
    BY <1>0, <1>1, OthersStand, DistinctNothing DEF Busy, CreationInv
  <2> QED BY <2>1, <1>0, <1>1, DraftsStep DEF CreationInv
<1> QED BY <1>3, <1>4, <1>5, <1>6, <1>7, <1>8 DEF CreationInv

\* A draft's row changes and nothing else: its requests, if any, are over by then.
LEMMA DraftStep ==
  ASSUME CreationInv, NEW d \in Drafts, NEW row,
         row \in Draft,
         draft' = [draft EXCEPT ![d] = row], \A e \in Calls : ~Busy(e, d)',
         \A e \in Calls, x \in Drafts :
           Busy(e, x)' => Busy(e, x) /\ (stage[e] = "created" => stage'[e] = "created"),
         row.status \in Mutable /\ d \notin doubted => Unmade(d),
         UNCHANGED bookings, UNCHANGED doubted
  PROVE  DraftsOK'
<1>1. draft'[d] = row /\ \A x \in Drafts : x # d => draft'[x] = draft[x]
  BY DEF CreationInv, TypeOK
<1>2. Ids' = Ids /\ \A x : Unmade(x)' = Unmade(x)
  BY DEF Ids, Unmade
<1> QED BY <1>1, <1>2 DEF CreationInv, DraftsOK

\* A draft with another status is a draft.
LEMMA DraftTyped ==
  ASSUME TypeOK, NEW d \in Drafts, NEW word \in DraftStatuses
  PROVE  /\ draft \in [Drafts -> Draft] /\ draft[d] \in Draft
         /\ [draft[d] EXCEPT !.status = word] \in Draft
         /\ [draft[d] EXCEPT !.status = word].status = word
<1>1. draft \in [Drafts -> Draft] /\ draft[d] \in Draft
  BY DEF TypeOK, Draft
<1> QED BY <1>1 DEF Draft

\* The same requests are busy with the same drafts while no request moves.
LEMMA BusyStands ==
  ASSUME CreationInv, UNCHANGED stage, UNCHANGED ask
  PROVE  \A e \in Calls, x \in Drafts :
           /\ Busy(e, x)' <=> Busy(e, x)
           /\ stage'[e] = stage[e]
BY DEF Busy

\* A step that changes draft rows only.
LEMMA DraftMoves ==
  ASSUME CreationInv, DraftsOK', draft' \in [Drafts -> Draft], UNCHANGED stage, UNCHANGED ask,
         UNCHANGED made, UNCHANGED bookings, UNCHANGED idem, UNCHANGED lost, UNCHANGED moved,
         UNCHANGED doubted
  PROVE  CreationInv'
<1>1. OneBookingPerKey' /\ SlotNeverOverfull' /\ \A s : HasRoom(s)' = HasRoom(s)
  BY BookingsStand
<1>2. TypeOK' /\ AskOK' /\ KeysOK'
  BY DEF CreationInv, TypeOK, AskOK, KeysOK, Draft
<1>3. SlotsOK'
  BY <1>1 DEF CreationInv, SlotsOK
<1> QED BY <1>1, <1>2, <1>3 DEF CreationInv

\* An autosave: nobody is converting the draft, and no booking was made of it.
LEMMA PatchStep ==
  ASSUME CreationInv, NEW d \in Drafts, PatchDraft(d) PROVE CreationInv'
<1>1. PICK word \in Mutable :
        draft' = [draft EXCEPT ![d].status = word, ![d].content = @ + 1]
  BY DEF PatchDraft
<1> DEFINE row == [draft[d] EXCEPT !.status = word, !.content = @ + 1]
<1>2. draft[d] \in Draft /\ word \in DraftStatuses
  BY DEF CreationInv, TypeOK, Draft, Mutable, DraftStatuses
<1>3. row \in Draft /\ row.status = word
  <2>1. draft[d].content \in Nat /\ draft[d].content + 1 \in 0..MaxEdits
    BY <1>2, BoundsAssumption DEF Draft, PatchDraft
  <2> QED BY <1>2, <2>1 DEF Draft
<1>4. draft' = [draft EXCEPT ![d] = row]
  BY <1>1 DEF CreationInv, TypeOK
<1>5. \A e \in Calls : ~Busy(e, d)
  BY DEF PatchDraft, CreationInv, DraftsOK, Mutable
<1>6. d \notin doubted => Unmade(d)
  BY DEF PatchDraft, CreationInv, DraftsOK
<1> HIDE DEF row
<1>7. DraftsOK'
  BY <1>3, <1>4, <1>5, <1>6, BusyStands, DraftStep DEF PatchDraft, callVars
<1>8. draft' \in [Drafts -> Draft]
  BY <1>3, <1>4 DEF CreationInv, TypeOK, Draft
<1> QED BY <1>7, <1>8, DraftMoves DEF PatchDraft, callVars

\* Discarding, or expiry, of a draft nobody is converting.
LEMMA CloseStep ==
  ASSUME CreationInv, NEW d \in Drafts, CloseDraft(d) PROVE CreationInv'
<1>1. PICK word \in {"discarded", "expired"} : draft' = [draft EXCEPT ![d].status = word]
  BY DEF CloseDraft, SetDraft
<1> DEFINE row == [draft[d] EXCEPT !.status = word]
<1>2. word \in DraftStatuses /\ word \notin Mutable
  BY DEF Mutable, DraftStatuses
<1>3. row \in Draft /\ row.status = word
  BY <1>2, DraftTyped DEF CreationInv
<1>4. draft' = [draft EXCEPT ![d] = row]
  BY <1>1 DEF CreationInv, TypeOK
<1>5. \A e \in Calls : ~Busy(e, d)
  BY DEF CloseDraft, CreationInv, DraftsOK, Mutable
<1> HIDE DEF row
<1>7. DraftsOK'
  BY <1>2, <1>3, <1>4, <1>5, BusyStands, DraftStep DEF CloseDraft, callVars
<1>8. draft' \in [Drafts -> Draft]
  BY <1>3, <1>4 DEF CreationInv, TypeOK, Draft
<1> QED BY <1>7, <1>8, DraftMoves DEF CloseDraft, callVars

\* The two last writes on a draft: its request is the only one that is busy with it.
LEMMA LastWrite ==
  ASSUME CreationInv, NEW c \in Calls, NEW d \in Drafts, ask[c].draft = d,
         NEW row \in Draft, stage[c] \in {"created", "failed"},
         draft' = [draft EXCEPT ![d] = row], End(c),
         row.status \in Mutable => stage[c] = "failed",
         UNCHANGED bookings, UNCHANGED idem, UNCHANGED lost, UNCHANGED moved, UNCHANGED doubted
  PROVE  CreationInv'
<1>1. draft' \in [Drafts -> Draft]
  BY DEF CreationInv, TypeOK, Draft
<1>2. /\ TypeOK' /\ AskOK' /\ KeysOK' /\ SlotsOK' /\ OneBookingPerKey' /\ SlotNeverOverfull'
      /\ CallStep(c, "idle") /\ \A x \in Drafts : ~Busy(c, x)'
  BY <1>1, EndKeeps
<1>3. \A e \in Calls : e # c => stage'[e] = stage[e] /\ ask'[e] = ask[e]
  BY <1>2, OthersStand DEF Stages, CreationInv
<1>4. Busy(c, d)
  BY DEF Busy
<1>5. \A e \in Calls, x \in Drafts :
        Busy(e, x)' => Busy(e, x) /\ (stage[e] = "created" => stage'[e] = "created")
  BY <1>2, <1>3 DEF Busy
<1>6. \A e \in Calls : ~Busy(e, d)'
  BY <1>1, <1>2, <1>4, <1>5 DEF CreationInv, DraftsOK
<1>7. row.status \in Mutable /\ d \notin doubted => Unmade(d)
  BY <1>1, <1>4 DEF CreationInv, DraftsOK
<1>8. DraftsOK'
  BY <1>1, <1>5, <1>6, <1>7, DraftStep
<1> QED BY <1>2, <1>8 DEF CreationInv

\* The UPDATE that takes a draft for conversion: nobody else has it.
LEMMA ClaimStep ==
  ASSUME CreationInv, NEW c \in Calls, NEW d \in Drafts, ask[c].draft = d,
         stage[c] = "loaded", Convertible(d), SetDraft(d, "converting"), Go(c, "claimed"),
         UNCHANGED bookings, UNCHANGED idem, UNCHANGED lost, UNCHANGED moved, UNCHANGED doubted
  PROVE  CreationInv'
<1> DEFINE row == [draft[d] EXCEPT !.status = "converting"]
<1>1. ask[c] \in Request
  BY AskTyped DEF CreationInv
<1>2. row \in Draft /\ row.status = "converting"
  BY <1>1, DraftTyped DEF CreationInv, DraftStatuses
<1>3. draft' = [draft EXCEPT ![d] = row]
  BY DEF SetDraft, CreationInv, TypeOK
<1>4. CallStep(c, "claimed") /\ ask'[c] = ask[c] /\ "claimed" \in Stages
  BY DEF Go, CallStep, CreationInv, TypeOK, Stages
<1>5. /\ stage'[c] = "claimed"
      /\ \A e \in Calls : e # c => stage'[e] = stage[e] /\ ask'[e] = ask[e]
  BY <1>4, OthersStand DEF CreationInv
<1>6. OneBookingPerKey' /\ SlotNeverOverfull' /\ \A s : HasRoom(s)' = HasRoom(s)
  BY BookingsStand
<1> HIDE DEF row
<1>7. TypeOK'
  BY <1>1, <1>2, <1>3, <1>4, CallTyped DEF CreationInv, TypeOK, Go, Draft
<1>8. AskOK'
  BY <1>4, AskStep DEF CreationInv, AskOK
<1>9. KeysOK'
  <2>1. \A e \in Calls : e # c /\ stage[e] = "keyed" => idem'[ask[e].actor][ask[e].key] = 0
    BY DEF CreationInv, KeysOK
  <2> QED BY <2>1, <1>4, KeysStep DEF CreationInv
<1>10. SlotsOK'
  <2>1. \A e \in Calls, s \in Slots : e # c /\ stage[e] = "counted" /\ ask[e].slot = s =>
          s \in moved' \/ HasRoom(s)'
    BY <1>6 DEF CreationInv, SlotsOK
  <2> QED BY <2>1, <1>4, SlotsStep DEF CreationInv
<1>11. DraftsOK'
  <2>1. draft'[d] = row /\ \A x \in Drafts : x # d => draft'[x] = draft[x]
    BY <1>1, <1>3 DEF CreationInv, TypeOK
  <2>2. Ids' = Ids /\ \A x : Unmade(x)' = Unmade(x)
    BY DEF Ids, Unmade
  <2>3. draft[d].status \in Mutable /\ \A e \in Calls : ~Busy(e, d)
    BY <1>1 DEF Convertible, CreationInv, DraftsOK, Mutable
  <2>4. d \notin doubted => Unmade(d)
    BY <1>1, <2>3 DEF CreationInv, DraftsOK
  <2>5. \A e \in Calls, x \in Drafts : x # d /\ Busy(e, x)' =>
          e # c /\ Busy(e, x) /\ stage'[e] = stage[e]
    BY <1>4, <1>5 DEF Busy
  <2>6. \A e \in Calls : Busy(e, d)' => e = c
    BY <1>5, <2>3 DEF Busy
  <2>7. \A x \in Drafts, e \in Calls : Busy(e, x)' =>
          draft'[x].status = "converting" /\ \A f \in Calls : Busy(f, x)' => f = e
    BY <1>2, <2>1, <2>5, <2>6 DEF CreationInv, DraftsOK
  <2>8. ASSUME NEW x \in Drafts \ doubted
        PROVE  /\ draft'[x].status \in Mutable => Unmade(x)
               /\ \A e \in Calls : Busy(e, x)' /\ stage'[e] # "created" => Unmade(x)
    BY <1>2, <2>1, <2>4, <2>5 DEF CreationInv, DraftsOK, Mutable
  <2> QED BY <2>2, <2>7, <2>8 DEF CreationInv, DraftsOK
<1> QED BY <1>6, <1>7, <1>8, <1>9, <1>10, <1>11 DEF CreationInv

-----------------------------------------------------------------------------
\* A booking is made: what the tables are afterwards.
LEMMA InsertTables ==
  ASSUME TypeOK, NEW r \in Request, Insert(r), Recorded(r) = 0
  PROVE  /\ Len(bookings) \in Nat /\ Len(bookings) + 1 \in 0..MaxBookings
         /\ Len(bookings') = Len(bookings) + 1 /\ Ids' = Ids \cup {Len(bookings) + 1}
         /\ Len(bookings) + 1 \notin Ids
         /\ bookings' \in Seq(Booking)
         /\ \A i \in Ids : bookings'[i] = bookings[i]
         /\ bookings'[Len(bookings) + 1] = Row(r)
<1>1. Len(bookings) \in Nat /\ Len(bookings) + 1 \in 0..MaxBookings /\ bookings \in Seq(Booking)
  BY LenProperties, BoundsAssumption DEF TypeOK, Insert
<1>2. Row(r) \in Booking
  BY DEF Request, Booking, Row
<1>3. bookings' = Append(bookings, Row(r))
  BY DEF Insert
<1>4. /\ bookings' \in Seq(Booking) /\ Len(bookings') = Len(bookings) + 1
      /\ \A i \in 1..Len(bookings) : bookings'[i] = bookings[i]
      /\ bookings'[Len(bookings) + 1] = Row(r)
  BY <1>1, <1>2, <1>3, AppendProperties
<1>5. Ids' = Ids \cup {Len(bookings) + 1} /\ Len(bookings) + 1 \notin Ids
  BY <1>1, <1>4 DEF Ids
<1> QED BY <1>1, <1>4, <1>5 DEF Ids

\* The key table after an insert: the caller's key names the new row.
LEMMA InsertKeys ==
  ASSUME TypeOK, NEW r \in Request, Insert(r), Recorded(r) = 0
  PROVE  /\ idem' \in [Actors -> [Keys -> 0..MaxBookings]]
         /\ r.key # Nothing => idem'[r.actor][r.key] = Len(bookings) + 1 /\ idem[r.actor][r.key] = 0
         /\ \A a \in Actors, k \in Keys :
              ~(a = r.actor /\ k = r.key) => idem'[a][k] = idem[a][k]
<1>1. r.actor \in Actors /\ r.key \in Keys \cup {Nothing}
  BY DEF Request
<1>2. Len(bookings) + 1 \in 0..MaxBookings
  BY InsertTables
<1>3. idem \in [Actors -> [Keys -> 0..MaxBookings]]
  BY DEF TypeOK
<1>4. CASE r.key = Nothing
  <2>1. idem' = idem
    BY <1>4 DEF Insert
  <2> QED BY <2>1, <1>3, <1>4
<1>5. CASE r.key # Nothing
  <2>1. r.key \in Keys /\ idem[r.actor][r.key] = 0
    BY <1>1, <1>5 DEF Recorded
  <2>2. idem' = [idem EXCEPT ![r.actor][r.key] = Len(bookings) + 1]
    BY <1>5 DEF Insert
  <2> QED BY <2>1, <2>2, <1>1, <1>2, <1>3
<1> QED BY <1>4, <1>5

\* The new row is the only one under its key, for the key had none.
LEMMA InsertOncePerKey ==
  ASSUME TypeOK, OneBookingPerKey, NEW r \in Request, Insert(r), Recorded(r) = 0
  PROVE  OneBookingPerKey'
<1> DEFINE n == Len(bookings) + 1
<1>1. /\ Ids' = Ids \cup {n} /\ n \notin Ids
      /\ \A i \in Ids : bookings'[i] = bookings[i]
      /\ bookings'[n] = Row(r)
  BY InsertTables
<1>2. /\ r.key # Nothing => idem'[r.actor][r.key] = n /\ idem[r.actor][r.key] = 0
      /\ \A a \in Actors, k \in Keys :
           ~(a = r.actor /\ k = r.key) => idem'[a][k] = idem[a][k]
  BY InsertKeys
<1>3. \A i \in Ids : /\ i >= 1 /\ i \in Nat
                     /\ bookings[i].actor \in Actors /\ bookings[i].key \in Keys \cup {Nothing}
  BY BookingIds DEF Booking
<1> HIDE DEF n
<1>4. ASSUME NEW i \in Ids, bookings'[i].key # Nothing
      PROVE  idem'[bookings'[i].actor][bookings'[i].key] = i
  <2>1. /\ bookings[i].actor \in Actors /\ bookings[i].key \in Keys
        /\ idem[bookings[i].actor][bookings[i].key] = i /\ i # 0
    BY <1>1, <1>3, <1>4 DEF OneBookingPerKey
  <2>2. ~(bookings[i].actor = r.actor /\ bookings[i].key = r.key)
    BY <2>1, <1>2, DistinctNothing
  <2> QED BY <2>1, <2>2, <1>1, <1>2
<1>5. bookings'[n].key # Nothing => idem'[bookings'[n].actor][bookings'[n].key] = n
  BY <1>1, <1>2 DEF Row
<1> QED BY <1>1, <1>4, <1>5 DEF OneBookingPerKey

\* The bookings of a slot are finitely many.
LEMMA SlotSets ==
  ASSUME TypeOK, NEW s
  PROVE  IsFiniteSet(InSlot(s)) /\ Cardinality(InSlot(s)) \in Nat
<1>1. IsFiniteSet(Ids)
  BY BookingIds, FS_Interval
<1>2. InSlot(s) \subseteq Ids
  BY DEF InSlot
<1> QED BY <1>1, <1>2, FS_Subset, FS_CardinalityType

\* The bookings of a slot after an insert.
LEMMA InsertSlots ==
  ASSUME TypeOK, NEW r \in Request, Insert(r), Recorded(r) = 0, NEW s \in Slots
  PROVE  /\ r.slot # s => InSlot(s)' = InSlot(s)
         /\ r.slot = s => Cardinality(InSlot(s)') = Cardinality(InSlot(s)) + 1
<1> DEFINE n == Len(bookings) + 1
<1>1. /\ Ids' = Ids \cup {n} /\ n \notin Ids
      /\ \A i \in Ids : bookings'[i] = bookings[i]
      /\ bookings'[n] = Row(r)
  BY InsertTables
<1> HIDE DEF n
<1>2. bookings'[n].slot = r.slot /\ bookings'[n].open
  BY <1>1 DEF Row
<1>3. r.slot # s => InSlot(s)' = InSlot(s)
  BY <1>1, <1>2 DEF InSlot
<1>4. ASSUME r.slot = s PROVE Cardinality(InSlot(s)') = Cardinality(InSlot(s)) + 1
  <2>1. InSlot(s)' = InSlot(s) \cup {n}
    BY <1>1, <1>2, <1>4 DEF InSlot
  <2>2. n \notin InSlot(s)
    BY <1>1 DEF InSlot
  <2> QED BY <2>1, <2>2, SlotSets, FS_AddElement
<1> QED BY <1>3, <1>4

\* The commit of a customer's or an admin's booking, its answer known or lost.
LEMMA InsertStep ==
  ASSUME CreationInv, NEW c \in Calls, NEW to \in {"idle", "created", "failed"},
         stage[c] \in {"counted", "keyed"}, Insert(ask[c]), Recorded(ask[c]) = 0,
         CallStep(c, to), IF to = "idle" THEN ask'[c] = Nothing ELSE ask'[c] = ask[c],
         to = "idle" <=> ask[c].draft = Nothing,
         made' \in [Calls -> 0..MaxBookings], lost' \in 0..MaxLost,
         UNCHANGED draft, UNCHANGED moved,
         doubted' = doubted \/ doubted' = doubted \cup ({ask[c].draft} \ {Nothing}),
         to = "failed" => ask[c].draft \in doubted'
  PROVE  CreationInv'
<1>1. TypeOK /\ to \in Stages
  BY DEF CreationInv, Stages
<1> DEFINE r == ask[c]
           n == Len(bookings) + 1
<1>2. /\ r \in Request /\ r.actor \in Actors
      /\ r.key \in Keys \cup {Nothing} /\ r.slot \in Slots \cup {Nothing}
      /\ r.draft \in Drafts \cup {Nothing}
  BY <1>1, AskTyped
<1>3. /\ n \in 0..MaxBookings /\ Ids' = Ids \cup {n} /\ n \notin Ids
      /\ bookings' \in Seq(Booking)
      /\ \A i \in Ids : bookings'[i] = bookings[i]
      /\ bookings'[n] = Row(r)
  BY <1>1, <1>2, InsertTables
<1>4. /\ stage'[c] = to
      /\ \A e \in Calls : e # c => stage'[e] = stage[e] /\ ask'[e] = ask[e]
  BY <1>1, OthersStand
<1>5. TypeOK'
  <2>1. doubted' \subseteq Drafts
    BY <1>1, <1>2 DEF TypeOK
  <2>2. idem' \in [Actors -> [Keys -> 0..MaxBookings]]
    BY <1>1, <1>2, InsertKeys
  <2>3. /\ stage' \in [Calls -> Stages] /\ ask' \in [Calls -> Request \cup {Nothing}]
        /\ \A e \in Calls : IF stage'[e] = "idle" THEN ask'[e] = Nothing ELSE ask'[e] \in Request
    BY <1>1, <1>2, CallTyped
  <2> QED BY <2>1, <2>2, <2>3, <1>1, <1>3 DEF TypeOK
<1>6. AskOK'
  BY <1>1, AskStep DEF CreationInv, AskOK
<1>7. OneBookingPerKey'
  BY <1>1, <1>2, InsertOncePerKey DEF CreationInv
<1>8. KeysOK'
  <2>1. ASSUME NEW e \in Calls, e # c, stage[e] = "keyed"
        PROVE  idem'[ask[e].actor][ask[e].key] = 0
    <3>1. /\ ask[e].actor \in Admins /\ ask[e].actor \in Actors /\ ask[e].key \in Keys
          /\ idem[ask[e].actor][ask[e].key] = 0
      BY <2>1, AskTyped DEF CreationInv, AskOK, KeysOK
    <3>2. ~(ask[e].actor = r.actor /\ ask[e].key = r.key)
      BY <2>1, <3>1, RolesAssumption DEF CreationInv, AskOK, KeysOK
    <3> QED BY <3>1, <3>2, <1>1, <1>2, InsertKeys
  <2> QED BY <2>1, <1>1, KeysStep DEF CreationInv
<1>9. SlotsOK'
  <2>1. ASSUME NEW e \in Calls, NEW s \in Slots, e # c, stage[e] = "counted", ask[e].slot = s
        PROVE  s \in moved' \/ HasRoom(s)'
    <3>1. s \in moved \/ HasRoom(s)
      BY <2>1 DEF CreationInv, SlotsOK
    <3>2. r.slot # s
      BY <2>1, DistinctNothing DEF CreationInv, SlotsOK, AskOK
    <3>3. InSlot(s)' = InSlot(s)
      BY <3>2, <1>1, <1>2, InsertSlots
    <3> QED BY <3>1, <3>3 DEF HasRoom
  <2> QED BY <2>1, <1>1, SlotsStep DEF CreationInv
<1>10. SlotNeverOverfull'
  <2> SUFFICES ASSUME NEW s \in Slots \ moved PROVE Cardinality(InSlot(s)') <= Capacity[s]
    BY DEF SlotNeverOverfull
  <2>1. CASE r.slot # s
    BY <2>1, <1>1, <1>2, InsertSlots DEF CreationInv, SlotNeverOverfull
  <2>2. CASE r.slot = s
    <3>1. stage[c] = "counted"
      BY <2>2, DistinctNothing DEF CreationInv, AskOK
    <3>2. Cardinality(InSlot(s)) < Capacity[s] /\ Capacity[s] \in Nat
      BY <3>1, <2>2, SlotsAssumption DEF CreationInv, SlotsOK, HasRoom
    <3>3. Cardinality(InSlot(s)') = Cardinality(InSlot(s)) + 1 /\ Cardinality(InSlot(s)) \in Nat
      BY <2>2, <1>1, <1>2, InsertSlots, SlotSets
    <3> QED BY <3>2, <3>3
  <2> QED BY <2>1, <2>2
<1>11. DraftsOK'
  <2>1. \A e \in Calls, x \in Drafts :
          Busy(e, x)' => Busy(e, x) /\ (stage[e] = "created" => stage'[e] = "created")
    <3>1. stage[c] = "counted" => ask[c].draft = Nothing
      BY RolesAssumption DEF CreationInv, AskOK
    <3> QED BY <3>1, <1>4, DistinctNothing DEF Busy
  <2>2. \A x \in Drafts : r.draft # x => (Unmade(x)' <=> Unmade(x))
    <3>1. bookings'[n].draft = r.draft
      BY <1>3 DEF Row
    <3> HIDE DEF n, r
    <3> QED BY <3>1, <1>3 DEF Unmade
  <2>3. ASSUME NEW x \in Drafts, r.draft = x
        PROVE  /\ Busy(c, x) /\ stage[c] = "keyed"
               /\ to = "created" \/ (to = "failed" /\ x \in doubted')
    BY <2>3, DistinctNothing, RolesAssumption DEF CreationInv, AskOK, Busy
  <2>4. ASSUME NEW d \in Drafts \ doubted'
        PROVE  /\ draft[d].status \in Mutable => Unmade(d)'
               /\ \A e \in Calls : Busy(e, d)' /\ stage'[e] # "created" => Unmade(d)'
               /\ \A i, j \in Ids' : bookings'[i].draft = d /\ bookings'[j].draft = d => i = j
    <3>0. d \in Drafts \ doubted
      OBVIOUS
    <3>1. CASE r.draft # d
      <4>1. /\ draft[d].status \in Mutable => Unmade(d)'
            /\ \A e \in Calls : Busy(e, d)' /\ stage'[e] # "created" => Unmade(d)'
        BY <3>0, <3>1, <2>1, <2>2 DEF CreationInv, DraftsOK
      <4>2. \A i, j \in Ids' : bookings'[i].draft = d /\ bookings'[j].draft = d => i = j
        BY <3>0, <3>1, <1>3 DEF CreationInv, DraftsOK, Row
      <4> QED BY <4>1, <4>2
    <3>2. CASE r.draft = d
      <4>1. Busy(c, d) /\ stage[c] = "keyed" /\ to = "created"
        BY <3>2, <2>3
      <4>2. draft[d].status = "converting" /\ Unmade(d) /\ \A e \in Calls : Busy(e, d) => e = c
        BY <3>0, <4>1 DEF CreationInv, DraftsOK
      <4>3. \A i, j \in Ids' : bookings'[i].draft = d /\ bookings'[j].draft = d => i = j
        BY <4>2, <1>3 DEF Unmade
      <4> QED BY <4>1, <4>2, <4>3, <2>1, <1>4 DEF Mutable
    <3> QED BY <3>1, <3>2
  <2>5. \A d \in Drafts, e \in Calls : Busy(e, d)' =>
          draft[d].status = "converting" /\ \A f \in Calls : Busy(f, d)' => f = e
    BY <2>1 DEF CreationInv, DraftsOK
  <2> QED BY <2>4, <2>5 DEF DraftsOK
<1> QED BY <1>5, <1>6, <1>7, <1>8, <1>9, <1>10, <1>11 DEF CreationInv

-----------------------------------------------------------------------------
\* A booking ends or moves: its caller, key and draft stay.
LEMMA BookingStep ==
  ASSUME CreationInv, NEW i \in Ids, NEW row \in Booking, bookings' = [bookings EXCEPT ![i] = row],
         row.actor = bookings[i].actor, row.key = bookings[i].key, row.draft = bookings[i].draft,
         moved \subseteq moved', moved' \subseteq Slots,
         row.open => row.slot = bookings[i].slot \/ row.slot \in moved', row.open => bookings[i].open,
         UNCHANGED stage, UNCHANGED ask, UNCHANGED made, UNCHANGED idem, UNCHANGED draft,
         UNCHANGED lost, UNCHANGED doubted
  PROVE  CreationInv'
<1>1. bookings \in Seq(Booking) /\ i \in 1..Len(bookings) /\ TypeOK
  BY DEF CreationInv, TypeOK, Ids
<1>2. /\ bookings' \in Seq(Booking) /\ Ids' = Ids
      /\ bookings'[i] = row /\ \A j \in Ids : j # i => bookings'[j] = bookings[j]
  BY <1>1, ExceptSeq DEF Ids
<1>3. /\ \A j \in Ids : /\ bookings'[j].actor = bookings[j].actor
                        /\ bookings'[j].key = bookings[j].key
                        /\ bookings'[j].draft = bookings[j].draft
  BY <1>2
<1>4. TypeOK' /\ AskOK' /\ KeysOK'
  BY <1>2 DEF CreationInv, TypeOK, AskOK, KeysOK
<1>5. OneBookingPerKey'
  BY <1>2, <1>3 DEF CreationInv, OneBookingPerKey
<1>6. \A s : s \notin moved' => InSlot(s)' \subseteq InSlot(s)
  BY <1>2 DEF InSlot
<1>7. \A s : s \notin moved' =>
        /\ Cardinality(InSlot(s)') <= Cardinality(InSlot(s))
        /\ Cardinality(InSlot(s)') \in Nat /\ Cardinality(InSlot(s)) \in Nat
  BY <1>1, <1>6, SlotSets, FS_Subset, FS_CardinalityType
<1>8. SlotNeverOverfull'
  <2> SUFFICES ASSUME NEW s \in Slots \ moved' PROVE Cardinality(InSlot(s)') <= Capacity[s]
    BY DEF SlotNeverOverfull
  <2>1. Cardinality(InSlot(s)) <= Capacity[s] /\ Capacity[s] \in Nat
    BY SlotsAssumption DEF CreationInv, SlotNeverOverfull
  <2> QED BY <2>1, <1>7
<1>9. SlotsOK'
  <2>1. ASSUME NEW s \in Slots, s \in moved \/ HasRoom(s) PROVE s \in moved' \/ HasRoom(s)'
    <3>1. CASE s \in moved'
      BY <3>1
    <3>2. CASE s \notin moved'
      <4>1. Cardinality(InSlot(s)) < Capacity[s] /\ Capacity[s] \in Nat
        BY <2>1, <3>2, SlotsAssumption DEF HasRoom
      <4>2. Cardinality(InSlot(s)') < Capacity[s]
        BY <4>1, <3>2, <1>7
      <4> QED BY <4>2 DEF HasRoom
    <3> QED BY <3>1, <3>2
  <2> QED BY <2>1 DEF CreationInv, SlotsOK
<1>10. DraftsOK'
  <2>1. \A d : Unmade(d)' <=> Unmade(d)
    BY <1>2, <1>3 DEF Unmade
  <2>2. \A c \in Calls, d \in Drafts : Busy(c, d)' <=> Busy(c, d)
    BY DEF Busy
  <2> QED BY <1>2, <1>3, <2>1, <2>2 DEF CreationInv, DraftsOK
<1> QED BY <1>4, <1>5, <1>8, <1>9, <1>10 DEF CreationInv

\* A booking that ends leaves its slot.
LEMMA FinishStep ==
  ASSUME CreationInv, NEW i \in Ids, Finish(i) PROVE CreationInv'
<1> DEFINE row == [bookings[i] EXCEPT !.open = FALSE]
<1>1. bookings[i] \in Booking
  BY BookingIds DEF CreationInv
<1>2. /\ row \in Booking /\ ~row.open
      /\ row.actor = bookings[i].actor /\ row.key = bookings[i].key /\ row.draft = bookings[i].draft
  BY <1>1 DEF Booking
<1>3. bookings' = [bookings EXCEPT ![i] = row]
  BY DEF Finish
<1>4. moved' \subseteq Slots
  BY DEF Finish, CreationInv, TypeOK
<1> HIDE DEF row
<1> QED BY <1>2, <1>3, <1>4, BookingStep DEF Finish, callVars

\* A booking moved by a reschedule: its new slot counts as moved into.
LEMMA MoveStep ==
  ASSUME CreationInv, NEW i \in Ids, NEW s \in Slots, Move(i, s) PROVE CreationInv'
<1> DEFINE row == [bookings[i] EXCEPT !.slot = s]
<1>1. bookings[i] \in Booking
  BY BookingIds DEF CreationInv
<1>2. /\ row \in Booking /\ row.slot = s /\ row.open = bookings[i].open
      /\ row.actor = bookings[i].actor /\ row.key = bookings[i].key /\ row.draft = bookings[i].draft
  BY <1>1 DEF Booking
<1>3. bookings' = [bookings EXCEPT ![i] = row]
  BY DEF Move
<1>4. moved' \subseteq Slots /\ moved \subseteq moved' /\ s \in moved'
  BY DEF Move, CreationInv, TypeOK
<1> HIDE DEF row
<1> QED BY <1>2, <1>3, <1>4, BookingStep DEF Move, callVars

-----------------------------------------------------------------------------
\* A customer or an admin submits.
LEMMA SubmitStep ==
  ASSUME CreationInv, NEW c \in Calls, NEW a \in Actors, NEW k \in Keys \cup {Nothing},
         NEW s \in Slots \cup {Nothing}, Submit(c, a, k, s),
         a \in Admins => s = Nothing /\ k # Nothing
  PROVE  CreationInv'
<1> DEFINE r == [actor |-> a, key |-> k, slot |-> s, draft |-> Nothing, content |-> 0]
<1>1. r \in Request /\ r.actor = a /\ r.key = k /\ r.slot = s /\ r.draft = Nothing
  BY BoundsAssumption DEF Request
<1>2. ask' = [ask EXCEPT ![c] = r]
  BY DEF Submit
<1> HIDE DEF r
<1> QED BY <1>1, <1>2, BeginStep DEF Submit

\* A draft is read for conversion.
LEMMA LoadStep ==
  ASSUME CreationInv, NEW c \in Calls, NEW d \in Drafts, NEW k \in Keys, LoadDraft(c, d, k)
  PROVE  CreationInv'
<1> DEFINE r == [actor |-> Owner[d], key |-> k, slot |-> Nothing,
                 draft |-> d, content |-> draft[d].content]
<1>1. draft[d].content \in 0..MaxEdits /\ Owner[d] \in Admins
  BY DraftsAssumption DEF CreationInv, TypeOK
<1>2. r \in Request /\ r.actor \in Admins /\ r.key # Nothing /\ r.slot = Nothing /\ r.draft # Nothing
  BY <1>1, DistinctNothing DEF Request, Actors
<1>3. ask' = [ask EXCEPT ![c] = r]
  BY DEF LoadDraft
<1> HIDE DEF r
<1> QED BY <1>2, <1>3, BeginStep DEF LoadDraft

\* A request is answered without a booking being made.
LEMMA AnswerStep ==
  ASSUME CreationInv, NEW c \in Calls, NEW id \in 0..MaxBookings, Answer(c, id),
         stage[c] \in {"claimed", "checked"},
         UNCHANGED bookings, UNCHANGED idem, UNCHANGED draft, UNCHANGED lost, UNCHANGED moved,
         UNCHANGED doubted
  PROVE  CreationInv'
<1>1. CASE ask[c].draft = Nothing
  BY <1>1, EndStep DEF Answer
<1>2. CASE ask[c].draft # Nothing
  <2> DEFINE to == IF id = 0 THEN "failed" ELSE "created"
  <2>1. to \in {"created", "failed"} /\ to \in Stages /\ to # "idle"
    BY DEF Stages
  <2>2. stage' = [stage EXCEPT ![c] = to] /\ UNCHANGED ask /\ made' \in [Calls -> 0..MaxBookings]
    BY <1>2 DEF Answer, CreationInv, TypeOK
  <2> HIDE DEF to
  <2> QED BY <1>2, <2>1, <2>2, GoStep
<1> QED BY <1>1, <1>2

\* The lookup of a claimed draft's key.
LEMMA CheckStep ==
  ASSUME CreationInv, NEW c \in Calls, CheckForDraft(c) PROVE CreationInv'
<1>1. stage[c] = "claimed" /\ Recorded(ask[c]) \in 0..MaxBookings
  BY AskTyped DEF CheckForDraft, CreationInv
<1>2. CASE Recorded(ask[c]) # 0
  BY <1>1, <1>2, AnswerStep DEF CheckForDraft
<1>3. CASE Recorded(ask[c]) = 0
  <2>1. Go(c, "checked") /\ "checked" \in Stages /\ made' \in [Calls -> 0..MaxBookings]
    BY <1>3 DEF CheckForDraft, Stages, Go, CreationInv, TypeOK
  <2> QED BY <1>1, <2>1, GoStep DEF CheckForDraft, Go
<1> QED BY <1>2, <1>3

\* The slot is locked and counted.
LEMMA LockSlotStep ==
  ASSUME CreationInv, NEW c \in Calls, LockSlot(c) PROVE CreationInv'
<1> DEFINE s == ask[c].slot
<1>1. CASE s = Nothing \/ HasRoom(s)
  <2>1. Go(c, "counted") /\ "counted" \in Stages /\ made' \in [Calls -> 0..MaxBookings]
    BY <1>1 DEF LockSlot, Stages, Go, CreationInv, TypeOK
  <2> QED BY <1>1, <2>1, GoStep DEF LockSlot, Go
<1>2. CASE ~(s = Nothing \/ HasRoom(s))
  BY <1>2, EndStep DEF LockSlot
<1> QED BY <1>1, <1>2

\* The key is locked and looked up again.
LEMMA LockKeyStep ==
  ASSUME CreationInv, NEW c \in Calls, LockKey(c) PROVE CreationInv'
<1>1. CASE TwinCommitted(ask[c])
  <2>1. Answer(c, 0) /\ 0 \in 0..MaxBookings
    BY <1>1, BoundsAssumption DEF LockKey
  <2> QED BY <2>1, AnswerStep DEF LockKey
<1>2. CASE ~TwinCommitted(ask[c])
  <2>1. Go(c, "keyed") /\ "keyed" \in Stages /\ made' \in [Calls -> 0..MaxBookings]
    BY <1>2 DEF LockKey, Stages, Go, CreationInv, TypeOK
  <2> QED BY <1>2, <2>1, GoStep DEF LockKey, Go, TwinCommitted
<1> QED BY <1>1, <1>2

\* A customer's booking commits, or its twin is answered.
LEMMA CustomerStep ==
  ASSUME CreationInv, NEW c \in Calls, CommitCustomer(c) PROVE CreationInv'
<1>1. CASE TwinCommitted(ask[c])
  BY <1>1, EndStep DEF CommitCustomer
<1>2. CASE ~TwinCommitted(ask[c])
  <2>1. ask[c].draft = Nothing
    BY RolesAssumption DEF CommitCustomer, CreationInv, AskOK
  <2>2. /\ CallStep(c, "idle") /\ ask'[c] = Nothing
        /\ made' \in [Calls -> 0..MaxBookings] /\ lost' \in 0..MaxLost
    BY BoundsAssumption DEF CommitCustomer, End, CallStep, CreationInv, TypeOK
  <2> QED BY <1>2, <2>1, <2>2, InsertStep DEF CommitCustomer, TwinCommitted
<1> QED BY <1>1, <1>2

\* What an answer does to its request, a booking having been made.
LEMMA AnswerMoves ==
  ASSUME CreationInv, NEW c \in Calls, NEW id \in 0..MaxBookings, Answer(c, id)
  PROVE  \E to \in {"idle", "created", "failed"} :
           /\ CallStep(c, to) /\ IF to = "idle" THEN ask'[c] = Nothing ELSE ask'[c] = ask[c]
           /\ to = "idle" <=> ask[c].draft = Nothing
           /\ made' \in [Calls -> 0..MaxBookings]
           /\ to = "failed" => id = 0
<1>1. CASE ask[c].draft = Nothing
  <2>1. /\ CallStep(c, "idle") /\ ask'[c] = Nothing /\ made' \in [Calls -> 0..MaxBookings]
    BY <1>1, BoundsAssumption DEF Answer, End, CallStep, CreationInv, TypeOK
  <2> QED BY <1>1, <2>1
<1>2. CASE ask[c].draft # Nothing
  <2> DEFINE to == IF id = 0 THEN "failed" ELSE "created"
  <2>1. CallStep(c, to) /\ ask'[c] = ask[c] /\ made' \in [Calls -> 0..MaxBookings]
    BY <1>2 DEF Answer, CallStep, CreationInv, TypeOK
  <2>2. to \in {"created", "failed"} /\ (to = "failed" => id = 0) /\ to # "idle"
    OBVIOUS
  <2> HIDE DEF to
  <2> QED BY <1>2, <2>1, <2>2
<1> QED BY <1>1, <1>2

\* An admin's booking commits, its answer known or lost.
LEMMA AdminStep ==
  ASSUME CreationInv, NEW c \in Calls, CommitAdmin(c) \/ LoseAnswer(c) PROVE CreationInv'
<1>1. ask[c] \in Request /\ Recorded(ask[c]) = 0 /\ Insert(ask[c])
  BY AskTyped DEF CommitAdmin, LoseAnswer, CreationInv, AskOK, KeysOK, Recorded
<1>2. /\ Len(bookings') \in 0..MaxBookings /\ Len(bookings') # 0 /\ 0 \in 0..MaxBookings
  BY <1>1, InsertTables, BoundsAssumption DEF CreationInv
<1>3. CASE CommitAdmin(c)
  <2>1. Answer(c, Len(bookings')) /\ lost' \in 0..MaxLost
    BY <1>3 DEF CommitAdmin, CreationInv, TypeOK
  <2>2. PICK to \in {"idle", "created", "failed"} :
           /\ CallStep(c, to) /\ IF to = "idle" THEN ask'[c] = Nothing ELSE ask'[c] = ask[c]
           /\ to = "idle" <=> ask[c].draft = Nothing
           /\ made' \in [Calls -> 0..MaxBookings]
           /\ to # "failed"
    BY <1>2, <2>1, AnswerMoves
  <2> QED BY <1>1, <1>3, <2>1, <2>2, InsertStep DEF CommitAdmin
<1>4. CASE LoseAnswer(c)
  <2>1. Answer(c, 0) /\ lost' \in 0..MaxLost
    BY <1>4, BoundsAssumption DEF LoseAnswer, CreationInv, TypeOK
  <2>2. PICK to \in {"idle", "created", "failed"} :
           /\ CallStep(c, to) /\ IF to = "idle" THEN ask'[c] = Nothing ELSE ask'[c] = ask[c]
           /\ to = "idle" <=> ask[c].draft = Nothing
           /\ made' \in [Calls -> 0..MaxBookings]
    BY <1>2, <2>1, AnswerMoves
  <2>3. to = "failed" => ask[c].draft \in doubted'
    BY <1>4, <2>2 DEF LoseAnswer
  <2> QED BY <1>1, <1>4, <2>1, <2>2, <2>3, InsertStep DEF LoseAnswer
<1> QED BY <1>3, <1>4

\* The write that ends a conversion.
LEMMA DraftEndStep ==
  ASSUME CreationInv, NEW c \in Calls, MarkConverted(c) \/ PutBack(c) PROVE CreationInv'
<1>1. PICK d \in Drafts : ask[c].draft = d
  BY AskTyped DEF MarkConverted, PutBack, CreationInv, AskOK
<1>2. draft[d] \in Draft /\ made[c] \in 0..MaxBookings
  BY DEF CreationInv, TypeOK, Draft
<1>3. CASE MarkConverted(c)
  <2> DEFINE row == [draft[d] EXCEPT !.status = "converted", !.booking = made[c]]
  <2>1. row \in Draft /\ row.status \notin Mutable
    BY <1>2 DEF Draft, DraftStatuses, Mutable
  <2>2. draft' = [draft EXCEPT ![d] = row]
    BY <1>1, <1>3 DEF MarkConverted, CreationInv, TypeOK
  <2> HIDE DEF row
  <2> QED BY <1>1, <1>3, <2>1, <2>2, LastWrite DEF MarkConverted
<1>4. CASE PutBack(c)
  <2> DEFINE row == [draft[d] EXCEPT !.status = "ready_for_review"]
  <2>1. row \in Draft
    BY DraftTyped DEF DraftStatuses, CreationInv
  <2>2. draft' = [draft EXCEPT ![d] = row]
    BY <1>1, <1>4 DEF PutBack, SetDraft, CreationInv, TypeOK
  <2> HIDE DEF row
  <2> QED BY <1>1, <1>4, <2>1, <2>2, LastWrite DEF PutBack
<1> QED BY <1>3, <1>4

\* The claim of a draft, won or lost.
LEMMA ClaimDraftStep ==
  ASSUME CreationInv, NEW c \in Calls, ClaimDraft(c) PROVE CreationInv'
<1>1. PICK d \in Drafts : ask[c].draft = d
  BY AskTyped DEF ClaimDraft, CreationInv, AskOK
<1>2. CASE Convertible(d)
  BY <1>1, <1>2, ClaimStep DEF ClaimDraft
<1>3. CASE ~Convertible(d)
  BY <1>1, <1>3, EndStep DEF ClaimDraft
<1> QED BY <1>2, <1>3

-----------------------------------------------------------------------------
\* The invariant holds at first.
LEMMA InitHolds == Init => CreationInv
<1> SUFFICES ASSUME Init PROVE CreationInv
  OBVIOUS
<1>1. bookings \in Seq(Booking) /\ Len(bookings) = 0 /\ Ids = {}
  BY EmptySeq DEF Init, Ids
<1>2. TypeOK
  BY <1>1, BoundsAssumption DEF Init, TypeOK, Stages, DraftStatuses
<1>3. AskOK /\ KeysOK /\ SlotsOK /\ OneBookingPerKey
  BY <1>1 DEF Init, AskOK, KeysOK, SlotsOK, OneBookingPerKey
<1>4. DraftsOK
  BY <1>1 DEF Init, DraftsOK, Busy, Unmade
<1>5. SlotNeverOverfull
  BY <1>1, FS_EmptySet, SlotsAssumption DEF SlotNeverOverfull, InSlot
<1> QED BY <1>2, <1>3, <1>4, <1>5 DEF CreationInv

\* Every step keeps it.
LEMMA StepHolds == CreationInv /\ [Next]_vars => CreationInv'
<1> SUFFICES ASSUME CreationInv, [Next]_vars PROVE CreationInv'
  OBVIOUS
<1>1. ASSUME NEW c \in Calls, NEW a \in Customers, NEW k \in Keys \cup {Nothing},
             NEW s \in Slots \cup {Nothing}, Submit(c, a, k, s)
      PROVE  CreationInv'
  BY <1>1, SubmitStep, RolesAssumption DEF Actors
<1>2. ASSUME NEW c \in Calls, NEW a \in Admins, NEW k \in Keys, AdminSubmit(c, a, k)
      PROVE  CreationInv'
  BY <1>2, SubmitStep DEF AdminSubmit, Actors
<1>3. ASSUME NEW c \in Calls, NEW d \in Drafts, NEW k \in Keys, LoadDraft(c, d, k)
      PROVE  CreationInv'
  BY <1>3, LoadStep
<1>4. ASSUME NEW c \in Calls, LockSlot(c) PROVE CreationInv'
  BY <1>4, LockSlotStep
<1>5. ASSUME NEW c \in Calls, CommitCustomer(c) PROVE CreationInv'
  BY <1>5, CustomerStep
<1>6. ASSUME NEW c \in Calls, Reject(c) PROVE CreationInv'
  BY <1>6, AnswerStep, BoundsAssumption DEF Reject
<1>7. ASSUME NEW c \in Calls, LockKey(c) PROVE CreationInv'
  BY <1>7, LockKeyStep
<1>8. ASSUME NEW c \in Calls, CommitAdmin(c) \/ LoseAnswer(c) PROVE CreationInv'
  BY <1>8, AdminStep
<1>9. ASSUME NEW c \in Calls, ClaimDraft(c) PROVE CreationInv'
  BY <1>9, ClaimDraftStep
<1>10. ASSUME NEW c \in Calls, CheckForDraft(c) PROVE CreationInv'
  BY <1>10, CheckStep
<1>11. ASSUME NEW c \in Calls, MarkConverted(c) \/ PutBack(c) PROVE CreationInv'
  BY <1>11, DraftEndStep
<1>12. ASSUME NEW c \in Calls, Crash(c) PROVE CreationInv'
  BY <1>12, EndStep DEF Crash
<1>13. ASSUME NEW d \in Drafts, PatchDraft(d) \/ CloseDraft(d) PROVE CreationInv'
  BY <1>13, PatchStep, CloseStep
<1>14. ASSUME NEW i \in Ids, Finish(i) PROVE CreationInv'
  BY <1>14, FinishStep
<1>15. ASSUME NEW i \in Ids, NEW s \in Slots, Move(i, s) PROVE CreationInv'
  BY <1>15, MoveStep
<1>16. CASE UNCHANGED vars
  <2>1. /\ UNCHANGED bookings /\ UNCHANGED idem /\ UNCHANGED draft /\ UNCHANGED stage
        /\ UNCHANGED ask /\ UNCHANGED made /\ UNCHANGED lost /\ UNCHANGED moved /\ UNCHANGED doubted
    BY <1>16 DEF vars, callVars
  <2>2. DraftsOK' /\ draft' \in [Drafts -> Draft]
    BY <2>1 DEF CreationInv, TypeOK, DraftsOK, Busy, Unmade, Ids, Draft
  <2> QED BY <2>1, <2>2, DraftMoves
<1> QED BY <1>1, <1>2, <1>3, <1>4, <1>5, <1>6, <1>7, <1>8, <1>9, <1>10, <1>11, <1>12, <1>13,
           <1>14, <1>15, <1>16 DEF Next

\* The inductive invariant: well typed, locks exclusive, what was found under a lock
\* still so, one conversion per draft, one booking per key and per slot place.
THEOREM CreationInvariant == Spec => []CreationInv
<1> QED BY InitHolds, StepHolds, PTL DEF Spec

\* Every table and every request in flight is well typed.
THEOREM TypeCorrect == Spec => []TypeOK
<1>1. CreationInv => TypeOK
  BY DEF CreationInv
<1> QED BY <1>1, CreationInvariant, PTL

\* However often a submit is repeated, doubled or cut off, its key makes one booking,
\* and the idempotency row names it (createBooking, adminCreateBooking).
THEOREM KeysBookOnce == Spec => []OneBookingPerKey
<1>1. CreationInv => OneBookingPerKey
  BY DEF CreationInv
<1> QED BY <1>1, CreationInvariant, PTL

\* Any number of checkouts at once leave a branch slot within its capacity, as long
\* as no reschedule moved a booking in.
THEOREM SlotsKeepTheirSize == Spec => []SlotNeverOverfull
<1>1. CreationInv => SlotNeverOverfull
  BY DEF CreationInv
<1> QED BY <1>1, CreationInvariant, PTL

\* A draft converted from several tabs, with any keys, makes one booking, unless a
\* commit was taken for a failure.
THEOREM DraftsBookOnce == Spec => []OneBookingPerDraft
<1>1. ASSUME CreationInv PROVE OneBookingPerDraft
  <2> SUFFICES ASSUME NEW d \in Drafts \ doubted
               PROVE  Cardinality({i \in Ids : bookings[i].draft = d}) <= 1
    BY DEF OneBookingPerDraft
  <2> DEFINE made_of == {i \in Ids : bookings[i].draft = d}
  <2>1. \A i, j \in made_of : i = j
    BY <1>1 DEF CreationInv, DraftsOK
  <2>2. CASE made_of = {}
    <3> HIDE DEF made_of
    <3>1. Cardinality(made_of) = 0
      BY <2>2, FS_EmptySet
    <3> QED BY <3>1 DEF made_of
  <2>3. CASE made_of # {}
    <3>1. PICK i \in made_of : TRUE
      BY <2>3
    <3>2. made_of = {i}
      BY <2>1, <3>1
    <3> HIDE DEF made_of
    <3>3. Cardinality(made_of) = 1
      BY <3>2, FS_Singleton
    <3> QED BY <3>3 DEF made_of
  <2> QED BY <2>2, <2>3
<1> QED BY <1>1, CreationInvariant, PTL

-----------------------------------------------------------------------------
\* What is in the register is what is in the table, counted alike.
LEMMA SameSets ==
  /\ Register!Placed = Ids
  /\ \A s : Register!Cardinality(Register!Taken(s)) = Cardinality(InSlot(s))
<1>1. \A S : Register!Cardinality(S) = Cardinality(S)
  BY DEF Register!Cardinality, Cardinality
<1>2. Register!Placed = Ids /\ \A s : Register!Taken(s) = InSlot(s)
  BY DEF Register!Placed, Register!Taken, Ids, InSlot
<1> QED BY <1>1, <1>2

\* A booking that is inserted has found its key unused, its slot with room left, unless
\* a reschedule fills it, and its draft unmade, unless it was reported failed.
LEMMA InsertPlaces ==
  ASSUME CreationInv, NEW c \in Calls, stage[c] \in {"counted", "keyed"},
         Insert(ask[c]), Recorded(ask[c]) = 0, UNCHANGED moved,
         doubted' = doubted \/ doubted' = doubted \cup ({ask[c].draft} \ {Nothing})
  PROVE  Register!Place
<1> DEFINE r == ask[c]
           new == Row(r)
<1>1. /\ r \in Request /\ r.actor \in Actors /\ r.key \in Keys \cup {Nothing}
      /\ r.slot \in Slots \cup {Nothing} /\ r.draft \in Drafts \cup {Nothing}
  BY AskTyped DEF CreationInv
<1>2. /\ Len(bookings') = Len(bookings) + 1 /\ bookings'[Len(bookings) + 1] = new
      /\ bookings' = Append(bookings, new)
  BY <1>1, InsertTables DEF CreationInv, Insert
<1>3. /\ new.actor = r.actor /\ new.key = r.key /\ new.slot = r.slot /\ new.draft = r.draft
      /\ new.open
  BY DEF Row
<1> HIDE DEF new
<1>4. ASSUME r.key # Nothing, NEW i \in Ids, bookings[i].actor = r.actor, bookings[i].key = r.key
      PROVE  FALSE
  <2>1. idem[r.actor][r.key] = i
    BY <1>4 DEF CreationInv, OneBookingPerKey
  <2>2. i >= 1 /\ i \in Nat
    BY BookingIds DEF CreationInv
  <2> QED BY <1>4, <2>1, <2>2 DEF Recorded
<1>5. ASSUME r.slot \notin {Nothing} \cup moved
      PROVE  Cardinality(InSlot(r.slot)) < Capacity[r.slot]
  <2>1. PICK s \in Slots : r.slot = s
    BY <1>1, <1>5
  <2>2. stage[c] = "counted"
    BY <1>5 DEF CreationInv, AskOK
  <2>3. s \in moved \/ HasRoom(s)
    BY <2>1, <2>2 DEF CreationInv, SlotsOK
  <2> QED BY <1>5, <2>1, <2>3 DEF HasRoom
<1>6. ASSUME r.draft \notin {Nothing} \cup doubted, NEW i \in Ids, bookings[i].draft = r.draft
      PROVE  FALSE
  <2>1. PICK d \in Drafts : r.draft = d
    BY <1>1, <1>6
  <2>2. stage[c] = "keyed"
    BY <1>6, <2>1, RolesAssumption DEF CreationInv, AskOK
  <2>3. Unmade(d)
    BY <1>6, <2>1, <2>2 DEF CreationInv, DraftsOK, Busy
  <2> QED BY <1>6, <2>1, <2>3 DEF Unmade
<1>7. Register!Admissible(new)
  BY <1>3, <1>4, <1>5, <1>6, SameSets DEF Register!Admissible
<1>8. doubted' \in {doubted, doubted \cup {new.draft}}
  BY <1>3
<1> QED BY <1>2, <1>7, <1>8 DEF Register!Place

\* Every step of the code places a booking, ends one, moves one, or leaves the register.
LEMMA RegisterStep ==
  CreationInv /\ [Next]_vars => [Register!Next]_Register!registerVars
<1> SUFFICES ASSUME CreationInv, [Next]_vars
             PROVE  Register!Next \/ UNCHANGED <<bookings, moved, doubted>>
  BY DEF Register!registerVars
<1>1. ASSUME NEW c \in Calls, CommitCustomer(c)
      PROVE  Register!Place \/ UNCHANGED <<bookings, moved, doubted>>
  <2>1. CASE TwinCommitted(ask[c])
    BY <1>1, <2>1 DEF CommitCustomer
  <2>2. CASE ~TwinCommitted(ask[c])
    BY <1>1, <2>2, InsertPlaces DEF CommitCustomer, TwinCommitted
  <2> QED BY <2>1, <2>2
<1>2. ASSUME NEW c \in Calls, CommitAdmin(c) \/ LoseAnswer(c)
      PROVE  Register!Place
  <2>1. stage[c] = "keyed" /\ Insert(ask[c]) /\ Recorded(ask[c]) = 0
    BY <1>2 DEF CommitAdmin, LoseAnswer, CreationInv, AskOK, KeysOK, Recorded
  <2> QED BY <1>2, <2>1, InsertPlaces DEF CommitAdmin, LoseAnswer
<1>3. ASSUME NEW i \in Ids, Finish(i) PROVE Register!Finish(i)
  BY <1>3 DEF Finish, Register!Finish
<1>4. ASSUME NEW i \in Ids, NEW s \in Slots, Move(i, s) PROVE Register!Move(i, s)
  BY <1>4 DEF Move, Register!Move
<1>5. ASSUME NEW c \in Calls,
             \/ \E a \in Customers, k \in Keys \cup {Nothing}, s \in Slots \cup {Nothing} : Submit(c, a, k, s)
             \/ \E a \in Admins, k \in Keys : AdminSubmit(c, a, k)
             \/ \E d \in Drafts, k \in Keys : LoadDraft(c, d, k)
             \/ LockSlot(c) \/ Reject(c) \/ LockKey(c)
      PROVE  UNCHANGED <<bookings, moved, doubted>>
  BY <1>5 DEF Submit, AdminSubmit, LoadDraft, LockSlot, Reject, LockKey
<1>6. ASSUME NEW c \in Calls,
             ClaimDraft(c) \/ CheckForDraft(c) \/ MarkConverted(c) \/ PutBack(c) \/ Crash(c)
      PROVE  UNCHANGED <<bookings, moved, doubted>>
  BY <1>6 DEF ClaimDraft, CheckForDraft, MarkConverted, PutBack, Crash
<1>7. ASSUME NEW d \in Drafts, PatchDraft(d) \/ CloseDraft(d)
      PROVE  UNCHANGED <<bookings, moved, doubted>>
  BY <1>7 DEF PatchDraft, CloseDraft
<1>8. CASE UNCHANGED vars
  BY <1>8 DEF vars
<1> QED BY <1>1, <1>2, <1>3, <1>4, <1>5, <1>6, <1>7, <1>8, SameSets DEF Next, Register!Next

\* Whatever is locked, looked up, retried, cut off or lost on the way, bookings enter
\* the register one at a time, each with its key unused, a place left in its slot and
\* its draft unmade at the instant it is placed (createBooking, adminCreateBooking,
\* convertDraft implement BookingRegister).
THEOREM RefinesRegister == Spec => ImplementsRegister
<1>1. Init => Register!Init
  BY DEF Init, Register!Init
<1> QED BY <1>1, RegisterStep, CreationInvariant, PTL
    DEF Spec, ImplementsRegister, Register!Spec, Register!registerVars
=============================================================================
