-------------------------- MODULE BookingRegister --------------------------
(***************************************************************************)
(* What placing a booking promises: whoever is in flight beside it, it      *)
(* enters the register in one step, and at that step its key has made no    *)
(* booking, its slot has a place left and its draft is unused. A slot that  *)
(* a reschedule moved a booking into and a draft whose booking was once     *)
(* reported failed are out of these promises. Afterwards a booking only     *)
(* ends or moves.                                                           *)
(***************************************************************************)
EXTENDS Naturals, Sequences, FiniteSets

CONSTANTS Slots, Capacity, Nothing

VARIABLES
  register,   \* the bookings in the order they were placed
  moved,      \* slots a booking was moved into
  doubted     \* drafts whose booking was reported failed

registerVars == <<register, moved, doubted>>

Placed == 1..Len(register)
Taken(s) == {i \in Placed : register[i].slot = s /\ register[i].open}

Admissible(new) ==
  /\ new.open
  /\ new.key # Nothing =>
       ~\E i \in Placed : register[i].actor = new.actor /\ register[i].key = new.key
  /\ new.slot \notin {Nothing} \cup moved => Cardinality(Taken(new.slot)) < Capacity[new.slot]
  /\ new.draft \notin {Nothing} \cup doubted => ~\E i \in Placed : register[i].draft = new.draft

Place ==
  /\ Len(register') = Len(register) + 1
  /\ LET new == register'[Len(register) + 1]
     IN  /\ Admissible(new)
         /\ register' = Append(register, new)
         /\ doubted' \in {doubted, doubted \cup {new.draft}}
  /\ UNCHANGED moved

Finish(i) ==
  /\ register[i].open
  /\ register' = [register EXCEPT ![i].open = FALSE]
  /\ UNCHANGED <<moved, doubted>>

Move(i, s) ==
  /\ register[i].open
  /\ register[i].slot # Nothing
  /\ register' = [register EXCEPT ![i].slot = s]
  /\ moved' = moved \cup {s}
  /\ UNCHANGED doubted

Init == register = <<>> /\ moved = {} /\ doubted = {}

Next == Place \/ \E i \in Placed : Finish(i) \/ \E s \in Slots : Move(i, s)

Spec == Init /\ [][Next]_registerVars
=============================================================================
