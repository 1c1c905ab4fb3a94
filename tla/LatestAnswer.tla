---------------------------- MODULE LatestAnswer ----------------------------
(***************************************************************************)
(* What an asynchronous view of a service promises: the question may       *)
(* change at any time, answers come later and some may be skipped, but an  *)
(* answer never takes the place of one to a younger question, and the last *)
(* answer to come is to the question asked last.  BatteryHistory           *)
(* implements it.                                                          *)
(***************************************************************************)
EXTENDS Naturals, Sequences

CONSTANTS
  Questions,
  Nothing       \* there is nothing to ask; not a question

VARIABLES
  current,      \* the question, or Nothing
  behind,       \* the questions without an answer, oldest first
  shown         \* the question that is answered by what is shown

vars == <<current, behind, shown>>

Init ==
  /\ current = Nothing
  /\ behind = <<>>
  /\ shown \in Questions \union {Nothing}

Ask(question) ==
  /\ current' = question
  /\ behind' = Append(behind, question)
  /\ UNCHANGED shown

Abandon ==
  /\ current' = Nothing
  /\ UNCHANGED <<behind, shown>>

Answer ==
  /\ \E i \in DOMAIN behind :
       /\ shown' = behind[i]
       /\ behind' = SubSeq(behind, i + 1, Len(behind))
  /\ UNCHANGED current

Next == Abandon \/ Answer \/ \E question \in Questions : Ask(question)

(* Once the question rests, its answer is shown for good.                  *)
Live == <>[][FALSE]_current => <>[](current = Nothing \/ shown = current)

Spec == Init /\ [][Next]_vars /\ Live
=============================================================================
