--------------------------- MODULE SingleInstance ---------------------------
(***************************************************************************)
(* What launching a program of one window promises: of all launches one    *)
(* has the window; every other hands over what it was launched for, or     *)
(* fails, and ends.  The page shown changes only by the user's browsing    *)
(* and by what a launch wants.  Navigation implements it.                  *)
(***************************************************************************)
EXTENDS Naturals

CONSTANTS
  Launches,
  Pages,
  Nowhere       \* no page: there is no window, or a launch wants none

VARIABLES
  launch,       \* "new", "window", "waiting" or "gone"
  wanted,       \* the page each launch is for
  page          \* the page shown

vars == <<launch, wanted, page>>

Init ==
  /\ launch = [p \in Launches |-> "new"]
  /\ wanted = [p \in Launches |-> Nowhere]
  /\ page = Nowhere

(* Whoever comes first gets the window.                                    *)
Start(p, target) ==
  /\ launch[p] = "new"
  /\ launch' = [launch EXCEPT
       ![p] = IF \E q \in Launches : launch[q] = "window" THEN "waiting" ELSE "window"]
  /\ wanted' = [wanted EXCEPT ![p] = target]
  /\ UNCHANGED page

(* The window comes up, or its user or its side bar moves on.              *)
Browse(p) ==
  /\ launch[p] = "window"
  /\ page' \in Pages
  /\ UNCHANGED <<launch, wanted>>

(* A launch ends; what it wanted is shown, if it is still possible.        *)
HandOver(p) ==
  /\ launch[p] = "waiting"
  /\ launch' = [launch EXCEPT ![p] = "gone"]
  /\ page' \in {page} \union ({wanted[p]} \ {Nowhere})
  /\ UNCHANGED wanted

(* The window is closed, and some of those that wait end with it.          *)
Close(p) ==
  /\ launch[p] = "window"
  /\ \E others \in SUBSET {q \in Launches : launch[q] = "waiting"} :
       launch' = [q \in Launches |-> IF q \in others \union {p} THEN "gone" ELSE launch[q]]
  /\ page' = Nowhere
  /\ UNCHANGED wanted

Next ==
  \E p \in Launches :
    \/ \E target \in Pages \union {Nowhere} : Start(p, target)
    \/ Browse(p) \/ HandOver(p) \/ Close(p)

(* No launch waits for ever.                                               *)
Live == \A p \in Launches : launch[p] = "waiting" ~> launch[p] = "gone"

Spec == Init /\ [][Next]_vars /\ Live
=============================================================================
