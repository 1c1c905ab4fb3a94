---------------------------- MODULE DateTimePage ----------------------------
(***************************************************************************)
(* The Date & Time page: the switch of automatic time (datetime/time.cpp)  *)
(* and the dialog that sets the time zone (datetime/timezonemap.cpp,       *)
(* qml/DateTime/TimeZoneDialog.qml), in front of timedate1.                *)
(*                                                                         *)
(* timedate1 asks the user for authorisation before it carries a call out, *)
(* for each call by itself: calls may be carried out in another order than *)
(* they were made, refused, or take longer than the page waits.  Nobody    *)
(* listens to the signals of timedate1.                                    *)
(***************************************************************************)
EXTENDS Naturals, FiniteSets, Sequences, SequencesExt

CONSTANTS
  Zones,        \* time zones: numbers, in the order of their names
  Spots,        \* places on the map
  Distance,     \* square of the distance of each zone from each spot
  Largest,      \* that of the corners of the map, which exceeds all of them
  NoZone,
  MaxCalls      \* bound on the calls on their way together

Radius == 20

ASSUME MapAssumption ==
  /\ Zones \subseteq Nat /\ IsFiniteSet(Zones)
  /\ Distance \in [Spots -> [Zones -> Nat]]
  /\ Largest \in Nat
  /\ \A spot \in Spots : \A z \in Zones : Distance[spot][z] < Largest
  /\ NoZone \notin Zones
  /\ MaxCalls \in Nat

SetNTP(on) == [op |-> "ntp", on |-> on]
SetTime == [op |-> "time"]
SetTimezone(z) == [op |-> "zone", zone |-> z]

VARIABLES
  open,         \* the page is shown
  useNtp,       \* m_useNtp, and the switch
  label,        \* m_currentTimeZone, of which the page shows the last part
  zones,        \* m_list: the zones in the order of the program's pointers to them
  offered,      \* m_currentList
  named,        \* the zone whose name is in the popup of the dialog
  dialog,       \* the dialog is visible
  spot,         \* history: where the user clicked last
  waiting,      \* the call whose answer is waited for: "none", "time" or "zone"
  answer,       \* it has come: "none", "done" or "error"
  calls,        \* the calls timedate1 has not carried out, oldest first
  ntp, zone,    \* what timedate1 keeps
  ntpMissed,    \* history: it is not what the switch was told
  zoneMissed    \* history: it is not what the label was told

window == <<zones, offered, named, dialog, spot>>
call == <<waiting, answer>>
service == <<calls, ntp, zone>>
missed == <<ntpMissed, zoneMissed>>
vars == <<open, useNtp, label, window, call, service, missed>>
-----------------------------------------------------------------------------
(* The loop of TimeZoneMap::clicked(): the nearest zone, of several the    *)
(* first, and all within the radius.                                       *)
Visit(at, acc, z) ==
  [distance |-> IF Distance[at][z] < acc.distance THEN Distance[at][z] ELSE acc.distance,
   nearest |-> IF Distance[at][z] < acc.distance THEN z ELSE acc.nearest,
   items |-> IF Distance[at][z] <= Radius THEN Append(acc.items, z) ELSE acc.items]
Scan(at) ==
  FoldLeft(LAMBDA acc, z : Visit(at, acc, z),
           [distance |-> Largest, nearest |-> NoZone, items |-> <<>>], zones)

(* At each place the zone with as many before it.                          *)
Before(list, z) == {y \in Range(list) : y < z}
Sorted(list) ==
  [i \in 1..Cardinality(Range(list)) |->
     CHOOSE z \in Range(list) : Cardinality(Before(list, z)) = i - 1]

(* The nearest counts only if none is within the radius.  In the variant   *)
(* the list is not cleared first.                                          *)
ClickedUncleared(at) ==
  LET scan == Scan(at)
  IN Sorted(offered \o IF scan.items = <<>> /\ scan.nearest # NoZone
                       THEN <<scan.nearest>> ELSE scan.items)
Clicked(at) ==
  LET scan == Scan(at)
  IN Sorted(IF scan.items = <<>> /\ scan.nearest # NoZone
            THEN <<scan.nearest>> ELSE scan.items)

Init ==
  /\ open = FALSE /\ useNtp = FALSE /\ label = NoZone
  /\ zones = <<>> /\ offered = <<>> /\ named = NoZone /\ dialog = FALSE
  /\ spot \in Spots
  /\ waiting = "none" /\ answer = "none"
  /\ calls = <<>> /\ ntp \in BOOLEAN /\ zone \in Zones
  /\ ntpMissed = FALSE /\ zoneMissed = FALSE

Idle == open /\ waiting = "none"
Room == Len(calls) < MaxCalls
OnTheirWay(op) == {i \in DOMAIN calls : calls[i].op = op}
-----------------------------------------------------------------------------
(* Both objects read once.  What is still on its way will not be seen.     *)
OpenPage ==
  /\ ~open /\ open' = TRUE
  /\ useNtp' = ntp /\ label' = zone
  /\ zones' \in SetToSeqs(Zones)
  /\ ntpMissed' = (OnTheirWay("ntp") # {})
  /\ UNCHANGED <<offered, named, dialog, spot, call, service, zoneMissed>>

(* The dialog is a window of its own, but goes with the page.              *)
ClosePage ==
  /\ Idle
  /\ open' = FALSE /\ useNtp' = FALSE /\ label' = NoZone
  /\ zones' = <<>> /\ offered' = <<>> /\ named' = NoZone /\ dialog' = FALSE
  /\ ntpMissed' = FALSE /\ zoneMissed' = FALSE
  /\ UNCHANGED <<spot, call, service>>

(* setUseNtp() and save(): turning it off also sets the clock, and waits   *)
(* for that call.  The variant remembers the new value only when it is on. *)
ToggleForgets ==
  /\ Idle /\ Room
  /\ useNtp' = TRUE
  /\ IF ~useNtp THEN /\ calls' = Append(calls, SetNTP(TRUE)) /\ UNCHANGED waiting
     ELSE /\ calls' = calls \o <<SetNTP(FALSE), SetTime>> /\ waiting' = "time"
  /\ ntpMissed' = FALSE
  /\ UNCHANGED <<open, label, window, answer, ntp, zone, zoneMissed>>
Toggle ==
  /\ Idle /\ Room
  /\ useNtp' = ~useNtp
  /\ IF useNtp' THEN /\ calls' = Append(calls, SetNTP(TRUE)) /\ UNCHANGED waiting
     ELSE /\ calls' = calls \o <<SetNTP(FALSE), SetTime>> /\ waiting' = "time"
  /\ ntpMissed' = FALSE
  /\ UNCHANGED <<open, label, window, answer, ntp, zone, zoneMissed>>

ShowDialog ==
  /\ Idle /\ ~dialog /\ dialog' = TRUE
  /\ UNCHANGED <<open, useNtp, label, zones, offered, named, spot, call, service, missed>>

(* The handler of availableListChanged names the first zone of the list.   *)
ClickMap(at) ==
  /\ Idle /\ dialog
  /\ spot' = at
  /\ offered' = Clicked(at)
  /\ named' = offered'[1]
  /\ UNCHANGED <<open, useNtp, label, zones, dialog, call, service, missed>>

(* "Set", which also works on what was clicked before the dialog was       *)
(* opened again.                                                           *)
SetZone ==
  /\ Idle /\ dialog /\ Room
  /\ named # NoZone
  /\ calls' = Append(calls, SetTimezone(offered[1]))
  /\ waiting' = "zone"
  /\ UNCHANGED <<open, useNtp, label, window, answer, ntp, zone, missed>>

Cancel ==
  /\ Idle /\ dialog /\ dialog' = FALSE
  /\ UNCHANGED <<open, useNtp, label, zones, offered, named, spot, call, service, missed>>

(* The page goes on when the answer is there; only setTimeZone() looks at  *)
(* it.  The variant takes any answer for good.                             *)
ReturnUnlooked ==
  /\ answer # "none"
  /\ waiting' = "none" /\ answer' = "none"
  /\ IF waiting = "zone"
     THEN label' = offered[1] /\ dialog' = FALSE
     ELSE UNCHANGED <<label, dialog>>
  /\ UNCHANGED <<open, useNtp, zones, offered, named, spot, service, missed>>
Return ==
  /\ answer # "none"
  /\ waiting' = "none" /\ answer' = "none"
  /\ label' = IF waiting = "zone" /\ answer = "done" THEN offered[1] ELSE label
  /\ dialog' = IF waiting = "zone" THEN FALSE ELSE dialog
  /\ UNCHANGED <<open, useNtp, zones, offered, named, spot, service, missed>>

(* D-Bus gives up after a while; timedate1 does not.                       *)
Timeout ==
  /\ waiting # "none" /\ answer = "none"
  /\ answer' = "error"
  /\ UNCHANGED <<open, useNtp, label, window, waiting, service, missed>>
-----------------------------------------------------------------------------
(* Outside src/: timedate1 and other programs.                             *)

(* The call waited for is the youngest of its kind.                        *)
Awaited(i) ==
  /\ answer = "none" /\ waiting = calls[i].op
  /\ \A j \in OnTheirWay(waiting) : j <= i

Answer(i, result) == answer' = IF Awaited(i) THEN result ELSE answer

(* A call is carried out.  The switch is told by none of its calls: if an  *)
(* older one is carried out after a younger, the older has the last word.  *)
Grant(i) ==
  /\ calls' = RemoveAt(calls, i)
  /\ \/ /\ calls[i].op = "ntp"
        /\ ntp' = calls[i].on
        /\ ntpMissed' = (open /\ (ntpMissed \/ \E j \in OnTheirWay("ntp") : j < i))
        /\ UNCHANGED <<zone, zoneMissed>>
     \/ /\ calls[i].op = "time" /\ ~ntp
        /\ UNCHANGED <<ntp, zone, missed>>
     \/ /\ calls[i].op = "zone"
        /\ zone' = calls[i].zone
        /\ zoneMissed' = (open /\ ~Awaited(i))
        /\ UNCHANGED <<ntp, ntpMissed>>
  /\ Answer(i, "done")
  /\ UNCHANGED <<open, useNtp, label, window, waiting>>

(* Not authorised; and the clock is not set while it is synchronised.      *)
Refuse(i) ==
  /\ calls' = RemoveAt(calls, i)
  /\ ntpMissed' = (ntpMissed \/ (open /\ calls[i].op = "ntp"))
  /\ Answer(i, "error")
  /\ UNCHANGED <<open, useNtp, label, window, waiting, ntp, zone, zoneMissed>>

OtherSetsNtp ==
  /\ ntp' = ~ntp
  /\ ntpMissed' = open
  /\ UNCHANGED <<open, useNtp, label, window, call, calls, zone, zoneMissed>>

OtherSetsZone ==
  /\ zone' \in Zones \ {zone}
  /\ zoneMissed' = open
  /\ UNCHANGED <<open, useNtp, label, window, call, calls, ntp, ntpMissed>>
-----------------------------------------------------------------------------
Next ==
  \/ OpenPage \/ ClosePage \/ Toggle
  \/ ShowDialog \/ SetZone \/ Cancel \/ \E at \in Spots : ClickMap(at)
  \/ Return \/ Timeout
  \/ \E i \in DOMAIN calls : Grant(i) \/ Refuse(i)
  \/ OtherSetsNtp \/ OtherSetsZone

Spec == Init /\ [][Next]_vars
-----------------------------------------------------------------------------
(* When timedate1 has nothing to do for it the switch shows whether time   *)
(* is automatic, although the page never waits to hear: unless another     *)
(* program changed it, a call was refused or overtaken by a younger one,   *)
(* or was still on its way from the page before.                           *)
SwitchIsService ==
  open /\ OnTheirWay("ntp") = {} /\ ~ntpMissed => useNtp = ntp

(* The label shows the zone of the system while none is being set, also    *)
(* after refused, failed and repeated attempts; unless another program set *)
(* it, or a call was carried out that the page no longer waited for.       *)
LabelIsZone == Idle /\ ~zoneMissed => label = zone

(* The popup names the zone that would be set, and it is a near one,       *)
(* whatever order the zones are in: of those around the last click if      *)
(* there are any, else one to which no other is nearer.                    *)
NamedIsNear ==
  named # NoZone =>
    /\ named = offered[1]
    /\ \/ Distance[spot][named] <= Radius
       \/ \A z \in Zones : /\ Distance[spot][z] > Radius
                           /\ Distance[spot][z] >= Distance[spot][named]

(* The inductive invariant behind both: as long as the page could know it, *)
(* the youngest call to turn automatic time on or off says what the switch *)
(* says; the call that is waited for is the youngest one for a zone, for   *)
(* the zone offered; and only its answer comes between label and zone.     *)
Youngest(c) ==
  \E i \in DOMAIN calls : calls[i] = c /\ \A j \in OnTheirWay(c.op) : j <= i

SwitchFollows ==
  open /\ ~ntpMissed =>
    IF OnTheirWay("ntp") = {} THEN useNtp = ntp ELSE Youngest(SetNTP(useNtp))

WaitsForYoungest ==
  /\ waiting # "none" => open
  /\ answer # "none" => waiting # "none"
  /\ waiting = "zone" /\ answer = "none" => Youngest(SetTimezone(offered[1]))

LabelFollows ==
  open /\ ~zoneMissed =>
    IF waiting = "zone" /\ answer = "done" THEN zone = offered[1] ELSE label = zone

(* The inductive invariant of the map: every zone is in the list once.     *)
MapInv == /\ open => zones \in SetToSeqs(Zones)
          /\ NamedIsNear

PageInv == SwitchFollows /\ WaitsForYoungest /\ LabelFollows
=============================================================================
