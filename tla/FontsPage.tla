----------------------------- MODULE FontsPage -----------------------------
(***************************************************************************)
(* The Fonts page (qml/Fonts/Main.qml) with the second thread of the       *)
(* program: FontsModel (fontsmodel.cpp) lists the fonts of the system      *)
(* while the main thread creates the combo boxes that show its lists.      *)
(*                                                                         *)
(* The lists are not protected.  Reading them under the hand of the other  *)
(* thread gives some part of them, or the program crashes; so it does when *)
(* the page is left, and the QThread destroyed, before the thread is done. *)
(* A behaviour follows one of the two boxes, and the tabs of the size.     *)
(***************************************************************************)
EXTENDS Integers, FiniteSets, Sequences, SequencesExt

CONSTANTS
  FontSets,     \* what fontconfig may list: sequences of faces
  Families,     \* fonts the daemon can be set to: numbers, in the order of their names
  Sizes,        \* font sizes other programs set
  TabReports    \* whether a tab bar tells of the tab it selects while it is created

Face == [family: Nat, mono: BOOLEAN, speaks: BOOLEAN]
Boxes == {"general", "fixed"}

ASSUME FontsAssumption ==
  /\ FontSets \subseteq Seq(Face)
  /\ Families \subseteq Nat /\ Sizes \subseteq Nat
  /\ TabReports \subseteq BOOLEAN /\ TabReports # {}

VARIABLES
  faces,        \* the system's fonts
  which,        \* the box that is followed
  phase,        \* "closed", "creating", "open" or "crashed"
  thread,       \* "none", "scanning", "exiting", "ended", or "failed" without a list
  scanned,      \* the faces it has looked at
  lists,        \* m_generalFonts, m_fixedFonts
  posted,       \* loadFinished waits in the main thread's queue
  loaded,       \* it was handled
  box,          \* the box: its model and current index, from 1
  system,       \* the font of the settings daemon
  theme,        \* the same as the platform theme of this process knows it
  missed,       \* history: it changed and the box was not told
  size,         \* the daemon's font size
  read,         \* m_fontPointSize as the page read it
  tab,          \* currentIndex of the tabs, from 0
  given,        \* history: the size that the user or another program gave
  overridden    \* history: the page set one that it had read too early or not at all

fonts == <<faces, which>>
model == <<thread, scanned, lists, posted>>
choice == <<box, loaded, missed>>
daemonFont == <<system, theme>>
points == <<size, read, tab, given, overridden>>
vars == <<fonts, phase, model, choice, daemonFont, points>>
-----------------------------------------------------------------------------
NoFonts == [general |-> <<>>, fixed |-> <<>>]

(* What std::sort makes of a list whose names differ.                      *)
Increasing(list) == \A i, j \in DOMAIN list : i < j => list[i] < list[j]
Sortings(list) ==
  {sorted \in [DOMAIN list -> Range(list)] :
     Range(sorted) = Range(list) /\ Increasing(sorted)}

(* The index a ComboBox has with a new model.                              *)
First(list) == IF list = <<>> THEN 0 ELSE 1

Grid == <<9, 10, 12, 15>>

(* The tab of a size: the first that is large enough.  The variant takes a *)
(* size that is just large enough for too small.                           *)
TabOfLarger(n) ==
  LET smaller == {i \in DOMAIN Grid : Grid[i] <= n}
  IN IF smaller = DOMAIN Grid THEN 0 ELSE Cardinality(smaller)
TabOf(n) ==
  LET smaller == {i \in DOMAIN Grid : Grid[i] < n}
  IN IF smaller = DOMAIN Grid THEN 0 ELSE Cardinality(smaller)

Init ==
  /\ faces \in FontSets /\ which \in Boxes
  /\ phase = "closed"
  /\ thread = "none" /\ scanned = 0 /\ lists = NoFonts /\ posted = FALSE
  /\ loaded = FALSE /\ missed = FALSE
  /\ box = [list |-> <<>>, index |-> 0]
  /\ system \in Families /\ theme = system
  /\ size \in Sizes /\ given = size /\ read = size /\ tab = 0
  /\ overridden = FALSE
-----------------------------------------------------------------------------
(* The page's objects: Appearance reads the size, FontsModel starts its    *)
(* thread.                                                                 *)
OpenPage ==
  /\ phase = "closed"
  /\ phase' = "creating"
  /\ thread' = "scanning" /\ scanned' = 0 /\ lists' = NoFonts /\ posted' = FALSE
  /\ read' = size
  /\ UNCHANGED <<fonts, choice, daemonFont, size, tab, given, overridden>>

(* What a binding gets that reads a list.                                  *)
Readings(list) ==
  IF thread = "scanning" THEN {SubSeq(list, 1, n) : n \in 0..Len(list)} ELSE {list}

CreateBox ==
  \E list \in Readings(lists[which]) :
    box' = [list |-> list, index |-> First(list)]

(* The tabs take the size over; changing the tab sets the size of the tab. *)
CreateTabs ==
  \E first \in TabReports :
    /\ tab' = TabOf(IF first THEN Grid[1] ELSE read)
    /\ size' = IF tab' # 0 THEN Grid[tab' + 1] ELSE IF first THEN Grid[1] ELSE size
    /\ overridden' = (overridden \/ first \/ (tab' # 0 /\ read # size))
    /\ UNCHANGED <<read, given>>

CreateControls ==
  /\ phase = "creating" /\ phase' = "open"
  /\ CreateBox /\ CreateTabs
  /\ UNCHANGED <<fonts, model, loaded, missed, daemonFont>>

(* loadFinished in the main thread: first the model of the box, if it is   *)
(* another one, then the handler that selects the font of the system.  In  *)
(* the first variant the box is not bound to the signal, in the second the *)
(* handler comes first.                                                    *)
Select(list, index) ==
  [list |-> list,
   index |-> IF theme \in Range(list)
             THEN CHOOSE i \in DOMAIN list : list[i] = theme ELSE index]
LoadFinishedUnbound ==
  /\ phase = "open" /\ posted
  /\ posted' = FALSE /\ loaded' = TRUE
  /\ box' = Select(box.list, box.index)
  /\ missed' = (theme # system)
  /\ UNCHANGED <<fonts, phase, thread, scanned, lists, daemonFont, points>>
LoadFinishedHandlerFirst ==
  /\ phase = "open" /\ posted
  /\ posted' = FALSE /\ loaded' = TRUE
  /\ LET list == lists[which]
     IN box' = IF list = box.list THEN Select(list, box.index)
               ELSE [list |-> list, index |-> First(list)]
  /\ missed' = (theme # system)
  /\ UNCHANGED <<fonts, phase, thread, scanned, lists, daemonFont, points>>
LoadFinished ==
  /\ phase = "open" /\ posted
  /\ posted' = FALSE /\ loaded' = TRUE
  /\ LET list == lists[which]
     IN box' = Select(list, IF list = box.list THEN box.index ELSE First(list))
  /\ missed' = (theme # system)
  /\ UNCHANGED <<fonts, phase, thread, scanned, lists, daemonFont, points>>

(* onActivated: the daemon is told, and its answer waited for.             *)
Pick ==
  /\ phase = "open"
  /\ \E i \in DOMAIN box.list :
       /\ box' = [box EXCEPT !.index = i]
       /\ system' = box.list[i]
  /\ missed' = FALSE
  /\ UNCHANGED <<fonts, phase, model, loaded, theme, points>>

ClickTab ==
  /\ phase = "open"
  /\ tab' \in (0..3) \ {tab}
  /\ size' = Grid[tab' + 1]
  /\ given' = size' /\ overridden' = FALSE
  /\ UNCHANGED <<fonts, phase, model, choice, daemonFont, read>>

Gone ==
  /\ thread' = "none" /\ scanned' = 0 /\ lists' = NoFonts /\ posted' = FALSE
  /\ box' = [list |-> <<>>, index |-> 0]
  /\ loaded' = FALSE /\ missed' = FALSE
  /\ tab' = 0
  /\ UNCHANGED <<fonts, size, read, given, overridden>>

(* ~QThread aborts the program if the thread runs.                         *)
ClosePage ==
  /\ phase = "open"
  /\ phase' = IF thread \in {"scanning", "exiting"} THEN "crashed" ELSE "closed"
  /\ Gone
  /\ UNCHANGED daemonFont

(* The outcome of reading a list in the middle of an append.               *)
Crash ==
  /\ phase = "creating" /\ thread = "scanning"
  /\ phase' = "crashed"
  /\ Gone
  /\ UNCHANGED daemonFont

(* The user starts the program again, which reads the font of the system.  *)
Relaunch ==
  /\ phase = "crashed"
  /\ phase' = "closed"
  /\ theme' = system
  /\ UNCHANGED <<fonts, model, choice, system, points>>
-----------------------------------------------------------------------------
(* FontsModel::run(), one face a step.  The second face of a fixed family  *)
(* counts as one of a general font.                                        *)
ScanFace ==
  /\ thread = "scanning" /\ scanned < Len(faces)
  /\ scanned' = scanned + 1
  /\ LET face == faces[scanned']
     IN lists' = IF face.mono /\ face.family \notin Range(lists.fixed)
                 THEN [lists EXCEPT !.fixed = Append(@, face.family)]
                 ELSE IF face.speaks /\ face.family \notin Range(lists.general)
                 THEN [lists EXCEPT !.general = Append(@, face.family)]
                 ELSE lists
  /\ UNCHANGED <<fonts, phase, thread, posted, choice, daemonFont, points>>

(* Both lists are sorted and loadFinished is posted.  In the variant it is *)
(* not when nothing was found.                                             *)
EndScanIfFound ==
  /\ thread = "scanning" /\ scanned = Len(faces)
  /\ thread' = "exiting"
  /\ \E general \in Sortings(lists.general), fixed \in Sortings(lists.fixed) :
       lists' = [general |-> general, fixed |-> fixed]
  /\ posted' = (lists # NoFonts)
  /\ UNCHANGED <<fonts, phase, scanned, choice, daemonFont, points>>
EndScan ==
  /\ thread = "scanning" /\ scanned = Len(faces)
  /\ thread' = "exiting"
  /\ \E general \in Sortings(lists.general), fixed \in Sortings(lists.fixed) :
       lists' = [general |-> general, fixed |-> fixed]
  /\ posted' = TRUE
  /\ UNCHANGED <<fonts, phase, scanned, choice, daemonFont, points>>

(* fontconfig gives no pattern, object set or list.                        *)
FailScan ==
  /\ thread = "scanning" /\ scanned = 0
  /\ thread' = "failed"
  /\ UNCHANGED <<fonts, phase, scanned, lists, posted, choice, daemonFont, points>>

ExitThread ==
  /\ thread = "exiting" /\ thread' = "ended"
  /\ UNCHANGED <<fonts, phase, scanned, lists, posted, choice, daemonFont, points>>
-----------------------------------------------------------------------------
(* Outside src/: the platform theme, and other programs.                   *)
ThemeFollows ==
  /\ phase # "crashed" /\ theme # system
  /\ theme' = system
  /\ UNCHANGED <<fonts, phase, model, choice, system, points>>

OtherSetsFont ==
  /\ system' \in Families \ {system}
  /\ missed' = (phase = "open")
  /\ UNCHANGED <<fonts, phase, model, box, loaded, theme, points>>

OtherSetsSize ==
  /\ size' \in Sizes \ {size}
  /\ given' = size' /\ overridden' = FALSE
  /\ UNCHANGED <<fonts, phase, model, choice, daemonFont, read, tab>>

Thread == ScanFace \/ EndScan \/ FailScan \/ ExitThread

Next ==
  \/ OpenPage \/ CreateControls \/ LoadFinished \/ Pick \/ ClickTab \/ ClosePage
  \/ Thread \/ Crash \/ Relaunch
  \/ ThemeFollows \/ OtherSetsFont \/ OtherSetsSize

Spec == Init /\ [][Next]_vars

(* Both threads run; loading fonts needs nothing else.                     *)
FairSpec ==
  /\ Spec
  /\ WF_vars(Thread)
  /\ WF_vars(CreateControls \/ Crash) /\ WF_vars(LoadFinished)
-----------------------------------------------------------------------------
(* A family is fixed if some face is monospaced; it is general if a face   *)
(* speaks the user's language that is not the first monospaced one.        *)
Counts(b, j) ==
  IF b = "fixed" THEN faces[j].mono
  ELSE /\ faces[j].speaks
       /\ faces[j].mono => \E k \in 1..(j - 1) :
                             faces[k].mono /\ faces[k].family = faces[j].family
ListedAmong(b, n) == {faces[j].family : j \in {k \in 1..n : Counts(b, k)}}
Listed(b) == ListedAmong(b, Len(faces))

(* Whatever the page has read from under the hand of the thread, it leaves *)
(* no trace: once the fonts are loaded the box has every font of its kind, *)
(* once and in order.                                                      *)
ListsAreComplete ==
  loaded => Range(box.list) = Listed(which) /\ Increasing(box.list)

(* Once they are loaded the box shows the font of the system, if it has    *)
(* it, and that the user picked one before does not change it; unless      *)
(* another program set it, or loading ended before the platform theme of   *)
(* this process had followed.                                              *)
BoxShowsSystem ==
  loaded /\ ~missed /\ system \in Listed(which) => box.list[box.index] = system

(* Opening the page is no way to change the font size: a size that has a   *)
(* tab stays, however often the page is opened and left; unless the tabs   *)
(* told of the first one, or another program set a size while they were    *)
(* created.                                                                *)
SizeIsKept == given \in Range(Grid) /\ ~overridden => size = given

(* A page that is opened gets its fonts, unless fontconfig has none or the *)
(* page does not live that long.                                           *)
LoadEnds ==
  phase = "creating" ~> loaded \/ thread = "failed" \/ phase \in {"closed", "crashed"}

(* The inductive invariant behind the three: the lists hold what the       *)
(* thread has listed so far and, once it posts, what there is, in order;   *)
(* they then stay, and the box shows the one of its kind.                  *)
PageTypes ==
  /\ faces \in Seq(Face) /\ which \in Boxes /\ system \in Nat /\ theme \in Nat
  /\ scanned \in 0..Len(faces)
  /\ lists \in [general: Seq(Nat), fixed: Seq(Nat)]
  /\ box \in [list: Seq(Nat), index: Nat]

Done == thread \in {"exiting", "ended"}
ScanListsFaces ==
  /\ phase \in {"closed", "crashed"} => thread = "none" /\ ~posted
  /\ posted => Done
  /\ thread = "scanning" => \A b \in Boxes : Range(lists[b]) = ListedAmong(b, scanned)
  /\ Done => \A b \in Boxes : Range(lists[b]) = Listed(b) /\ Increasing(lists[b])

BoxHasList == loaded => phase = "open" /\ Done /\ box.list = lists[which]

PageInv == PageTypes /\ ScanListsFaces /\ BoxHasList /\ BoxShowsSystem /\ SizeIsKept
=============================================================================
