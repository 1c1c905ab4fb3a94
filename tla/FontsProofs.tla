---------------------------- MODULE FontsProofs ----------------------------
(***************************************************************************)
(* For every system of fonts and every reading under the hand of the other *)
(* thread: the Fonts page ends with complete lists, shows the font of the  *)
(* system and keeps its size.  For every fonts.conf and every program that *)
(* writes it: KXftConfig keeps what was set and what belongs to others,    *)
(* and has nothing left to apply once it has written.                      *)
(***************************************************************************)
EXTENDS FontsPage, KXftConfig, FiniteSetTheorems, SequenceTheorems,
        WellFoundedInduction, TLAPS

-----------------------------------------------------------------------------
(* What is appended to a list is added to its range.                       *)
LEMMA AppendRange ==
  ASSUME NEW S, NEW list \in Seq(S), NEW x \in S
  PROVE  /\ Append(list, x) \in Seq(S)
         /\ Range(Append(list, x)) = Range(list) \union {x}
<1>1. /\ Append(list, x) \in Seq(S)
      /\ DOMAIN Append(list, x) = 1..(Len(list) + 1) /\ Len(list) \in Nat
      /\ \A i \in 1..Len(list) : Append(list, x)[i] = list[i]
      /\ Append(list, x)[Len(list) + 1] = x
  OBVIOUS
<1>2. \A i \in 1..(Len(list) + 1) : i \in 1..Len(list) \/ i = Len(list) + 1
  BY <1>1
<1>3. \A i \in 1..Len(list) : i \in 1..(Len(list) + 1)
  BY <1>1
<1>4. Len(list) + 1 \in 1..(Len(list) + 1)
  BY <1>1
<1>5. Range(Append(list, x)) = {Append(list, x)[i] : i \in 1..(Len(list) + 1)}
  BY <1>1 DEF Range
<1>6. Range(list) = {list[i] : i \in 1..Len(list)}
  BY DEF Range
<1> QED
  BY <1>1, <1>2, <1>3, <1>4, <1>5, <1>6

(* A size of the grid is the size of its tab.                              *)
LEMMA TabOfGrid ==
  ASSUME NEW n \in Range(Grid)
  PROVE  TabOf(n) + 1 \in DOMAIN Grid /\ Grid[TabOf(n) + 1] = n
<1> DEFINE smaller == {i \in DOMAIN Grid : Grid[i] < n}
<1>1. /\ DOMAIN Grid = 1..4
      /\ Grid[1] = 9 /\ Grid[2] = 10 /\ Grid[3] = 12 /\ Grid[4] = 15
  BY DEF Grid
<1>2. PICK k \in 1..4 : n = Grid[k]
  BY <1>1 DEF Range
<1>3. smaller = 1..(k - 1)
  <2>1. \A i \in 1..4 : i = 1 \/ i = 2 \/ i = 3 \/ i = 4
    OBVIOUS
  <2>2. \A i \in 1..4 : Grid[i] < n <=> i < k
    BY <1>1, <1>2, <2>1
  <2> QED
    BY <1>1, <2>2
<1>4. Cardinality(smaller) = k - 1
  <2>1. Cardinality(1..(k - 1)) = IF 1 > k - 1 THEN 0 ELSE (k - 1) - 1 + 1
    BY FS_Interval
  <2> HIDE DEF smaller
  <2> QED
    BY <1>3, <2>1
<1>5. smaller # DOMAIN Grid
  BY <1>1, <1>3
<1>6. TabOf(n) = Cardinality(smaller)
  BY <1>5 DEF TabOf
<1> QED
  BY <1>1, <1>2, <1>4, <1>6

(* One more face: a family is listed by what it counts as.                 *)
LEMMA OneMoreFace ==
  ASSUME NEW b, NEW n \in Nat
  PROVE  ListedAmong(b, n + 1) = ListedAmong(b, n)
           \union (IF Counts(b, n + 1) THEN {faces[n + 1].family} ELSE {})
<1>1. \A k : k \in 1..(n + 1) <=> k \in 1..n \/ k = n + 1
  OBVIOUS
<1> QED
  BY <1>1 DEF ListedAmong

(* ScanFace lists the next face where it counts.                           *)
LEMMA FaceIsListed ==
  ASSUME PageInv, ScanFace
  PROVE  /\ lists' \in [general: Seq(Nat), fixed: Seq(Nat)]
         /\ scanned' \in 0..Len(faces)
         /\ \A b \in Boxes : Range(lists'[b]) = ListedAmong(b, scanned')
<1> DEFINE n == scanned + 1
           face == faces[n]
<1>1. /\ scanned \in Nat /\ n \in 1..Len(faces) /\ scanned' = n
      /\ thread = "scanning"
      /\ face \in Face
      /\ lists \in [general: Seq(Nat), fixed: Seq(Nat)]
  BY DEF PageInv, PageTypes, ScanFace
<1>2. /\ face.family \in Nat /\ face.mono \in BOOLEAN /\ face.speaks \in BOOLEAN
      /\ lists.fixed \in Seq(Nat) /\ lists.general \in Seq(Nat)
  BY <1>1 DEF Face
<1>3. /\ Range(lists.fixed) = ListedAmong("fixed", scanned)
      /\ Range(lists.general) = ListedAmong("general", scanned)
  BY <1>1 DEF PageInv, ScanListsFaces, Boxes
<1>4. lists' = IF face.mono /\ face.family \notin Range(lists.fixed)
               THEN [lists EXCEPT !.fixed = Append(@, face.family)]
               ELSE IF face.speaks /\ face.family \notin Range(lists.general)
               THEN [lists EXCEPT !.general = Append(@, face.family)]
               ELSE lists
  BY <1>1 DEF ScanFace
<1>5. ListedAmong("fixed", n) =
        ListedAmong("fixed", scanned) \union (IF face.mono THEN {face.family} ELSE {})
  BY <1>1, OneMoreFace DEF Counts
<1>6. face.family \in Range(lists.fixed) <=>
        \E k \in 1..(n - 1) : faces[k].mono /\ faces[k].family = face.family
  BY <1>1, <1>3 DEF ListedAmong, Counts
<1>7. Counts("general", n) <=>
        face.speaks /\ (face.mono => face.family \in Range(lists.fixed))
  BY <1>6 DEF Counts
<1>8. ListedAmong("general", n) =
        ListedAmong("general", scanned)
          \union (IF face.speaks /\ (face.mono => face.family \in Range(lists.fixed))
                  THEN {face.family} ELSE {})
  BY <1>1, <1>7, OneMoreFace
<1>9. CASE face.mono /\ face.family \notin Range(lists.fixed)
  <2>1. /\ lists'.fixed = Append(lists.fixed, face.family)
        /\ lists'.general = lists.general
        /\ lists' \in [general: Seq(Nat), fixed: Seq(Nat)]
    BY <1>1, <1>2, <1>4, <1>9, AppendRange
  <2>2. Range(lists'.fixed) = Range(lists.fixed) \union {face.family}
    BY <1>2, <2>1, AppendRange
  <2>3. /\ Range(lists'.fixed) = ListedAmong("fixed", n)
        /\ Range(lists'.general) = ListedAmong("general", n)
    BY <1>3, <1>5, <1>8, <1>9, <2>1, <2>2
  <2>4. \A b \in Boxes : Range(lists'[b]) = ListedAmong(b, n)
    BY <2>3 DEF Boxes
  <2>5. lists' \in [general: Seq(Nat), fixed: Seq(Nat)]
    BY <2>1
  <2> QED
    BY <1>1, <2>4, <2>5
<1>10. CASE /\ ~(face.mono /\ face.family \notin Range(lists.fixed))
            /\ face.speaks /\ face.family \notin Range(lists.general)
  <2>1. /\ lists'.general = Append(lists.general, face.family)
        /\ lists'.fixed = lists.fixed
        /\ lists' \in [general: Seq(Nat), fixed: Seq(Nat)]
    BY <1>1, <1>2, <1>4, <1>10, AppendRange
  <2>2. Range(lists'.general) = Range(lists.general) \union {face.family}
    BY <1>2, <2>1, AppendRange
  <2>3. /\ Range(lists'.fixed) = ListedAmong("fixed", n)
        /\ Range(lists'.general) = ListedAmong("general", n)
    BY <1>3, <1>5, <1>8, <1>10, <2>1, <2>2
  <2>4. \A b \in Boxes : Range(lists'[b]) = ListedAmong(b, n)
    BY <2>3 DEF Boxes
  <2>5. lists' \in [general: Seq(Nat), fixed: Seq(Nat)]
    BY <2>1
  <2> QED
    BY <1>1, <2>4, <2>5
<1>11. CASE /\ ~(face.mono /\ face.family \notin Range(lists.fixed))
            /\ ~(face.speaks /\ face.family \notin Range(lists.general))
  <2>1. lists' = lists
    BY <1>4, <1>11
  <2>3. /\ Range(lists'.fixed) = ListedAmong("fixed", n)
        /\ Range(lists'.general) = ListedAmong("general", n)
    BY <1>3, <1>5, <1>8, <1>11, <2>1
  <2>4. \A b \in Boxes : Range(lists'[b]) = ListedAmong(b, n)
    BY <2>3 DEF Boxes
  <2>5. lists' \in [general: Seq(Nat), fixed: Seq(Nat)]
    BY <1>1, <2>1
  <2> QED
    BY <1>1, <2>4, <2>5
<1> QED
  BY <1>9, <1>10, <1>11

(* What reading a list under the hand of the thread gives.                 *)
LEMMA ReadingsType ==
  ASSUME NEW list \in Seq(Nat), NEW part \in Readings(list)
  PROVE  part \in Seq(Nat)
<1>1. \A n \in 0..Len(list) : SubSeq(list, 1, n) \in Seq(Nat)
  BY SubSeqProperties
<1> QED
  BY <1>1 DEF Readings

(* What a handler of loadFinished selects.                                 *)
LEMMA SelectType ==
  ASSUME NEW list \in Seq(Nat), NEW index \in Nat
  PROVE  /\ Select(list, index) \in [list: Seq(Nat), index: Nat]
         /\ Select(list, index).list = list
         /\ theme \in Range(list) => list[Select(list, index).index] = theme
<1>1. theme \in Range(list) => \E i \in DOMAIN list : list[i] = theme
  BY DEF Range
<1>2. DOMAIN list \subseteq Nat
  OBVIOUS
<1> QED
  BY <1>1, <1>2 DEF Select

(* What the tabs do with a size that has a tab.                            *)
LEMMA TabsKeepSize ==
  ASSUME SizeIsKept, CreateTabs
  PROVE  SizeIsKept'
<1> SUFFICES ASSUME given' \in Range(Grid), ~overridden' PROVE size' = given'
  BY DEF SizeIsKept
<1>1. PICK first \in TabReports :
        /\ tab' = TabOf(IF first THEN Grid[1] ELSE read)
        /\ size' = IF tab' # 0 THEN Grid[tab' + 1] ELSE IF first THEN Grid[1] ELSE size
        /\ overridden' = (overridden \/ first \/ (tab' # 0 /\ read # size))
        /\ UNCHANGED <<read, given>>
  BY DEF CreateTabs
<1>2. ~first /\ ~overridden /\ given \in Range(Grid) /\ size = given
  BY <1>1 DEF SizeIsKept
<1>3. tab' # 0 => Grid[TabOf(read) + 1] = given
  BY <1>1, <1>2, TabOfGrid
<1> QED
  BY <1>1, <1>2, <1>3

(* The page's lists, its box and its size along every behaviour: the       *)
(* inductive invariant behind the three properties of the page.            *)
THEOREM PageInvariant == Spec => []PageInv
<1>1. Init => PageInv
  <2> SUFFICES ASSUME Init PROVE PageInv
    OBVIOUS
  <2>1. /\ faces \in Seq(Face) /\ which \in Boxes /\ system \in Nat /\ theme \in Nat
        /\ Len(faces) \in Nat
    BY FontsAssumption DEF Init
  <2>2. NoFonts \in [general: Seq(Nat), fixed: Seq(Nat)]
    BY DEF NoFonts
  <2> QED
    BY <2>1, <2>2
       DEF Init, PageInv, PageTypes, ScanListsFaces, BoxHasList, Done, BoxShowsSystem, SizeIsKept
<1>2. PageInv /\ [Next]_vars => PageInv'
  <2> SUFFICES ASSUME PageInv, [Next]_vars PROVE PageInv'
    OBVIOUS
  <2> USE DEF PageInv
  <2>1. Len(faces) \in Nat
    BY DEF PageTypes
  <2>2. faces' = faces /\ which' = which
    BY DEF Next, Thread, OpenPage, CreateControls, LoadFinished, Pick, ClickTab, ClosePage,
           Crash, Gone, Relaunch, ScanFace, EndScan, FailScan, ExitThread, ThemeFollows,
           OtherSetsFont, OtherSetsSize, fonts, vars
  <2>3. /\ \A b, n : ListedAmong(b, n)' = ListedAmong(b, n)
        /\ \A b : Listed(b)' = Listed(b)
    BY <2>2 DEF ListedAmong, Listed, Counts
  <2>4. CASE OpenPage
    <3>1. NoFonts \in [general: Seq(Nat), fixed: Seq(Nat)]
      BY DEF NoFonts
    <3>2. \A b \in Boxes : Range(NoFonts[b]) = {} /\ ListedAmong(b, 0) = {}
      BY DEF NoFonts, Boxes, Range, ListedAmong
    <3>3. /\ phase' = "creating" /\ thread' = "scanning" /\ scanned' = 0
          /\ lists' = NoFonts /\ ~posted'
          /\ UNCHANGED <<box, loaded, missed, system, theme, size, given, overridden>>
      BY <2>4 DEF OpenPage, choice, daemonFont
    <3>4. ~loaded
      BY <2>4 DEF OpenPage, BoxHasList
    <3>5. PageTypes'
      BY <2>1, <2>2, <3>1, <3>3 DEF PageTypes
    <3>6. ScanListsFaces'
      BY <2>3, <3>2, <3>3 DEF ScanListsFaces, Done
    <3> QED
      BY <3>3, <3>4, <3>5, <3>6 DEF BoxHasList, BoxShowsSystem, SizeIsKept
  <2>5. CASE CreateControls
    <3>1. /\ phase = "creating" /\ phase' = "open"
          /\ UNCHANGED <<thread, scanned, lists, posted, loaded, missed, system, theme>>
      BY <2>5 DEF CreateControls, model, daemonFont
    <3>2. PICK list \in Readings(lists[which]) : box' = [list |-> list, index |-> First(list)]
      BY <2>5 DEF CreateControls, CreateBox
    <3>3. list \in Seq(Nat) /\ First(list) \in Nat
      BY <3>2, ReadingsType DEF PageTypes, Boxes, First
    <3>4. PageTypes'
      BY <2>2, <3>1, <3>2, <3>3 DEF PageTypes
    <3>5. ScanListsFaces'
      BY <2>3, <3>1 DEF ScanListsFaces, Done
    <3>6. ~loaded'
      BY <3>1 DEF BoxHasList
    <3>7. SizeIsKept'
      BY <2>5, TabsKeepSize DEF CreateControls
    <3> QED
      BY <3>4, <3>5, <3>6, <3>7 DEF BoxHasList, BoxShowsSystem
  <2>6. CASE LoadFinished
    <3> DEFINE list == lists[which]
    <3>1. /\ phase = "open" /\ posted /\ ~posted' /\ loaded' /\ missed' = (theme # system)
          /\ box' = Select(list, IF list = box.list THEN box.index ELSE First(list))
          /\ UNCHANGED <<phase, thread, scanned, lists, system, theme, size, given, overridden>>
      BY <2>6 DEF LoadFinished, daemonFont, points
    <3>2. /\ list \in Seq(Nat) /\ box.index \in Nat /\ First(list) \in Nat
      BY DEF PageTypes, Boxes, First
    <3>3. /\ box' \in [list: Seq(Nat), index: Nat] /\ box'.list = list
          /\ theme \in Range(list) => list[box'.index] = theme
      BY <3>1, <3>2, SelectType
    <3>4. Done /\ Range(list) = Listed(which)
      BY <3>1 DEF ScanListsFaces, PageTypes
    <3>5. PageTypes'
      BY <2>2, <3>1, <3>3 DEF PageTypes
    <3>6. ScanListsFaces'
      BY <2>3, <3>1, <3>4 DEF ScanListsFaces, Done
    <3>7. BoxHasList'
      BY <2>2, <3>1, <3>3, <3>4 DEF BoxHasList, Done
    <3>8. BoxShowsSystem'
      BY <2>2, <2>3, <3>1, <3>3, <3>4 DEF BoxShowsSystem
    <3> QED
      BY <3>1, <3>5, <3>6, <3>7, <3>8 DEF SizeIsKept
  <2>7. CASE Pick
    <3>1. PICK i \in DOMAIN box.list : box' = [box EXCEPT !.index = i] /\ system' = box.list[i]
      BY <2>7 DEF Pick
    <3>2. /\ UNCHANGED <<phase, thread, scanned, lists, posted, loaded, theme, size, given,
                         overridden>>
      BY <2>7 DEF Pick, model, points
    <3>3. /\ box' \in [list: Seq(Nat), index: Nat] /\ box'.list = box.list /\ box'.index = i
          /\ system' \in Nat
      <4>1. box.list \in Seq(Nat) /\ box = [list |-> box.list, index |-> box.index]
        BY DEF PageTypes
      <4>2. i \in Nat /\ box.list[i] \in Nat
        BY <3>1, <4>1
      <4>3. box' = [list |-> box.list, index |-> i]
        BY <3>1, <4>1
      <4> QED
        BY <3>1, <4>1, <4>2, <4>3
    <3>4. PageTypes'
      BY <2>2, <3>2, <3>3 DEF PageTypes
    <3>5. ScanListsFaces'
      BY <2>3, <3>2 DEF ScanListsFaces, Done
    <3> QED
      BY <2>2, <3>1, <3>2, <3>3, <3>4, <3>5 DEF BoxHasList, BoxShowsSystem, SizeIsKept, Done
  <2>8. CASE ClosePage \/ Crash
    <3>1. /\ phase' \in {"closed", "crashed"} /\ thread' = "none" /\ scanned' = 0
          /\ lists' = NoFonts /\ ~posted' /\ ~loaded'
          /\ box' = [list |-> <<>>, index |-> 0]
          /\ UNCHANGED <<system, theme, size, given, overridden>>
      BY <2>8 DEF ClosePage, Crash, Gone, daemonFont
    <3>2. NoFonts \in [general: Seq(Nat), fixed: Seq(Nat)]
      BY DEF NoFonts
    <3>3. PageTypes'
      BY <2>1, <2>2, <3>1, <3>2 DEF PageTypes
    <3> QED
      BY <3>1, <3>3 DEF ScanListsFaces, BoxHasList, BoxShowsSystem, SizeIsKept, Done
  <2>9. CASE ScanFace
    <3>1. /\ thread = "scanning"
          /\ UNCHANGED <<phase, thread, posted, box, loaded, missed, system, theme, size,
                         given, overridden>>
      BY <2>9 DEF ScanFace, choice, daemonFont, points
    <3>2. /\ lists' \in [general: Seq(Nat), fixed: Seq(Nat)]
          /\ scanned' \in 0..Len(faces)
          /\ \A b \in Boxes : Range(lists'[b]) = ListedAmong(b, scanned')
      BY <2>9, FaceIsListed
    <3>3. \A b \in Boxes : ListedAmong(b, scanned)' = ListedAmong(b, scanned')
      BY <2>2 DEF ListedAmong, Counts
    <3>4. PageTypes'
      BY <2>2, <3>1, <3>2 DEF PageTypes
    <3>5. ScanListsFaces'
      BY <3>1, <3>2, <3>3 DEF ScanListsFaces, Done
    <3>6. ~loaded'
      BY <3>1 DEF BoxHasList, Done
    <3> QED
      BY <3>1, <3>4, <3>5, <3>6 DEF BoxHasList, BoxShowsSystem, SizeIsKept
  <2>10. CASE EndScan
    <3>1. /\ thread = "scanning" /\ scanned = Len(faces) /\ thread' = "exiting"
          /\ UNCHANGED <<phase, scanned, box, loaded, missed, system, theme, size, given,
                         overridden>>
      BY <2>10 DEF EndScan, choice, daemonFont, points
    <3>2. PICK general \in Sortings(lists.general), fixed \in Sortings(lists.fixed) :
            lists' = [general |-> general, fixed |-> fixed]
      BY <2>10 DEF EndScan
    <3>3. ASSUME NEW list \in Seq(Nat), NEW sorted \in Sortings(list)
          PROVE  sorted \in Seq(Nat) /\ Range(sorted) = Range(list) /\ Increasing(sorted)
      <4>1. Len(list) \in Nat /\ DOMAIN list = 1..Len(list) /\ Range(list) \subseteq Nat
        BY <3>3 DEF Range
      <4>2. sorted \in [1..Len(list) -> Nat]
        BY <3>3, <4>1 DEF Sortings
      <4> QED
        BY <3>3, <4>1, <4>2 DEF Sortings
    <3>4. /\ lists'.general \in Seq(Nat) /\ lists'.fixed \in Seq(Nat)
          /\ \A b \in Boxes : Range(lists'[b]) = Range(lists[b]) /\ Increasing(lists'[b])
      BY <3>2, <3>3 DEF PageTypes, Boxes
    <3>5. \A b \in Boxes : Range(lists[b]) = Listed(b)
      BY <3>1 DEF ScanListsFaces, Listed
    <3>6. phase \notin {"closed", "crashed"} /\ ~loaded'
      BY <3>1 DEF ScanListsFaces, BoxHasList, Done
    <3>7. PageTypes'
      BY <2>2, <3>1, <3>2, <3>4 DEF PageTypes
    <3>8. ScanListsFaces'
      BY <2>3, <3>1, <3>4, <3>5, <3>6 DEF ScanListsFaces, Done, Increasing
    <3> QED
      BY <3>1, <3>6, <3>7, <3>8 DEF BoxHasList, BoxShowsSystem, SizeIsKept
  <2>11. CASE FailScan \/ ExitThread
    <3>1. /\ \/ thread = "scanning" /\ thread' = "failed"
             \/ thread = "exiting" /\ thread' = "ended"
          /\ UNCHANGED <<phase, scanned, lists, posted, box, loaded, missed, system, theme,
                         size, given, overridden>>
      BY <2>11 DEF FailScan, ExitThread, choice, daemonFont, points
    <3>2. PageTypes'
      BY <2>2, <3>1 DEF PageTypes
    <3>3. ScanListsFaces'
      BY <2>3, <3>1 DEF ScanListsFaces, Done
    <3>4. BoxHasList' /\ BoxShowsSystem' /\ SizeIsKept'
      BY <2>2, <2>3, <3>1 DEF BoxHasList, Done, BoxShowsSystem, SizeIsKept
    <3> QED
      BY <3>2, <3>3, <3>4
  <2>12. CASE Relaunch \/ ThemeFollows \/ OtherSetsFont
    <3>1. UNCHANGED <<thread, scanned, lists, posted, box, loaded, size, given, overridden>>
      BY <2>12 DEF Relaunch, ThemeFollows, OtherSetsFont, model, choice, points
    <3>2. system' \in Nat /\ theme' \in Nat
      BY <2>12, FontsAssumption DEF Relaunch, ThemeFollows, OtherSetsFont, PageTypes
    <3>3. \/ phase' = phase
          \/ phase = "crashed" /\ phase' = "closed"
      BY <2>12 DEF Relaunch, ThemeFollows, OtherSetsFont
    <3>4. loaded => phase' = phase /\ (missed' = TRUE \/ UNCHANGED <<missed, system>>)
      <4>1. CASE Relaunch
        BY <4>1 DEF Relaunch, BoxHasList
      <4>2. CASE ThemeFollows
        BY <4>2 DEF ThemeFollows, choice
      <4>3. CASE OtherSetsFont
        <5>1. missed' = (phase = "open") /\ phase' = phase
          BY <4>3 DEF OtherSetsFont
        <5>2. loaded => phase = "open"
          BY DEF BoxHasList
        <5> QED
          BY <5>1, <5>2
      <4> QED
        BY <2>12, <4>1, <4>2, <4>3
    <3>5. PageTypes'
      BY <2>2, <3>1, <3>2 DEF PageTypes
    <3>6. ScanListsFaces'
      BY <2>3, <3>1, <3>3 DEF ScanListsFaces, Done
    <3>7. BoxHasList'
      BY <2>2, <3>1, <3>4 DEF BoxHasList, Done
    <3>8. BoxShowsSystem'
      BY <2>2, <2>3, <3>1, <3>4 DEF BoxShowsSystem
    <3> QED
      BY <3>1, <3>5, <3>6, <3>7, <3>8 DEF SizeIsKept
  <2>13. CASE ClickTab \/ OtherSetsSize \/ UNCHANGED vars
    <3>1. UNCHANGED <<phase, thread, scanned, lists, posted, box, loaded, missed, system, theme>>
      BY <2>13 DEF ClickTab, OtherSetsSize, vars, model, choice, daemonFont
    <3>2. SizeIsKept'
      BY <2>13 DEF ClickTab, OtherSetsSize, vars, points, SizeIsKept
    <3>3. PageTypes'
      BY <2>2, <3>1 DEF PageTypes
    <3>4. ScanListsFaces' /\ BoxHasList' /\ BoxShowsSystem'
      BY <2>2, <2>3, <3>1 DEF ScanListsFaces, BoxHasList, BoxShowsSystem, Done
    <3> QED
      BY <3>2, <3>3, <3>4
  <2> QED
    BY <2>4, <2>5, <2>6, <2>7, <2>8, <2>9, <2>10, <2>11, <2>12, <2>13 DEF Next, Thread
<1> QED
  BY <1>1, <1>2, PTL DEF Spec

(* Whatever was read while the thread appended: loaded lists are complete, *)
(* without doubles and in order.                                           *)
THEOREM PageListsComplete == Spec => []ListsAreComplete
<1>1. PageInv => ListsAreComplete
  BY DEF PageInv, PageTypes, ScanListsFaces, BoxHasList, ListsAreComplete
<1> QED
  BY <1>1, PageInvariant, PTL

(* Once the fonts are loaded the box shows the font of the system.         *)
THEOREM PageShowsSystem == Spec => []BoxShowsSystem
  BY PageInvariant, PTL DEF PageInv

(* Opening and leaving the page does not change a size that has a tab.     *)
THEOREM PageKeepsSize == Spec => []SizeIsKept
  BY PageInvariant, PTL DEF PageInv

-----------------------------------------------------------------------------
(* Documents.  Taking the element at a position out moves the later ones   *)
(* up.                                                                     *)
LEMMA RemoveAtIs ==
  ASSUME NEW S, NEW doc \in Seq(S), NEW p \in DOMAIN doc
  PROVE  /\ RemoveAt(doc, p) \in Seq(S)
         /\ Len(doc) - 1 \in Nat
         /\ DOMAIN RemoveAt(doc, p) = 1..(Len(doc) - 1)
         /\ \A i \in 1..(Len(doc) - 1) :
              RemoveAt(doc, p)[i] = IF i < p THEN doc[i] ELSE doc[i + 1]
<1> DEFINE head == SubSeq(doc, 1, p - 1)
           tail == SubSeq(doc, p + 1, Len(doc))
<1>1. Len(doc) \in Nat /\ p \in 1..Len(doc) /\ \A i \in 1..Len(doc) : doc[i] \in S
  OBVIOUS
<1>2. /\ head \in Seq(S) /\ Len(head) = p - 1
      /\ \A i \in 1..(p - 1) : head[i] = doc[i]
  <2>1. \A i \in 1..(p - 1) : doc[i] \in S
    BY <1>1
  <2>2. /\ head \in Seq(S) /\ Len(head) = IF 1 <= p - 1 THEN (p - 1) - 1 + 1 ELSE 0
        /\ \A i \in 1..((p - 1) - 1 + 1) : head[i] = doc[1 + i - 1]
    BY <1>1, <2>1, SubSeqProperties
  <2> QED
    BY <1>1, <2>2
<1>3. /\ tail \in Seq(S) /\ Len(tail) = Len(doc) - p
      /\ \A i \in 1..(Len(doc) - p) : tail[i] = doc[p + i]
  <2>1. \A i \in (p + 1)..Len(doc) : doc[i] \in S
    BY <1>1
  <2>2. /\ tail \in Seq(S)
        /\ Len(tail) = IF p + 1 <= Len(doc) THEN Len(doc) - (p + 1) + 1 ELSE 0
        /\ \A i \in 1..(Len(doc) - (p + 1) + 1) : tail[i] = doc[(p + 1) + i - 1]
    BY <1>1, <2>1, SubSeqProperties
  <2> QED
    BY <1>1, <2>2
<1>4. RemoveAt(doc, p) = head \o tail
  BY DEF RemoveAt
<1> HIDE DEF head, tail
<1>5. /\ head \o tail \in Seq(S) /\ Len(head \o tail) = Len(head) + Len(tail)
      /\ \A i \in 1..(Len(head) + Len(tail)) :
           (head \o tail)[i] = IF i <= Len(head) THEN head[i] ELSE tail[i - Len(head)]
  BY <1>2, <1>3, ConcatProperties
<1>6. Len(head) + Len(tail) = Len(doc) - 1
  BY <1>1, <1>2, <1>3
<1>7. ASSUME NEW i \in 1..(Len(doc) - 1)
      PROVE  (head \o tail)[i] = IF i < p THEN doc[i] ELSE doc[i + 1]
  <2>1. CASE i < p
    BY <1>1, <1>2, <1>5, <1>6, <2>1
  <2>2. CASE ~(i < p)
    <3>1. i - Len(head) \in 1..(Len(doc) - p) /\ p + (i - Len(head)) = i + 1
      BY <1>1, <1>2, <2>2
    <3>2. (head \o tail)[i] = tail[i - Len(head)]
      BY <1>1, <1>2, <1>5, <1>6, <2>2
    <3> QED
      BY <1>3, <2>2, <3>1, <3>2
  <2> QED
    BY <2>1, <2>2
<1> QED
  BY <1>1, <1>4, <1>5, <1>6, <1>7

(* Reading off what a tree is.                                             *)
LEMMA TreeIs ==
  ASSUME NEW doc, Tree(doc)
  PROVE  /\ doc \in Seq(Child) /\ Len(doc) \in Nat /\ DOMAIN doc = 1..Len(doc)
         /\ \A i \in DOMAIN doc : /\ doc[i] \in Child /\ doc[i].node \in Int
                                  /\ doc[i].entry \in Entry /\ doc[i].node # Null
         /\ \A i, j \in DOMAIN doc : doc[i].node = doc[j].node => i = j
<1>1. doc \in Seq(Child)
  BY DEF Tree
<1>2. \A i \in DOMAIN doc : doc[i] \in Child /\ doc[i].node \in Int /\ doc[i].entry \in Entry
  <2>1. \A i \in DOMAIN doc : doc[i] \in Child
    BY <1>1
  <2> QED
    BY <2>1 DEF Child
<1>3. \A key \in Keys : NewNode[key] < 0
  BY DEF Keys, NewNode
<1>4. \A i \in DOMAIN doc : doc[i].node # Null
  BY <1>3 DEF Tree, Null
<1> QED
  BY <1>1, <1>2, <1>4 DEF Tree

(* What keeps the children that are not cut can be done in two steps.      *)
LEMMA KeptTwice ==
  ASSUME NEW cut, NEW old, NEW mid, NEW new, Kept(cut, old, mid), Kept(cut, mid, new)
  PROVE  Kept(cut, old, new)
<1>1. ASSUME NEW i \in DOMAIN old, NEW j \in DOMAIN old,
             i <= j, old[i] \notin cut, old[j] \notin cut
      PROVE  \E k, l \in DOMAIN new : k <= l /\ new[k] = old[i] /\ new[l] = old[j]
  <2>1. PICK k, l \in DOMAIN mid : k <= l /\ mid[k] = old[i] /\ mid[l] = old[j]
    BY <1>1 DEF Kept
  <2> QED
    BY <1>1, <2>1 DEF Kept
<1>2. ASSUME NEW k \in DOMAIN new
      PROVE  (\E i \in DOMAIN old : old[i] = new[k]) \/ (new[k] \in cut /\ new[k].node < 0)
  <2>1. CASE \E i \in DOMAIN mid : mid[i] = new[k]
    BY <2>1 DEF Kept
  <2>2. CASE new[k] \in cut /\ new[k].node < 0
    BY <2>2
  <2> QED
    BY <2>1, <2>2 DEF Kept
<1> QED
  BY <1>1, <1>2 DEF Kept

LEMMA KeptMore ==
  ASSUME NEW cut, NEW more, cut \subseteq more, NEW old, NEW new, Kept(cut, old, new)
  PROVE  Kept(more, old, new)
  BY DEF Kept

LEMMA KeptItself ==
  ASSUME NEW cut, NEW doc
  PROVE  Kept(cut, doc, doc)
  BY DEF Kept

(* The children that are not cut are in the same order.                    *)
LEMMA KeptOrder ==
  ASSUME NEW cut, NEW old, NEW new, Tree(old), Tree(new), Kept(cut, old, new),
         NEW i \in DOMAIN old, NEW j \in DOMAIN old, old[i] \notin cut, old[j] \notin cut,
         NEW k \in DOMAIN new, NEW l \in DOMAIN new, new[k] = old[i], new[l] = old[j], k < l
  PROVE  i < j
<1>1. i \in Int /\ j \in Int /\ k \in Int /\ l \in Int
  BY TreeIs
<1> SUFFICES ASSUME j <= i PROVE FALSE
  BY <1>1
<1>2. PICK m, n \in DOMAIN new : m <= n /\ new[m] = old[j] /\ new[n] = old[i]
  BY DEF Kept
<1>3. m = l /\ n = k
  BY <1>2, TreeIs
<1> QED
  BY <1>1, <1>2, <1>3

(* removeChild().                                                          *)
LEMMA WithoutKeeps ==
  ASSUME NEW doc, Tree(doc), NEW node, NEW cut,
         \A i \in DOMAIN doc : doc[i].node = node => doc[i] \in cut
  PROVE  /\ Tree(Without(doc, node)) /\ Kept(cut, doc, Without(doc, node))
         /\ ~Holds(Without(doc, node), node)
         /\ \A n : Holds(Without(doc, node), n) => Holds(doc, n)
<1> DEFINE at == {i \in DOMAIN doc : doc[i].node = node}
<1>1. CASE at = {}
  <2>1. Without(doc, node) = doc
    BY <1>1 DEF Without
  <2> QED
    BY <1>1, <2>1, KeptItself DEF Holds
<1>2. CASE at # {}
  <2> DEFINE p == CHOOSE i \in at : TRUE
             new == RemoveAt(doc, p)
  <2>1. p \in DOMAIN doc /\ doc[p].node = node /\ Without(doc, node) = new
    BY <1>2 DEF Without
  <2> HIDE DEF p
  <2>2. /\ new \in Seq(Child) /\ DOMAIN new = 1..(Len(doc) - 1) /\ Len(doc) \in Nat
        /\ DOMAIN doc = 1..Len(doc)
        /\ \A i \in 1..(Len(doc) - 1) : new[i] = IF i < p THEN doc[i] ELSE doc[i + 1]
    BY <2>1, TreeIs, RemoveAtIs
  <2> HIDE DEF new
  <2> DEFINE From(i) == IF i < p THEN i ELSE i + 1
             To(i) == IF i < p THEN i ELSE i - 1
  <2>3. \A i \in DOMAIN new : From(i) \in DOMAIN doc /\ From(i) # p /\ new[i] = doc[From(i)]
    BY <2>1, <2>2
  <2>4. \A i \in DOMAIN doc : i # p => To(i) \in DOMAIN new /\ new[To(i)] = doc[i]
    BY <2>1, <2>2
  <2>5. \A i, j \in DOMAIN doc : i <= j /\ i # p /\ j # p => To(i) <= To(j)
    BY <2>1, <2>2
  <2>6. \A i, j \in DOMAIN new : From(i) = From(j) => i = j
    BY <2>1, <2>2
  <2> HIDE DEF From, To
  <2>7. Tree(new)
    BY <2>2, <2>3, <2>6 DEF Tree
  <2>8. Kept(cut, doc, new)
    <3>1. ASSUME NEW i \in DOMAIN doc, NEW j \in DOMAIN doc,
                 i <= j, doc[i] \notin cut, doc[j] \notin cut
          PROVE  \E k, l \in DOMAIN new : k <= l /\ new[k] = doc[i] /\ new[l] = doc[j]
      BY <2>1, <2>4, <2>5, <3>1
    <3>2. \A k \in DOMAIN new : \E i \in DOMAIN doc : doc[i] = new[k]
      BY <2>3
    <3> QED
      BY <3>1, <3>2 DEF Kept
  <2>9. ~Holds(new, node)
    BY <2>1, <2>3, TreeIs DEF Holds
  <2>10. \A n : Holds(new, n) => Holds(doc, n)
    BY <2>3 DEF Holds
  <2> QED
    BY <2>1, <2>7, <2>8, <2>9, <2>10
<1> QED
  BY <1>1, <1>2

(* The numbers of new nodes.                                               *)
LEMMA NewNodes ==
  /\ \A key \in Keys : NewNode[key] \in Int /\ NewNode[key] < 0
  /\ \A key, other \in Keys : NewNode[key] = NewNode[other] => key = other
  BY DEF Keys, NewNode

NewChild(key) == {child \in Child : child.node = NewNode[key] /\ child.entry.key = key}

(* insertBefore() at the end, and replaceChild(): a new element for a key  *)
(* gets into the document, unless the one to replace is not there.         *)
LEMMA PutKeeps ==
  ASSUME NEW doc, Tree(doc), NEW key \in Keys, NEW node, NEW new \in NewChild(key),
         Holds(doc, NewNode[key]) => node = NewNode[key],
         \A i \in DOMAIN doc : doc[i].node = node => doc[i].entry.key = key
  PROVE  /\ Tree(Put(doc, node, new)) /\ Kept(OfKeys({key}), doc, Put(doc, node, new))
         /\ node = Null => /\ Len(doc) + 1 \in DOMAIN Put(doc, node, new)
                           /\ Put(doc, node, new)[Len(doc) + 1] = new
                           /\ DOMAIN Put(doc, node, new) = 1..(Len(doc) + 1)
         /\ node # Null => /\ DOMAIN Put(doc, node, new) = DOMAIN doc
                           /\ \A i \in DOMAIN doc :
                                Put(doc, node, new)[i] =
                                  IF doc[i].node = node THEN new ELSE doc[i]
<1> DEFINE put == Put(doc, node, new)
<1>1. /\ doc \in Seq(Child) /\ Len(doc) \in Nat /\ DOMAIN doc = 1..Len(doc)
      /\ \A i \in DOMAIN doc : doc[i] \in Child /\ doc[i].node # Null
      /\ \A i, j \in DOMAIN doc : doc[i].node = doc[j].node => i = j
      /\ \A i \in DOMAIN doc : \/ doc[i].node > 0
                               \/ /\ doc[i].entry.key \in Keys
                                  /\ doc[i].node = NewNode[doc[i].entry.key]
  BY TreeIs DEF Tree
<1>2. /\ new \in Child /\ new.node = NewNode[key] /\ new.entry.key = key
      /\ new \in OfKeys({key}) /\ new.node < 0
  BY NewNodes DEF NewChild, OfKeys
<1>3. CASE node = Null
  <2>1. /\ put = Append(doc, new) /\ put \in Seq(Child)
        /\ DOMAIN put = 1..(Len(doc) + 1)
        /\ put[Len(doc) + 1] = new /\ \A i \in 1..Len(doc) : put[i] = doc[i]
    BY <1>1, <1>2, <1>3 DEF Put
  <2> HIDE DEF put
  <2>2. \A i \in 1..(Len(doc) + 1) : i \in 1..Len(doc) \/ i = Len(doc) + 1
    BY <1>1
  <2>3. \A i \in DOMAIN doc : doc[i].node # NewNode[key]
    BY <1>3, NewNodes DEF Holds, Null
  <2>4. Tree(put)
    <3>1. ASSUME NEW i \in DOMAIN put, NEW j \in DOMAIN put, put[i].node = put[j].node
          PROVE  i = j
      BY <1>1, <1>2, <2>1, <2>2, <2>3, <3>1
    <3>2. ASSUME NEW i \in DOMAIN put
          PROVE  \/ put[i].node > 0
                 \/ put[i].entry.key \in Keys /\ put[i].node = NewNode[put[i].entry.key]
      BY <1>1, <1>2, <2>1, <2>2
    <3> QED
      BY <2>1, <3>1, <3>2 DEF Tree
  <2>5. Kept(OfKeys({key}), doc, put)
    <3>1. ASSUME NEW i \in DOMAIN doc, NEW j \in DOMAIN doc, i <= j
          PROVE  \E k, l \in DOMAIN put : k <= l /\ put[k] = doc[i] /\ put[l] = doc[j]
      BY <1>1, <2>1, <3>1
    <3>2. ASSUME NEW k \in DOMAIN put
          PROVE  \/ \E i \in DOMAIN doc : doc[i] = put[k]
                 \/ put[k] \in OfKeys({key}) /\ put[k].node < 0
      BY <1>1, <1>2, <2>1, <2>2
    <3> QED
      BY <3>1, <3>2 DEF Kept
  <2> QED
    BY <1>1, <1>3, <2>1, <2>4, <2>5 DEF put
<1>4. CASE node # Null
  <2>1. put = [i \in DOMAIN doc |-> IF doc[i].node = node THEN new ELSE doc[i]]
    BY <1>4 DEF Put, Replaced
  <2> HIDE DEF put
  <2>2. /\ put \in Seq(Child) /\ DOMAIN put = DOMAIN doc
        /\ \A i \in DOMAIN doc : put[i] = IF doc[i].node = node THEN new ELSE doc[i]
    BY <1>1, <1>2, <2>1
  <2>3. Tree(put)
    <3>1. ASSUME NEW i \in DOMAIN put, NEW j \in DOMAIN put, put[i].node = put[j].node
          PROVE  i = j
      BY <1>1, <1>2, <2>2, <3>1 DEF Holds
    <3>2. ASSUME NEW i \in DOMAIN put
          PROVE  \/ put[i].node > 0
                 \/ put[i].entry.key \in Keys /\ put[i].node = NewNode[put[i].entry.key]
      BY <1>1, <1>2, <2>2
    <3> QED
      BY <2>2, <3>1, <3>2 DEF Tree
  <2>4. Kept(OfKeys({key}), doc, put)
    <3>1. \A i \in DOMAIN doc : doc[i] \notin OfKeys({key}) => put[i] = doc[i]
      BY <1>1, <2>2 DEF OfKeys
    <3>2. ASSUME NEW k \in DOMAIN put
          PROVE  \/ \E i \in DOMAIN doc : doc[i] = put[k]
                 \/ put[k] \in OfKeys({key}) /\ put[k].node < 0
      BY <1>2, <2>2
    <3> QED
      BY <2>2, <3>1, <3>2 DEF Kept
  <2> QED
    BY <1>4, <2>2, <2>3, <2>4 DEF put
<1> QED
  BY <1>3, <1>4

(* A node that is the place of a key stays it while other keys change.     *)
LEMMA PlaceKept ==
  ASSUME NEW keys \in SUBSET Keys, NEW key \in Keys \ keys, NEW node,
         NEW old, NEW new, Tree(old), Tree(new), Kept(OfKeys(keys), old, new),
         PlaceOf(old, key, node)
  PROVE  PlaceOf(new, key, node)
<1>1. ASSUME NEW k \in DOMAIN new, new[k].entry.key = key
      PROVE  \E i \in DOMAIN old : old[i] = new[k] /\ old[i] \notin OfKeys(keys)
  BY <1>1 DEF Kept, OfKeys
<1>2. ASSUME NEW k \in DOMAIN new, new[k].node = NewNode[key]
      PROVE  new[k].entry.key = key
  BY <1>2, NewNodes DEF Tree
<1>3. Holds(new, NewNode[key]) => node = NewNode[key]
  BY <1>1, <1>2 DEF Holds, PlaceOf
<1>4. ASSUME NEW k \in DOMAIN new, new[k].node = node
      PROVE  OnTopOf(new, k, key)
  <2>1. PICK i \in DOMAIN old : old[i] = new[k]
    <3>1. CASE new[k] \in OfKeys(keys) /\ new[k].node < 0
      <4>1. node = NewNode[key]
        BY <1>4, <3>1, TreeIs DEF PlaceOf
      <4>2. new[k].entry.key = key
        BY <1>2, <1>4, <4>1
      <4> QED
        BY <3>1, <4>2 DEF OfKeys
    <3> QED
      BY <3>1 DEF Kept
  <2>2. OnTopOf(old, i, key)
    BY <1>4, <2>1 DEF PlaceOf
  <2>3. new[k].entry.key = key /\ old[i] \notin OfKeys(keys)
    BY <2>1, <2>2 DEF OnTopOf, OfKeys
  <2>4. ASSUME NEW l \in DOMAIN new, l > k, Outranks(new[l].entry, key)
        PROVE  FALSE
    <3>1. PICK j \in DOMAIN old : old[j] = new[l] /\ old[j] \notin OfKeys(keys)
      BY <1>1, <2>4 DEF Outranks
    <3>2. i < j
      BY <2>1, <2>3, <2>4, <3>1, KeptOrder, TreeIs
    <3> QED
      BY <2>2, <2>4, <3>1, <3>2 DEF OnTopOf
  <2> QED
    BY <2>3, <2>4 DEF OnTopOf
<1>5. ASSUME key \notin Ranges, node # Null
      PROVE  Holds(new, node)
  <2>1. PICK i \in DOMAIN old : old[i].node = node
    BY <1>5 DEF PlaceOf, Holds
  <2>2. old[i] \notin OfKeys(keys)
    BY <2>1 DEF PlaceOf, OnTopOf, OfKeys
  <2>3. i <= i
    BY TreeIs
  <2> QED
    BY <2>1, <2>2, <2>3 DEF Kept, Holds
<1> QED
  BY <1>3, <1>4, <1>5 DEF PlaceOf

HasChild(doc, child) == \E i \in DOMAIN doc : doc[i] = child

LEMMA ChildKept ==
  ASSUME NEW cut, NEW old, NEW new, Tree(old), Kept(cut, old, new),
         NEW child, HasChild(old, child), child \notin cut
  PROVE  HasChild(new, child)
<1>1. PICK i \in DOMAIN old : old[i] = child
  BY DEF HasChild
<1>2. i <= i
  BY TreeIs
<1> QED
  BY <1>1, <1>2 DEF Kept, HasChild

(* A key's element is taken out.                                           *)
LEMMA DropPlace ==
  ASSUME NEW doc, Tree(doc), NEW key \in Keys, NEW node, PlaceOf(doc, key, node)
  PROVE  /\ Tree(Without(doc, node)) /\ Kept(OfKeys({key}), doc, Without(doc, node))
         /\ PlaceOf(Without(doc, node), key, Null)
         /\ ~Holds(Without(doc, node), NewNode[key])
<1>1. \A i \in DOMAIN doc : doc[i].node = node => doc[i] \in OfKeys({key})
  BY TreeIs DEF PlaceOf, OnTopOf, OfKeys
<1>2. /\ Tree(Without(doc, node)) /\ Kept(OfKeys({key}), doc, Without(doc, node))
      /\ ~Holds(Without(doc, node), node)
      /\ \A n : Holds(Without(doc, node), n) => Holds(doc, n)
  BY <1>1, WithoutKeeps
<1>3. ~Holds(Without(doc, node), NewNode[key])
  BY <1>2 DEF PlaceOf
<1>4. \A i \in DOMAIN Without(doc, node) : Without(doc, node)[i].node # Null
  BY <1>2, TreeIs
<1> QED
  BY <1>2, <1>3, <1>4 DEF PlaceOf, Null

(* A key is given a new element, in the place of the old one if it has     *)
(* one.                                                                    *)
LEMMA PutPlace ==
  ASSUME NEW doc, Tree(doc), NEW key \in Keys, NEW node, PlaceOf(doc, key, node),
         NEW new \in NewChild(key)
  PROVE  /\ Tree(Put(doc, node, new)) /\ Kept(OfKeys({key}), doc, Put(doc, node, new))
         /\ PlaceOf(Put(doc, node, new), key, NewNode[key])
         /\ node = Null \/ Holds(doc, node) => HasChild(Put(doc, node, new), new)
<1> DEFINE put == Put(doc, node, new)
<1>1. /\ Holds(doc, NewNode[key]) => node = NewNode[key]
      /\ \A i \in DOMAIN doc : doc[i].node = node => OnTopOf(doc, i, key)
      /\ \A i \in DOMAIN doc : doc[i].node = node => doc[i].entry.key = key
  BY DEF PlaceOf, OnTopOf
<1>2. /\ Tree(put) /\ Kept(OfKeys({key}), doc, put)
      /\ node = Null => /\ Len(doc) + 1 \in DOMAIN put /\ put[Len(doc) + 1] = new
                        /\ DOMAIN put = 1..(Len(doc) + 1)
      /\ node # Null => /\ DOMAIN put = DOMAIN doc
                        /\ \A i \in DOMAIN doc :
                             put[i] = IF doc[i].node = node THEN new ELSE doc[i]
  BY <1>1, PutKeeps
<1> HIDE DEF put
<1>3. /\ Len(doc) \in Nat /\ DOMAIN doc = 1..Len(doc)
      /\ \A i, j \in DOMAIN doc : doc[i].node = doc[j].node => i = j
      /\ \A i, j \in DOMAIN put : put[i].node = put[j].node => i = j
      /\ DOMAIN put \subseteq Int
  BY <1>2, TreeIs
<1>4. new.node = NewNode[key] /\ new.entry.key = key
  BY DEF NewChild
<1>5. ASSUME NEW i \in DOMAIN put, put[i].node = NewNode[key]
      PROVE  OnTopOf(put, i, key)
  <2>1. CASE node = Null
    <3>1. i = Len(doc) + 1
      BY <1>2, <1>3, <1>4, <1>5, <2>1
    <3>2. put[i] = new /\ \A j \in DOMAIN put : ~(j > i)
      BY <1>2, <1>3, <2>1, <3>1
    <3> QED
      BY <1>4, <3>2 DEF OnTopOf
  <2>2. CASE node # Null
    <3>1. i \in DOMAIN doc /\ doc[i].node = node
      BY <1>1, <1>2, <1>5, <2>2 DEF Holds
    <3>2. put[i] = new /\ \A j \in DOMAIN put : j # i => j \in DOMAIN doc /\ put[j] = doc[j]
      BY <1>2, <1>3, <2>2, <3>1
    <3>3. \A j \in DOMAIN put : j > i => put[j] = doc[j] /\ ~Outranks(doc[j].entry, key)
      BY <1>1, <1>3, <3>1, <3>2 DEF OnTopOf
    <3> QED
      BY <1>4, <3>2, <3>3 DEF OnTopOf
  <2> QED
    BY <2>1, <2>2
<1>6. node = Null \/ Holds(doc, node) => HasChild(put, new)
  BY <1>2 DEF HasChild, Holds
<1>7. key \notin Ranges => Holds(put, NewNode[key])
  <2>1. key \notin Ranges => node = Null \/ Holds(doc, node)
    BY DEF PlaceOf
  <2> QED
    BY <1>4, <1>6, <2>1 DEF HasChild, Holds
<1> QED
  BY <1>2, <1>5, <1>6, <1>7 DEF PlaceOf, put

(* A range is given its new element after the old one has been taken out:  *)
(* there is nothing left to replace.                                       *)
LEMMA AnewPlace ==
  ASSUME NEW doc, Tree(doc), NEW key \in Ranges, NEW node, PlaceOf(doc, key, node),
         NEW new \in NewChild(key)
  PROVE  /\ Tree(Put(Without(doc, node), node, new))
         /\ Kept(OfKeys({key}), doc, Put(Without(doc, node), node, new))
         /\ PlaceOf(Put(Without(doc, node), node, new), key, NewNode[key])
         /\ node = Null => HasChild(Put(Without(doc, node), node, new), new)
<1> DEFINE without == Without(doc, node)
           put == Put(without, node, new)
<1>1. key \in Keys
  BY DEF Ranges, Keys
<1>2. CASE node = Null
  <2>1. without = doc
    BY <1>2, TreeIs DEF Without
  <2> QED
    BY <1>1, <1>2, <2>1, PutPlace
<1>3. CASE node # Null
  <2>1. /\ Tree(without) /\ Kept(OfKeys({key}), doc, without)
        /\ ~Holds(without, NewNode[key])
    BY <1>1, DropPlace
  <2>2. ~Holds(without, node)
    <3>1. \A i \in DOMAIN doc : doc[i].node = node => doc[i] \in OfKeys({key})
      BY TreeIs DEF PlaceOf, OnTopOf, OfKeys
    <3> QED
      BY <3>1, WithoutKeeps
  <2> HIDE DEF without
  <2>3. /\ Tree(put) /\ Kept(OfKeys({key}), without, put)
        /\ DOMAIN put = DOMAIN without
        /\ \A i \in DOMAIN without :
             put[i] = IF without[i].node = node THEN new ELSE without[i]
    BY <1>1, <1>3, <2>1, <2>2, PutKeeps DEF Holds
  <2>4. Kept(OfKeys({key}), doc, put)
    BY <2>1, <2>3, KeptTwice
  <2>5. ~Holds(put, NewNode[key])
    BY <2>1, <2>2, <2>3 DEF Holds
  <2> QED
    BY <1>3, <2>3, <2>4, <2>5 DEF PlaceOf, Holds, without
<1> QED
  BY <1>2, <1>3

-----------------------------------------------------------------------------
(* Items.                                                                  *)
LEMMA ItemsAre ==
  ASSUME NEW items \in Items
  PROVE  /\ DOMAIN items = Keys
         /\ \A key \in Keys : items[key].node \in Int
         /\ \A key \in DOMAIN Settings :
              /\ items[key].value \in Settings[key] \union {NotSet}
              /\ DOMAIN items[key] = {"node", "value"}
         /\ items.hinting.value \in Settings.hinting
         /\ \A key \in Ranges : /\ items[key].from \in Nat /\ items[key].to \in Nat
                                /\ DOMAIN items[key] = {"node", "from", "to"}
<1>1. DOMAIN Settings = {"rgba", "hintstyle", "hinting", "antialias"}
  BY DEF Settings
<1> QED
  BY <1>1 DEF Items, Item, RangeItem, Keys, Ranges

Move(items, key, node) == [items EXCEPT ![key].node = node]

(* An item gets another node and keeps its value.                          *)
LEMMA MoveIs ==
  ASSUME NEW items \in Items, NEW key \in Keys, NEW node \in Int
  PROVE  /\ Move(items, key, node) \in Items
         /\ Move(items, key, node)[key].node = node
         /\ \A other \in Keys \ {key} : Move(items, key, node)[other] = items[other]
         /\ \A other \in DOMAIN Settings : Move(items, key, node)[other].value = items[other].value
         /\ \A other \in Ranges : SameBounds(Move(items, key, node)[other], items[other])
<1>1. DOMAIN Settings = {"rgba", "hintstyle", "hinting", "antialias"}
  BY DEF Settings
<1> QED
  BY <1>1 DEF Move, Items, Item, RangeItem, Keys, Ranges, SameBounds

(* One step of apply(): the element of a key changes, and its node.        *)
Step(key, s, t) ==
  /\ Sane(t.items, t.doc)
  /\ Kept(OfKeys({key}), s.doc, t.doc)
  /\ \E node \in {Null, NewNode[key]} : t.items = Move(s.items, key, node)

(* A new document in which the item of the key has a place is a step.      *)
LEMMA StepSane ==
  ASSUME NEW s, Sane(s.items, s.doc), NEW key \in Keys,
         NEW node \in {Null, NewNode[key]}, NEW new,
         Tree(new), Kept(OfKeys({key}), s.doc, new), PlaceOf(new, key, node)
  PROVE  Step(key, s, State(Move(s.items, key, node), new))
<1> DEFINE items == s.items
           doc == s.doc
           moved == Move(items, key, node)
<1>1. node \in Int
  BY NewNodes DEF Null
<1>2. /\ moved \in Items /\ moved[key].node = node
      /\ \A other \in Keys \ {key} : moved[other] = items[other]
      /\ \A other \in Ranges : SameBounds(moved[other], items[other])
  BY <1>1, MoveIs DEF Sane
<1> HIDE DEF moved
<1>3. \A range \in Ranges : moved[range].from <= moved[range].to
  BY <1>2 DEF Sane, SameBounds
<1>4. ASSUME NEW other \in Keys
      PROVE  PlaceOf(new, other, moved[other].node)
  <2>1. CASE other = key
    BY <1>2, <2>1
  <2>2. CASE other # key
    <3>1. PlaceOf(doc, other, items[other].node) /\ Tree(doc)
      BY DEF Sane
    <3>2. PlaceOf(new, other, items[other].node)
      BY <2>2, <3>1, PlaceKept
    <3> QED
      BY <1>2, <2>2, <3>2
  <2> QED
    BY <2>1, <2>2
<1>5. Sane(moved, new)
  BY <1>2, <1>3, <1>4 DEF Sane
<1> QED
  BY <1>5 DEF Step, State, moved

(* An element that is made of an item is one of a fonts.conf.              *)
LEMMA Elements ==
  ASSUME NEW s, s.items \in Items
  PROVE  /\ \A key \in DOMAIN Settings :
              s.items[key].value # NotSet => Element(s, key) \in NewChild(key)
         /\ \A key \in Ranges :
              [node |-> NewNode[key],
               entry |-> SizeRange(key, s.items[key].from, s.items[key].to)] \in NewChild(key)
<1>1. DOMAIN Settings \subseteq Keys /\ Ranges \subseteq Keys
  BY DEF Settings, Ranges, Keys
<1>2. ASSUME NEW key \in DOMAIN Settings, s.items[key].value # NotSet
      PROVE  Element(s, key) \in NewChild(key)
  <2>1. s.items[key].value \in Settings[key]
    BY <1>2, ItemsAre
  <2>2. Setting(key, "assign", s.items[key].value) \in SettingEntry(key)
    BY <2>1 DEF Setting, SettingEntry
  <2>3. Setting(key, "assign", s.items[key].value) \in Entry
    BY <2>2 DEF Entry, OwnEntry
  <2> QED
    BY <1>1, <2>3, NewNodes DEF Element, NewChild, Child, Setting
<1>3. ASSUME NEW key \in Ranges
      PROVE  [node |-> NewNode[key],
              entry |-> SizeRange(key, s.items[key].from, s.items[key].to)] \in NewChild(key)
  <2>1. SizeRange(key, s.items[key].from, s.items[key].to) \in RangeEntry
    BY ItemsAre DEF SizeRange, RangeEntry
  <2>2. SizeRange(key, s.items[key].from, s.items[key].to) \in Entry
    BY <2>1 DEF Entry, OwnEntry
  <2> QED
    BY <1>1, <2>2, NewNodes DEF NewChild, Child, SizeRange
<1> QED
  BY <1>2, <1>3

(* Taking the element of a key out.                                        *)
LEMMA DropStep ==
  ASSUME NEW s, Sane(s.items, s.doc), NEW key \in Keys
  PROVE  /\ Step(key, s, Drop(s, key))
         /\ Drop(s, key) = State(Move(s.items, key, Null), Without(s.doc, s.items[key].node))
<1>1. Drop(s, key) = State(Move(s.items, key, Null), Without(s.doc, s.items[key].node))
  BY DEF Drop, Move
<1>2. Tree(s.doc) /\ PlaceOf(s.doc, key, s.items[key].node)
  BY DEF Sane
<1> QED
  BY <1>1, <1>2, DropPlace, StepSane

(* Giving a key its element.                                               *)
LEMMA SettingStep ==
  ASSUME NEW s, Sane(s.items, s.doc), NEW key \in DOMAIN Settings,
         s.items[key].value # NotSet
  PROVE  /\ Step(key, s, ApplySetting(s, key))
         /\ HasChild(ApplySetting(s, key).doc, Element(s, key))
<1>1. ApplySetting(s, key) =
        State(Move(s.items, key, NewNode[key]), Put(s.doc, s.items[key].node, Element(s, key)))
  BY DEF ApplySetting, Move
<1>2. /\ Tree(s.doc) /\ PlaceOf(s.doc, key, s.items[key].node) /\ key \in Keys
      /\ Element(s, key) \in NewChild(key)
  BY Elements DEF Sane, Keys, Settings
<1>3. s.items[key].node = Null \/ Holds(s.doc, s.items[key].node)
  BY <1>2 DEF PlaceOf, Settings, Ranges
<1>4. HasChild(Put(s.doc, s.items[key].node, Element(s, key)), Element(s, key))
  BY <1>2, <1>3, PutPlace
<1>5. Step(key, s, ApplySetting(s, key))
  BY <1>1, <1>2, PutPlace, StepSane
<1> QED
  BY <1>1, <1>4, <1>5 DEF State

RangeChild(key, range) ==
  [node |-> NewNode[key], entry |-> SizeRange(key, range.from, range.to)]

(* Giving a range its element, or taking it out.                           *)
LEMMA RangeStep ==
  ASSUME NEW s, Sane(s.items, s.doc), NEW key \in Ranges
  PROVE  /\ Step(key, s, ApplyExcludeRange(s, key))
         /\ Empty(s.items[key]) => ApplyExcludeRange(s, key) = Drop(s, key)
         /\ /\ ~Empty(s.items[key])
            /\ \/ s.items[key].node = Null
               \/ s.items.antialias.node = Null /\ Holds(s.doc, s.items[key].node)
            => HasChild(ApplyExcludeRange(s, key).doc, RangeChild(key, s.items[key]))
<1> DEFINE range == s.items[key]
           new == RangeChild(key, range)
           doc == IF s.items.antialias.node # Null THEN Without(s.doc, range.node) ELSE s.doc
           put == Put(doc, range.node, new)
<1>1. key \in Keys /\ Tree(s.doc) /\ PlaceOf(s.doc, key, range.node) /\ new \in NewChild(key)
  BY Elements DEF Sane, Keys, Ranges, RangeChild
<1>2. CASE Empty(range)
  BY <1>1, <1>2, DropStep DEF ApplyExcludeRange
<1>3. CASE ~Empty(range)
  <2>1. ApplyExcludeRange(s, key) = State(Move(s.items, key, NewNode[key]), put)
    BY <1>3 DEF ApplyExcludeRange, RangeChild, Move
  <2>2. /\ Tree(put) /\ Kept(OfKeys({key}), s.doc, put) /\ PlaceOf(put, key, NewNode[key])
        /\ \/ range.node = Null
           \/ s.items.antialias.node = Null /\ Holds(s.doc, range.node)
           => HasChild(put, new)
    <3>1. CASE s.items.antialias.node # Null
      BY <1>1, <3>1, AnewPlace
    <3>2. CASE s.items.antialias.node = Null
      BY <1>1, <3>2, PutPlace
    <3> QED
      BY <3>1, <3>2
  <2> HIDE DEF new, put
  <2>3. Step(key, s, State(Move(s.items, key, NewNode[key]), put))
    BY <1>1, <2>2, StepSane
  <2> QED
    BY <1>3, <2>1, <2>2, <2>3 DEF State, new
<1> QED
  BY <1>2, <1>3

(* Points to pixels and back.                                              *)
LEMMA PixelsOrder ==
  ASSUME NEW m \in Nat, NEW n \in Nat, m <= n
  PROVE  /\ Pixels(m) \in Nat /\ Pixels(m) <= Pixels(n)
         /\ Points(m) \in Nat /\ Points(m) <= Points(n)
         /\ m <= Pixels(m) /\ Points(m) <= m
         /\ m = 0 => Pixels(m) = 0 /\ Points(m) = 0
  BY DEF Pixels, Points

(* Setting other values or bounds leaves the places of the items alone.    *)
LEMMA SaneContent ==
  ASSUME NEW items, NEW doc, Sane(items, doc), NEW other \in Items,
         \A key \in Keys : other[key].node = items[key].node,
         \A key \in Ranges : other[key].from <= other[key].to
  PROVE  Sane(other, doc)
  BY DEF Sane

(* The range in pixels follows; nothing else changes.                      *)
LEMMA PixelsFollowSane ==
  ASSUME NEW items, NEW doc, Sane(items, doc)
  PROVE  /\ Sane(PixelsFollow(items), doc)
         /\ \A key \in Keys : PixelsFollow(items)[key].node = items[key].node
         /\ \A key \in DOMAIN Settings : PixelsFollow(items)[key] = items[key]
         /\ PixelsFollow(items).size = items.size
         /\ PixelsFollow(items).pixelsize.from = Pixels(items.size.from)
         /\ PixelsFollow(items).pixelsize.to = Pixels(items.size.to)
<1> DEFINE follow == PixelsFollow(items)
           bounds == InPixels(items.size)
<1>1. /\ items \in Items /\ items.size.from \in Nat /\ items.size.to \in Nat
      /\ items.size.from <= items.size.to
  BY ItemsAre DEF Sane, Ranges
<1>2. /\ bounds.from = Pixels(items.size.from) /\ bounds.to = Pixels(items.size.to)
      /\ bounds.from \in Nat /\ bounds.to \in Nat /\ bounds.from <= bounds.to
  <2>1. /\ Pixels(items.size.from) \in Nat /\ Pixels(items.size.to) \in Nat
        /\ Pixels(items.size.from) <= Pixels(items.size.to)
    BY <1>1, PixelsOrder
  <2> QED
    BY <2>1 DEF InPixels
<1> HIDE DEF bounds
<1>3. follow = [items EXCEPT !.pixelsize = SetBounds(items.pixelsize, bounds)]
  BY DEF PixelsFollow, bounds
<1>4. /\ SetBounds(items.pixelsize, bounds) \in RangeItem
      /\ SetBounds(items.pixelsize, bounds).node = items.pixelsize.node
      /\ SetBounds(items.pixelsize, bounds).from = bounds.from
      /\ SetBounds(items.pixelsize, bounds).to = bounds.to
  BY <1>1, <1>2 DEF SetBounds, Items, RangeItem
<1>5. DOMAIN items = Keys /\ "pixelsize" \in Keys /\ \A key \in DOMAIN Settings : key \in Keys
  BY <1>1, ItemsAre DEF Keys, Settings
<1>6. /\ follow.pixelsize = SetBounds(items.pixelsize, bounds)
      /\ \A key \in Keys \ {"pixelsize"} : follow[key] = items[key]
  BY <1>3, <1>5
<1>7. follow \in Items
  BY <1>1, <1>3, <1>4 DEF Items
<1> HIDE DEF follow
<1>8. \A key \in Keys : follow[key].node = items[key].node
  BY <1>4, <1>6
<1>9. \A key \in DOMAIN Settings : follow[key] = items[key]
  BY <1>5, <1>6 DEF Settings
<1>10. follow.size = items.size
  BY <1>6 DEF Keys
<1>11. \A key \in Ranges : follow[key].from <= follow[key].to
  BY <1>1, <1>2, <1>4, <1>6, <1>10 DEF Ranges
<1>12. Sane(follow, doc)
  BY <1>7, <1>8, <1>11, SaneContent
<1> QED
  BY <1>2, <1>4, <1>6, <1>8, <1>9, <1>10, <1>12 DEF follow

(* Several steps.                                                          *)
Steps(keys, s, t) ==
  /\ Sane(t.items, t.doc)
  /\ Kept(OfKeys(keys), s.doc, t.doc)
  /\ \A key \in Keys \ keys : t.items[key] = s.items[key]
  /\ \A key \in DOMAIN Settings : t.items[key].value = s.items[key].value
  /\ \A key \in Ranges : SameBounds(t.items[key], s.items[key])

(* Steps one after the other are steps for the keys of both.               *)
LEMMA OneStep ==
  ASSUME NEW s, Sane(s.items, s.doc), NEW key \in Keys, NEW t, Step(key, s, t)
  PROVE  Steps({key}, s, t)
<1>1. PICK node \in {Null, NewNode[key]} : t.items = Move(s.items, key, node)
  BY DEF Step
<1>2. node \in Int /\ s.items \in Items
  BY NewNodes DEF Null, Sane
<1> QED
  BY <1>1, <1>2, MoveIs DEF Step, Steps

LEMMA MoreSteps ==
  ASSUME NEW K, NEW L, NEW s, NEW t, NEW u, Steps(K, s, t), Steps(L, t, u)
  PROVE  Steps(K \union L, s, u)
<1>1. Kept(OfKeys(K \union L), s.doc, u.doc)
  <2>1. OfKeys(K) \subseteq OfKeys(K \union L) /\ OfKeys(L) \subseteq OfKeys(K \union L)
    BY DEF OfKeys
  <2>2. Kept(OfKeys(K \union L), s.doc, t.doc) /\ Kept(OfKeys(K \union L), t.doc, u.doc)
    BY <2>1, KeptMore DEF Steps
  <2> QED
    BY <2>2, KeptTwice
<1> QED
  BY <1>1 DEF Steps, SameBounds

(* The settings, one after the other; what is set is in the document.      *)
LEMMA SubPixelTypeSteps ==
  ASSUME NEW s, Sane(s.items, s.doc)
  PROVE  /\ Steps({"rgba"}, s, ApplySubPixelType(s))
         /\ s.items.rgba.value # NotSet =>
              HasChild(ApplySubPixelType(s).doc, Element(s, "rgba"))
<1>1. "rgba" \in Keys /\ "rgba" \in DOMAIN Settings
  BY DEF Keys, Settings
<1> QED
  BY <1>1, DropStep, SettingStep, OneStep DEF ApplySubPixelType

LEMMA HintStyleSteps ==
  ASSUME NEW s, Sane(s.items, s.doc)
  PROVE  /\ Steps({"hinting", "hintstyle"}, s, ApplyHintStyle(s))
         /\ s.items.hintstyle.value # NotSet =>
              HasChild(ApplyHintStyle(s).doc, Element(s, "hintstyle"))
<1> DEFINE hinted == ApplySetting(s, "hinting")
<1>1. /\ "hinting" \in Keys /\ "hinting" \in DOMAIN Settings
      /\ "hintstyle" \in Keys /\ "hintstyle" \in DOMAIN Settings
      /\ {"hinting"} \union {"hintstyle"} = {"hinting", "hintstyle"}
      /\ {"hinting"} \union ({"hintstyle"} \union {"hinting"}) = {"hinting", "hintstyle"}
  BY DEF Keys, Settings
<1>2. s.items.hinting.value # NotSet
  BY ItemsAre DEF Sane, Settings, NotSet
<1>3. Steps({"hinting"}, s, hinted)
  BY <1>1, <1>2, SettingStep, OneStep
<1> HIDE DEF hinted
<1>4. /\ Sane(hinted.items, hinted.doc)
      /\ hinted.items.hintstyle.value = s.items.hintstyle.value
  BY <1>1, <1>3 DEF Steps
<1>5. CASE s.items.hintstyle.value = NotSet
  <2> DEFINE dropped == Drop(hinted, "hintstyle")
  <2>1. Steps({"hintstyle"}, hinted, dropped)
    BY <1>1, <1>4, DropStep, OneStep
  <2> HIDE DEF dropped
  <2>2. Steps({"hinting"}, dropped, Drop(dropped, "hinting"))
    BY <1>1, <2>1, DropStep, OneStep DEF Steps
  <2>3. Steps({"hinting"} \union ({"hintstyle"} \union {"hinting"}), s, Drop(dropped, "hinting"))
    BY <1>3, <2>1, <2>2, MoreSteps
  <2>4. ApplyHintStyle(s) = Drop(dropped, "hinting")
    BY <1>5 DEF ApplyHintStyle, dropped, hinted
  <2> QED
    BY <1>1, <1>5, <2>3, <2>4
<1>6. CASE s.items.hintstyle.value # NotSet
  <2>1. /\ Steps({"hintstyle"}, hinted, ApplySetting(hinted, "hintstyle"))
        /\ HasChild(ApplySetting(hinted, "hintstyle").doc, Element(hinted, "hintstyle"))
    BY <1>1, <1>4, <1>6, SettingStep, OneStep
  <2>2. Element(hinted, "hintstyle") = Element(s, "hintstyle")
    BY <1>4 DEF Element
  <2>3. Steps({"hinting"} \union {"hintstyle"}, s, ApplySetting(hinted, "hintstyle"))
    BY <1>3, <2>1, MoreSteps
  <2>4. ApplyHintStyle(s) = ApplySetting(hinted, "hintstyle")
    BY <1>6 DEF ApplyHintStyle, hinted
  <2> QED
    BY <1>1, <2>1, <2>2, <2>3, <2>4
<1> QED
  BY <1>5, <1>6

LEMMA AntiAliasingSteps ==
  ASSUME NEW s, Sane(s.items, s.doc)
  PROVE  /\ Steps({"antialias"}, s, ApplyAntiAliasing(s))
         /\ s.items.antialias.value # NotSet =>
              HasChild(ApplyAntiAliasing(s).doc, Element(s, "antialias"))
         /\ s.items.antialias.value = NotSet =>
              ApplyAntiAliasing(s).items.antialias.node = Null
<1> DEFINE dropped == Drop(s, "antialias")
<1>1. /\ "antialias" \in Keys /\ "antialias" \in DOMAIN Settings
      /\ {"antialias"} \union {"antialias"} = {"antialias"}
  BY DEF Keys, Settings
<1>2. /\ Steps({"antialias"}, s, dropped)
      /\ dropped = State(Move(s.items, "antialias", Null),
                         Without(s.doc, s.items.antialias.node))
  BY <1>1, DropStep, OneStep
<1>3. dropped.items.antialias.node = Null
  BY <1>1, <1>2, MoveIs DEF Sane, State, Null
<1> HIDE DEF dropped
<1>4. CASE s.items.antialias.value = NotSet
  BY <1>2, <1>3, <1>4 DEF ApplyAntiAliasing, dropped
<1>5. CASE s.items.antialias.value # NotSet
  <2>1. /\ Sane(dropped.items, dropped.doc)
        /\ dropped.items.antialias.value = s.items.antialias.value
    BY <1>1, <1>2 DEF Steps
  <2>2. /\ Steps({"antialias"}, dropped, ApplySetting(dropped, "antialias"))
        /\ HasChild(ApplySetting(dropped, "antialias").doc, Element(dropped, "antialias"))
    BY <1>1, <1>5, <2>1, SettingStep, OneStep
  <2>3. Element(dropped, "antialias") = Element(s, "antialias")
    BY <2>1 DEF Element
  <2>4. Steps({"antialias"} \union {"antialias"}, s, ApplySetting(dropped, "antialias"))
    BY <1>2, <2>2, MoreSteps
  <2>5. ApplyAntiAliasing(s) = ApplySetting(dropped, "antialias")
    BY <1>5 DEF ApplyAntiAliasing, dropped
  <2> QED
    BY <1>1, <1>5, <2>2, <2>3, <2>4, <2>5
<1> QED
  BY <1>4, <1>5

(* The settings are applied first: each that is set gets into the document *)
(* and stays there.                                                        *)
SettingsApplied(s) == ApplyAntiAliasing(ApplyHintStyle(ApplySubPixelType(s)))

LEMMA SettingsSteps ==
  ASSUME NEW s, Sane(s.items, s.doc)
  PROVE  /\ Steps(DOMAIN Settings, s, SettingsApplied(s))
         /\ \A key \in {"rgba", "hintstyle", "antialias"} :
              s.items[key].value # NotSet => HasChild(SettingsApplied(s).doc, Element(s, key))
         /\ s.items.antialias.value = NotSet =>
              SettingsApplied(s).items.antialias.node = Null
<1> DEFINE s1 == ApplySubPixelType(s)
           s2 == ApplyHintStyle(s1)
           s3 == ApplyAntiAliasing(s2)
<1>1. /\ Steps({"rgba"}, s, s1)
      /\ s.items.rgba.value # NotSet => HasChild(s1.doc, Element(s, "rgba"))
  BY SubPixelTypeSteps
<1>2. Sane(s1.items, s1.doc)
  BY <1>1 DEF Steps
<1> HIDE DEF s1
<1>3. /\ Steps({"hinting", "hintstyle"}, s1, s2)
      /\ s1.items.hintstyle.value # NotSet => HasChild(s2.doc, Element(s1, "hintstyle"))
  BY <1>2, HintStyleSteps
<1>4. Sane(s2.items, s2.doc)
  BY <1>3 DEF Steps
<1> HIDE DEF s2
<1>5. /\ Steps({"antialias"}, s2, s3)
      /\ s2.items.antialias.value # NotSet => HasChild(s3.doc, Element(s2, "antialias"))
      /\ s2.items.antialias.value = NotSet => s3.items.antialias.node = Null
  BY <1>4, AntiAliasingSteps
<1> HIDE DEF s3
<1>6. SettingsApplied(s) = s3
  BY DEF SettingsApplied, s1, s2, s3
<1>7. DOMAIN Settings = {"rgba"} \union ({"hinting", "hintstyle"} \union {"antialias"})
  BY DEF Settings
<1>8. Steps(DOMAIN Settings, s, s3)
  <2>1. Steps({"hinting", "hintstyle"} \union {"antialias"}, s1, s3)
    BY <1>3, <1>5, MoreSteps
  <2>2. Steps({"rgba"} \union ({"hinting", "hintstyle"} \union {"antialias"}), s, s3)
    BY <1>1, <2>1, MoreSteps
  <2> QED
    BY <1>7, <2>2
<1>9. /\ \A key \in DOMAIN Settings : s1.items[key].value = s.items[key].value
      /\ \A key \in DOMAIN Settings : s2.items[key].value = s.items[key].value
  BY <1>1, <1>3 DEF Steps
<1>10. \A key \in DOMAIN Settings : /\ Element(s1, key) = Element(s, key)
                                    /\ Element(s2, key) = Element(s, key)
  BY <1>9 DEF Element
<1>11. /\ Tree(s1.doc) /\ Tree(s2.doc)
       /\ Kept(OfKeys({"hinting", "hintstyle"}), s1.doc, s2.doc)
       /\ Kept(OfKeys({"antialias"}), s2.doc, s3.doc)
  BY <1>2, <1>3, <1>4, <1>5 DEF Steps, Sane
<1>12. s.items.rgba.value # NotSet => HasChild(s3.doc, Element(s, "rgba"))
  <2>1. /\ Element(s, "rgba") \notin OfKeys({"hinting", "hintstyle"})
        /\ Element(s, "rgba") \notin OfKeys({"antialias"})
    BY DEF Element, Setting, OfKeys
  <2> QED
    BY <1>1, <1>11, <2>1, ChildKept
<1>13. s.items.hintstyle.value # NotSet => HasChild(s3.doc, Element(s, "hintstyle"))
  <2>1. Element(s, "hintstyle") \notin OfKeys({"antialias"})
    BY DEF Element, Setting, OfKeys
  <2> QED
    BY <1>3, <1>7, <1>9, <1>10, <1>11, <2>1, ChildKept
<1> QED
  BY <1>5, <1>6, <1>7, <1>8, <1>9, <1>10, <1>12, <1>13

(* Then the two ranges.                                                    *)
LEMMA AppliedIs ==
  ASSUME NEW items, NEW doc, Sane(items, doc)
  PROVE  \E s3, s4 :
           /\ s3 = SettingsApplied(State(PixelsFollow(items), doc))
           /\ s4 = ApplyExcludeRange(s3, "size")
           /\ Applied(items, doc) = ApplyExcludeRange(s4, "pixelsize")
           /\ Steps(DOMAIN Settings, State(PixelsFollow(items), doc), s3)
           /\ Step("size", s3, s4)
           /\ Step("pixelsize", s4, Applied(items, doc))
           /\ Steps(Keys, State(PixelsFollow(items), doc), Applied(items, doc))
<1> DEFINE s0 == State(PixelsFollow(items), doc)
           s3 == SettingsApplied(s0)
           s4 == ApplyExcludeRange(s3, "size")
           t == ApplyExcludeRange(s4, "pixelsize")
<1>1. Sane(s0.items, s0.doc)
  BY PixelsFollowSane DEF State
<1>2. Applied(items, doc) = t
  BY DEF Applied, SettingsApplied
<1> HIDE DEF s0
<1>3. Steps(DOMAIN Settings, s0, s3)
  BY <1>1, SettingsSteps
<1>4. "size" \in Ranges /\ "pixelsize" \in Ranges /\ "size" \in Keys /\ "pixelsize" \in Keys
  BY DEF Ranges, Keys
<1> HIDE DEF s3
<1>5. Sane(s3.items, s3.doc) /\ Step("size", s3, s4) /\ Steps({"size"}, s3, s4)
  <2>1. Sane(s3.items, s3.doc)
    BY <1>3 DEF Steps
  <2>2. Step("size", s3, s4)
    BY <1>4, <2>1, RangeStep
  <2> QED
    BY <1>4, <2>1, <2>2, OneStep
<1> HIDE DEF s4
<1>6. Step("pixelsize", s4, t) /\ Steps({"pixelsize"}, s4, t)
  <2>1. Sane(s4.items, s4.doc)
    BY <1>5 DEF Step
  <2>2. Step("pixelsize", s4, t)
    BY <1>4, <2>1, RangeStep
  <2> QED
    BY <1>4, <2>1, <2>2, OneStep
<1> HIDE DEF t
<1>7. Steps({"size"} \union {"pixelsize"}, s3, t)
  BY <1>5, <1>6, MoreSteps
<1>8. Steps(DOMAIN Settings \union ({"size"} \union {"pixelsize"}), s0, t)
  BY <1>3, <1>7, MoreSteps
<1>9. DOMAIN Settings \union ({"size"} \union {"pixelsize"}) = Keys
  BY DEF Settings, Keys
<1>10. Steps(Keys, s0, t)
  BY <1>8, <1>9
<1> QED
  BY <1>2, <1>3, <1>5, <1>6, <1>10 DEF s0, s3, s4, t

(* What is set gets into the document that is written.                     *)
LEMMA AppliedSettings ==
  ASSUME NEW items, NEW doc, Sane(items, doc),
         NEW key \in {"rgba", "hintstyle", "antialias"}, items[key].value # NotSet
  PROVE  HasChild(Applied(items, doc).doc,
                  [node |-> NewNode[key], entry |-> Setting(key, "assign", items[key].value)])
<1> DEFINE s0 == State(PixelsFollow(items), doc)
           t == Applied(items, doc)
           child == [node |-> NewNode[key], entry |-> Setting(key, "assign", items[key].value)]
<1>1. PICK s3, s4 : /\ s3 = SettingsApplied(s0)
                    /\ Steps(DOMAIN Settings, s0, s3)
                    /\ Step("size", s3, s4)
                    /\ Step("pixelsize", s4, t)
  BY AppliedIs
<1>2. Sane(s0.items, s0.doc) /\ s0.items[key].value = items[key].value
  BY PixelsFollowSane DEF State, Settings
<1>3. Element(s0, key) = child
  BY <1>2 DEF Element
<1> HIDE DEF s0, t
<1>4. HasChild(s3.doc, Element(s0, key))
  BY <1>1, <1>2, SettingsSteps
<1>5. /\ Tree(s3.doc) /\ Tree(s4.doc)
      /\ Kept(OfKeys({"size"}), s3.doc, s4.doc) /\ Kept(OfKeys({"pixelsize"}), s4.doc, t.doc)
  BY <1>1 DEF Steps, Step, Sane
<1>6. child \notin OfKeys({"size"}) /\ child \notin OfKeys({"pixelsize"})
  BY DEF OfKeys, Setting
<1> HIDE DEF child
<1>7. HasChild(s4.doc, child)
  BY <1>3, <1>4, <1>5, <1>6, ChildKept
<1>8. HasChild(t.doc, child)
  BY <1>5, <1>6, <1>7, ChildKept
<1> QED
  BY <1>8 DEF t, child

(* A range that replaces nothing gets into it, too, and the one in pixels  *)
(* with it.                                                                *)
LEMMA AppliedRanges ==
  ASSUME NEW c, Sane(c.items, c.doc), ~Replacing(c), ~Empty(c.items.size)
  PROVE  /\ HasChild(Applied(c.items, c.doc).doc, RangeChild("size", c.items.size))
         /\ HasChild(Applied(c.items, c.doc).doc,
                     RangeChild("pixelsize", InPixels(c.items.size)))
<1> DEFINE s0 == State(PixelsFollow(c.items), c.doc)
           t == Applied(c.items, c.doc)
<1>1. PICK s3, s4 : /\ s3 = SettingsApplied(s0)
                    /\ s4 = ApplyExcludeRange(s3, "size")
                    /\ t = ApplyExcludeRange(s4, "pixelsize")
                    /\ Steps(DOMAIN Settings, s0, s3)
                    /\ Step("size", s3, s4)
                    /\ Step("pixelsize", s4, t)
  BY AppliedIs
<1>2. /\ "size" \in Ranges /\ "pixelsize" \in Ranges /\ "size" \in Keys /\ "pixelsize" \in Keys
      /\ "antialias" \in Keys /\ "antialias" \in DOMAIN Settings
      /\ \A key \in Ranges : key \in Keys \ DOMAIN Settings
      /\ "pixelsize" \in Keys \ {"size"} /\ "antialias" \in Keys \ {"size"}
      /\ \A key \in DOMAIN Settings : key \in Keys
  BY DEF Ranges, Keys, Settings
<1>3. /\ Sane(s0.items, s0.doc) /\ s0.doc = c.doc
      /\ \A key \in Keys : s0.items[key].node = c.items[key].node
      /\ s0.items.antialias = c.items.antialias
      /\ s0.items.size = c.items.size
      /\ s0.items.pixelsize.from = InPixels(c.items.size).from
      /\ s0.items.pixelsize.to = InPixels(c.items.size).to
  BY <1>2, PixelsFollowSane DEF State, InPixels
<1>4. ~Empty(s0.items.pixelsize)
  <2>1. /\ c.items.size.from \in Nat /\ c.items.size.to \in Nat
        /\ c.items.size.from <= c.items.size.to
    BY <1>2, ItemsAre DEF Sane
  <2>2. c.items.size.to <= Pixels(c.items.size.to) /\ Pixels(c.items.size.to) \in Nat
    BY <2>1, PixelsOrder
  <2>3. s0.items.pixelsize.to = Pixels(c.items.size.to)
    BY <1>3 DEF InPixels
  <2> QED
    BY <2>1, <2>2, <2>3 DEF Empty
<1> HIDE DEF s0, t
<1>5. ASSUME NEW key \in Ranges
      PROVE  \/ s0.items[key].node = Null
             \/ s3.items.antialias.node = Null /\ Holds(s3.doc, s0.items[key].node)
  <2>1. CASE s0.items[key].node = Null
    BY <2>1
  <2>2. CASE s0.items[key].node # Null
    <3>1. c.items.antialias.value = NotSet /\ Holds(c.doc, s0.items[key].node)
      BY <1>2, <1>3, <2>2 DEF Replacing, Holds
    <3>2. s3.items.antialias.node = Null
      BY <1>1, <1>3, <3>1, SettingsSteps
    <3>3. PICK i \in DOMAIN s0.doc : s0.doc[i].node = s0.items[key].node
      BY <1>3, <3>1 DEF Holds
    <3>4. s0.doc[i].entry.key = key
      BY <1>2, <1>3, <3>3 DEF Sane, PlaceOf, OnTopOf
    <3>5. s0.doc[i] \notin OfKeys(DOMAIN Settings)
      BY <1>2, <3>4 DEF OfKeys
    <3>6. HasChild(s3.doc, s0.doc[i])
      BY <1>1, <1>3, <3>5, ChildKept DEF HasChild, Steps, Sane
    <3> QED
      BY <3>2, <3>3, <3>6 DEF HasChild, Holds
  <2> QED
    BY <2>1, <2>2
<1>6. \A key \in Ranges : s3.items[key] = s0.items[key]
  BY <1>1, <1>2 DEF Steps
<1>7. Sane(s3.items, s3.doc) /\ Steps({"size"}, s3, s4) /\ Sane(s4.items, s4.doc)
  BY <1>1, <1>2, OneStep DEF Steps, Step
<1>8. HasChild(s4.doc, RangeChild("size", c.items.size))
  BY <1>1, <1>2, <1>3, <1>5, <1>6, <1>7, RangeStep
<1>9. s4.items.pixelsize = s0.items.pixelsize /\ s4.items.antialias = s3.items.antialias
  BY <1>2, <1>6, <1>7 DEF Steps
<1>10. \/ s4.items.pixelsize.node = Null
       \/ s4.items.antialias.node = Null /\ Holds(s4.doc, s4.items.pixelsize.node)
  <2>1. CASE s0.items.pixelsize.node = Null
    BY <1>9, <2>1
  <2>2. CASE s0.items.pixelsize.node # Null
    <3>1. s3.items.antialias.node = Null /\ Holds(s3.doc, s3.items.pixelsize.node)
      BY <1>2, <1>5, <1>6, <2>2
    <3>2. PICK i \in DOMAIN s3.doc : s3.doc[i].node = s3.items.pixelsize.node
      BY <3>1 DEF Holds
    <3>3. s3.doc[i].entry.key = "pixelsize"
      BY <1>2, <1>7, <3>2 DEF Sane, PlaceOf, OnTopOf
    <3>4. s3.doc[i] \notin OfKeys({"size"})
      BY <3>3 DEF OfKeys
    <3>5. HasChild(s4.doc, s3.doc[i])
      BY <1>7, <3>4, ChildKept DEF HasChild, Steps, Sane
    <3> QED
      BY <1>2, <1>6, <1>9, <3>1, <3>2, <3>5 DEF HasChild, Holds
  <2> QED
    BY <2>1, <2>2
<1>11. HasChild(t.doc, RangeChild("pixelsize", s4.items.pixelsize))
  BY <1>1, <1>2, <1>4, <1>7, <1>9, <1>10, RangeStep
<1>12. RangeChild("pixelsize", s4.items.pixelsize)
         = RangeChild("pixelsize", InPixels(c.items.size))
  BY <1>3, <1>9 DEF RangeChild
<1>13. HasChild(t.doc, RangeChild("size", c.items.size))
  <2>1. RangeChild("size", c.items.size) \notin OfKeys({"pixelsize"})
    BY DEF RangeChild, SizeRange, OfKeys
  <2> QED
    BY <1>1, <1>7, <1>8, <2>1, ChildKept DEF Step, Sane
<1> QED
  BY <1>11, <1>12, <1>13 DEF t

-----------------------------------------------------------------------------
(* Reading.                                                                *)
LEMMA MaxIs ==
  ASSUME NEW d \in SUBSET Int, NEW n \in d, \A x \in d : x <= n
  PROVE  Max(d) = n
<1>1. \A x \in d : (\A y \in d : x >= y) => x = n
  OBVIOUS
<1>2. \A y \in d : n >= y
  OBVIOUS
<1> QED
  BY <1>1, <1>2 DEF Max

LEMMA MinIs ==
  ASSUME NEW d \in SUBSET Int, NEW n \in d, \A x \in d : n <= x
  PROVE  Min(d) = n
<1>1. \A x \in d : (\A y \in d : x <= y) => x = n
  OBVIOUS
<1>2. \A y \in d : n <= y
  OBVIOUS
<1> QED
  BY <1>1, <1>2 DEF Min

LEMMA MinMaxPair ==
  ASSUME NEW m \in Nat, NEW n \in Nat
  PROVE  /\ Min({m, n}) \in Nat /\ Max({m, n}) \in Nat /\ Min({m, n}) <= Max({m, n})
         /\ m <= n => Min({m, n}) = m /\ Max({m, n}) = n
<1>1. CASE m <= n
  <2>1. Min({m, n}) = m
    BY <1>1, MinIs
  <2>2. Max({m, n}) = n
    BY <1>1, MaxIs
  <2> QED
    BY <1>1, <2>1, <2>2
<1>2. CASE n < m
  <2>1. Min({m, n}) = n
    BY <1>2, MinIs
  <2>2. Max({m, n}) = m
    BY <1>2, MaxIs
  <2> QED
    BY <1>2, <2>1, <2>2
<1> QED
  BY <1>1, <1>2

(* A document as a file.                                                   *)
LEMMA EntriesAre ==
  ASSUME NEW doc, Tree(doc)
  PROVE  /\ Entries(doc) \in Seq(Entry) /\ DOMAIN Entries(doc) = DOMAIN doc
         /\ \A i \in DOMAIN doc : Entries(doc)[i] = doc[i].entry
         /\ DOMAIN doc \subseteq Nat \ {0}
  BY TreeIs DEF Entries

(* The element that was made of a setting is the one that is read.         *)
LEMMA ReadsSetting ==
  ASSUME NEW doc, Tree(doc), NEW key \in DOMAIN Settings, NEW node, PlaceOf(doc, key, node),
         NEW value, NEW default,
         HasChild(doc, [node |-> NewNode[key], entry |-> Setting(key, "assign", value)])
  PROVE  Read(Entries(doc), key, default).node # Null
         /\ Read(Entries(doc), key, default).value = value
<1> DEFINE entries == Entries(doc)
           assigned == Where(entries, key, "assign")
<1>1. PICK i \in DOMAIN doc : doc[i] = [node |-> NewNode[key],
                                        entry |-> Setting(key, "assign", value)]
  BY DEF HasChild
<1>2. node = NewNode[key]
  BY <1>1 DEF PlaceOf, Holds
<1>3. OnTopOf(doc, i, key)
  BY <1>1, <1>2 DEF PlaceOf
<1>4. assigned = {j \in DOMAIN doc : doc[j].entry.key = key /\ doc[j].entry.mode = "assign"}
  BY EntriesAre DEF Where
<1>5. i \in assigned /\ assigned \subseteq Int
  BY <1>1, <1>4, EntriesAre DEF Setting
<1>6. \A j \in assigned : j <= i
  BY <1>3, <1>4, EntriesAre DEF OnTopOf, Outranks
<1>7. Max(assigned) = i
  BY <1>5, <1>6, MaxIs
<1>8. SettingNode(entries, key) = i
  BY <1>5, <1>7 DEF SettingNode
<1>9. i # Null /\ entries[i].value = value
  BY <1>1, EntriesAre DEF Null, Setting
<1> HIDE DEF entries
<1> QED
  BY <1>8, <1>9 DEF Read, entries

(* So is the one that was made of a range.                                 *)
LEMMA ReadsRange ==
  ASSUME NEW doc, Tree(doc), NEW key \in Ranges, NEW node, PlaceOf(doc, key, node),
         NEW range, range.from \in Nat, range.to \in Nat, range.from <= range.to,
         HasChild(doc, RangeChild(key, range))
  PROVE  /\ SameBounds(ReadRange(Entries(doc), key), range)
         /\ ReadRange(Entries(doc), key).node # Null
<1> DEFINE entries == Entries(doc)
           found == {i \in DOMAIN entries : entries[i].key = key}
<1>1. PICK i \in DOMAIN doc : doc[i] = RangeChild(key, range)
  BY DEF HasChild
<1>2. doc[i].node = NewNode[key] /\ doc[i].entry = SizeRange(key, range.from, range.to)
  BY <1>1 DEF RangeChild
<1>3. OnTopOf(doc, i, key)
  BY <1>2 DEF PlaceOf, Holds
<1>4. found = {j \in DOMAIN doc : doc[j].entry.key = key}
  BY EntriesAre
<1>5. i \in found /\ found \subseteq Int
  BY <1>2, <1>4, EntriesAre DEF SizeRange
<1>6. \A j \in found : j <= i
  BY <1>3, <1>4, EntriesAre DEF OnTopOf, Outranks
<1>7. Max(found) = i
  BY <1>5, <1>6, MaxIs
<1>8. i # Null /\ entries[i].from = range.from /\ entries[i].to = range.to
  BY <1>2, EntriesAre DEF Null, SizeRange
<1>9. ReadRange(entries, key) = LastRange(entries, found)
  BY DEF ReadRange
<1> HIDE DEF entries, found
<1>10. LastRange(entries, found) =
         [node |-> i, from |-> Min({range.from, range.to}), to |-> Max({range.from, range.to})]
  BY <1>5, <1>7, <1>8 DEF LastRange
<1>11. Min({range.from, range.to}) = range.from /\ Max({range.from, range.to}) = range.to
  BY MinMaxPair
<1> QED
  BY <1>8, <1>9, <1>10, <1>11 DEF SameBounds, entries

(* A nonempty set of positions has a first and a last one.                 *)
LEMMA LeastNat ==
  ASSUME NEW T, T \subseteq Nat, T # {}
  PROVE  \E x \in T : \A y \in T : x <= y
<1>1. IsWellFoundedOn(OpToRel(<, Nat), Nat)
  BY NatLessThanWellFounded
<1>2. PICK x \in T : \A y \in T : ~ (<<y, x>> \in OpToRel(<, Nat))
  BY <1>1, WFMin
<1>3. \A y \in T : ~(y < x)
  BY <1>2 DEF OpToRel
<1> QED
  BY <1>3

(* First and last of a nonempty set of places.                             *)
LEMMA FirstAndLast ==
  ASSUME NEW n \in Nat, NEW d \in SUBSET (1..n), d # {}
  PROVE  /\ Min(d) \in d /\ \A x \in d : Min(d) <= x
         /\ Max(d) \in d /\ \A x \in d : x <= Max(d)
<1>1. PICK first \in d : \A x \in d : first <= x
  <2>1. d \subseteq Nat
    OBVIOUS
  <2> QED
    BY <2>1, LeastNat
<1>2. Min(d) = first
  BY <1>1, MinIs
<1> DEFINE mirror == {n - x : x \in d}
<1>3. PICK y \in mirror : \A z \in mirror : y <= z
  <2>1. mirror \subseteq Nat /\ mirror # {}
    OBVIOUS
  <2> HIDE DEF mirror
  <2> QED
    BY <2>1, LeastNat
<1>4. PICK last \in d : y = n - last
  BY <1>3
<1>5. \A x \in d : x <= last
  BY <1>3, <1>4
<1>6. Max(d) = last
  BY <1>5, MaxIs
<1> QED
  BY <1>1, <1>2, <1>5, <1>6

(* What an element of a file says of its key.                              *)
LEMMA EntryIs ==
  ASSUME NEW entry \in Entry
  PROVE  /\ entry.key \in DOMAIN Settings => entry.value \in Settings[entry.key]
         /\ entry.key \in Ranges => entry.from \in Nat /\ entry.to \in Nat
         /\ entry.key \in Keys \/ entry.key = "other"
<1>1. CASE entry \in RangeEntry
  BY <1>1 DEF RangeEntry, Ranges, Settings, Keys
<1>2. CASE \E key \in DOMAIN Settings : entry \in SettingEntry(key)
  <2>1. PICK key \in DOMAIN Settings : entry \in SettingEntry(key)
    BY <1>2
  <2>2. entry.key = key /\ entry.value \in Settings[key]
    BY <2>1 DEF SettingEntry
  <2> QED
    BY <2>1, <2>2 DEF Settings, Ranges, Keys
<1>3. CASE entry \in Foreign
  <2>1. entry.key = "other"
    BY <1>3, FilesAssumption
  <2> QED
    BY <2>1 DEF Settings, Ranges
<1> QED
  BY <1>1, <1>2, <1>3 DEF Entry, OwnEntry

(* A document that has just been read.                                     *)
LEMMA DocumentIs ==
  ASSUME NEW entries \in Seq(Entry)
  PROVE  /\ Tree(Document(entries))
         /\ DOMAIN Document(entries) = 1..Len(entries)
         /\ \A i \in 1..Len(entries) : Document(entries)[i] = [node |-> i, entry |-> entries[i]]
         /\ \A i \in 1..Len(entries) : Document(entries)[i].node = i
         /\ \A i \in 1..Len(entries) : Document(entries)[i].entry = entries[i]
         /\ \A i \in 1..Len(entries) : entries[i] \in Entry
         /\ Len(entries) \in Nat /\ DOMAIN entries = 1..Len(entries)
         /\ \A key \in Keys : ~Holds(Document(entries), NewNode[key])
         /\ ~Holds(Document(entries), Null)
<1>1. /\ Len(entries) \in Nat /\ DOMAIN entries = 1..Len(entries)
      /\ \A i \in 1..Len(entries) : entries[i] \in Entry
  OBVIOUS
<1> DEFINE doc == Document(entries)
<1>2. doc = [i \in 1..Len(entries) |-> [node |-> i, entry |-> entries[i]]]
  BY <1>1 DEF Document
<1> HIDE DEF doc
<1>3. /\ DOMAIN doc = 1..Len(entries)
      /\ \A i \in 1..Len(entries) : doc[i] = [node |-> i, entry |-> entries[i]]
  BY <1>2
<1>4. \A i \in 1..Len(entries) : doc[i] \in Child /\ doc[i].node = i
  BY <1>1, <1>3 DEF Child
<1>5. doc \in Seq(Child)
  BY <1>1, <1>2, <1>4
<1>6. Tree(doc)
  BY <1>3, <1>4, <1>5 DEF Tree
<1>7. /\ \A key \in Keys : ~Holds(doc, NewNode[key])
      /\ ~Holds(doc, Null)
  BY <1>3, <1>4, NewNodes DEF Holds, Null
<1> QED
  <2>1. \A i \in 1..Len(entries) : doc[i].node = i /\ doc[i].entry = entries[i]
    BY <1>3
  <2> QED
    BY <1>1, <1>3, <1>6, <1>7, <2>1 DEF doc

(* An item that was read knows its place.                                  *)
LEMMA ReadIs ==
  ASSUME NEW entries \in Seq(Entry), NEW key \in DOMAIN Settings, NEW default
  PROVE  /\ Read(entries, key, default) \in Item(Settings[key] \union {default})
         /\ PlaceOf(Document(entries), key, Read(entries, key, default).node)
<1> DEFINE item == Read(entries, key, default)
           node == SettingNode(entries, key)
           assigned == Where(entries, key, "assign")
           appended == IF key = "hinting" THEN {} ELSE Where(entries, key, "append")
           doc == Document(entries)
<1>1. /\ Len(entries) \in Nat /\ assigned \in SUBSET (1..Len(entries))
      /\ appended \in SUBSET (1..Len(entries))
      /\ \A i \in assigned : entries[i].key = key /\ entries[i].mode = "assign"
      /\ \A i \in 1..Len(entries) :
           entries[i].key = key /\ entries[i].mode = "assign" => i \in assigned
      /\ \A i \in appended : entries[i].key = key
  BY DocumentIs DEF Where
<1>2. \/ /\ node \in assigned
         /\ \A i \in assigned : i <= node
      \/ node \in appended /\ assigned = {}
      \/ node = Null
  <2>1. node = IF assigned # {} THEN Max(assigned)
               ELSE IF appended # {} THEN Min(appended) ELSE Null
    BY DEF SettingNode
  <2> HIDE DEF assigned, appended, node
  <2> QED
    BY <1>1, <2>1, FirstAndLast
<1> HIDE DEF assigned, appended, node
<1>3. node = Null \/ (node \in 1..Len(entries) /\ entries[node].key = key)
  BY <1>1, <1>2
<1>4. item = [node |-> node, value |-> IF node = Null THEN default ELSE entries[node].value]
  BY DEF Read, node
<1>5. item \in Item(Settings[key] \union {default})
  <2>1. node # Null => entries[node].value \in Settings[key]
    BY <1>3, DocumentIs, EntryIs
  <2>2. node \in Int
    BY <1>1, <1>3 DEF Null
  <2> HIDE DEF item
  <2> QED
    BY <1>4, <2>1, <2>2 DEF Item
<1>6. PlaceOf(doc, key, node)
  <2>1. /\ DOMAIN doc = 1..Len(entries)
        /\ \A i \in 1..Len(entries) : doc[i].node = i /\ doc[i].entry = entries[i]
        /\ ~Holds(doc, NewNode[key])
    <3>1. key \in Keys
      BY DEF Settings, Keys
    <3> QED
      BY <3>1, DocumentIs
  <2> HIDE DEF doc
  <2>2. node >= 0
    BY <1>1, <1>3 DEF Null
  <2>3. ASSUME NEW i \in DOMAIN doc, doc[i].node = node
        PROVE  OnTopOf(doc, i, key)
    <3>1. i = node /\ i \in 1..Len(entries) /\ node # Null
      BY <1>1, <2>1, <2>3 DEF Null
    <3>2. \A j \in DOMAIN doc : j > i => ~(entries[j].key = key /\ entries[j].mode = "assign")
      BY <1>1, <1>2, <2>1, <3>1
    <3>3. key \notin Ranges
      BY DEF Settings, Ranges
    <3> QED
      BY <1>3, <2>1, <3>1, <3>2, <3>3 DEF OnTopOf, Outranks
  <2>4. node # Null => Holds(doc, node)
    BY <1>3, <2>1 DEF Holds
  <2> QED
    BY <2>1, <2>2, <2>3, <2>4 DEF PlaceOf
<1> QED
  BY <1>4, <1>5, <1>6

(* What is read has its place in the document of what was read.            *)
LEMMA LastRangeIs ==
  ASSUME NEW entries \in Seq(Entry), NEW key \in Ranges,
         NEW found \in SUBSET (1..Len(entries)),
         \A i \in found : entries[i].key = key
  PROVE  /\ LastRange(entries, found) \in RangeItem
         /\ LastRange(entries, found).from <= LastRange(entries, found).to
         /\ \/ LastRange(entries, found).node = Null /\ found = {}
            \/ /\ LastRange(entries, found).node \in found
               /\ \A i \in found : i <= LastRange(entries, found).node
<1> DEFINE range == LastRange(entries, found)
           last == Max(found)
<1>1. Len(entries) \in Nat /\ \A i \in 1..Len(entries) : entries[i] \in Entry
  BY DocumentIs
<1>2. CASE found = {}
  <2>1. range = [node |-> Null, from |-> 0, to |-> 0]
    BY <1>2 DEF LastRange
  <2> HIDE DEF range
  <2>2. range \in RangeItem /\ range.from <= range.to /\ range.node = Null
    BY <2>1 DEF RangeItem, Null
  <2> QED
    BY <1>2, <2>2 DEF range
<1>3. CASE found # {}
  <2>1. last \in found /\ \A i \in found : i <= last
    BY <1>1, <1>3, FirstAndLast
  <2> DEFINE e == entries[last]
  <2>2. range = [node |-> last, from |-> Min({e.from, e.to}), to |-> Max({e.from, e.to})]
    BY <1>3 DEF LastRange
  <2>3. e.from \in Nat /\ e.to \in Nat /\ last \in Int
    <3>1. last \in 1..Len(entries) /\ entries[last] \in Entry /\ entries[last].key \in Ranges
      BY <1>1, <2>1
    <3> HIDE DEF last
    <3> QED
      BY <1>1, <3>1, EntryIs
  <2> HIDE DEF e, last, range
  <2>4. /\ Min({e.from, e.to}) \in Nat /\ Max({e.from, e.to}) \in Nat
        /\ Min({e.from, e.to}) <= Max({e.from, e.to})
    BY <2>3, MinMaxPair
  <2>5. range \in RangeItem /\ range.from <= range.to /\ range.node = last
    BY <2>2, <2>3, <2>4 DEF RangeItem
  <2> QED
    BY <2>1, <2>5 DEF range
<1> QED
  BY <1>2, <1>3

LEMMA ReadRangeIs ==
  ASSUME NEW entries \in Seq(Entry), NEW key \in Ranges
  PROVE  /\ ReadRange(entries, key) \in RangeItem
         /\ ReadRange(entries, key).from <= ReadRange(entries, key).to
         /\ PlaceOf(Document(entries), key, ReadRange(entries, key).node)
<1> DEFINE found == {i \in DOMAIN entries : entries[i].key = key}
           range == ReadRange(entries, key)
           doc == Document(entries)
<1>1. /\ found \in SUBSET (1..Len(entries)) /\ \A i \in found : entries[i].key = key
      /\ \A i \in 1..Len(entries) : entries[i].key = key => i \in found
      /\ Len(entries) \in Nat
  BY DocumentIs
<1>2. range = LastRange(entries, found)
  BY DEF ReadRange
<1> HIDE DEF found, range
<1>3. /\ range \in RangeItem /\ range.from <= range.to
      /\ \/ range.node = Null /\ found = {}
         \/ range.node \in found /\ \A i \in found : i <= range.node
  BY <1>1, <1>2, LastRangeIs
<1>4. /\ DOMAIN doc = 1..Len(entries)
      /\ \A i \in 1..Len(entries) : doc[i].node = i /\ doc[i].entry = entries[i]
      /\ ~Holds(doc, NewNode[key])
  <2>1. key \in Keys
    BY DEF Ranges, Keys
  <2> QED
    BY <2>1, DocumentIs
<1> HIDE DEF doc
<1>5. range.node >= 0
  <2>1. range.node \in found => range.node \in 1..Len(entries)
    BY <1>1
  <2> QED
    BY <1>1, <1>3, <2>1 DEF Null
<1>6. ASSUME NEW i \in DOMAIN doc, doc[i].node = range.node
      PROVE  OnTopOf(doc, i, key)
  <2>1. i = range.node /\ range.node \in found
    BY <1>1, <1>3, <1>4, <1>6 DEF Null
  <2>2. \A j \in DOMAIN doc : j > i => entries[j].key # key
    BY <1>1, <1>3, <1>4, <2>1
  <2> QED
    BY <1>1, <1>4, <2>1, <2>2 DEF OnTopOf, Outranks
<1>7. PlaceOf(doc, key, range.node)
  BY <1>4, <1>5, <1>6 DEF PlaceOf
<1> QED
  BY <1>3, <1>7 DEF range, doc

LEMMA ContentsAre ==
  ASSUME NEW entries \in Seq(Entry)
  PROVE  Sane(ReadContents(entries), Document(entries))
<1> DEFINE items == ReadContents(entries)
<1>1. /\ items.rgba = Read(entries, "rgba", NotSet)
      /\ items.hintstyle = Read(entries, "hintstyle", NotSet)
      /\ items.hinting = Read(entries, "hinting", "true")
      /\ items.antialias = Read(entries, "antialias", NotSet)
      /\ items.size = ReadRange(entries, "size")
      /\ items.pixelsize = ReadRange(entries, "pixelsize")
  BY DEF ReadContents
<1>2. /\ \A key \in {"rgba", "hintstyle", "antialias"} :
           /\ Read(entries, key, NotSet) \in Item(Settings[key] \union {NotSet})
           /\ PlaceOf(Document(entries), key, Read(entries, key, NotSet).node)
      /\ Read(entries, "hinting", "true") \in Item(Settings.hinting \union {"true"})
      /\ PlaceOf(Document(entries), "hinting", Read(entries, "hinting", "true").node)
  <2>1. {"rgba", "hintstyle", "hinting", "antialias"} \subseteq DOMAIN Settings
    BY DEF Settings
  <2> QED
    BY <2>1, ReadIs
<1>3. \A key \in Ranges :
        /\ ReadRange(entries, key) \in RangeItem
        /\ ReadRange(entries, key).from <= ReadRange(entries, key).to
        /\ PlaceOf(Document(entries), key, ReadRange(entries, key).node)
  BY ReadRangeIs
<1>4. Settings.hinting \union {"true"} = Settings.hinting
  BY DEF Settings
<1>5. items \in Items
  BY <1>2, <1>3, <1>4 DEF ReadContents, Items, Ranges
<1> HIDE DEF items
<1>6. \A key \in Keys : PlaceOf(Document(entries), key, items[key].node)
  BY <1>1, <1>2, <1>3 DEF Keys, Ranges
<1>7. \A key \in Ranges : items[key].from <= items[key].to
  BY <1>1, <1>3 DEF Ranges
<1> QED
  BY <1>5, <1>6, <1>7, DocumentIs DEF Sane, items

LEMMA PointsFollowSane ==
  ASSUME NEW items, NEW doc, Sane(items, doc),
         NEW other, other = [items EXCEPT !.size = SetBounds(@, InPoints(items.pixelsize))]
  PROVE  /\ Sane(other, doc)
         /\ \A key \in DOMAIN Settings : other[key] = items[key]
         /\ \A key \in Keys : other[key].node = items[key].node
         /\ other.size.from <= other.pixelsize.to
<1> DEFINE bounds == InPoints(items.pixelsize)
<1>1. /\ items \in Items
      /\ items.pixelsize.from \in Nat /\ items.pixelsize.to \in Nat
      /\ items.pixelsize.from <= items.pixelsize.to
  BY ItemsAre DEF Sane, Ranges
<1>2. /\ bounds.from \in Nat /\ bounds.to \in Nat /\ bounds.from <= bounds.to
      /\ bounds.from <= items.pixelsize.from
  <2>1. /\ Points(items.pixelsize.from) \in Nat /\ Points(items.pixelsize.to) \in Nat
        /\ Points(items.pixelsize.from) <= Points(items.pixelsize.to)
        /\ Points(items.pixelsize.from) <= items.pixelsize.from
    BY <1>1, PixelsOrder
  <2> QED
    BY <2>1 DEF InPoints
<1> HIDE DEF bounds
<1>3. other = [items EXCEPT !.size = SetBounds(items.size, bounds)]
  BY DEF bounds
<1>4. /\ SetBounds(items.size, bounds) \in RangeItem
      /\ SetBounds(items.size, bounds).node = items.size.node
      /\ SetBounds(items.size, bounds).from = bounds.from
      /\ SetBounds(items.size, bounds).to = bounds.to
  BY <1>1, <1>2 DEF SetBounds, Items, RangeItem
<1>5. DOMAIN items = Keys /\ "size" \in Keys /\ \A key \in DOMAIN Settings : key \in Keys
  BY <1>1, ItemsAre DEF Keys, Settings
<1>6. /\ other.size = SetBounds(items.size, bounds)
      /\ \A key \in Keys \ {"size"} : other[key] = items[key]
  BY <1>3, <1>5
<1>7. other \in Items
  BY <1>1, <1>3, <1>4 DEF Items
<1>8. \A key \in Keys : other[key].node = items[key].node
  BY <1>4, <1>6
<1>9. \A key \in DOMAIN Settings : other[key] = items[key]
  BY <1>5, <1>6 DEF Settings
<1>10. other.pixelsize = items.pixelsize
  BY <1>6 DEF Keys
<1>11. \A key \in Ranges : other[key].from <= other[key].to
  BY <1>1, <1>2, <1>4, <1>6, <1>10 DEF Ranges
<1>12. Sane(other, doc)
  BY <1>7, <1>8, <1>11, SaneContent
<1> QED
  BY <1>1, <1>2, <1>4, <1>6, <1>8, <1>9, <1>10, <1>12

LEMMA ParsedAre ==
  ASSUME NEW entries \in Seq(Entry)
  PROVE  /\ Sane(Parsed(entries), Document(entries))
         /\ \A key \in DOMAIN Settings : Parsed(entries)[key] = ReadContents(entries)[key]
         /\ \A key \in Keys : Parsed(entries)[key].node = ReadContents(entries)[key].node
         /\ Parsed(entries).size.from <= Parsed(entries).pixelsize.to
<1> DEFINE items == ReadContents(entries)
<1>1. Sane(items, Document(entries))
  BY ContentsAre
<1> HIDE DEF items
<1>2. CASE ~Empty(items.size)
  <2>1. Parsed(entries) = PixelsFollow(items)
    BY <1>2 DEF Parsed, PixelsFollow, items
  <2>2. /\ items.size.from \in Nat /\ items.size.to \in Nat /\ items.size.from <= items.size.to
    BY <1>1, ItemsAre DEF Sane, Ranges
  <2>3. items.size.to <= items.size.to
    BY <2>2
  <2>4. items.size.to <= Pixels(items.size.to) /\ Pixels(items.size.to) \in Nat
    BY <2>2, <2>3, PixelsOrder
  <2>5. /\ Sane(PixelsFollow(items), Document(entries))
        /\ \A key \in Keys : PixelsFollow(items)[key].node = items[key].node
        /\ \A key \in DOMAIN Settings : PixelsFollow(items)[key] = items[key]
        /\ PixelsFollow(items).size = items.size
        /\ PixelsFollow(items).pixelsize.to = Pixels(items.size.to)
    BY <1>1, PixelsFollowSane
  <2>6. PixelsFollow(items).size.from <= PixelsFollow(items).pixelsize.to
    BY <2>2, <2>4, <2>5
  <2> QED
    BY <2>1, <2>5, <2>6 DEF items
<1>3. CASE Empty(items.size)
  <2>1. Parsed(entries) = [items EXCEPT !.size = SetBounds(@, InPoints(items.pixelsize))]
    BY <1>3 DEF Parsed, items
  <2> QED
    BY <1>1, <2>1, PointsFollowSane DEF items
<1> QED
  BY <1>2, <1>3

(* What is inherited has no place of its own.                              *)
LEMMA MergedAre ==
  ASSUME NEW own, NEW inherited, NEW doc, Sane(own, doc), inherited \in Items,
         \A key \in Ranges : inherited[key].from <= inherited[key].to,
         inherited.size.from <= inherited.pixelsize.to
  PROVE  /\ Sane(Merged(own, inherited), doc)
         /\ \A key \in Keys : own[key].node # Null => Merged(own, inherited)[key] = own[key]
         /\ \A key \in Keys : Merged(own, inherited)[key].node = own[key].node
<1> DEFINE none == [inherited EXCEPT !.size.to = inherited.pixelsize.to]
           from == [key \in Keys |-> [none[key] EXCEPT !.node = Null]]
           merged == Merged(own, inherited)
<1>1. /\ own \in Items /\ DOMAIN own = Keys /\ DOMAIN inherited = Keys
      /\ \A key \in Ranges : own[key].from <= own[key].to
  BY ItemsAre DEF Sane
<1>2. /\ none \in Items /\ none.pixelsize = inherited.pixelsize
      /\ none.size.from = inherited.size.from /\ none.size.to = inherited.pixelsize.to
  BY DEF Items, RangeItem
<1>3. Inherited(inherited) = from
  BY <1>1 DEF Inherited
<1> HIDE DEF none
<1>4. /\ from \in Items /\ \A key \in Keys : from[key].node = Null
      /\ \A key \in Ranges : from[key].from = none[key].from /\ from[key].to = none[key].to
  BY <1>2 DEF Items, Item, RangeItem, Keys, Ranges, Null
<1>5. \A key \in Ranges : from[key].from <= from[key].to
  <2>1. none.size.from <= none.size.to /\ none.pixelsize.from <= none.pixelsize.to
    BY <1>2 DEF Ranges
  <2> QED
    BY <1>4, <2>1 DEF Ranges
<1> HIDE DEF from
<1>6. merged = [key \in Keys |-> IF own[key].node = Null THEN from[key] ELSE own[key]]
  BY <1>1, <1>3 DEF Merged
<1> HIDE DEF merged
<1>7. \A key \in Keys : merged[key] = IF own[key].node = Null THEN from[key] ELSE own[key]
  BY <1>6
<1>8. merged \in Items
  BY <1>1, <1>4, <1>6 DEF Items, Keys
<1>9. \A key \in Keys : merged[key].node = own[key].node
  BY <1>4, <1>7
<1>10. \A key \in Ranges : merged[key].from <= merged[key].to
  BY <1>1, <1>5, <1>7 DEF Ranges, Keys
<1>11. Sane(merged, doc)
  BY <1>8, <1>9, <1>10, SaneContent
<1> QED
  BY <1>7, <1>9, <1>11 DEF merged

-----------------------------------------------------------------------------
(* The object, as loaded and as set.                                       *)
Object == [items: Items, doc: Seq(Child), time: Nat, changed: BOOLEAN]

(* What an object inherits, and what it reads from no file.                *)
LEMMA GlobalIs ==
  ASSUME global \in GlobalFiles
  PROVE  /\ global \in Seq(Entry)
         /\ Parsed(global) \in Items
         /\ \A key \in Ranges : Parsed(global)[key].from <= Parsed(global)[key].to
         /\ Parsed(global).size.from <= Parsed(global).pixelsize.to
<1>1. global \in Seq(Entry)
  BY FilesAssumption
<1> QED
  BY <1>1, ParsedAre DEF Sane

LEMMA NothingIsRead ==
  /\ ReadContents(<<>>) \in Items
  /\ \A key \in Keys : ReadContents(<<>>)[key].node = Null
  /\ \A key \in Ranges : /\ ReadContents(<<>>)[key].from = 0
                         /\ ReadContents(<<>>)[key].to = 0
<1>1. <<>> \in Seq(Entry) /\ Len(<<>>) = 0
  OBVIOUS
<1>2. Sane(ReadContents(<<>>), Document(<<>>)) /\ DOMAIN Document(<<>>) = {}
  <2>1. Sane(ReadContents(<<>>), Document(<<>>))
    BY <1>1, ContentsAre
  <2>2. DOMAIN Document(<<>>) = 1..Len(<<>>)
    BY <1>1, DocumentIs
  <2> QED
    BY <1>1, <2>1, <2>2
<1>3. \A key \in Keys \ Ranges : ReadContents(<<>>)[key].node = Null
  BY <1>2 DEF Sane, PlaceOf, Holds
<1>4. \A key \in Ranges : ReadContents(<<>>)[key] = ReadRange(<<>>, key)
  BY DEF ReadContents, Ranges
<1>5. \A key \in Ranges : ReadRange(<<>>, key) = [node |-> Null, from |-> 0, to |-> 0]
  <2> TAKE key \in Ranges
  <2>1. {i \in DOMAIN <<>> : <<>>[i].key = key} = {}
    BY <1>1
  <2> QED
    BY <2>1 DEF ReadRange, LastRange
<1> QED
  BY <1>2, <1>3, <1>4, <1>5 DEF Sane

(* An object that was reset knows its document.                            *)
LEMMA LoadedIs ==
  ASSUME global \in GlobalFiles, NEW entries \in Seq(Entry) \union {NoFile}, NEW stamp \in Nat
  PROVE  /\ Loaded(entries, stamp) \in Object
         /\ Sane(Loaded(entries, stamp).items, Loaded(entries, stamp).doc)
         /\ Loaded(entries, stamp).time \in {0, stamp}
         /\ entries # NoFile =>
              /\ Loaded(entries, stamp).doc = Document(entries)
              /\ \A key \in Keys : ReadContents(entries)[key].node # Null =>
                   Loaded(entries, stamp).items[key] = Parsed(entries)[key]
<1> DEFINE c == Loaded(entries, stamp)
<1>1. \A items : Disagree(items) \in BOOLEAN
  BY DEF Disagree
<1>2. CASE entries = NoFile
  <2> DEFINE none == ReadContents(<<>>)
  <2>1. /\ global \in Seq(Entry) /\ Tree(Document(global)) /\ Document(global) \in Seq(Child)
        /\ \A key \in Keys : ~Holds(Document(global), NewNode[key])
        /\ ~Holds(Document(global), Null)
    BY GlobalIs, DocumentIs DEF Tree
  <2>2. \A key \in Keys : PlaceOf(Document(global), key, Null)
    BY <2>1 DEF PlaceOf, Holds, Null
  <2>3. Sane(none, Document(global))
    BY <2>1, <2>2, NothingIsRead DEF Sane, Ranges, Keys
  <2> HIDE DEF none
  <2>4. Sane(Merged(none, Parsed(global)), Document(global))
    BY <2>3, GlobalIs, MergedAre
  <2>5. /\ c = [ items |-> Merged(none, Parsed(global)), doc |-> Document(global),
                 time |-> 0, changed |-> Disagree(ReadContents(global)) ]
    BY <1>2 DEF Loaded, none
  <2>6. c.items = Merged(none, Parsed(global)) /\ c.doc = Document(global) /\ c.time = 0
    BY <2>5
  <2>7. Merged(none, Parsed(global)) \in Items
    BY <2>4 DEF Sane
  <2>8. c \in Object
    BY <1>1, <2>1, <2>5, <2>7 DEF Object
  <2> QED
    BY <1>2, <2>4, <2>6, <2>8
<1>3. CASE entries # NoFile
  <2>1. entries \in Seq(Entry)
    BY <1>3
  <2>2. /\ Sane(Parsed(entries), Document(entries))
        /\ \A key \in Keys : Parsed(entries)[key].node = ReadContents(entries)[key].node
    BY <2>1, ParsedAre
  <2>3. /\ Sane(Merged(Parsed(entries), Parsed(global)), Document(entries))
        /\ \A key \in Keys : Parsed(entries)[key].node # Null =>
             Merged(Parsed(entries), Parsed(global))[key] = Parsed(entries)[key]
    BY <2>2, GlobalIs, MergedAre
  <2>4. /\ c = [ items |-> Merged(Parsed(entries), Parsed(global)),
                 doc |-> Document(entries), time |-> stamp,
                 changed |-> Disagree(ReadContents(global)) \/ Disagree(ReadContents(entries)) ]
    BY <1>3 DEF Loaded
  <2>5. /\ c.items = Merged(Parsed(entries), Parsed(global))
        /\ c.doc = Document(entries) /\ c.time = stamp
    BY <2>4
  <2>6. Merged(Parsed(entries), Parsed(global)) \in Items /\ Document(entries) \in Seq(Child)
    BY <2>3 DEF Sane, Tree
  <2>7. c \in Object
    BY <1>1, <2>4, <2>6 DEF Object
  <2> QED
    BY <2>2, <2>3, <2>5, <2>7
<1> QED
  BY <1>2, <1>3

(* A setter changes values only, and marks the object if it does.          *)
SetFrom(c, d) ==
  /\ d \in Object /\ Sane(d.items, d.doc)
  /\ d.doc = c.doc /\ d.time = c.time
  /\ \A key \in Keys : d.items[key].node = c.items[key].node
  /\ ~d.changed => d.items = c.items /\ ~c.changed

LEMMA ChangedIs ==
  ASSUME NEW c \in Object, Sane(c.items, c.doc), NEW items \in Items,
         \A key \in Keys : items[key].node = c.items[key].node,
         \A key \in Ranges : items[key].from <= items[key].to
  PROVE  SetFrom(c, Changed(c, items)) /\ Changed(c, items).items = items
<1> DEFINE d == Changed(c, items)
<1>1. d = [c EXCEPT !.items = items, !.changed = c.changed \/ items # c.items]
  BY DEF Changed
<1>2. /\ d.items = items /\ d.doc = c.doc /\ d.time = c.time
      /\ d.changed = (c.changed \/ items # c.items)
  BY <1>1 DEF Object
<1>3. d \in Object
  BY <1>1 DEF Object
<1>4. Sane(items, c.doc)
  BY SaneContent
<1> QED
  BY <1>2, <1>3, <1>4 DEF SetFrom

(* The four setters.                                                       *)
LEMMA SetSubPixelTypeIs ==
  ASSUME NEW c \in Object, Sane(c.items, c.doc), NEW type \in Settings.rgba \union {NotSet}
  PROVE  /\ SetFrom(c, SetSubPixelType(c, type))
         /\ SetSubPixelType(c, type).items.rgba.value = type
         /\ \A key \in Keys \ {"rgba"} : SetSubPixelType(c, type).items[key] = c.items[key]
<1> DEFINE items == [c.items EXCEPT !.rgba.value = type]
<1>1. c.items \in Items /\ \A key \in Ranges : c.items[key].from <= c.items[key].to
  BY DEF Sane
<1>2. /\ items \in Items /\ items.rgba.value = type /\ items.rgba.node = c.items.rgba.node
      /\ \A key \in Keys \ {"rgba"} : items[key] = c.items[key]
  BY <1>1 DEF Items, Item, Keys
<1>3. SetSubPixelType(c, type) = Changed(c, items)
  BY DEF SetSubPixelType
<1> HIDE DEF items
<1>4. \A key \in Ranges : key \in Keys \ {"rgba"}
  BY DEF Ranges, Keys
<1>5. SetFrom(c, Changed(c, items)) /\ Changed(c, items).items = items
  <2>1. \A key \in Keys : items[key].node = c.items[key].node
    BY <1>2
  <2>2. \A key \in Ranges : items[key].from <= items[key].to
    BY <1>1, <1>2, <1>4
  <2> QED
    BY <1>2, <2>1, <2>2, ChangedIs
<1> QED
  BY <1>2, <1>3, <1>5

LEMMA SetAntiAliasingIs ==
  ASSUME NEW c \in Object, Sane(c.items, c.doc),
         NEW state \in Settings.antialias \union {NotSet}
  PROVE  /\ SetFrom(c, SetAntiAliasing(c, state))
         /\ SetAntiAliasing(c, state).items.antialias.value = state
         /\ \A key \in Keys \ {"antialias"} : SetAntiAliasing(c, state).items[key] = c.items[key]
<1> DEFINE items == [c.items EXCEPT !.antialias.value = state]
<1>1. c.items \in Items /\ \A key \in Ranges : c.items[key].from <= c.items[key].to
  BY DEF Sane
<1>2. /\ items \in Items /\ items.antialias.value = state
      /\ items.antialias.node = c.items.antialias.node
      /\ \A key \in Keys \ {"antialias"} : items[key] = c.items[key]
  BY <1>1 DEF Items, Item, Keys
<1>3. SetAntiAliasing(c, state) = Changed(c, items)
  BY DEF SetAntiAliasing
<1> HIDE DEF items
<1>4. \A key \in Ranges : key \in Keys \ {"antialias"}
  BY DEF Ranges, Keys
<1>5. SetFrom(c, Changed(c, items)) /\ Changed(c, items).items = items
  <2>1. \A key \in Keys : items[key].node = c.items[key].node
    BY <1>2
  <2>2. \A key \in Ranges : items[key].from <= items[key].to
    BY <1>1, <1>2, <1>4
  <2> QED
    BY <1>2, <2>1, <2>2, ChangedIs
<1> QED
  BY <1>2, <1>3, <1>5

LEMMA SetHintStyleIs ==
  ASSUME NEW c \in Object, Sane(c.items, c.doc),
         NEW style \in Settings.hintstyle \union {NotSet}
  PROVE  /\ SetFrom(c, SetHintStyle(c, style))
         /\ SetHintStyle(c, style).items.hintstyle.value = style
         /\ \A key \in Keys \ {"hintstyle", "hinting"} :
              SetHintStyle(c, style).items[key] = c.items[key]
<1> DEFINE styled == [c.items EXCEPT !.hintstyle.value = style]
           hinting == IF style = "none" THEN "false" ELSE "true"
           items == IF style = NotSet THEN styled ELSE [styled EXCEPT !.hinting.value = hinting]
<1>1. c.items \in Items /\ \A key \in Ranges : c.items[key].from <= c.items[key].to
  BY DEF Sane
<1>2. /\ styled \in Items /\ styled.hintstyle.value = style
      /\ styled.hintstyle.node = c.items.hintstyle.node
      /\ \A key \in Keys \ {"hintstyle"} : styled[key] = c.items[key]
  BY <1>1 DEF Items, Item, Keys
<1>3. SetHintStyle(c, style) = Changed(c, items)
  BY DEF SetHintStyle
<1> HIDE DEF styled
<1>4. /\ items \in Items /\ items.hinting.node = styled.hinting.node
      /\ \A key \in Keys \ {"hinting"} : items[key] = styled[key]
  BY <1>2 DEF Items, Item, Keys, Settings
<1> HIDE DEF items
<1>5. \A key \in Ranges : key \in Keys \ {"hintstyle", "hinting"}
  BY DEF Ranges, Keys
<1>6. /\ items.hintstyle.value = style /\ items.hintstyle.node = c.items.hintstyle.node
      /\ items.hinting.node = c.items.hinting.node
      /\ \A key \in Keys \ {"hintstyle", "hinting"} : items[key] = c.items[key]
  BY <1>2, <1>4 DEF Keys
<1>7. SetFrom(c, Changed(c, items)) /\ Changed(c, items).items = items
  <2>1. \A key \in Keys : items[key].node = c.items[key].node
    BY <1>6
  <2>2. \A key \in Ranges : items[key].from <= items[key].to
    BY <1>1, <1>5, <1>6
  <2> QED
    BY <1>4, <2>1, <2>2, ChangedIs
<1> QED
  BY <1>3, <1>6, <1>7

LEMMA SetExcludeRangeIs ==
  ASSUME NEW c \in Object, Sane(c.items, c.doc), NEW from \in Nat, NEW to \in Nat
  PROVE  /\ SetFrom(c, SetExcludeRange(c, from, to))
         /\ \A key \in Keys \ {"size"} : SetExcludeRange(c, from, to).items[key] = c.items[key]
<1> DEFINE least == Min({from, to})
           most == Max({from, to})
           items == [c.items EXCEPT !.size.from = least, !.size.to = most]
<1>1. c.items \in Items /\ \A key \in Ranges : c.items[key].from <= c.items[key].to
  BY DEF Sane
<1>2. least \in Nat /\ most \in Nat /\ least <= most
  BY MinMaxPair
<1>3. SetExcludeRange(c, from, to) = Changed(c, items)
  BY DEF SetExcludeRange
<1> HIDE DEF least, most
<1>4. /\ items \in Items /\ items.size.from = least /\ items.size.to = most
      /\ items.size.node = c.items.size.node
      /\ \A key \in Keys \ {"size"} : items[key] = c.items[key]
  BY <1>1, <1>2 DEF Items, RangeItem, Keys
<1> HIDE DEF items
<1>5. SetFrom(c, Changed(c, items)) /\ Changed(c, items).items = items
  <2>1. \A key \in Keys : items[key].node = c.items[key].node
    BY <1>4
  <2>2. \A key \in Ranges : items[key].from <= items[key].to
    BY <1>1, <1>2, <1>4 DEF Ranges, Keys
  <2> QED
    BY <1>4, <2>1, <2>2, ChangedIs
<1> QED
  BY <1>3, <1>4, <1>5

(* The second object has the settings of the first.                        *)
LEMMA OnTopIs ==
  ASSUME NEW items \in Items, NEW c \in Object, Sane(c.items, c.doc)
  PROVE  /\ SetFrom(c, OnTop(items, c))
         /\ \A key \in {"rgba", "hintstyle", "antialias"} :
              OnTop(items, c).items[key].value = items[key].value
<1> DEFINE d1 == SetExcludeRange(c, items.size.from, items.size.to)
           d2 == SetSubPixelType(d1, items.rgba.value)
           d3 == SetHintStyle(d2, items.hintstyle.value)
           d4 == SetAntiAliasing(d3, items.antialias.value)
<1>0. /\ items.size.from \in Nat /\ items.size.to \in Nat
      /\ items.rgba.value \in Settings.rgba \union {NotSet}
      /\ items.hintstyle.value \in Settings.hintstyle \union {NotSet}
      /\ items.antialias.value \in Settings.antialias \union {NotSet}
  BY DEF Items, Item, RangeItem
<1>1. d4 = OnTop(items, c)
  BY DEF OnTop
<1>2. SetFrom(c, d1)
  BY <1>0, SetExcludeRangeIs
<1> HIDE DEF d1
<1>3. SetFrom(d1, d2) /\ d2.items.rgba.value = items.rgba.value
  BY <1>0, <1>2, SetSubPixelTypeIs DEF SetFrom
<1> HIDE DEF d2
<1>4. /\ SetFrom(d2, d3) /\ d3.items.hintstyle.value = items.hintstyle.value
      /\ d3.items.rgba = d2.items.rgba
  BY <1>0, <1>3, SetHintStyleIs DEF SetFrom, Keys
<1> HIDE DEF d3
<1>5. /\ SetFrom(d3, d4) /\ d4.items.antialias.value = items.antialias.value
      /\ d4.items.rgba = d3.items.rgba /\ d4.items.hintstyle = d3.items.hintstyle
  BY <1>0, <1>4, SetAntiAliasingIs DEF SetFrom, Keys
<1> HIDE DEF d4
<1>6. SetFrom(c, d4)
  BY <1>2, <1>3, <1>4, <1>5 DEF SetFrom
<1> QED
  BY <1>1, <1>3, <1>4, <1>5, <1>6

-----------------------------------------------------------------------------
(* Every action keeps the inductive invariant.                             *)
LEMMA LoadedOK ==
  ASSUME global \in GlobalFiles, NEW entries \in Seq(Entry) \union {NoFile}, NEW stamp \in Nat,
         NEW c, SetFrom(Loaded(entries, stamp), c) \/ c = Loaded(entries, stamp)
  PROVE  /\ c \in Object /\ Sane(c.items, c.doc) /\ c.time <= stamp
         /\ entries # NoFile => Kept(OfKeys(Keys), Document(entries), c.doc)
<1> DEFINE d == Loaded(entries, stamp)
<1>1. /\ d \in Object /\ Sane(d.items, d.doc) /\ d.time \in {0, stamp}
      /\ entries # NoFile => d.doc = Document(entries)
  BY LoadedIs
<1> HIDE DEF d
<1>2. c \in Object /\ Sane(c.items, c.doc) /\ c.time = d.time /\ c.doc = d.doc
  BY <1>1 DEF SetFrom, d
<1>3. Kept(OfKeys(Keys), Document(entries), Document(entries))
  BY KeptItself
<1> QED
  BY <1>1, <1>2, <1>3

(* What apply() leaves behind, and what it would write.                    *)
LEMMA WrittenIs ==
  ASSUME NEW c, Sane(c.items, c.doc)
  PROVE  /\ Sane(Applied(c.items, c.doc).items, Applied(c.items, c.doc).doc)
         /\ Kept(OfKeys(Keys), c.doc, Applied(c.items, c.doc).doc)
         /\ \A key \in DOMAIN Settings :
              Applied(c.items, c.doc).items[key].value = c.items[key].value
         /\ Entries(Applied(c.items, c.doc).doc) \in Seq(Entry)
<1> DEFINE s == State(PixelsFollow(c.items), c.doc)
           t == Applied(c.items, c.doc)
<1>1. Steps(Keys, s, t)
  BY AppliedIs
<1>2. /\ \A key \in DOMAIN Settings : PixelsFollow(c.items)[key] = c.items[key]
      /\ s.items = PixelsFollow(c.items) /\ s.doc = c.doc
  BY PixelsFollowSane DEF State
<1>3. Sane(t.items, t.doc) /\ Entries(t.doc) \in Seq(Entry)
  BY <1>1, EntriesAre DEF Steps, Sane
<1> QED
  BY <1>1, <1>2, <1>3 DEF Steps

LEMMA ConfigInvInit ==
  ASSUME ConfigInit
  PROVE  ConfigInv
<1>1. file \in Seq(Entry) \union {NoFile} /\ global \in GlobalFiles
  BY FilesAssumption DEF ConfigInit
<1>2. /\ config \in Object /\ Sane(config.items, config.doc) /\ config.time <= 1
      /\ file # NoFile => Kept(OfKeys(Keys), Document(file), config.doc)
  BY <1>1, LoadedOK DEF ConfigInit
<1> QED
  BY <1>1, <1>2 DEF ConfigInit, ConfigInv, ObjectOK, Object, UpToDate, Writing

LEMMA SetInv ==
  ASSUME ConfigInv, Set
  PROVE  ConfigInv'
<1>1. config \in Object /\ Sane(config.items, config.doc)
  BY DEF ConfigInv, ObjectOK, Object
<1>2. SetFrom(config, config')
  <2>1. ASSUME NEW type \in SubPixels, config' = SetSubPixelType(config, type)
        PROVE  SetFrom(config, config')
    BY <1>1, <2>1, SetSubPixelTypeIs, FilesAssumption
  <2>2. ASSUME NEW style \in Styles, config' = SetHintStyle(config, style)
        PROVE  SetFrom(config, config')
    BY <1>1, <2>2, SetHintStyleIs, FilesAssumption
  <2>3. ASSUME NEW state \in States, config' = SetAntiAliasing(config, state)
        PROVE  SetFrom(config, config')
    BY <1>1, <2>3, SetAntiAliasingIs, FilesAssumption
  <2>4. ASSUME NEW r \in ExcludeRanges, config' = SetExcludeRange(config, r.from, r.to)
        PROVE  SetFrom(config, config')
    <3>1. r.from \in Nat /\ r.to \in Nat
      BY FilesAssumption
    <3> QED
      BY <1>1, <2>4, <3>1, SetExcludeRangeIs
  <2> QED
    BY <2>1, <2>2, <2>3, <2>4 DEF Set
<1>3. pc = "idle" /\ pc' = "idle" /\ fresh = None /\ fresh' = None
  BY DEF Set, ConfigInv
<1>4. ObjectOK(config)' /\ (~blind => UpToDate(config))'
  BY <1>2, <1>3 DEF Set, ConfigInv, ObjectOK, Object, UpToDate, SetFrom, Writing
<1> QED
  BY <1>3, <1>4 DEF Set, ConfigInv, Writing

(* Reading a file gives what belongs to its stamp; unless the file was     *)
(* exchanged meanwhile, which the history knows.                           *)
LEMMA ReadFileIs ==
  ASSUME ConfigInv, ReadFile
  PROVE  /\ file \in Seq(Entry) \union {NoFile} /\ file' \in Seq(Entry) \union {NoFile}
         /\ version \in Nat /\ version' \in Nat \ {0} /\ version <= version'
         /\ version' = version => file' = file
         /\ \A c : SetFrom(Loaded(file, version'), c) \/ c = Loaded(file, version') =>
              /\ c \in Object /\ Sane(c.items, c.doc) /\ c.time <= version'
              /\ ~blind' /\ c.time = version' /\ file' # NoFile =>
                   Kept(OfKeys(Keys), Document(file'), c.doc)
<1>1. /\ global \in GlobalFiles /\ version \in Nat \ {0}
      /\ file \in Seq(Entry) \union {NoFile}
  BY DEF ConfigInv
<1>2. /\ file' \in Seq(Entry) \union {NoFile} /\ version' \in Nat \ {0}
      /\ version <= version' /\ (version' = version => file' = file)
  BY <1>1, FilesAssumption DEF ReadFile, Exchange
<1>3. ASSUME NEW c, SetFrom(Loaded(file, version'), c) \/ c = Loaded(file, version')
      PROVE  /\ c \in Object /\ Sane(c.items, c.doc) /\ c.time <= version'
             /\ ~blind' /\ c.time = version' /\ file' # NoFile =>
                  Kept(OfKeys(Keys), Document(file'), c.doc)
  <2>1. /\ c \in Object /\ Sane(c.items, c.doc) /\ c.time <= version'
        /\ file # NoFile => Kept(OfKeys(Keys), Document(file), c.doc)
    BY <1>1, <1>2, <1>3, LoadedOK
  <2>2. file = NoFile => c.time = 0
    BY <1>3 DEF SetFrom, Loaded
  <2>3. ~blind' => file = NoFile \/ file' = file
    BY DEF ReadFile
  <2> QED
    BY <1>2, <2>1, <2>2, <2>3
<1> QED
  BY <1>1, <1>2, <1>3

(* The second object, if there is anything for it to apply.                *)
LEMMA RereadInv ==
  ASSUME ConfigInv, Reread
  PROVE  ConfigInv'
<1> DEFINE anew == Loaded(file, version')
           second == OnTop(config.items, anew)
<1>1. /\ global \in GlobalFiles /\ config.items \in Items /\ ObjectOK(config)
      /\ UNCHANGED <<global, config>> /\ ReadFile
  BY DEF ConfigInv, ObjectOK, Reread
<1>2. /\ file' \in Seq(Entry) \union {NoFile} /\ version' \in Nat \ {0}
      /\ version \in Nat /\ version <= version' /\ (version' = version => file' = file)
      /\ anew \in Object /\ Sane(anew.items, anew.doc)
      /\ SetFrom(anew, second) =>
           /\ second \in Object /\ Sane(second.items, second.doc)
           /\ second.time <= version'
           /\ ~blind' /\ second.time = version' /\ file' # NoFile =>
                Kept(OfKeys(Keys), Document(file'), second.doc)
  BY <1>1, ReadFileIs
<1> HIDE DEF anew
<1>3. /\ SetFrom(anew, second)
      /\ \A key \in {"rgba", "hintstyle", "antialias"} :
           second.items[key].value = config.items[key].value
  BY <1>1, <1>2, OnTopIs
<1>4. ObjectOK(config)'
  BY <1>1, <1>2 DEF ObjectOK, Object
<1>5. CASE second.changed
  <2> HIDE DEF second
  <2>1. fresh' = second /\ pc' = "check"
    BY <1>5 DEF Reread, second, anew
  <2>2. second # None
    BY <1>5 DEF None
  <2>3. ObjectOK(fresh)' /\ (~blind => UpToDate(fresh))'
    BY <1>2, <1>3, <2>1 DEF ObjectOK, Object, UpToDate
  <2> QED
    BY <1>1, <1>2, <1>3, <1>4, <2>1, <2>2, <2>3 DEF ConfigInv, Writing
<1>6. CASE ~second.changed
  <2>1. fresh' = None /\ pc' = "reset" /\ raced' = (version' # version)
    BY <1>6 DEF Reread, second, anew
  <2>2. ~raced' => NothingToWrite'
    BY <1>1, <1>2, <1>6, <2>1 DEF NothingToWrite, Loaded, second, anew
  <2> QED
    BY <1>1, <1>2, <1>4, <2>1, <2>2 DEF ConfigInv
<1> QED
  BY <1>5, <1>6

LEMMA ApplyInv ==
  ASSUME ConfigInv, Apply \/ ApplyAgain
  PROVE  ConfigInv'
<1>1. /\ UNCHANGED <<global, file, version, config, raced, blind>>
      /\ pc \in {"idle", "check"}
  BY DEF Apply, ApplyAgain
<1>2. ObjectOK(config)'
  BY <1>1 DEF ConfigInv, ObjectOK
<1>3. CASE pc' = "reread"
  <2>1. fresh' = None
    BY <1>3 DEF Apply, ApplyAgain, ConfigInv
  <2> QED
    BY <1>1, <1>2, <1>3, <2>1 DEF ConfigInv
<1>4. CASE pc' # "reread"
  <2>1. pc' = "write" /\ UNCHANGED fresh
    BY <1>4 DEF Apply, ApplyAgain
  <2>2. ~Outdated(Writing)
    BY <1>4 DEF Apply, ApplyAgain, Writing, ConfigInv
  <2>3. (pc = "write" /\ ~raced /\ file # NoFile => Writing.time = version)'
    BY <1>1, <2>1, <2>2 DEF Outdated, Writing
  <2>4. (~blind => UpToDate(Writing))'
    BY <1>1, <2>1 DEF ConfigInv, UpToDate, Writing
  <2>5. fresh # None => ObjectOK(fresh)'
    BY <1>1, <2>1 DEF ConfigInv, ObjectOK
  <2> QED
    BY <1>1, <1>2, <2>1, <2>3, <2>4, <2>5 DEF ConfigInv
<1> QED
  BY <1>3, <1>4

(* What is to be written, at any time.                                     *)
LEMMA WritingIs ==
  ASSUME ConfigInv
  PROVE  /\ Sane(Writing.items, Writing.doc)
         /\ Written = Applied(Writing.items, Writing.doc)
         /\ Sane(Written.items, Written.doc)
         /\ Kept(OfKeys(Keys), Writing.doc, Written.doc)
         /\ Entries(Written.doc) \in Seq(Entry) /\ Entries(Written.doc) # NoFile
         /\ \A key \in {"rgba", "hintstyle", "antialias"} :
              Writing.items[key].value = config.items[key].value
<1>1. /\ Sane(Writing.items, Writing.doc) /\ Written = Applied(Writing.items, Writing.doc)
      /\ \A key \in {"rgba", "hintstyle", "antialias"} :
           Writing.items[key].value = config.items[key].value
  BY DEF ConfigInv, ObjectOK, Writing, Written
<1>2. /\ Sane(Written.items, Written.doc) /\ Kept(OfKeys(Keys), Writing.doc, Written.doc)
      /\ Entries(Written.doc) \in Seq(Entry)
  BY <1>1, WrittenIs
<1> QED
  BY <1>1, <1>2, FilesAssumption

LEMMA WriteInv ==
  ASSUME ConfigInv, Write
  PROVE  ConfigInv'
<1>1. /\ file' = Entries(Written.doc) /\ version' = version + 1 /\ pc' = "reset"
      /\ UNCHANGED <<global, config, fresh, blind>>
  BY DEF Write
<1>2. file' \in Seq(Entry) /\ version \in Nat \ {0} /\ version' \in Nat \ {0}
  BY <1>1, WritingIs DEF ConfigInv
<1>3. ObjectOK(config)'
  BY <1>1, <1>2 DEF ConfigInv, ObjectOK, Object
<1>4. fresh # None => ObjectOK(fresh)'
  BY <1>1, <1>2 DEF ConfigInv, ObjectOK, Object
<1>5. JustWritten'
  BY <1>1 DEF JustWritten, Written, Writing
<1> QED
  BY <1>1, <1>2, <1>3, <1>4, <1>5 DEF ConfigInv

LEMMA ResetInv ==
  ASSUME ConfigInv, Reset
  PROVE  ConfigInv'
<1>1. /\ ReadFile /\ config' = Loaded(file, version') /\ UNCHANGED global
      /\ fresh' = None /\ pc' = "idle"
  BY DEF Reset
<1>2. /\ file' \in Seq(Entry) \union {NoFile} /\ version' \in Nat \ {0}
      /\ config' \in Object /\ Sane(config'.items, config'.doc) /\ config'.time <= version'
      /\ ~blind' /\ config'.time = version' /\ file' # NoFile =>
           Kept(OfKeys(Keys), Document(file'), config'.doc)
  BY <1>1, ReadFileIs
<1>3. ObjectOK(config)' /\ (~blind => UpToDate(config))'
  BY <1>2 DEF ObjectOK, Object, UpToDate
<1> QED
  BY <1>1, <1>2, <1>3 DEF ConfigInv, Writing

(* Failures leave an object with a document that fits its items.           *)
LEMMA FailInv ==
  ASSUME ConfigInv, NEW items, NEW doc, Fail(items, doc),
         fresh = None => /\ Sane(items, doc)
                         /\ Kept(OfKeys(Keys), config.doc, doc)
  PROVE  ConfigInv'
<1>1. fresh' = None /\ pc' = "idle" /\ UNCHANGED <<global, file, version>>
  BY DEF Fail
<1>2. ObjectOK(config)' /\ (~blind => UpToDate(config))'
  <2>1. CASE fresh = None
    <3>1. config' = [config EXCEPT !.items = items, !.doc = doc] /\ UNCHANGED blind
      BY <2>1 DEF Fail
    <3>2. Sane(items, doc) /\ items \in Items /\ doc \in Seq(Child)
      BY <2>1 DEF Sane, Tree
    <3>3. /\ config' \in Object /\ config'.items = items /\ config'.doc = doc
          /\ config'.time = config.time
      BY <3>1, <3>2 DEF ConfigInv, ObjectOK, Object
    <3>4. ObjectOK(config)'
      BY <1>1, <3>2, <3>3 DEF ConfigInv, ObjectOK, Object
    <3>5. ~blind /\ config.time = version /\ file # NoFile =>
            Kept(OfKeys(Keys), Document(file), doc)
      BY <2>1, KeptTwice DEF ConfigInv, UpToDate, Writing, Fail
    <3> QED
      BY <1>1, <3>1, <3>3, <3>4, <3>5 DEF UpToDate
  <2>2. CASE fresh # None
    <3>1. config' = [config EXCEPT !.time = version] /\ blind'
      BY <2>2 DEF Fail
    <3>2. ObjectOK(config)'
      BY <1>1, <3>1 DEF ConfigInv, ObjectOK
    <3> QED
      BY <3>1, <3>2
  <2> QED
    BY <2>1, <2>2
<1> QED
  BY <1>1, <1>2 DEF ConfigInv, Writing, Fail

LEMMA OtherWritesInv ==
  ASSUME ConfigInv, OtherWrites
  PROVE  ConfigInv'
<1>1. /\ file' \in Seq(Entry) \union {NoFile} /\ version' = version + 1 /\ version \in Nat \ {0}
      /\ UNCHANGED <<global, config, fresh, pc, blind>>
      /\ raced' = (pc \in {"write", "reset"})
  BY FilesAssumption DEF OtherWrites, Exchange, ConfigInv
<1>2. ASSUME NEW c, ObjectOK(c)
      PROVE  /\ c.time <= version' /\ c.time # version'
             /\ c \in Object /\ Sane(c.items, c.doc)
  BY <1>1, <1>2 DEF ObjectOK, Object
<1>3. ObjectOK(config)' /\ UpToDate(config)'
  BY <1>1, <1>2 DEF ConfigInv, ObjectOK, Object, UpToDate
<1>4. fresh # None => ObjectOK(fresh)' /\ UpToDate(fresh)'
  BY <1>1, <1>2 DEF ConfigInv, ObjectOK, Object, UpToDate
<1>5. pc' \in {"write", "reset"} => raced'
  BY <1>1
<1>6. version' \in Nat \ {0}
  BY <1>1
<1> QED
  BY <1>1, <1>3, <1>4, <1>5, <1>6 DEF ConfigInv, Writing

(* A loaded object knows for every setting where it is in the document,    *)
(* the second one has the settings of the first, before a file is replaced *)
(* that nobody else has written, the object has read just that, and before *)
(* it is reset what it would read is what it holds.                        *)
THEOREM ConfigInvariant == ConfigSpec => []ConfigInv
<1>1. ASSUME ConfigInv, [ConfigNext]_configVars
      PROVE  ConfigInv'
  <2>1. CASE Set
    BY <1>1, <2>1, SetInv
  <2>2. CASE Apply \/ ApplyAgain
    BY <1>1, <2>2, ApplyInv
  <2>3. CASE Reread
    BY <1>1, <2>3, RereadInv
  <2>4. CASE Write
    BY <1>1, <2>4, WriteInv
  <2>5. CASE Reset
    BY <1>1, <2>5, ResetInv
  <2>6. CASE FailToOpen
    <3>1. /\ Sane(PixelsFollow(config.items), config.doc)
          /\ Kept(OfKeys(Keys), config.doc, config.doc)
      BY <1>1, PixelsFollowSane, KeptItself DEF ConfigInv, ObjectOK
    <3> QED
      BY <1>1, <2>6, <3>1, FailInv DEF FailToOpen
  <2>7. CASE FailToReplace
    <3>1. fresh = None => /\ Sane(Written.items, Written.doc)
                          /\ Kept(OfKeys(Keys), config.doc, Written.doc)
      BY <1>1, WritingIs DEF Writing
    <3> QED
      BY <1>1, <2>7, <3>1, FailInv DEF FailToReplace
  <2>8. CASE OtherWrites
    BY <1>1, <2>8, OtherWritesInv
  <2>9. CASE UNCHANGED configVars
    BY <1>1, <2>9 DEF configVars, ConfigInv, ObjectOK, UpToDate, Writing, Written,
                      JustWritten, NothingToWrite, Loaded
  <2> QED
    BY <1>1, <2>1, <2>2, <2>3, <2>4, <2>5, <2>6, <2>7, <2>8, <2>9 DEF ConfigNext
<1> QED
  BY <1>1, ConfigInvInit, PTL DEF ConfigSpec

-----------------------------------------------------------------------------
(* What was written is read again as it was set.                           *)
LEMMA ReadBackKeepsSettings ==
  ASSUME ConfigInv, JustWritten, NEW stamp \in Nat,
         NEW key \in {"rgba", "hintstyle", "antialias"},
         config.items[key].value # NotSet
  PROVE  Loaded(file, stamp).items[key].value = config.items[key].value
<1> DEFINE value == config.items[key].value
           doc == Written.doc
<1>1. /\ Sane(Writing.items, Writing.doc) /\ Writing.items[key].value = value
      /\ Sane(Written.items, doc) /\ Written = Applied(Writing.items, Writing.doc)
      /\ file = Entries(doc) /\ file \in Seq(Entry) /\ file # NoFile
  BY WritingIs DEF JustWritten
<1>2. HasChild(doc, [node |-> NewNode[key], entry |-> Setting(key, "assign", value)])
  BY <1>1, AppliedSettings
<1> HIDE DEF doc, value
<1>3. key \in DOMAIN Settings /\ key \in Keys
  BY DEF Settings, Keys
<1>4. Tree(doc) /\ PlaceOf(doc, key, Written.items[key].node)
  BY <1>1, <1>3 DEF Sane
<1>5. \A default : /\ Read(file, key, default).node # Null
                   /\ Read(file, key, default).value = value
  BY <1>1, <1>2, <1>3, <1>4, ReadsSetting
<1>6. \E default : ReadContents(file)[key] = Read(file, key, default)
  BY DEF ReadContents
<1>7. ReadContents(file)[key].node # Null /\ ReadContents(file)[key].value = value
  BY <1>5, <1>6
<1>8. Parsed(file)[key] = ReadContents(file)[key]
  BY <1>1, <1>3, ParsedAre
<1>9. Loaded(file, stamp).items[key] = Parsed(file)[key]
  <2>1. global \in GlobalFiles
    BY DEF ConfigInv
  <2> QED
    BY <1>1, <1>3, <1>7, <2>1, LoadedIs
<1> QED
  BY <1>7, <1>8, <1>9 DEF value

(* An object with nothing to put on top of the file is like the file.      *)
LEMMA NothingToWriteIs ==
  ASSUME ConfigInv, NothingToWrite, NEW stamp
  PROVE  /\ ~Loaded(file, stamp).changed
         /\ \A key \in {"rgba", "hintstyle", "antialias"} :
              Loaded(file, stamp).items[key].value = config.items[key].value
<1> DEFINE anew == Loaded(file, version)
           second == OnTop(config.items, anew)
<1>1. /\ Loaded(file, stamp).items = anew.items
      /\ Loaded(file, stamp).changed = anew.changed
  BY DEF Loaded
<1>2. ~second.changed
  BY DEF NothingToWrite
<1>3. anew \in Object /\ Sane(anew.items, anew.doc) /\ config.items \in Items
  BY LoadedOK DEF ConfigInv, ObjectOK
<1> HIDE DEF anew
<1>4. /\ SetFrom(anew, second)
      /\ \A key \in {"rgba", "hintstyle", "antialias"} :
           second.items[key].value = config.items[key].value
  BY <1>3, OnTopIs
<1> HIDE DEF second
<1>5. second.items = anew.items /\ ~anew.changed
  BY <1>2, <1>4 DEF SetFrom
<1> QED
  BY <1>1, <1>4, <1>5

(* For any files, settings and number of writes: a setting that is set     *)
(* stays what it is through every attempt of apply() to write it, whether  *)
(* the object writes, a second one does, there is nothing to write or the  *)
(* attempt fails; but for another program that writes between the end of   *)
(* that and the reset.                                                     *)
THEOREM SettingsStaySet == ConfigSpec => SettingsSurvive
<1>1. ASSUME ConfigInv, [ConfigNext]_configVars, ~Set, ~(Reset /\ raced),
             NEW key \in {"rgba", "hintstyle", "antialias"}, config.items[key].value # NotSet
      PROVE  config'.items[key].value = config.items[key].value
  <2>1. CASE Reset
    <3>1. config' = Loaded(file, version') /\ version' \in Nat
      BY <1>1, <2>1, ReadFileIs DEF Reset
    <3>2. JustWritten \/ NothingToWrite
      BY <1>1, <2>1 DEF ConfigInv, Reset
    <3> QED
      BY <1>1, <3>1, <3>2, ReadBackKeepsSettings, NothingToWriteIs
  <2>2. ASSUME NEW items, NEW doc, Fail(items, doc),
               fresh = None => items[key].value = config.items[key].value
        PROVE  config'.items[key].value = config.items[key].value
    BY <1>1, <2>2 DEF Fail, ConfigInv, ObjectOK
  <2>3. CASE FailToOpen
    <3>1. PixelsFollow(config.items)[key] = config.items[key]
      BY <1>1, PixelsFollowSane DEF ConfigInv, ObjectOK, Settings
    <3> QED
      BY <2>2, <2>3, <3>1 DEF FailToOpen
  <2>4. CASE FailToReplace
    <3>1. fresh = None => Written.items[key].value = config.items[key].value
      BY <1>1, WrittenIs DEF Written, Writing, ConfigInv, ObjectOK, Settings
    <3> QED
      BY <2>2, <2>4, <3>1 DEF FailToReplace
  <2>5. CASE Apply \/ Reread \/ ApplyAgain \/ Write \/ OtherWrites \/ UNCHANGED configVars
    BY <2>5 DEF Apply, Reread, ApplyAgain, Write, OtherWrites, configVars
  <2> QED
    BY <1>1, <2>1, <2>3, <2>4, <2>5 DEF ConfigNext
<1>2. ASSUME ConfigInv, [ConfigNext]_configVars
      PROVE  [\A key \in {"rgba", "hintstyle", "antialias"} :
                \/ config.items[key].value = NotSet
                \/ config'.items[key].value = config.items[key].value
                \/ Set
                \/ Reset /\ raced]_configVars
  BY <1>1, <1>2
<1> QED
  BY <1>2, ConfigInvariant, PTL DEF ConfigSpec, SettingsSurvive

(* A kept child has one place before and one after, in the same order.     *)
LEMMA OthersStay ==
  ASSUME NEW old \in Seq(Entry), NEW doc, Tree(doc), Kept(OfKeys(Keys), Document(old), doc)
  PROVE  SameOthers(old, Entries(doc))
<1> DEFINE children == Document(old)
           new == Entries(doc)
           at == [i \in Others(old) |-> CHOOSE j \in DOMAIN doc : doc[j] = children[i]]
<1>1. /\ Tree(children) /\ DOMAIN children = 1..Len(old) /\ DOMAIN old = 1..Len(old)
      /\ Len(old) \in Nat
      /\ \A i \in 1..Len(old) : children[i].node = i /\ children[i].entry = old[i]
  BY DocumentIs
<1>2. /\ DOMAIN new = DOMAIN doc /\ \A i \in DOMAIN doc : new[i] = doc[i].entry
      /\ DOMAIN doc \subseteq Nat
      /\ \A i, j \in DOMAIN doc : doc[i].node = doc[j].node => i = j
  BY EntriesAre, TreeIs
<1>3. \A i \in Others(old) : i \in 1..Len(old) /\ old[i].key = "other"
  BY <1>1 DEF Others
<1> HIDE DEF children, new
<1>4. \A i \in Others(old) : children[i] \notin OfKeys(Keys)
  BY <1>1, <1>3 DEF OfKeys, Keys
<1>5. \A i \in Others(old) : HasChild(doc, children[i])
  BY <1>1, <1>3, <1>4, ChildKept DEF HasChild, children
<1>6. \A i \in Others(old) : at[i] \in DOMAIN doc /\ doc[at[i]] = children[i]
  BY <1>5 DEF HasChild
<1>7. DOMAIN at = Others(old) /\ at = [i \in Others(old) |-> at[i]]
  OBVIOUS
<1> HIDE DEF at
<1>8. \A i \in Others(old) : at[i] \in Others(new) /\ new[at[i]] = old[i]
  BY <1>1, <1>2, <1>3, <1>6 DEF Others
<1>9. at \in [Others(old) -> Others(new)]
  BY <1>7, <1>8
<1>10. ASSUME NEW i \in Others(old), NEW j \in Others(old), i < j
       PROVE  at[i] < at[j]
  <2>1. at[i] \in Nat /\ at[j] \in Nat /\ i \in Nat /\ j \in Nat
    BY <1>1, <1>2, <1>3, <1>6
  <2>2. at[i] # at[j]
    BY <1>1, <1>3, <1>6, <1>10, <2>1
  <2>3. ~(at[j] < at[i])
    <3>1. SUFFICES ASSUME at[j] < at[i] PROVE FALSE
      OBVIOUS
    <3>2. j < i
      BY <1>1, <1>3, <1>4, <1>6, <3>1, KeptOrder DEF children
    <3> QED
      BY <1>10, <2>1, <3>2
  <2> QED
    BY <2>1, <2>2, <2>3
<1>11. ASSUME NEW k \in Others(new)
       PROVE  \E i \in Others(old) : at[i] = k
  <2>1. k \in DOMAIN doc /\ doc[k].entry.key = "other"
    BY <1>2 DEF Others
  <2>2. doc[k] \notin OfKeys(Keys)
    BY <2>1 DEF OfKeys, Keys
  <2>3. PICK i \in DOMAIN children : children[i] = doc[k]
    BY <2>1, <2>2 DEF Kept, children
  <2>4. i \in Others(old)
    BY <1>1, <2>1, <2>3 DEF Others
  <2> QED
    BY <1>2, <1>6, <2>1, <2>3, <2>4
<1>12. Range(at) = Others(new)
  BY <1>7, <1>8, <1>11 DEF Range
<1> QED
  BY <1>8, <1>9, <1>10, <1>12 DEF SameOthers, new

(* Only replacing the file does.                                           *)
LEMMA WritesIs ==
  ASSUME [ConfigNext]_configVars, Writes
  PROVE  Write /\ pc = "write"
BY DEF Writes, ConfigNext, configVars, Set, Apply, Reread, ApplyAgain, Reset, FailToOpen,
       FailToReplace, Fail, OtherWrites

(* What other programs have in the file is still there after apply() has   *)
(* written, nothing is doubled, and its order is kept: all that applying   *)
(* puts in or takes out are elements for the object's own settings.        *)
THEOREM OthersStayInFile == ConfigSpec => OthersKept
<1>1. ASSUME ConfigInv, [ConfigNext]_configVars, Writes, file # NoFile, ~raced, ~blind
      PROVE  SameOthers(file, file')
  <2>1. Write /\ pc = "write"
    BY <1>1, WritesIs
  <2>2. Writing.time = version /\ UpToDate(Writing)
    BY <1>1, <2>1 DEF ConfigInv
  <2>3. Kept(OfKeys(Keys), Document(file), Writing.doc)
    BY <1>1, <2>2 DEF UpToDate
  <2>4. /\ Kept(OfKeys(Keys), Writing.doc, Written.doc) /\ Tree(Written.doc)
        /\ file' = Entries(Written.doc)
    BY <1>1, <2>1, WritingIs DEF Sane, Write
  <2>5. Kept(OfKeys(Keys), Document(file), Written.doc)
    BY <2>3, <2>4, KeptTwice
  <2>6. file \in Seq(Entry)
    BY <1>1 DEF ConfigInv
  <2> QED
    BY <2>4, <2>5, <2>6, OthersStay
<1>2. ASSUME ConfigInv, [ConfigNext]_configVars
      PROVE  [Writes /\ file # NoFile /\ ~raced /\ ~blind => SameOthers(file, file')]_configVars
  BY <1>1, <1>2
<1> QED
  BY <1>2, ConfigInvariant, PTL DEF ConfigSpec, OthersKept

(* An exclude range that takes the place of no other is in the file.       *)
LEMMA RangeIsWritten ==
  ASSUME ConfigInv, ~Replacing(Writing), ~Empty(Writing.items.size)
  PROVE  /\ SameBounds(ReadRange(Entries(Written.doc), "size"), Writing.items.size)
         /\ SameBounds(ReadRange(Entries(Written.doc), "pixelsize"),
                       InPixels(Writing.items.size))
<1> DEFINE doc == Written.doc
           range == Writing.items.size
<1>1. /\ Sane(Writing.items, Writing.doc) /\ Written = Applied(Writing.items, Writing.doc)
      /\ Sane(Written.items, doc)
  BY WritingIs
<1>2. /\ HasChild(doc, RangeChild("size", range))
      /\ HasChild(doc, RangeChild("pixelsize", InPixels(range)))
  BY <1>1, AppliedRanges
<1>3. range.from \in Nat /\ range.to \in Nat /\ range.from <= range.to
  BY <1>1, ItemsAre DEF Sane, Ranges
<1> HIDE DEF range, doc
<1>4. /\ InPixels(range).from \in Nat /\ InPixels(range).to \in Nat
      /\ InPixels(range).from <= InPixels(range).to
  <2>1. /\ Pixels(range.from) \in Nat /\ Pixels(range.from) <= Pixels(range.to)
    BY <1>3, PixelsOrder
  <2>2. Pixels(range.to) \in Nat
    BY <1>3, PixelsOrder
  <2> QED
    BY <2>1, <2>2 DEF InPixels
<1>5. /\ Tree(doc) /\ PlaceOf(doc, "size", Written.items.size.node)
      /\ PlaceOf(doc, "pixelsize", Written.items.pixelsize.node)
  BY <1>1 DEF Sane, Keys
<1>6. "size" \in Ranges /\ "pixelsize" \in Ranges
  BY DEF Ranges
<1>7. SameBounds(ReadRange(Entries(doc), "size"), range)
  BY <1>2, <1>3, <1>5, <1>6, ReadsRange
<1>8. SameBounds(ReadRange(Entries(doc), "pixelsize"), InPixels(range))
  BY <1>2, <1>4, <1>5, <1>6, ReadsRange
<1> QED
  BY <1>7, <1>8 DEF range, doc

(* What readContents() reads from a file that apply() has written is the   *)
(* exclude range that was set, in points and, rounded, in pixels.          *)
THEOREM RangeGetsThere == ConfigSpec => RangeSurvives
<1>1. ASSUME ConfigInv, [ConfigNext]_configVars, Writes, ~Replacing(Writing),
             ~Empty(Writing.items.size)
      PROVE  /\ SameBounds(ReadRange(file', "size"), Writing.items.size)
             /\ SameBounds(ReadRange(file', "pixelsize"), InPixels(Writing.items.size))
  <2>1. file' = Entries(Written.doc)
    BY <1>1, WritesIs DEF Write
  <2> QED
    BY <1>1, <2>1, RangeIsWritten
<1>2. ASSUME ConfigInv, [ConfigNext]_configVars
      PROVE  [Writes /\ ~Replacing(Writing) /\ ~Empty(Writing.items.size) =>
                /\ SameBounds(ReadRange(file', "size"), Writing.items.size)
                /\ SameBounds(ReadRange(file', "pixelsize"), InPixels(Writing.items.size))
             ]_configVars
  BY <1>1, <1>2
<1> QED
  BY <1>2, ConfigInvariant, PTL DEF ConfigSpec, RangeSurvives

-----------------------------------------------------------------------------
(* The last of the ranges that stay is the last one afterwards.            *)
LEMMA OlderStay ==
  ASSUME NEW old, NEW new, Tree(old), Tree(new), NEW cut, Kept(cut, old, new),
         NEW key \in Ranges, NEW node,
         \A child \in cut : child.entry.key = key => child.node = node,
         \A k \in DOMAIN new : new[k].entry.key = key => new[k].node # node,
         NEW found,
         found = {i \in DOMAIN old : old[i].entry.key = key /\ old[i].node # node}
  PROVE  SameBounds(ReadRange(Entries(new), key), LastRange(Entries(old), found))
<1> DEFINE there == {k \in DOMAIN Entries(new) : Entries(new)[k].key = key}
<1>1. /\ DOMAIN Entries(new) = DOMAIN new
      /\ \A k \in DOMAIN new : Entries(new)[k] = new[k].entry
      /\ DOMAIN Entries(old) = DOMAIN old
      /\ \A i \in DOMAIN old : Entries(old)[i] = old[i].entry
  BY EntriesAre
<1>2. /\ Len(old) \in Nat /\ DOMAIN old = 1..Len(old)
      /\ Len(new) \in Nat /\ DOMAIN new = 1..Len(new)
      /\ \A i, j \in DOMAIN old : old[i].node = old[j].node => i = j
      /\ \A k, l \in DOMAIN new : new[k].node = new[l].node => k = l
  BY TreeIs
<1>3. /\ \A k \in DOMAIN new : k \in there <=> new[k].entry.key = key
      /\ there \subseteq DOMAIN new
  BY <1>1
<1>4. \A i \in found : i \in DOMAIN old /\ old[i] \notin cut /\ HasChild(new, old[i])
  BY ChildKept DEF HasChild
<1>5. \A k \in there : \E i \in found : old[i] = new[k]
  BY <1>3 DEF Kept
<1> HIDE DEF there
<1>6. CASE found = {}
  <2>1. there = {}
    BY <1>5, <1>6
  <2> QED
    BY <1>6, <2>1 DEF ReadRange, LastRange, SameBounds, there
<1>7. CASE found # {}
  <2> DEFINE i == Max(found)
             k == Max(there)
  <2>1. there # {}
    BY <1>3, <1>4, <1>7 DEF HasChild
  <2>2. i \in found /\ \A x \in found : x <= i
    BY <1>2, <1>4, <1>7, FirstAndLast
  <2>3. k \in there /\ \A x \in there : x <= k
    BY <1>2, <1>3, <2>1, FirstAndLast
  <2> HIDE DEF i, k
  <2>4. PICK h \in found : old[h] = new[k]
    BY <1>5, <2>3
  <2>5. PICK p, q \in DOMAIN new : p <= q /\ new[p] = old[h] /\ new[q] = old[i]
    BY <1>4, <2>2, <2>4 DEF Kept
  <2>6. p = k /\ q \in there
    BY <1>2, <1>3, <2>2, <2>3, <2>4, <2>5
  <2>7. q = k
    BY <1>2, <1>3, <2>3, <2>5, <2>6
  <2>8. Entries(new)[k] = Entries(old)[i]
    BY <1>1, <1>3, <1>4, <2>2, <2>3, <2>5, <2>7
  <2> QED
    BY <1>7, <2>1, <2>8 DEF ReadRange, LastRange, SameBounds, there, i, k
<1> QED
  BY <1>6, <1>7

(* Without a range, the older ones are what is left of them in the file.   *)
LEMMA OlderAreLeft ==
  ASSUME NEW c, Sane(c.items, c.doc), Empty(c.items.size), NEW key \in Ranges
  PROVE  SameBounds(ReadRange(Entries(Applied(c.items, c.doc).doc), key), Older(c, key))
<1> DEFINE s == State(PixelsFollow(c.items), c.doc)
           t == Applied(c.items, c.doc)
           node == c.items[key].node
           cut == OfKeys(Keys \ {key}) \union {child \in Child : child.node = node}
<1>1. PICK s3, s4 :
        /\ s4 = ApplyExcludeRange(s3, "size")
        /\ t = ApplyExcludeRange(s4, "pixelsize")
        /\ Steps(DOMAIN Settings, s, s3)
        /\ Step("size", s3, s4)
        /\ Step("pixelsize", s4, t)
  BY AppliedIs
<1>2. /\ Sane(s.items, s.doc) /\ s.doc = c.doc
      /\ \A k \in Ranges : s.items[k].node = c.items[k].node /\ Empty(s.items[k])
  <2>1. 0 \in Nat /\ Pixels(0) = 0
    BY PixelsOrder
  <2>2. s.items = PixelsFollow(c.items) /\ s.doc = c.doc
    BY DEF State
  <2> DEFINE follow == PixelsFollow(c.items)
  <2>3. /\ Sane(follow, c.doc) /\ follow.size = c.items.size
        /\ follow.pixelsize.from = Pixels(c.items.size.from)
        /\ follow.pixelsize.to = Pixels(c.items.size.to)
        /\ \A k \in Keys : follow[k].node = c.items[k].node
    BY PixelsFollowSane
  <2> HIDE DEF follow
  <2>4. Empty(follow.size) /\ Empty(follow.pixelsize)
    BY <2>1, <2>3 DEF Empty
  <2>5. \A k \in Ranges : follow[k].node = c.items[k].node /\ Empty(follow[k])
    BY <2>3, <2>4 DEF Ranges, Keys
  <2> QED
    BY <2>2, <2>3, <2>5 DEF follow
<1> HIDE DEF s, t, node, cut
<1>3. Ranges \subseteq Keys /\ "size" \in Keys /\ "pixelsize" \in Keys
      /\ DOMAIN Settings \subseteq Keys \ Ranges /\ Ranges = {"size", "pixelsize"}
  BY DEF Ranges, Keys, Settings
<1>4. /\ Sane(s3.items, s3.doc)
      /\ \A k \in Ranges : s3.items[k].node = c.items[k].node /\ Empty(s3.items[k])
  BY <1>1, <1>2, <1>3 DEF Steps, Empty, SameBounds
<1>5. /\ s4.doc = Without(s3.doc, c.items.size.node) /\ Sane(s4.items, s4.doc)
      /\ s4.items.pixelsize = s3.items.pixelsize
  <2>1. s4 = State(Move(s3.items, "size", Null), Without(s3.doc, s3.items.size.node))
    BY <1>1, <1>3, <1>4, RangeStep, DropStep
  <2>2. s3.items \in Items /\ Null \in Int
    BY <1>4 DEF Sane, Null
  <2>3. Move(s3.items, "size", Null)["pixelsize"] = s3.items["pixelsize"]
    BY <1>3, <2>2, MoveIs
  <2> QED
    BY <1>1, <1>3, <1>4, <2>1, <2>3 DEF Step, State
<1>6. t.doc = Without(s4.doc, c.items.pixelsize.node) /\ Sane(t.items, t.doc)
  <2>1. t = State(Move(s4.items, "pixelsize", Null), Without(s4.doc, s4.items.pixelsize.node))
    BY <1>1, <1>3, <1>4, <1>5, RangeStep, DropStep
  <2> QED
    BY <1>1, <1>3, <1>4, <1>5, <2>1 DEF Step, State
<1>7. Tree(c.doc) /\ Tree(s3.doc) /\ Tree(s4.doc) /\ Tree(t.doc)
  BY <1>4, <1>5, <1>6 DEF Sane
<1>8. \A K \in SUBSET (Keys \ {key}) : OfKeys(K) \subseteq cut
  BY DEF OfKeys, cut
<1>9. Kept(cut, c.doc, s3.doc)
  <2>1. OfKeys(DOMAIN Settings) \subseteq cut
    BY <1>3, <1>8
  <2> QED
    BY <1>1, <1>2, <2>1, KeptMore DEF Steps
<1>10. /\ Kept(cut, c.doc, t.doc)
       /\ \A k \in DOMAIN t.doc : t.doc[k].entry.key = key => t.doc[k].node # node
  <2>1. CASE key = "size"
    <3>1. /\ Kept(cut, s3.doc, s4.doc) /\ ~Holds(s4.doc, node)
      <4>1. \A i \in DOMAIN s3.doc : s3.doc[i].node = node => s3.doc[i] \in cut
        BY <1>7, TreeIs DEF cut
      <4> QED
        BY <1>5, <1>7, <2>1, <4>1, WithoutKeeps DEF node
    <3>2. Kept(OfKeys({"pixelsize"}), s4.doc, t.doc)
      BY <1>1 DEF Step
    <3>3. OfKeys({"pixelsize"}) \subseteq cut
      BY <1>3, <1>8, <2>1
    <3>4. Kept(cut, s4.doc, t.doc)
      BY <3>2, <3>3, KeptMore
    <3>5. Kept(cut, c.doc, t.doc)
      BY <1>9, <3>1, <3>4, KeptTwice
    <3> QED
      BY <2>1, <3>1, <3>2, <3>5 DEF Kept, OfKeys, Holds
  <2>2. CASE key = "pixelsize"
    <3>1. /\ Kept(cut, s4.doc, t.doc) /\ ~Holds(t.doc, node)
      <4>1. \A i \in DOMAIN s4.doc : s4.doc[i].node = node => s4.doc[i] \in cut
        BY <1>7, TreeIs DEF cut
      <4> QED
        BY <1>6, <1>7, <2>2, <4>1, WithoutKeeps DEF node
    <3>2. Kept(OfKeys({"size"}), s3.doc, s4.doc)
      BY <1>1 DEF Step
    <3>3. OfKeys({"size"}) \subseteq cut
      BY <1>3, <1>8, <2>2
    <3>4. Kept(cut, s3.doc, s4.doc)
      BY <3>2, <3>3, KeptMore
    <3>5. Kept(cut, c.doc, t.doc)
      BY <1>9, <3>1, <3>4, KeptTwice
    <3> QED
      BY <3>1, <3>5 DEF Holds
  <2> QED
    BY <1>3, <2>1, <2>2
<1>11. \A child \in cut : child.entry.key = key => child.node = node
  BY DEF cut, OfKeys
<1> QED
  BY <1>7, <1>10, <1>11, OlderStay DEF Older, t, node

(* Whether the ranges disagree is a matter of their bounds.                *)
LEMMA SameBoundsAgree ==
  ASSUME NEW a, NEW b, SameBounds(a.size, b.size), SameBounds(a.pixelsize, b.pixelsize)
  PROVE  Disagree(a) <=> Disagree(b)
BY DEF Disagree, SameBounds, Empty, InPixels

(* What was written is read again without anything to apply.               *)
LEMMA ReadBackSettles ==
  ASSUME ConfigInv, JustWritten, ~Replacing(Writing), ~Uncovering(Writing),
         ~Disagree(ReadContents(global)), NEW stamp
  PROVE  ~Loaded(file, stamp).changed
<1> DEFINE anew == ReadContents(file)
           range == Writing.items.size
<1>1. /\ Sane(Writing.items, Writing.doc) /\ Written = Applied(Writing.items, Writing.doc)
      /\ file = Entries(Written.doc) /\ file # NoFile
  BY WritingIs DEF JustWritten
<1>2. Loaded(file, stamp).changed <=> Disagree(anew)
  BY <1>1 DEF Loaded
<1>3. anew.size = ReadRange(file, "size") /\ anew.pixelsize = ReadRange(file, "pixelsize")
  BY DEF ReadContents
<1> HIDE DEF anew
<1>4. CASE ~Empty(range)
  <2>1. SameBounds(anew.size, range) /\ SameBounds(anew.pixelsize, InPixels(range))
    BY <1>1, <1>3, <1>4, RangeIsWritten
  <2>2. ~Disagree(anew)
    BY <1>4, <2>1 DEF Disagree, SameBounds, Empty, InPixels
  <2> QED
    BY <1>2, <2>2
<1>5. CASE Empty(range)
  <2> DEFINE older == [ size |-> Older(Writing, "size"),
                        pixelsize |-> Older(Writing, "pixelsize") ]
  <2>1. ~Disagree(older)
    BY <1>5 DEF Uncovering
  <2>2. older.size = Older(Writing, "size") /\ older.pixelsize = Older(Writing, "pixelsize")
    OBVIOUS
  <2> HIDE DEF older
  <2>3. "size" \in Ranges /\ "pixelsize" \in Ranges
    BY DEF Ranges
  <2>4. SameBounds(ReadRange(file, "size"), Older(Writing, "size"))
    BY <1>1, <1>5, <2>3, OlderAreLeft
  <2>5. SameBounds(ReadRange(file, "pixelsize"), Older(Writing, "pixelsize"))
    BY <1>1, <1>5, <2>3, OlderAreLeft
  <2>6. SameBounds(anew.size, older.size) /\ SameBounds(anew.pixelsize, older.pixelsize)
    BY <1>3, <2>2, <2>4, <2>5
  <2> QED
    BY <1>2, <2>1, <2>6, SameBoundsAgree
<1> QED
  BY <1>4, <1>5

(* The object whose apply() has succeeded has nothing left to apply: the   *)
(* two ranges that it reads again agree, be they the new ones, those that  *)
(* were right already or, without a range, the older ones in the file that *)
(* taking the object's own away left.                                      *)
THEOREM WritingSettles == ConfigSpec => Settles
<1>1. ASSUME ConfigInv, Reset, ~raced, ~Replacing(Writing), ~Uncovering(Writing),
             ~Disagree(ReadContents(global))
      PROVE  ~config'.changed
  <2>1. config' = Loaded(file, version') /\ pc = "reset"
    BY <1>1 DEF Reset
  <2>2. JustWritten \/ NothingToWrite
    BY <1>1, <2>1 DEF ConfigInv
  <2> QED
    BY <1>1, <2>1, <2>2, ReadBackSettles, NothingToWriteIs
<1>2. ASSUME ConfigInv, [ConfigNext]_configVars
      PROVE  [Reset /\ ~raced /\ ~Replacing(Writing) /\ ~Uncovering(Writing)
                /\ ~Disagree(ReadContents(global)) => ~config'.changed]_configVars
  BY <1>1, <1>2
<1> QED
  BY <1>2, ConfigInvariant, PTL DEF ConfigSpec, Settles
=============================================================================
