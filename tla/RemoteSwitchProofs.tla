------------------------- MODULE RemoteSwitchProofs -------------------------
(***************************************************************************)
(* Proofs about the controls of RemoteSwitch, for any set of pages and any *)
(* number of calls and signals on their way.                               *)
(***************************************************************************)
EXTENDS RemoteSwitch, SequenceTheorems, TLAPS

(* A call that is sent is the last one.                                    *)
LEMMA SentIsLast ==
  ASSUME requests \in Seq(Values), NEW new \in Values, Send(new)
  PROVE  /\ requests' \in Seq(Values) /\ requests' # <<>>
         /\ Last(requests') = new
BY DEF Send, Last

(* Carrying out the first call leaves the last one alone, unless it was    *)
(* that one.                                                               *)
LEMMA TailKeepsLast ==
  ASSUME NEW s \in Seq(Values), s # <<>>
  PROVE  /\ Tail(s) \in Seq(Values) /\ Head(s) \in Values
         /\ (IF Tail(s) = <<>> THEN Head(s) ELSE Last(Tail(s))) = Last(s)
<1>1. /\ Len(s) \in Nat \ {0} /\ Tail(s) \in Seq(Values) /\ Head(s) = s[1]
      /\ Len(Tail(s)) = Len(s) - 1 /\ s[1] \in Values
  BY EmptySeq
<1>2. CASE Tail(s) = <<>>
  <2>1. Len(s) = 1
    BY <1>1, <1>2, EmptySeq
  <2> QED
    BY <1>1, <1>2, <2>1 DEF Last
<1>3. CASE Tail(s) # <<>>
  <2>1. Len(s) - 1 \in 1..Len(Tail(s))
    BY <1>1, <1>3, EmptySeq
  <2>2. Tail(s)[Len(s) - 1] = s[Len(s)]
    BY <1>1, <2>1
  <2> QED
    BY <1>1, <1>3, <2>2 DEF Last
<1> QED
  BY <1>2, <1>3

LEMMA TypeInitially == Init => TypeOK
<1> SUFFICES ASSUME Init PROVE TypeOK
  OBVIOUS
<1>1. requests \in Seq(Values)
  BY EmptySeq DEF Init
<1> QED
  BY <1>1 DEF Init, TypeOK, Values, Off, None

LEMMA TypeStays ==
  ASSUME TypeOK, [Next]_vars
  PROVE  TypeOK'
<1> USE DEF TypeOK, page, daemon, history
<1> DEFINE Sends == \E new \in Values : Send(new)
<1>1. Off \in Values /\ (Sends => requests' \in Seq(Values))
  BY SentIsLast DEF Off, Values
<1>2. \A new \in Values : WriteBack(new) => Sends \/ UNCHANGED requests
  BY DEF WriteBack
<1> HIDE DEF Sends
<1>3. CASE OpenAttentive
  BY <1>1, <1>2, <1>3 DEF OpenAttentive
<1>4. CASE OpenTouchpad
  BY <1>1, <1>2, <1>4 DEF OpenTouchpad
<1>5. CASE ReadNotifications \/ OpenNotifications
  BY <1>5 DEF ReadNotifications, OpenNotifications
<1>6. CASE OpenCached
  BY <1>6 DEF OpenCached
<1>7. CASE OpenStored
  BY <1>7 DEF OpenStored, Stale
<1>8. CASE OpenBattery
  BY <1>1, <1>2, <1>8 DEF OpenBattery, Stale
<1>9. CASE ClosePage
  BY <1>1, <1>9 DEF ClosePage
<1>10. CASE ClickEchoing
  BY <1>1, <1>2, <1>10 DEF ClickEchoing, Choose
<1>11. CASE ClickWithMember
  BY <1>1, <1>11 DEF ClickWithMember, Choose, Sends
<1>12. CASE MoveSlider
  BY <1>12 DEF MoveSlider, Choose
<1>13. CASE Trigger
  BY <1>1, <1>13 DEF Trigger, Sends
<1>14. CASE ReadAgain
  BY <1>1, <1>2, <1>14 DEF ReadAgain
<1>15. CASE NotificationsChanged
  <2>1. /\ signals' \in Nat /\ member' \in Values /\ shown' \in Values
        /\ kind' \in Kinds /\ requests' \in Seq(Values)
    BY <1>15 DEF NotificationsChanged
  <2>2. missed' \in BOOLEAN
    BY <1>15 DEF NotificationsChanged
  <2> QED
    BY <1>15, <2>1, <2>2 DEF NotificationsChanged
<1>16. CASE Handle
  <2>0. requests \in Seq(Values) /\ requests # <<>> /\ requests' = Tail(requests)
    BY <1>16 DEF Handle
  <2>1. requests' \in Seq(Values) /\ Head(requests) \in Values
    BY <2>0, TailKeepsLast
  <2>2. value' \in Values /\ stored' \in Values
    BY <1>16, <2>1 DEF Handle, Keep
  <2>3. signals' \in Nat
    BY <1>16 DEF Handle, Announce
  <2> QED
    BY <1>16, <2>1, <2>2, <2>3 DEF Handle
<1>17. CASE OtherSets
  BY <1>17 DEF OtherSets, Keep, Announce
<1>18. CASE SaveFile
  BY <1>18 DEF SaveFile
<1>19. CASE UNCHANGED vars
  BY <1>19 DEF vars
<1> QED
  BY <1>3, <1>4, <1>5, <1>6, <1>7, <1>8, <1>9, <1>10, <1>11, <1>12, <1>13, <1>14,
     <1>15, <1>16, <1>17, <1>18, <1>19 DEF Next, Open, Click, Changed

(* The control, the calls and what the daemon and the history keep have    *)
(* their types, whatever the page and the daemon do: TypeOK.               *)
THEOREM TypeCorrect == Spec => []TypeOK
BY TypeInitially, TypeStays, PTL DEF Spec
-----------------------------------------------------------------------------
(* What a step does to the value the daemon will have.                     *)
LEMMA OutlookAfterSend ==
  ASSUME TypeOK, NEW new \in Values, Send(new), ~timer'
  PROVE  Outlook' = new
<1>1. requests' # <<>> /\ Last(requests') = new
  BY SentIsLast DEF TypeOK
<1> QED
  BY <1>1 DEF Outlook, Last

LEMMA OutlookAfterWriteBack ==
  ASSUME TypeOK, NEW new \in Values, WriteBack(new), UNCHANGED <<timer, value>>, ~timer
  PROVE  Outlook' = IF new # shown THEN new ELSE Outlook
<1>1. CASE new # shown
  BY <1>1, OutlookAfterSend DEF WriteBack
<1>2. CASE new = shown
  BY <1>2 DEF WriteBack, Outlook, Last
<1> QED
  BY <1>1, <1>2

(* Which of the pages has which parts.                                     *)
LEMMA PageKinds ==
  /\ "brightness" \notin Attentive \union Echoing \union Stored \union WithMember
  /\ (Attentive \union Echoing) \cap WithMember = {}
  /\ "notifications" \notin Attentive \union Cached \union Stored \union Echoing
  /\ "touchpad" \in Echoing /\ "battery" \in Echoing
BY DEF Attentive, Cached, Stored, Echoing, WithMember

LEMMA SwitchInitially == Init => SwitchInv
BY DEF Init, SwitchInv, TimerHasSlider, ListensWhileOpen, MemberIsShown, ReadingIsCurrent,
       BehindHasSignal, ChoiceIsOutlook

(* Pages that write back what they read.                                   *)
LEMMA EchoSteps ==
  ASSUME TypeOK, SwitchInv,
         OpenAttentive \/ OpenTouchpad \/ OpenBattery \/ ClickEchoing \/ ReadAgain
  PROVE  SwitchInv'
<1> USE DEF SwitchInv, TimerHasSlider, ListensWhileOpen, MemberIsShown, ReadingIsCurrent,
            BehindHasSignal, ChoiceIsOutlook, page, daemon, history
<1>1. kind \in Attentive \union Echoing /\ UNCHANGED <<kind, timer, value>> /\ phase' = "open"
  BY PageKinds DEF OpenAttentive, OpenTouchpad, OpenBattery, ClickEchoing, ReadAgain, Choose
<1>2. ~timer /\ kind \notin WithMember
  BY <1>1, PageKinds
<1>3. shown' \in Values /\ WriteBack(shown')
  BY DEF OpenAttentive, OpenTouchpad, OpenBattery, ClickEchoing, ReadAgain, Choose, TypeOK
<1>4. Outlook' = IF shown' # shown THEN shown' ELSE Outlook
  BY <1>1, <1>2, <1>3, OutlookAfterWriteBack
<1>5. requests = <<>> => Outlook = value
  BY <1>2 DEF Outlook
<1>6. CASE OpenAttentive \/ OpenTouchpad \/ ReadAgain
  <2>1. shown' = value /\ Outlook = value /\ UNCHANGED <<chosen, missed>>
    BY <1>5, <1>6 DEF OpenAttentive, OpenTouchpad, ReadAgain, CanRead
  <2>2. Outlook' = value
    BY <1>4, <2>1
  <2> QED
    BY <1>1, <1>2, <2>1, <2>2
<1>7. CASE OpenBattery
  <2>1. CASE Stale
    <3>1. missed' /\ chosen' = None
      BY <1>7, <2>1 DEF OpenBattery
    <3> QED
      BY <1>1, <1>2, <1>7, <3>1 DEF OpenBattery
  <2>2. CASE ~Stale
    <3>1. chosen' = chosen /\ shown' = value /\ requests = <<>>
      BY <1>7, <2>2 DEF OpenBattery, Stale
    <3>2. Outlook = value /\ Outlook' = value
      BY <1>4, <1>5, <3>1
    <3>3. phase = "closed" /\ listening' = listening
      BY <1>7 DEF OpenBattery
    <3> QED
      BY <1>1, <1>2, <3>1, <3>2, <3>3
  <2> QED
    BY <2>1, <2>2
<1>8. CASE ClickEchoing
  BY <1>1, <1>2, <1>4, <1>8 DEF ClickEchoing, Choose
<1> QED
  BY <1>6, <1>7, <1>8

(* Pages that read once, or from a file, into a member.                    *)
LEMMA OpenSteps ==
  ASSUME TypeOK, SwitchInv,
         ReadNotifications \/ OpenNotifications \/ OpenCached \/ OpenStored
  PROVE  SwitchInv'
<1> USE DEF SwitchInv, TimerHasSlider, ListensWhileOpen, MemberIsShown, ReadingIsCurrent,
            BehindHasSignal, ChoiceIsOutlook, page, daemon, history
<1>1. phase # "open" /\ ~timer /\ UNCHANGED <<kind, timer, requests, value, chosen>>
  BY DEF ReadNotifications, OpenNotifications, OpenCached, OpenStored
<1>2. Outlook' = Outlook /\ (requests = <<>> => Outlook = value)
  BY <1>1 DEF Outlook, Last
<1>3. CASE ReadNotifications
  BY <1>1, <1>2, <1>3 DEF ReadNotifications, CanRead
<1>4. CASE OpenNotifications
  BY <1>1, <1>2, <1>4 DEF OpenNotifications
<1>5. CASE OpenCached
  BY <1>1, <1>2, <1>5 DEF OpenCached, CanRead
<1>6. CASE OpenStored
  <2>1. shown' = stored /\ member' = stored /\ phase' = "open" /\ listening' = listening
    BY <1>6 DEF OpenStored
  <2>2. ~missed' => stored = value /\ requests = <<>>
    BY <1>6 DEF OpenStored, Stale
  <2> QED
    BY <1>1, <1>2, <2>1, <2>2
<1> QED
  BY <1>3, <1>4, <1>5, <1>6

(* The other steps of page and user.                                       *)
LEMMA PageSteps ==
  ASSUME TypeOK, SwitchInv,
         ClosePage \/ ClickWithMember \/ MoveSlider \/ Trigger \/ NotificationsChanged
  PROVE  SwitchInv'
<1> USE DEF SwitchInv, TimerHasSlider, ListensWhileOpen, MemberIsShown, ReadingIsCurrent,
            BehindHasSignal, ChoiceIsOutlook, page, daemon, history
<1>1. CASE ClosePage
  <2>1. ~timer => Outlook' = Outlook
    BY <1>1 DEF ClosePage, Outlook, Last
  <2> QED
    BY <1>1, <2>1 DEF ClosePage
<1>2. CASE ClickWithMember
  <2>1. kind \in WithMember /\ kind # "brightness" /\ ~timer /\ ~timer'
    BY <1>2, PageKinds DEF ClickWithMember
  <2>2. PICK new \in Values : /\ Send(new) /\ member' = new /\ shown' = new
                              /\ chosen' = new /\ missed' = FALSE
                              /\ UNCHANGED <<kind, phase, timer>> /\ phase = "open"
    BY <1>2 DEF ClickWithMember, Choose
  <2>3. Outlook' = new
    BY <2>1, <2>2, OutlookAfterSend
  <2> QED
    BY <2>1, <2>2, <2>3
<1>3. CASE MoveSlider
  <2>1. Outlook' = shown' /\ kind \notin WithMember
    BY <1>3, PageKinds DEF MoveSlider, Outlook
  <2> QED
    BY <1>3, <2>1 DEF MoveSlider, Choose
<1>4. CASE Trigger
  <2>1. Outlook' = shown /\ Outlook = shown
    BY <1>4, OutlookAfterSend DEF Trigger, TypeOK, Outlook
  <2> QED
    BY <1>4, <2>1 DEF Trigger
<1>5. CASE NotificationsChanged
  <2>1. ~timer /\ requests = <<>>
    BY <1>5, PageKinds DEF NotificationsChanged, CanRead
  <2>2. Outlook' = value /\ Outlook = value
    BY <1>5, <2>1 DEF NotificationsChanged, Outlook
  <2> QED
    BY <1>5, <2>1, <2>2 DEF NotificationsChanged
<1> QED
  BY <1>1, <1>2, <1>3, <1>4, <1>5

(* The daemon and other programs, and no step.                             *)
LEMMA DaemonSteps ==
  ASSUME TypeOK, SwitchInv, Handle \/ OtherSets \/ SaveFile \/ UNCHANGED vars
  PROVE  SwitchInv'
<1> USE DEF SwitchInv, TimerHasSlider, ListensWhileOpen, MemberIsShown, ReadingIsCurrent,
            BehindHasSignal, ChoiceIsOutlook, page, daemon, history
<1>1. CASE Handle
  <2>1. Outlook' = Outlook
    <3>1. requests \in Seq(Values) /\ requests # <<>> /\ requests' = Tail(requests)
          /\ value' = Head(requests) /\ UNCHANGED <<timer, shown>>
      BY <1>1 DEF Handle, Keep, TypeOK
    <3> QED
      BY <3>1, TailKeepsLast DEF Outlook, Last
  <2>2. signals' = signals \/ signals' = signals + 1
    BY <1>1 DEF Handle, Announce
  <2> QED
    BY <1>1, <2>1, <2>2 DEF Handle, TypeOK
<1>2. CASE OtherSets
  <2>1. listening => signals' > 0
    BY <1>2 DEF OtherSets, Announce, TypeOK
  <2>2. ~missed' => phase = "closed" \/ listening
    BY <1>2 DEF OtherSets
  <2>3. chosen' = None /\ UNCHANGED <<page, requests>>
    BY <1>2 DEF OtherSets
  <2> QED
    BY <2>1, <2>2, <2>3
<1>3. CASE SaveFile
  BY <1>3 DEF SaveFile, Outlook, Last
<1>4. CASE UNCHANGED vars
  BY <1>4 DEF vars, Outlook, Last
<1> QED
  BY <1>1, <1>2, <1>3, <1>4

THEOREM SwitchAlways == Spec => []SwitchInv
<1>1. TypeOK /\ SwitchInv /\ [Next]_vars => SwitchInv'
  BY EchoSteps, OpenSteps, PageSteps, DaemonSteps DEF Next, Open, Click, Changed
<1> QED
  BY SwitchInitially, <1>1, TypeCorrect, PTL DEF Spec

(* With nothing on its way the control shows the daemon's value, unless    *)
(* the page could not know it: ShownIsValue.                               *)
THEOREM ControlTells == Spec => []ShownIsValue
<1>1. TypeOK /\ SwitchInv => ShownIsValue
  BY DEF TypeOK, SwitchInv, BehindHasSignal, MemberIsShown, Outlook, ShownIsValue, AllSent
<1> QED
  BY <1>1, SwitchAlways, TypeCorrect, PTL

(* What the user chose last is what the daemon ends up with and what a     *)
(* page that could know of it shows: ChoiceIsKept.                         *)
THEOREM ChoiceSurvives == Spec => []ChoiceIsKept
<1>1. SwitchInv => ChoiceIsKept
  BY DEF SwitchInv, ChoiceIsOutlook, Outlook, ChoiceIsKept, AllSent
<1> QED
  BY <1>1, SwitchAlways, PTL
=============================================================================
