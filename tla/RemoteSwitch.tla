---------------------------- MODULE RemoteSwitch ----------------------------
(***************************************************************************)
(* A control of a page whose value is kept by a daemon of the session.     *)
(* The pages differ in who reads the value when, and how it is written:    *)
(*                                                                         *)
(*   mouse, dims,   the getter asks the daemon; the daemon's signal makes  *)
(*   background     the binding ask again; every change of the control is  *)
(*                  written back, also one that came from the daemon       *)
(*   touchpad       the getter asks the daemon once; nobody listens to it  *)
(*   notifications  the value is cached, and read again on a signal        *)
(*   power,         the value is cached and nobody listens                 *)
(*   language                                                              *)
(*   brightness     the same, and a timer stands between slider and call   *)
(*   dock, lid      the value is read from the daemon's settings file      *)
(*   battery        the same, and written back at once                     *)
(*                                                                         *)
(* A call waits for its answer or not.  Asking the daemon always does, and *)
(* the answer comes after the calls the daemon was sent before.            *)
(***************************************************************************)
EXTENDS Naturals, Sequences, SequencesExt

CONSTANTS
  Kinds,        \* the pages, among those above
  MaxMessages   \* bound on calls and signals on their way together

Attentive == {"mouse", "dims", "background"}
Cached == {"power", "language", "brightness"}
Stored == {"dock", "lid"}
Echoing == Attentive \union {"touchpad", "battery"}
Blocking == {"dims", "background", "dock", "battery"}
WithMember == {"notifications", "power", "language", "dock", "lid"}

ASSUME SwitchAssumption ==
  /\ Kinds \subseteq Attentive \union Cached \union Stored \union Echoing \union {"notifications"}
  /\ MaxMessages \in Nat

Values == {"off", "on"}
Off == "off"
None == "none"

VARIABLES
  kind,         \* the page
  phase,        \* "closed", "reading" in the constructor, or "open"
  member,       \* m_doNotDisturb, m_mode, m_dockVisibility and the like
  shown,        \* the control
  timer,        \* brightnessTimer is running
  requests,     \* calls of the setter on their way to the daemon
  signals,      \* the daemon's signals on their way to the page: how many
  listening,    \* the bus routes the daemon's signals to the page
  value,        \* the daemon's value
  stored,       \* the same in its settings file, for the pages that read that
  chosen,       \* history: the user's last choice, if nobody changed the value since
  missed        \* history: the value changed and the page was not told

page == <<kind, phase, member, shown, timer, listening>>
daemon == <<value, stored>>
history == <<chosen, missed>>
vars == <<page, requests, signals, daemon, history>>
-----------------------------------------------------------------------------
Room == Len(requests) + signals < MaxMessages

(* The setter's call.                                                      *)
Send(new) == requests' = Append(requests, new)

(* A page whose setter waits for the answer does nothing until it is there. *)
Blocked == kind \in Blocking /\ requests # <<>>

(* QDBusInterface::property: the answer comes after all calls sent before. *)
CanRead == requests = <<>>

(* onCheckedChanged, onCurrentIndexChanged: what changed is written back.  *)
WriteBack(new) == IF new # shown THEN Send(new) ELSE UNCHANGED requests

(* The settings file does not have the daemon's last word.                 *)
Stale == stored # value \/ requests # <<>>

Init ==
  /\ kind \in Kinds
  /\ phase = "closed"
  /\ member = Off /\ shown = Off /\ timer = FALSE
  /\ requests = <<>> /\ signals = 0 /\ listening = FALSE
  /\ value \in Values /\ stored = value
  /\ chosen = None /\ missed = FALSE

(* The signals are connected, then the binding reads: a switch that comes  *)
(* up set has changed, and is written back.                                *)
OpenAttentive ==
  /\ kind \in Attentive /\ phase = "closed" /\ CanRead
  /\ phase' = "open" /\ listening' = TRUE
  /\ shown' = value
  /\ WriteBack(value)
  /\ UNCHANGED <<kind, member, timer, signals, daemon, history>>

(* Component.onCompleted sets the switch, which is written back.           *)
OpenTouchpad ==
  /\ kind = "touchpad" /\ phase = "closed" /\ CanRead
  /\ phase' = "open"
  /\ shown' = value
  /\ WriteBack(value)
  /\ UNCHANGED <<kind, member, timer, listening, signals, daemon, history>>

(* Notifications reads first and connects the signal after that.           *)
ReadNotifications ==
  /\ kind = "notifications" /\ phase = "closed" /\ CanRead
  /\ phase' = "reading"
  /\ member' = value
  /\ UNCHANGED <<kind, shown, timer, listening, requests, signals, daemon, history>>
OpenNotifications ==
  /\ kind = "notifications" /\ phase = "reading"
  /\ phase' = "open" /\ listening' = TRUE
  /\ shown' = member
  /\ UNCHANGED <<kind, member, timer, requests, signals, daemon, history>>

(* The constructor reads the value into its member.  In the variant the    *)
(* member keeps the -1 it was initialised with.                            *)
OpenCachedUnread ==
  /\ kind \in Cached /\ phase = "closed" /\ CanRead
  /\ phase' = "open"
  /\ member' = None /\ shown' = Off
  /\ UNCHANGED <<kind, timer, listening, requests, signals, daemon, history>>
OpenCached ==
  /\ kind \in Cached /\ phase = "closed" /\ CanRead
  /\ phase' = "open"
  /\ member' = value /\ shown' = value
  /\ UNCHANGED <<kind, timer, listening, requests, signals, daemon, history>>

(* A settings file has no order with the calls, and it may lag behind.     *)
OpenStored ==
  /\ kind \in Stored /\ phase = "closed"
  /\ phase' = "open"
  /\ member' = stored /\ shown' = stored
  /\ missed' = Stale
  /\ UNCHANGED <<kind, timer, listening, requests, signals, daemon, chosen>>

(* Here a value that is stale is written back, over what the user chose.   *)
OpenBattery ==
  /\ kind = "battery" /\ phase = "closed"
  /\ phase' = "open"
  /\ shown' = stored
  /\ WriteBack(stored)
  /\ missed' = Stale
  /\ chosen' = IF Stale THEN None ELSE chosen
  /\ UNCHANGED <<kind, member, timer, listening, signals, daemon>>

(* The page is left, and its timer with it: calls it sent still reach the  *)
(* daemon, a choice that waits for the timer is lost.                      *)
ClosePage ==
  /\ phase = "open" /\ ~Blocked
  /\ phase' = "closed" /\ listening' = FALSE
  /\ member' = Off /\ shown' = Off /\ timer' = FALSE
  /\ signals' = 0
  /\ chosen' = IF timer THEN None ELSE chosen
  /\ missed' = FALSE
  /\ UNCHANGED <<kind, requests, daemon>>
-----------------------------------------------------------------------------
(* The user, whose choice overwrites a value the page was not told of.     *)
Choose(new) ==
  /\ phase = "open" /\ ~Blocked /\ Room
  /\ shown' = new
  /\ chosen' = new /\ missed' = FALSE

ClickEchoing ==
  /\ kind \in Echoing
  /\ \E new \in Values \ {shown} : Choose(new) /\ WriteBack(new)
  /\ UNCHANGED <<kind, phase, member, timer, listening, signals, daemon>>

(* The setter caches the new value before it emits the signal that the     *)
(* control is bound to; entries that are selected already may be clicked.  *)
ClickWithMember ==
  /\ kind \in WithMember
  /\ \E new \in Values :
       /\ new = member => kind = "language"
       /\ Choose(new) /\ member' = new /\ Send(new)
  /\ UNCHANGED <<kind, phase, timer, listening, signals, daemon>>

(* The slider starts the timer, unless it runs; then the value of that     *)
(* time is sent.  The variant sends the value Brightness has read.         *)
MoveSlider ==
  /\ kind = "brightness"
  /\ \E new \in Values \ {shown} : Choose(new)
  /\ timer' = TRUE
  /\ UNCHANGED <<kind, phase, member, listening, requests, signals, daemon>>

TriggerWithMember ==
  /\ timer /\ timer' = FALSE
  /\ Send(member)
  /\ UNCHANGED <<kind, phase, member, shown, listening, signals, daemon, history>>
Trigger ==
  /\ timer /\ timer' = FALSE
  /\ Send(shown)
  /\ UNCHANGED <<kind, phase, member, shown, listening, signals, daemon, history>>
-----------------------------------------------------------------------------
(* The daemon's signal has no argument: the page reads the value.  In the  *)
(* variant it writes back whatever it reads.                               *)
ReadAgainEchoed ==
  /\ kind \in Attentive /\ phase = "open" /\ signals > 0 /\ CanRead
  /\ signals' = signals - 1
  /\ shown' = value
  /\ Send(value)
  /\ UNCHANGED <<kind, phase, member, timer, listening, daemon, history>>
ReadAgain ==
  /\ kind \in Attentive /\ phase = "open" /\ signals > 0 /\ CanRead
  /\ signals' = signals - 1
  /\ shown' = value
  /\ WriteBack(value)
  /\ UNCHANGED <<kind, phase, member, timer, listening, daemon, history>>

(* onDBusDoNotDisturbChanged().  The variant does not read again.          *)
NotificationsChangedBlindly ==
  /\ kind = "notifications" /\ phase = "open" /\ signals > 0 /\ CanRead
  /\ signals' = signals - 1
  /\ shown' = member
  /\ UNCHANGED <<kind, phase, member, timer, listening, requests, daemon, history>>
NotificationsChanged ==
  /\ kind = "notifications" /\ phase = "open" /\ signals > 0 /\ CanRead
  /\ signals' = signals - 1
  /\ member' = value /\ shown' = value
  /\ missed' = FALSE
  /\ UNCHANGED <<kind, phase, timer, listening, requests, daemon, chosen>>
-----------------------------------------------------------------------------
(* Outside src/: the daemon and other programs.                            *)
Announce == signals' = IF listening THEN signals + 1 ELSE signals

(* Only some pages read the file of their daemon.                          *)
Keep(new) ==
  /\ value' = new
  /\ stored' = IF kind \in Stored \union {"battery"} THEN stored ELSE new

(* A call is carried out; one that changes nothing may be announced too.   *)
Handle ==
  /\ requests # <<>>
  /\ requests' = Tail(requests)
  /\ Keep(Head(requests))
  /\ \/ Announce
     \/ value' = value /\ UNCHANGED signals
  /\ UNCHANGED <<page, history>>

OtherSets ==
  /\ Room
  /\ \E new \in Values \ {value} : Keep(new)
  /\ Announce
  /\ chosen' = None
  /\ missed' = (phase # "closed" /\ ~listening)
  /\ UNCHANGED <<page, requests>>

SaveFile ==
  /\ stored # value
  /\ stored' = value
  /\ UNCHANGED <<page, requests, signals, value, history>>
-----------------------------------------------------------------------------
Open ==
  \/ OpenAttentive \/ OpenTouchpad \/ ReadNotifications \/ OpenNotifications
  \/ OpenCached \/ OpenStored \/ OpenBattery

Click == ClickEchoing \/ ClickWithMember \/ MoveSlider

Changed == ReadAgain \/ NotificationsChanged

Next ==
  Open \/ ClosePage \/ Click \/ Trigger \/ Changed \/ Handle \/ OtherSets \/ SaveFile

Spec == Init /\ [][Next]_vars

(* The event loop runs and the daemon works through its calls.             *)
FairSpec ==
  /\ Spec
  /\ WF_vars(Handle) /\ WF_vars(SaveFile)
  /\ WF_vars(Trigger) /\ WF_vars(Changed) /\ WF_vars(OpenNotifications)
-----------------------------------------------------------------------------
TypeOK ==
  /\ kind \in Kinds
  /\ phase \in {"closed", "reading", "open"}
  /\ member \in Values /\ shown \in Values /\ timer \in BOOLEAN
  /\ value \in Values /\ stored \in Values
  /\ requests \in Seq(Values) /\ signals \in Nat
  /\ listening \in BOOLEAN /\ missed \in BOOLEAN
  /\ chosen \in Values \union {None}

AllSent == requests = <<>> /\ ~timer

(* With nothing on its way the control shows the daemon's value, unless it *)
(* was changed by others behind the back of a page that does not listen    *)
(* (or did not yet, in the constructor of Notifications), or the page was  *)
(* opened before the daemon's settings file had its last value.            *)
ShownIsValue ==
  phase = "open" /\ AllSent /\ signals = 0 /\ ~missed =>
    shown = value /\ (kind \in WithMember => member = value)

(* What the user chose last is what the daemon ends up with, however fast  *)
(* the choices followed each other, whatever older signals and written-    *)
(* back values were on their way, and also when the page is left and       *)
(* opened again; and a page that could know of it shows it.                *)
ChoiceIsKept ==
  chosen # None =>
    /\ AllSent => value = chosen
    /\ phase = "open" /\ ~missed => shown = chosen

(* The inductive invariant behind both.  Outlook is the value the daemon   *)
(* will have when all that was sent, or is about to be sent, has arrived:  *)
(* that is the user's last choice; and a page whose control shows another  *)
(* value has a signal coming, or is one that could not know.               *)
Outlook ==
  IF timer THEN shown ELSE IF requests = <<>> THEN value ELSE Last(requests)

TimerHasSlider == timer => kind = "brightness" /\ phase = "open"

ListensWhileOpen == listening => phase = "open"

MemberIsShown == kind \in WithMember /\ phase = "open" => member = shown

ReadingIsCurrent ==
  phase = "reading" => requests = <<>> /\ (~missed => member = value)

BehindHasSignal == phase = "open" /\ ~missed /\ shown # Outlook => signals > 0

ChoiceIsOutlook ==
  chosen # None => /\ Outlook = chosen
                   /\ phase = "open" /\ ~missed => shown = chosen

SwitchInv ==
  /\ TimerHasSlider /\ ListensWhileOpen /\ MemberIsShown /\ ReadingIsCurrent
  /\ BehindHasSignal /\ ChoiceIsOutlook

(* Writing back what came from the daemon ends: once user and others rest, *)
(* page and daemon stop talking.                                           *)
EchoEnds ==
  <>[][Changed \/ Handle \/ Trigger \/ SaveFile]_vars
    => <>[](AllSent /\ (listening => signals = 0))
=============================================================================
