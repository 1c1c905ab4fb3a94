---------------------------- MODULE NetworkProxy ----------------------------
(***************************************************************************)
(* The Proxy page: the form of qml/Proxy/Main.qml, NetworkProxy            *)
(* (networkproxy.cpp) with its settings file, and the session daemon that  *)
(* applies the file when it is told to.                                    *)
(*                                                                         *)
(* A setter stores its value in QSettings, which writes the file when the  *)
(* event loop comes round, and starts a timer of 50 ms of its own; each    *)
(* timer sends one call to the session.  The timers belong to the object   *)
(* and die with the page.                                                  *)
(***************************************************************************)
EXTENDS Naturals, FiniteSets

CONSTANTS
  Script,       \* the key of the configuration script
  Fields,       \* the keys of the text fields of the manual configuration
  Follows,      \* FTP field -> HTTP field, for "also use this proxy for FTP"
  Texts,        \* what a text field can hold
  NoText,       \* the empty text
  MaxUpdates    \* bound on timers and calls on their way together

Keys == Fields \union {Script}
Followers == DOMAIN Follows

ASSUME ProxyAssumption ==
  /\ Script \notin Fields
  /\ IsFiniteSet(Fields)
  /\ Followers \subseteq Fields
  /\ \A f \in Followers : Follows[f] \in Fields \ Followers
  /\ NoText \in Texts
  /\ MaxUpdates \in Nat

Config == [flag: 0..2, same: BOOLEAN, text: [Keys -> Texts]]

VARIABLES
  open,         \* the page is on the stack
  member,       \* the members of NetworkProxy, equal to what QSettings holds
  disk,         \* the settings file
  form,         \* check box and text fields of the page
  needSave,     \* proxyItem.needSave
  timers,       \* timers of delayUpdateProxy that run
  calls,        \* updateNetworkProxy calls the session has not handled
  sessionUp,    \* com.cutefish.Session has an owner
  applied,      \* the configuration the session applied last
  lost          \* history: timers died with the page and nothing was sent since

vars == <<open, member, disk, form, needSave, timers, calls, sessionUp, applied, lost>>
-----------------------------------------------------------------------------
(* With the check box set, an FTP field shows what its HTTP field holds.   *)
Followed(text, same) ==
  [k \in Keys |-> IF same /\ k \in Followers THEN text[Follows[k]] ELSE text[k]]

(* How many setters of the page find their value changed.                  *)
Changes(new) ==
  Cardinality({k \in Keys : new.text[k] # member.text[k]})
    + (IF new.same # member.same THEN 1 ELSE 0)
    + (IF new.flag # member.flag THEN 1 ELSE 0)

(* The setters: each that changes its member stores it and starts a timer. *)
(* The first variant starts none; the second sends the call at once, when  *)
(* QSettings has not yet written the file.                                 *)
StoreSilently(new) ==
  /\ timers + calls + Changes(new) <= MaxUpdates
  /\ member' = new
  /\ UNCHANGED <<disk, timers, calls, sessionUp, applied, lost>>
StoreAndCall(new) ==
  /\ timers + calls + Changes(new) <= MaxUpdates
  /\ member' = new
  /\ calls' = IF sessionUp THEN calls + Changes(new) ELSE calls
  /\ UNCHANGED <<disk, timers, sessionUp, applied, lost>>
Store(new) ==
  /\ timers + calls + Changes(new) <= MaxUpdates
  /\ member' = new
  /\ timers' = timers + Changes(new)
  /\ UNCHANGED <<disk, calls, sessionUp, applied, lost>>

Unset == [flag |-> 0, same |-> FALSE, text |-> [k \in Keys |-> NoText]]

(* The file may hold any flag, 1 too, which the page no longer offers.      *)
Init ==
  /\ open = FALSE
  /\ \E flag \in 0..2 : disk = [Unset EXCEPT !.flag = flag]
  /\ member = disk /\ applied = disk
  /\ form = [same |-> FALSE, text |-> Unset.text]
  /\ needSave = FALSE
  /\ timers = 0 /\ calls = 0
  /\ sessionUp = TRUE
  /\ lost = FALSE

(* The constructor reads the file and the fields take its values; setting  *)
(* a text is a change to a field.                                          *)
OpenPage ==
  /\ ~open
  /\ open' = TRUE
  /\ member' = disk
  /\ form' = [same |-> disk.same, text |-> Followed(disk.text, disk.same)]
  /\ needSave' = (disk.text # Unset.text)
  /\ UNCHANGED <<disk, timers, calls, sessionUp, applied, lost>>

(* ~QSettings writes what is not yet in the file; the timers' receiver is  *)
(* gone.                                                                   *)
ClosePage ==
  /\ open
  /\ open' = FALSE
  /\ disk' = member
  /\ timers' = 0
  /\ lost' = (lost \/ timers > 0)
  /\ form' = [same |-> FALSE, text |-> Unset.text]
  /\ needSave' = FALSE
  /\ UNCHANGED <<member, calls, sessionUp, applied>>

(* A radio button; the one for the script, flag 1, is invisible.  The      *)
(* variant counts the buttons from one.                                    *)
ClickFlagFromOne(flag) ==
  /\ open
  /\ flag # member.flag
  /\ Store([member EXCEPT !.flag = flag + 1])
  /\ UNCHANGED <<open, form, needSave>>
ClickFlag(flag) ==
  /\ open
  /\ flag # member.flag
  /\ Store([member EXCEPT !.flag = flag])
  /\ UNCHANGED <<open, form, needSave>>

(* The fields of the manual configuration are shown for flag 2, that of    *)
(* the script for flag 1; a field that follows another is disabled.        *)
EditText(k, text) ==
  /\ open
  /\ \/ k = Script /\ member.flag = 1
     \/ k \in Fields /\ member.flag = 2
  /\ ~(form.same /\ k \in Followers)
  /\ text # form.text[k]
  /\ form' = [form EXCEPT !.text = Followed([form.text EXCEPT ![k] = text], form.same)]
  /\ needSave' = TRUE
  /\ UNCHANGED <<open, member, disk, timers, calls, sessionUp, applied, lost>>

(* The check box: set, the Bindings take over the FTP fields; cleared,     *)
(* they let go.  Neither gives back what it found: one has RestoreNone,    *)
(* and RestoreValue restores a value, where the field had a binding.  In   *)
(* the variant the click is not noticed.                                   *)
ToggleSameUnnoticed ==
  /\ open /\ member.flag = 2
  /\ form' = [same |-> ~form.same, text |-> Followed(form.text, ~form.same)]
  /\ UNCHANGED <<open, member, disk, needSave, timers, calls, sessionUp, applied, lost>>
ToggleSame ==
  /\ open /\ member.flag = 2
  /\ form' = [same |-> ~form.same, text |-> Followed(form.text, ~form.same)]
  /\ needSave' = TRUE
  /\ UNCHANGED <<open, member, disk, timers, calls, sessionUp, applied, lost>>

(* The Save button is shown while needSave, but within proxyItem, which    *)
(* the radio button "No Proxy" hides.                                      *)
SaveShown == open /\ member.flag # 0 /\ needSave

(* Every field is handed to its setter.  The variant forgets the disabled  *)
(* FTP fields.                                                             *)
SaveWithoutFollowers ==
  /\ SaveShown
  /\ needSave' = FALSE
  /\ Store([member EXCEPT
              !.same = form.same,
              !.text = [k \in Keys |-> IF form.same /\ k \in Followers
                                       THEN member.text[k] ELSE form.text[k]]])
  /\ UNCHANGED <<open, form>>
Save ==
  /\ SaveShown
  /\ needSave' = FALSE
  /\ Store([member EXCEPT !.same = form.same, !.text = form.text])
  /\ UNCHANGED <<open, form>>

(* The file dialog stores the script without the Save button.              *)
PickScript(text) ==
  /\ open /\ member.flag = 1
  /\ form' = [form EXCEPT !.text[Script] = text]
  /\ needSave' = (needSave \/ text # form.text[Script])
  /\ Store([member EXCEPT !.text[Script] = text])
  /\ UNCHANGED <<open>>

(* QSettings writes the file in the first round of the event loop after a  *)
(* setValue, so before any timer started with it can expire.               *)
SyncSettings ==
  /\ open
  /\ disk # member
  /\ disk' = member
  /\ UNCHANGED <<open, member, form, needSave, timers, calls,
                 sessionUp, applied, lost>>

(* updateProxy(): nothing is sent, nor tried again, without a session.     *)
TimerExpires ==
  /\ timers > 0
  /\ disk = member
  /\ timers' = timers - 1
  /\ calls' = IF sessionUp THEN calls + 1 ELSE calls
  /\ UNCHANGED <<open, member, disk, form, needSave, sessionUp, applied, lost>>
-----------------------------------------------------------------------------
(* Outside src/: the session daemon reads the file when it is called and   *)
(* when it starts.                                                         *)
SessionUpdates ==
  /\ sessionUp /\ calls > 0
  /\ calls' = calls - 1
  /\ applied' = disk
  /\ lost' = FALSE
  /\ UNCHANGED <<open, member, disk, form, needSave, timers, sessionUp>>

SessionStops ==
  /\ sessionUp
  /\ sessionUp' = FALSE
  /\ calls' = 0
  /\ UNCHANGED <<open, member, disk, form, needSave, timers, applied, lost>>

SessionStarts ==
  /\ ~sessionUp
  /\ sessionUp' = TRUE
  /\ applied' = disk
  /\ lost' = FALSE
  /\ UNCHANGED <<open, member, disk, form, needSave, timers, calls>>
-----------------------------------------------------------------------------
Next ==
  \/ OpenPage \/ ClosePage
  \/ \E flag \in {0, 2} : ClickFlag(flag)
  \/ \E k \in Keys, text \in Texts : EditText(k, text)
  \/ ToggleSame \/ Save
  \/ \E text \in Texts : PickScript(text)
  \/ SyncSettings \/ TimerExpires
  \/ SessionUpdates \/ SessionStops \/ SessionStarts

Spec == Init /\ [][Next]_vars

(* The event loop runs and the session answers what it is sent.            *)
FairSpec ==
  Spec /\ WF_vars(SyncSettings) /\ WF_vars(TimerExpires) /\ WF_vars(SessionUpdates)
-----------------------------------------------------------------------------
TypeOK ==
  /\ open \in BOOLEAN
  /\ member \in Config /\ disk \in Config /\ applied \in Config
  /\ form \in [same: BOOLEAN, text: [Keys -> Texts]]
  /\ needSave \in BOOLEAN
  /\ timers \in Nat /\ calls \in Nat
  /\ sessionUp \in BOOLEAN /\ lost \in BOOLEAN

(* The session runs with the configuration of the file whenever nothing is *)
(* on its way to it, with a single exception: the page was left while a    *)
(* timer ran, which leaves the session behind until the next update.       *)
SessionFollowsFile ==
  sessionUp /\ timers = 0 /\ calls = 0 /\ ~lost => applied = disk

(* A written change is never dropped on the floor by the page itself: what *)
(* is not yet in the file has a timer behind it that will expire later.    *)
UnwrittenHasTimer == disk # member => open /\ timers > 0

(* Fields that are on the page without a Save button hold exactly what is  *)
(* stored: an edit is seen to be pending wherever the edit itself is seen. *)
(* "No Proxy" hides both, and the button is back when the fields are.      *)
NothingUnsavedUnseen ==
  open /\ member.flag # 0 /\ ~SaveShown =>
    form.same = member.same /\ form.text = member.text

(* So it has to be remembered while neither is shown.                      *)
PendingIsMarked ==
  open /\ ~needSave => form.same = member.same /\ form.text = member.text

(* A stored "use the same proxy for FTP" comes with equal FTP and HTTP     *)
(* texts, in the file and in the session: the eight setters of Save and    *)
(* the Bindings never leave a mixture behind.                              *)
SameMeansSame ==
  \A config \in {member, disk, applied} :
    config.same => \A f \in Followers : config.text[f] = config.text[Follows[f]]

(* Once the user and the session daemon come to rest, the session ends up  *)
(* with the stored configuration.                                          *)
SessionCatchesUp ==
  <>[][FALSE]_<<open, member, sessionUp>>
    => <>[](sessionUp /\ ~lost => applied = member)
=============================================================================
