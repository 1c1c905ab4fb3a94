------------------------- MODULE NetworkProxyProofs -------------------------
(***************************************************************************)
(* Proofs about the Proxy page for any set of fields: its types, that the  *)
(* session does not fall behind the settings file unseen, that a stored    *)
(* configuration never mixes FTP and HTTP texts, and that no edit is on    *)
(* the page without its Save button.                                       *)
(***************************************************************************)
EXTENDS NetworkProxy, FiniteSetTheorems, TLAPS

(* The number of setters with a change is a number, and not zero when the  *)
(* configuration as a whole differs.                                       *)
LEMMA ChangesCount ==
  ASSUME member \in Config, NEW new \in Config
  PROVE  /\ Changes(new) \in Nat
         /\ new # member => Changes(new) > 0
<1> DEFINE differ == {k \in Keys : new.text[k] # member.text[k]}
<1>1. IsFiniteSet(Keys)
  BY FS_AddElement, ProxyAssumption DEF Keys
<1>2. IsFiniteSet(differ) /\ Cardinality(differ) \in Nat
  BY <1>1, FS_Subset, FS_CardinalityType, differ \subseteq Keys
<1>3. ASSUME new.text # member.text PROVE Cardinality(differ) > 0
  <2>1. \E k \in Keys : new.text[k] # member.text[k]
    BY <1>3 DEF Config
  <2>2. differ # {}
    BY <2>1
  <2>3. Cardinality(differ) # 0
    BY <1>2, <2>2, FS_EmptySet
  <2> QED
    BY <1>2, <2>3
<1>4. ASSUME new # member
      PROVE  new.text # member.text \/ new.same # member.same \/ new.flag # member.flag
  BY <1>4 DEF Config
<1>5. Changes(new) = Cardinality(differ)
                       + (IF new.same # member.same THEN 1 ELSE 0)
                       + (IF new.flag # member.flag THEN 1 ELSE 0)
  BY DEF Changes
<1> HIDE DEF differ
<1> QED
  BY <1>2, <1>3, <1>4, <1>5

(* What a follower shows is a text again.                                  *)
LEMMA FollowedType ==
  ASSUME NEW text \in [Keys -> Texts], NEW same \in BOOLEAN
  PROVE  Followed(text, same) \in [Keys -> Texts]
<1>1. \A k \in Followers : Follows[k] \in Keys
  BY ProxyAssumption DEF Keys
<1> QED
  BY <1>1 DEF Followed

(* The setters keep the types.                                             *)
LEMMA StoreType ==
  ASSUME TypeOK, NEW new \in Config, Store(new)
  PROVE  /\ member' \in Config /\ disk' \in Config /\ applied' \in Config
         /\ timers' \in Nat /\ calls' \in Nat
         /\ sessionUp' \in BOOLEAN /\ lost' \in BOOLEAN
BY ChangesCount DEF TypeOK, Store
-----------------------------------------------------------------------------
(* Every variable keeps its type: no flag but 0, 1 and 2 is stored, and    *)
(* the timers and calls on their way are never fewer than none.            *)
THEOREM TypeCorrect == Spec => []TypeOK
<1>1. Unset \in Config /\ Unset.text \in [Keys -> Texts]
  BY ProxyAssumption DEF Unset, Config
<1>2. Init => TypeOK
  <2> SUFFICES ASSUME Init PROVE TypeOK
    OBVIOUS
  <2>1. disk \in Config
    BY <1>1 DEF Init, Config
  <2> QED
    BY <1>1, <2>1 DEF Init, TypeOK
<1>3. TypeOK /\ [Next]_vars => TypeOK'
  <2> SUFFICES ASSUME TypeOK, [Next]_vars PROVE TypeOK'
    OBVIOUS
  <2> USE DEF TypeOK
  <2>1. CASE OpenPage
    <3>1. disk.text \in [Keys -> Texts] /\ disk.same \in BOOLEAN
      BY DEF Config
    <3>2. Followed(disk.text, disk.same) \in [Keys -> Texts]
      BY <3>1, FollowedType
    <3> QED
      BY <1>1, <2>1, <3>1, <3>2 DEF OpenPage
  <2>2. CASE ClosePage
    BY <1>1, <2>2 DEF ClosePage
  <2>3. ASSUME NEW flag \in {0, 2}, ClickFlag(flag) PROVE TypeOK'
    <3>1. [member EXCEPT !.flag = flag] \in Config
      BY DEF Config
    <3> QED
      BY <2>3, <3>1, StoreType DEF ClickFlag
  <2>4. ASSUME NEW k \in Keys, NEW text \in Texts, EditText(k, text) PROVE TypeOK'
    <3>1. [form.text EXCEPT ![k] = text] \in [Keys -> Texts]
      OBVIOUS
    <3>2. Followed([form.text EXCEPT ![k] = text], form.same) \in [Keys -> Texts]
      BY <3>1, FollowedType
    <3> QED
      BY <2>4, <3>2 DEF EditText
  <2>5. CASE ToggleSame
    <3>1. Followed(form.text, ~form.same) \in [Keys -> Texts]
      BY FollowedType
    <3> QED
      BY <2>5, <3>1 DEF ToggleSame
  <2>6. CASE Save
    <3>1. [member EXCEPT !.same = form.same, !.text = form.text] \in Config
      BY DEF Config
    <3> QED
      BY <2>6, <3>1, StoreType DEF Save
  <2>7. ASSUME NEW text \in Texts, PickScript(text) PROVE TypeOK'
    <3>1. [member EXCEPT !.text[Script] = text] \in Config
      BY DEF Config
    <3>2. [form EXCEPT !.text[Script] = text] \in [same: BOOLEAN, text: [Keys -> Texts]]
      OBVIOUS
    <3>3. needSave' \in BOOLEAN
      BY <2>7 DEF PickScript
    <3> QED
      BY <2>7, <3>1, <3>2, <3>3, StoreType DEF PickScript
  <2>8. CASE SyncSettings
    BY <2>8 DEF SyncSettings
  <2>9. CASE TimerExpires
    BY <2>9 DEF TimerExpires
  <2>10. CASE SessionUpdates
    <3>1. calls' \in Nat
      BY <2>10 DEF SessionUpdates
    <3>2. applied' \in Config /\ lost' \in BOOLEAN
      BY <2>10 DEF SessionUpdates
    <3> QED
      BY <2>10, <3>1, <3>2 DEF SessionUpdates
  <2>11. CASE SessionStops
    BY <2>11 DEF SessionStops
  <2>12. CASE SessionStarts
    BY <2>12 DEF SessionStarts
  <2>13. CASE UNCHANGED vars
    BY <2>13 DEF vars
  <2> QED
    BY <2>1, <2>2, <2>3, <2>4, <2>5, <2>6, <2>7, <2>8, <2>9, <2>10, <2>11, <2>12,
       <2>13 DEF Next
<1> QED
  BY <1>2, <1>3, PTL DEF Spec
-----------------------------------------------------------------------------
(* The setters leave a timer behind whatever they have not written, and do *)
(* not touch the file or the session.                                      *)
LEMMA StoreLeavesTimer ==
  ASSUME TypeOK, UnwrittenHasTimer, SessionFollowsFile, open, open' = open,
         NEW new \in Config, Store(new)
  PROVE  UnwrittenHasTimer' /\ SessionFollowsFile'
<1>1. Changes(new) \in Nat /\ (new # member => Changes(new) > 0)
  BY ChangesCount DEF TypeOK
<1>2. /\ member' = new /\ timers' = timers + Changes(new)
      /\ UNCHANGED <<disk, calls, sessionUp, applied, lost>>
  BY DEF Store
<1>3. timers \in Nat
  BY DEF TypeOK
<1>4. UnwrittenHasTimer'
  <2>1. CASE new = member
    BY <1>1, <1>2, <1>3, <2>1 DEF UnwrittenHasTimer
  <2>2. CASE new # member
    BY <1>1, <1>2, <1>3, <2>2 DEF UnwrittenHasTimer
  <2> QED
    BY <2>1, <2>2
<1>5. SessionFollowsFile'
  BY <1>1, <1>2, <1>3 DEF SessionFollowsFile
<1> QED
  BY <1>4, <1>5

(* What is not in the file has a timer behind it, and once timers and      *)
(* calls have run dry the session has the configuration of the file unless *)
(* the page was left too early.  Neither part is inductive alone: QSettings *)
(* may rewrite the file because a timer is sure to follow.                 *)
THEOREM SessionIsTold == Spec => [](UnwrittenHasTimer /\ SessionFollowsFile)
<1> DEFINE Inv == UnwrittenHasTimer /\ SessionFollowsFile
<1>1. Init => Inv
  BY DEF Init, UnwrittenHasTimer, SessionFollowsFile
<1>2. TypeOK /\ Inv /\ [Next]_vars => Inv'
  <2> SUFFICES ASSUME TypeOK, Inv, [Next]_vars PROVE Inv'
    OBVIOUS
  <2>1. timers \in Nat /\ calls \in Nat
    BY DEF TypeOK
  <2>2. CASE OpenPage
    BY <2>2 DEF OpenPage, UnwrittenHasTimer, SessionFollowsFile
  <2>3. CASE ClosePage
    <3>1. UnwrittenHasTimer'
      BY <2>3 DEF ClosePage, UnwrittenHasTimer
    <3>2. ASSUME ~lost' PROVE ~lost /\ disk' = disk
      <4>1. ~lost /\ ~(timers > 0)
        BY <2>3, <3>2 DEF ClosePage
      <4>2. disk = member
        BY <4>1 DEF UnwrittenHasTimer
      <4> QED
        BY <2>3, <4>1, <4>2 DEF ClosePage
    <3>3. timers > 0 => lost'
      BY <2>3 DEF ClosePage
    <3>4. UNCHANGED <<calls, sessionUp, applied>>
      BY <2>3 DEF ClosePage
    <3>5. ~(timers > 0) => timers = 0
      BY <2>1
    <3>6. SessionFollowsFile'
      BY <3>2, <3>3, <3>4, <3>5 DEF SessionFollowsFile
    <3> QED
      BY <3>1, <3>6
  <2>4. ASSUME NEW flag \in {0, 2}, ClickFlag(flag) PROVE Inv'
    <3>1. [member EXCEPT !.flag = flag] \in Config
      BY DEF Config, TypeOK
    <3> QED
      BY <2>4, <3>1, StoreLeavesTimer DEF ClickFlag
  <2>5. ASSUME NEW k \in Keys, NEW text \in Texts, EditText(k, text) PROVE Inv'
    BY <2>5 DEF EditText, UnwrittenHasTimer, SessionFollowsFile
  <2>6. CASE ToggleSame
    BY <2>6 DEF ToggleSame, UnwrittenHasTimer, SessionFollowsFile
  <2>7. CASE Save
    <3>1. [member EXCEPT !.same = form.same, !.text = form.text] \in Config
      BY DEF Config, TypeOK
    <3> QED
      BY <2>7, <3>1, StoreLeavesTimer DEF Save, SaveShown
  <2>8. ASSUME NEW text \in Texts, PickScript(text) PROVE Inv'
    <3>1. [member EXCEPT !.text[Script] = text] \in Config
      BY DEF Config, TypeOK
    <3> QED
      BY <2>8, <3>1, StoreLeavesTimer DEF PickScript
  <2>9. CASE SyncSettings
    BY <2>1, <2>9 DEF SyncSettings, UnwrittenHasTimer, SessionFollowsFile
  <2>10. CASE TimerExpires
    BY <2>1, <2>10 DEF TimerExpires, UnwrittenHasTimer, SessionFollowsFile
  <2>11. CASE SessionUpdates
    BY <2>1, <2>11 DEF SessionUpdates, UnwrittenHasTimer, SessionFollowsFile
  <2>12. CASE SessionStops
    BY <2>12 DEF SessionStops, UnwrittenHasTimer, SessionFollowsFile
  <2>13. CASE SessionStarts
    BY <2>13 DEF SessionStarts, UnwrittenHasTimer, SessionFollowsFile
  <2>14. CASE UNCHANGED vars
    BY <2>14 DEF vars, UnwrittenHasTimer, SessionFollowsFile
  <2> QED
    BY <2>2, <2>3, <2>4, <2>5, <2>6, <2>7, <2>8, <2>9, <2>10, <2>11, <2>12, <2>13,
       <2>14 DEF Next
<1> QED
  BY <1>1, <1>2, TypeCorrect, PTL DEF Spec
-----------------------------------------------------------------------------
(* A configuration whose check box agrees with its texts.                  *)
Agrees(same, text) == same => \A f \in Followers : text[f] = text[Follows[f]]

(* The fields on the page agree with its check box as well.                *)
FormAgrees == Agrees(form.same, form.text)

(* The Bindings make the texts agree.                                      *)
LEMMA FollowedAgrees ==
  ASSUME NEW text, NEW same \in BOOLEAN
  PROVE  Agrees(same, Followed(text, same))
<1> SUFFICES ASSUME same, NEW f \in Followers
             PROVE  Followed(text, same)[f] = Followed(text, same)[Follows[f]]
  BY DEF Agrees
<1>1. f \in Keys /\ Follows[f] \in Keys /\ Follows[f] \notin Followers
  BY ProxyAssumption DEF Keys
<1> QED
  BY <1>1 DEF Followed

(* Another script changes nothing about FTP.                               *)
LEMMA ScriptAgrees ==
  ASSUME NEW text \in [Keys -> Texts], NEW same, NEW script, Agrees(same, text)
  PROVE  Agrees(same, [text EXCEPT ![Script] = script])
<1>1. \A f \in Followers : /\ f # Script /\ Follows[f] # Script
                           /\ f \in Keys /\ Follows[f] \in Keys
  BY ProxyAssumption DEF Keys
<1> QED
  BY <1>1 DEF Agrees

(* "Also use this proxy for FTP" is never stored with FTP texts of its     *)
(* own: the stored configurations agree because the form does, be it the   *)
(* Bindings that make the texts equal or the check box that is cleared.    *)
THEOREM StoredTogether == Spec => []SameMeansSame
<1> DEFINE Stored == \A config \in {member, disk, applied} :
                       Agrees(config.same, config.text)
           Inv == Stored /\ FormAgrees
<1>1. Init => Inv
  BY DEF Init, Unset, FormAgrees, Agrees
<1>2. TypeOK /\ Inv /\ [Next]_vars => Inv'
  <2> SUFFICES ASSUME TypeOK, Inv, [Next]_vars PROVE Inv'
    OBVIOUS
  <2>1. /\ member \in Config /\ disk \in Config /\ applied \in Config
        /\ form \in [same: BOOLEAN, text: [Keys -> Texts]]
    BY DEF TypeOK
  <2>2. /\ Agrees(member.same, member.text) /\ Agrees(disk.same, disk.text)
        /\ Agrees(applied.same, applied.text) /\ Agrees(form.same, form.text)
    BY DEF FormAgrees
  <2>3. ASSUME /\ Agrees(member'.same, member'.text) /\ Agrees(disk'.same, disk'.text)
               /\ Agrees(applied'.same, applied'.text) /\ Agrees(form'.same, form'.text)
        PROVE  Inv'
    BY <2>3 DEF FormAgrees, Agrees
  <2>4. CASE OpenPage
    <3>1. disk.same \in BOOLEAN
      BY <2>1 DEF Config
    <3>2. Agrees(disk.same, Followed(disk.text, disk.same))
      BY <3>1, FollowedAgrees
    <3>3. form'.same = disk.same /\ form'.text = Followed(disk.text, disk.same)
      BY <2>4 DEF OpenPage
    <3>4. UNCHANGED <<disk, applied>> /\ member' = disk
      BY <2>4 DEF OpenPage
    <3> QED
      BY <2>2, <2>3, <3>2, <3>3, <3>4
  <2>5. CASE ClosePage
    <3>1. form'.same = FALSE /\ disk' = member /\ UNCHANGED <<member, applied>>
      BY <2>5 DEF ClosePage
    <3>2. Agrees(form'.same, form'.text)
      BY <3>1 DEF Agrees
    <3> QED
      BY <2>2, <2>3, <3>1, <3>2
  <2>6. ASSUME NEW flag \in {0, 2}, ClickFlag(flag) PROVE Inv'
    <3>1. member' = [member EXCEPT !.flag = flag] /\ UNCHANGED <<disk, applied, form>>
      BY <2>6 DEF ClickFlag, Store
    <3>2. member'.same = member.same /\ member'.text = member.text
      BY <2>1, <3>1 DEF Config
    <3> QED
      BY <2>2, <2>3, <3>1, <3>2
  <2>7. ASSUME NEW k \in Keys, NEW text \in Texts, EditText(k, text) PROVE Inv'
    <3> DEFINE edited == [form.text EXCEPT ![k] = text]
    <3>1. Agrees(form.same, Followed(edited, form.same))
      BY <2>1, FollowedAgrees
    <3>2. form' = [form EXCEPT !.text = Followed(edited, form.same)]
      BY <2>7 DEF EditText
    <3>3. form'.same = form.same /\ form'.text = Followed(edited, form.same)
      BY <2>1, <3>2
    <3>4. UNCHANGED <<member, disk, applied>>
      BY <2>7 DEF EditText
    <3> QED
      BY <2>2, <2>3, <3>1, <3>3, <3>4
  <2>8. CASE ToggleSame
    <3>1. /\ form'.same = ~form.same /\ form'.text = Followed(form.text, ~form.same)
          /\ UNCHANGED <<member, disk, applied>>
      BY <2>8 DEF ToggleSame
    <3>2. Agrees(~form.same, Followed(form.text, ~form.same))
      BY FollowedAgrees
    <3> QED
      BY <2>2, <2>3, <3>1, <3>2
  <2>9. CASE Save
    <3>1. /\ member' = [member EXCEPT !.same = form.same, !.text = form.text]
          /\ UNCHANGED <<disk, applied, form>>
      BY <2>9 DEF Save, Store
    <3>2. member'.same = form.same /\ member'.text = form.text
      BY <2>1, <3>1 DEF Config
    <3> QED
      BY <2>2, <2>3, <3>1, <3>2
  <2>10. ASSUME NEW text \in Texts, PickScript(text) PROVE Inv'
    <3>1. /\ member' = [member EXCEPT !.text[Script] = text]
          /\ form' = [form EXCEPT !.text[Script] = text]
          /\ UNCHANGED <<disk, applied>>
      BY <2>10 DEF PickScript, Store
    <3>2. /\ member'.same = member.same
          /\ member'.text = [member.text EXCEPT ![Script] = text]
          /\ form'.same = form.same
          /\ form'.text = [form.text EXCEPT ![Script] = text]
      BY <2>1, <3>1 DEF Config
    <3>3. Agrees(member'.same, member'.text)
      BY <2>1, <2>2, <3>2, ScriptAgrees DEF Config
    <3>4. Agrees(form'.same, form'.text)
      BY <2>1, <2>2, <3>2, ScriptAgrees
    <3> QED
      BY <2>2, <2>3, <3>1, <3>3, <3>4
  <2>11. CASE SyncSettings
    BY <2>2, <2>3, <2>11 DEF SyncSettings
  <2>12. CASE TimerExpires
    BY <2>2, <2>3, <2>12 DEF TimerExpires
  <2>13. CASE SessionUpdates
    BY <2>2, <2>3, <2>13 DEF SessionUpdates
  <2>14. CASE SessionStops
    BY <2>2, <2>3, <2>14 DEF SessionStops
  <2>15. CASE SessionStarts
    BY <2>2, <2>3, <2>15 DEF SessionStarts
  <2>16. CASE UNCHANGED vars
    BY <2>2, <2>3, <2>16 DEF vars
  <2> QED
    BY <2>4, <2>5, <2>6, <2>7, <2>8, <2>9, <2>10, <2>11, <2>12, <2>13, <2>14, <2>15,
       <2>16 DEF Next
<1>3. Inv => SameMeansSame
  BY DEF Agrees, SameMeansSame
<1> QED
  BY <1>1, <1>2, <1>3, TypeCorrect, PTL DEF Spec
-----------------------------------------------------------------------------
(* Fields on the page without a Save button hold exactly what is stored.   *)
(* That is not inductive: "No Proxy" takes the button away from an edit    *)
(* and choosing the manual configuration brings the fields back, so what   *)
(* is kept up is that needSave tells of the edit in the meantime           *)
(* (PendingIsMarked).  The page may come up without it, because then there *)
(* is no text that a follower could take over.                             *)
THEOREM FormIsStored == Spec => [](PendingIsMarked /\ NothingUnsavedUnseen)
<1>1. Init => PendingIsMarked
  BY DEF Init, PendingIsMarked
<1>2. TypeOK /\ PendingIsMarked /\ [Next]_vars => PendingIsMarked'
  <2> SUFFICES ASSUME TypeOK, PendingIsMarked, [Next]_vars, open', ~needSave'
               PROVE  form'.same = member'.same /\ form'.text = member'.text
    BY DEF PendingIsMarked
  <2> USE DEF PendingIsMarked
  <2>1. /\ member \in Config /\ disk \in Config
        /\ form \in [same: BOOLEAN, text: [Keys -> Texts]]
    BY DEF TypeOK
  <2>2. CASE OpenPage
    <3>1. disk.text = Unset.text /\ member' = disk
      BY <2>2 DEF OpenPage
    <3>2. form'.same = disk.same /\ form'.text = Followed(disk.text, disk.same)
      BY <2>2 DEF OpenPage
    <3>3. \A k \in Followers : Follows[k] \in Keys
      BY ProxyAssumption DEF Keys
    <3>4. Followed(Unset.text, disk.same) = Unset.text
      BY <3>3 DEF Followed, Unset
    <3> QED
      BY <3>1, <3>2, <3>4
  <2>3. CASE ClosePage
    BY <2>3 DEF ClosePage
  <2>4. ASSUME NEW flag \in {0, 2}, ClickFlag(flag)
        PROVE  form'.same = member'.same /\ form'.text = member'.text
    <3>1. member' = [member EXCEPT !.flag = flag] /\ UNCHANGED <<open, form, needSave>>
      BY <2>4 DEF ClickFlag, Store
    <3>2. member'.same = member.same /\ member'.text = member.text
      BY <2>1, <3>1 DEF Config
    <3> QED
      BY <3>1, <3>2
  <2>5. ASSUME NEW k \in Keys, NEW text \in Texts, EditText(k, text) PROVE FALSE
    BY <2>5 DEF EditText
  <2>6. CASE ToggleSame
    BY <2>6 DEF ToggleSame
  <2>7. CASE Save
    <3>1. member' = [member EXCEPT !.same = form.same, !.text = form.text] /\ form' = form
      BY <2>7 DEF Save, Store
    <3> QED
      BY <2>1, <3>1 DEF Config
  <2>8. ASSUME NEW text \in Texts, PickScript(text)
        PROVE  form'.same = member'.same /\ form'.text = member'.text
    <3>1. /\ member' = [member EXCEPT !.text[Script] = text]
          /\ form' = [form EXCEPT !.text[Script] = text]
          /\ open /\ ~needSave
      BY <2>8 DEF PickScript, Store
    <3>2. /\ member'.same = member.same
          /\ member'.text = [member.text EXCEPT ![Script] = text]
          /\ form'.same = form.same
          /\ form'.text = [form.text EXCEPT ![Script] = text]
      BY <2>1, <3>1 DEF Config
    <3> QED
      BY <3>1, <3>2
  <2>9. CASE SyncSettings
    BY <2>9 DEF SyncSettings
  <2>10. CASE TimerExpires
    BY <2>10 DEF TimerExpires
  <2>11. CASE SessionUpdates \/ SessionStops \/ SessionStarts
    BY <2>11 DEF SessionUpdates, SessionStops, SessionStarts
  <2>12. CASE UNCHANGED vars
    BY <2>12 DEF vars
  <2> QED
    BY <2>2, <2>3, <2>4, <2>5, <2>6, <2>7, <2>8, <2>9, <2>10, <2>11, <2>12 DEF Next
<1>3. PendingIsMarked => NothingUnsavedUnseen
  BY DEF PendingIsMarked, NothingUnsavedUnseen, SaveShown
<1> QED
  BY <1>1, <1>2, <1>3, TypeCorrect, PTL DEF Spec
=============================================================================
