------------------------- MODULE DateTimePageProofs -------------------------
(***************************************************************************)
(* Proofs about the Date & Time page for any zones, places and number of   *)
(* calls on their way.                                                     *)
(***************************************************************************)
EXTENDS DateTimePage, SequenceTheorems, FiniteSetTheorems, WellFoundedInduction, TLAPS

Ops == {"ntp", "time", "zone"}

(* What is on its way is a sequence of calls; of what zones does not       *)
(* matter.                                                                 *)
CallsOK == \E S : calls \in Seq(S) /\ \A c \in S : c.op \in Ops

(* Taking one element out moves those behind it one place forward.         *)
LEMMA Removal ==
  ASSUME NEW S, NEW s \in Seq(S), NEW i \in DOMAIN s
  PROVE  /\ RemoveAt(s, i) \in Seq(S)
         /\ Len(RemoveAt(s, i)) = Len(s) - 1
         /\ \A k \in 1..(Len(s) - 1) :
              RemoveAt(s, i)[k] = s[IF k < i THEN k ELSE k + 1]
<1> DEFINE front == SubSeq(s, 1, i - 1)
           back == SubSeq(s, i + 1, Len(s))
<1>1. i \in 1..Len(s) /\ Len(s) \in Nat
  OBVIOUS
<1>2. \A j \in 1..(i - 1) : j \in 1..Len(s)
  BY <1>1
<1>3. front \in Seq(S) /\ Len(front) = i - 1 /\ \A k \in 1..(i - 1) : front[k] = s[k]
  BY <1>1, <1>2
<1>4. back \in Seq(S) /\ Len(back) = Len(s) - i
      /\ \A k \in 1..(Len(s) - i) : back[k] = s[i + k]
  BY <1>1
<1>5. RemoveAt(s, i) = front \o back
  BY DEF RemoveAt
<1> HIDE DEF front, back
<1>6. RemoveAt(s, i) \in Seq(S) /\ Len(RemoveAt(s, i)) = Len(s) - 1
  BY <1>1, <1>3, <1>4, <1>5
<1>7. ASSUME NEW k \in 1..(Len(s) - 1)
      PROVE  RemoveAt(s, i)[k] = s[IF k < i THEN k ELSE k + 1]
  <2>1. CASE k < i
    BY <1>1, <1>3, <1>4, <1>5, <2>1
  <2>2. CASE ~(k < i)
    <3>1. k - (i - 1) \in 1..(Len(s) - i)
      BY <1>1, <2>2
    <3>2. k \in 1..(Len(front) + Len(back)) /\ ~(k <= Len(front))
      BY <1>1, <1>3, <1>4, <2>2
    <3>3. (front \o back)[k] = back[k - Len(front)]
      BY <1>3, <1>4, <3>2, ConcatProperties
    <3>4. back[k - (i - 1)] = s[i + (k - (i - 1))]
      BY <1>4, <3>1
    <3>5. i + (k - (i - 1)) = k + 1 /\ k - Len(front) = k - (i - 1)
      BY <1>1, <1>3
    <3> QED
      BY <1>5, <2>2, <3>3, <3>4, <3>5
  <2> QED
    BY <2>1, <2>2
<1> QED
  BY <1>6, <1>7

LEMMA TakenOut ==
  ASSUME CallsOK, NEW i \in DOMAIN calls, calls' = RemoveAt(calls, i)
  PROVE  /\ CallsOK'
         /\ DOMAIN calls' = 1..(Len(calls) - 1) /\ DOMAIN calls = 1..Len(calls)
         /\ \A k \in 1..(Len(calls) - 1) : calls'[k] = calls[IF k < i THEN k ELSE k + 1]
         /\ i \in 1..Len(calls) /\ Len(calls) \in Nat
<1>1. PICK S : calls \in Seq(S) /\ \A c \in S : c.op \in Ops
  BY DEF CallsOK
<1>2. /\ calls' \in Seq(S)
      /\ Len(calls') = Len(calls) - 1
      /\ \A k \in 1..(Len(calls) - 1) : calls'[k] = calls[IF k < i THEN k ELSE k + 1]
  BY <1>1, Removal
<1>3. DOMAIN calls = 1..Len(calls) /\ Len(calls) \in Nat
  BY <1>1, LenProperties
<1>4. DOMAIN calls' = 1..(Len(calls) - 1)
  BY <1>2, LenProperties
<1>5. CallsOK'
  BY <1>1, <1>2 DEF CallsOK
<1> QED
  BY <1>2, <1>3, <1>4, <1>5

(* The youngest call of its kind stays the youngest when another is taken  *)
(* out.                                                                    *)
LEMMA YoungestStays ==
  ASSUME CallsOK, NEW i \in DOMAIN calls, calls' = RemoveAt(calls, i),
         NEW c, Youngest(c),
         calls[i].op = c.op => \E j \in OnTheirWay(c.op) : j > i
  PROVE  Youngest(c)'
<1>1. /\ DOMAIN calls' = 1..(Len(calls) - 1) /\ DOMAIN calls = 1..Len(calls)
      /\ \A k \in 1..(Len(calls) - 1) : calls'[k] = calls[IF k < i THEN k ELSE k + 1]
      /\ i \in 1..Len(calls) /\ Len(calls) \in Nat
  BY TakenOut
<1>2. PICK n \in DOMAIN calls : calls[n] = c /\ \A j \in OnTheirWay(c.op) : j <= n
  BY DEF Youngest
<1>3. n # i /\ n \in 1..Len(calls) /\ i \in 1..Len(calls) /\ Len(calls) \in Nat
  BY <1>1, <1>2 DEF OnTheirWay
<1> DEFINE m == IF n < i THEN n ELSE n - 1
<1>4. m \in DOMAIN calls' /\ calls'[m] = c
  <2>1. m \in 1..(Len(calls) - 1) /\ (IF m < i THEN m ELSE m + 1) = n
    BY <1>3
  <2> QED
    BY <2>1, <1>2, <1>1
<1>5. ASSUME NEW k \in DOMAIN calls', calls'[k].op = c.op PROVE k <= m
  <2>1. (IF k < i THEN k ELSE k + 1) \in OnTheirWay(c.op)
    BY <1>1, <1>3, <1>5 DEF OnTheirWay
  <2>2. (IF k < i THEN k ELSE k + 1) <= n /\ k \in Int
    BY <1>2, <1>5, <1>1, <2>1
  <2> QED
    BY <1>3, <2>2
<1> QED
  <2>1. \A j \in OnTheirWay(c.op)' : j <= m
    BY <1>5 DEF OnTheirWay
  <2> QED
    BY <1>4, <2>1 DEF Youngest

(* Nothing but the call taken out is gone, and nothing is new.             *)
LEMMA OthersStay ==
  ASSUME CallsOK, NEW i \in DOMAIN calls, calls' = RemoveAt(calls, i),
         NEW op, calls[i].op # op
  PROVE  OnTheirWay(op)' = {} <=> OnTheirWay(op) = {}
<1>1. /\ DOMAIN calls' = 1..(Len(calls) - 1) /\ DOMAIN calls = 1..Len(calls)
      /\ \A k \in 1..(Len(calls) - 1) : calls'[k] = calls[IF k < i THEN k ELSE k + 1]
      /\ i \in 1..Len(calls) /\ Len(calls) \in Nat
  BY TakenOut
<1>2. ASSUME NEW k \in DOMAIN calls', calls'[k].op = op PROVE OnTheirWay(op) # {}
  <2>1. (IF k < i THEN k ELSE k + 1) \in OnTheirWay(op)
    BY <1>2, <1>1 DEF OnTheirWay
  <2> QED
    BY <2>1
<1>3. ASSUME NEW k \in DOMAIN calls, calls[k].op = op PROVE OnTheirWay(op)' # {}
  <2> DEFINE m == IF k < i THEN k ELSE k - 1
  <2>2. m \in 1..(Len(calls) - 1) /\ (IF m < i THEN m ELSE m + 1) = k
    BY <1>3, <1>1
  <2>1. m \in OnTheirWay(op)'
    BY <1>3, <2>2, <1>1 DEF OnTheirWay
  <2> QED
    BY <2>1
<1> QED
  BY <1>2, <1>3 DEF OnTheirWay

(* A call that is made is the youngest of its kind, and leaves those of    *)
(* other kinds alone.                                                      *)
LEMMA CallAdded ==
  ASSUME CallsOK, NEW d, d.op \in Ops, calls' = Append(calls, d)
  PROVE  /\ CallsOK'
         /\ Youngest(d)'
         /\ \A c : Youngest(c) /\ c.op # d.op => Youngest(c)'
         /\ \A op : op # d.op /\ OnTheirWay(op) = {} => OnTheirWay(op)' = {}
<1>1. PICK S : calls \in Seq(S) /\ \A c \in S : c.op \in Ops
  BY DEF CallsOK
<1>2. calls' \in Seq(S \union {d}) /\ CallsOK'
  <2>1. calls \in Seq(S \union {d})
    BY <1>1
  <2>2. calls' \in Seq(S \union {d})
    BY <2>1
  <2> QED
    BY <1>1, <2>2 DEF CallsOK
<1>3. /\ Len(calls) \in Nat /\ DOMAIN calls = 1..Len(calls)
      /\ DOMAIN calls' = 1..(Len(calls) + 1)
      /\ calls'[Len(calls) + 1] = d
      /\ \A k \in 1..Len(calls) : calls'[k] = calls[k]
  BY <1>1
<1>4. Youngest(d)'
  <2>1. \A j \in OnTheirWay(d.op)' : j <= Len(calls) + 1
    BY <1>3 DEF OnTheirWay
  <2>2. Len(calls) + 1 \in DOMAIN calls'
    BY <1>3
  <2> QED
    BY <1>3, <2>1, <2>2 DEF Youngest
<1>5. \A op : op # d.op => OnTheirWay(op)' = OnTheirWay(op)
  BY <1>3 DEF OnTheirWay
<1>6. ASSUME NEW c, Youngest(c), c.op # d.op PROVE Youngest(c)'
  <2>1. PICK n \in DOMAIN calls : calls[n] = c /\ \A j \in OnTheirWay(c.op) : j <= n
    BY <1>6 DEF Youngest
  <2>2. n \in DOMAIN calls' /\ calls'[n] = c
    BY <1>3, <2>1
  <2>3. \A j \in OnTheirWay(c.op)' : j <= n
    BY <1>5, <1>6, <2>1
  <2> QED
    BY <2>2, <2>3 DEF Youngest
<1> QED
  BY <1>2, <1>4, <1>5, <1>6

LEMMA TwoAdded ==
  ASSUME NEW T, NEW s \in Seq(T), NEW a \in T, NEW b \in T
  PROVE  /\ s \o <<a, b>> \in Seq(T)
         /\ Len(s \o <<a, b>>) = Len(s) + 2
         /\ (s \o <<a, b>>)[Len(s) + 1] = a
         /\ (s \o <<a, b>>)[Len(s) + 2] = b
<1> DEFINE two == <<a, b>>
<1>1. two \in Seq(T) /\ Len(two) = 2 /\ two[1] = a /\ two[2] = b
  OBVIOUS
<1> HIDE DEF two
<1>2. s \o two \in Seq(T) /\ Len(s) \in Nat /\ Len(s \o two) = Len(s) + 2
  <2>1. Len(s) \in Nat
    BY LenProperties
  <2>2. s \o two \in Seq(T)
    BY <1>1, ConcatProperties
  <2>3. Len(s \o two) = Len(s) + Len(two)
    BY <1>1, ConcatProperties
  <2> QED
    BY <1>1, <2>1, <2>2, <2>3
<1>3. (s \o two)[Len(s) + 1] = a /\ (s \o two)[Len(s) + 2] = b
  <2>1. \A k \in {1, 2} : k \in 1..Len(two) /\ Len(s) + k \in 1..(Len(s) + Len(two))
    BY <1>1, <1>2
  <2>2. \A k \in {1, 2} : (s \o two)[Len(s) + k] = two[k]
    BY <1>1, <1>2, <2>1, ConcatProperties
  <2> QED
    BY <1>1, <2>2
<1> QED
  BY <1>2, <1>3 DEF two

(* The same for the two calls that turn automatic time off.                *)
LEMMA CallsAdded ==
  ASSUME CallsOK, NEW d, d.op = "ntp", NEW e, e.op = "time",
         calls' = calls \o <<d, e>>
  PROVE  CallsOK' /\ Youngest(d)'
<1>1. PICK S : calls \in Seq(S) /\ \A c \in S : c.op \in Ops
  BY DEF CallsOK
<1> DEFINE T == S \union {d, e}
<1>3. \A c \in T : c.op \in Ops
  BY <1>1 DEF Ops
<1>4. calls \in Seq(T) /\ d \in T /\ e \in T
  BY <1>1, SeqMonotonic
<1> HIDE DEF T
<1>5. /\ calls' \in Seq(T)
      /\ Len(calls') = Len(calls) + 2
      /\ calls'[Len(calls) + 1] = d
      /\ calls'[Len(calls) + 2] = e
  BY <1>4, TwoAdded
<1>6. CallsOK'
  BY <1>3, <1>5 DEF CallsOK
<1>7. Len(calls) \in Nat /\ DOMAIN calls' = 1..(Len(calls) + 2)
  BY <1>4, <1>5
<1>8. \A j \in OnTheirWay("ntp")' : j <= Len(calls) + 1
  BY <1>5, <1>7 DEF OnTheirWay
<1>9. Len(calls) + 1 \in DOMAIN calls'
  BY <1>7
<1> QED
  BY <1>5, <1>6, <1>8, <1>9 DEF Youngest

Inv == CallsOK /\ PageInv

LEMMA Initially == Init => Inv
<1> SUFFICES ASSUME Init PROVE Inv
  OBVIOUS
<1>1. calls \in Seq({})
  BY EmptySeq DEF Init
<1>2. CallsOK
  BY <1>1 DEF CallsOK
<1> QED
  BY <1>2 DEF Init, Inv, PageInv, SwitchFollows, WaitsForYoungest, LabelFollows

(* The page's own steps.                                                   *)
LEMMA PageSteps ==
  ASSUME Inv,
         \/ OpenPage \/ ClosePage \/ Toggle
         \/ ShowDialog \/ SetZone \/ Cancel \/ \E at \in Spots : ClickMap(at)
         \/ Return \/ Timeout
  PROVE  Inv'
<1> USE DEF Inv, PageInv, SwitchFollows, WaitsForYoungest, LabelFollows,
            Idle, call, service, missed, window
<1>0. UNCHANGED calls => /\ CallsOK'
                         /\ \A op : OnTheirWay(op)' = OnTheirWay(op)
                         /\ \A c : Youngest(c) => Youngest(c)'
  BY DEF CallsOK, OnTheirWay, Youngest
<1>1. CASE OpenPage
  BY <1>0, <1>1 DEF OpenPage
<1>2. CASE ClosePage
  BY <1>0, <1>2 DEF ClosePage
<1>3. CASE Toggle
  <2>0. PICK d, e : d = SetNTP(useNtp)' /\ e = SetTime
    OBVIOUS
  <2>1. d.op = "ntp" /\ e.op = "time"
    BY <2>0 DEF SetNTP, SetTime
  <2>2. \/ calls' = Append(calls, d) /\ UNCHANGED waiting
        \/ calls' = calls \o <<d, e>> /\ waiting' = "time"
    BY <1>3, <2>0 DEF Toggle, SetNTP
  <2>3. CallsOK' /\ Youngest(d)'
    <3>1. CASE calls' = Append(calls, d)
      BY <2>1, <3>1, CallAdded DEF Ops
    <3>2. CASE calls' = calls \o <<d, e>>
      BY <2>1, <3>2, CallsAdded
    <3> QED
      BY <2>2, <3>1, <3>2
  <2>4. OnTheirWay("ntp")' # {}
    BY <2>1, <2>3 DEF Youngest, OnTheirWay
  <2> QED
    BY <1>3, <2>0, <2>2, <2>3, <2>4 DEF Toggle
<1>4. CASE ShowDialog
  BY <1>0, <1>4 DEF ShowDialog
<1>5. CASE SetZone
  <2>1. SetTimezone(offered[1]).op = "zone" /\ SetNTP(useNtp).op = "ntp"
    BY DEF SetTimezone, SetNTP
  <2>2. /\ CallsOK' /\ Youngest(SetTimezone(offered[1]))'
        /\ Youngest(SetNTP(useNtp)) => Youngest(SetNTP(useNtp))'
        /\ OnTheirWay("ntp") = {} => OnTheirWay("ntp")' = {}
    BY <1>5, <2>1, CallAdded DEF SetZone, Ops
  <2>3. Youngest(SetNTP(useNtp))' => OnTheirWay("ntp")' # {}
    BY <1>5, <2>1 DEF Youngest, OnTheirWay, SetZone
  <2> QED
    BY <1>5, <2>2, <2>3 DEF SetZone
<1>6. CASE Cancel
  BY <1>0, <1>6 DEF Cancel
<1>7. ASSUME NEW at \in Spots, ClickMap(at) PROVE Inv'
  BY <1>0, <1>7 DEF ClickMap
<1>8. CASE Return
  BY <1>0, <1>8 DEF Return
<1>9. CASE Timeout
  BY <1>0, <1>9 DEF Timeout
<1> QED
  BY <1>1, <1>2, <1>3, <1>4, <1>5, <1>6, <1>7, <1>8, <1>9

(* The only call of its kind leaves none behind.                           *)
LEMMA OnlyOne ==
  ASSUME CallsOK, NEW i \in DOMAIN calls, calls' = RemoveAt(calls, i),
         NEW op, \A j \in OnTheirWay(op) : j = i
  PROVE  OnTheirWay(op)' = {}
<1>1. /\ DOMAIN calls' = 1..(Len(calls) - 1) /\ DOMAIN calls = 1..Len(calls)
      /\ \A k \in 1..(Len(calls) - 1) : calls'[k] = calls[IF k < i THEN k ELSE k + 1]
      /\ i \in 1..Len(calls) /\ Len(calls) \in Nat
  BY TakenOut
<1>2. ASSUME NEW k \in DOMAIN calls', calls'[k].op = op PROVE FALSE
  <2>1. (IF k < i THEN k ELSE k + 1) \in OnTheirWay(op)
    BY <1>1, <1>2 DEF OnTheirWay
  <2> QED
    BY <1>1, <1>2, <2>1
<1> QED
  BY <1>2 DEF OnTheirWay

(* A call is carried out or refused.                                       *)
LEMMA ServiceSteps ==
  ASSUME Inv, NEW i \in DOMAIN calls, Grant(i) \/ Refuse(i)
  PROVE  Inv'
<1> USE DEF window, missed
<1>1. calls' = RemoveAt(calls, i) /\ UNCHANGED <<open, useNtp, label, window, waiting>>
  BY DEF Grant, Refuse
<1>2. CallsOK
  BY DEF Inv
<1>3. CallsOK' /\ DOMAIN calls = 1..Len(calls) /\ Len(calls) \in Nat
  BY <1>1, <1>2, TakenOut
<1>4. calls[i].op \in Ops /\ i \in OnTheirWay(calls[i].op)
  BY <1>2 DEF CallsOK, OnTheirWay
<1>5. \A op : OnTheirWay(op) \subseteq Int
  BY <1>3 DEF OnTheirWay
<1>6. \/ Awaited(i) /\ answer' \in {"done", "error"}
      \/ ~Awaited(i) /\ answer' = answer
  BY DEF Grant, Refuse, Answer
<1>7. WaitsForYoungest'
  <2>1. (waiting # "none" => open) /\ (answer # "none" => waiting # "none")
    BY DEF Inv, PageInv, WaitsForYoungest
  <2>2. answer' # "none" => waiting' # "none"
    BY <1>1, <1>4, <1>6, <2>1 DEF Awaited, Ops
  <2>3. ASSUME waiting' = "zone", answer' = "none"
        PROVE  Youngest(SetTimezone(offered[1]))'
    <3>1. PICK c : c = SetTimezone(offered[1])
      OBVIOUS
    <3>2. c.op = "zone" /\ Youngest(c)
      BY <1>1, <1>6, <2>3, <3>1 DEF Inv, PageInv, WaitsForYoungest, SetTimezone
    <3>3. calls[i].op = c.op => \E j \in OnTheirWay(c.op) : j > i
      BY <1>1, <1>3, <1>5, <1>6, <2>3, <3>2 DEF Awaited
    <3>4. Youngest(c)'
      BY <1>1, <1>2, <3>2, <3>3, YoungestStays
    <3>5. c = SetTimezone(offered[1])'
      BY <1>1, <3>1 DEF SetTimezone
    <3> QED
      BY <3>4, <3>5 DEF Youngest, OnTheirWay
  <2> QED
    BY <1>1, <2>1, <2>2, <2>3 DEF WaitsForYoungest
<1>8. LabelFollows'
  <2> SUFFICES ASSUME open, ~zoneMissed'
               PROVE  (IF waiting = "zone" /\ answer = "done"
                       THEN zone = offered[1] ELSE label = zone)'
    BY <1>1 DEF LabelFollows
  <2>1. CASE Grant(i) /\ calls[i].op = "zone"
    <3>1. Awaited(i) /\ zone' = calls[i].zone /\ answer' = "done"
      BY <2>1 DEF Grant, Answer
    <3>2. PICK c : c = SetTimezone(offered[1])
      OBVIOUS
    <3>3. c.op = "zone" /\ c.zone = offered[1] /\ Youngest(c) /\ waiting = "zone"
      BY <2>1, <3>1, <3>2 DEF Inv, PageInv, WaitsForYoungest, SetTimezone, Awaited
    <3>4. PICK n \in DOMAIN calls : calls[n] = c /\ \A j \in OnTheirWay("zone") : j <= n
      BY <3>3 DEF Youngest
    <3>5. n \in OnTheirWay("zone") /\ i \in OnTheirWay("zone")
      BY <1>4, <2>1, <3>3, <3>4 DEF OnTheirWay
    <3>6. n = i
      BY <1>5, <3>1, <3>3, <3>4, <3>5 DEF Awaited
    <3> QED
      BY <1>1, <3>1, <3>3, <3>4, <3>6
  <2>2. CASE ~(Grant(i) /\ calls[i].op = "zone")
    <3>1. zone' = zone /\ zoneMissed' = zoneMissed
      BY <2>2 DEF Grant, Refuse
    <3>2. waiting = "zone" /\ Awaited(i) => answer = "none" /\ answer' = "error"
      BY <2>2 DEF Grant, Refuse, Awaited, Answer
    <3> QED
      BY <1>1, <1>6, <3>1, <3>2 DEF Inv, PageInv, LabelFollows
  <2> QED
    BY <2>1, <2>2
<1>9. SwitchFollows'
  <2> SUFFICES ASSUME open, ~ntpMissed'
               PROVE  (IF OnTheirWay("ntp") = {} THEN useNtp = ntp
                       ELSE Youngest(SetNTP(useNtp)))'
    BY <1>1 DEF SwitchFollows
  <2>1. ~ntpMissed
    BY DEF Grant, Refuse
  <2>2. PICK c : c = SetNTP(useNtp)
    OBVIOUS
  <2>3. c.op = "ntp" /\ c.on = useNtp /\ c = SetNTP(useNtp)'
    BY <1>1, <2>2 DEF SetNTP
  <2>4. IF OnTheirWay("ntp") = {} THEN useNtp = ntp ELSE Youngest(c)
    BY <2>1, <2>2 DEF Inv, PageInv, SwitchFollows
  <2>5. CASE calls[i].op = "ntp"
    <3>1. Grant(i) /\ ntp' = calls[i].on /\ \A j \in OnTheirWay("ntp") : ~(j < i)
      BY <2>5 DEF Grant, Refuse
    <3>2. PICK n \in DOMAIN calls : calls[n] = c /\ \A j \in OnTheirWay("ntp") : j <= n
      BY <1>4, <2>3, <2>4, <2>5 DEF Youngest
    <3>3. n \in OnTheirWay("ntp") /\ i \in OnTheirWay("ntp")
      BY <1>4, <2>3, <2>5, <3>2 DEF OnTheirWay
    <3>4. CASE n = i
      <4>1. \A j \in OnTheirWay("ntp") : j = i
        BY <1>5, <3>1, <3>2, <3>3, <3>4
      <4>2. OnTheirWay("ntp")' = {}
        BY <1>1, <1>2, <4>1, OnlyOne
      <4> QED
        BY <1>1, <2>3, <3>1, <3>2, <3>4, <4>2
    <3>5. CASE n # i
      <4>1. n > i
        BY <1>5, <3>2, <3>3, <3>5
      <4>2. Youngest(c)'
        BY <1>1, <1>2, <1>4, <2>3, <2>4, <2>5, <3>3, <4>1, YoungestStays
      <4> QED
        BY <2>3, <4>2 DEF Youngest, OnTheirWay
    <3> QED
      BY <3>4, <3>5
  <2>6. CASE calls[i].op # "ntp"
    <3>1. ntp' = ntp
      BY <2>6 DEF Grant, Refuse
    <3>2. OnTheirWay("ntp")' = {} <=> OnTheirWay("ntp") = {}
      BY <1>1, <1>2, <2>6, OthersStay
    <3>3. Youngest(c) => Youngest(c)'
      BY <1>1, <1>2, <2>3, <2>6, YoungestStays
    <3> QED
      BY <1>1, <2>3, <2>4, <3>1, <3>2, <3>3 DEF Youngest, OnTheirWay
  <2> QED
    BY <2>5, <2>6
<1> QED
  BY <1>3, <1>7, <1>8, <1>9 DEF Inv, PageInv

(* Other programs' steps, and none.                                        *)
LEMMA OtherSteps ==
  ASSUME Inv, OtherSetsNtp \/ OtherSetsZone \/ UNCHANGED vars
  PROVE  Inv'
<1> USE DEF Inv, PageInv, SwitchFollows, WaitsForYoungest, LabelFollows,
            call, service, missed, window
<1>0. UNCHANGED calls => /\ CallsOK'
                         /\ \A op : OnTheirWay(op)' = OnTheirWay(op)
                         /\ \A c : Youngest(c) => Youngest(c)'
  BY DEF CallsOK, OnTheirWay, Youngest
<1>1. CASE OtherSetsNtp
  BY <1>0, <1>1 DEF OtherSetsNtp
<1>2. CASE OtherSetsZone
  BY <1>0, <1>2 DEF OtherSetsZone
<1>3. CASE UNCHANGED vars
  BY <1>0, <1>3 DEF vars
<1> QED
  BY <1>1, <1>2, <1>3

THEOREM PageAlways == Spec => []Inv
<1>1. Inv /\ [Next]_vars => Inv'
  BY PageSteps, ServiceSteps, OtherSteps DEF Next
<1> QED
  BY Initially, <1>1, PTL DEF Spec

(* The switch shows what timedate1 keeps when none of its calls is on its  *)
(* way, unless the page could not know: SwitchIsService.                   *)
THEOREM SwitchTells == Spec => []SwitchIsService
<1>1. Inv => SwitchIsService
  BY DEF Inv, PageInv, SwitchFollows, SwitchIsService
<1> QED
  BY PageAlways, <1>1, PTL

(* The label shows the zone of the system while none is being set, unless  *)
(* the page could not know: LabelIsZone.                                   *)
THEOREM LabelTells == Spec => []LabelIsZone
<1>1. Inv => LabelIsZone
  BY DEF Inv, PageInv, LabelFollows, LabelIsZone, Idle
<1> QED
  BY PageAlways, <1>1, PTL
-----------------------------------------------------------------------------
(* What follows is about the map.  The loop over the zones is induction    *)
(* over numbers, in the form that a nonempty set of them has a least one.  *)
LEMMA LeastNat ==
  ASSUME NEW T, T \subseteq Nat, T # {}
  PROVE  \E x \in T : \A y \in T : x <= y
<1>1. IsWellFoundedOn(OpToRel(<, Nat), Nat)
  BY NatLessThanWellFounded
<1>2. PICK x \in T : \A y \in T : ~ (<<y, x>> \in OpToRel(<, Nat))
  BY <1>1, WFMin
<1>3. \A y \in T : ~(y < x)
  BY <1>2 DEF OpToRel
<1> QED
  BY <1>3

LEMMA Greatest ==
  ASSUME NEW n \in Nat, NEW d \in SUBSET (1..n), n \in d
  PROVE  Max(d) = n
<1>1. \A x \in d : n >= x /\ x \in Nat
  OBVIOUS
<1>2. \A x \in d : (\A y \in d : x >= y) => x = n
  BY <1>1
<1> QED
  BY <1>1, <1>2 DEF Max

(* What the loop starts from, and the recursion by which it is defined.    *)
Nothing == [distance |-> Largest, nearest |-> NoZone, items |-> <<>>]

Folds(g, at, list, n) ==
  g = [d \in SUBSET (1..n) |->
         IF d = {} THEN Nothing ELSE Visit(at, g[d \ {Max(d)}], list[Max(d)])]

LEMMA Solution ==
  ASSUME NEW at, NEW list, NEW size \in Nat
  PROVE  \E g : Folds(g, at, list, size)
<1> DEFINE Step(before, n) == Visit(at, before, list[n])
           first == Nothing
           Without == {n \in Nat : ~ \E g : Folds(g, at, list, n)}
<1> SUFFICES ASSUME Without # {} PROVE FALSE
  OBVIOUS
<1>1. PICK n \in Without : \A m \in Without : n <= m
  BY LeastNat
<1>2. CASE n = 0
  <2> DEFINE g == [d \in SUBSET (1..0) |-> first]
  <2>1. \A d \in SUBSET (1..0) : d = {}
    OBVIOUS
  <2>2. Folds(g, at, list, 0)
    BY <2>1 DEF Folds
  <2> QED
    BY <1>1, <1>2, <2>2
<1>3. CASE n # 0
  <2>1. n \in Nat /\ n - 1 \in Nat /\ n - 1 < n
    BY <1>3
  <2>2. n - 1 \notin Without
    <3> HIDE DEF Without
    <3> QED
      BY <1>1, <2>1
  <2>3. PICK g : Folds(g, at, list, n - 1)
    BY <2>1, <2>2
  <2> DEFINE h == [d \in SUBSET (1..n) |-> IF n \in d THEN Step(g[d \ {n}], n) ELSE g[d]]
  <2>4. ASSUME NEW d \in SUBSET (1..n)
        PROVE  h[d] = IF d = {} THEN first ELSE Step(h[d \ {Max(d)}], Max(d))
    <3>1. CASE n \in d
      <4>1. Max(d) = n
        BY <2>1, <3>1, Greatest
      <4>2. d \ {n} \in SUBSET (1..n) /\ n \notin d \ {n} /\ d # {}
        BY <3>1
      <4>3. h[d \ {n}] = g[d \ {n}] /\ h[d] = Step(g[d \ {n}], n)
        BY <3>1, <4>2
      <4> HIDE DEF h, Step
      <4> QED
        BY <4>1, <4>2, <4>3
    <3>2. CASE n \notin d
      <4>1. d \in SUBSET (1..(n - 1)) /\ \A x : d \ {x} \in SUBSET (1..n) /\ n \notin d \ {x}
        <5>1. \A x \in 1..n : x # n => x \in 1..(n - 1)
          BY <2>1
        <5> HIDE DEF h, Without, Step, first
        <5> QED
          BY <3>2, <5>1
      <4>2. g[d] = IF d = {} THEN first ELSE Step(g[d \ {Max(d)}], Max(d))
        <5>1. g = [e \in SUBSET (1..(n - 1)) |->
                     IF e = {} THEN first ELSE Step(g[e \ {Max(e)}], Max(e))]
          BY <2>3 DEF Folds
        <5> HIDE DEF Step, first
        <5> QED
          BY <4>1, <5>1
      <4>3. h[d] = g[d] /\ h[d \ {Max(d)}] = g[d \ {Max(d)}]
        BY <3>2, <4>1
      <4> HIDE DEF h, Step
      <4> QED
        BY <4>2, <4>3
    <3> QED
      BY <3>1, <3>2
  <2>5. Folds(h, at, list, n)
    <3>1. h = [d \in SUBSET (1..n) |-> h[d]]
      OBVIOUS
    <3> HIDE DEF h
    <3>2. h = [d \in SUBSET (1..n) |->
                 IF d = {} THEN first ELSE Step(h[d \ {Max(d)}], Max(d))]
      <4> HIDE DEF Step, first
      <4> QED
        BY <2>4, <3>1
    <3> QED
      BY <3>2 DEF Folds
  <2> QED
    BY <1>1, <2>5
<1> QED
  BY <1>2, <1>3

(* The loop visits the zones one by one, in their order.                   *)
LEMMA OneByOne ==
  ASSUME zones \in Seq(Zones), NEW at
  PROVE  \E done :
           /\ done[0] = Nothing
           /\ \A k \in 1..Len(zones) : done[k] = Visit(at, done[k - 1], zones[k])
           /\ done[Len(zones)] = Scan(at)
<1> DEFINE N == Len(zones)
           iter == CHOOSE g : Folds(g, at, zones, N)
           done == [k \in 0..N |-> iter[1..k]]
<1>1. N \in Nat /\ DOMAIN zones = 1..N
  OBVIOUS
<1>2. Folds(iter, at, zones, N)
  <2>1. \E g : Folds(g, at, zones, N)
    BY <1>1, Solution
  <2> QED
    BY <2>1
<1>3. iter[1..N] = Scan(at)
  <2> DEFINE it == CHOOSE g :
               g = [d \in SUBSET (DOMAIN zones) |->
                      IF d = {} THEN Nothing ELSE Visit(at, g[d \ {Max(d)}], zones[Max(d)])]
  <2>1. Scan(at) = it[DOMAIN zones]
    BY DEF Scan, FoldLeft, MapThenFoldSet, Nothing
  <2>2. it = iter
    BY <1>1 DEF Folds
  <2> QED
    BY <1>1, <2>1, <2>2
<1> HIDE DEF iter, N
<1>4. done[N] = iter[1..N]
  BY <1>1
<1>5. done[0] = Nothing
  <2>1. 1..0 = {} /\ {} \in SUBSET (1..N) /\ 0 \in 0..N
    BY <1>1
  <2>2. iter[{}] = Nothing
    BY <1>2, <2>1 DEF Folds
  <2> QED
    BY <2>1, <2>2
<1>6. ASSUME NEW k \in 1..N PROVE done[k] = Visit(at, done[k - 1], zones[k])
  <2>1. 1..k \in SUBSET (1..N) /\ k \in 1..k /\ k \in 0..N /\ k - 1 \in 0..N /\ k \in Nat
    BY <1>1
  <2>2. Max(1..k) = k
    BY <2>1, Greatest
  <2>3. (1..k) \ {k} = 1..(k - 1)
    BY <2>1
  <2>4. iter[1..k] = Visit(at, iter[1..(k - 1)], zones[k])
    BY <1>2, <2>1, <2>2, <2>3 DEF Folds
  <2> QED
    BY <2>1, <2>4
<1> HIDE DEF done
<1> QED
  BY <1>3, <1>4, <1>5, <1>6 DEF N

(* What the loop knows of the zones visited.                               *)
Visited(at, acc, k) ==
  /\ acc.distance \in Nat
  /\ \/ acc.nearest = NoZone /\ k = 0 /\ acc.distance = Largest
     \/ acc.nearest \in Zones /\ acc.distance = Distance[at][acc.nearest]
  /\ acc.items \in Seq(Zones)
  /\ \A i \in DOMAIN acc.items : Distance[at][acc.items[i]] <= Radius
  /\ \A i \in 1..k : /\ acc.distance <= Distance[at][zones[i]]
                     /\ Distance[at][zones[i]] <= Radius => acc.items # <<>>

LEMMA DistanceType ==
  ASSUME NEW at \in Spots, NEW z \in Zones
  PROVE  Distance[at][z] \in Nat /\ Distance[at][z] < Largest
<1>1. Distance[at] \in [Zones -> Nat]
  BY MapAssumption
<1> QED
  BY <1>1, MapAssumption

LEMMA VisitedAll ==
  ASSUME zones \in Seq(Zones), NEW at \in Spots
  PROVE  Visited(at, Scan(at), Len(zones))
<1>1. Len(zones) \in Nat /\ DOMAIN zones = 1..Len(zones)
  OBVIOUS
<1>2. PICK done :
        /\ done[0] = Nothing
        /\ \A k \in 1..Len(zones) : done[k] = Visit(at, done[k - 1], zones[k])
        /\ done[Len(zones)] = Scan(at)
  BY OneByOne
<1> DEFINE Not == {k \in 0..Len(zones) : ~Visited(at, done[k], k)}
<1>3. Visited(at, Nothing, 0)
  BY MapAssumption, EmptySeq DEF Visited, Nothing
<1>4. ASSUME NEW k \in 1..Len(zones), NEW acc, Visited(at, acc, k - 1)
      PROVE  Visited(at, Visit(at, acc, zones[k]), k)
  <2> DEFINE z == zones[k]
             far == Distance[at][z]
             next == Visit(at, acc, z)
  <2>1. z \in Zones /\ far \in Nat /\ far < Largest /\ k \in Nat /\ Radius \in Nat
    <3>1. z \in Zones /\ k \in Nat
      BY <1>1
    <3> QED
      BY <3>1, DistanceType DEF Radius
  <2>2. 1..k = (1..(k - 1)) \union {k}
    BY <2>1
  <2>3. \A i \in 1..(k - 1) : Distance[at][zones[i]] \in Nat
    <3>1. \A i \in 1..(k - 1) : zones[i] \in Zones
      BY <1>1
    <3> QED
      BY <3>1, DistanceType
  <2>4. /\ next.distance = IF far < acc.distance THEN far ELSE acc.distance
        /\ next.nearest = IF far < acc.distance THEN z ELSE acc.nearest
        /\ next.items = IF far <= Radius THEN Append(acc.items, z) ELSE acc.items
    BY DEF Visit
  <2> HIDE DEF next
  <2>5. next.distance \in Nat /\ next.distance <= acc.distance /\ next.distance <= far
    BY <1>4, <2>1, <2>4 DEF Visited
  <2>6. next.nearest \in Zones /\ next.distance = Distance[at][next.nearest]
    BY <1>4, <2>1, <2>4 DEF Visited
  <2>7. /\ next.items \in Seq(Zones)
        /\ \A i \in DOMAIN next.items : Distance[at][next.items[i]] <= Radius
        /\ far <= Radius => next.items # <<>>
        /\ acc.items # <<>> => next.items # <<>>
    <3>1. CASE far <= Radius
      <4> DEFINE longer == Append(acc.items, z)
      <4>1. acc.items \in Seq(Zones)
        BY <1>4 DEF Visited
      <4>2. /\ longer \in Seq(Zones) /\ longer # <<>>
            /\ DOMAIN longer = DOMAIN acc.items \union {Len(acc.items) + 1}
            /\ longer[Len(acc.items) + 1] = z
            /\ \A i \in DOMAIN acc.items : longer[i] = acc.items[i]
        BY <2>1, <4>1, AppendProperties
      <4> HIDE DEF longer
      <4>3. \A i \in DOMAIN longer : Distance[at][longer[i]] <= Radius
        BY <1>4, <3>1, <4>2 DEF Visited
      <4> QED
        BY <2>4, <3>1, <4>2, <4>3 DEF longer
    <3>2. CASE ~(far <= Radius)
      BY <1>4, <2>4, <3>2 DEF Visited
    <3> QED
      BY <3>1, <3>2
  <2> HIDE DEF far, z
  <2>8. ASSUME NEW i \in 1..k
        PROVE  /\ next.distance <= Distance[at][zones[i]]
               /\ Distance[at][zones[i]] <= Radius => next.items # <<>>
    <3>1. CASE i = k
      BY <2>5, <2>7, <3>1 DEF far, z
    <3>2. CASE i # k
      <4>1. i \in 1..(k - 1)
        BY <2>2, <3>2
      <4>2. acc.distance <= Distance[at][zones[i]] /\ acc.distance \in Nat
            /\ (Distance[at][zones[i]] <= Radius => acc.items # <<>>)
        BY <1>4, <4>1 DEF Visited
      <4> QED
        BY <2>3, <2>5, <2>7, <4>1, <4>2
    <3> QED
      BY <3>1, <3>2
  <2> QED
    BY <2>5, <2>6, <2>7, <2>8 DEF Visited, next, z
<1>5. Not = {}
  <2> SUFFICES ASSUME Not # {} PROVE FALSE
    OBVIOUS
  <2>1. PICK k \in Not : \A j \in Not : k <= j
    <3>1. Not \subseteq Nat
      BY <1>1
    <3> HIDE DEF Not
    <3> QED
      BY <3>1, LeastNat
  <2>2. k # 0
    BY <1>2, <1>3, <2>1
  <2>3. k \in 1..Len(zones) /\ k - 1 \in 0..Len(zones) /\ ~(k <= k - 1)
    BY <1>1, <2>1, <2>2
  <2>4. Visited(at, done[k - 1], k - 1)
    BY <2>1, <2>3
  <2>5. Visited(at, done[k], k)
    BY <1>2, <1>4, <2>3, <2>4
  <2> QED
    BY <2>1, <2>5
<1> QED
  BY <1>1, <1>2, <1>5

(* The first of the sorted list is one of the list.                        *)
LEMMA FirstOfSorted ==
  ASSUME NEW list \in Seq(Zones), list # <<>>
  PROVE  Sorted(list)[1] \in Range(list)
<1> DEFINE R == Range(list)
<1>1. R \subseteq Zones /\ R # {}
  BY EmptySeq DEF Range
<1>2. IsFiniteSet(R) /\ R \subseteq Nat
  BY <1>1, FS_Subset, MapAssumption
<1>3. Cardinality(R) \in Nat /\ Cardinality(R) # 0
  BY <1>1, <1>2, FS_CardinalityType, FS_EmptySet
<1> HIDE DEF R
<1>4. PICK z \in R : \A y \in R : z <= y
  BY <1>1, <1>2, LeastNat
<1>5. Before(list, z) = {}
  BY <1>2, <1>4 DEF Before, R
<1>6. Cardinality(Before(list, z)) = 1 - 1
  BY <1>5, FS_EmptySet
<1>7. Sorted(list)[1] = CHOOSE y \in R : Cardinality(Before(list, y)) = 1 - 1
  BY <1>3 DEF Sorted, R
<1> QED
  BY <1>4, <1>6, <1>7 DEF R

(* The list of zones that the program searches holds every zone.           *)
LEMMA EveryZone ==
  ASSUME zones \in SetToSeqs(Zones)
  PROVE  zones \in Seq(Zones) /\ \A z \in Zones : \E i \in 1..Len(zones) : zones[i] = z
<1> DEFINE n == Cardinality(Zones)
<1>1. IsFiniteSet(Zones) /\ n \in Nat
  BY MapAssumption, FS_CardinalityType
<1>2. zones \in [1..n -> Zones] /\ \A i, j \in 1..n : i # j => zones[i] # zones[j]
  BY DEF SetToSeqs
<1>3. zones \in Injection(1..n, Zones)
  BY <1>2 DEF Injection, IsInjective
<1>4. Cardinality(1..n) = n
  BY <1>1, FS_Interval
<1> HIDE DEF n
<1>5. zones \in Surjection(1..n, Zones)
  BY <1>1, <1>3, <1>4, FS_Injection DEF n
<1>6. zones \in Seq(Zones) /\ Len(zones) = n
  BY <1>1, <1>2
<1> QED
  BY <1>5, <1>6 DEF Surjection

(* What a click offers first is near: NamedIsNear.                         *)
LEMMA ClickFinds ==
  ASSUME zones \in SetToSeqs(Zones), Zones # {}, NEW at \in Spots
  PROVE  LET first == Clicked(at)[1]
         IN  \/ Distance[at][first] <= Radius
             \/ \A z \in Zones : Distance[at][z] > Radius /\ Distance[at][z] >= Distance[at][first]
<1> DEFINE scan == Scan(at)
           near == IF scan.items = <<>> /\ scan.nearest # NoZone
                   THEN <<scan.nearest>> ELSE scan.items
           first == Clicked(at)[1]
<1>1. zones \in Seq(Zones) /\ \A z \in Zones : \E i \in 1..Len(zones) : zones[i] = z
  BY EveryZone
<1>2. Visited(at, scan, Len(zones))
  BY <1>1, VisitedAll
<1>3. Clicked(at) = Sorted(near)
  BY DEF Clicked
<1> HIDE DEF scan
<1>4. Len(zones) # 0 /\ Len(zones) \in Nat
  BY <1>1
<1>5. scan.nearest \in Zones /\ scan.nearest # NoZone
      /\ scan.distance = Distance[at][scan.nearest]
  BY <1>2, <1>4, MapAssumption DEF Visited
<1>6. CASE scan.items = <<>>
  <2>1. near = <<scan.nearest>>
    BY <1>5, <1>6
  <2>2. near \in Seq(Zones) /\ near # <<>> /\ Range(near) = {scan.nearest}
    <3>1. /\ <<scan.nearest>> \in Seq(Zones) /\ <<scan.nearest>> # <<>>
          /\ DOMAIN <<scan.nearest>> = {1} /\ <<scan.nearest>>[1] = scan.nearest
      BY <1>5
    <3>2. Range(<<scan.nearest>>) = {scan.nearest}
      BY <3>1 DEF Range
    <3> HIDE DEF near
    <3> QED
      BY <2>1, <3>1, <3>2
  <2>3. first = scan.nearest
    BY <1>3, <2>2, FirstOfSorted
  <2>4. ASSUME NEW z \in Zones PROVE Distance[at][z] > Radius /\ Distance[at][z] >= scan.distance
    <3>1. PICK i \in 1..Len(zones) : zones[i] = z
      BY <1>1
    <3>2. scan.distance <= Distance[at][z] /\ ~(Distance[at][z] <= Radius)
      BY <1>2, <1>6, <3>1 DEF Visited
    <3>3. Distance[at][z] \in Nat /\ scan.distance \in Nat /\ Radius \in Nat
      BY <1>2, MapAssumption DEF Visited, Radius
    <3> QED
      BY <3>2, <3>3
  <2> QED
    BY <1>5, <2>3, <2>4
<1>7. CASE scan.items # <<>>
  <2>1. near = scan.items /\ near \in Seq(Zones)
    BY <1>2, <1>7 DEF Visited
  <2>2. first \in Range(near)
    BY <1>3, <1>7, <2>1, FirstOfSorted
  <2>3. \A i \in DOMAIN near : Distance[at][near[i]] <= Radius
    BY <1>2, <2>1 DEF Visited
  <2> QED
    BY <2>2, <2>3 DEF Range
<1> QED
  BY <1>6, <1>7

(* The popup names the zone that would be set, and whatever the order of   *)
(* the zones it is near the last click: NamedIsNear.                       *)
THEOREM NamedNear == Spec => []NamedIsNear
<1> DEFINE I == MapInv /\ Zones # {}
<1>1. Init => I
  BY DEF Init, MapInv, NamedIsNear
<1>2. I /\ [Next]_vars => I'
  <2> SUFFICES ASSUME I, [Next]_vars PROVE MapInv'
    OBVIOUS
  <2>1. ASSUME UNCHANGED window, open' => open PROVE MapInv'
    BY <2>1 DEF MapInv, NamedIsNear, window
  <2>2. CASE OpenPage
    BY <2>2 DEF OpenPage, MapInv, NamedIsNear
  <2>3. CASE ClosePage
    BY <2>3 DEF ClosePage, MapInv, NamedIsNear
  <2>4. CASE Toggle
    BY <2>1, <2>4 DEF Toggle
  <2>5. CASE ShowDialog \/ Cancel
    BY <2>5 DEF ShowDialog, Cancel, MapInv, NamedIsNear
  <2>6. ASSUME NEW at \in Spots, ClickMap(at) PROVE MapInv'
    <3>1. zones \in SetToSeqs(Zones) /\ Zones # {}
      BY <2>6 DEF ClickMap, Idle, MapInv
    <3>2. /\ offered' = Clicked(at) /\ named' = offered'[1] /\ spot' = at
          /\ UNCHANGED <<open, zones>>
      BY <2>6 DEF ClickMap
    <3> QED
      BY <3>1, <3>2, ClickFinds DEF MapInv, NamedIsNear
  <2>7. CASE SetZone
    BY <2>1, <2>7 DEF SetZone
  <2>8. CASE Return
    BY <2>8 DEF Return, MapInv, NamedIsNear
  <2>9. CASE Timeout
    BY <2>1, <2>9 DEF Timeout
  <2>10. ASSUME NEW i \in DOMAIN calls, Grant(i) \/ Refuse(i) PROVE MapInv'
    BY <2>1, <2>10 DEF Grant, Refuse
  <2>11. CASE OtherSetsNtp \/ OtherSetsZone
    BY <2>1, <2>11 DEF OtherSetsNtp, OtherSetsZone
  <2>12. CASE UNCHANGED vars
    BY <2>1, <2>12 DEF vars
  <2> QED
    BY <2>2, <2>3, <2>4, <2>5, <2>6, <2>7, <2>8, <2>9, <2>10, <2>11, <2>12 DEF Next
<1>3. MapInv => NamedIsNear
  BY DEF MapInv
<1> QED
  BY <1>1, <1>2, <1>3, PTL DEF Spec
=============================================================================
