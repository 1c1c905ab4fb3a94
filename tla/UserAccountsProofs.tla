------------------------- MODULE UserAccountsProofs -------------------------
(***************************************************************************)
(* Proofs about the User page and the accounts service, for any names and  *)
(* passwords and any number of requests and signals on their way.          *)
(***************************************************************************)
EXTENDS UserAccounts, SequenceTheorems, TLAPS

Secrets == [hashed: BOOLEAN, text: Texts] \union {NoSecret}
Request == [op: {"create", "delete", "regular", "password"}, user: Names, secret: Secrets]
Signal == [op: {"added", "deleted"}, user: Names]
Form == [shown: BOOLEAN, name: Names \union {NoText}, password: Texts, verify: Texts]

Typed ==
  /\ form \in Form /\ asked \in Ask
  /\ users \subseteq Names /\ listed \subseteq Names
  /\ requests \in Seq(Request) /\ signals \in Seq(Signal)
  /\ secret \in [Names -> Secrets] /\ given \in [Names -> Secrets]

LEMMA RequestTypes ==
  ASSUME NEW name \in Names
  PROVE  /\ Create(name) \in Request /\ Delete(name) \in Request /\ Regular(name) \in Request
         /\ \A text \in Texts : /\ SetPassword(name, Plain(text)) \in Request
                                /\ SetPassword(name, Hashed(text)) \in Request
                                /\ Hashed(text) \in Secrets
BY DEF Create, Delete, Regular, SetPassword, Plain, Hashed, Request, Secrets

LEMMA BlankTypes ==
  ASSUME NEW shown \in BOOLEAN
  PROVE  Blank(shown) \in Form
BY DEF Blank, Form, Texts

(* Sequences: one element less in front, two more behind.                  *)
LEMMA TailTypes ==
  ASSUME NEW S, NEW s \in Seq(S), s # <<>>
  PROVE  /\ Tail(s) \in Seq(S) /\ Head(s) \in S /\ Head(s) = s[1]
         /\ Len(s) \in Nat \ {0} /\ 1 \in DOMAIN s
         /\ DOMAIN s = 1..Len(s) /\ DOMAIN Tail(s) = 1..(Len(s) - 1)
         /\ \A i \in 1..(Len(s) - 1) : Tail(s)[i] = s[i + 1]
BY EmptySeq

LEMMA TwoMore ==
  ASSUME NEW S, NEW s \in Seq(S), NEW a \in S, NEW b \in S
  PROVE  /\ s \o <<a, b>> \in Seq(S)
         /\ DOMAIN s = 1..Len(s) /\ Len(s) \in Nat
         /\ DOMAIN (s \o <<a, b>>) = 1..(Len(s) + 2)
         /\ \A i \in 1..Len(s) : (s \o <<a, b>>)[i] = s[i]
         /\ (s \o <<a, b>>)[Len(s) + 1] = a
         /\ (s \o <<a, b>>)[Len(s) + 2] = b
<1> DEFINE two == <<a, b>>
<1>1. two \in Seq(S) /\ Len(two) = 2 /\ two[1] = a /\ two[2] = b
  OBVIOUS
<1> HIDE DEF two
<1>2. s \o two \in Seq(S) /\ Len(s) \in Nat /\ Len(s \o two) = Len(s) + 2
  <2>1. Len(s) \in Nat
    BY LenProperties
  <2>2. s \o two \in Seq(S) /\ Len(s \o two) = Len(s) + Len(two)
    BY <1>1, ConcatProperties
  <2> QED
    BY <1>1, <2>1, <2>2
<1>3. DOMAIN s = 1..Len(s) /\ DOMAIN (s \o two) = 1..(Len(s) + 2)
  BY <1>2, LenProperties
<1>4. \A i \in 1..Len(s) : (s \o two)[i] = s[i]
  BY <1>1, <1>2, ConcatProperties
<1>5. (s \o two)[Len(s) + 1] = a /\ (s \o two)[Len(s) + 2] = b
  <2>1. \A k \in {1, 2} : k \in 1..Len(two) /\ Len(s) + k \in 1..(Len(s) + Len(two))
    BY <1>1, <1>2
  <2>2. \A k \in {1, 2} : (s \o two)[Len(s) + k] = two[k]
    BY <1>1, <1>2, <2>1, ConcatProperties
  <2> QED
    BY <1>1, <2>2
<1> QED
  BY <1>2, <1>3, <1>4, <1>5 DEF two
-----------------------------------------------------------------------------
LEMMA TypedInitially == Init => Typed
<1> SUFFICES ASSUME Init PROVE Typed
  OBVIOUS
<1>1. requests \in Seq(Request) /\ signals \in Seq(Signal)
  BY EmptySeq DEF Init
<1>2. form \in Form
  BY BlankTypes DEF Init
<1> QED
  BY <1>1, <1>2, AccountsAssumption DEF Init, Typed, Secrets, Ask

LEMMA TypedStays ==
  ASSUME Typed, [Next]_vars
  PROVE  Typed'
<1> USE DEF Typed, page, service, history
<1>1. CASE OpenForm
  BY <1>1 DEF OpenForm, Form
<1>2. CASE EditForm
  <2>1. form' \in Form
    BY <1>2 DEF EditForm, Form
  <2> QED
    BY <1>2, <2>1 DEF EditForm, Ask
<1>3. CASE Cancel
  BY <1>3, BlankTypes DEF Cancel, Ask
<1>4. CASE Add
  <2>1. form.name \in Names /\ form.password \in Passwords /\ form' \in Form
    BY <1>4 DEF Add, Form, Texts
  <2>2. requests' \in Seq(Request)
    BY <1>4, <2>1, RequestTypes DEF Add
  <2>3. asked' \in Ask
    BY <1>4, <2>1 DEF Add, Ask
  <2> QED
    BY <1>4, <2>1, <2>2, <2>3 DEF Add
<1>5. CASE ReopenPage
  <2>1. signals' \in Seq(Signal)
    BY <1>5, EmptySeq DEF ReopenPage
  <2> QED
    BY <1>5, <2>1, BlankTypes DEF ReopenPage, Ask
<1>6. ASSUME NEW name \in Names, UserAdded(name) PROVE Typed'
  <2>1. signals' \in Seq(Signal) /\ listed' \subseteq Names /\ UNCHANGED <<users, secret>>
    BY <1>6, TailTypes DEF UserAdded, Matches
  <2>2. CASE name = form.name
    <3>1. form.password \in Texts /\ form.shown \in BOOLEAN
      BY DEF Form
    <3>2. requests' \in Seq(Request)
      <4> DEFINE b == SetPassword(name, Hashed(form.password))
      <4>1. Regular(name) \in Request /\ b \in Request
        BY <3>1, RequestTypes
      <4>2. requests' = requests \o <<Regular(name), b>>
        BY <1>6, <2>2 DEF UserAdded
      <4> HIDE DEF b
      <4> QED
        BY <4>1, <4>2, TwoMore
    <3>3. given' \in [Names -> Secrets]
      <4>1. asked # NoAsk => asked.password \in Texts
        BY DEF Ask, Texts
      <4> QED
        BY <1>6, <2>2, <4>1, RequestTypes DEF UserAdded, GivenTo, Secrets
    <3>4. form' \in Form /\ asked' \in Ask
      BY <1>6, <2>2, <3>1, BlankTypes DEF UserAdded, Ask
    <3> QED
      BY <2>1, <3>2, <3>3, <3>4
  <2>3. CASE name # form.name
    BY <1>6, <2>1, <2>3 DEF UserAdded
  <2> QED
    BY <2>2, <2>3
<1>7. ASSUME NEW name \in Names, UserDeleted(name) PROVE Typed'
  BY <1>7, TailTypes DEF UserDeleted
<1>8. ASSUME NEW name \in Names, NEW text \in Passwords, ChangePassword(name, text)
      PROVE  Typed'
  <2>1. requests' \in Seq(Request)
    BY <1>8, RequestTypes DEF ChangePassword, Texts
  <2> QED
    BY <1>8, <2>1 DEF ChangePassword, Secrets
<1>9. ASSUME NEW name \in Names, DeleteUser(name) PROVE Typed'
  <2>1. requests' \in Seq(Request)
    BY <1>9, RequestTypes DEF DeleteUser
  <2> QED
    BY <1>9, <2>1 DEF DeleteUser, Secrets
<1>10. ASSUME NEW name \in Names, NewAccount(name)
       PROVE  /\ users' \subseteq Names /\ secret' \in [Names -> Secrets]
              /\ signals' \in Seq(Signal) /\ given' \in [Names -> Secrets]
  BY <1>10 DEF NewAccount, Secrets, Signal
<1>11. ASSUME NEW name \in Names, OldAccount(name)
       PROVE  /\ users' \subseteq Names /\ secret' \in [Names -> Secrets]
              /\ signals' \in Seq(Signal) /\ given' \in [Names -> Secrets]
  BY <1>11 DEF OldAccount, Secrets, Signal
<1>12. CASE Perform
  <2>1. requests' \in Seq(Request) /\ Head(requests) \in Request
    BY <1>12, TailTypes DEF Perform
  <2>2. Head(requests).user \in Names /\ Head(requests).secret \in Secrets
    BY <2>1 DEF Request
  <2>3. /\ users' \subseteq Names /\ secret' \in [Names -> Secrets]
        /\ signals' \in Seq(Signal) /\ given' \in [Names -> Secrets]
    BY <1>10, <1>11, <1>12, <2>2 DEF Perform
  <2> QED
    BY <1>12, <2>1, <2>3 DEF Perform
<1>13. CASE Refuse
  <2>1. requests' \in Seq(Request)
    BY <1>13, TailTypes DEF Refuse
  <2> QED
    BY <1>13, <2>1 DEF Refuse, Secrets
<1>14. ASSUME NEW name \in Names, OtherCreates(name) \/ OtherDeletes(name) PROVE Typed'
  BY <1>10, <1>11, <1>14 DEF OtherCreates, OtherDeletes
<1>15. CASE UNCHANGED vars
  BY <1>15 DEF vars
<1> QED
  BY <1>1, <1>2, <1>3, <1>4, <1>5, <1>6, <1>7, <1>8, <1>9, <1>12, <1>13, <1>14, <1>15
     DEF Next, PageHandles

THEOREM TypesHold == Spec => []Typed
BY TypedInitially, TypedStays, PTL DEF Spec
-----------------------------------------------------------------------------
(* A queue that only grew holds what it held, and no more for a name that  *)
(* none of the new requests is about.                                      *)
LEMMA Grown ==
  ASSUME NEW s \in Seq(Request), NEW t \in Seq(Request), NEW op, NEW name,
         Len(s) <= Len(t), \A i \in 1..Len(s) : t[i] = s[i],
         \A i \in (Len(s) + 1)..Len(t) : ~(t[i].op = op /\ t[i].user = name)
  PROVE  For(t, op, name) = For(s, op, name)
<1>1. /\ DOMAIN s = 1..Len(s) /\ DOMAIN t = 1..Len(t)
      /\ Len(s) \in Nat /\ Len(t) \in Nat
  BY LenProperties
<1>2. \A i \in 1..Len(t) : i \in 1..Len(s) \/ i \in (Len(s) + 1)..Len(t)
  BY <1>1
<1>3. \A i \in 1..Len(s) : i \in 1..Len(t)
  BY <1>1
<1> QED
  BY <1>1, <1>2, <1>3 DEF For

(* The head of a queue is the only request that can be missing afterwards. *)
LEMMA Shorter ==
  ASSUME NEW s \in Seq(Request), s # <<>>, NEW op, NEW name
  PROVE  /\ For(s, op, name) \subseteq Nat \ {0}
         /\ \A i \in Nat : i \in For(Tail(s), op, name) <=> i > 0 /\ i + 1 \in For(s, op, name)
         /\ For(Tail(s), op, name) \subseteq Nat
         /\ 1 \in For(s, op, name) <=> Head(s).op = op /\ Head(s).user = name
         /\ For(Tail(s), op, name) = {} => For(s, op, name) \subseteq {1}
<1> DEFINE t == Tail(s)
<1>1. /\ Len(s) \in Nat \ {0} /\ Head(s) = s[1] /\ 1 \in DOMAIN s
      /\ DOMAIN s = 1..Len(s) /\ DOMAIN t = 1..(Len(s) - 1)
      /\ \A i \in 1..(Len(s) - 1) : t[i] = s[i + 1]
  BY TailTypes
<1> HIDE DEF t
<1>2. For(s, op, name) \subseteq Nat \ {0} /\ For(t, op, name) \subseteq Nat
  BY <1>1 DEF For
<1>3. 1 \in For(s, op, name) <=> Head(s).op = op /\ Head(s).user = name
  BY <1>1 DEF For
<1>4. ASSUME NEW i \in Nat
      PROVE  i \in For(t, op, name) <=> i > 0 /\ i + 1 \in For(s, op, name)
  <2>1. i \in 1..(Len(s) - 1) <=> i > 0 /\ i + 1 \in 1..Len(s)
    BY <1>1
  <2> QED
    BY <1>1, <2>1 DEF For
<1>5. ASSUME For(t, op, name) = {}, NEW k \in For(s, op, name) PROVE k = 1
  <2>1. k \in Nat \ {0}
    BY <1>2, <1>5
  <2>2. k - 1 \in Nat /\ (k - 1) + 1 = k
    BY <2>1
  <2>3. ~(k - 1 > 0)
    BY <1>4, <1>5, <2>2
  <2> QED
    BY <2>1, <2>3
<1> QED
  BY <1>2, <1>3, <1>4, <1>5 DEF t

(* Taking the head leaves the youngest request to set a password the       *)
(* youngest, unless it was the only one.                                   *)
LEMMA ShorterYoungest ==
  ASSUME NEW s \in Seq(Request), s # <<>>, NEW name, NEW value, Youngest(s, name, value)
  PROVE  /\ For(Tail(s), "password", name) # {} => Youngest(Tail(s), name, value)
         /\ For(Tail(s), "password", name) = {} =>
              Head(s).op = "password" /\ Head(s).user = name /\ Head(s).secret = value
<1> DEFINE F == For(s, "password", name)
           T == For(Tail(s), "password", name)
<1>1. PICK i \in F : s[i].secret = value /\ \A j \in F : j <= i
  BY DEF Youngest
<1>2. /\ F \subseteq Nat \ {0} /\ T \subseteq Nat
      /\ \A k \in Nat : k \in T <=> k > 0 /\ k + 1 \in F
      /\ 1 \in F <=> Head(s).op = "password" /\ Head(s).user = name
      /\ T = {} => F \subseteq {1}
  BY Shorter
<1>3. /\ Len(s) \in Nat \ {0} /\ Head(s) = s[1] /\ DOMAIN s = 1..Len(s)
      /\ \A k \in 1..(Len(s) - 1) : Tail(s)[k] = s[k + 1]
  BY TailTypes
<1>4. F \subseteq 1..Len(s)
  BY <1>3 DEF For
<1> HIDE DEF F, T
<1>5. CASE T = {}
  BY <1>1, <1>2, <1>3, <1>5 DEF T
<1>6. ASSUME NEW k \in T PROVE Youngest(Tail(s), name, value)
  <2>1. k \in Nat /\ k > 0 /\ k + 1 \in F
    BY <1>2
  <2>2. i \in Nat /\ k + 1 <= i /\ i <= Len(s)
    BY <1>1, <1>2, <1>3, <1>4, <2>1
  <2>3. i - 1 \in Nat /\ i - 1 > 0 /\ (i - 1) + 1 = i /\ i - 1 \in 1..(Len(s) - 1)
    BY <1>3, <2>1, <2>2
  <2>4. i - 1 \in T /\ Tail(s)[i - 1].secret = value
    BY <1>1, <1>2, <1>3, <2>3
  <2>5. ASSUME NEW j \in T PROVE j <= i - 1
    <3>1. j \in Nat /\ j + 1 \in F
      BY <1>2
    <3>2. j + 1 <= i
      BY <1>1, <3>1
    <3> QED
      BY <2>2, <3>1, <3>2
  <2> QED
    BY <2>4, <2>5 DEF Youngest, T
<1> QED
  BY <1>5, <1>6 DEF T

(* Requests about other names, or to create or delete, change nothing.     *)
LEMMA OthersAsked ==
  ASSUME NEW s \in Seq(Request), NEW t \in Seq(Request), NEW name,
         Len(s) <= Len(t), \A i \in 1..Len(s) : t[i] = s[i],
         \A i \in (Len(s) + 1)..Len(t) :
           t[i].user # name \/ t[i].op \notin {"regular", "password"}
  PROVE  /\ For(t, "regular", name) = For(s, "regular", name)
         /\ For(t, "password", name) = For(s, "password", name)
         /\ \A value : Youngest(s, name, value) => Youngest(t, name, value)
<1>1. ASSUME NEW op \in {"regular", "password"} PROVE For(t, op, name) = For(s, op, name)
  BY Grown
<1>2. ASSUME NEW value, Youngest(s, name, value) PROVE Youngest(t, name, value)
  <2>1. For(s, "password", name) \subseteq 1..Len(s)
    BY LenProperties DEF For
  <2> QED
    BY <1>1, <1>2, <2>1 DEF Youngest
<1> QED
  BY <1>1, <1>2

LEMMA StillComing ==
  ASSUME NEW n, IsComing(n), given'[n] = given[n], secret'[n] = secret[n],
         n \in regular => n \in regular',
         For(requests', "regular", n) = For(requests, "regular", n),
         For(requests', "password", n) = For(requests, "password", n),
         Youngest(requests, n, given[n]) => Youngest(requests', n, given[n])
  PROVE  IsComing(n)'
BY DEF IsComing

(* One request more for another name, or to create or delete.              *)
LEMMA OneMore ==
  ASSUME Typed, NEW r \in Request, requests' = Append(requests, r), NEW n,
         r.user # n \/ r.op \notin {"regular", "password"},
         IsComing(n), given'[n] = given[n], UNCHANGED <<secret, regular>>
  PROVE  IsComing(n)'
<1>1. /\ requests \in Seq(Request) /\ requests' \in Seq(Request)
      /\ Len(requests) \in Nat /\ Len(requests') = Len(requests) + 1
      /\ \A i \in 1..Len(requests) : requests'[i] = requests[i]
      /\ requests'[Len(requests) + 1] = r
  BY AppendProperties, LenProperties DEF Typed
<1>2. /\ Len(requests) <= Len(requests')
      /\ \A i \in (Len(requests) + 1)..Len(requests') :
           requests'[i].user # n \/ requests'[i].op \notin {"regular", "password"}
  <2>1. \A i \in (Len(requests) + 1)..Len(requests') : i = Len(requests) + 1
    BY <1>1
  <2> QED
    BY <1>1, <2>1
<1>3. /\ For(requests', "regular", n) = For(requests, "regular", n)
      /\ For(requests', "password", n) = For(requests, "password", n)
      /\ \A value : Youngest(requests, n, value) => Youngest(requests', n, value)
  BY <1>1, <1>2, OthersAsked
<1> QED
  BY <1>3, StillComing

(* One request less.                                                       *)
LEMMA OneLess ==
  ASSUME Typed, requests # <<>>, requests' = Tail(requests), NEW n, IsComing(n),
         given'[n] = given[n],
         n \in regular => n \in regular',
         Head(requests).op = "regular" /\ Head(requests).user = n => n \in regular',
         IF Head(requests).op = "password" /\ Head(requests).user = n
         THEN secret'[n] = Head(requests).secret
         ELSE secret'[n] = secret[n]
  PROVE  IsComing(n)'
<1> DEFINE R == For(requests, "regular", n)
           P == For(requests, "password", n)
           R1 == For(requests', "regular", n)
           P1 == For(requests', "password", n)
<1>1. /\ R1 = {} => R \subseteq {1}
      /\ 1 \in R <=> Head(requests).op = "regular" /\ Head(requests).user = n
  BY Shorter DEF Typed
<1>2. /\ P1 = {} => P \subseteq {1}
      /\ 1 \in P <=> Head(requests).op = "password" /\ Head(requests).user = n
      /\ P1 \subseteq Nat /\ \A k \in Nat : k \in P1 => k + 1 \in P
  BY Shorter DEF Typed
<1>3. ASSUME R1 = {} PROVE n \in regular'
  <2>1. CASE R = {}
    BY <2>1 DEF IsComing
  <2>2. CASE 1 \in R
    BY <1>1, <2>2
  <2> QED
    BY <1>1, <1>3, <2>1, <2>2
<1>4. CASE P = {}
  <2>1. P1 = {} /\ secret'[n] = secret[n]
    BY <1>2, <1>4
  <2> QED
    BY <1>3, <1>4, <2>1 DEF IsComing
<1>5. CASE P # {}
  <2>1. Youngest(requests, n, given[n])
    BY <1>5 DEF IsComing
  <2>2. /\ P1 # {} => Youngest(requests', n, given[n])
        /\ P1 = {} => /\ Head(requests).op = "password" /\ Head(requests).user = n
                      /\ Head(requests).secret = given[n]
    BY <2>1, ShorterYoungest DEF Typed
  <2> QED
    BY <1>3, <2>2 DEF IsComing
<1> QED
  BY <1>4, <1>5
-----------------------------------------------------------------------------
LEMMA InvInitially == Init => AccountsInv
<1> SUFFICES ASSUME Init PROVE AccountsInv
  OBVIOUS
<1>1. \A n \in users : given[n] = NoSecret
  BY AccountsAssumption DEF Init
<1> QED
  BY <1>1 DEF Init, AccountsInv, FormIsAsked, GivenIsComing

LEMMA FormStays ==
  ASSUME Typed, FormIsAsked, [Next]_vars
  PROVE  FormIsAsked'
<1> USE DEF FormIsAsked, page, service, history
<1>1. CASE OpenForm
  BY <1>1 DEF OpenForm, Typed, Form
<1>2. CASE EditForm \/ Cancel \/ ReopenPage
  BY <1>2 DEF EditForm, Cancel, ReopenPage
<1>3. CASE Add
  BY <1>3 DEF Add, Typed, Form
<1>4. CASE PageHandles
  BY <1>4 DEF PageHandles, UserAdded, UserDeleted
<1>5. CASE UNCHANGED <<form, asked>>
  BY <1>5
<1>6. CASE Perform \/ Refuse
  BY <1>5, <1>6 DEF Perform, Refuse
<1>7. ASSUME NEW name \in Names,
             \/ \E text \in Passwords : ChangePassword(name, text)
             \/ DeleteUser(name) \/ OtherCreates(name) \/ OtherDeletes(name)
      PROVE  FormIsAsked'
  BY <1>5, <1>7 DEF ChangePassword, DeleteUser, OtherCreates, OtherDeletes
<1> QED
  BY <1>1, <1>2, <1>3, <1>4, <1>5, <1>6, <1>7 DEF Next, vars

(* The page answers "added": regular mode and the password are asked for.  *)
LEMMA AnsweredStays ==
  ASSUME Typed, FormIsAsked, NEW name \in Names, UserAdded(name), name = form.name,
         NEW n \in users, given[n] # NoSecret => IsComing(n), given'[n] # NoSecret
  PROVE  IsComing(n)'
<1> DEFINE b == SetPassword(name, Hashed(form.password))
<1>1. /\ Regular(name) \in Request /\ b \in Request
      /\ Regular(name).op = "regular" /\ Regular(name).user = name
      /\ b.op = "password" /\ b.user = name /\ b.secret = Hashed(form.password)
  BY RequestTypes DEF Typed, Form, Regular, SetPassword
<1>2. /\ requests' = requests \o <<Regular(name), b>>
      /\ given' = GivenTo(name) /\ UNCHANGED <<secret, regular>>
  BY DEF UserAdded, service
<1> HIDE DEF b
<1>3. /\ requests \in Seq(Request) /\ requests' \in Seq(Request) /\ Len(requests) \in Nat
      /\ DOMAIN requests' = 1..(Len(requests) + 2)
      /\ \A i \in 1..Len(requests) : requests'[i] = requests[i]
      /\ requests'[Len(requests) + 1] = Regular(name) /\ requests'[Len(requests) + 2] = b
  BY <1>1, <1>2, TwoMore DEF Typed
<1>4. CASE n = name
  <2>1. Len(requests) + 1 \in DOMAIN requests' /\ Len(requests) + 2 \in DOMAIN requests'
    BY <1>3
  <2>2. Len(requests) + 1 \in For(requests', "regular", n)
    BY <1>1, <1>3, <1>4, <2>1 DEF For
  <2>3. given'[n] = Hashed(form.password)
    BY <1>2, <1>4 DEF GivenTo, FormIsAsked, Typed
  <2>4. Len(requests) + 2 \in For(requests', "password", n)
    BY <1>1, <1>3, <1>4, <2>1 DEF For
  <2>5. \A j \in For(requests', "password", n) : j <= Len(requests) + 2
    BY <1>3 DEF For
  <2>6. Youngest(requests', n, given'[n])
    BY <1>1, <1>3, <2>3, <2>4, <2>5 DEF Youngest
  <2> QED
    BY <2>2, <2>4, <2>6 DEF IsComing
<1>5. CASE n # name
  <2>1. given'[n] = given[n] /\ IsComing(n)
    BY <1>2, <1>5 DEF GivenTo, Typed
  <2>2. Len(requests') = Len(requests) + 2
    BY <1>3, LenProperties
  <2>3. \A i \in (Len(requests) + 1)..Len(requests') :
           i = Len(requests) + 1 \/ i = Len(requests) + 2
    BY <1>3, <2>2
  <2>4. \A i \in (Len(requests) + 1)..Len(requests') : requests'[i].user # n
    BY <1>1, <1>3, <1>5, <2>3
  <2>5. /\ For(requests', "regular", n) = For(requests, "regular", n)
        /\ For(requests', "password", n) = For(requests, "password", n)
        /\ \A value : Youngest(requests, n, value) => Youngest(requests', n, value)
    <3>1. Len(requests) <= Len(requests')
      BY <1>3, <2>2
    <3> QED
      BY <1>3, <2>4, <3>1, OthersAsked
  <2> QED
    BY <1>2, <2>1, <2>5, StillComing
<1> QED
  BY <1>4, <1>5

LEMMA PerformStays ==
  ASSUME Typed, GivenIsComing, Perform, NEW n \in users', given'[n] # NoSecret
  PROVE  IsComing(n)'
<1> DEFINE r == Head(requests)
<1>1. r \in Request /\ requests # <<>> /\ requests' = Tail(requests)
  BY TailTypes DEF Perform, Typed
<1>2. r.user \in Names /\ r.op \in {"create", "delete", "regular", "password"}
  BY <1>1 DEF Request
<1>3. n \in users /\ given'[n] = given[n]
  BY <1>2 DEF Perform, NewAccount, OldAccount, service, Typed
<1>4. IsComing(n)
  BY <1>3 DEF GivenIsComing
<1>5. /\ n \in regular => n \in regular'
      /\ r.op = "regular" /\ r.user = n => n \in regular'
      /\ IF r.op = "password" /\ r.user = n THEN secret'[n] = r.secret
         ELSE secret'[n] = secret[n]
  BY <1>2, <1>3 DEF Perform, NewAccount, OldAccount, service, Typed
<1> QED
  BY <1>1, <1>3, <1>4, <1>5, OneLess

LEMMA RefuseStays ==
  ASSUME Typed, GivenIsComing, Refuse, NEW n \in users', given'[n] # NoSecret
  PROVE  IsComing(n)'
<1> DEFINE r == Head(requests)
<1>1. r \in Request /\ requests # <<>> /\ requests' = Tail(requests)
  BY TailTypes DEF Refuse, Typed
<1>2. r.user \in Names
  BY <1>1 DEF Request
<1>3. /\ UNCHANGED <<users, secret, regular>> /\ given'[n] = given[n]
      /\ r.op = "create" \/ r.user # n
  BY <1>2 DEF Refuse, service, Typed
<1>4. IsComing(n)
  BY <1>3 DEF GivenIsComing
<1> QED
  BY <1>1, <1>3, <1>4, OneLess

(* An account deleted and created again is to have no password.            *)
LEMMA OthersStay ==
  ASSUME Typed, GivenIsComing, NEW name \in Names, NewAccount(name) \/ OldAccount(name),
         UNCHANGED requests, NEW n \in users', given'[n] # NoSecret
  PROVE  IsComing(n)'
<1>1. /\ n \in users /\ given'[n] = given[n] /\ secret'[n] = secret[n]
      /\ n \in regular => n \in regular'
  BY DEF NewAccount, OldAccount, Typed
<1>2. IsComing(n)
  BY <1>1 DEF GivenIsComing
<1> QED
  BY <1>1, <1>2, StillComing

LEMMA GivenStays ==
  ASSUME Typed, AccountsInv, [Next]_vars
  PROVE  GivenIsComing'
<1> SUFFICES ASSUME NEW n \in users', given'[n] # NoSecret
             PROVE  IsComing(n)'
  BY DEF GivenIsComing
<1> USE DEF AccountsInv, page, service, history
<1>1. CASE UNCHANGED <<requests, users, secret, regular, given>>
  BY <1>1 DEF GivenIsComing, IsComing
<1>2. CASE OpenForm \/ EditForm \/ Cancel \/ ReopenPage \/ UNCHANGED vars
  BY <1>1, <1>2 DEF OpenForm, EditForm, Cancel, ReopenPage, vars
<1>3. CASE Add
  <2>1. Create(form.name) \in Request /\ Create(form.name).op = "create"
    BY <1>3, RequestTypes DEF Add, Typed, Form, Create
  <2>2. /\ requests' = Append(requests, Create(form.name))
        /\ UNCHANGED <<users, secret, regular, given>>
    BY <1>3 DEF Add
  <2>3. IsComing(n)
    BY <2>2 DEF GivenIsComing
  <2> QED
    BY <2>1, <2>2, <2>3, OneMore
<1>4. ASSUME NEW name \in Names, UserAdded(name) PROVE IsComing(n)'
  <2>1. UNCHANGED users
    BY <1>4 DEF UserAdded
  <2>2. CASE name = form.name
    BY <1>4, <2>1, <2>2, AnsweredStays DEF GivenIsComing
  <2>3. CASE name # form.name
    BY <1>1, <1>4, <2>3 DEF UserAdded
  <2> QED
    BY <2>2, <2>3
<1>5. ASSUME NEW name \in Names, UserDeleted(name) PROVE IsComing(n)'
  BY <1>1, <1>5 DEF UserDeleted
<1>6. ASSUME NEW name \in Names, NEW r \in Request, r.user = name,
             requests' = Append(requests, r),
             given' = [given EXCEPT ![name] = NoSecret],
             UNCHANGED <<users, secret, regular>>
      PROVE  IsComing(n)'
  <2>1. n # name /\ given'[n] = given[n] /\ n \in users
    BY <1>6 DEF Typed
  <2>2. IsComing(n)
    BY <2>1 DEF GivenIsComing
  <2> QED
    BY <1>6, <2>1, <2>2, OneMore
<1>7. ASSUME NEW name \in Names, NEW text \in Passwords, ChangePassword(name, text)
      PROVE  IsComing(n)'
  <2>1. /\ SetPassword(name, Plain(text)) \in Request
        /\ SetPassword(name, Plain(text)).user = name
    BY RequestTypes DEF Texts, SetPassword
  <2> QED
    BY <1>6, <1>7, <2>1 DEF ChangePassword
<1>8. ASSUME NEW name \in Names, DeleteUser(name) PROVE IsComing(n)'
  <2>1. Delete(name) \in Request /\ Delete(name).user = name
    BY RequestTypes DEF Delete
  <2> QED
    BY <1>6, <1>8, <2>1 DEF DeleteUser
<1>9. CASE Perform
  BY <1>9, PerformStays
<1>10. CASE Refuse
  BY <1>10, RefuseStays
<1>11. ASSUME NEW name \in Names, OtherCreates(name) \/ OtherDeletes(name)
       PROVE  IsComing(n)'
  <2>1. (NewAccount(name) \/ OldAccount(name)) /\ UNCHANGED requests
    BY <1>11 DEF OtherCreates, OtherDeletes
  <2> QED
    BY <2>1, OthersStay
<1> QED
  BY <1>2, <1>3, <1>4, <1>5, <1>7, <1>8, <1>9, <1>10, <1>11 DEF Next, PageHandles

(* What was asked for is what the form says, and the password an account   *)
(* is to have is the last one on its way to it, or there.                  *)
THEOREM AccountsAlways == Spec => []AccountsInv
<1>1. Typed /\ AccountsInv /\ [Next]_vars => AccountsInv'
  BY FormStays, GivenStays DEF AccountsInv
<1> QED
  BY <1>1, InvInitially, TypesHold, PTL DEF Spec

(* An account added without touching the form in between ends up with the  *)
(* password that was typed and in regular mode.                            *)
THEOREM PasswordArrives == Spec => []GivenAsAsked
<1>1. AccountsInv => GivenAsAsked
  <2> SUFFICES ASSUME AccountsInv, NEW name \in users, given[name] # NoSecret,
                      \A i \in DOMAIN requests : requests[i].user # name
               PROVE  secret[name] = given[name] /\ name \in regular
    BY DEF GivenAsAsked
  <2>1. For(requests, "regular", name) = {} /\ For(requests, "password", name) = {}
    BY DEF For
  <2> QED
    BY <2>1 DEF AccountsInv, GivenIsComing, IsComing
<1> QED
  BY <1>1, AccountsAlways, PTL
=============================================================================
