---------------------------- MODULE UserAccounts ----------------------------
(***************************************************************************)
(* The User page (qml/User/Main.qml, qml/User/UserDelegateItem.qml) and    *)
(* the accounts service behind it.                                         *)
(*                                                                         *)
(* Adding a user takes two rounds: createUser() asks for an account        *)
(* without a password, and only when the service reports the account does  *)
(* the page send the password, which it reads from the form at that time.  *)
(* In between the form is hidden but still filled, and can be opened again *)
(* and changed.  Requests to the service and its signals each keep their   *)
(* order.  The type of account and the picture are left out.               *)
(***************************************************************************)
EXTENDS Naturals, Sequences, SequencesExt

CONSTANTS
  Names,        \* user names
  Logged,       \* the user of this session
  Passwords,
  NoText,       \* an empty field
  NoSecret,     \* the password of a new account
  MaxMessages   \* bound on requests and signals on their way together

Texts == Passwords \union {NoText}
Hashed(text) == [hashed |-> TRUE, text |-> text]
Plain(text) == [hashed |-> FALSE, text |-> text]

ASSUME AccountsAssumption ==
  /\ Logged \in Names
  /\ NoText \notin Names \union Passwords
  /\ NoSecret \notin [hashed: BOOLEAN, text: Texts]
  /\ MaxMessages \in Nat

VARIABLES
  form,         \* newUserItem and its fields
  listed,       \* the users userModel shows
  requests,     \* what the service has not handled
  signals,      \* what the page has not handled
  users,        \* accounts of the service
  secret,       \* what the service keeps as their passwords
  regular,      \* accounts in RegularPasswordMode
  asked,        \* history: the Add not yet answered with the form untouched since
  given,        \* history: what new accounts should have as their passwords
  refused       \* history: names createUser was refused for

page == <<form, listed>>
service == <<users, secret, regular>>
history == <<asked, given, refused>>
vars == <<page, requests, signals, service, history>>
-----------------------------------------------------------------------------
Blank(shown) == [shown |-> shown, name |-> NoText, password |-> NoText, verify |-> NoText]
NoAsk == [name |-> NoText, password |-> NoText]
Ask == [name: Names, password: Passwords] \union {NoAsk}

(* What users and other programs do waits for room; nobody else does.      *)
Room == Len(requests) + Len(signals) < MaxMessages
Create(name) == [op |-> "create", user |-> name, secret |-> NoSecret]
Delete(name) == [op |-> "delete", user |-> name, secret |-> NoSecret]
Regular(name) == [op |-> "regular", user |-> name, secret |-> NoSecret]
SetPassword(name, value) == [op |-> "password", user |-> name, secret |-> value]

Init ==
  /\ form = Blank(FALSE)
  /\ listed = {Logged} /\ users = {Logged} /\ regular = {Logged}
  /\ requests = <<>> /\ signals = <<>>
  /\ secret = [n \in Names |-> NoSecret]
  /\ asked = NoAsk /\ refused = {}
  /\ given = [n \in Names |-> NoSecret]
-----------------------------------------------------------------------------
(* The form: _addUserButton, the fields and cancelButton.                  *)
OpenForm ==
  /\ ~form.shown
  /\ form' = [form EXCEPT !.shown = TRUE]
  /\ UNCHANGED <<listed, requests, signals, service, history>>

EditForm ==
  /\ form.shown
  /\ \/ \E name \in Names \union {NoText} : form' = [form EXCEPT !.name = name]
     \/ \E text \in Texts : form' = [form EXCEPT !.password = text]
     \/ \E text \in Texts : form' = [form EXCEPT !.verify = text]
  /\ form' # form
  /\ asked' = NoAsk
  /\ UNCHANGED <<listed, requests, signals, service, given, refused>>

Cancel ==
  /\ form.shown
  /\ form' = Blank(FALSE)
  /\ asked' = NoAsk
  /\ UNCHANGED <<listed, requests, signals, service, given, refused>>

(* Another page is shown and this one comes back: with the old page went   *)
(* its form and the signals it has not seen; requests are still carried    *)
(* out.                                                                    *)
ReopenPage ==
  /\ form' = Blank(FALSE) /\ listed' = users
  /\ signals' = <<>>
  /\ asked' = NoAsk
  /\ UNCHANGED <<requests, service, given, refused>>

(* addButton, when createUser() reports that the request was sent; if not  *)
(* the page stays as it is.                                                *)
Add ==
  /\ form.shown
  /\ form.name # NoText /\ form.password # NoText /\ form.password = form.verify
  /\ Room /\ requests' = Append(requests, Create(form.name))
  /\ form' = [form EXCEPT !.shown = FALSE]
  /\ asked' = [name |-> form.name, password |-> form.password]
  /\ refused' = refused \ {form.name}
  /\ UNCHANGED <<listed, signals, service, given>>

(* onUserAdded, with the page's model: the account gets the password in    *)
(* the form if the form holds its name.  The variants look at a form that  *)
(* is shown only, and clear the form before reading it.                    *)
Matches(name) == signals # <<>> /\ Head(signals) = [op |-> "added", user |-> name]
GivenTo(name) ==
  [given EXCEPT ![name] = IF asked = NoAsk THEN NoSecret ELSE Hashed(asked.password)]
UserAddedIfShown(name) ==
  /\ Matches(name)
  /\ signals' = Tail(signals)
  /\ listed' = listed \union {name}
  /\ IF form.shown /\ name = form.name
     THEN /\ requests' = requests \o <<Regular(name), SetPassword(name, Hashed(form.password))>>
          /\ form' = Blank(form.shown)
          /\ asked' = NoAsk /\ given' = GivenTo(name)
     ELSE UNCHANGED <<form, requests, asked, given>>
  /\ UNCHANGED <<service, refused>>
UserAddedClearedFirst(name) ==
  /\ Matches(name)
  /\ signals' = Tail(signals)
  /\ listed' = listed \union {name}
  /\ IF name = form.name
     THEN /\ form' = Blank(form.shown)
          /\ requests' = requests \o <<Regular(name), SetPassword(name, Hashed(form'.password))>>
          /\ asked' = NoAsk /\ given' = GivenTo(name)
     ELSE UNCHANGED <<form, requests, asked, given>>
  /\ UNCHANGED <<service, refused>>
UserAdded(name) ==
  /\ Matches(name)
  /\ signals' = Tail(signals)
  /\ listed' = listed \union {name}
  /\ IF name = form.name
     THEN /\ requests' = requests \o <<Regular(name), SetPassword(name, Hashed(form.password))>>
          /\ form' = Blank(form.shown)
          /\ asked' = NoAsk /\ given' = GivenTo(name)
     ELSE UNCHANGED <<form, requests, asked, given>>
  /\ UNCHANGED <<service, refused>>

UserDeleted(name) ==
  /\ signals # <<>> /\ Head(signals) = [op |-> "deleted", user |-> name]
  /\ signals' = Tail(signals)
  /\ listed' = listed \ {name}
  /\ UNCHANGED <<form, requests, service, history>>

(* UserDelegateItem: "Apply" below "Change Password" sends the text as it  *)
(* is; "Delete User" is disabled for the user of the session.              *)
ChangePassword(name, text) ==
  /\ name \in listed
  /\ Room /\ requests' = Append(requests, SetPassword(name, Plain(text)))
  /\ given' = [given EXCEPT ![name] = NoSecret]
  /\ UNCHANGED <<page, signals, service, asked, refused>>

DeleteUser(name) ==
  /\ name \in listed \ {Logged}
  /\ Room /\ requests' = Append(requests, Delete(name))
  /\ given' = [given EXCEPT ![name] = NoSecret]
  /\ UNCHANGED <<page, signals, service, asked, refused>>
-----------------------------------------------------------------------------
(* Outside src/: the accounts service.                                     *)
NewAccount(name) ==
  /\ users' = users \union {name}
  /\ secret' = [secret EXCEPT ![name] = NoSecret]
  /\ regular' = regular \ {name}
  /\ signals' = Append(signals, [op |-> "added", user |-> name])
  /\ given' = [given EXCEPT ![name] = NoSecret]

OldAccount(name) ==
  /\ users' = users \ {name}
  /\ signals' = Append(signals, [op |-> "deleted", user |-> name])
  /\ given' = [given EXCEPT ![name] = NoSecret]
  /\ UNCHANGED <<secret, regular>>

(* It carries a request out; a name can be created once.                   *)
Perform ==
  /\ requests # <<>>
  /\ requests' = Tail(requests)
  /\ LET request == Head(requests)
         name == request.user
     IN \/ /\ request.op = "create" /\ name \notin users
           /\ NewAccount(name) /\ UNCHANGED refused
        \/ /\ request.op = "create" /\ name \in users
           /\ refused' = refused \union {name}
           /\ UNCHANGED <<signals, service, given>>
        \/ /\ request.op = "delete" /\ name \in users
           /\ OldAccount(name) /\ UNCHANGED refused
        \/ /\ request.op = "regular" /\ name \in users
           /\ regular' = regular \union {name}
           /\ UNCHANGED <<signals, users, secret, given, refused>>
        \/ /\ request.op = "password" /\ name \in users
           /\ secret' = [secret EXCEPT ![name] = request.secret]
           /\ UNCHANGED <<signals, users, regular, given, refused>>
        \/ /\ request.op # "create" /\ name \notin users
           /\ UNCHANGED <<signals, service, given, refused>>
  /\ UNCHANGED <<page, asked>>

(* Or refuses it: the user is not authorised.                              *)
Refuse ==
  /\ requests # <<>>
  /\ requests' = Tail(requests)
  /\ LET request == Head(requests)
     IN IF request.op = "create"
        THEN refused' = refused \union {request.user} /\ UNCHANGED given
        ELSE given' = [given EXCEPT ![request.user] = NoSecret] /\ UNCHANGED refused
  /\ UNCHANGED <<page, signals, service, asked>>

(* Other programs use it too.                                              *)
OtherCreates(name) ==
  /\ Room /\ name \notin users
  /\ NewAccount(name)
  /\ UNCHANGED <<page, requests, asked, refused>>
OtherDeletes(name) ==
  /\ Room /\ name \in users \ {Logged}
  /\ OldAccount(name)
  /\ UNCHANGED <<page, requests, asked, refused>>
-----------------------------------------------------------------------------
PageHandles == \E name \in Names : UserAdded(name) \/ UserDeleted(name)

Next ==
  \/ OpenForm \/ EditForm \/ Cancel \/ Add \/ ReopenPage
  \/ PageHandles
  \/ \E name \in Names, text \in Passwords : ChangePassword(name, text)
  \/ \E name \in Names : DeleteUser(name)
  \/ Perform \/ Refuse
  \/ \E name \in Names : OtherCreates(name) \/ OtherDeletes(name)

Spec == Init /\ [][Next]_vars

(* The event loop runs and the service works through its requests.         *)
FairSpec == Spec /\ WF_vars(PageHandles) /\ WF_vars(Perform \/ Refuse)
-----------------------------------------------------------------------------
(* An account added without touching the form in between ends up with the  *)
(* password that was typed twice and in regular mode, whatever else was    *)
(* asked for, done or refused meanwhile.                                   *)
GivenAsAsked ==
  \A name \in users :
    given[name] # NoSecret /\ (\A i \in DOMAIN requests : requests[i].user # name)
      => secret[name] = given[name] /\ name \in regular

(* The inductive invariant behind it.  What was asked for is what the form *)
(* says; and as long as an account is to have a password, the youngest     *)
(* request to set it carries that one, or the service has it.              *)
FormIsAsked ==
  asked # NoAsk => form.name = asked.name /\ form.password = asked.password

For(queue, op, name) ==
  {i \in DOMAIN queue : queue[i].op = op /\ queue[i].user = name}

Youngest(queue, name, value) ==
  \E i \in For(queue, "password", name) :
    queue[i].secret = value /\ \A j \in For(queue, "password", name) : j <= i

IsComing(name) ==
  /\ For(requests, "regular", name) = {} => name \in regular
  /\ IF For(requests, "password", name) = {} THEN secret[name] = given[name]
     ELSE Youngest(requests, name, given[name])

GivenIsComing == \A name \in users : given[name] # NoSecret => IsComing(name)

AccountsInv == FormIsAsked /\ GivenIsComing

(* An Add that the user leaves alone is answered: the account gets its     *)
(* password, or it was refused.                                            *)
AddIsAnswered ==
  \A ask \in Ask \ {NoAsk} :
    asked = ask ~> (asked = NoAsk \/ ask.name \in refused)
=============================================================================
