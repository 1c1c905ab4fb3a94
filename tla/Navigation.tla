----------------------------- MODULE Navigation -----------------------------
(***************************************************************************)
(* Launching Cutefish Settings and moving between its pages: Application   *)
(* (application.cpp), the window of qml/main.qml and the list of           *)
(* qml/SideBar.qml.                                                        *)
(*                                                                         *)
(* The first process to own com.cutefish.SettingsUI shows the window; a    *)
(* later one asks it over D-Bus to switch to its page and ends.  Rows are  *)
(* numbered from 1 here and from 0 in the code.                            *)
(***************************************************************************)
EXTENDS Naturals, FiniteSets, Sequences, SequencesExt

CONSTANTS
  Processes,    \* launches of the program
  Pages,        \* the rows of the side bar, in order
  Optional,     \* rows removed when their device is missing, in that order
  Unknown,      \* a module name without a row
  NoModule      \* no -m on the command line

Names == Range(Pages)
Modules == Names \union {Unknown, NoModule}

ASSUME NavigationAssumption ==
  /\ Pages \in Seq(Names) /\ IsInjective(Pages)
  /\ Optional \in Seq(Names) /\ Len(Optional) < Len(Pages)
  /\ Unknown \notin Names /\ NoModule \notin Names

VARIABLES
  at,           \* how far each process has come
  module,       \* what it was launched for
  inbox,        \* clients whose switchToPage the owner has not handled
  rows,         \* listModel
  current,      \* listView.currentIndex
  stack,        \* the pages on _stackView
  trimmed       \* the timer of the side bar has fired

window == <<rows, current, stack, trimmed>>
vars == <<at, module, inbox, window>>

Owning == {"owner", "exported", "loaded", "running"}
Steps == {"new", "client", "calling", "waiting", "gone"} \union Owning
Owners == {p \in Processes : at[p] \in Owning}
-----------------------------------------------------------------------------
(* switchPageFromIndex(): the page above the initial one is replaced.  The *)
(* variant leaves it on the stack.                                         *)
PushOnly(pages, page) == Append(pages, page)
SwitchPage(pages, page) ==
  Append(IF Len(pages) > 1 THEN Front(pages) ELSE pages, page)

(* Setting currentIndex reports to onCurrentIndexChanged, which switches   *)
(* the page, only when the number changes.                                 *)
SetCurrent(row, pages) ==
  /\ current' = row
  /\ stack' = IF row = current THEN pages ELSE SwitchPage(pages, rows'[row])

(* switchPageFromName(): without a row of that name the window is only     *)
(* raised.  The variant forgets the side bar.                              *)
SwitchPageFromNameOnly(name) ==
  /\ UNCHANGED <<rows, current, trimmed>>
  /\ IF name \in Range(rows)
     THEN stack' = SwitchPage(stack, name)
     ELSE UNCHANGED stack
SwitchPageFromName(name) ==
  /\ UNCHANGED <<rows, trimmed>>
  /\ IF name \in Range(rows)
     THEN SetCurrent(CHOOSE row \in DOMAIN rows : rows[row] = name,
                     SwitchPage(stack, name))
     ELSE UNCHANGED <<current, stack>>

(* What ListView makes of its current row when the given one is removed:   *)
(* the row keeps its item, or its number if the item itself is gone.       *)
CurrentAfterRemoval(list, row, removed) ==
  IF row > removed \/ row = Len(list) THEN row - 1 ELSE row

(* removeItem().  In the variant the view keeps its row number.            *)
RemoveItemOnly(list, name) ==
  IF name \notin Range(list.rows) THEN list
  ELSE LET index == CHOOSE i \in DOMAIN list.rows : list.rows[i] = name
       IN [list EXCEPT !.rows = RemoveAt(list.rows, index)]
RemoveItem(list, name) ==
  IF name \notin Range(list.rows) THEN list
  ELSE LET index == CHOOSE i \in DOMAIN list.rows : list.rows[i] = name
       IN [rows |-> RemoveAt(list.rows, index),
           current |-> CurrentAfterRemoval(list.rows, list.current, index)]

(* The statements of the timer, one after the other.                       *)
RemoveMissing(list, missing) ==
  FoldLeft(LAMBDA left, name : IF name \in missing THEN RemoveItem(left, name) ELSE left,
           list, Optional)
-----------------------------------------------------------------------------
Init ==
  /\ at = [p \in Processes |-> "new"]
  /\ module = [p \in Processes |-> NoModule]
  /\ inbox = <<>>
  /\ rows = <<>> /\ current = 0 /\ stack = <<>> /\ trimmed = FALSE

(* registerService() succeeds for one process at a time.  In the variant a *)
(* process that was given no module starts a window of its own.            *)
LaunchBesides(p, name) ==
  /\ at[p] = "new"
  /\ at' = [at EXCEPT ![p] = IF Owners = {} \/ name = NoModule THEN "owner" ELSE "client"]
  /\ module' = [module EXCEPT ![p] = name]
  /\ UNCHANGED <<inbox, window>>
Launch(p, name) ==
  /\ at[p] = "new"
  /\ at' = [at EXCEPT ![p] = IF Owners = {} THEN "owner" ELSE "client"]
  /\ module' = [module EXCEPT ![p] = name]
  /\ UNCHANGED <<inbox, window>>

(* registerObject(): from here on calls are kept for the event loop.       *)
Export(p) ==
  /\ at[p] = "owner"
  /\ at' = [at EXCEPT ![p] = "exported"]
  /\ UNCHANGED <<module, inbox, window>>

(* main.qml is loaded: the initial page lies on the stack, and the list    *)
(* selects its first row, which pushes the same page once more.            *)
LoadWindow(p) ==
  /\ at[p] = "exported"
  /\ at' = [at EXCEPT ![p] = "loaded"]
  /\ rows' = Pages /\ current' = 1
  /\ stack' = SwitchPage(<<Pages[1]>>, Pages[1])
  /\ trimmed' = FALSE
  /\ UNCHANGED <<module, inbox>>

(* The page of the command line, before the event loop runs.               *)
StartLoop(p) ==
  /\ at[p] = "loaded"
  /\ at' = [at EXCEPT ![p] = "running"]
  /\ IF module[p] = NoModule THEN UNCHANGED window ELSE SwitchPageFromName(module[p])
  /\ UNCHANGED <<module, inbox>>

(* The timer of the side bar takes out the rows without a device; the list *)
(* then sets its current row at most once.                                 *)
Trim(p) ==
  /\ at[p] = "running" /\ ~trimmed
  /\ trimmed' = TRUE
  /\ \E missing \in SUBSET Range(Optional) :
       LET list == RemoveMissing([rows |-> rows, current |-> current], missing)
       IN rows' = list.rows /\ SetCurrent(list.current, stack)
  /\ UNCHANGED <<at, module, inbox>>

ClickRow(p, row) ==
  /\ at[p] = "running"
  /\ row \in DOMAIN rows /\ row # current
  /\ UNCHANGED <<at, module, inbox, rows, trimmed>>
  /\ SetCurrent(row, stack)

(* The call of a client is handled by the event loop and answered.  In the *)
(* variant a module without a row is not answered.                         *)
ServeKnown(p) ==
  /\ at[p] = "running" /\ inbox # <<>>
  /\ module[Head(inbox)] \in Range(rows)
  /\ SwitchPageFromName(module[Head(inbox)])
  /\ at' = [at EXCEPT ![Head(inbox)] = "gone"]
  /\ inbox' = Tail(inbox)
  /\ UNCHANGED module
Serve(p) ==
  /\ at[p] = "running" /\ inbox # <<>>
  /\ SwitchPageFromName(module[Head(inbox)])
  /\ at' = [at EXCEPT ![Head(inbox)] = "gone"]
  /\ inbox' = Tail(inbox)
  /\ UNCHANGED module

(* The window is closed: exec() returns, and who waits gets an error.      *)
Quit(p) ==
  /\ at[p] = "running"
  /\ at' = [q \in Processes |-> IF q = p \/ q \in Range(inbox) THEN "gone" ELSE at[q]]
  /\ inbox' = <<>>
  /\ rows' = <<>> /\ current' = 0 /\ stack' = <<>> /\ trimmed' = FALSE
  /\ UNCHANGED module

(* The client's QDBusInterface is valid once some owner has exported the   *)
(* object; otherwise the client ends, its module forgotten.                *)
Probe(p) ==
  /\ at[p] = "client"
  /\ at' = [at EXCEPT ![p] = IF \E q \in Owners : at[q] # "owner" THEN "calling" ELSE "gone"]
  /\ UNCHANGED <<module, inbox, window>>

(* call() waits for the answer; without the object it fails at once.       *)
Call(p) ==
  /\ at[p] = "calling"
  /\ IF \E q \in Owners : at[q] # "owner"
     THEN /\ at' = [at EXCEPT ![p] = "waiting"]
          /\ inbox' = Append(inbox, p)
     ELSE /\ at' = [at EXCEPT ![p] = "gone"]
          /\ UNCHANGED inbox
  /\ UNCHANGED <<module, window>>

Next ==
  \E p \in Processes :
    \/ \E name \in Modules : Launch(p, name)
    \/ Export(p) \/ LoadWindow(p) \/ StartLoop(p) \/ Trim(p)
    \/ \E row \in DOMAIN rows : ClickRow(p, row)
    \/ Serve(p) \/ Quit(p)
    \/ Probe(p) \/ Call(p)

Spec == Init /\ [][Next]_vars

(* Processes run; launching, clicking and closing are up to the user.      *)
FairSpec ==
  /\ Spec
  /\ \A p \in Processes :
       /\ WF_vars(Export(p) \/ LoadWindow(p) \/ StartLoop(p))
       /\ WF_vars(Serve(p))
       /\ WF_vars(Probe(p) \/ Call(p))
-----------------------------------------------------------------------------
TypeOK ==
  /\ at \in [Processes -> Steps]
  /\ module \in [Processes -> Modules]
  /\ inbox \in Seq(Processes)
  /\ rows \in Seq(Names) /\ current \in 0..Len(rows) /\ stack \in Seq(Names)
  /\ trimmed \in BOOLEAN

(* There is never a second window, and who waits for an answer waits for a *)
(* process that has the object the call is for.                            *)
OneWindow ==
  /\ Cardinality(Owners) <= 1
  /\ inbox # <<>> => \E p \in Owners : at[p] # "owner"

(* However the user and other launches switch, one page lies above the     *)
(* initial one: left pages are destroyed and their backends with them.     *)
OnePageAboveInitial ==
  stack # <<>> => Len(stack) = 2 /\ stack[1] = Pages[1]

(* The highlighted row is that of the page shown, unless the page shown    *)
(* has lost its row to the timer.                                          *)
HighlightIsShown ==
  stack # <<>> => \/ current \in DOMAIN rows /\ Last(stack) = rows[current]
                  \/ trimmed /\ Last(stack) \in Range(Optional) \ Range(rows)

(* The inductive invariant behind these.  Clients in the inbox wait, each  *)
(* once.  A window that is up has a page above the initial one, a row to   *)
(* highlight, and until the timer has fired all its rows.                  *)
CallsInv ==
  /\ \A p, q \in Owners : p = q
  /\ inbox # <<>> => \E p \in Owners : at[p] # "owner"
  /\ IsInjective(inbox)
  /\ \A i \in DOMAIN inbox : at[inbox[i]] = "waiting"

WindowIsUp ==
  /\ \E page \in Names :
       /\ stack = <<Pages[1], page>>
       /\ page = rows[current] \/ (trimmed /\ page \in Range(Optional) \ Range(rows))
  /\ current \in DOMAIN rows /\ IsInjective(rows)
  /\ ~trimmed => rows = Pages

WindowInv ==
  IF \E p \in Processes : at[p] \in {"loaded", "running"} THEN WindowIsUp
  ELSE stack = <<>> /\ rows = <<>> /\ current = 0

NavigationInv == TypeOK /\ CallsInv /\ WindowInv

(* The program keeps the promise of SingleInstance: a launch that finds a  *)
(* window hands its module over or fails, and ends; nothing but that and   *)
(* the user changes the page.                                              *)
LaunchOf(step) ==
  CASE step \in Owning -> "window"
    [] step \in {"client", "calling", "waiting"} -> "waiting"
    [] OTHER -> step

PageOf(name) == IF name = Unknown THEN NoModule ELSE name

Shown == IF stack = <<>> THEN NoModule ELSE Last(stack)

Single == INSTANCE SingleInstance WITH
  Launches <- Processes,
  Pages <- Names,
  Nowhere <- NoModule,
  launch <- [p \in Processes |-> LaunchOf(at[p])],
  wanted <- [p \in Processes |-> PageOf(module[p])],
  page <- Shown

ImplementsSingleInstance == Single!Spec
=============================================================================
