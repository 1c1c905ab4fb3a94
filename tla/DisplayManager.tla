--------------------------- MODULE DisplayManager ---------------------------
(***************************************************************************)
(* The Display page: DisplayManager (display.cpp), the two combo boxes of  *)
(* qml/Display/Main.qml and the kscreen-doctor processes between them and  *)
(* the compositor.                                                         *)
(*                                                                         *)
(* A process reports (`-o`) or sends a command; it acts on the compositor  *)
(* at a time of its own and its `finished` signal reaches the page at      *)
(* another.  The page is destroyed when the user leaves it, and its        *)
(* processes with it.                                                      *)
(***************************************************************************)
EXTENDS DisplayModes

CONSTANTS
  Screens,      \* the states of the compositor, as reports
  Procs,        \* the processes that can run at once
  Starts        \* whether QProcess::start succeeds: a nonempty set of BOOLEAN

ASSUME ScreensAssumption ==
  /\ Screens \subseteq Report
  /\ Screens # {}
  /\ Starts \subseteq BOOLEAN
  /\ Starts # {}

VARIABLES
  open,         \* the page is on the stack of main.qml
  loading,      \* m_loading
  view,         \* the members parseOutput sets
  box,          \* currentIndex of resolutionBox and rotationBox
  proc,         \* the processes that are children of the page
  screen,       \* the state of the compositor
  outdated,     \* history: what happened to the screen since view was read
  failed,       \* history: the last process to end or start gave no report
  overlapped,   \* history: a command was sent while another process ran
  choice        \* history: what the user last chose and nobody undid

vars == <<open, loading, view, box, proc, screen,
          outdated, failed, overlapped, choice>>

Idle    == [kind |-> "idle"]
Reading == [kind |-> "reading"]
Read(report, since) == [kind |-> "read", report |-> report, since |-> since]
ReadError == [kind |-> "readError"]
Command(property, name, value) ==
  [kind |-> "command", property |-> property, name |-> name, value |-> value]
CommandDone == [kind |-> "commandDone"]

NoChoice == [property |-> "none", value |-> 0]

EmptyView == [ name |-> Empty, resolutions |-> <<>>, modeIds |-> <<>>,
               resIndex |-> 0, rotIndex |-> 0 ]

Running == {p \in Procs : proc[p] # Idle}
-----------------------------------------------------------------------------
Init ==
  /\ open = FALSE /\ loading = FALSE
  /\ view = EmptyView
  /\ box = [res |-> 0, rot |-> 0]
  /\ proc = [p \in Procs |-> Idle]
  /\ screen \in Screens
  /\ outdated = {} /\ failed = FALSE /\ overlapped = FALSE
  /\ choice = NoChoice

(* refresh(): m_loading is set before the process starts, and only its     *)
(* finished signal clears it.  The variant forgets to set it.              *)
RefreshUnmarked(p) ==
  /\ loading' = loading
  /\ \E started \in Starts :
       /\ proc' = [proc EXCEPT ![p] = IF started THEN Reading ELSE Idle]
       /\ failed' = (failed \/ ~started)
Refresh(p) ==
  /\ loading' = TRUE
  /\ \E started \in Starts :
       /\ proc' = [proc EXCEPT ![p] = IF started THEN Reading ELSE Idle]
       /\ failed' = (failed \/ ~started)

(* StackView creates the page, and with it a DisplayManager, which         *)
(* refreshes.                                                              *)
OpenPage(p) ==
  /\ ~open
  /\ open' = TRUE
  /\ Refresh(p)
  /\ UNCHANGED <<view, box, screen, outdated, overlapped, choice>>

(* Leaving the page destroys the DisplayManager; ~QProcess kills what      *)
(* still runs, and nobody is left to hear its finished signal.  The next   *)
(* page starts from the members' initial values.                           *)
ClosePage ==
  /\ open
  /\ open' = FALSE /\ loading' = FALSE
  /\ view' = EmptyView
  /\ box' = [res |-> 0, rot |-> 0]
  /\ proc' = [p \in Procs |-> Idle]
  /\ outdated' = {} /\ failed' = FALSE /\ overlapped' = FALSE
  /\ choice' = NoChoice
  /\ UNCHANGED screen

(* runDoctor(): m_loading is left alone.                                   *)
RunDoctor(p, command) ==
  /\ proc[p] = Idle
  /\ \E started \in Starts :
       /\ proc' = [proc EXCEPT ![p] = IF started THEN command ELSE Idle]
       /\ failed' = (failed \/ ~started)
  /\ overlapped' = (overlapped \/ Running # {})
  /\ UNCHANGED <<open, loading, view, screen, outdated>>

(* What the user chooses counts as a choice if the entries are of the      *)
(* screen as it is, and not of a monitor that was unplugged meanwhile.     *)
Chosen(property, value) ==
  IF "others" \in outdated THEN NoChoice
  ELSE [property |-> property, value |-> value]

(* The user picks an entry of resolutionBox, which is enabled when the     *)
(* page is not loading and the list is not empty; setResolution sends the  *)
(* mode id at that index.  In the variant the sent id is one entry off.    *)
SetResolutionOffByOne(p, index) ==
  /\ open /\ ~loading
  /\ index + 1 \in DOMAIN view.modeIds
  /\ box' = [box EXCEPT !.res = index]
  /\ choice' = Chosen("mode", view.resolutions[index + 1])
  /\ RunDoctor(p, Command("mode", view.name,
                          view.modeIds[IF index = 0 THEN 1 ELSE index]))
SetResolution(p, index) ==
  /\ open /\ ~loading
  /\ index + 1 \in DOMAIN view.modeIds
  /\ box' = [box EXCEPT !.res = index]
  /\ choice' = Chosen("mode", view.resolutions[index + 1])
  /\ RunDoctor(p, Command("mode", view.name, view.modeIds[index + 1]))

(* rotationBox is enabled whenever the page is not loading.                *)
SetRotation(p, index) ==
  /\ open /\ ~loading
  /\ index \in 0..3
  /\ box' = [box EXCEPT !.rot = index]
  /\ choice' = Chosen("rotation", RotationValues[index + 1])
  /\ RunDoctor(p, Command("rotation", view.name, RotationValues[index + 1]))

(* The finished signal of a report with exit code 0: parseOutput, then     *)
(* m_loading is cleared; on outputInfoChanged both boxes take over the     *)
(* indices.  The variant clears m_loading only in the branch of the error.  *)
FinishReadStaysBusy(p) ==
  /\ proc[p].kind = "read"
  /\ view' \in ParseResults(proc[p].report)
  /\ box' = [res |-> view'.resIndex, rot |-> view'.rotIndex]
  /\ outdated' = proc[p].since
  /\ failed' = FALSE
  /\ proc' = [proc EXCEPT ![p] = Idle]
  /\ UNCHANGED <<open, loading, screen, overlapped, choice>>
FinishRead(p) ==
  /\ proc[p].kind = "read"
  /\ view' \in ParseResults(proc[p].report)
  /\ box' = [res |-> view'.resIndex, rot |-> view'.rotIndex]
  /\ loading' = FALSE
  /\ outdated' = proc[p].since
  /\ failed' = FALSE
  /\ proc' = [proc EXCEPT ![p] = Idle]
  /\ UNCHANGED <<open, screen, overlapped, choice>>

(* The same with another exit code: the old lists stay.                    *)
FinishReadError(p) ==
  /\ proc[p].kind = "readError"
  /\ loading' = FALSE
  /\ failed' = TRUE
  /\ proc' = [proc EXCEPT ![p] = Idle]
  /\ UNCHANGED <<open, view, box, screen, outdated, overlapped, choice>>

(* The finished signal of a command refreshes, whatever the exit code.     *)
(* The variant does not.                                                   *)
FinishCommandSilently(p) ==
  /\ proc[p] = CommandDone
  /\ proc' = [proc EXCEPT ![p] = Idle]
  /\ UNCHANGED <<open, loading, view, box, screen, outdated, failed,
                 overlapped, choice>>
FinishCommand(p) ==
  /\ proc[p] = CommandDone
  /\ Refresh(p)
  /\ UNCHANGED <<open, view, box, screen, outdated, overlapped, choice>>
-----------------------------------------------------------------------------
(* Outside src/: kscreen-doctor and the compositor.                        *)

(* `kscreen-doctor -o` looks at the screen, or fails.                      *)
TakeReport(p) ==
  /\ proc[p] = Reading
  /\ \/ proc' = [proc EXCEPT ![p] = Read(screen, {})]
     \/ proc' = [proc EXCEPT ![p] = ReadError]
  /\ UNCHANGED <<open, loading, view, box, screen, outdated, failed,
                 overlapped, choice>>

(* The output a command names, if there is one.                            *)
Named(command) ==
  {k \in DOMAIN screen.outputs : screen.outputs[k].name = command.name}

(* The screen after a command, for output k.                               *)
After(command, k) ==
  IF command.property = "mode"
  THEN [screen EXCEPT !.modes =
          [j \in DOMAIN screen.modes |->
             IF screen.modes[j].output = k
             THEN [screen.modes[j] EXCEPT
                     !.current = (screen.modes[j].id = command.value)]
             ELSE screen.modes[j]]]
  ELSE [screen EXCEPT !.outputs[k].rotation = command.value]

(* A mode has to be one of the output's.                                   *)
Acceptable(command, k) ==
  command.property = "mode" =>
    \E j \in DOMAIN screen.modes :
      screen.modes[j].output = k /\ screen.modes[j].id = command.value

(* What is shown, and what was read but not yet delivered, no longer tells *)
(* how the screen is.                                                      *)
Outdate(procs, cause) ==
  /\ outdated' = IF open THEN outdated \union {cause} ELSE {}
  /\ proc' = [q \in Procs |->
                IF procs[q].kind = "read"
                THEN [procs[q] EXCEPT !.since = @ \union {cause}]
                ELSE procs[q]]

Obey(p) ==
  /\ proc[p].kind = "command"
  /\ \E k \in Named(proc[p]) :
       /\ Acceptable(proc[p], k)
       /\ screen' = After(proc[p], k)
  /\ Outdate([proc EXCEPT ![p] = CommandDone], "command")
  /\ UNCHANGED <<open, loading, view, box, failed, overlapped, choice>>

Refuse(p) ==
  /\ proc[p].kind = "command"
  /\ proc' = [proc EXCEPT ![p] = CommandDone]
  /\ choice' = NoChoice
  /\ UNCHANGED <<open, loading, view, box, screen, outdated, failed, overlapped>>

(* A monitor is plugged or another program sets the screen: the page is    *)
(* not told.                                                               *)
ScreenChanges ==
  /\ screen' \in Screens \ {screen}
  /\ Outdate(proc, "others")
  /\ choice' = NoChoice
  /\ UNCHANGED <<open, loading, view, box, failed, overlapped>>
-----------------------------------------------------------------------------
Next ==
  \/ ClosePage
  \/ ScreenChanges
  \/ \E p \in Procs :
       \/ OpenPage(p)
       \/ \E k \in DOMAIN view.modeIds : SetResolution(p, k - 1)
       \/ \E index \in 0..3 : SetRotation(p, index)
       \/ FinishRead(p) \/ FinishReadError(p) \/ FinishCommand(p)
       \/ TakeReport(p) \/ Obey(p) \/ Refuse(p)

Spec == Init /\ [][Next]_vars
-----------------------------------------------------------------------------
View == [ name: Names \union {Empty}, resolutions: Seq(Resolutions),
          modeIds: Seq(ModeIds), resIndex: Nat, rotIndex: 0..3 ]

Process ==
  {Idle, Reading, ReadError, CommandDone}
    \union [kind: {"read"}, report: Report,
            since: SUBSET {"command", "others"}]
    \union [kind: {"command"}, property: {"mode"}, name: Names \union {Empty},
            value: ModeIds]
    \union [kind: {"command"}, property: {"rotation"}, name: Names \union {Empty},
            value: {1, 2, 4, 8}]

TypeOK ==
  /\ open \in BOOLEAN /\ loading \in BOOLEAN
  /\ view \in View
  /\ box \in [res: Nat, rot: 0..3]
  /\ proc \in [Procs -> Process]
  /\ screen \in Report
  /\ outdated \subseteq {"command", "others"}
  /\ failed \in BOOLEAN /\ overlapped \in BOOLEAN
  /\ choice.property \in {"none", "mode", "rotation"}

Readers == {p \in Procs : proc[p].kind \in {"reading", "read", "readError"}}

(* The page is only busy for a reason: it shows its busy indicator and     *)
(* disables its boxes while a report is on its way, or, for ever, after a  *)
(* process that could not be started.                                      *)
BusyForAReason == loading => Readers # {} \/ failed

(* The reverse, which the boxes rely on to be safe to use: while a report  *)
(* is on its way the boxes are disabled, as long as the user has not sent  *)
(* one command on top of another.                                          *)
BusyWhileReading == ~overlapped /\ Readers # {} => loading

Quiet == open /\ Running = {}

(* "After applying, refresh the state" (the comment in display.cpp, line   *)
(* 171): when nothing runs, the last report came through and no command    *)
(* was sent on top of another, the page was read after the last command    *)
(* that took effect, and both boxes stand where that report puts them,     *)
(* whatever the user picked in between.                                    *)
SettledPageIsFresh ==
  Quiet /\ ~failed /\ ~overlapped =>
    /\ "command" \notin outdated
    /\ box = [res |-> view.resIndex, rot |-> view.rotIndex]

(* What the user picked is what the screen is set to and what the page     *)
(* shows: from the entry of the box, through its mode id or rotation       *)
(* value, the command, the compositor and the next report, back to the     *)
(* entry; unless the compositor refused or somebody else set the screen,   *)
(* also before the choice but after the page was last read.                *)
ChoiceIsShown ==
  Quiet /\ ~failed /\ ~overlapped /\ choice # NoChoice =>
    IF choice.property = "mode"
    THEN /\ box.res + 1 \in DOMAIN view.resolutions
         /\ view.resolutions[box.res + 1] = choice.value
    ELSE RotationValues[box.rot + 1] = choice.value

(* The entries of a box are never exchanged under the hand of the user:    *)
(* unless one command was sent on top of another, the lists change only    *)
(* while the boxes are disabled.                                           *)
ListsStayWhileEnabled ==
  [][view' # view /\ open /\ open' => loading \/ overlapped]_vars

(* The inductive invariant behind the safety properties: what is kept of   *)
(* processes and history as long as commands do not overlap.               *)
ClosedIsInitial ==
  ~open => ~loading /\ ~failed /\ ~overlapped /\ Running = {}

OneAtATime == ~overlapped => \A p, q \in Running : p = q

ReportsAreFresh ==
  ~overlapped =>
    \A p \in Procs : proc[p].kind = "read" => "command" \notin proc[p].since

PageInv ==
  /\ ClosedIsInitial /\ OneAtATime /\ ReportsAreFresh
  /\ BusyForAReason /\ BusyWhileReading /\ SettledPageIsFresh

(* ChoiceIsShown is about screens on which an id stands for one resolution *)
(* and the modes are reported under their outputs, in the order of these.  *)
Sound(report) ==
  /\ \A j, k \in DOMAIN report.outputs :
       report.outputs[j].name = report.outputs[k].name => j = k
  /\ \A k \in DOMAIN report.modes : report.modes[k].output \in DOMAIN report.outputs
  /\ \A j, k \in DOMAIN report.modes :
       /\ j < k => report.modes[j].output <= report.modes[k].output
       /\ report.modes[j].id = report.modes[k].id => report.modes[j].res = report.modes[k].res

(* Commands change neither the outputs nor the modes they have.            *)
Alike(a, b) ==
  /\ DOMAIN a.outputs = DOMAIN b.outputs /\ DOMAIN a.modes = DOMAIN b.modes
  /\ \A k \in DOMAIN a.outputs : a.outputs[k].name = b.outputs[k].name
  /\ \A k \in DOMAIN a.modes : /\ a.modes[k].output = b.modes[k].output
                               /\ a.modes[k].id = b.modes[k].id
                               /\ a.modes[k].res = b.modes[k].res

(* An entry that means on the screen what it says.                         *)
Means(name, id, res) ==
  /\ name \in {Empty, FirstName(screen)}
  /\ \A j \in DOMAIN screen.modes : screen.modes[j].id = id => screen.modes[j].res = res

EntriesMean ==
  "others" \notin outdated =>
    /\ view.name \in {Empty, FirstName(screen)}
    /\ \A k \in DOMAIN view.modeIds : Means(view.name, view.modeIds[k], view.resolutions[k])

ReportsAreAlike ==
  \A p \in Procs : proc[p].kind = "read" =>
    /\ Sound(proc[p].report)
    /\ "others" \notin proc[p].since => Alike(proc[p].report, screen)

(* The choice on its way: a command asks for it, then the screen has it,   *)
(* then a report tells.                                                    *)
AsksForChoice(command) ==
  /\ command.property = choice.property
  /\ IF choice.property = "mode"
     THEN Means(command.name, command.value, choice.value)
     ELSE /\ command.name \in {Empty, FirstName(screen)}
          /\ command.value = choice.value /\ choice.value \in {1, 2, 4, 8}

HasChoice(report) ==
  IF choice.property = "mode"
  THEN /\ FlaggedResolution(report.modes) = choice.value
       /\ choice.value \in ResolutionsUpTo(report.modes, Len(report.modes))
  ELSE /\ report.outputs # <<>> /\ report.outputs[1].rotation = choice.value
       /\ choice.value \in {1, 2, 4, 8}

ChoiceIsOnItsWay ==
  choice # NoChoice =>
    /\ open
    /\ ~overlapped =>
         \A p \in Procs :
           /\ proc[p].kind = "command" => AsksForChoice(proc[p])
           /\ proc[p].kind \in {"commandDone", "reading"} => HasChoice(screen)
           /\ proc[p].kind = "read" => HasChoice(proc[p].report)

ChoiceInv ==
  /\ ~open => view = EmptyView
  /\ Sound(screen) /\ EntriesMean /\ ReportsAreAlike
  /\ ChoiceIsOnItsWay /\ ChoiceIsShown

(* The same promise without the reservation about overlapping commands.    *)
AppliedIsShown == Quiet /\ ~failed => "command" \notin outdated
=============================================================================
