# Verification of Cutefish Settings

This directory holds TLA+ models of Cutefish Settings (`src/src/`), the TLC
configurations that check them on small instances, and TLAPS proofs of what
matters most for every instance. `PROJECT.json` lists components, runs,
mutants, hazards and theorems and says for each definition which lines of the
source it models.

## The system

Cutefish Settings is a Qt program: a window with a list of pages (QML) and a
C++ object behind each page. It has one event loop and, with a single exception
(`FontsModel`), one thread. What makes it hard is that hardly any setting lives
in the program: a page is a view of a value that belongs to a daemon, a file or
another process, which it reads once or many times, writes without waiting, and
hears about through signals, process exits and timers. A page and its object
exist only while the page is on the window's `StackView`: leaving it destroys
the object, with its timers, processes and pending answers.

| component | source | state | operations | talks to |
|---|---|---|---|---|
| Application, window, side bar | `application.cpp`, `qml/main.qml`, `qml/SideBar.qml` | bus name, page stack, rows, current row | launch, `switchToPage`, click a row, timer that removes rows | itself in another process, over D-Bus |
| Display | `display.cpp`, `qml/Display/Main.qml` | `m_loading`, name, resolutions, mode ids, indices; two combo boxes | `refresh`, `setResolution`, `setRotation`, `parseOutput` | `kscreen-doctor` processes |
| Brightness | `brightness.cpp`, `qml/Display/Main.qml` | `m_value`, slider, 100 ms timer | slide, `setValue` | settings daemon |
| Proxy | `networkproxy.cpp`, `qml/Proxy/Main.qml` | members, QSettings, form, Bindings, Save button, 50 ms timers | eight setters, Save, file dialog, `updateProxy` | session daemon, settings file |
| Battery history | `batteryhistorymodel.cpp`, `qml/Battery/HistoryGraph.qml` | device, duration, type, values | setters, `load`, answers | UPower |
| Battery | `battery.cpp`, `qml/Battery/Main.qml` | read through | getters, percentage switch | settings daemon |
| Power | `powermanager.cpp`, `qml/Power/Main.qml` | mode, timeouts, lid settings | setters | power daemon, QSettings |
| Notifications | `notifications.cpp` | `m_doNotDisturb` | setter, signal | notification daemon |
| Cursor (mouse), touchpad | `cursor/mouse.cpp`, `touchpad.cpp`, their pages | switches, sliders | setters, signals | settings daemon |
| Cursor themes | `cursor/cursorthememodel.cpp` | themes, current row | scan, `setCurrentTheme` | theme directories, X resources |
| User | `qml/User/*`, `password.cpp` | form, list of users | add in two rounds, delete, change password | accounts service |
| Date and time, time zone | `datetime/*`, `qml/DateTime` | NTP, 24 hours, zone, zones near the last click | setters, click on the map, Set | `timedate1`, status bar |
| Appearance, dock | `appearance.cpp`, `qml/Appearance`, `qml/Dock` | theme, accent, dock, scale, fonts | setters, signals | settings daemon, dock |
| Background | `background.cpp`, `qml/Wallpaper` | type, path, colour | setters, signals | settings daemon |
| Fonts | `fonts/*`, `fontsmodel.cpp`, `qml/Fonts` | `fonts.conf` document, models | read, merge, rewrite; scan in a thread | files, appearance |
| Default applications | `defaultapplications.cpp`, `desktopproperties.cpp` | lists, indices | load, set default | `mimeapps.list`, desktop files |
| Language | `language.cpp` | list, current index | set | settings daemon |
| WLAN, wired, hotspot, Bluetooth, sound | `qml/*` | that of libcutefish | — | libcutefish, not in this repository |

How the parts interact: QML bindings call getters and are re-evaluated on
`NOTIFY` signals; handlers call setters; setters send asynchronous D-Bus calls,
start processes or store values in `QSettings`, which writes its file later from
the event loop; answers, signals and exits come back as separate events. What
blocks is `QDBusInterface::property`, the setters that use `call` (dock, background,
fonts, battery percentage), the two calls of the Date & Time page whose answer is
waited for, and the second launch of the program.

What is hard about it, and therefore what the properties are about (each at its
line under "hazards" in `PROJECT.json`):

* two steps of different actors in an order nobody tried: a command and the
  report of an older one, a signal and a click, two launches, a timer and the
  destruction of its parent;
* values read at one time and used at another: the password of a new user, mode
  ids of a monitor that is gone, the file another program rewrote;
* answers that belong to a question no longer asked;
* one step of several failing: a process that cannot be started, a refused
  account, a missing session;
* setters that echo: a binding and a change handler on the same property;
* things that have to happen: a busy page becomes usable, a launch ends, the
  session gets the stored configuration.

What makes each component correct: it shows, once nothing is on its way, what
its daemon holds; what the user chose last is what ends up there; while
something is on its way that would change the meaning of a control, the control
is disabled; and nothing that was started keeps the page waiting forever.

## The modules

### Parsing the display report: `DisplayModes`, `ModeScan`

`DisplayModes` is the data of a `kscreen-doctor -o` report and a declarative
definition (`ParseResults`) of what `DisplayManager::parseOutput` makes of it: for
every resolution the mode of the highest rate, ordered by pixels, with the index
of the current one. The regular expressions are abstracted to the tokens they
match; because the mode expression is matched over the whole text, the modes of
every output are in one sequence. Where two modes tie (equal pixels in
`std::sort`) the definition allows every order. `ModeScan` is the function
itself, one loop iteration a step: `ScanToken`/`EndScan` (lines 76-95),
`FindCurrent`/`EndCurrent` (105-118), `BuildList` (118-142).

### The Display page: `DisplayManager`

State: whether the page is open, `m_loading`, the parsed view, both combo boxes,
up to `Procs` processes and the compositor's screen. A process acts on the
compositor at one time (`TakeReport`, `Obey`, `Refuse`) and its `finished` reaches
the page at another (`FinishRead`, `FinishReadError`, `FinishCommand`).
`FinishCommand` includes the `refresh()` it ends with; `ClosePage` destroys the
object and its processes. `ScreenChanges` is somebody else exchanging or setting
the monitor.

### The Proxy page: `NetworkProxy`

Form, `Binding`s, members (always equal to what `QSettings` holds in memory), the
file, the 50 ms timers, the calls and the session daemon. `Store` is a setter:
its comparison, the store and the timer it starts. `Save` is the whole handler with
its eight setters. `ClosePage` lets `QSettings` write the file and kills the
timers. The Bindings give nothing back when the check box is cleared: one has
`RestoreNone`, and `RestoreValue` of the other (`Main.qml:17`) restores a value, where
the field's text has a binding of its own (`Main.qml:140`). The Save button is shown
(`SaveShown`) while `needSave`, but inside `proxyItem`, which "No Proxy" hides with the
fields (`Main.qml:70`): pending edits then wait unseen together with their button, and
what `NothingUnsavedUnseen` says is that the fields do not come back without it.

### Battery history: `LatestAnswer`, `BatteryHistory`

Setters that ask UPower again, calls answered in order, `Finish` and
`FinishWithError` as the two ends of the lambda, and the accessors the graph
reads as operators. Values are in tenths, so that the `int` of `largestValue` loses
something.

`LatestAnswer` is what an asynchronous view promises, whatever its service: the
question changes at any time, answers may be skipped, none takes the place of one
to a younger question, and when the question rests the last answer is to it.
`BatteryHistory` implements it (`ImplementsLatestAnswer`): the question is the triple
of properties while the model is complete and has a device, what is behind are the
calls, what is shown is the query of the last answer.

### Launch and navigation: `SingleInstance`, `Navigation`

Processes race for the bus name; the owner registers, exports, loads its window
and runs; the others block in `switchToPage`. Window: the rows, the current row,
the page stack, and the timer of the side bar that removes the rows of missing
devices. `SwitchPageFromName` is the QML function with both page switches it
causes.

`SingleInstance` is the promise to the user: of all launches one has the window,
every other hands its module over or fails, and ends; nothing but that and
browsing changes the page. `Navigation` implements it (`ImplementsSingleInstance`);
registering, exporting, probing and calling are stutters, the timer of the side
bar is browsing.

### Users: `UserAccounts`

The form, the two rounds of adding (`createUser`, then password and mode when
`userAdded` arrives), the accounts service as two queues, and other programs that
use the same service.

### Controls for remote values: `RemoteSwitch`

One module for eleven controls on nine pages that differ in who reads the value
when, whether a call waits, and what is written back (its header has the table).
Each behaviour follows one of them.

| kind | source | reads | hears of changes | writes |
|---|---|---|---|---|
| mouse | `cursor/mouse.cpp`, `qml/Cursor` | getter, over D-Bus | signal | every change, asynchronously |
| dims, background | `appearance.cpp:74`, `background.cpp:63`, their pages | the same | signal | every change, waits |
| touchpad | `touchpad.cpp`, `qml/Touchpad` | once, on completion | never | every change, asynchronously |
| notifications | `notifications.cpp` | constructor, and on a signal | connected after reading | clicks, cached |
| power, language | `powermanager.cpp`, `language.cpp` | constructor | never | clicks, cached |
| brightness | `brightness.cpp`, `qml/Display` | constructor | never | a timer after moving |
| dock | `appearance.cpp:46`, `qml/Dock` | the dock's settings file | never | clicks, waits, cached |
| lid | `powermanager.cpp:39`, `qml/Power` | the power daemon's settings file | never | clicks, cached |
| battery | `battery.cpp:171`, `qml/Battery` | the status bar's settings file | never | every change, waits |

The daemon (`Handle`, `OtherSets`, `SaveFile`) is shared. `QDBusInterface::property`
blocks and its answer comes behind the calls sent before, which is the guard
`CanRead`; a settings file has no such order. The user's choice survives leaving
the page and coming back in the history variable `chosen`. What the module shows
of the code's limits, and the properties have as exceptions:

* a page that does not listen shows an old value after another program changed it,
  and so does Notifications for a change between its read and its connection;
* a slider moved within the 100 ms before the page is left is not heard
  (`qml/Display/Main.qml:53`);
* a page opened before the daemon has saved its file shows the value before, and the
  Battery page writes that back over the user's last choice (`battery.cpp:173`,
  `qml/Battery/Main.qml:237`).

It is assumed that the value is one the control has: a system language outside
the list of the program gives the index -1. (The list itself lacks a comma between
`id_ID` and `it_IT`, `language.cpp:35`, so neither can be chosen.) A tab bar is taken
not to report the tab it selects first while it is created; `FontsPage` has both
cases.

### The Fonts page: `FontsPage`

The only second thread. `OpenPage` starts it; `ScanFace` is one iteration of its
loop, with the rule that the second face of a fixed family counts as one of a
general font; `EndScan` sorts and posts `loadFinished`, and `FailScan` returns
without. What `std::sort` makes of a list is any ordering of its names (`Sortings`). In between
the main thread creates its controls. Reading a list under the hand of the thread
gives a part of it (`Readings`) or the program crashes (`Crash`, undefined
behaviour); leaving the page before the thread has ended destroys a running
`QThread`, which aborts. Neither is excluded by the code, so both are steps, and
`Relaunch` is the user starting again. `LoadFinished` is the two things the signal
does in their order: the bindings of the boxes, then the handler that selects the
font of the system, which it takes from this process's platform theme; that may lag behind the
daemon (`ThemeFollows`).

`CreateTabs` is the tab bar of the size: its binding to the stored size, and the
change handler that stores the size of the tab. A size between two tabs becomes
that of the next. Whether a tab bar reports the tab it selects while it is created is
up to the toolkit, so `TabReports` has both. Sizes that no tab stands for are
replaced by opening the page, which is why `SizeIsKept` speaks of the others. A behaviour follows one box
and the tabs; which of the two is chosen in the initial state.

### The Date & Time page: `DateTimePage`

`Toggle` is `setUseNtp` with `save()`: one call, or two of which the second is
waited for. `ClickMap` is `clicked()` with its loop (`Scan`), the rule of the
radius and the handler that names the zone; the order of `m_list` is that of
pointers, so any. `SetZone` sends the call and `Return` is what follows the answer.
`timedate1` asks for authorisation, so it may carry calls out in another order,
refuse them (`Refuse`) or answer after the page gave up (`Timeout`). Nobody listens to its
signals. The dialog, a window of its own, goes with the page. The history variables `ntpMissed` and `zoneMissed` are the cases in which
the page cannot know. What the clock is set to by turning automatic time off is
left out: `save()` computes it from a date and a time that nothing sets
(`time.cpp:67-72`).

### Font settings: `FontsConf`, `KXftConfig`

`FontsConf` holds the pure part of `kxftconfig.cpp`. A `fonts.conf` is a sequence of
entries: settings (assigned or appended), exclude ranges, and elements of other
programs (`Foreign`). Reading gives an object the items it keeps (`Parsed`, `Merged` with those
of the global files) and the document (`Document`), whose elements have an
identity, because an item remembers the node it came from and `applySub`
replaces that node or appends a new one. `Applied` is the document after the
settings were put into it, `Entries` the file it is saved as.

`KXftConfig` is the object over time. `Set` is its setters; `Apply` and `ApplyAgain`
compare time stamps and go on to write or, when another program wrote the file, to
`Reread`, which builds a second object for it with the settings on top. `Write`
replaces the file (up to `kxftconfig.cpp:338`), `FailToOpen` and `FailToReplace` are
the ends of a failed attempt. `Reset` is the `reset()` with which a successful apply
ends, of the object that wrote (340) or of the first one (294); it is a step of its own,
because it reads all global files before the one of the user. `OtherWrites` is another program exchanging the
file between any two of these steps, and `ReadFile` lets it do so within `Reread` and
`Reset`, too: a file is opened (476) before its time stamp is asked for by name (477).
Otherwise a file is read as it was at one instant, because other programs replace it as
a whole, as this one does. Two writes are taken to have different time stamps, which file systems of
a resolution of milliseconds or better make them have. That everything written
reaches the file is assumed: `fputs` and `fclose` are not checked (335-336), so that on a
full disk a short file would be moved into place.

Two history variables say what the time stamps cannot. `raced`: another program wrote
between the comparison and the replacement, or between the replacement (or finding
nothing to write) and the rereading. `blind`: the object has the time stamp of a file it
has not read, taken over from a second object that failed, or of one that took the place
of the file it had opened.

The class is compiled into the program, but its one caller that changes
anything, `Fonts::save`, has those lines commented out: what is modelled is what the
class does when called, not what a click on the page does today. The model shows
these limits of it, which the properties have as exceptions:

* a new exclude range is lost when it takes the place of an older one and a
  setting for antialiasing is in the object as well (`kxftconfig.cpp:722-727`);
* without a file of the user the document is that of the last global file, so
  that its other elements are written to the user's file (`kxftconfig.cpp:484`);
* taking an exclude range away uncovers an older one in the file, if there is; when
  the older ranges in points and in pixels disagree, there is something to apply again
  (`kxftconfig.cpp:490-503`, the exception `Uncovering` of `Settles`);
* after a second object has failed, the first holds a time stamp of a file it did
  not read, and the next attempt overwrites the entries of others
  (`kxftconfig.cpp:296`); the same happens when the file is exchanged while it is
  opened (`kxftconfig.cpp:476-477`);
* what another program writes between the comparison of the time stamps and the
  replacement of the file is lost (`kxftconfig.cpp:286-338`);
* when another program writes after the replacement, or after the second object had
  nothing to apply, and before the rereading, the object takes over the settings of that
  program, and possibly ranges that disagree (`kxftconfig.cpp:338-340`, 292-294).

## What the runs check

| run | instance | shows |
|---|---|---|
| `mode_scan` | every report of up to 3 modes over 1 or 2 outputs, 3 resolutions (2 of equal size), 2 rates | the loops compute the declarative definition; the map is right at every iteration |
| `mode_scan_first_output` | the same | **violation**: the comment says the first output is parsed, its list contains modes of the second |
| `display_manager` | 2 processes, a screen of 2 outputs and 2 resolutions or one of a single output, starts that fail | busy for a reason, disabled while reading, at rest fresh, the choice is what is shown, lists stay while enabled |
| `display_manager_overlap` | as the first, starts succeed | **violation**: "refresh after applying" fails for two overlapping commands |
| `network_proxy` | an HTTP and an FTP field, 2 texts, 3 updates on their way | the session follows the file, fields shown without a Save button hold what is stored, "same for FTP" is never half stored; the session catches up |
| `battery_history` | 2 devices, 2 durations, 2 types, 5 answers, 3 calls on their way | settles on the current question; the graph's limits enclose its points; implements `LatestAnswer`, with its answer arriving in the end |
| `navigation` | 3 launches, 5 rows, 2 of them optional | one window, one page above the initial one, the highlighted row is the page; implements `SingleInstance`, with no launch waiting forever |
| `user_accounts` | 2 users, 2 passwords, 2 messages on their way | an account added gets the password typed for it; an addition is answered |
| `remote_switch` | the 11 controls, 8 messages on their way | shows the value at rest, keeps the last choice also over leaving the page, stops echoing |
| `fonts_page` | 3 sets of up to 4 faces of 3 families, either box, 3 sizes set by others, one of them without a tab | once loaded the box is complete and on the system's font; opening the page keeps the size; loading ends |
| `date_time` | 3 zones, 3 places, every order of the list, 2 calls on their way, or 3 with the second of a toggle | switch and label show what the service keeps; the zone named is near |
| `kxft_config` | 1 global file, 3 files of the user or none, 2 exclude ranges, 3 versions of the file | what was set survives success, failure and starting again; entries of others are kept; a new range arrives; nothing is left to apply; each but for the races above |

Some properties have an exception that is a history variable or a predicate: `failed`
(`BusyForAReason`), `ntpMissed` (`SwitchIsService`), `zoneMissed` (`LabelIsZone`), `missed` and
`chosen` (`ShownIsValue`, `ChoiceIsKept`), `raced` and `blind` (the four of `KXftConfig`),
`Replacing` (`RangeSurvives`, `Settles`). Each stands for something that does go wrong in
the code, listed above or under "hazards" with a note. The model has those steps; the
properties do not catch them but show that nothing *else* leads to the same damage. That is
why the exceptions are as narrow as the code allows: they are set by the step that bites and
taken back by the next one that mends it.

Every property of a passing run has a mutant in `PROJECT.json`: a variant
definition beside the original, with the kind of slip that would break it.

Bounds. Two processes are the smallest number with an order between their
results; a third only adds another overlapping command, after which the
properties promise nothing. Three modes allow two of one resolution around one of
another, and a tie. Three calls or updates on their way give an oldest, a middle
and a youngest. Three launches are an owner and two that race, or that follow
each other as owners. The five rows are the first, the two optional ones, and a
neighbour of each. Two users, two passwords: one for the form and one to mistake
it for. Three versions of `fonts.conf` are the one an object has read, one that
another program wrote since, and the one either writes next; the three files
between them have a setting assigned twice, one appended, one exclude range on top of
another and entries of others before, between and after. The faces give a family
fixed twice, one fixed and general, and lists out of order; the sizes are one with a tab,
one between two tabs and one above all. The places have two zones within the radius (one on its
rim), none but two equally near, and none but one nearest. `MaxMessages`, `MaxCalls`, `MaxUpdates` guard only what the user and other
programs start, never an answer, so no handler is cut off by a bound.
`display_manager` uses symmetry of the process identifiers, which nothing
orders; no run with a liveness property uses symmetry. Deadlock is checked except
in `mode_scan` (the function ends) and `navigation` (all launches may have ended).

Fairness. Only what Qt, the bus or a service does by itself is fair: the event
loop handles what is pending (`WF` on the page's handlers, timers and the write of
`QSettings`), a started process ends, a service works through its queue or
refuses, and the thread of `FontsModel` runs. Users, other programs and daemons that come and go owe nothing,
nor does an authorisation dialog, so `DateTimePage` has no fairness. That the
Display page does not stay busy is not a run of its own: `BusyForAReason` says, and
is proved to, that a busy page has a report on its way or a failure behind it, and a
report on its way ends.

Disagreements found, as findings: modes of all outputs are offered for the first
(`display.cpp:77` against the comment at 56), and overlapping commands can leave
the page older than the last of them (`display.cpp:169` against the comment at
171).

## What is proved

TLAPS proves these for all values of the constants that satisfy the assumptions
named in the modules (which TLC evaluates in every run). Few of the safety
properties are inductive; the invariants that make them so stand beside them in the
component's module, or in the proof, and were checked with TLC on the run's instance
before they were proved.

* `DisplayProofs`, on `ModeScan`: `ScanTypeCorrect`; `HighestRateKept`, that the map holds the best
  mode of every resolution at each iteration, for reports of any length. Argument:
  a new token either becomes the best of its resolution (`TokenBecomesBest`) or
  leaves the best where it is (`BestStays`). `ScanIsParse`: the loops compute
  `ParseResults`. `ScanInv` says how far the second loop has come, with
  `FirstFlagged` that where it stops is the mode the definition chooses.
* `DisplayProofs`, on `DisplayManager`: `TypeCorrect` (it needs that a parse of a typed report is
  typed, `ParseType`); `PageInvariant`, from which `PageIsBusyForAReason`,
  `PageSettlesFresh` and the action property `ListsStay` follow. The safety properties
  are not inductive alone: `PageInv` adds that a closed page is as new, that without
  overlap at most one process runs (`OneAtATime`), and that a report under way was
  taken after the last command (`ReportsAreFresh`). `ChoiceShows` follows the choice
  of the user all the way: an entry of the box means on the screen what it says
  (`EntriesMean`), so the command asks for the choice; the screen that has obeyed has
  it (`ObeyedHasChoice`); the next report tells (`ReadShowsChoice`). It is about
  screens that are `Sound`: output names are distinct, modes are reported under their
  outputs and in the order of these, and an id stands for one resolution.
  Without that it is false, for the reason of the finding about the first output: the
  page matches modes of all outputs, so the first current one it meets has to be one of
  the output that it sets. The screens of the run are `Sound`, which TLC checks as an
  assumption.
* `NetworkProxyProofs`: `TypeCorrect`; `SessionIsTold` (`SessionFollowsFile`
  together with `UnwrittenHasTimer`, which makes it inductive: a value not yet in
  the file has a timer that expires after the write); `StoredTogether`, for which
  the form, too, has to satisfy "same means same"; `FormIsStored`, together with
  `PendingIsMarked`, which makes it inductive: `needSave` has to be remembered while "No
  Proxy" shows neither fields nor button. The case to look at is a page that comes up with
  its Bindings: nothing is marked only if no text is stored that a Binding could copy.
* `BatteryHistoryProofs`: `TypeCorrect`; `QuestionsCorrect`; `SettlesOnCurrent`,
  inductive as the pair "the youngest call is current" and "without calls the last
  answer is", because answers come in the order of the calls; `AnswersInTurn`, the
  safety half of the refinement of `LatestAnswer`: a change either sends a call for
  the properties it leaves, or leaves nothing to ask, or nothing new; and an answer is
  to the oldest call. `StaleAfterErrors`. `GraphFits`: the limits enclose the points of
  histories of any length. `ValuesKept` says what the loop that prepends computes
  (`OldestFirst`), `LargestFound` that the truncated maximum is less than a unit below
  every value. It assumes `NewestFirst`, that UPower answers in the order the code
  relies on when it reverses the answer.
* `DateTimePageProofs`: `SwitchTells` and `LabelTells`, for any zones and any
  number of calls on their way. `PageInv` adds to the two properties what holds
  while calls are on their way: the youngest `SetNTP` says what the switch says, and
  the `SetTimezone` that is waited for is the youngest one. The work is in
  `YoungestStays`: taking another call out of the sequence, as carrying it out or
  refusing it does, may move the youngest but leaves it the youngest. `NamedNear`: on
  any map and in any order of the list the loop finds a zone within the radius or a
  nearest one. `VisitedAll` is its loop invariant over the zones visited so far,
  `FirstOfSorted` that sorting gives the first name of the list.
* `NavigationProofs`: `TypeCorrect`; `OneWindowOnly`, `PagesDoNotPileUp` and
  `HighlightTells`, from one invariant: the owner is unique, a call belongs to a
  process that waits for it (so that an answer never ends the owner) and has an owner
  that exported its object, and a window that is up has two pages, the upper one that
  of the highlighted row unless the timer has removed that row. The timer's removals
  are a loop over the missing rows, for which the rows stay distinct and the
  highlight inside them. `KeepsSingleInstance`: every step is one of `SingleInstance`
  or a stutter.
* `UserAccountsProofs`: `PasswordArrives`, with any users, passwords and messages. The
  invariant (`AccountsInv`) is that the form holds what was asked for as long as an
  addition is under way, and that for an account that is to get a password the
  *youngest* request to set it carries that password, or the service already has it:
  other requests and other programs may come before, but not after.
* `RemoteSwitchProofs`: `TypeCorrect`, `ControlTells` and `ChoiceSurvives`, for all
  eleven kinds and any number of messages. `SwitchInv` is about `Outlook`, the value
  the daemon will have when all that was sent, or waits in a timer, has arrived: the
  user's last choice is the outlook, and a page that could know and shows something
  else has a signal coming.
* `FontsProofs`, on `FontsPage`: `PageListsComplete`, `PageShowsSystem` and
  `PageKeepsSize`, for any sets of faces, families and sizes, from `PageInv`: what the
  thread has appended is the list of the faces it has looked at (`ListedAmong`), what it
  posts is complete and in order, nobody touches the lists after that, and a box that was
  told holds the list of its kind, whatever it read before.
* `FontsProofs`, on `KXftConfig`: `ConfigInvariant`, and from it all four action
  properties of the run, for files of any length, any setters' arguments and any number of
  writes: `SettingsStaySet`, `OthersStayInFile`, `RangeGetsThere`, `WritingSettles`.
  The invariant `ConfigInv` rests on two ideas. `Sane` relates an object to its
  document: each item knows its place (`PlaceOf`), that is, the element of its node is one
  for its key, no element after it outranks it, and a new node is in the document only as
  the item's own. That is why what `apply` puts at that place is what reading the file
  finds, although reading takes the last element that assigns and applying neither looks for
  that nor removes the others. `Kept` relates two documents: one comes from the
  other by taking out and putting in elements of some keys, the others staying
  in their order. It is reflexive and transitive (`KeptItself`, `KeptTwice`), every
  step of `Applied` is one for its key (`Step`, `Steps`), and with the keys of the object
  itself it says that the elements of other programs stay. The rest of `ConfigInv`
  is about the two objects and where `apply()` is: the second has the settings of the first,
  what is written without a race comes from the document that was read last, and an
  object that is about to be reset without one finds in the file what was written
  (`JustWritten`), or nothing it would change (`NothingToWrite`); `ReadBackKeepsSettings` and
  `ReadBackSettles` say what reading that back gives. `OlderStay` follows
  the ranges that an object does not know: the last of them is what is left
  when its own is taken away.

The auxiliary invariants (`ScanInv`, the three `PageInv`, `ChoiceInv`,
`UnwrittenHasTimer`, `PendingIsMarked`, `YoungestCallIsCurrent`, `OldestFirst`, `BusyWhileReading`, `MapInv`,
`NavigationInv`, `AccountsInv`, `SwitchInv`, `ConfigInv`) are proved for every instance
and therefore not repeated in a run.

About loops. The provers cannot use the library's induction theorems, which take
an operator as parameter. Where a fold or a recursive function had to be reasoned
about, the proof is by a least counterexample instead: a nonempty set of numbers has a
least element (`LeastNat`, from the well-foundedness of `<`), and at the least
length where a fold differs from what it should be, its definition gives the step
(`Solution`, `OneByOne`). For this the loops of `BatteryHistory` and
`DateTimePage` are written with `FoldLeft` over a named step. `SelectSeq` and
`SetToSortSeq` remain out of reach: sorting is given by what it makes of a list (`Sorted` in
`DateTimePage` by rank, `Sortings` in `FontsPage`), `removeChild` by `RemoveAt`, and
that the elements of others keep their order by the map from their old
places to their new ones (`SameOthers`).

Only model-checked: everything temporal beyond safety (`SessionCatchesUp`,
`AddIsAnswered`, `EchoEnds`, `LoadEnds`, and the liveness of the two refinements),
because TLAPS has no `ENABLED`. Every other property of a passing run has a theorem.

## Plan

1. Done: `DisplayModes`, `ModeScan`, `DisplayManager`; `NetworkProxy`;
   `BatteryHistory` as `LatestAnswer`; `Navigation` as `SingleInstance`;
   `UserAccounts`; `RemoteSwitch`; `FontsConf` and `KXftConfig`; `FontsPage`;
   `DateTimePage`.
2. `CursorThemeModel`: which of several directories of one theme wins, and the
   current row against it, checked against a declarative definition.
3. An abstract specification of `KXftConfig`: a map from setting to value that
   `apply` merges into the file.
4. The other settings of the Appearance and Background pages as further kinds of
   `RemoteSwitch`.

The proofs are as complete as the safety properties; new ones come with the modules
above. `KXftConfig` as a map from settings to values (3) is within reach of what is
proved: `SettingsStaySet` and `Sane` are the two halves of its refinement.

## Not modelled

Left out for good: the WLAN, wired, hotspot, Bluetooth and sound pages (their
state is libcutefish's), the About page and the icon lookup (they read files once),
`CScreenManager` and `CScreenOutput` (compiled, never instantiated), the update
model and VPN (not built or empty), layout and translations (the `.ts` files under
`translations/` are message catalogues of Qt Linguist: XML data, without state or
control; the program is the C++ and QML beside them). The remaining
components without a module are those of the plan; `PROJECT.json` says for each
what is missing. Within modelled components: account type, picture and automatic
login of users, the sliders of mouse and touchpad, the timeout of the power page, the
24-hour switch and the setting of the clock, hinting and antialiasing on the Fonts
page, dark mode, accent colour, scale and icon sizes, and daemons that are not
running at all. The default applications page is sequential code over files that are read once:
lists of desktop entries, and setters that no answer follows.
