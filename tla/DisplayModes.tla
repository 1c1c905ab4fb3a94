---------------------------- MODULE DisplayModes ----------------------------
(***************************************************************************)
(* What DisplayManager::parseOutput (display.cpp) makes of one report of   *)
(* `kscreen-doctor -o`.                                                    *)
(*                                                                         *)
(* A report lists the outputs in the order they are printed and, in the    *)
(* same order, every token the mode regular expression matches, whichever  *)
(* output it is printed under.  A token carries the id of a mode, its      *)
(* resolution, its refresh rate and the '*' flag of the current mode; its  *)
(* field "output" tells under which output it stands, which the code does  *)
(* not look at.                                                            *)
(***************************************************************************)
EXTENDS Naturals, Sequences, FiniteSets

CONSTANTS
  Names,        \* output names, such as eDP-1
  ModeIds,      \* the numbers kscreen gives to the modes of an output
  Resolutions,  \* the texts WIDTHxHEIGHT
  Pixels,       \* the number of pixels of each resolution
  Empty         \* the empty QString

ASSUME DisplayAssumption ==
  /\ Pixels \in [Resolutions -> Nat]
  /\ Empty \notin Names
  /\ Empty \notin Resolutions

RotationValues == <<1, 2, 4, 8>>

Mode == [output: Nat, id: ModeIds, res: Resolutions, hz: Nat, current: BOOLEAN]

OutputBlock == [name: Names, rotation: Nat]

Report == [outputs: Seq(OutputBlock), modes: Seq(Mode)]
-----------------------------------------------------------------------------
FirstName(report) ==
  IF report.outputs = <<>> THEN Empty ELSE report.outputs[1].name

(* m_rotationValues.indexOf, and 0 for a value that is not in the list.    *)
(* The variant keeps the -1 of indexOf.                                    *)
RotationIndexUnchecked(report) ==
  IF report.outputs = <<>> THEN 0
  ELSE IF report.outputs[1].rotation \in {1, 2, 4, 8}
  THEN (CHOOSE k \in 1..4 : RotationValues[k] = report.outputs[1].rotation) - 1
  ELSE 0 - 1
RotationIndex(report) ==
  IF report.outputs # <<>> /\ report.outputs[1].rotation \in {1, 2, 4, 8}
  THEN (CHOOSE k \in 1..4 : RotationValues[k] = report.outputs[1].rotation) - 1
  ELSE 0

(* Among the first n tokens, k is the one bestModes keeps for its          *)
(* resolution: no other has a higher rate, no earlier one the same rate.   *)
IsBest(modes, n, k) ==
  /\ k \in 1..n
  /\ \A j \in 1..n :
        modes[j].res = modes[k].res =>
          \/ modes[j].hz < modes[k].hz
          \/ modes[j].hz = modes[k].hz /\ k <= j

ResolutionsUpTo(modes, n) == {modes[k].res : k \in 1..n}

(* The resolution of the first token that is flagged '*', or none.         *)
FlaggedResolution(modes) ==
  IF \E k \in DOMAIN modes : modes[k].current
  THEN LET first == CHOOSE k \in DOMAIN modes :
                      /\ modes[k].current
                      /\ \A j \in DOMAIN modes : modes[j].current => k <= j
       IN  modes[first].res
  ELSE Empty

(* std::sort puts the resolutions with more pixels first and leaves the    *)
(* order of those with equally many open.                                  *)
Orderings(resolutions) ==
  LET Places == 1..Cardinality(resolutions)
  IN  {list \in [Places -> resolutions] :
         /\ \A res \in resolutions : \E k \in Places : list[k] = res
         /\ \A j, k \in Places : j < k => Pixels[list[j]] >= Pixels[list[k]]}

(* The index the last loop assigns, counted from 0: where the list shows   *)
(* the current resolution, or 0.                                           *)
IndexIn(list, res) ==
  IF \E k \in DOMAIN list : list[k] = res
  THEN (CHOOSE k \in DOMAIN list : list[k] = res) - 1
  ELSE 0

(* The list of the modes kept for the listed resolutions.                  *)
BestIds(modes, list) ==
  {ids \in [DOMAIN list -> ModeIds] :
     \A k \in DOMAIN list :
       \E j \in DOMAIN modes : /\ IsBest(modes, Len(modes), j)
                               /\ modes[j].res = list[k]
                               /\ modes[j].id = ids[k]}

(* The members parseOutput leaves behind.                                  *)
Parsed(report, list, ids) ==
  [ name        |-> FirstName(report),
    resolutions |-> list,
    modeIds     |-> ids,
    resIndex    |-> IndexIn(list, FlaggedResolution(report.modes)),
    rotIndex    |-> RotationIndex(report) ]

(* Every outcome of parseOutput on a report.                               *)
ParseResults(report) ==
  UNION {{Parsed(report, list, ids) : ids \in BestIds(report.modes, list)} :
           list \in Orderings(ResolutionsUpTo(report.modes, Len(report.modes)))}
=============================================================================
