------------------------------ MODULE ModeScan ------------------------------
(***************************************************************************)
(* The loops of DisplayManager::parseOutput, one iteration a step, over a  *)
(* report that does not change.  DisplayModes says what they must compute; *)
(* DisplayManager uses that result as one step of the event loop.          *)
(***************************************************************************)
EXTENDS DisplayModes

CONSTANT Reports      \* the reports to parse

ASSUME ReportsAssumption == Reports \subseteq Report

VARIABLES
  input,        \* the text being parsed
  pc,           \* the loop the function is in
  matched,      \* how many tokens that loop has matched
  bestModes,    \* resolution -> [id, hz], for the resolutions met so far
  currentRes,   \* local variable of the second loop
  members       \* the members of DisplayManager

scanVars == <<input, pc, matched, bestModes, currentRes, members>>

reported == input.modes

(* Before the list is built.                                               *)
Unlisted == [ name |-> FirstName(input), resolutions |-> <<>>, modeIds |-> <<>>,
              resIndex |-> 0, rotIndex |-> RotationIndex(input) ]

(* Lines 50 to 71: the members are cleared, the name and the rotation are  *)
(* those of the first match.                                               *)
ScanInit ==
  /\ input \in Reports
  /\ pc = "scan"
  /\ matched = 0
  /\ bestModes = <<>>
  /\ currentRes = Empty
  /\ members = Unlisted

(* The condition of line 92.  The variant lets a later token win whatever  *)
(* its rate, as assigning without the comparison would.                    *)
ImprovesAlways(token) == token.res \in Resolutions
Improves(token) ==
  \/ token.res \notin DOMAIN bestModes
  \/ token.hz > bestModes[token.res].hz

(* One iteration of the first loop.                                        *)
ScanToken ==
  /\ pc = "scan" /\ matched < Len(reported)
  /\ LET token == reported[matched + 1]
     IN  bestModes' =
           IF Improves(token)
           THEN [r \in DOMAIN bestModes \union {token.res} |->
                   IF r = token.res THEN [id |-> token.id, hz |-> token.hz]
                                    ELSE bestModes[r]]
           ELSE bestModes
  /\ matched' = matched + 1
  /\ UNCHANGED <<input, pc, currentRes, members>>

EndScan ==
  /\ pc = "scan" /\ matched = Len(reported)
  /\ pc' = "current" /\ matched' = 0
  /\ UNCHANGED <<input, bestModes, currentRes, members>>

(* One iteration of the second loop, which stops at the first '*'.  The    *)
(* first variant runs on to the last one; the second takes the capture     *)
(* group of the id for that of the resolution.                             *)
FindLastCurrent ==
  /\ pc = "current" /\ matched < Len(reported)
  /\ matched' = matched + 1
  /\ LET token == reported[matched + 1]
     IN  currentRes' = IF token.current THEN token.res ELSE currentRes
  /\ UNCHANGED <<input, pc, bestModes, members>>
FindCurrentId ==
  /\ pc = "current" /\ matched < Len(reported)
  /\ matched' = matched + 1
  /\ IF reported[matched + 1].current
     THEN currentRes' = reported[matched + 1].id /\ pc' = "list"
     ELSE UNCHANGED <<currentRes, pc>>
  /\ UNCHANGED <<input, bestModes, members>>
FindCurrent ==
  /\ pc = "current" /\ matched < Len(reported)
  /\ matched' = matched + 1
  /\ IF reported[matched + 1].current
     THEN currentRes' = reported[matched + 1].res /\ pc' = "list"
     ELSE UNCHANGED <<currentRes, pc>>
  /\ UNCHANGED <<input, bestModes, members>>

EndCurrent ==
  /\ pc = "current" /\ matched = Len(reported)
  /\ pc' = "list"
  /\ UNCHANGED <<input, matched, bestModes, currentRes, members>>

(* The map as a list, sorted, written into the members.                    *)
BuildList ==
  /\ pc = "list"
  /\ \E list \in Orderings(DOMAIN bestModes) :
       members' = [members EXCEPT
                  !.resolutions = list,
                  !.modeIds     = [k \in DOMAIN list |-> bestModes[list[k]].id],
                  !.resIndex    = IndexIn(list, currentRes)]
  /\ pc' = "done"
  /\ UNCHANGED <<input, matched, bestModes, currentRes>>

ScanNext == ScanToken \/ EndScan \/ FindCurrent \/ EndCurrent \/ BuildList

ScanSpec == ScanInit /\ [][ScanNext]_scanVars
-----------------------------------------------------------------------------
ScanTypeOK ==
  /\ input \in Reports
  /\ pc \in {"scan", "current", "list", "done"}
  /\ matched \in 0..Len(reported)
  /\ DOMAIN bestModes \subseteq Resolutions
  /\ \A res \in DOMAIN bestModes : bestModes[res] \in [id: ModeIds, hz: Nat]
  /\ currentRes \in Resolutions \union {Empty}

(* How many tokens the first loop is past.                                 *)
scanned == IF pc = "scan" THEN matched ELSE Len(reported)

(* The map holds for each resolution among the first n tokens the id and   *)
(* the rate of its best token, and nothing else.                           *)
HoldsBest(map, tokens, n) ==
  /\ DOMAIN map = ResolutionsUpTo(tokens, n)
  /\ \A res \in DOMAIN map :
       \E k \in 1..n :
         /\ IsBest(tokens, n, k)
         /\ tokens[k].res = res
         /\ map[res] = [id |-> tokens[k].id, hz |-> tokens[k].hz]

(* "Keep only the highest refresh rate of a resolution" (the comments in   *)
(* display.cpp, lines 79 and 91): at every iteration of the first loop     *)
(* bestModes is right for the tokens matched so far, so which mode is      *)
(* offered does not depend on the order the report lists them in.          *)
KeepsHighestRate == HoldsBest(bestModes, reported, scanned)

(* Once parseOutput is done, what the page offers is exactly what the      *)
(* declarative definition says: the loops, the map and the sort together   *)
(* compute one of ParseResults.                                            *)
ScanComputesParse == pc = "done" => members \in ParseResults(input)

(* The inductive invariant behind it: how far each loop has come.          *)
ScanInv ==
  /\ pc # "done" => members = Unlisted
  /\ pc \in {"scan", "current"} => currentRes = Empty
  /\ pc = "current" => \A k \in 1..matched : ~reported[k].current
  /\ pc = "list" => currentRes = FlaggedResolution(reported)
  /\ ScanComputesParse

(* The comment in display.cpp, line 56, says that the first Output block   *)
(* is parsed.  What is offered for that output would then be modes of that *)
(* output.                                                                 *)
OffersFirstOutputOnly ==
  pc = "done" =>
    \A n \in DOMAIN members.modeIds :
      \E k \in DOMAIN reported :
        /\ reported[k].output = 1
        /\ reported[k].id = members.modeIds[n]
        /\ reported[k].res = members.resolutions[n]
=============================================================================
