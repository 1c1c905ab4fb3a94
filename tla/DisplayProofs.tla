--------------------------- MODULE DisplayProofs ---------------------------
(***************************************************************************)
(* For every report, the loops of parseOutput compute what the declarative *)
(* definition says.  For every set of screens and of processes, the page   *)
(* that uses it is type correct, is busy exactly while it waits for a      *)
(* report, is fresh when it settles and shows what the user chose.         *)
(***************************************************************************)
EXTENDS DisplayManager, ModeScan, Integers, FiniteSetTheorems, FunctionTheorems,
        WellFoundedInduction, TLAPS

(* A token of a report of Reports is a mode.                               *)
LEMMA TokenType ==
  ASSUME input \in Reports
  PROVE  /\ reported \in Seq(Mode)
         /\ Len(reported) \in Nat
         /\ \A k \in 1..Len(reported) : /\ reported[k] \in Mode
                                     /\ reported[k].id \in ModeIds
                                     /\ reported[k].res \in Resolutions
                                     /\ reported[k].hz \in Nat
<1>1. input \in Report
  BY ReportsAssumption
<1>2. reported \in Seq(Mode)
  BY <1>1 DEF Report, reported
<1>3. \A k \in 1..Len(reported) : reported[k] \in Mode
  BY <1>2
<1>4. QED
  BY <1>2, <1>3 DEF Mode

(* The loops are type correct: the index stays within the report and what  *)
(* is kept comes from it.                                                  *)
THEOREM ScanTypeCorrect == ScanSpec => []ScanTypeOK
<1>1. ScanInit => ScanTypeOK
  <2> SUFFICES ASSUME ScanInit PROVE ScanTypeOK
    OBVIOUS
  <2>1. Len(reported) \in Nat
    BY TokenType DEF ScanInit
  <2>2. DOMAIN bestModes = {}
    BY DEF ScanInit
  <2>3. QED
    BY <2>1, <2>2 DEF ScanInit, ScanTypeOK
<1>2. ScanTypeOK /\ [ScanNext]_scanVars => ScanTypeOK'
  <2> SUFFICES ASSUME ScanTypeOK, [ScanNext]_scanVars PROVE ScanTypeOK'
    OBVIOUS
  <2> USE DEF ScanTypeOK
  <2>1. CASE ScanToken
    <3> DEFINE token == reported[matched + 1]
    <3>1. /\ matched + 1 \in 1..Len(reported)
          /\ token.id \in ModeIds /\ token.res \in Resolutions /\ token.hz \in Nat
      BY <2>1, TokenType DEF ScanToken
    <3>2. UNCHANGED <<input, pc, currentRes>> /\ matched' = matched + 1
      BY <2>1 DEF ScanToken
    <3>3. CASE Improves(token)
      <4>1. bestModes' = [r \in DOMAIN bestModes \union {token.res} |->
                            IF r = token.res THEN [id |-> token.id, hz |-> token.hz]
                                             ELSE bestModes[r]]
        BY <2>1, <3>3 DEF ScanToken
      <4>2. DOMAIN bestModes' \subseteq Resolutions
        BY <3>1, <4>1
      <4>3. \A res \in DOMAIN bestModes' : bestModes'[res] \in [id: ModeIds, hz: Nat]
        BY <3>1, <4>1
      <4>4. QED
        BY <3>1, <3>2, <4>2, <4>3 DEF reported
    <3>4. CASE ~Improves(token)
      <4>1. bestModes' = bestModes
        BY <2>1, <3>4 DEF ScanToken
      <4>2. QED
        BY <3>1, <3>2, <4>1 DEF reported
    <3>5. QED
      BY <3>3, <3>4
  <2>2. CASE EndScan
    BY <2>2, TokenType DEF EndScan, reported
  <2>3. CASE FindCurrent
    <3>1. matched + 1 \in 1..Len(reported) /\ reported[matched + 1].res \in Resolutions
      BY <2>3, TokenType DEF FindCurrent
    <3>2. QED
      BY <2>3, <3>1 DEF FindCurrent, reported
  <2>4. CASE EndCurrent
    BY <2>4 DEF EndCurrent, reported
  <2>5. CASE BuildList
    BY <2>5 DEF BuildList, reported
  <2>6. CASE UNCHANGED scanVars
    BY <2>6 DEF scanVars, reported
  <2>7. QED
    BY <2>1, <2>2, <2>3, <2>4, <2>5, <2>6 DEF ScanNext
<1>3. QED
  BY <1>1, <1>2, PTL DEF ScanSpec

(* One more token: an entry that is best for another resolution, or whose  *)
(* rate the token does not exceed, stays best.                             *)
LEMMA BestStays ==
  ASSUME NEW ms, NEW n \in Nat, NEW k \in 1..n,
         \A j \in 1..n + 1 : ms[j].hz \in Nat,
         IsBest(ms, n, k),
         ms[n + 1].res = ms[k].res => ms[n + 1].hz <= ms[k].hz
  PROVE  IsBest(ms, n + 1, k)
<1> SUFFICES ASSUME NEW j \in 1..n + 1, ms[j].res = ms[k].res
             PROVE  \/ ms[j].hz < ms[k].hz
                    \/ ms[j].hz = ms[k].hz /\ k <= j
  BY DEF IsBest
<1>1. CASE j = n + 1
  BY <1>1
<1>2. CASE j # n + 1
  BY <1>2 DEF IsBest
<1>3. QED
  BY <1>1, <1>2

(* A token that is the first of its resolution, or exceeds the best so far *)
(* (k), is the best.                                                       *)
LEMMA TokenBecomesBest ==
  ASSUME NEW ms, NEW n \in Nat,
         \A j \in 1..n + 1 : ms[j].hz \in Nat,
         \/ \A j \in 1..n : ms[j].res # ms[n + 1].res
         \/ \E k \in 1..n : /\ IsBest(ms, n, k)
                            /\ ms[k].res = ms[n + 1].res
                            /\ ms[n + 1].hz > ms[k].hz
  PROVE  IsBest(ms, n + 1, n + 1)
<1> SUFFICES ASSUME NEW j \in 1..n + 1, ms[j].res = ms[n + 1].res, j # n + 1
             PROVE  ms[j].hz < ms[n + 1].hz
  BY DEF IsBest
<1>1. j \in 1..n
  OBVIOUS
<1>2. PICK k \in 1..n : /\ IsBest(ms, n, k)
                        /\ ms[k].res = ms[n + 1].res
                        /\ ms[n + 1].hz > ms[k].hz
  BY <1>1
<1>3. ms[j].hz <= ms[k].hz
  BY <1>1, <1>2 DEF IsBest
<1>4. QED
  BY <1>1, <1>2, <1>3

(* For every report, bestModes holds after each iteration of the first     *)
(* loop the earliest token with the highest rate of every resolution met.  *)
THEOREM HighestRateKept == ScanSpec => []KeepsHighestRate
<1>1. ScanInit => KeepsHighestRate
  <2> SUFFICES ASSUME ScanInit PROVE KeepsHighestRate
    OBVIOUS
  <2>1. scanned = 0 /\ DOMAIN bestModes = {}
    BY DEF ScanInit, scanned
  <2>2. QED
    BY <2>1 DEF KeepsHighestRate, HoldsBest, ResolutionsUpTo
<1>2. ScanTypeOK /\ KeepsHighestRate /\ [ScanNext]_scanVars => KeepsHighestRate'
  <2> SUFFICES ASSUME ScanTypeOK, KeepsHighestRate, [ScanNext]_scanVars
               PROVE  KeepsHighestRate'
    OBVIOUS
  <2>1. CASE ScanToken
    <3> DEFINE token == reported[matched + 1]
    <3>1. /\ pc = "scan" /\ pc' = "scan" /\ matched' = matched + 1 /\ reported' = reported
          /\ matched \in Nat /\ matched + 1 \in 1..Len(reported)
      BY <2>1, TokenType DEF ScanToken, ScanTypeOK, reported
    <3>2. scanned = matched /\ scanned' = matched + 1
      BY <3>1 DEF scanned
    <3>3. \A j \in 1..matched + 1 : reported[j].hz \in Nat
      BY <3>1, TokenType DEF ScanTypeOK
    <3>4. DOMAIN bestModes = {reported[k].res : k \in 1..matched}
      BY <3>2 DEF KeepsHighestRate, HoldsBest, ResolutionsUpTo
    <3>5. \A res \in DOMAIN bestModes :
            \E k \in 1..matched : /\ IsBest(reported, matched, k)
                            /\ reported[k].res = res
                            /\ bestModes[res] = [id |-> reported[k].id, hz |-> reported[k].hz]
      BY <3>2 DEF KeepsHighestRate, HoldsBest
    <3>6. {reported[k].res : k \in 1..matched + 1}
            = {reported[k].res : k \in 1..matched} \union {token.res}
      BY <3>1
    <3> SUFFICES HoldsBest(bestModes', reported, matched + 1)
      BY <3>1, <3>2 DEF KeepsHighestRate
    <3> SUFFICES
          /\ DOMAIN bestModes' = {reported[k].res : k \in 1..matched + 1}
          /\ \A res \in DOMAIN bestModes' :
               \E k \in 1..matched + 1 :
                 /\ IsBest(reported, matched + 1, k)
                 /\ reported[k].res = res
                 /\ bestModes'[res] = [id |-> reported[k].id, hz |-> reported[k].hz]
      BY DEF HoldsBest, ResolutionsUpTo
    <3>7. CASE Improves(token)
      <4>1. bestModes' = [r \in DOMAIN bestModes \union {token.res} |->
                            IF r = token.res THEN [id |-> token.id, hz |-> token.hz]
                                             ELSE bestModes[r]]
        BY <2>1, <3>7 DEF ScanToken
      <4>2. DOMAIN bestModes' = {reported[k].res : k \in 1..matched + 1}
        BY <3>4, <3>6, <4>1
      <4>3. IsBest(reported, matched + 1, matched + 1)
        <5>1. CASE token.res \notin DOMAIN bestModes
          <6>1. \A j \in 1..matched : reported[j].res # token.res
            BY <3>4, <5>1
          <6>2. QED
            BY <3>1, <3>3, <6>1, TokenBecomesBest
        <5>2. CASE token.res \in DOMAIN bestModes
          <6>1. PICK k \in 1..matched :
                  /\ IsBest(reported, matched, k)
                  /\ reported[k].res = token.res
                  /\ bestModes[token.res] = [id |-> reported[k].id, hz |-> reported[k].hz]
            BY <3>5, <5>2
          <6>2. token.hz > reported[k].hz
            BY <3>7, <5>2, <6>1 DEF Improves
          <6>3. QED
            BY <3>1, <3>3, <6>1, <6>2, TokenBecomesBest
        <5>3. QED
          BY <5>1, <5>2
      <4>4. ASSUME NEW res \in DOMAIN bestModes'
            PROVE  \E k \in 1..matched + 1 :
                     /\ IsBest(reported, matched + 1, k)
                     /\ reported[k].res = res
                     /\ bestModes'[res] = [id |-> reported[k].id, hz |-> reported[k].hz]
        <5>1. CASE res = token.res
          BY <3>1, <4>1, <4>3, <5>1
        <5>2. CASE res # token.res
          <6>1. res \in DOMAIN bestModes /\ bestModes'[res] = bestModes[res]
            BY <4>1, <5>2
          <6>2. PICK k \in 1..matched :
                  /\ IsBest(reported, matched, k)
                  /\ reported[k].res = res
                  /\ bestModes[res] = [id |-> reported[k].id, hz |-> reported[k].hz]
            BY <3>5, <6>1
          <6>3. IsBest(reported, matched + 1, k)
            BY <3>1, <3>3, <5>2, <6>2, BestStays
          <6>4. QED
            BY <3>1, <6>1, <6>2, <6>3
        <5>3. QED
          BY <5>1, <5>2
      <4>5. QED
        BY <4>2, <4>4
    <3>8. CASE ~Improves(token)
      <4>1. bestModes' = bestModes /\ token.res \in DOMAIN bestModes
        BY <2>1, <3>8 DEF ScanToken, Improves
      <4>2. DOMAIN bestModes' = {reported[k].res : k \in 1..matched + 1}
        BY <3>4, <3>6, <4>1
      <4>3. ASSUME NEW res \in DOMAIN bestModes'
            PROVE  \E k \in 1..matched + 1 :
                     /\ IsBest(reported, matched + 1, k)
                     /\ reported[k].res = res
                     /\ bestModes'[res] = [id |-> reported[k].id, hz |-> reported[k].hz]
        <5>1. PICK k \in 1..matched :
                /\ IsBest(reported, matched, k)
                /\ reported[k].res = res
                /\ bestModes[res] = [id |-> reported[k].id, hz |-> reported[k].hz]
          BY <3>5, <4>1
        <5>2. token.res = reported[k].res => token.hz <= reported[k].hz
          <6>1. token.hz \in Nat /\ reported[k].hz \in Nat
            BY <3>1, <3>3
          <6>2. QED
            BY <3>8, <5>1, <6>1 DEF Improves
        <5>3. IsBest(reported, matched + 1, k)
          BY <3>1, <3>3, <5>1, <5>2, BestStays
        <5>4. QED
          BY <3>1, <4>1, <5>1, <5>3
      <4>4. QED
        BY <4>2, <4>3
    <3>9. QED
      BY <3>7, <3>8
  <2>2. CASE EndScan
    <3>1. scanned' = scanned /\ reported' = reported /\ bestModes' = bestModes
      BY <2>2 DEF EndScan, scanned, reported
    <3>2. QED
      BY <3>1 DEF KeepsHighestRate
  <2>3. CASE FindCurrent \/ EndCurrent \/ BuildList \/ UNCHANGED scanVars
    <3>1. scanned' = scanned /\ reported' = reported /\ bestModes' = bestModes
      BY <2>3 DEF FindCurrent, EndCurrent, BuildList, scanVars, scanned, reported
    <3>2. QED
      BY <3>1 DEF KeepsHighestRate
  <2>4. QED
    BY <2>1, <2>2, <2>3 DEF ScanNext
<1>3. QED
  BY <1>1, <1>2, ScanTypeCorrect, PTL DEF ScanSpec

(* The second loop finds the first token with a '*'.                       *)
LEMMA FirstFlagged ==
  ASSUME ScanTypeOK, ScanInv, FindCurrent, reported[matched + 1].current
  PROVE  currentRes' = FlaggedResolution(reported)
<1>1. /\ matched \in Nat /\ Len(reported) \in Nat /\ matched + 1 \in 1..Len(reported)
      /\ DOMAIN reported = 1..Len(reported)
  BY TokenType DEF FindCurrent, ScanTypeOK
<1>2. \A k \in 1..matched : ~reported[k].current
  BY DEF FindCurrent, ScanInv
<1> DEFINE first == CHOOSE k \in DOMAIN reported :
                      /\ reported[k].current
                      /\ \A j \in DOMAIN reported : reported[j].current => k <= j
<1>3. \A k \in DOMAIN reported :
        /\ reported[k].current
        /\ \A j \in DOMAIN reported : reported[j].current => k <= j
        <=> k = matched + 1
  <2>1. \A j \in DOMAIN reported : reported[j].current => matched + 1 <= j
    BY <1>1, <1>2
  <2> QED
    BY <1>1, <2>1
<1>4. first = matched + 1
  BY <1>1, <1>3
<1>5. FlaggedResolution(reported) = reported[first].res
  BY <1>1 DEF FlaggedResolution
<1> QED
  BY <1>4, <1>5 DEF FindCurrent

(* What the loops, the map and the sort leave in the members is one of the *)
(* outcomes that DisplayModes defines: ScanComputesParse.                  *)
THEOREM ScanIsParse == ScanSpec => []ScanComputesParse
<1>1. ScanInit => ScanInv
  BY DEF ScanInit, ScanInv, ScanComputesParse
<1>2. ScanTypeOK /\ KeepsHighestRate /\ ScanInv /\ [ScanNext]_scanVars => ScanInv'
  <2> SUFFICES ASSUME ScanTypeOK, KeepsHighestRate, ScanInv, [ScanNext]_scanVars
               PROVE  ScanInv'
    OBVIOUS
  <2>1. CASE ScanToken
    BY <2>1 DEF ScanToken, ScanInv, ScanComputesParse, Unlisted, reported
  <2>2. CASE EndScan
    BY <2>2 DEF EndScan, ScanInv, ScanComputesParse, Unlisted, reported
  <2>3. CASE FindCurrent
    <3>1. /\ pc = "current" /\ matched \in Nat /\ matched' = matched + 1
          /\ reported' = reported
          /\ UNCHANGED <<input, members>>
      BY <2>3, TokenType DEF FindCurrent, ScanTypeOK, reported
    <3>2. Unlisted' = Unlisted
      BY <3>1 DEF Unlisted
    <3>3. CASE reported[matched + 1].current
      <4>1. currentRes' = FlaggedResolution(reported) /\ pc' = "list"
        BY <2>3, <3>3, FirstFlagged DEF FindCurrent
      <4> QED
        BY <3>1, <3>2, <4>1 DEF ScanInv, ScanComputesParse
    <3>4. CASE ~reported[matched + 1].current
      <4>1. pc' = "current" /\ currentRes' = currentRes
        BY <2>3, <3>1, <3>4 DEF FindCurrent
      <4>2. \A k \in 1..(matched + 1) : ~reported[k].current
        BY <3>1, <3>4 DEF ScanInv
      <4> QED
        BY <3>1, <3>2, <4>1, <4>2 DEF ScanInv, ScanComputesParse
    <3> QED
      BY <3>3, <3>4
  <2>4. CASE EndCurrent
    <3>1. /\ pc = "current" /\ pc' = "list" /\ matched = Len(reported)
          /\ reported' = reported
          /\ UNCHANGED <<input, members, currentRes>>
      BY <2>4 DEF EndCurrent, reported
    <3>2. \A k \in DOMAIN reported : ~reported[k].current
      BY <3>1, TokenType DEF ScanInv, ScanTypeOK
    <3>3. currentRes = FlaggedResolution(reported)
      BY <3>1, <3>2 DEF ScanInv, FlaggedResolution
    <3> QED
      BY <3>1, <3>3 DEF ScanInv, ScanComputesParse, Unlisted
  <2>5. CASE BuildList
    <3>1. /\ pc = "list" /\ pc' = "done" /\ input' = input
          /\ members = Unlisted /\ currentRes = FlaggedResolution(reported)
      BY <2>5 DEF BuildList, ScanInv
    <3>2. PICK list \in Orderings(DOMAIN bestModes) :
            members' = [members EXCEPT
                       !.resolutions = list,
                       !.modeIds     = [k \in DOMAIN list |-> bestModes[list[k]].id],
                       !.resIndex    = IndexIn(list, currentRes)]
      BY <2>5 DEF BuildList
    <3> DEFINE ids == [k \in DOMAIN list |-> bestModes[list[k]].id]
    <3>3. HoldsBest(bestModes, reported, Len(reported))
      BY <3>1 DEF KeepsHighestRate, scanned
    <3>4. DOMAIN bestModes = ResolutionsUpTo(reported, Len(reported))
      BY <3>3 DEF HoldsBest
    <3>5. \A k \in DOMAIN list : list[k] \in DOMAIN bestModes
      BY DEF Orderings
    <3>6. ids \in BestIds(reported, list)
      <4>1. ASSUME NEW k \in DOMAIN list
            PROVE  /\ ids[k] \in ModeIds
                   /\ \E j \in DOMAIN reported : /\ IsBest(reported, Len(reported), j)
                                              /\ reported[j].res = list[k]
                                              /\ reported[j].id = ids[k]
        <5>1. PICK j \in 1..Len(reported) :
                /\ IsBest(reported, Len(reported), j)
                /\ reported[j].res = list[k]
                /\ bestModes[list[k]] = [id |-> reported[j].id, hz |-> reported[j].hz]
          BY <3>3, <3>5 DEF HoldsBest
        <5>2. ids[k] = reported[j].id /\ reported[j].id \in ModeIds /\ j \in DOMAIN reported
          BY <5>1, TokenType DEF ScanTypeOK
        <5> QED
          BY <5>1, <5>2
      <4> HIDE DEF ids
      <4>2. ids = [k \in DOMAIN list |-> ids[k]]
        BY DEF ids
      <4> QED
        BY <4>1, <4>2 DEF BestIds
    <3>7. members' = Parsed(input, list, ids)
      BY <3>1, <3>2 DEF Parsed, Unlisted, reported
    <3> HIDE DEF ids
    <3>8. members' \in ParseResults(input)
      BY <3>4, <3>6, <3>7 DEF ParseResults, reported
    <3> QED
      BY <3>1, <3>8 DEF ScanInv, ScanComputesParse
  <2>6. CASE UNCHANGED scanVars
    BY <2>6 DEF scanVars, ScanInv, ScanComputesParse, Unlisted, reported
  <2> QED
    BY <2>1, <2>2, <2>3, <2>4, <2>5, <2>6 DEF ScanNext
<1>3. ScanInv => ScanComputesParse
  BY DEF ScanInv
<1> QED
  BY <1>1, <1>2, <1>3, ScanTypeCorrect, HighestRateKept, PTL DEF ScanSpec
-----------------------------------------------------------------------------
(* What parseOutput makes of a report has the types of the members.        *)
LEMMA ParseType ==
  ASSUME NEW report \in Report, NEW v \in ParseResults(report)
  PROVE  v \in View
<1> DEFINE modes == report.modes
           n == Len(modes)
           S == ResolutionsUpTo(modes, n)
<1>1. modes \in Seq(Mode) /\ n \in Nat /\ report.outputs \in Seq(OutputBlock)
  BY DEF Report
<1>2. \A k \in 1..n : modes[k].res \in Resolutions
  <2>1. \A k \in 1..n : modes[k] \in Mode
    BY <1>1
  <2>2. QED
    BY <2>1 DEF Mode
<1>3. S \subseteq Resolutions
  BY <1>2 DEF ResolutionsUpTo
<1>4. Cardinality(S) \in Nat
  <2> DEFINE f == [k \in 1..n |-> modes[k].res]
  <2>1. f \in Surjection(1..n, S)
    BY DEF Surjection, ResolutionsUpTo
  <2>2. IsFiniteSet(1..n)
    BY <1>1, FS_Interval
  <2>3. IsFiniteSet(S)
    BY <2>1, <2>2, FS_Surjection
  <2>4. QED
    BY <2>3, FS_CardinalityType
<1>5. PICK list \in Orderings(S) :
        \E ids \in BestIds(modes, list) : v = Parsed(report, list, ids)
  BY DEF ParseResults
<1> PICK ids \in BestIds(modes, list) : v = Parsed(report, list, ids)
  BY <1>5
<1>6. list \in [1..Cardinality(S) -> S] /\ list \in Seq(Resolutions)
  <2>1. list \in [1..Cardinality(S) -> S]
    BY DEF Orderings
  <2>2. QED
    BY <1>3, <1>4, <2>1
<1>7. ids \in Seq(ModeIds)
  <2>1. ids \in [DOMAIN list -> ModeIds]
    BY DEF BestIds
  <2>2. DOMAIN list = 1..Cardinality(S)
    BY <1>6
  <2>3. QED
    BY <1>4, <2>1, <2>2
<1>8. FirstName(report) \in Names \union {Empty}
  <2>1. CASE report.outputs # <<>>
    <3>1. report.outputs[1] \in OutputBlock
      BY <1>1, <2>1
    <3>2. QED
      BY <2>1, <3>1 DEF FirstName, OutputBlock
  <2>2. CASE report.outputs = <<>>
    BY <2>2 DEF FirstName
  <2>3. QED
    BY <2>1, <2>2
<1>9. RotationIndex(report) \in 0..3
  <2>1. CASE report.outputs # <<>> /\ report.outputs[1].rotation \in {1, 2, 4, 8}
    <3>1. \E k \in 1..4 : RotationValues[k] = report.outputs[1].rotation
      BY <2>1 DEF RotationValues
    <3>2. QED
      BY <2>1, <3>1 DEF RotationIndex
  <2>2. QED
    BY <2>1 DEF RotationIndex
<1>10. IndexIn(list, FlaggedResolution(modes)) \in Nat
  <2> DEFINE res == FlaggedResolution(modes)
  <2>1. CASE \E k \in DOMAIN list : list[k] = res
    <3>1. (CHOOSE k \in DOMAIN list : list[k] = res) \in 1..Cardinality(S)
      BY <1>6, <2>1
    <3>2. QED
      BY <1>4, <2>1, <3>1 DEF IndexIn
  <2>2. QED
    BY <2>1 DEF IndexIn
<1>11. QED
  BY <1>5, <1>6, <1>7, <1>8, <1>9, <1>10 DEF Parsed, View

(* One process changes state: the others keep theirs.                      *)
LEMMA ProcUpdate ==
  ASSUME NEW procs \in [Procs -> Process], NEW p \in Procs, NEW x \in Process
  PROVE  [procs EXCEPT ![p] = x] \in [Procs -> Process]
  OBVIOUS

(* The states of a process that carry no data are states of a process, and *)
(* so is a report of the screen.                                           *)
LEMMA ProcessStates ==
  /\ {Idle, Reading, ReadError, CommandDone} \subseteq Process
  /\ \A report \in Report, since \in SUBSET {"command", "others"} :
       Read(report, since) \in Process
  BY DEF Process, Idle, Reading, ReadError, CommandDone, Read

(* A command leaves the screen a report.                                   *)
LEMMA ScreenType ==
  ASSUME screen \in Report, NEW command, NEW k \in DOMAIN screen.outputs,
         command.property # "mode" => command.value \in Nat
  PROVE  After(command, k) \in Report
<1>1. /\ screen.modes \in Seq(Mode) /\ screen.outputs \in Seq(OutputBlock)
      /\ screen = [outputs |-> screen.outputs, modes |-> screen.modes]
  BY DEF Report
<1>2. CASE command.property = "mode"
  <2> DEFINE ms == [j \in DOMAIN screen.modes |->
                      IF screen.modes[j].output = k
                      THEN [screen.modes[j] EXCEPT
                              !.current = (screen.modes[j].id = command.value)]
                      ELSE screen.modes[j]]
  <2>1. \A j \in 1..Len(screen.modes) : ms[j] \in Mode
    <3> SUFFICES ASSUME NEW j \in 1..Len(screen.modes) PROVE ms[j] \in Mode
      OBVIOUS
    <3> DEFINE mode == screen.modes[j]
               flag == (mode.id = command.value)
    <3>1. mode \in Mode
      BY <1>1
    <3>2. flag \in BOOLEAN
      OBVIOUS
    <3>3. ms[j] = IF mode.output = k THEN [mode EXCEPT !.current = flag] ELSE mode
      BY <1>1
    <3> HIDE DEF mode, flag, ms
    <3>4. [mode EXCEPT !.current = flag] \in Mode
      BY <3>1, <3>2 DEF Mode
    <3>5. QED
      BY <3>1, <3>3, <3>4
  <2>2. ms \in Seq(Mode)
    <3>1. DOMAIN ms = 1..Len(screen.modes) /\ Len(screen.modes) \in Nat
      BY <1>1
    <3>2. ms \in [1..Len(screen.modes) -> Mode]
      BY <2>1, <3>1
    <3> HIDE DEF ms
    <3>3. QED
      BY <3>1, <3>2
  <2>3. After(command, k) = [screen EXCEPT !.modes = ms]
    BY <1>2 DEF After
  <2>4. QED
    BY <1>1, <2>2, <2>3 DEF Report
<1>3. CASE command.property # "mode"
  <2> DEFINE out == [screen.outputs[k] EXCEPT !.rotation = command.value]
             os == [screen.outputs EXCEPT ![k] = out]
  <2>1. screen.outputs[k] \in OutputBlock
    BY <1>1
  <2>2. out \in OutputBlock
    BY <1>3, <2>1 DEF OutputBlock
  <2>3. os \in Seq(OutputBlock)
    BY <1>1, <2>2
  <2>4. After(command, k) = [screen EXCEPT !.outputs = os]
    BY <1>3 DEF After
  <2>5. QED
    BY <1>1, <2>3, <2>4 DEF Report
<1>4. QED
  BY <1>2, <1>3

(* The effect of refresh() on the types.                                   *)
LEMMA RefreshType ==
  ASSUME TypeOK, NEW p \in Procs, Refresh(p)
  PROVE  proc' \in [Procs -> Process] /\ loading' \in BOOLEAN /\ failed' \in BOOLEAN
  BY ProcUpdate, ProcessStates, ScreensAssumption DEF TypeOK, Refresh

(* The same for runDoctor().                                               *)
LEMMA RunDoctorType ==
  ASSUME TypeOK, NEW p \in Procs, NEW command \in Process, RunDoctor(p, command)
  PROVE  /\ proc' \in [Procs -> Process] /\ failed' \in BOOLEAN
         /\ overlapped' \in BOOLEAN
<1>1. Idle \in Process
  BY ProcessStates
<1>2. QED
  BY <1>1, ProcUpdate, ScreensAssumption DEF TypeOK, RunDoctor

(* Marking reports as outdated keeps the processes processes.              *)
LEMMA OutdateType ==
  ASSUME TypeOK, NEW procs \in [Procs -> Process],
         NEW cause \in {"command", "others"}, Outdate(procs, cause)
  PROVE  proc' \in [Procs -> Process] /\ outdated' \subseteq {"command", "others"}
<1>1. ASSUME NEW q \in Procs, procs[q].kind = "read"
      PROVE  [procs[q] EXCEPT !.since = @ \union {cause}] \in Process
  <2>1. procs[q] \in [kind: {"read"}, report: Report,
                      since: SUBSET {"command", "others"}]
    BY <1>1 DEF Process, Idle, Reading, ReadError, CommandDone
  <2>2. QED
    BY <2>1 DEF Process
<1>2. QED
  BY <1>1 DEF Outdate, TypeOK

(* What the compositor is told is a command.                               *)
LEMMA CommandType ==
  ASSUME TypeOK
  PROVE  /\ \A k \in DOMAIN view.modeIds :
              Command("mode", view.name, view.modeIds[k]) \in Process
         /\ \A k \in 1..4 :
              Command("rotation", view.name, RotationValues[k]) \in Process
<1>1. view.name \in Names \union {Empty}
  BY DEF TypeOK, View
<1>2. \A k \in DOMAIN view.modeIds : view.modeIds[k] \in ModeIds
  BY DEF TypeOK, View
<1>3. \A k \in 1..4 : RotationValues[k] \in {1, 2, 4, 8}
  BY DEF RotationValues
<1>4. QED
  BY <1>1, <1>2, <1>3 DEF Command, Process

(* The Display page is type correct.                                       *)
THEOREM TypeCorrect == Spec => []TypeOK
<1>1. Init => TypeOK
  <2> SUFFICES ASSUME Init PROVE TypeOK
    OBVIOUS
  <2>1. EmptyView \in View
    BY DEF EmptyView, View
  <2>2. proc \in [Procs -> Process]
    BY ProcessStates DEF Init
  <2>3. screen \in Report
    BY ScreensAssumption DEF Init
  <2>4. choice.property \in {"none", "mode", "rotation"}
    BY DEF Init, NoChoice
  <2>5. box \in [res: Nat, rot: 0..3]
    BY DEF Init
  <2>6. QED
    BY <2>1, <2>2, <2>3, <2>4, <2>5 DEF Init, TypeOK
<1>2. TypeOK /\ [Next]_vars => TypeOK'
  <2> SUFFICES ASSUME TypeOK, [Next]_vars PROVE TypeOK'
    OBVIOUS
  <2>1. CASE ClosePage
    <3>1. EmptyView \in View
      BY DEF EmptyView, View
    <3>2. proc' \in [Procs -> Process]
      BY <2>1, ProcessStates DEF ClosePage
    <3>3. choice'.property \in {"none", "mode", "rotation"}
      BY <2>1 DEF ClosePage, NoChoice
    <3>4. box' \in [res: Nat, rot: 0..3]
      BY <2>1 DEF ClosePage
    <3>5. QED
      BY <2>1, <3>1, <3>2, <3>3, <3>4 DEF ClosePage, TypeOK
  <2>2. CASE ScreenChanges
    <3>1. proc' \in [Procs -> Process] /\ outdated' \subseteq {"command", "others"}
      BY <2>2, OutdateType DEF ScreenChanges, TypeOK
    <3>2. QED
      BY <2>2, <3>1, ScreensAssumption DEF ScreenChanges, TypeOK, NoChoice
  <2>3. ASSUME NEW p \in Procs, OpenPage(p)
        PROVE  TypeOK'
    BY <2>3, RefreshType DEF OpenPage, TypeOK
  <2>4. ASSUME NEW p \in Procs, NEW k \in DOMAIN view.modeIds, SetResolution(p, k - 1)
        PROVE  TypeOK'
    <3>1. k \in Nat /\ k >= 1 /\ (k - 1) + 1 = k
      BY DEF TypeOK, View
    <3>2. RunDoctor(p, Command("mode", view.name, view.modeIds[k]))
      BY <2>4, <3>1 DEF SetResolution
    <3>3. /\ proc' \in [Procs -> Process] /\ failed' \in BOOLEAN
          /\ overlapped' \in BOOLEAN
      BY <3>2, CommandType, RunDoctorType
    <3>4. box' \in [res: Nat, rot: 0..3]
      BY <2>4, <3>1 DEF SetResolution, TypeOK
    <3>5. choice'.property \in {"none", "mode", "rotation"}
      BY <2>4 DEF SetResolution, Chosen, NoChoice
    <3>6. QED
      BY <3>2, <3>3, <3>4, <3>5 DEF RunDoctor, TypeOK
  <2>5. ASSUME NEW p \in Procs, NEW index \in 0..3, SetRotation(p, index)
        PROVE  TypeOK'
    <3>1. RunDoctor(p, Command("rotation", view.name, RotationValues[index + 1]))
      BY <2>5 DEF SetRotation
    <3>2. /\ proc' \in [Procs -> Process] /\ failed' \in BOOLEAN
          /\ overlapped' \in BOOLEAN
      <4>1. index + 1 \in 1..4
        OBVIOUS
      <4>2. QED
        BY <3>1, <4>1, CommandType, RunDoctorType
    <3>3. box' \in [res: Nat, rot: 0..3]
      BY <2>5 DEF SetRotation, TypeOK
    <3>4. choice'.property \in {"none", "mode", "rotation"}
      BY <2>5 DEF SetRotation, Chosen, NoChoice
    <3>5. QED
      BY <3>1, <3>2, <3>3, <3>4 DEF RunDoctor, TypeOK
  <2>6. ASSUME NEW p \in Procs, FinishRead(p)
        PROVE  TypeOK'
    <3>1. proc[p] \in [kind: {"read"}, report: Report,
                       since: SUBSET {"command", "others"}]
      BY <2>6 DEF FinishRead, TypeOK, Process, Idle, Reading, ReadError, CommandDone
    <3>2. view' \in View
      BY <2>6, <3>1, ParseType DEF FinishRead
    <3>3. proc' \in [Procs -> Process]
      BY <2>6, ProcUpdate, ProcessStates DEF FinishRead, TypeOK
    <3>4. box' \in [res: Nat, rot: 0..3]
      BY <2>6, <3>2 DEF FinishRead, View
    <3>5. QED
      BY <2>6, <3>1, <3>2, <3>3, <3>4 DEF FinishRead, TypeOK
  <2>7. ASSUME NEW p \in Procs, FinishReadError(p)
        PROVE  TypeOK'
    BY <2>7, ProcUpdate, ProcessStates DEF FinishReadError, TypeOK
  <2>8. ASSUME NEW p \in Procs, FinishCommand(p)
        PROVE  TypeOK'
    BY <2>8, RefreshType DEF FinishCommand, TypeOK
  <2>9. ASSUME NEW p \in Procs, TakeReport(p)
        PROVE  TypeOK'
    <3>1. Read(screen, {}) \in Process /\ ReadError \in Process
      BY ProcessStates DEF TypeOK
    <3>2. QED
      BY <2>9, <3>1, ProcUpdate DEF TakeReport, TypeOK
  <2>10. ASSUME NEW p \in Procs, Obey(p)
         PROVE  TypeOK'
    <3>1. proc[p].property # "mode" => proc[p].value \in Nat
      BY <2>10 DEF Obey, TypeOK, Process, Idle, Reading, ReadError, CommandDone
    <3>2. screen' \in Report
      BY <2>10, <3>1, ScreenType DEF Obey, Named, TypeOK
    <3>3. [proc EXCEPT ![p] = CommandDone] \in [Procs -> Process]
      BY ProcUpdate, ProcessStates DEF TypeOK
    <3>4. proc' \in [Procs -> Process] /\ outdated' \subseteq {"command", "others"}
      BY <2>10, <3>3, OutdateType DEF Obey
    <3>5. QED
      BY <2>10, <3>2, <3>4 DEF Obey, TypeOK
  <2>11. ASSUME NEW p \in Procs, Refuse(p)
         PROVE  TypeOK'
    BY <2>11, ProcUpdate, ProcessStates DEF Refuse, TypeOK, NoChoice
  <2>12. CASE UNCHANGED vars
    BY <2>12 DEF vars, TypeOK
  <2>13. QED
    BY <2>1, <2>2, <2>3, <2>4, <2>5, <2>6, <2>7, <2>8, <2>9, <2>10, <2>11, <2>12
    DEF Next
<1>3. QED
  BY <1>1, <1>2, PTL DEF Spec

(* The kinds of the states of a process.                                   *)
LEMMA Kinds ==
  /\ Idle.kind = "idle" /\ Reading.kind = "reading"
  /\ ReadError.kind = "readError" /\ CommandDone.kind = "commandDone"
  /\ \A report, since : Read(report, since).kind = "read"
                       /\ Read(report, since).since = since
  /\ \A property, name, value : Command(property, name, value).kind = "command"
  BY DEF Idle, Reading, ReadError, CommandDone, Read, Command

(* refresh() keeps the invariant, if called when no other process runs     *)
(* or when commands overlap anyway.                                        *)
LEMMA FreshRefresh ==
  ASSUME TypeOK, PageInv, NEW p \in Procs, Refresh(p),
         open', UNCHANGED <<view, box, outdated, overlapped>>,
         proc[p].kind \notin {"reading", "read", "readError"},
         ~overlapped => \A q \in Procs : q # p => proc[q] = Idle
  PROVE  PageInv'
<1> USE Kinds
<1>1. /\ loading' = TRUE
      /\ \/ proc' = [proc EXCEPT ![p] = Reading] /\ failed' = failed
         \/ proc' = [proc EXCEPT ![p] = Idle] /\ failed' = TRUE
  BY ScreensAssumption DEF Refresh, TypeOK
<1>2. \A q \in Procs : q # p => proc'[q] = proc[q]
  BY <1>1 DEF TypeOK
<1>3. \/ proc'[p] = Reading /\ failed' = failed
      \/ proc'[p] = Idle /\ failed' = TRUE
  BY <1>1 DEF TypeOK
<1>4. ClosedIsInitial'
  BY DEF ClosedIsInitial
<1>5. OneAtATime'
  BY <1>2 DEF OneAtATime, Running
<1>6. ReportsAreFresh'
  BY <1>2, <1>3 DEF ReportsAreFresh, PageInv
<1>7. BusyForAReason'
  BY <1>3 DEF BusyForAReason, Readers
<1>8. BusyWhileReading'
  BY <1>1 DEF BusyWhileReading
<1>9. SettledPageIsFresh'
  BY <1>3 DEF SettledPageIsFresh, Quiet, Running
<1>10. QED
  BY <1>4, <1>5, <1>6, <1>7, <1>8, <1>9 DEF PageInv

(* runDoctor() keeps the invariant when the boxes are enabled.             *)
LEMMA CommandSent ==
  ASSUME TypeOK, PageInv, NEW p \in Procs, NEW command,
         RunDoctor(p, command), command.kind = "command", open, ~loading
  PROVE  PageInv'
<1> USE Kinds
<1>1. /\ UNCHANGED <<open, loading, view, screen, outdated>>
      /\ overlapped' = (overlapped \/ Running # {})
      /\ \/ proc' = [proc EXCEPT ![p] = command] /\ failed' = failed
         \/ proc' = [proc EXCEPT ![p] = Idle] /\ failed' = TRUE
  BY ScreensAssumption DEF RunDoctor, TypeOK
<1>2. \A q \in Procs : q # p => proc'[q] = proc[q]
  BY <1>1 DEF TypeOK
<1>3. \/ proc'[p] = command /\ failed' = failed
      \/ proc'[p] = Idle /\ failed' = TRUE
  BY <1>1 DEF TypeOK
<1>4. command # Idle
  OBVIOUS
<1>5. ~overlapped' => ~overlapped /\ \A q \in Procs : proc[q] = Idle
  BY <1>1 DEF Running
<1>6. ClosedIsInitial'
  BY <1>1 DEF ClosedIsInitial
<1>7. OneAtATime'
  BY <1>2, <1>5 DEF OneAtATime, Running
<1>8. ReportsAreFresh'
  BY <1>2, <1>3, <1>5 DEF ReportsAreFresh
<1>9. BusyForAReason'
  BY <1>1 DEF BusyForAReason
<1>10. BusyWhileReading'
  BY <1>2, <1>3, <1>5 DEF BusyWhileReading, Readers
<1>11. SettledPageIsFresh'
  BY <1>3, <1>4 DEF SettledPageIsFresh, Quiet, Running
<1>12. QED
  BY <1>6, <1>7, <1>8, <1>9, <1>10, <1>11 DEF PageInv

(* A process that does not end keeps the invariant: it takes its report or *)
(* the compositor answers its command.                                     *)
LEMMA ProcessWorks ==
  ASSUME TypeOK, PageInv, NEW p \in Procs, NEW next,
         proc[p] # Idle, next # Idle,
         next.kind \in {"reading", "read", "readError"}
           <=> proc[p].kind \in {"reading", "read", "readError"},
         next.kind = "read" => "command" \notin next.since,
         \A q \in Procs : IF q = p THEN proc'[q] = next
                         ELSE /\ proc'[q].kind = proc[q].kind
                              /\ proc'[q] = Idle <=> proc[q] = Idle
                              /\ ~overlapped => proc'[q] = proc[q],
         UNCHANGED <<open, loading, view, box, failed, overlapped>>
  PROVE  PageInv'
<1>1. open
  BY DEF PageInv, ClosedIsInitial, Running
<1>2. Running' = Running /\ Readers' = Readers /\ p \in Running
  BY DEF Running, Readers
<1>3. ClosedIsInitial' /\ OneAtATime' /\ BusyForAReason' /\ BusyWhileReading'
  BY <1>1, <1>2 DEF PageInv, ClosedIsInitial, OneAtATime, BusyForAReason, BusyWhileReading
<1>4. ReportsAreFresh'
  BY DEF PageInv, ReportsAreFresh
<1>5. SettledPageIsFresh'
  BY <1>2 DEF SettledPageIsFresh, Quiet
<1>6. QED
  BY <1>3, <1>4, <1>5 DEF PageInv

(* The page is busy exactly while it waits for a report, and it is fresh   *)
(* when it settles, whatever the number of processes and the screens: as   *)
(* long as no command is sent on top of another, one process runs at a     *)
(* time, so a report cannot be overtaken.                                  *)
THEOREM PageInvariant == Spec => []PageInv
<1>1. Init => PageInv
  BY Kinds DEF Init, PageInv, ClosedIsInitial, OneAtATime, ReportsAreFresh, Running,
     BusyForAReason, BusyWhileReading, Readers, SettledPageIsFresh, Quiet
<1>2. TypeOK /\ PageInv /\ [Next]_vars => PageInv'
  <2> SUFFICES ASSUME TypeOK, PageInv, [Next]_vars PROVE PageInv'
    OBVIOUS
  <2> USE Kinds
  <2>1. CASE ClosePage
    BY <2>1 DEF ClosePage, PageInv, ClosedIsInitial, OneAtATime, ReportsAreFresh,
       Running, BusyForAReason, BusyWhileReading, Readers, SettledPageIsFresh, Quiet
  <2>2. CASE ScreenChanges
    <3>1. /\ UNCHANGED <<open, loading, view, box, failed, overlapped>>
          /\ "command" \in outdated' => "command" \in outdated
          /\ \A q \in Procs : /\ proc'[q].kind = proc[q].kind
                              /\ proc'[q] = Idle <=> proc[q] = Idle
                              /\ proc[q].kind = "read" /\ "command" \notin proc[q].since
                                   => "command" \notin proc'[q].since
      <4>1. ASSUME NEW q \in Procs, proc[q].kind = "read"
            PROVE  /\ proc'[q].kind = "read" /\ proc'[q] # Idle
                   /\ proc'[q].since = proc[q].since \union {"others"}
        <5>1. proc[q] \in [kind: {"read"}, report: Report,
                           since: SUBSET {"command", "others"}]
          BY <4>1 DEF TypeOK, Process
        <5>2. proc'[q] = [proc[q] EXCEPT !.since = @ \union {"others"}]
          BY <2>2, <4>1 DEF ScreenChanges, Outdate
        <5>3. QED
          BY <5>1, <5>2
      <4>2. ASSUME NEW q \in Procs, proc[q].kind # "read"
            PROVE  proc'[q] = proc[q]
        BY <2>2, <4>2 DEF ScreenChanges, Outdate
      <4>3. QED
        BY <2>2, <4>1, <4>2 DEF ScreenChanges, Outdate
    <3>2. Running' = Running /\ Readers' = Readers
      BY <3>1 DEF Running, Readers
    <3>3. QED
      BY <3>1, <3>2 DEF PageInv, ClosedIsInitial, OneAtATime, ReportsAreFresh,
         BusyForAReason, BusyWhileReading, SettledPageIsFresh, Quiet
  <2>3. ASSUME NEW p \in Procs, OpenPage(p)
        PROVE  PageInv'
    <3>1. \A q \in Procs : proc[q] = Idle
      BY <2>3 DEF OpenPage, PageInv, ClosedIsInitial, Running
    <3>2. QED
      BY <2>3, <3>1, FreshRefresh DEF OpenPage
  <2>4. ASSUME NEW p \in Procs, NEW k \in DOMAIN view.modeIds, SetResolution(p, k - 1)
        PROVE  PageInv'
    BY <2>4, CommandSent DEF SetResolution
  <2>5. ASSUME NEW p \in Procs, NEW index \in 0..3, SetRotation(p, index)
        PROVE  PageInv'
    BY <2>5, CommandSent DEF SetRotation
  <2>6. ASSUME NEW p \in Procs, FinishRead(p) \/ FinishReadError(p)
        PROVE  PageInv'
    <3>1. /\ \A q \in Procs : proc'[q] = IF q = p THEN Idle ELSE proc[q]
          /\ loading' = FALSE /\ UNCHANGED <<open, overlapped>>
          /\ proc[p].kind \in {"read", "readError"}
      BY <2>6 DEF FinishRead, FinishReadError, TypeOK
    <3>2. proc[p] # Idle /\ open
      BY <3>1 DEF PageInv, ClosedIsInitial, Running
    <3>3. ~overlapped => \A q \in Procs : proc'[q] = Idle
      BY <3>1, <3>2 DEF PageInv, OneAtATime, Running
    <3>4. ClosedIsInitial' /\ OneAtATime' /\ ReportsAreFresh'
      BY <3>1, <3>2, <3>3 DEF ClosedIsInitial, OneAtATime, ReportsAreFresh, Running
    <3>5. BusyForAReason' /\ BusyWhileReading'
      BY <3>1, <3>3 DEF BusyForAReason, BusyWhileReading, Readers
    <3>6. SettledPageIsFresh'
      <4>1. CASE FinishRead(p)
        <5>1. ~overlapped => "command" \notin outdated'
          BY <4>1 DEF FinishRead, PageInv, ReportsAreFresh
        <5>2. box' = [res |-> view'.resIndex, rot |-> view'.rotIndex]
          BY <4>1 DEF FinishRead
        <5>3. QED
          BY <3>1, <5>1, <5>2 DEF SettledPageIsFresh
      <4>2. CASE FinishReadError(p)
        BY <4>2 DEF FinishReadError, SettledPageIsFresh
      <4>3. QED
        BY <2>6, <4>1, <4>2
    <3>7. QED
      BY <3>4, <3>5, <3>6 DEF PageInv
  <2>7. ASSUME NEW p \in Procs, FinishCommand(p)
        PROVE  PageInv'
    <3>1. proc[p] = CommandDone /\ Refresh(p)
          /\ UNCHANGED <<open, view, box, outdated, overlapped>>
      BY <2>7 DEF FinishCommand
    <3>2. open' /\ (~overlapped => \A q \in Procs : q # p => proc[q] = Idle)
      BY <3>1 DEF PageInv, ClosedIsInitial, OneAtATime, Running
    <3>3. QED
      BY <3>1, <3>2, FreshRefresh
  <2>8. ASSUME NEW p \in Procs, TakeReport(p)
        PROVE  PageInv'
    <3>1. PICK next \in {Read(screen, {}), ReadError} :
            proc' = [proc EXCEPT ![p] = next]
      BY <2>8 DEF TakeReport
    <3>2. /\ next # Idle /\ proc[p] # Idle
          /\ next.kind \in {"read", "readError"} /\ proc[p].kind = "reading"
          /\ next.kind = "read" => next.since = {}
      BY <2>8, <3>1 DEF TakeReport
    <3>3. \A q \in Procs : proc'[q] = IF q = p THEN next ELSE proc[q]
      BY <3>1 DEF TypeOK
    <3>4. QED
      BY <2>8, <3>2, <3>3, ProcessWorks DEF TakeReport
  <2>9. ASSUME NEW p \in Procs, Refuse(p)
        PROVE  PageInv'
    <3>1. /\ proc[p].kind = "command" /\ proc[p] # Idle /\ CommandDone # Idle
          /\ \A q \in Procs : proc'[q] = IF q = p THEN CommandDone ELSE proc[q]
          /\ UNCHANGED <<open, loading, view, box, failed, overlapped>>
      BY <2>9 DEF Refuse, TypeOK
    <3>2. QED
      BY <3>1, ProcessWorks
  <2>10. ASSUME NEW p \in Procs, Obey(p)
         PROVE  PageInv'
    <3> DEFINE procs == [proc EXCEPT ![p] = CommandDone]
    <3>1. /\ proc[p].kind = "command" /\ proc[p] # Idle /\ CommandDone # Idle
          /\ UNCHANGED <<open, loading, view, box, failed, overlapped>>
          /\ Outdate(procs, "command")
      BY <2>10 DEF Obey
    <3>2. \A q \in Procs : procs[q] = IF q = p THEN CommandDone ELSE proc[q]
      BY DEF TypeOK
    <3>3. ASSUME NEW q \in Procs, q # p
          PROVE  /\ proc'[q].kind = proc[q].kind
                 /\ proc'[q] = Idle <=> proc[q] = Idle
                 /\ ~overlapped => proc'[q] = proc[q]
      <4>1. CASE proc[q].kind = "read"
        <5>1. proc[q] \in [kind: {"read"}, report: Report,
                           since: SUBSET {"command", "others"}]
          BY <4>1 DEF TypeOK, Process
        <5>2. proc'[q] = [proc[q] EXCEPT !.since = @ \union {"command"}]
          BY <3>1, <3>2, <3>3, <4>1 DEF Outdate
        <5>3. overlapped
          BY <3>1, <3>3, <4>1 DEF PageInv, OneAtATime, Running
        <5>4. QED
          BY <4>1, <5>1, <5>2, <5>3
      <4>2. CASE proc[q].kind # "read"
        BY <3>1, <3>2, <3>3, <4>2 DEF Outdate
      <4>3. QED
        BY <4>1, <4>2
    <3>4. proc'[p] = CommandDone
      BY <3>1, <3>2 DEF Outdate
    <3>5. QED
      BY <3>1, <3>3, <3>4, ProcessWorks
  <2>11. CASE UNCHANGED vars
    BY <2>11 DEF vars, PageInv, ClosedIsInitial, OneAtATime, ReportsAreFresh,
       Running, BusyForAReason, BusyWhileReading, Readers, SettledPageIsFresh, Quiet
  <2>12. QED
    BY <2>1, <2>2, <2>3, <2>4, <2>5, <2>6, <2>7, <2>8, <2>9, <2>10, <2>11 DEF Next
<1>3. QED
  BY <1>1, <1>2, TypeCorrect, PTL DEF Spec

(* The page shows its busy indicator for a reason only.                    *)
THEOREM PageIsBusyForAReason == Spec => []BusyForAReason
  BY PageInvariant, PTL DEF PageInv

(* "After applying, refresh the state": without overlapping commands.      *)
THEOREM PageSettlesFresh == Spec => []SettledPageIsFresh
  BY PageInvariant, PTL DEF PageInv

(* The entries of a box are exchanged only while the page is busy: the     *)
(* report that exchanges them was on its way before.                       *)
THEOREM ListsStay == Spec => ListsStayWhileEnabled
<1>1. TypeOK /\ PageInv /\ [Next]_vars
        => [view' # view /\ open /\ open' => loading \/ overlapped]_vars
  <2> SUFFICES ASSUME TypeOK, PageInv, Next, view' # view, open, open', ~overlapped
               PROVE  loading
    OBVIOUS
  <2>1. PICK p \in Procs : FinishRead(p)
    BY DEF Next, ClosePage, ScreenChanges, OpenPage, SetResolution, SetRotation, RunDoctor,
           FinishReadError, FinishCommand, TakeReport, Obey, Refuse
  <2>2. p \in Readers
    BY <2>1 DEF FinishRead, Readers
  <2> QED
    BY <2>2 DEF PageInv, BusyWhileReading
<1> QED
  BY <1>1, TypeCorrect, PageInvariant, PTL DEF Spec, ListsStayWhileEnabled
-----------------------------------------------------------------------------
(* What follows is about the choice of the user.                           *)

(* A nonempty set of numbers has a least one.                              *)
LEMMA LeastNat ==
  ASSUME NEW T, T \subseteq Nat, T # {}
  PROVE  \E x \in T : \A y \in T : x <= y
<1>1. IsWellFoundedOn(OpToRel(<, Nat), Nat)
  BY NatLessThanWellFounded
<1>2. PICK x \in T : \A y \in T : ~ (<<y, x>> \in OpToRel(<, Nat))
  BY <1>1, WFMin
<1>3. \A y \in T : ~(y < x)
  BY <1>2 DEF OpToRel
<1> QED
  BY <1>3

(* What the members say of the report they were read from.                 *)
LEMMA ParseMeans ==
  ASSUME NEW report \in Report, NEW v \in ParseResults(report)
  PROVE  /\ v.name = FirstName(report)
         /\ DOMAIN v.modeIds = DOMAIN v.resolutions
         /\ \A k \in DOMAIN v.modeIds :
              \E j \in DOMAIN report.modes : /\ report.modes[j].res = v.resolutions[k]
                                             /\ report.modes[j].id = v.modeIds[k]
         /\ \A res \in ResolutionsUpTo(report.modes, Len(report.modes)) :
              \E k \in DOMAIN v.resolutions : v.resolutions[k] = res
         /\ v.resIndex = IndexIn(v.resolutions, FlaggedResolution(report.modes))
         /\ v.rotIndex = RotationIndex(report)
<1> DEFINE S == ResolutionsUpTo(report.modes, Len(report.modes))
<1>1. PICK list \in Orderings(S) :
        \E ids \in BestIds(report.modes, list) : v = Parsed(report, list, ids)
  BY DEF ParseResults
<1>2. PICK ids \in BestIds(report.modes, list) : v = Parsed(report, list, ids)
  BY <1>1
<1>3. /\ v.name = FirstName(report) /\ v.resolutions = list /\ v.modeIds = ids
      /\ v.resIndex = IndexIn(list, FlaggedResolution(report.modes))
      /\ v.rotIndex = RotationIndex(report)
  BY <1>2 DEF Parsed
<1>4. DOMAIN ids = DOMAIN list
      /\ \A k \in DOMAIN list :
           \E j \in DOMAIN report.modes : /\ report.modes[j].res = list[k]
                                          /\ report.modes[j].id = ids[k]
  BY <1>2 DEF BestIds
<1>5. \A res \in S : \E k \in DOMAIN list : list[k] = res
  BY DEF Orderings
<1> QED
  BY <1>3, <1>4, <1>5

(* What is alike is sound alike, and has the same first name.              *)
LEMMA AlikeSound ==
  ASSUME NEW a, NEW b, Alike(a, b), Sound(a)
  PROVE  Sound(b)
BY DEF Alike, Sound

LEMMA AlikeName ==
  ASSUME NEW a \in Report, NEW b \in Report, Alike(a, b)
  PROVE  FirstName(a) = FirstName(b)
<1>1. a.outputs \in Seq(OutputBlock) /\ b.outputs \in Seq(OutputBlock)
  BY DEF Report
<1>2. DOMAIN a.outputs = DOMAIN b.outputs
      /\ \A k \in DOMAIN a.outputs : a.outputs[k].name = b.outputs[k].name
  BY DEF Alike
<1>3. CASE a.outputs = <<>>
  <2>1. b.outputs = <<>>
    BY <1>1, <1>2, <1>3
  <2> QED
    BY <1>3, <2>1 DEF FirstName
<1>4. CASE a.outputs # <<>>
  <2>1. b.outputs # <<>> /\ 1 \in DOMAIN a.outputs
    BY <1>1, <1>2, <1>4
  <2> QED
    BY <1>2, <1>4, <2>1 DEF FirstName
<1> QED
  BY <1>3, <1>4

LEMMA AfterAlike ==
  ASSUME screen \in Report, NEW command, NEW k \in DOMAIN screen.outputs
  PROVE  Alike(screen, After(command, k))
<1>1. /\ screen.modes \in Seq(Mode) /\ screen.outputs \in Seq(OutputBlock)
      /\ screen = [outputs |-> screen.outputs, modes |-> screen.modes]
  BY DEF Report
<1>2. CASE command.property = "mode"
  <2> DEFINE Flagged(mode) == IF mode.output = k
                              THEN [mode EXCEPT !.current = (mode.id = command.value)]
                              ELSE mode
             ms == [j \in DOMAIN screen.modes |-> Flagged(screen.modes[j])]
  <2>1. \A mode \in Mode : /\ Flagged(mode).output = mode.output
                           /\ Flagged(mode).id = mode.id /\ Flagged(mode).res = mode.res
    BY DEF Mode
  <2>2. \A j \in DOMAIN screen.modes : screen.modes[j] \in Mode
    BY <1>1
  <2>3. After(command, k).outputs = screen.outputs /\ After(command, k).modes = ms
    BY <1>1, <1>2 DEF After
  <2> HIDE DEF Flagged
  <2> QED
    BY <2>1, <2>2, <2>3 DEF Alike
<1>3. CASE command.property # "mode"
  <2> DEFINE os == [screen.outputs EXCEPT ![k].rotation = command.value]
  <2>1. After(command, k).outputs = os /\ After(command, k).modes = screen.modes
    BY <1>1, <1>3 DEF After
  <2>2. \A j \in DOMAIN screen.outputs : screen.outputs[j] \in OutputBlock
    BY <1>1
  <2>3. DOMAIN os = DOMAIN screen.outputs
        /\ \A j \in DOMAIN screen.outputs : os[j].name = screen.outputs[j].name
    BY <2>2 DEF OutputBlock
  <2> HIDE DEF os
  <2> QED
    BY <2>1, <2>3 DEF Alike
<1> QED
  BY <1>2, <1>3

(* Entries read from a report mean the same on every screen like it.       *)
LEMMA ReadEntriesMean ==
  ASSUME NEW report \in Report, Sound(report), screen \in Report, Alike(report, screen),
         NEW v \in ParseResults(report)
  PROVE  /\ v.name = FirstName(screen)
         /\ \A k \in DOMAIN v.modeIds : Means(v.name, v.modeIds[k], v.resolutions[k])
<1>1. v.name = FirstName(screen)
  BY ParseMeans, AlikeName
<1>2. ASSUME NEW k \in DOMAIN v.modeIds, NEW j \in DOMAIN screen.modes,
             screen.modes[j].id = v.modeIds[k]
      PROVE  screen.modes[j].res = v.resolutions[k]
  <2>1. PICK i \in DOMAIN report.modes : /\ report.modes[i].res = v.resolutions[k]
                                         /\ report.modes[i].id = v.modeIds[k]
    BY ParseMeans
  <2>2. j \in DOMAIN report.modes /\ report.modes[j].id = screen.modes[j].id
        /\ report.modes[j].res = screen.modes[j].res
    BY DEF Alike
  <2> QED
    BY <1>2, <2>1, <2>2 DEF Sound
<1> QED
  BY <1>1, <1>2 DEF Means

(* What entries mean survives a command.                                   *)
LEMMA MeaningStays ==
  ASSUME screen \in Report, screen' \in Report, Alike(screen, screen'),
         NEW name, NEW id, NEW res, Means(name, id, res)
  PROVE  Means(name, id, res)'
<1>1. FirstName(screen') = FirstName(screen)
  BY AlikeName
<1> QED
  BY <1>1 DEF Means, Alike

(* The compositor carries out the command: the screen has the choice.      *)
LEMMA ObeyedHasChoice ==
  ASSUME screen \in Report, Sound(screen), NEW command, AsksForChoice(command),
         command.property \in {"mode", "rotation"},
         NEW k \in Named(command), Acceptable(command, k),
         screen' = After(command, k), choice' = choice
  PROVE  HasChoice(screen)'
<1>1. /\ screen.modes \in Seq(Mode) /\ screen.outputs \in Seq(OutputBlock)
      /\ screen = [outputs |-> screen.outputs, modes |-> screen.modes]
  BY DEF Report
<1>2. k \in DOMAIN screen.outputs /\ screen.outputs[k].name = command.name
      /\ DOMAIN screen.outputs = 1..Len(screen.outputs)
  BY <1>1 DEF Named
<1>3. command.name # Empty
  <2>1. screen.outputs[k] \in OutputBlock
    BY <1>1, <1>2
  <2> QED
    BY <1>2, <2>1, DisplayAssumption DEF OutputBlock
<1>4. screen.outputs # <<>> /\ 1 \in DOMAIN screen.outputs
  BY <1>1, <1>2
<1>5. command.name = FirstName(screen)
  BY <1>3 DEF AsksForChoice, Means
<1>6. k = 1
  BY <1>2, <1>4, <1>5 DEF FirstName, Sound
<1>7. CASE command.property = "mode"
  <2> DEFINE Flagged(mode) == IF mode.output = k
                              THEN [mode EXCEPT !.current = (mode.id = command.value)]
                              ELSE mode
             ms == [j \in DOMAIN screen.modes |-> Flagged(screen.modes[j])]
  <2>1. screen'.modes = ms
    BY <1>1, <1>7 DEF After
  <2>2. DOMAIN screen.modes = 1..Len(screen.modes) /\ Len(screen.modes) \in Nat
        /\ \A j \in DOMAIN screen.modes : screen.modes[j] \in Mode
    BY <1>1
  <2>3. \A mode \in Mode :
          /\ Flagged(mode).res = mode.res
          /\ mode.output = k => (Flagged(mode).current <=> mode.id = command.value)
    BY DEF Mode
  <2> HIDE DEF Flagged
  <2>4. \A j \in DOMAIN screen.modes :
          /\ ms[j].res = screen.modes[j].res
          /\ screen.modes[j].output = 1 =>
               (ms[j].current <=> screen.modes[j].id = command.value)
    BY <1>6, <2>2, <2>3
  <2>5. DOMAIN ms = DOMAIN screen.modes
    OBVIOUS
  <2> HIDE DEF ms
  <2>6. PICK j \in DOMAIN screen.modes :
          screen.modes[j].output = 1 /\ screen.modes[j].id = command.value
    BY <1>6, <1>7 DEF Acceptable
  <2>7. choice.property = "mode"
        /\ \A i \in DOMAIN screen.modes :
             screen.modes[i].id = command.value => screen.modes[i].res = choice.value
    BY <1>7 DEF AsksForChoice, Means
  <2>8. ms[j].current /\ ms[j].res = choice.value
    BY <2>4, <2>6, <2>7
  <2> DEFINE IsFirst(i) == ms[i].current /\ \A h \in DOMAIN ms : ms[h].current => i <= h
  <2>9. ASSUME NEW i \in DOMAIN ms, IsFirst(i) PROVE ms[i].res = choice.value
    <3>1. i <= j /\ i \in Nat /\ j \in Nat
      BY <2>2, <2>5, <2>6, <2>8, <2>9
    <3>2. screen.modes[i].output <= screen.modes[j].output
      <4>1. screen.modes[i].output \in Nat
        BY <2>2, <2>5 DEF Mode
      <4>2. i < j \/ i = j
        BY <3>1
      <4> QED
        BY <2>5, <2>6, <4>1, <4>2 DEF Sound
    <3>3. screen.modes[i].output = 1
      <4>1. screen.modes[i].output \in 1..Len(screen.outputs)
        BY <1>2, <2>5 DEF Sound
      <4> QED
        BY <2>6, <3>2, <4>1
    <3> QED
      BY <2>4, <2>5, <2>7, <2>9, <3>3
  <2>10. \E i \in DOMAIN ms : IsFirst(i)
    <3> DEFINE T == {i \in DOMAIN ms : ms[i].current}
    <3>1. T \subseteq Nat /\ T # {}
      BY <2>2, <2>5, <2>6, <2>8
    <3> HIDE DEF T
    <3>2. PICK i \in T : \A h \in T : i <= h
      BY <3>1, LeastNat
    <3> QED
      BY <3>2 DEF T
  <2>11. FlaggedResolution(ms) = choice.value
    <3> DEFINE first == CHOOSE i \in DOMAIN ms : IsFirst(i)
    <3>1. first \in DOMAIN ms /\ IsFirst(first)
      BY <2>10
    <3>2. FlaggedResolution(ms) = ms[first].res
      BY <2>5, <2>6, <2>8 DEF FlaggedResolution
    <3> HIDE DEF first, IsFirst
    <3> QED
      BY <2>9, <3>1, <3>2
  <2>12. choice.value \in ResolutionsUpTo(ms, Len(ms))
    <3>1. Len(ms) = Len(screen.modes)
      BY <2>2 DEF ms
    <3> QED
      BY <2>2, <2>5, <2>6, <2>8, <3>1 DEF ResolutionsUpTo
  <2> QED
    BY <2>1, <2>7, <2>11, <2>12 DEF HasChoice
<1>8. CASE command.property = "rotation"
  <2>1. choice.property # "mode" /\ command.value = choice.value /\ choice.value \in {1, 2, 4, 8}
    BY <1>8 DEF AsksForChoice
  <2>2. screen'.outputs = [screen.outputs EXCEPT ![1].rotation = choice.value]
    BY <1>1, <1>6, <1>8, <2>1 DEF After
  <2>3. screen.outputs[1] \in OutputBlock
    BY <1>1, <1>4
  <2>4. screen'.outputs # <<>> /\ screen'.outputs[1].rotation = choice.value
    <3>1. DOMAIN screen'.outputs = DOMAIN screen.outputs
          /\ screen'.outputs[1].rotation = choice.value
      BY <1>4, <2>2, <2>3 DEF OutputBlock
    <3> QED
      BY <1>4, <3>1
  <2> QED
    BY <2>1, <2>4 DEF HasChoice
<1> QED
  BY <1>7, <1>8

(* A report of a screen that has the choice puts the box there.            *)
LEMMA ReadShowsChoice ==
  ASSUME NEW report \in Report, HasChoice(report), NEW v \in ParseResults(report)
  PROVE  IF choice.property = "mode"
         THEN /\ v.resIndex + 1 \in DOMAIN v.resolutions
              /\ v.resolutions[v.resIndex + 1] = choice.value
         ELSE RotationValues[v.rotIndex + 1] = choice.value
<1>1. CASE choice.property = "mode"
  <2> DEFINE list == v.resolutions
             res == FlaggedResolution(report.modes)
             place == CHOOSE k \in DOMAIN list : list[k] = res
  <2>1. res = choice.value /\ \E k \in DOMAIN list : list[k] = res
    BY <1>1, ParseMeans DEF HasChoice
  <2>2. v.resIndex = place - 1
    BY <2>1, ParseMeans DEF IndexIn
  <2>3. place \in DOMAIN list /\ list[place] = res
    BY <2>1
  <2>4. list \in Seq(Resolutions)
    BY ParseType DEF View
  <2> HIDE DEF place, list, res
  <2>5. place \in Nat /\ v.resIndex + 1 = place
    BY <2>2, <2>3, <2>4
  <2> QED
    BY <1>1, <2>1, <2>3, <2>5 DEF list
<1>2. CASE choice.property # "mode"
  <2>1. report.outputs # <<>> /\ report.outputs[1].rotation = choice.value
        /\ choice.value \in {1, 2, 4, 8}
    BY <1>2 DEF HasChoice
  <2> DEFINE place == CHOOSE k \in 1..4 : RotationValues[k] = report.outputs[1].rotation
  <2>2. v.rotIndex = place - 1
    BY <2>1, ParseMeans DEF RotationIndex
  <2>3. \E k \in 1..4 : RotationValues[k] = report.outputs[1].rotation
    BY <2>1 DEF RotationValues
  <2>4. place \in 1..4 /\ RotationValues[place] = choice.value
    BY <2>1, <2>3
  <2> HIDE DEF place
  <2>5. v.rotIndex + 1 = place
    BY <2>2, <2>4
  <2> QED
    BY <1>2, <2>4, <2>5
<1> QED
  BY <1>1, <1>2

(* A process starts, ends or reports, and neither the screen nor the       *)
(* choice nor what is shown changes.                                       *)
LEMMA ProcessMoves ==
  ASSUME TypeOK, ChoiceInv, open', NEW p \in Procs, NEW next,
         proc' = [proc EXCEPT ![p] = next],
         next.kind # "command",
         next.kind = "read" => Sound(next.report) /\ Alike(next.report, screen),
         choice # NoChoice /\ ~overlapped =>
           /\ next.kind \in {"commandDone", "reading"} => HasChoice(screen)
           /\ next.kind = "read" => HasChoice(next.report),
         next # Idle \/ failed',
         UNCHANGED <<view, screen, outdated, overlapped, choice>>
  PROVE  ChoiceInv'
<1>1. \A q \in Procs : proc'[q] = IF q = p THEN next ELSE proc[q]
  BY DEF TypeOK
<1>2. Sound(screen)' /\ EntriesMean'
  BY DEF ChoiceInv, EntriesMean, Means
<1>3. ReportsAreAlike'
  BY <1>1 DEF ChoiceInv, ReportsAreAlike
<1>4. ChoiceIsOnItsWay'
  <2> SUFFICES ASSUME choice # NoChoice, ~overlapped, NEW q \in Procs
               PROVE  /\ proc'[q].kind = "command" => AsksForChoice(proc[q])
                      /\ proc'[q].kind \in {"commandDone", "reading"} => HasChoice(screen)
                      /\ proc'[q].kind = "read" => HasChoice(proc'[q].report)
    BY <1>1 DEF ChoiceIsOnItsWay, AsksForChoice, HasChoice, Means
  <2> QED
    BY <1>1 DEF ChoiceInv, ChoiceIsOnItsWay
<1>5. ChoiceIsShown'
  BY <1>1 DEF ChoiceIsShown, Quiet, Running
<1> QED
  BY <1>2, <1>3, <1>4, <1>5 DEF ChoiceInv

(* A command is sent for what the user chose.                              *)
LEMMA ChoiceIsSent ==
  ASSUME TypeOK, ChoiceInv, open, NEW p \in Procs, NEW command,
         command.kind = "command", RunDoctor(p, command),
         choice' # NoChoice => AsksForChoice(command)'
  PROVE  ChoiceInv'
<1> USE Kinds
<1>1. /\ UNCHANGED <<open, loading, view, screen, outdated>>
      /\ overlapped' = (overlapped \/ Running # {})
      /\ \/ proc' = [proc EXCEPT ![p] = command]
         \/ proc' = [proc EXCEPT ![p] = Idle] /\ failed' = TRUE
  BY ScreensAssumption DEF RunDoctor, TypeOK
<1>2. \A q \in Procs : q # p => proc'[q] = proc[q]
  BY <1>1 DEF TypeOK
<1>3. proc'[p] = command \/ (proc'[p] = Idle /\ failed')
  BY <1>1 DEF TypeOK
<1>4. ~overlapped' => \A q \in Procs : q # p => proc'[q] = Idle
  BY <1>1, <1>2 DEF Running
<1>5. Sound(screen)' /\ EntriesMean'
  BY <1>1 DEF ChoiceInv, EntriesMean, Means
<1>6. ReportsAreAlike'
  BY <1>1, <1>2, <1>3 DEF ChoiceInv, ReportsAreAlike
<1>7. ChoiceIsOnItsWay'
  <2> SUFFICES ASSUME choice' # NoChoice, ~overlapped', NEW q \in Procs
               PROVE  /\ proc'[q].kind = "command" => AsksForChoice(command)' /\ proc'[q] = command
                      /\ proc'[q].kind \notin {"commandDone", "reading", "read"}
    BY <1>1 DEF ChoiceIsOnItsWay, AsksForChoice
  <2> QED
    BY <1>3, <1>4
<1>8. ChoiceIsShown'
  BY <1>3 DEF ChoiceIsShown, Quiet, Running
<1> QED
  BY <1>1, <1>5, <1>6, <1>7, <1>8 DEF ChoiceInv

(* The finished signal of a report: the entries mean what the report said, *)
(* and the box stands at the choice.                                       *)
LEMMA ReadKeepsChoice ==
  ASSUME TypeOK, PageInv, ChoiceInv, NEW p \in Procs, FinishRead(p)
  PROVE  ChoiceInv'
<1> USE Kinds
<1> DEFINE report == proc[p].report
<1>1. /\ proc[p].kind = "read" /\ proc[p] # Idle /\ outdated' = proc[p].since
      /\ view' \in ParseResults(report)
      /\ box' = [res |-> view'.resIndex, rot |-> view'.rotIndex]
      /\ \A q \in Procs : proc'[q] = IF q = p THEN Idle ELSE proc[q]
      /\ UNCHANGED <<open, screen, overlapped, choice>>
  BY DEF FinishRead, TypeOK
<1>2. open
  BY <1>1 DEF PageInv, ClosedIsInitial, Running
<1>3. report \in Report /\ Sound(report) /\ screen \in Report
      /\ ("others" \notin outdated' => Alike(report, screen))
  <2>1. proc[p] \in [kind: {"read"}, report: Report, since: SUBSET {"command", "others"}]
    BY <1>1 DEF TypeOK, Process
  <2> QED
    BY <1>1, <2>1 DEF ChoiceInv, ReportsAreAlike, TypeOK
<1>4. EntriesMean'
  <2> SUFFICES ASSUME "others" \notin outdated'
               PROVE  /\ view'.name \in {Empty, FirstName(screen)}
                      /\ \A k \in DOMAIN view'.modeIds :
                           Means(view'.name, view'.modeIds[k], view'.resolutions[k])
    BY <1>1 DEF EntriesMean, Means
  <2> QED
    BY <1>1, <1>3, ReadEntriesMean DEF ChoiceInv
<1>5. ReportsAreAlike'
  BY <1>1 DEF ChoiceInv, ReportsAreAlike
<1>6. ChoiceIsOnItsWay'
  <2> SUFFICES ASSUME choice # NoChoice, ~overlapped, NEW q \in Procs
               PROVE  /\ proc'[q].kind = "command" => AsksForChoice(proc[q])
                      /\ proc'[q].kind \in {"commandDone", "reading"} => HasChoice(screen)
                      /\ proc'[q].kind = "read" => HasChoice(proc'[q].report)
    BY <1>1, <1>2 DEF ChoiceIsOnItsWay, AsksForChoice, HasChoice, Means
  <2> QED
    BY <1>1 DEF ChoiceInv, ChoiceIsOnItsWay
<1>7. ChoiceIsShown'
  <2> SUFFICES ASSUME choice # NoChoice, ~overlapped
               PROVE  IF choice.property = "mode"
                      THEN /\ box'.res + 1 \in DOMAIN view'.resolutions
                           /\ view'.resolutions[box'.res + 1] = choice.value
                      ELSE RotationValues[box'.rot + 1] = choice.value
    BY <1>1 DEF ChoiceIsShown
  <2>1. HasChoice(report)
    BY <1>1 DEF ChoiceInv, ChoiceIsOnItsWay
  <2> QED
    BY <1>1, <1>3, <2>1, ReadShowsChoice
<1> QED
  BY <1>1, <1>2, <1>3, <1>4, <1>5, <1>6, <1>7 DEF ChoiceInv

(* The compositor obeys: the screen has the choice, and what was read of   *)
(* it still means the same.                                                *)
LEMMA ObeyKeepsChoice ==
  ASSUME TypeOK, screen' \in Report, PageInv, ChoiceInv, NEW p \in Procs, Obey(p)
  PROVE  ChoiceInv'
<1> USE Kinds
<1> DEFINE procs == [proc EXCEPT ![p] = CommandDone]
<1>1. /\ proc[p].kind = "command" /\ proc[p] # Idle
      /\ Outdate(procs, "command")
      /\ UNCHANGED <<open, view, box, failed, overlapped, choice>>
  BY DEF Obey
<1>2. PICK k \in Named(proc[p]) : Acceptable(proc[p], k) /\ screen' = After(proc[p], k)
  BY DEF Obey
<1>3. screen \in Report /\ Sound(screen)
  BY DEF TypeOK, ChoiceInv
<1>4. Alike(screen, screen') /\ Sound(screen') /\ FirstName(screen') = FirstName(screen)
  BY <1>2, <1>3, AfterAlike, AlikeSound, AlikeName DEF Named
<1>5. open /\ outdated' = outdated \union {"command"}
  BY <1>1 DEF PageInv, ClosedIsInitial, Running, Outdate
<1>6. proc'[p] = CommandDone
      /\ \A q \in Procs : q # p =>
           proc'[q] = IF proc[q].kind = "read"
                      THEN [proc[q] EXCEPT !.since = @ \union {"command"}] ELSE proc[q]
  BY <1>1 DEF Outdate, TypeOK
<1>7. ASSUME NEW q \in Procs, proc'[q].kind = "read"
      PROVE  /\ proc[q].kind = "read" /\ proc'[q].report = proc[q].report
             /\ proc'[q].since = proc[q].since \union {"command"}
  <2>1. q # p
    BY <1>6, <1>7
  <2>2. proc[q].kind = "read"
    BY <1>6, <1>7, <2>1
  <2>3. proc[q] \in [kind: {"read"}, report: Report, since: SUBSET {"command", "others"}]
    BY <2>2 DEF TypeOK, Process
  <2> QED
    BY <1>6, <2>1, <2>2, <2>3
<1>8. EntriesMean'
  <2> SUFFICES ASSUME "others" \notin outdated'
               PROVE  /\ view.name \in {Empty, FirstName(screen')}
                      /\ \A i \in DOMAIN view.modeIds :
                           Means(view.name, view.modeIds[i], view.resolutions[i])'
    BY <1>1 DEF EntriesMean
  <2>1. /\ view.name \in {Empty, FirstName(screen)}
        /\ \A i \in DOMAIN view.modeIds :
             Means(view.name, view.modeIds[i], view.resolutions[i])
    BY <1>5 DEF ChoiceInv, EntriesMean
  <2>2. ASSUME NEW i \in DOMAIN view.modeIds
        PROVE  Means(view.name, view.modeIds[i], view.resolutions[i])'
    BY <1>1, <1>4, <2>1 DEF Means, Alike
  <2> QED
    BY <1>4, <2>1, <2>2
<1>9. ReportsAreAlike'
  <2> SUFFICES ASSUME NEW q \in Procs, proc'[q].kind = "read"
               PROVE  /\ Sound(proc'[q].report)
                      /\ "others" \notin proc'[q].since => Alike(proc'[q].report, screen')
    BY DEF ReportsAreAlike
  <2>1. /\ Sound(proc[q].report)
        /\ "others" \notin proc[q].since => Alike(proc[q].report, screen)
    BY <1>7 DEF ChoiceInv, ReportsAreAlike
  <2>2. Alike(proc[q].report, screen) => Alike(proc[q].report, screen')
    BY <1>4 DEF Alike
  <2> QED
    BY <1>7, <2>1, <2>2
<1>10. ChoiceIsOnItsWay'
  <2> SUFFICES ASSUME choice # NoChoice, ~overlapped
               PROVE  /\ HasChoice(screen)'
                      /\ \A q \in Procs : q # p => proc'[q] = Idle
    BY <1>1, <1>5, <1>6 DEF ChoiceIsOnItsWay
  <2>1. \A q \in Procs : q # p => proc[q] = Idle
    BY <1>1 DEF PageInv, OneAtATime, Running
  <2>2. AsksForChoice(proc[p])
    BY <1>1 DEF ChoiceInv, ChoiceIsOnItsWay
  <2>3. proc[p].property \in {"mode", "rotation"}
    BY <1>1 DEF TypeOK, Process
  <2>4. HasChoice(screen)'
    <3> DEFINE command == proc[p]
    <3>1. /\ AsksForChoice(command) /\ command.property \in {"mode", "rotation"}
          /\ k \in Named(command) /\ Acceptable(command, k)
          /\ screen' = After(command, k) /\ choice' = choice
      BY <1>1, <1>2, <2>2, <2>3
    <3> HIDE DEF command
    <3> QED
      BY <1>3, <3>1, ObeyedHasChoice
  <2> QED
    BY <1>6, <2>1, <2>4
<1>11. ChoiceIsShown'
  BY <1>6 DEF ChoiceIsShown, Quiet, Running
<1> QED
  BY <1>1, <1>4, <1>5, <1>8, <1>9, <1>10, <1>11 DEF ChoiceInv

(* What the user picks reaches the screen and comes back to the box, on    *)
(* any screens that are sound: ChoiceIsShown.                              *)
THEOREM ChoiceShows ==
  ASSUME \A report \in Screens : Sound(report)
  PROVE  Spec => []ChoiceIsShown
<1>1. Init => ChoiceInv
  BY Kinds DEF Init, ChoiceInv, EntriesMean, ReportsAreAlike, ChoiceIsOnItsWay, ChoiceIsShown, EmptyView
<1>2. TypeOK /\ TypeOK' /\ PageInv /\ ChoiceInv /\ [Next]_vars => ChoiceInv'
  <2> SUFFICES ASSUME TypeOK, TypeOK', PageInv, ChoiceInv, [Next]_vars PROVE ChoiceInv'
    OBVIOUS
  <2> USE Kinds
  <2>1. CASE ClosePage
    <3>1. /\ view' = EmptyView /\ choice' = NoChoice /\ screen' = screen
          /\ \A q \in Procs : proc'[q] = Idle
      BY <2>1 DEF ClosePage
    <3> QED
      BY <3>1 DEF ChoiceInv, EntriesMean, ReportsAreAlike, ChoiceIsOnItsWay, ChoiceIsShown,
                  EmptyView
  <2>2. CASE ScreenChanges
    <3>1. /\ screen' \in Screens /\ choice' = NoChoice /\ UNCHANGED <<open, view>>
          /\ "others" \in outdated' \/ ~open
      BY <2>2 DEF ScreenChanges, Outdate
    <3>2. EntriesMean'
      BY <3>1 DEF ChoiceInv, EntriesMean, EmptyView
    <3>3. ReportsAreAlike'
      <4> SUFFICES ASSUME NEW q \in Procs, proc'[q].kind = "read"
                   PROVE  Sound(proc'[q].report) /\ "others" \in proc'[q].since
        BY DEF ReportsAreAlike
      <4>1. proc'[q] = IF proc[q].kind = "read"
                       THEN [proc[q] EXCEPT !.since = @ \union {"others"}] ELSE proc[q]
        BY <2>2 DEF ScreenChanges, Outdate
      <4>2. proc[q].kind = "read"
        BY <4>1
      <4>3. proc[q] \in [kind: {"read"}, report: Report, since: SUBSET {"command", "others"}]
        BY <4>2 DEF TypeOK, Process
      <4>4. proc'[q].report = proc[q].report /\ "others" \in proc'[q].since
        BY <4>1, <4>2, <4>3
      <4> QED
        BY <4>2, <4>4 DEF ChoiceInv, ReportsAreAlike
    <3> QED
      BY <3>1, <3>2, <3>3 DEF ChoiceInv, ChoiceIsOnItsWay, ChoiceIsShown
  <2>3. ASSUME NEW p \in Procs, OpenPage(p) PROVE ChoiceInv'
    <3>1. choice = NoChoice
      BY <2>3 DEF OpenPage, ChoiceInv, ChoiceIsOnItsWay
    <3>2. PICK next \in {Idle, Reading} :
            proc' = [proc EXCEPT ![p] = next] /\ (next # Idle \/ failed')
      BY <2>3, ScreensAssumption DEF OpenPage, Refresh, TypeOK
    <3> QED
      BY <2>3, <3>1, <3>2, ProcessMoves DEF OpenPage
  <2>4. ASSUME NEW p \in Procs, NEW k \in DOMAIN view.modeIds, SetResolution(p, k - 1)
        PROVE  ChoiceInv'
    <3>0. PICK command : command = Command("mode", view.name, view.modeIds[k])
      OBVIOUS
    <3>1. (k - 1) + 1 = k
      <4>1. k \in Nat
        BY DEF TypeOK, View
      <4> QED
        BY <4>1
    <3> PICK value : value = view.resolutions[k]
      OBVIOUS
    <3>2. /\ open /\ RunDoctor(p, command) /\ UNCHANGED screen
          /\ choice' = Chosen("mode", value)
      <4> DEFINE place == (k - 1) + 1
      <4>1. /\ open /\ RunDoctor(p, Command("mode", view.name, view.modeIds[place]))
            /\ choice' = Chosen("mode", view.resolutions[place])
        BY <2>4 DEF SetResolution
      <4>2. place = k
        BY <3>1
      <4> HIDE DEF place
      <4> QED
        BY <3>0, <4>1, <4>2 DEF RunDoctor
    <3>3. /\ command.kind = "command" /\ command.property = "mode"
          /\ command.name = view.name /\ command.value = view.modeIds[k]
      BY <3>0 DEF Command
    <3>4. ASSUME choice' # NoChoice PROVE AsksForChoice(command)'
      <4>1. /\ "others" \notin outdated
            /\ choice'.property = "mode" /\ choice'.value = value
        BY <3>2, <3>4 DEF Chosen
      <4>2. Means(view.name, view.modeIds[k], value)
        BY <4>1 DEF ChoiceInv, EntriesMean
      <4>3. Means(command.name, command.value, value)'
        BY <3>2, <3>3, <4>1, <4>2 DEF Means
      <4> QED
        BY <3>3, <4>1, <4>3 DEF AsksForChoice
    <3> QED
      BY <3>2, <3>3, <3>4, ChoiceIsSent
  <2>5. ASSUME NEW p \in Procs, NEW index \in 0..3, SetRotation(p, index)
        PROVE  ChoiceInv'
    <3>0. PICK command : command = Command("rotation", view.name, RotationValues[index + 1])
      OBVIOUS
    <3>1. RotationValues[index + 1] \in {1, 2, 4, 8}
      BY DEF RotationValues
    <3>2. /\ open /\ RunDoctor(p, command) /\ UNCHANGED screen
          /\ choice' = Chosen("rotation", RotationValues[index + 1])
      BY <2>5, <3>0 DEF SetRotation, RunDoctor
    <3>3. /\ command.kind = "command" /\ command.property = "rotation"
          /\ command.name = view.name /\ command.value = RotationValues[index + 1]
      BY <3>0 DEF Command
    <3>4. ASSUME choice' # NoChoice PROVE AsksForChoice(command)'
      <4>1. /\ "others" \notin outdated
            /\ choice'.property = "rotation" /\ choice'.value = RotationValues[index + 1]
        BY <3>2, <3>4 DEF Chosen
      <4>2. view.name \in {Empty, FirstName(screen)}
        BY <4>1 DEF ChoiceInv, EntriesMean
      <4> QED
        BY <3>1, <3>2, <3>3, <4>1, <4>2 DEF AsksForChoice
    <3> QED
      BY <3>2, <3>3, <3>4, ChoiceIsSent
  <2>6. ASSUME NEW p \in Procs, FinishRead(p) PROVE ChoiceInv'
    BY <2>6, ReadKeepsChoice
  <2>7. ASSUME NEW p \in Procs, FinishReadError(p) PROVE ChoiceInv'
    <3>1. open
      BY <2>7 DEF FinishReadError, PageInv, ClosedIsInitial, Running
    <3> QED
      BY <2>7, <3>1, ProcessMoves DEF FinishReadError
  <2>8. ASSUME NEW p \in Procs, FinishCommand(p) PROVE ChoiceInv'
    <3>1. open /\ proc[p].kind = "commandDone"
      BY <2>8 DEF FinishCommand, PageInv, ClosedIsInitial, Running
    <3>2. choice # NoChoice /\ ~overlapped => HasChoice(screen)
      BY <3>1 DEF ChoiceInv, ChoiceIsOnItsWay
    <3>3. PICK next \in {Idle, Reading} :
            proc' = [proc EXCEPT ![p] = next] /\ (next # Idle \/ failed')
      BY <2>8, ScreensAssumption DEF FinishCommand, Refresh, TypeOK
    <3> QED
      BY <2>8, <3>1, <3>2, <3>3, ProcessMoves DEF FinishCommand
  <2>9. ASSUME NEW p \in Procs, TakeReport(p) PROVE ChoiceInv'
    <3>1. open /\ proc[p].kind = "reading"
      BY <2>9 DEF TakeReport, PageInv, ClosedIsInitial, Running
    <3>2. choice # NoChoice /\ ~overlapped => HasChoice(screen)
      BY <3>1 DEF ChoiceInv, ChoiceIsOnItsWay
    <3>3. PICK next \in {Read(screen, {}), ReadError} : proc' = [proc EXCEPT ![p] = next]
      BY <2>9 DEF TakeReport
    <3>4. next # Idle /\ next.kind \in {"read", "readError"}
          /\ (next.kind = "read" => next.report = screen)
      BY <3>3 DEF Read
    <3>5. Sound(screen) /\ Alike(screen, screen)
      BY DEF ChoiceInv, Alike
    <3> QED
      BY <2>9, <3>1, <3>2, <3>3, <3>4, <3>5, ProcessMoves DEF TakeReport
  <2>10. ASSUME NEW p \in Procs, Obey(p) PROVE ChoiceInv'
    BY <2>10, ObeyKeepsChoice DEF TypeOK
  <2>11. ASSUME NEW p \in Procs, Refuse(p) PROVE ChoiceInv'
    <3>1. /\ choice' = NoChoice /\ UNCHANGED <<open, view, screen, outdated>>
          /\ \A q \in Procs : proc'[q] = proc[q] \/ proc'[q] = CommandDone
      BY <2>11 DEF Refuse, TypeOK
    <3> QED
      BY <3>1 DEF ChoiceInv, EntriesMean, Means, ReportsAreAlike, ChoiceIsOnItsWay,
                  ChoiceIsShown
  <2>12. CASE UNCHANGED vars
    <3>1. Running' = Running
      BY <2>12 DEF vars, Running
    <3> QED
      BY <2>12, <3>1
         DEF vars, ChoiceInv, EntriesMean, Means, ReportsAreAlike, ChoiceIsOnItsWay,
             AsksForChoice, HasChoice, ChoiceIsShown, Quiet
  <2> QED
    BY <2>1, <2>2, <2>3, <2>4, <2>5, <2>6, <2>7, <2>8, <2>9, <2>10, <2>11, <2>12 DEF Next
<1>3. ChoiceInv => ChoiceIsShown
  BY DEF ChoiceInv
<1> QED
  BY <1>1, <1>2, <1>3, TypeCorrect, PageInvariant, PTL DEF Spec
=============================================================================
