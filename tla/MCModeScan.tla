----------------------------- MODULE MCModeScan -----------------------------
(***************************************************************************)
(* All reports of up to MaxModes mode tokens over two outputs, three       *)
(* resolutions (two of them with equally many pixels) and two rates.       *)
(***************************************************************************)
EXTENDS ModeScan

CONSTANTS r1, r2, r3, eDP, HDMI, MaxModes

MCResolutions == {r1, r2, r3}
MCNames == {eDP, HDMI}
MCPixels == [r \in MCResolutions |-> IF r = r3 THEN 1 ELSE 2]
MCModeIds == 1..MaxModes

(* kscreen numbers the modes of a report from 1 on; the modes of an output *)
(* follow its block, and at most one mode of an output is current.         *)
WellFormed(tokens) ==
  /\ \A k \in DOMAIN tokens : tokens[k].id = k
  /\ \A j, k \in DOMAIN tokens :
        j < k => /\ tokens[j].output <= tokens[k].output
                 /\ tokens[j].output = tokens[k].output
                      => ~(tokens[j].current /\ tokens[k].current)

Tokens(outputs) ==
  [output: outputs, id: MCModeIds, res: MCResolutions, hz: 1..2, current: BOOLEAN]

TokenLists(outputs) ==
  UNION {{tokens \in [1..n -> Tokens(outputs)] : WellFormed(tokens)} :
           n \in 0..MaxModes}

(* One output in any rotation, also one the page does not know.            *)
OneOutput ==
  [ outputs: {<<[name |-> eDP, rotation |-> rot]>> : rot \in {1, 8, 3}},
    modes: TokenLists({1}) ]

TwoOutputs ==
  [ outputs: {<<[name |-> eDP, rotation |-> 1], [name |-> HDMI, rotation |-> 2]>>},
    modes: TokenLists({1, 2}) ]

NoOutput == {[outputs |-> <<>>, modes |-> <<>>]}

MCReports == NoOutput \union OneOutput \union TwoOutputs
=============================================================================
