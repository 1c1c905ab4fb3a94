-------------------------- MODULE MCDisplayManager --------------------------
(***************************************************************************)
(* A monitor of two resolutions beside another one, or on its connector a  *)
(* monitor that has a single resolution under the same mode id; two        *)
(* kscreen-doctor processes.                                               *)
(***************************************************************************)
EXTENDS DisplayManager, TLC

CONSTANTS r1, r2, DP, HDMI

MCResolutions == {r1, r2}
MCPixels == [r \in MCResolutions |-> IF r = r1 THEN 2 ELSE 1]

Token(id, res, hz, current) ==
  [output |-> 1, id |-> id, res |-> res, hz |-> hz, current |-> current]

(* Mode 3 is hidden behind mode 1, which has the higher rate.  The second  *)
(* monitor, which the page does not offer to set, stands with one of its   *)
(* own modes and with one under the id of a mode of the first.             *)
Beside == [name |-> HDMI, rotation |-> 1]

Large(current, rot) ==
  [ outputs |-> <<[name |-> DP, rotation |-> rot], Beside>>,
    modes   |-> <<Token(3, r1, 48, current = 3), Token(1, r1, 60, current = 1),
                  Token(2, r2, 60, current = 2),
                  [Token(4, r2, 48, FALSE) EXCEPT !.output = 2],
                  [Token(2, r2, 60, TRUE) EXCEPT !.output = 2]>> ]

Small(rot) ==
  [ outputs |-> <<[name |-> DP, rotation |-> rot]>>,
    modes   |-> <<Token(1, r2, 60, TRUE)>> ]

MCScreens == {Large(3, 1), Small(16)}

ASSUME \A report \in MCScreens : Sound(report)

Symmetry == Permutations(Procs)
=============================================================================
