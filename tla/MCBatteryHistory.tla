-------------------------- MODULE MCBatteryHistory --------------------------
(***************************************************************************)
(* Answers with none, one and three entries: an entry without a value in   *)
(* the middle, and values whose integral parts differ or agree.            *)
(***************************************************************************)
EXTENDS BatteryHistory

At(time, value) == [time |-> time, value |-> value]

MCReplies ==
  {<<>>,
   <<At(1, 0)>>,
   <<At(3, 27), At(2, 0), At(1, 24)>>,
   <<At(4, 15), At(3, 38), At(2, 21)>>,
   <<At(3, 9), At(2, 12), At(1, 31)>>}
=============================================================================
