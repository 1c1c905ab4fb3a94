-------------------------- MODULE MCDateTimePage ---------------------------
(***************************************************************************)
(* Three zones and three places: with two zones around one, on the rim and *)
(* inside; with none, and two equally near; with none, and one nearest.    *)
(***************************************************************************)
EXTENDS DateTimePage

MCDistance == <<<<20, 5, 90>>, <<40, 21, 21>>, <<60, 70, 50>>>>
=============================================================================
