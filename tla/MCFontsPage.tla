---------------------------- MODULE MCFontsPage ----------------------------
(***************************************************************************)
(* No font; a fixed family with two faces among others, not in order; a    *)
(* fixed family with a face that is not, and families that do not speak    *)
(* the user's language.                                                    *)
(***************************************************************************)
EXTENDS FontsPage

Of(family, mono, speaks) == [family |-> family, mono |-> mono, speaks |-> speaks]

MCFontSets ==
  {<<>>,
   <<Of(3, FALSE, TRUE), Of(2, TRUE, TRUE), Of(2, TRUE, TRUE), Of(1, FALSE, TRUE)>>,
   <<Of(3, TRUE, TRUE), Of(2, FALSE, FALSE), Of(1, TRUE, FALSE), Of(3, FALSE, TRUE)>>}
=============================================================================
