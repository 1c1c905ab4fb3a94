---------------------------- MODULE MCKXftConfig ----------------------------
(***************************************************************************)
(* Files of the user with elements of other programs, a setting that is    *)
(* assigned twice, one that is appended, and one exclude range on top of   *)
(* another; a global file with settings and an exclude range of its own.   *)
(***************************************************************************)
EXTENDS KXftConfig

Other(name) == [key |-> "other", name |-> name]
MCForeign == {Other("dir"), Other("alias")}

MCGlobalFiles ==
  {<<Other("dir"), Setting("antialias", "assign", "true"),
     Setting("hintstyle", "append", "medium"), SizeRange("size", 8, 15),
     SizeRange("pixelsize", 11, 20)>>}

MCUserFiles ==
  {<<Other("alias")>>,
   <<Setting("rgba", "assign", "rgb"), Other("alias"), Setting("rgba", "append", "bgr"),
     Setting("rgba", "assign", "none")>>,
   <<Setting("hinting", "assign", "false"), Setting("antialias", "append", "false"),
     SizeRange("size", 6, 9), SizeRange("size", 8, 15), Other("dir")>>}

MCExcludeRanges == {[from |-> 0, to |-> 0], [from |-> 20, to |-> 10]}
=============================================================================
