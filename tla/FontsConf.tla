----------------------------- MODULE FontsConf -----------------------------
(***************************************************************************)
(* How KXftConfig (fonts/kxftconfig.cpp) reads its settings from a         *)
(* fonts.conf and puts them back.  A file is the sequence of the children  *)
(* of its <fontconfig> element: `match` elements that make one setting,    *)
(* `match` elements that switch antialiasing off for a range of sizes, and *)
(* everything else, which is not ours.  Sizes are integers, 0 to 0 being   *)
(* no range; the text of an element is abstracted to its meaning.          *)
(***************************************************************************)
EXTENDS Integers, FiniteSets, Sequences, SequencesExt, FiniteSetsExt

NotSet == "not set"

Settings == [ rgba |-> {"none", "rgb", "bgr", "vrgb", "vbgr"},
              hintstyle |-> {"none", "slight", "medium", "full"},
              hinting |-> {"true", "false"},
              antialias |-> {"true", "false"} ]

Ranges == {"size", "pixelsize"}

Setting(key, mode, value) == [key |-> key, mode |-> mode, value |-> value]
SizeRange(key, from, to) == [key |-> key, from |-> from, to |-> to]

SettingEntry(key) == [key: {key}, mode: {"assign", "append"}, value: Settings[key]]
RangeEntry == [key: Ranges, from: Nat, to: Nat]
OwnEntry == RangeEntry \union UNION {SettingEntry(key) : key \in DOMAIN Settings}

(* A screen of 96 dots per inch; point2Pixel() and pixel2Point().          *)
Pixels(point) == (8 * point + 3) \div 6
Points(pixel) == (3 * pixel + 2) \div 4

(* A document: the entries of a file with an identity each, by which the   *)
(* items remember their nodes.  New nodes have identities of their own.    *)
Null == 0
NewNode == [ rgba |-> -1, hintstyle |-> -2, hinting |-> -3, antialias |-> -4,
             size |-> -5, pixelsize |-> -6 ]

Document(entries) == [i \in DOMAIN entries |-> [node |-> i, entry |-> entries[i]]]
Entries(doc) == [i \in DOMAIN doc |-> doc[i].entry]
-----------------------------------------------------------------------------
(* readContents(): the last element that assigns a setting wins; one that  *)
(* appends counts as long as the setting is not set.                       *)
Where(entries, key, mode) ==
  {i \in DOMAIN entries : entries[i].key = key /\ entries[i].mode = mode}

SettingNode(entries, key) ==
  LET assigned == Where(entries, key, "assign")
      appended == IF key = "hinting" THEN {} ELSE Where(entries, key, "append")
  IN IF assigned # {} THEN Max(assigned)
     ELSE IF appended # {} THEN Min(appended) ELSE Null

Read(entries, key, default) ==
  LET n == SettingNode(entries, key)
  IN [node |-> n, value |-> IF n = Null THEN default ELSE entries[n].value]

LastRange(entries, found) ==
  LET e == entries[Max(found)]
  IN IF found = {} THEN [node |-> Null, from |-> 0, to |-> 0]
     ELSE [ node |-> Max(found), from |-> Min({e.from, e.to}), to |-> Max({e.from, e.to}) ]

ReadRange(entries, key) ==
  LastRange(entries, {i \in DOMAIN entries : entries[i].key = key})

ReadContents(entries) ==
  [ rgba |-> Read(entries, "rgba", NotSet),
    hintstyle |-> Read(entries, "hintstyle", NotSet),
    hinting |-> Read(entries, "hinting", "true"),
    antialias |-> Read(entries, "antialias", NotSet),
    size |-> ReadRange(entries, "size"),
    pixelsize |-> ReadRange(entries, "pixelsize") ]

Empty(range) == range.from = 0 /\ range.to = 0
SameBounds(r, s) == r.from = s.from /\ r.to = s.to

InPixels(range) == [from |-> Pixels(range.from), to |-> Pixels(range.to)]
InPoints(range) == [from |-> Points(range.from), to |-> Points(range.to)]
SetBounds(range, bounds) == [range EXCEPT !.from = bounds.from, !.to = bounds.to]

(* parseConfigFile(): the range in pixels follows the one in points, which *)
(* it stands in for when there is none.                                    *)
Disagree(items) ==
  IF ~Empty(items.size) THEN ~SameBounds(items.pixelsize, InPixels(items.size))
  ELSE ~Empty(items.pixelsize)

Parsed(entries) ==
  LET items == ReadContents(entries)
  IN IF ~Empty(items.size)
     THEN [items EXCEPT !.pixelsize = SetBounds(@, InPixels(items.size))]
     ELSE [items EXCEPT !.size = SetBounds(@, InPoints(items.pixelsize))]

(* reset(): what the user's file does not set is inherited from the global *)
(* files.  The range in points inherits the upper bound in pixels.         *)
Inherited(items) ==
  LET none == [items EXCEPT !.size.to = items.pixelsize.to]
  IN [key \in DOMAIN items |-> [none[key] EXCEPT !.node = Null]]

Merged(own, global) ==
  [key \in DOMAIN own |-> IF own[key].node = Null THEN Inherited(global)[key] ELSE own[key]]
-----------------------------------------------------------------------------
(* removeChild(): the child that has the node, if there is one.            *)
Without(doc, node) ==
  LET at == {i \in DOMAIN doc : doc[i].node = node}
  IN IF at = {} THEN doc ELSE RemoveAt(doc, CHOOSE i \in at : TRUE)

Replaced(doc, node, new) ==
  [i \in DOMAIN doc |-> IF doc[i].node = node THEN new ELSE doc[i]]

Put(doc, node, new) == IF node = Null THEN Append(doc, new) ELSE Replaced(doc, node, new)

(* What applying works on: the items and the document they point into.     *)
State(items, doc) == [items |-> items, doc |-> doc]

Drop(s, key) ==
  State([s.items EXCEPT ![key].node = Null], Without(s.doc, s.items[key].node))

Element(s, key) ==
  [node |-> NewNode[key], entry |-> Setting(key, "assign", s.items[key].value)]

ApplySetting(s, key) ==
  State([s.items EXCEPT ![key].node = NewNode[key]],
        Put(s.doc, s.items[key].node, Element(s, key)))

ApplySubPixelType(s) ==
  IF s.items.rgba.value = NotSet THEN Drop(s, "rgba") ELSE ApplySetting(s, "rgba")

(* The style decides about `hinting`, too.                                 *)
ApplyHintStyle(s) ==
  LET hinted == ApplySetting(s, "hinting")
  IN IF s.items.hintstyle.value = NotSet
     THEN Drop(Drop(hinted, "hintstyle"), "hinting")
     ELSE ApplySetting(hinted, "hintstyle")

(* The element for antialiasing moves to the end.                          *)
ApplyAntiAliasing(s) ==
  IF s.items.antialias.value = NotSet THEN Drop(s, "antialias")
  ELSE ApplySetting(Drop(s, "antialias"), "antialias")

(* With an element for antialiasing the old element of the range is taken  *)
(* out of the document before it is to be replaced, which then fails.  In  *)
(* the variant it always is.                                               *)
ApplyExcludeRangeAnew(s, key) ==
  LET range == s.items[key]
      new == [node |-> NewNode[key], entry |-> SizeRange(key, range.from, range.to)]
  IN IF Empty(range) THEN Drop(s, key)
     ELSE State([s.items EXCEPT ![key].node = NewNode[key]],
                Put(Without(s.doc, range.node), range.node, new))
ApplyExcludeRange(s, key) ==
  LET range == s.items[key]
      new == [node |-> NewNode[key], entry |-> SizeRange(key, range.from, range.to)]
      doc == IF s.items.antialias.node # Null THEN Without(s.doc, range.node) ELSE s.doc
  IN IF Empty(range) THEN Drop(s, key)
     ELSE State([s.items EXCEPT ![key].node = NewNode[key]], Put(doc, range.node, new))

(* The branch of apply() that writes the file.  The variant leaves the     *)
(* range in pixels as it is.                                               *)
PixelsKept(items) == items
PixelsFollow(items) == [items EXCEPT !.pixelsize = SetBounds(@, InPixels(items.size))]

Applied(items, doc) ==
  ApplyExcludeRange(ApplyExcludeRange(
    ApplyAntiAliasing(ApplyHintStyle(ApplySubPixelType(State(PixelsFollow(items), doc)))),
    "size"), "pixelsize")
=============================================================================
