----------------------------- MODULE KXftConfig -----------------------------
(***************************************************************************)
(* KXftConfig (fonts/kxftconfig.cpp): an object that reads the font        *)
(* settings of the user's fonts.conf, has them changed, and rewrites the   *)
(* file, which other programs rewrite, too.  When the file has changed     *)
(* since it was read, apply() reads it anew with a second object, puts the *)
(* settings on top and applies those instead.  In the end the object reads *)
(* the file once more.  Another program may come between any two of these  *)
(* steps.                                                                  *)
(*                                                                         *)
(* Locking, opening and replacing the file can fail; what is written to it *)
(* is taken to get there as a whole.  The directory of the file is taken   *)
(* to be writable, which getConfigFile() sees to.                          *)
(***************************************************************************)
EXTENDS FontsConf

CONSTANTS
  Foreign,      \* the elements of other programs
  GlobalFiles,  \* what the global configuration may be: sequences of entries
  UserFiles,    \* what other programs write to the user's file
  NoFile,       \* there is no file of the user
  ExcludeRanges,  \* arguments of setExcludeRange()
  SubPixels, Styles, States,  \* arguments of the other setters
  MaxVersion    \* bound on the writes of the file

Entry == OwnEntry \union Foreign

ASSUME FilesAssumption ==
  /\ \A entry \in Foreign : entry.key = "other"
  /\ GlobalFiles \subseteq Seq(Entry) /\ UserFiles \subseteq Seq(Entry)
  /\ NoFile \notin Seq(Entry)
  /\ ExcludeRanges \subseteq [from: Nat, to: Nat]
  /\ SubPixels \subseteq Settings.rgba \union {NotSet}
  /\ Styles \subseteq Settings.hintstyle \union {NotSet}
  /\ States \subseteq Settings.antialias \union {NotSet}
  /\ MaxVersion \in Nat

VARIABLES
  global,       \* the global files, as one
  file,         \* the user's file
  version,      \* its time stamp: the number of writes
  config,       \* the object
  fresh,        \* the second object of apply(), if there is one
  pc,           \* where apply() is: "idle", "reread" before the second object is
                \* made, "check" before its time stamp is compared, "write" before
                \* the file is replaced, "reset" before it is read again
  raced,        \* history: another program wrote since the file was compared (pc is
                \* "write"), or was replaced or found to be right (pc is "reset")
  blind         \* history: a time stamp was taken over without what it stands for

configVars == <<global, file, version, config, fresh, pc, raced, blind>>
-----------------------------------------------------------------------------
(* reset() of an object for the given file.  Without a file the document   *)
(* stays that of the last global file.                                     *)
Loaded(entries, stamp) ==
  IF entries = NoFile
  THEN [ items |-> Merged(ReadContents(<<>>), Parsed(global)),
         doc |-> Document(global), time |-> 0,
         changed |-> Disagree(ReadContents(global)) ]
  ELSE [ items |-> Merged(Parsed(entries), Parsed(global)),
         doc |-> Document(entries), time |-> stamp,
         changed |-> Disagree(ReadContents(global)) \/ Disagree(ReadContents(entries)) ]

None == [items |-> ReadContents(<<>>), doc |-> <<>>, time |-> 0, changed |-> FALSE]

Changed(c, items) == [c EXCEPT !.items = items, !.changed = @ \/ items # c.items]

SetSubPixelType(c, type) == Changed(c, [c.items EXCEPT !.rgba.value = type])

SetAntiAliasing(c, state) == Changed(c, [c.items EXCEPT !.antialias.value = state])

(* A style switches `hinting` on or off; toBeRemoved is set exactly while  *)
(* the style is not.                                                       *)
SetHintStyle(c, style) ==
  LET styled == [c.items EXCEPT !.hintstyle.value = style]
  IN Changed(c, IF style = NotSet THEN styled
                ELSE [styled EXCEPT !.hinting.value = IF style = "none" THEN "false" ELSE "true"])

(* The bounds come in any order.                                           *)
SetExcludeRange(c, from, to) ==
  Changed(c, [c.items EXCEPT !.size.from = Min({from, to}), !.size.to = Max({from, to})])

(* The settings of one object put on top of another.  The variant forgets  *)
(* the style.                                                              *)
OnTopWithoutStyle(items, c) ==
  SetAntiAliasing(
    SetSubPixelType(SetExcludeRange(c, items.size.from, items.size.to), items.rgba.value),
    items.antialias.value)
OnTop(items, c) ==
  SetAntiAliasing(
    SetHintStyle(
      SetSubPixelType(SetExcludeRange(c, items.size.from, items.size.to), items.rgba.value),
      items.hintstyle.value),
    items.antialias.value)

Outdated(c) == file # NoFile /\ version # c.time

ConfigInit ==
  /\ global \in GlobalFiles
  /\ file \in UserFiles \union {NoFile}
  /\ version = 1
  /\ config = Loaded(file, 1)
  /\ fresh = None /\ pc = "idle"
  /\ raced = FALSE /\ blind = FALSE

Set ==
  /\ pc = "idle"
  /\ \/ \E type \in SubPixels : config' = SetSubPixelType(config, type)
     \/ \E style \in Styles : config' = SetHintStyle(config, style)
     \/ \E state \in States : config' = SetAntiAliasing(config, state)
     \/ \E r \in ExcludeRanges : config' = SetExcludeRange(config, r.from, r.to)
  /\ UNCHANGED <<global, file, version, fresh, pc, raced, blind>>

(* Another program writes or removes the file.                             *)
Exchange ==
  /\ version < MaxVersion
  /\ file' \in (UserFiles \union {NoFile}) \ {file}
  /\ version' = version + 1

(* A file is opened before it is asked for its time stamp, by name:        *)
(* another program that replaces it in between leaves the reader with the  *)
(* old file under the new stamp.                                           *)
ReadFile ==
  \/ UNCHANGED <<file, version>> /\ blind' = FALSE
  \/ Exchange /\ blind' = (file # NoFile)

(* apply() compares time stamps.  The variant just writes.                 *)
ApplyRegardless ==
  /\ pc = "idle" /\ config.changed
  /\ version < MaxVersion
  /\ pc' = "write"
  /\ UNCHANGED <<global, file, version, config, fresh, raced, blind>>
Apply ==
  /\ pc = "idle" /\ config.changed
  /\ version < MaxVersion
  /\ pc' = IF Outdated(config) THEN "reread" ELSE "write"
  /\ UNCHANGED <<global, file, version, config, fresh, raced, blind>>

(* A second object for what the file is now.  If it has nothing to apply,  *)
(* the first one is reset.                                                 *)
Reread ==
  /\ pc = "reread"
  /\ ReadFile
  /\ LET second == OnTop(config.items, Loaded(file, version'))
     IN IF second.changed
        THEN fresh' = second /\ pc' = "check" /\ UNCHANGED raced
        ELSE fresh' = None /\ pc' = "reset" /\ raced' = (version' # version)
  /\ UNCHANGED <<global, config>>

(* The apply() of the second object compares, too, and may make another.   *)
ApplyAgain ==
  /\ pc = "check"
  /\ IF Outdated(fresh) THEN fresh' = None /\ pc' = "reread"
     ELSE pc' = "write" /\ UNCHANGED fresh
  /\ UNCHANGED <<global, file, version, config, raced, blind>>

Writing == IF fresh = None THEN config ELSE fresh
Written == Applied(Writing.items, Writing.doc)

(* The new file takes the place of the old one.  What the object holds is  *)
(* left as it was: nobody looks at it before it is reset.                  *)
Write ==
  /\ pc = "write"
  /\ file' = Entries(Written.doc)
  /\ version' = version + 1
  /\ pc' = "reset" /\ raced' = FALSE
  /\ UNCHANGED <<global, config, fresh, blind>>

(* The object is read from the file again, and the second one is gone.     *)
Reset ==
  /\ pc = "reset"
  /\ ReadFile
  /\ config' = Loaded(file, version')
  /\ fresh' = None /\ pc' = "idle" /\ raced' = FALSE
  /\ UNCHANGED global

(* The object is kept with `items` and `doc` when its apply() fails; when  *)
(* that of the second object does, the first takes the time stamp over.    *)
Fail(items, doc) ==
  /\ pc = "write"
  /\ IF fresh = None
     THEN /\ config' = [config EXCEPT !.items = items, !.doc = doc]
          /\ UNCHANGED blind
     ELSE /\ config' = [config EXCEPT !.time = version]
          /\ blind' = TRUE
  /\ fresh' = None /\ pc' = "idle"
  /\ raced' = FALSE
  /\ UNCHANGED <<global, file, version>>

(* The lock is taken, or the new file cannot be opened.                    *)
FailToOpen == Fail(PixelsFollow(config.items), config.doc)

(* The new file cannot be moved to its place.                              *)
FailToReplace == Fail(Written.items, Written.doc)

(* Outside src/: another program comes between two steps.                  *)
OtherWrites ==
  /\ Exchange
  /\ raced' = (pc \in {"write", "reset"})
  /\ UNCHANGED <<global, config, fresh, pc, blind>>

ConfigNext ==
  \/ Set \/ Apply \/ Reread \/ ApplyAgain \/ Write \/ Reset
  \/ FailToOpen \/ FailToReplace \/ OtherWrites

ConfigSpec == ConfigInit /\ [][ConfigNext]_configVars
-----------------------------------------------------------------------------
Writes == pc = "write" /\ pc' = "reset"

(* What was set stays set until it is set to something else: whether       *)
(* apply() writes, finds that the file has changed and starts again, finds *)
(* nothing to write or fails, the settings afterwards are those before.    *)
(* The exception is another program that writes after apply() has replaced *)
(* the file, or found nothing to write, and before it reads it again: the  *)
(* object then takes over what that program has set.                       *)
SettingsSurvive ==
  [][\A key \in {"rgba", "hintstyle", "antialias"} :
       \/ config.items[key].value = NotSet
       \/ config'.items[key].value = config.items[key].value
       \/ Set
       \/ Reset /\ raced]_configVars

(* What other programs have in the file stays there in its order, also     *)
(* what they wrote after the object was created; unless they write between *)
(* the comparison of the time stamps and the replacement of the file, or   *)
(* the stamp compared is not that of what was read: because a second       *)
(* attempt has failed before, or the file was exchanged while being read.  *)
Others(entries) == {i \in DOMAIN entries : entries[i].key = "other"}
SameOthers(old, new) ==
  \E at \in [Others(old) -> Others(new)] :
    /\ Range(at) = Others(new)
    /\ \A i, j \in Others(old) : i < j => at[i] < at[j]
    /\ \A i \in Others(old) : new[at[i]] = old[i]
OthersKept ==
  [][Writes /\ file # NoFile /\ ~raced /\ ~blind => SameOthers(file, file')]_configVars

(* A new exclude range gets into the file, in points and in pixels; only   *)
(* one that takes the place of another can be lost, and only next to a     *)
(* setting for antialiasing, or when a failed attempt has lost it before.  *)
Replacing(c) ==
  \E key \in Ranges :
    /\ c.items[key].node # Null
    /\ \/ c.items.antialias.value # NotSet
       \/ \A i \in DOMAIN c.doc : c.doc[i].node # c.items[key].node
RangeSurvives ==
  [][Writes /\ ~Replacing(Writing) /\ ~Empty(Writing.items.size) =>
       /\ SameBounds(ReadRange(file', "size"), Writing.items.size)
       /\ SameBounds(ReadRange(file', "pixelsize"), InPixels(Writing.items.size))]_configVars

(* After apply() has succeeded the object has nothing left to apply;       *)
(* unless taking a range away has uncovered older ones in the file that    *)
(* disagree, or another program has written before the object was reset.   *)
Older(c, key) ==
  LastRange(Entries(c.doc),
            {i \in DOMAIN c.doc : c.doc[i].entry.key = key /\ c.doc[i].node # c.items[key].node})
Uncovering(c) ==
  /\ Empty(c.items.size)
  /\ Disagree([size |-> Older(c, "size"), pixelsize |-> Older(c, "pixelsize")])
Settles ==
  [][Reset /\ ~raced /\ ~Replacing(Writing) /\ ~Uncovering(Writing)
       /\ ~Disagree(ReadContents(global)) => ~config'.changed]_configVars
-----------------------------------------------------------------------------
(* The inductive invariant behind the four.  Each item knows its place in  *)
(* the document: no element after its node counts for more than it.        *)
Item(values) == [node: Int, value: values]
RangeItem == [node: Int, from: Nat, to: Nat]
Items == [ rgba: Item(Settings.rgba \union {NotSet}),
           hintstyle: Item(Settings.hintstyle \union {NotSet}),
           hinting: Item(Settings.hinting),
           antialias: Item(Settings.antialias \union {NotSet}),
           size: RangeItem, pixelsize: RangeItem ]
Keys == {"rgba", "hintstyle", "hinting", "antialias", "size", "pixelsize"}

Child == [node: Int, entry: Entry]
Holds(doc, node) == \E i \in DOMAIN doc : doc[i].node = node

(* The children of a document have nodes of their own; a new one is made   *)
(* for one key.                                                            *)
Tree(doc) ==
  /\ doc \in Seq(Child)
  /\ \A i, j \in DOMAIN doc : doc[i].node = doc[j].node => i = j
  /\ \A i \in DOMAIN doc :
       \/ doc[i].node > 0
       \/ doc[i].entry.key \in Keys /\ doc[i].node = NewNode[doc[i].entry.key]

Outranks(entry, key) == entry.key = key /\ (key \in Ranges \/ entry.mode = "assign")
OnTopOf(doc, i, key) ==
  /\ doc[i].entry.key = key
  /\ \A j \in DOMAIN doc : j > i => ~Outranks(doc[j].entry, key)
PlaceOf(doc, key, node) ==
  /\ node >= 0 \/ node = NewNode[key]
  /\ Holds(doc, NewNode[key]) => node = NewNode[key]
  /\ \A i \in DOMAIN doc : doc[i].node = node => OnTopOf(doc, i, key)
  /\ key \notin Ranges /\ node # Null => Holds(doc, node)

Sane(items, doc) ==
  /\ items \in Items /\ Tree(doc)
  /\ \A key \in Ranges : items[key].from <= items[key].to
  /\ \A key \in Keys : PlaceOf(doc, key, items[key].node)

(* One document comes from another by taking children out that are in     *)
(* `cut`, and by putting such ones in.                                     *)
Kept(cut, old, new) ==
  /\ \A i, j \in DOMAIN old :
       i <= j /\ old[i] \notin cut /\ old[j] \notin cut =>
         \E k, l \in DOMAIN new : k <= l /\ new[k] = old[i] /\ new[l] = old[j]
  /\ \A k \in DOMAIN new :
       (\E i \in DOMAIN old : old[i] = new[k]) \/ (new[k] \in cut /\ new[k].node < 0)
OfKeys(keys) == {child \in Child : child.entry.key \in keys}

ObjectOK(c) ==
  /\ c \in [items: Items, doc: Seq(Child), time: Nat, changed: BOOLEAN]
  /\ Sane(c.items, c.doc)
  /\ c.time <= version
UpToDate(c) ==
  c.time = version /\ file # NoFile => Kept(OfKeys(Keys), Document(file), c.doc)

(* What makes apply() reset the object.                                    *)
JustWritten == file = Entries(Written.doc)
NothingToWrite == ~OnTop(config.items, Loaded(file, version)).changed

ConfigInv ==
  /\ global \in GlobalFiles /\ file \in Seq(Entry) \union {NoFile}
  /\ version \in Nat \ {0}
  /\ pc \in {"idle", "reread", "check", "write", "reset"}
  /\ ObjectOK(config)
  /\ fresh # None =>
       /\ ObjectOK(fresh) /\ pc \in {"check", "write", "reset"}
       /\ \A key \in {"rgba", "hintstyle", "antialias"} :
            fresh.items[key].value = config.items[key].value
  /\ pc = "check" => fresh # None
  /\ pc \notin {"reread", "reset"} /\ ~blind => UpToDate(Writing)
  /\ pc = "write" /\ ~raced /\ file # NoFile => Writing.time = version
  /\ pc = "reset" /\ ~raced => JustWritten \/ NothingToWrite
=============================================================================
