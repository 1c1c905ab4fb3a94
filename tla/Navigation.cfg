SPECIFICATION FairSpec
CONSTANTS
  Processes = {p1, p2, p3}
  Pages <- MCPages
  Optional <- MCOptional
  Unknown = "no such page"
  NoModule = "no module"
INVARIANTS TypeOK OneWindow OnePageAboveInitial HighlightIsShown
PROPERTY ImplementsSingleInstance
CHECK_DEADLOCK FALSE
