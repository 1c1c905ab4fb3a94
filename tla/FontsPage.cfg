SPECIFICATION FairSpec
CONSTANTS
  FontSets <- MCFontSets
  Families = {1, 2, 3}
  Sizes = {11, 12, 18}
  TabReports = {TRUE, FALSE}
INVARIANTS ListsAreComplete BoxShowsSystem SizeIsKept
PROPERTY LoadEnds
