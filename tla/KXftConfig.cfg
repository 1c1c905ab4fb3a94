SPECIFICATION ConfigSpec
CONSTANTS
  Foreign <- MCForeign
  GlobalFiles <- MCGlobalFiles
  UserFiles <- MCUserFiles
  NoFile = NoFile
  ExcludeRanges <- MCExcludeRanges
  SubPixels = {"rgb"}
  Styles = {"not set", "none"}
  States = {"not set", "true"}
  MaxVersion = 3
PROPERTIES SettingsSurvive OthersKept RangeSurvives Settles
