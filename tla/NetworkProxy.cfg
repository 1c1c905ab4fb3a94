SPECIFICATION FairSpec
CONSTANTS
  http = http
  ftp = ftp
  Script = script
  Fields <- Hosts
  Follows <- FollowsHost
  NoText = empty
  Texts = {empty, a}
  MaxUpdates = 3
INVARIANTS TypeOK SessionFollowsFile NothingUnsavedUnseen SameMeansSame
PROPERTY SessionCatchesUp
