SPECIFICATION FairSpec
CONSTANTS
  Kinds = {"mouse", "dims", "background", "touchpad", "notifications", "power",
           "language", "brightness", "dock", "lid", "battery"}
  MaxMessages = 8
INVARIANTS TypeOK ShownIsValue ChoiceIsKept
PROPERTY EchoEnds
