SPECIFICATION FairSpec
CONSTANTS
  Names = {me, ann}
  Logged = me
  Passwords = {p, q}
  NoText = empty
  NoSecret = locked
  MaxMessages = 2
INVARIANT GivenAsAsked
PROPERTY AddIsAnswered
