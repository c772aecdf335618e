SPECIFICATION FairSpec
CONSTANTS
  Chunks = {c1}
  Rules = {r1}
  Users = {u1, u2}
  Ids = {i1, i2}
  MaxVersion = 1
  MaxHour = 1
  MaxCrashes = 1
  MaxAttempts = 2
  NoBatch = NoBatch
  NoConfig = NoConfig
  NoPolicy = NoPolicy
INVARIANTS ExactlyOnce RightfulCharge SentSafely
PROPERTIES NothingDropped MeteredSpec EventuallyBilled
