SPECIFICATION Spec
CONSTANTS
  Chunks = {c1}
  Rules = {r1}
  Users = {u1, u2}
  Ids = {i1, i2, i3}
  MaxVersion = 0
  MaxHour = 0
  MaxCrashes = 1
  MaxAttempts = 2
  NoBatch = NoBatch
  NoConfig = NoConfig
  NoPolicy = NoPolicy
PROPERTIES CacheSurvivesRejection
