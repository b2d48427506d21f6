\* One controller restart between two loads: the version count starts again.
SPECIFICATION FairSpec
CONSTANTS
  Workers = {w1}
  Threads = {t1}
  Admins = {a1}
  Configs = {cA, cB}
  BadConfig = bad
  EmptyConfig = empty
  NoPolicy = garbage
  NoText = none
  MaxLoads = 2
  MaxToggles = 0
  MaxCrashes = 1
  MaxReboots = 0
  MaxMishaps = 1
PROPERTY UnchangedMeansLatest
