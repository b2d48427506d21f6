\* Two polls of one worker overlap while two texts are loaded; beside them
\* filtering is switched or one of the two sides restarts.
SPECIFICATION FairSpec
CONSTANTS
  Workers = {w1}
  Threads = {t1, t2}
  Admins = {a1}
  Configs = {cA, cB}
  BadConfig = bad
  EmptyConfig = empty
  NoPolicy = garbage
  NoText = none
  MaxLoads = 2
  MaxToggles = 1
  MaxCrashes = 1
  MaxReboots = 1
  MaxMishaps = 1
INVARIANT PolicyMatchesVersion
PROPERTIES PollsReadAtomically UnchangedUntilRestart WorkersConverge
