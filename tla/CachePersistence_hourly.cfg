\* One destination whose verdict outlives the clock of the run.
SPECIFICATION FairSpec
CONSTANTS
  Texts = {t1}
  Fill = {zero, other}
  Zero = zero
  Nil = nil
  Ttls = {3}
  ClockSize = 16
  MaxClock = 2
  MaxBoot = 1
  MaxGen = 1
PROPERTY VerdictsReachDisk
CHECK_DEADLOCK FALSE
