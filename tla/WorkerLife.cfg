\* One Ethernet port of the EAL's own, then the worker's three; two packets, so that one counter
\* is raised twice or two are; one push that reports an error.
SPECIFICATION FairSpec
CONSTANTS
  StatFiles <- TwoMachines
  Probed = 1
  MaxRecorded = 2
  MaxErrors = 1
INVARIANTS LoopOnOwnPorts NothingLeftBehind CountedOnce LastCountsArrive
PROPERTIES OwnDeviceOnly TotalsOnlyGrow CountsReachGateway EndsAfterSignal
CHECK_DEADLOCK FALSE
