\* Two destinations, one reboot, one policy update.
SPECIFICATION Spec
CONSTANTS
  Texts = {t1, t2}
  Fill = {zero, other}
  Zero = zero
  Nil = nil
  Ttls = {2}
  ClockSize = 16
  MaxClock = 2
  MaxBoot = 1
  MaxGen = 1
SYMMETRY Symmetry
INVARIANTS HitsAreGenuine RestartsDoNotProlong OldVerdictsHaveAnOrigin SavesAreAllOrNothing ShutdownSaves
CHECK_DEADLOCK FALSE
