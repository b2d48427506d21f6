\* Two keys against a burst of one: two stale verdicts fit in the caches, one is
\* allowed. One policy thread that comes back, and two policies after the first.
SPECIFICATION FairSpec
CONSTANTS
  Ips = {i1}
  Domains = {d1}
  Nil = nil
  Pollers = {p1}
  Burst = 1
  MaxGen = 3
INVARIANTS BoundedStaleness FreshVerdictsObeyPolicy
PROPERTIES PolicyTakesEffect StopsOnSignal
CHECK_DEADLOCK FALSE
