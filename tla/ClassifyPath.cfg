\* Two packets, so that the handler of a call given up runs beside the next one;
\* providers that are configured, not configured, for one type only, with a body.
SPECIFICATION PathFairSpec
CONSTANTS
  Sections <- OneSection
  Packets <- ThreePackets
  Responses = {}
  Junk = {"zz"}
  MAX_CATEGORIES = 2
  MAX_CATEGORIES_BY_TRUST_LVL = 1
  MAX_DOMAINS = 2
  MAX_IP = 1
  Calls = {1, 2}
  Providers = {"kaspersky", "custom", "unlisted"}
  Configured = {"kaspersky", "custom"}
  Endpoints <- AllEndpoints
  WithBody = {"custom"}
  Labels = {"betting", "chat"}
  Categories <- TwoCategories
INVARIANTS EveryProviderAskedOnce ListsDecide
PROPERTIES MissesAreDecided
CHECK_DEADLOCK FALSE
