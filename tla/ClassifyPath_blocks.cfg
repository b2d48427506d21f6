\* One packet whose category a provider reports and the rules block.
SPECIFICATION PathSpec
CONSTANTS
  Sections <- OneSection
  Packets <- ThreePackets
  Responses = {}
  Junk = {"zz"}
  MAX_CATEGORIES = 2
  MAX_CATEGORIES_BY_TRUST_LVL = 1
  MAX_DOMAINS = 2
  MAX_IP = 1
  Calls = {1}
  Providers = {"kaspersky", "custom", "unlisted"}
  Configured = {"kaspersky", "custom"}
  Endpoints <- AllEndpoints
  WithBody = {"custom"}
  Labels = {"betting", "chat"}
  Categories <- TwoCategories
INVARIANT BlockedCategoryIsNotSent
CHECK_DEADLOCK FALSE
