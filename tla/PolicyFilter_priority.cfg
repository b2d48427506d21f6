\* Domains on both lists.
SPECIFICATION Spec
CONSTANTS
  Sections <- DomainsOnBothLists
  Packets <- AllPackets
  Responses <- AllResponses
  Junk = {"", "zz"}
  MAX_CATEGORIES = 3
  MAX_CATEGORIES_BY_TRUST_LVL = 2
  MAX_DOMAINS = 3
  MAX_IP = 3
INVARIANT AllowTakesPriority
CHECK_DEADLOCK FALSE
