\* All pairs of a global and a filter section that differ in one kind of rule, with
\* lists that overrun the tables and addresses that end one early.
SPECIFICATION Spec
CONSTANTS
  Sections <- AllSections
  Packets <- AllPackets
  Responses <- AllResponses
  Junk = {"", "c1", "zz"}
  MAX_CATEGORIES = 3
  MAX_CATEGORIES_BY_TRUST_LVL = 2
  MAX_DOMAINS = 3
  MAX_IP = 2
INVARIANT SentOnlyIfPermitted AllowedIsSent TablesHoldBothSections
CHECK_DEADLOCK FALSE
