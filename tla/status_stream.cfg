\* Three changes; any two drops, clean closes, failed requests or leaving the page.
SPECIFICATION FairSpec
CONSTANTS
  MaxVersion = 3
  Faults = {"dropped", "closed", "failed", "left"}
  MaxFaults = 2
CHECK_DEADLOCK FALSE
INVARIANTS
  TypeOK
  OneSocket
PROPERTIES
  PageReconnects
  PublishedReportIsFetched
