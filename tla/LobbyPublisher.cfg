\* Both servers, three counts, three updates.
SPECIFICATION LiveSpec
CONSTANTS
  Counts = {0, 1, 2}
  Servers = {"python", "c"}
  MaxUpdates = 3
INVARIANTS TypeOK NoLostUpdate LastWordOffline
PROPERTIES RateLimited NewestPublished
CHECK_DEADLOCK FALSE
