CONSTANTS
  r1 = r1
  r2 = r2
  r3 = r3
  ok = ok
  failed = failed
  reached = reached
  timeout = timeout
  Region = {r1, r2, r3}
  Raw = {ok, failed}
  Target = {reached, timeout}
  Unmapped = Unmapped
  Mapping <- MCMapping
  Caller = Caller
SPECIFICATION FairSpec
CHECK_DEADLOCK FALSE

PROPERTIES CancelStopsRegions
