CONSTANTS
  p1 = p1 p2 = p2
  gh = gh lv = lv
  Tenants = {gh} Postings = {p1, p2} Lever = {} Newcomers = {}
  LastPage = 2 MaxPages = 2 PageOf <- MCPageOf Refiled <- MCNotRefiled
  MaxRuns = 2 MaxDeliver = 2 MaxWorkers = 1
  MaxEvents = 2
SPECIFICATION Spec
INVARIANT ListedStays
CHECK_DEADLOCK FALSE
