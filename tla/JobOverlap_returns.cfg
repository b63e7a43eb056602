CONSTANTS
  p1 = p1 p2 = p2
  gh = gh
  Tenants = {gh} Postings = {p1, p2} Lever = {} Newcomers = {}
  LastPage = 1 MaxPages = 2 PageOf <- MCPageOf Refiled <- MCRefiled
  MaxRuns = 2 MaxDeliver = 2 MaxWorkers = 2
  MaxEvents = 2
  Spanning = {"filing"}
SPECIFICATION OverlapSpec
PROPERTY RemovedStay
SYMMETRY MCAlike
CHECK_DEADLOCK FALSE
