CONSTANTS
  p1 = p1 p2 = p2
  gh = gh lv = lv
  Tenants = {gh, lv} Postings = {p1, p2} Lever = {lv} Newcomers = {gh}
  LastPage = 2 MaxPages = 2 PageOf <- MCPageOf Refiled <- MCRefiled
  MaxRuns = 2 MaxDeliver = 2 MaxWorkers = 1
  MaxEvents = 2
SPECIFICATION FairSpec
INVARIANTS TypeInv OnlyLiveShow OnlyOutrunHangs ResultsAreTrue
PROPERTIES FeedSpec CountedRunEnds
CHECK_DEADLOCK FALSE
