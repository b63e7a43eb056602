\* Azure queue, Cosmos store calls overlap, 5xx answers are ambiguous.
CONSTANTS
  j1 = j1 u1 = u1 None = None
  Attempts = {a1} Jobs = {j1} Urls = {u1}
  Submits = {s1, s2} Threads = {t1, t2} Messages = {m1, m2}
  MaxCount = 3 MaxApps = 2 PoisonLimit = 2 MaxDequeue = 3
  MaxRequestDeaths = 0 MaxWorkerDeaths = 0
  Deployments = {"azure"} Isolated = FALSE AmbiguousErrors = TRUE
  Bodies <- MCOneBody
SPECIFICATION Spec
SYMMETRY Sym
INVARIANTS SurvivesOverlap
CHECK_DEADLOCK FALSE
