\* Azure queue, Cosmos store calls overlap, two users apply for two postings.
CONSTANTS
  j1 = j1 u1 = u1 None = None
  Attempts = {a1, a2} Jobs = {j1} Urls = {u1}
  Submits = {s1, s2} Threads = {t1, t2} Messages = {m1}
  MaxCount = 2 MaxApps = 2 PoisonLimit = 2 MaxDequeue = 2
  MaxRequestDeaths = 0 MaxWorkerDeaths = 0
  Deployments = {"azure"} Isolated = FALSE AmbiguousErrors = FALSE
  Bodies <- MCTwoPostings
SPECIFICATION Spec
SYMMETRY Sym
INVARIANTS OneApplication
CHECK_DEADLOCK FALSE
