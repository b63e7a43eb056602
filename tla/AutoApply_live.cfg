\* Azure queue, every handler that runs goes on, a worker may die once.
CONSTANTS
  j1 = j1 u1 = u1 None = None
  Attempts = {a1} Jobs = {j1} Urls = {u1}
  Submits = {s1, s2} Threads = {t1, t2} Messages = {m1, m2}
  MaxCount = 3 MaxApps = 2 PoisonLimit = 2 MaxDequeue = 3
  MaxRequestDeaths = 0 MaxWorkerDeaths = 1
  Deployments = {"azure"} Isolated = TRUE AmbiguousErrors = FALSE
  Bodies <- MCLiveBodies
SPECIFICATION FairSpec
PROPERTIES QueuedLeaves
CHECK_DEADLOCK FALSE
