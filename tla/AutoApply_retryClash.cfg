\* Azure queue, nobody dies: the vendor asks for a retry.
CONSTANTS
  j1 = j1 u1 = u1 None = None
  Attempts = {a1} Jobs = {j1} Urls = {u1}
  Submits = {s1, s2} Threads = {t1} Messages = {m1, m2}
  MaxCount = 3 MaxApps = 2 PoisonLimit = 2 MaxDequeue = 3
  MaxRequestDeaths = 0 MaxWorkerDeaths = 0
  Deployments = {"azure"} Isolated = TRUE AmbiguousErrors = FALSE
  Bodies <- MCOneBody
SPECIFICATION Spec
SYMMETRY Sym
INVARIANTS RetryIsWorked
CHECK_DEADLOCK FALSE
