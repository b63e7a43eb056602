\* In-memory store and queue, nobody dies.
CONSTANTS
  j1 = j1 u1 = u1 None = None
  Attempts = {a1, a2} Jobs = {j1} Urls = {u1}
  Submits = {s1, s2} Threads = {t1, t2} Messages = {m1}
  MaxCount = 3 MaxApps = 2 PoisonLimit = 2 MaxDequeue = 3
  MaxRequestDeaths = 0 MaxWorkerDeaths = 0
  Deployments = {"memory"} Isolated = TRUE AmbiguousErrors = FALSE
  Bodies <- MCBodies
SPECIFICATION Spec
SYMMETRY Sym
INVARIANTS CancelHonoured
CHECK_DEADLOCK FALSE
