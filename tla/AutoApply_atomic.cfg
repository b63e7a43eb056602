\* Every deployment, store calls atomic, a request and a worker may die once.
CONSTANTS
  j1 = j1 u1 = u1 None = None
  Attempts = {a1, a2} Jobs = {j1} Urls = {u1}
  Submits = {s1, s2} Threads = {t1, t2} Messages = {m1, m2}
  MaxCount = 3 MaxApps = 2 PoisonLimit = 2 MaxDequeue = 3
  MaxRequestDeaths = 1 MaxWorkerDeaths = 1
  Deployments = {"memory", "cosmos", "azure"} Isolated = TRUE AmbiguousErrors = FALSE
  Bodies <- MCBodies
SPECIFICATION Spec
SYMMETRY Sym
INVARIANTS TypeInv SubmissionInv InFlightUnique Gated OneApplication VendorTruth SuccessIsReal RetryScheduled StrandedIsVisible Cancellable
PROPERTIES PackageImmutable TerminalIsFinal StoreSpec
CHECK_DEADLOCK FALSE
