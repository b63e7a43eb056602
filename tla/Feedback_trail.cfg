\* Two users, the queue and a worker, one death; store calls do not overlap.
CONSTANTS
  None = None
  Matches = {m1} Decisions = {d1, d2} Keys = {k1, k2}
  MaxEtag = 4 MaxDeaths = 1
  Users = {u1, u2} Workers = {w1}
  Deployments = {"memory", "cosmos", "azure"} Overlaps = {FALSE} Serials = {TRUE, FALSE}
SPECIFICATION Spec
INVARIANTS TypeInv TrailFits LearntFromReview FeedbackAgrees
PROPERTIES ReplacesWhatWasSeen
SYMMETRY Sym
CHECK_DEADLOCK FALSE
