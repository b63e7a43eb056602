\* One user who waits, the queue and a worker; nobody dies.
CONSTANTS
  None = None
  Matches = {m1} Decisions = {d1, d2} Keys = {k1}
  MaxEtag = 4 MaxDeaths = 0
  Users = {u1} Workers = {w1}
  Deployments = {"azure"} Overlaps = {FALSE} Serials = {TRUE}
SPECIFICATION Spec
INVARIANTS FeedbackConverges
CHECK_DEADLOCK FALSE
