\* One user and one worker, one death; the calls of a Cosmos store overlap.
CONSTANTS
  None = None
  Matches = {m1} Decisions = {d1, d2} Keys = {k1}
  MaxEtag = 3 MaxDeaths = 1
  Users = {u1} Workers = {w1}
  Deployments = {"memory", "azure"} Overlaps = {TRUE} Serials = {TRUE}
SPECIFICATION FairSpec
PROPERTIES FeedbackArrives
CHECK_DEADLOCK FALSE
