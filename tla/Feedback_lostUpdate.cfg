\* Two users, and store calls that overlap; nobody dies.
CONSTANTS
  None = None
  Matches = {m1} Decisions = {d1, d2} Keys = {k1, k2}
  MaxEtag = 4 MaxDeaths = 0
  Users = {u1, u2} Workers = {w1}
  Deployments = {"cosmos"} Overlaps = {TRUE} Serials = {FALSE}
SPECIFICATION Spec
PROPERTIES ReplacesWhatWasSeen
CHECK_DEADLOCK FALSE
