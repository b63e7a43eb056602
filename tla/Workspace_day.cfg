CONSTANTS
  k1 = k1 p1 = p1 p2 = p2 unlinked = unlinked r1 = r1 r2 = r2 u1 = u1 nobody = nobody
  Conns = {1, 2} Mails = {1, 2}
  Keys = {k1} Postings = {p1, p2} Unlinked = unlinked
  Levels <- MCLevels Default = 70 Tried = {60, 70} MaxTries = 2
  Lowest = 10 Highest = 99 Strict = {80} Delta = 5 MinSamples = 2 TuneAfter = 1 MinShown = 2
  Recs = {1, 2} Weeks <- MCWeeks
  Size = 2
  Resumes = {r1, r2} Runs = {u1} Nobody = nobody Oldest = r1 MaxParses = 1 ParseTries = 2
  MaxRows = 2
  MaxDeliver = 2 ParseDeliver = 3
  MaxHandlers = 2
  MaxEvents = 4 Loads <- MCLoads
SPECIFICATION FairSpec
INVARIANTS TypeInv DisconnectHolds OnlyTornMailIsLost ThresholdAgrees OperationIsHonest SelectionsHold PairingHolds RepliesHold LinkHolds TuningHolds
PROPERTIES MailArrives OperationEnds ParseEnds
CHECK_DEADLOCK FALSE
