---------------------------- MODULE MCWorkspace ----------------------------
(* Small instances of Workspace for TLC. *)
EXTENDS Workspace, TLC

CONSTANTS k1, p1, p2, unlinked, r1, r2, u1, nobody

MCLevels == Lowest .. Highest
\* Two recommendations a week; three of them, of which the tuned threshold may hide all.
MCWeeks == {<<90, 68>>, <<73, 73, 60>>}

Load(mail, talk, threshold, tuning, match, resumes, review) ==
  [mail |-> mail, talk |-> talk, threshold |-> threshold, tuning |-> tuning, match |-> match,
   resumes |-> resumes, review |-> review]
\* Each component by itself, and two pairs of those that share the preferences.
MCLoads ==
  {Load(3, 0, 0, 0, 0, 0, 0), Load(0, 4, 0, 0, 0, 0, 0), Load(0, 0, 3, 0, 0, 0, 0),
   Load(0, 0, 0, 2, 0, 0, 0), Load(0, 0, 0, 0, 3, 0, 0), Load(0, 0, 0, 0, 0, 2, 0),
   Load(0, 0, 0, 0, 0, 0, 3), Load(0, 0, 1, 0, 1, 0, 0), Load(0, 0, 1, 1, 0, 0, 0)}
\* One change of the settings and one of the tuning, seen by one scoring.
MCScoring == {Load(0, 0, 1, 1, 0, 0, 0)}
=============================================================================
