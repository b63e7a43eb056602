----------------------------- MODULE MCAutoApply -----------------------------
(* Small instances of AutoApply for TLC. *)
EXTENDS AutoApply, TLC

CONSTANTS j1, u1

ByJob  == [target |-> [job |-> j1, url |-> None], manual |-> FALSE, blank |-> FALSE]
ByBoth == [target |-> [job |-> j1, url |-> u1], manual |-> FALSE, blank |-> FALSE]
Manual == [ByBoth EXCEPT !.manual = TRUE]
Blank  == [ByBoth EXCEPT !.blank = TRUE]

MCBodies == {ByJob, Manual, Blank}
MCLiveBodies == {ByJob, Manual}
MCOneBody == {ByJob}
MCTwoPostings == {ByJob, [ByJob EXCEPT !.target = [job |-> None, url |-> u1]]}

Sym == Permutations(Attempts) \cup Permutations(Submits) \cup Permutations(Threads) \cup Permutations(Messages)
=============================================================================
