----------------------------- MODULE MCFeedback -----------------------------
(* Small instances of Feedback for TLC. *)
EXTENDS Feedback, TLC

Sym == Permutations(Decisions) \cup Permutations(Keys) \cup Permutations(Users)
=============================================================================
