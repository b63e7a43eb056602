---------------------------- MODULE LearningRules ----------------------------
(***************************************************************************)
(* The rule engine of the Learning store (backend/app/learning/memory.py): *)
(* one recommendation and one decision log for each match of Review, and   *)
(* the index of idempotency keys it has seen.  Scores, weights, parameters *)
(* and metrics are left out.                                               *)
(***************************************************************************)
EXTENDS ReviewRules

\* LearningDecisionLogged: a decision, or the undo of it.  The event is also its
\* idempotency key: the decision id, with "-undo" appended.
Events == Decisions \X {"log", "undo"}
ASSUME LearningNone == None \notin Events

Outcomes == {"approve", "reject", "skip"}
LogRow == [choice: Outcomes \cup {"none"}, key: Events \cup {None}]
NoLog  == [choice |-> "none", key |-> None]

\* `known' is _by_idem, which put_decision only adds to.
Learnt == [log: [Matches -> LogRow], rec: [Matches -> {"none", "pending", "decided"}], known: SUBSET Events]
NothingLearnt == [log |-> [m \in Matches |-> NoLog], rec |-> [m \in Matches |-> "none"], known |-> {}]

\* get_by_idempotency.  The Cosmos store builds the index anew for each call, from
\* the rows there are: of the events of a match it knows the one applied last.
\* Mutant: the index is by recommendation.
KnowsMatch(v, rebuilt, m, e) == v.log[m].key # None
Knows(v, rebuilt, m, e) == IF rebuilt THEN v.log[m].key = e ELSE e \in v.known

\* upsert_recommendation keeps the snapshot of the first call, but not its status.
Recommended(v, m, status) == [v EXCEPT !.rec[m] = status]
\* put_decision replaces the row of the recommendation and marks it decided.
\* Mutant: a row that is there keeps its choice.
LogKept(v, m, e, choice) ==
  [log   |-> [v.log EXCEPT ![m] = [choice |-> IF @.choice = "none" THEN choice ELSE @.choice, key |-> e]],
   rec   |-> [v.rec EXCEPT ![m] = "decided"],
   known |-> v.known \cup {e}]
LogPut(v, m, e, choice) ==
  [log   |-> [v.log EXCEPT ![m] = [choice |-> choice, key |-> e]],
   rec   |-> [v.rec EXCEPT ![m] = "decided"],
   known |-> v.known \cup {e}]

\* _persist_working, as in ReviewRules.  `known' only remembers what was put.
PersistedLearnt(v, w) ==
  [log   |-> [m \in Matches |-> IF w.log[m] = NoLog THEN v.log[m] ELSE w.log[m]],
   rec   |-> [m \in Matches |-> IF w.rec[m] = "none" THEN v.rec[m] ELSE w.rec[m]],
   known |-> v.known \cup w.known]
=============================================================================
