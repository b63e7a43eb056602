----------------------------- MODULE ReviewRules -----------------------------
(***************************************************************************)
(* The rule engine of the Review store (backend/app/review/memory.py):     *)
(* matches that await a decision, and the append-only log of decisions.    *)
(* As in AutoApplyRules, a call is a condition under which it returns and  *)
(* the value of the store it leaves.  Matches are rows of one user; texts, *)
(* scores, sources, the claim locks and the audit trail are left out.      *)
(***************************************************************************)
EXTENDS Integers, FiniteSets

CONSTANTS
  Matches,    \* ids of matches
  Decisions,  \* ids of decision events
  Keys,       \* Idempotency-Key headers
  MaxEtag,    \* bound: writes to one match
  None

ASSUME ReviewBounds == MaxEtag \in Nat \ {0} /\ IsFiniteSet(Decisions)
ASSUME ReviewNone == None \notin Decisions \cup Keys \cup Matches

Choices == {"approve", "reject"}
Terminal == {"APPROVED", "REJECTED"}
\* _status_for_decision
StatusFor(choice) == IF choice = "approve" THEN "APPROVED" ELSE "REJECTED"

MatchRow == [status: {"PENDING"} \cup Terminal, latest: Decisions \cup {None}, etag: 1 .. MaxEtag]
NewMatch == [status |-> "PENDING", latest |-> None, etag |-> 1]

\* `old' stands for the two clocks: decided_at and created_at are one timestamp, and
\* the overwrite window and the life of a key are one setting, review_overwrite_hours.
DecisionRow == [match: Matches \cup {None}, choice: Choices, version: 0 .. Cardinality(Decisions),
                supersedes: Decisions \cup {None}, key: Keys \cup {None}, old: BOOLEAN]
NoDecision == [match |-> None, choice |-> "approve", version |-> 0, supersedes |-> None,
               key |-> None, old |-> FALSE]

Reviews == [match: [Matches -> MatchRow], dec: [Decisions -> DecisionRow]]
EmptyReviews == [match |-> [m \in Matches |-> NewMatch], dec |-> [d \in Decisions |-> NoDecision]]

\* list_decisions, sorted by decided_at: rows are inserted in that order, and each gets
\* the next version, so the newest of some rows is the one with the greatest version.
History(v, m) == {d \in Decisions : v.dec[d].match = m}
Keyed(v, m, key) == {d \in History(v, m) : v.dec[d].key = key}
Newest(v, rows) == CHOOSE d \in rows : \A e \in rows : v.dec[e].version <= v.dec[d].version

\* decide: the etag, then the key, then the terminal status.
\* Mutant: If-Match is not compared.
AnyEtag(v, m, etag) == TRUE
SameEtag(v, m, etag) == v.match[m].etag = etag
KnownKey(v, m, key) == key # None /\ Keyed(v, m, key) # {}
CanDecide(v, m, over) == v.match[m].status \in Terminal => over

NextVersion(v, m) ==
  IF History(v, m) = {} THEN 1 ELSE v.dec[Newest(v, History(v, m))].version + 1
Decided(v, m, d, choice, key) ==
  [match |-> [v.match EXCEPT ![m] = [status |-> StatusFor(choice), latest |-> d, etag |-> @.etag + 1]],
   dec   |-> [v.dec EXCEPT ![d] =
               [match |-> m, choice |-> choice, version |-> NextVersion(v, m),
                supersedes |-> IF v.match[m].status \in Terminal THEN v.match[m].latest ELSE None,
                key |-> key, old |-> FALSE]]]

\* reopen looks at nothing: the caller has read the status before.
\* Mutant: the pointer to the latest decision stays.
KeptRow(row) == [row EXCEPT !.status = "PENDING", !.etag = @ + 1]
ReopenedRow(row) == [status |-> "PENDING", latest |-> None, etag |-> row.etag + 1]
Reopened(v, m) == [v EXCEPT !.match[m] = ReopenedRow(@)]

\* update_pending_match: a new score changes the row, and its etag.
CanRescore(v, m) == v.match[m].status = "PENDING"
Rescored(v, m) == [v EXCEPT !.match[m].etag = @ + 1]

\* _persist_working of the Cosmos store: every row of w, which a call has read as a whole
\* and changed, is written over the row of v.  Rows that others have added meanwhile stay,
\* and so does the time that has passed.
Persisted(v, w) ==
  [match |-> w.match,
   dec |-> [d \in Decisions |->
     IF w.dec[d].match = None THEN v.dec[d] ELSE [w.dec[d] EXCEPT !.old = @ \/ v.dec[d].old]]]
=============================================================================
