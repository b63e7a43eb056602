------------------------------ MODULE Pairings ------------------------------
(***************************************************************************)
(* The rows of backend/app/review for one posting and one resume. Every    *)
(* scoring looks for them, and creates one, or updates one and discards    *)
(* the others; the user decides, reopens, and looks at the list.           *)
(*                                                                         *)
(* A store call of Cosmos reads all rows and writes all of them back, the  *)
(* ones it did not mean to change too; even the audit of a look does. The  *)
(* in-memory store behaves like that with nothing between the read and the *)
(* write. What a decision says, its etag and its key are in Feedback.      *)
(* A new row takes the id of the matching run that the scoring saved; the  *)
(* same posting, resume, model and threshold have the same run.            *)
(***************************************************************************)
EXTENDS Naturals, FiniteSets

CONSTANTS
  MaxRows,     \* bound: runs that save a score of the pairing
  MaxHandlers, \* bound: handlers at work at a time
  MaxEvents    \* bound: scorings, requests and deaths

VARIABLES
  matches, \* review_matches: the rows of the pairing
  work,    \* the handlers
  budget,  \* how many events are left
  raced,   \* history: two scorings went on to create a row at the same time
  overtaken, \* history: rows that were written from an old copy or created a second time
  standing \* history: rows that the user has decided and not reopened
history == <<raced, overtaken, standing>>
pairingVars == <<matches, work, budget, history>>

\* What the composition assumes of the constants.
PairingBounds == MaxRows \in Nat \ {0, 1} /\ {MaxHandlers, MaxEvents} \subseteq Nat

Ids == 1 .. MaxRows
Handlers == 1 .. MaxHandlers
Sources == {"ai", "saved"}
Row == [status: {"none", "pending", "decided"}, source: Sources]
NoRow == [status |-> "none", source |-> "ai"]
NoCopy == [r \in Ids |-> NoRow]
Idle == [at |-> "idle", r |-> 0, source |-> "ai", extras |-> {}, copy |-> NoCopy, read |-> FALSE]

\* A handler that lists for a run or works on a row has it; the later ones need it no more.
Aimed == {"list", "update", "create", "decide", "reopen"}
Job ==
  {job \in [at: Aimed \cup {"idle", "merge", "audit"}, r: {0} \cup Ids, source: Sources,
            extras: SUBSET Ids, copy: [Ids -> Row], read: BOOLEAN] :
     job.at \in Aimed => job.r \in Ids}
TypeInv ==
  /\ matches \in [Ids -> Row] /\ budget \in Nat
  /\ work \in [Handlers -> Job]
  /\ raced \in BOOLEAN /\ overtaken \subseteq Ids /\ standing \subseteq Ids

\* No row yet, or two that wait, of two sources, that two scorings created.
Waiting(source) == [status |-> "pending", source |-> source]
Init ==
  /\ raced \in BOOLEAN
  /\ matches = IF raced THEN [NoCopy EXCEPT ![1] = Waiting("ai"), ![2] = Waiting("saved")] ELSE NoCopy
  /\ work = [h \in Handlers |-> Idle]
  /\ budget \in 0 .. MaxEvents
  /\ overtaken = {} /\ standing = {}

-----------------------------------------------------------------------------
Event == budget > 0 /\ budget' = budget - 1
Free(h) == work[h].at = "idle" /\ \A g \in Handlers : g < h => work[g].at # "idle"
At(h, where) == work[h].at = where
Begin(h, job) == work' = [work EXCEPT ![h] = job]
Goto(h, where) == work' = [work EXCEPT ![h].at = where, ![h].read = FALSE, ![h].copy = NoCopy]
Leave(h) == work' = [work EXCEPT ![h] = Idle]
Present(rows) == {r \in Ids : rows[r].status # "none"}
Pending(rows) == {r \in Ids : rows[r].status = "pending"}

\* A store call: _hydrate, the rule on the copy, _persist_working.
Calls == {"update", "merge", "create", "decide", "reopen", "audit"}
Hydrates(h) ==
  /\ work[h].at \in Calls /\ ~work[h].read
  /\ work' = [work EXCEPT ![h].copy = matches, ![h].read = TRUE]
  /\ UNCHANGED <<matches, budget, history>>
Ready(h, call) == At(h, call) /\ work[h].read
Copy(h) == work[h].copy
Target(h) == work[h].copy[work[h].r]
\* Rows that the copy does not have are left alone; a row deleted since comes back.
Overwritten(copy) == [r \in Ids |-> IF copy[r].status = "none" THEN matches[r] ELSE copy[r]]
Stale(h) == {r \in Present(Copy(h)) : Copy(h)[r] # matches[r]}
Persist(h, copy) ==
  /\ matches' = Overwritten(copy)
  /\ overtaken' = overtaken \cup Stale(h)

-----------------------------------------------------------------------------
\* upsert_scored_match: the rows are listed, and what is done next trusts the list.
Score(h, run, source) ==
  /\ Event /\ Free(h)
  /\ Begin(h, [Idle EXCEPT !.at = "list", !.r = run, !.source = source])
  /\ UNCHANGED <<matches, history>>
\* The row of the same source is updated, or the saved one, or any; the rest are extra.
Targets(h) ==
  LET same == {r \in Pending(matches) : matches[r].source = work[h].source}
      saved == {r \in Pending(matches) : matches[r].source = "saved"}
  IN IF same # {} THEN same ELSE IF saved # {} THEN saved ELSE Pending(matches)
Finds(h) ==
  /\ At(h, "list")
  /\ \E r \in Targets(h) :
       Begin(h, [work[h] EXCEPT !.at = "update", !.r = r, !.extras = Pending(matches) \ {r},
                                !.source = IF matches[r].source = "saved" THEN "saved" ELSE @])
  /\ UNCHANGED <<matches, budget, history>>
\* Mutant: only a row that waits keeps another from being created.
PendingOnly == Pending(matches)
Existing == Present(matches)
FindsDecided(h) ==
  /\ At(h, "list") /\ Pending(matches) = {} /\ Existing # {}
  /\ Leave(h)
  /\ UNCHANGED <<matches, budget, history>>
FindsNone(h) ==
  /\ At(h, "list") /\ Existing = {}
  /\ Goto(h, "create")
  /\ raced' = (raced \/ \E g \in Handlers : At(g, "create"))
  /\ UNCHANGED <<matches, budget, overtaken, standing>>

\* _assert_unique: one row for a posting, a resume and a source.
Unique(copy, source, but) == \A r \in Present(copy) \ {but} : copy[r].source # source
\* create_match looks for the source, not for the id; a conflict is the end of it.
Creates(h) ==
  /\ Ready(h, "create") /\ Unique(Copy(h), work[h].source, 0)
  /\ matches' = Overwritten([Copy(h) EXCEPT ![work[h].r] = Waiting(work[h].source)])
  /\ overtaken' = overtaken \cup Stale(h) \cup ({work[h].r} \cap Present(matches))
  /\ Leave(h)
  /\ UNCHANGED <<budget, raced, standing>>
CreateClashes(h) ==
  /\ Ready(h, "create") /\ ~Unique(Copy(h), work[h].source, 0)
  /\ Leave(h)
  /\ UNCHANGED <<matches, budget, history>>
\* update_pending_match; a row that is gone or decided, or a source that is taken, ends it.
CanUpdate(h) == Target(h).status = "pending" /\ Unique(Copy(h), work[h].source, work[h].r)
Updates(h) ==
  /\ Ready(h, "update") /\ CanUpdate(h)
  /\ Persist(h, [Copy(h) EXCEPT ![work[h].r].source = work[h].source])
  /\ IF work[h].extras = {} THEN Leave(h) ELSE Goto(h, "merge")
  /\ UNCHANGED <<budget, raced, standing>>
UpdateRefused(h) ==
  /\ Ready(h, "update") /\ ~CanUpdate(h)
  /\ Leave(h)
  /\ UNCHANGED <<matches, budget, history>>
\* discard_pending_match, row by row; a decided one stays, one that is gone raises.
Further(h, x) ==
  IF work[h].extras = {x} THEN Leave(h)
  ELSE work' = [work EXCEPT ![h].extras = @ \ {x}, ![h].read = FALSE, ![h].copy = NoCopy]
Discards(h, x) ==
  /\ Ready(h, "merge") /\ x \in work[h].extras /\ Copy(h)[x].status = "pending"
  /\ matches' = [Overwritten(Copy(h)) EXCEPT ![x] = NoRow]
  /\ overtaken' = overtaken \cup Stale(h)
  /\ Further(h, x)
  /\ UNCHANGED <<budget, raced, standing>>
KeepsDecided(h, x) ==
  /\ Ready(h, "merge") /\ x \in work[h].extras /\ Copy(h)[x].status = "decided"
  /\ Further(h, x)
  /\ UNCHANGED <<matches, budget, history>>
MissesExtra(h, x) ==
  /\ Ready(h, "merge") /\ x \in work[h].extras /\ Copy(h)[x].status = "none"
  /\ Leave(h)
  /\ UNCHANGED <<matches, budget, history>>

-----------------------------------------------------------------------------
\* decide on a row that waits: refused when the row is gone, was decided, or has a new etag.
Decide(h, r) ==
  /\ Event /\ Free(h) /\ matches[r].status = "pending"
  /\ Begin(h, [Idle EXCEPT !.at = "decide", !.r = r])
  /\ UNCHANGED <<matches, history>>
Decides(h) ==
  /\ Ready(h, "decide") /\ Target(h).status = "pending"
  /\ Persist(h, [Copy(h) EXCEPT ![work[h].r].status = "decided"])
  /\ standing' = standing \cup {work[h].r}
  /\ Goto(h, "audit")
  /\ UNCHANGED <<budget, raced>>
DecideRefused(h) ==
  /\ Ready(h, "decide")
  /\ Leave(h)
  /\ UNCHANGED <<matches, budget, history>>
\* reopen looks at the status first, and not again.
Reopen(h, r) ==
  /\ Event /\ Free(h) /\ matches[r].status = "decided"
  /\ Begin(h, [Idle EXCEPT !.at = "reopen", !.r = r])
  /\ UNCHANGED <<matches, history>>
Reopens(h) ==
  /\ Ready(h, "reopen") /\ Target(h).status # "none"
  /\ Persist(h, [Copy(h) EXCEPT ![work[h].r].status = "pending"])
  /\ standing' = standing \ {work[h].r}
  /\ Leave(h)
  /\ UNCHANGED <<budget, raced>>
ReopenMisses(h) ==
  /\ Ready(h, "reopen") /\ Target(h).status = "none"
  /\ Leave(h)
  /\ UNCHANGED <<matches, budget, history>>
\* A look at the list or at a match, and record_audit of that and of a decision.
View(h) ==
  /\ Event /\ Free(h)
  /\ Begin(h, [Idle EXCEPT !.at = "audit"])
  /\ UNCHANGED <<matches, history>>
Audits(h) ==
  /\ Ready(h, "audit")
  /\ Persist(h, Copy(h))
  /\ Leave(h)
  /\ UNCHANGED <<budget, raced, standing>>
\* A handler dies half-way.
Die(h) ==
  /\ ~At(h, "idle") /\ Event
  /\ Leave(h)
  /\ UNCHANGED <<matches, history>>

-----------------------------------------------------------------------------
ScoringStep(h) ==
  \/ Finds(h) \/ FindsDecided(h) \/ FindsNone(h) \/ Creates(h) \/ CreateClashes(h)
  \/ Updates(h) \/ UpdateRefused(h)
  \/ \E x \in Ids : Discards(h, x) \/ KeepsDecided(h, x) \/ MissesExtra(h, x)
UserStep(h) == Decides(h) \/ DecideRefused(h) \/ Reopens(h) \/ ReopenMisses(h) \/ Audits(h)
Work(h) == Hydrates(h) \/ ScoringStep(h) \/ UserStep(h)
Request(h) ==
  \/ View(h) \/ \E run \in Ids, source \in Sources : Score(h, run, source)
  \/ \E r \in Ids : Decide(h, r) \/ Reopen(h, r)
Next == \E h \in Handlers : Request(h) \/ Work(h) \/ Die(h)

Spec == Init /\ [][Next]_pairingVars

-----------------------------------------------------------------------------
\* A decision stands until the user reopens it, whatever is scored meanwhile, unless the row
\* was written over from a copy that was out of date, or created a second time.
DecisionStands == \A r \in standing : matches[r].status = "decided" \/ r \in overtaken

\* A pairing has one row, decided or not: the user is not asked again beside a decision (the
\* list only folds rows that wait), unless two scorings created a row at the same time or a
\* discarded row was written back.
OneRow == Cardinality(Present(matches)) <= 1 \/ raced \/ overtaken # {}
PairingHolds == DecisionStands /\ OneRow
=============================================================================
