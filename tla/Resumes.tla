------------------------------ MODULE Resumes ------------------------------
(***************************************************************************)
(* A user's resumes, backend/app/resumes: uploading, parsing in the        *)
(* background, editing, deleting, and choosing the resume to apply with,   *)
(* for a run or for good.                                                  *)
(*                                                                         *)
(* A store call of Cosmos reads all rows of the user and then writes a     *)
(* whole row back over whatever is there by then; the in-memory store      *)
(* behaves like that with nothing between the read and the write. What a   *)
(* resume contains is left out.                                            *)
(***************************************************************************)
EXTENDS Naturals, FiniteSets

CONSTANTS
  Resumes, Runs,
  Nobody,      \* the selection of a run that has none
  Oldest,      \* the resume that a user starts with
  MaxParses,   \* resume_max_concurrent_parses
  ParseTries,  \* the delivery whose failure is final
  MaxDeliver,  \* maxDequeueCount of the host
  MaxHandlers, \* bound: handlers at work at a time
  MaxEvents    \* bound: requests, failures and deaths

\* What the composition assumes of the constants.
ResumeBounds ==
  /\ Nobody \notin Resumes /\ Oldest \in Resumes
  /\ {MaxParses, ParseTries, MaxHandlers, MaxEvents} \subseteq Nat
  /\ MaxDeliver \in Nat \ {0} /\ ParseTries <= MaxDeliver

VARIABLES
  rows,      \* resumes
  chosen,    \* run_resume_selections: the resume of each run
  jobs,      \* resume-parse: how often each of a resume's two messages was given out
  work,      \* the handlers
  budget,    \* how many events are left
  crossed,   \* history: resumes whose row was written from a copy that was out of date
  abandoned, \* history: resumes whose request died or raised half-way
  rivals     \* history: a resume was activated while the rows were written for another
history == <<crossed, abandoned, rivals>>
resumeVars == <<rows, chosen, jobs, work, budget, history>>

Handlers == 1 .. MaxHandlers
Slots == Resumes \X {1, 2}
Status == {"none", "uploaded", "queued", "parsing", "parsed", "failed"}
InFlight == {"uploaded", "queued", "parsing"}
Row == [status: Status, deleted: BOOLEAN, active: BOOLEAN]
NoRow == [status |-> "none", deleted |-> FALSE, active |-> FALSE]
NoCopy == [r \in Resumes |-> NoRow]
Idle == [at |-> "idle", r |-> Nobody, run |-> Nobody, copy |-> NoCopy, read |-> FALSE, todo |-> {}, job |-> 0]

TypeInv ==
  /\ rows \in [Resumes -> Row]
  /\ chosen \in [Runs -> Resumes \cup {Nobody}]
  /\ jobs \in [Slots -> [state: {"none", "ready", "taken", "dead"}, tries: 0 .. MaxDeliver]]
  /\ work \in [Handlers ->
       [at: {"idle", "create", "queue", "send", "edit", "pass", "drop", "clear", "select", "spread",
             "mark", "parse", "win", "lose"},
        r: Resumes \cup {Nobody}, run: Runs \cup {Nobody}, copy: [Resumes -> Row], read: BOOLEAN,
        todo: SUBSET Resumes, job: 0 .. 2]]
  /\ budget \in Nat /\ crossed \subseteq Resumes /\ abandoned \subseteq Resumes
  /\ rivals \in BOOLEAN

\* A new user, or one whose resume waits for its parse, or is parsed and in use.
Init ==
  /\ \E status \in {"none", "queued", "parsed"} :
       /\ rows = [r \in Resumes |-> IF r = Oldest THEN [NoRow EXCEPT !.status = status, !.active = (status = "parsed")]
                                  ELSE NoRow]
       /\ jobs = [s \in Slots |-> [state |-> IF status = "queued" /\ s = <<Oldest, 1>> THEN "ready" ELSE "none",
                                  tries |-> 0]]
  /\ chosen = [u \in Runs |-> Nobody]
  /\ work = [h \in Handlers |-> Idle]
  /\ budget \in 0 .. MaxEvents /\ crossed = {} /\ abandoned = {} /\ rivals = FALSE

-----------------------------------------------------------------------------
Event == budget > 0 /\ budget' = budget - 1
Free(h) == work[h].at = "idle" /\ \A g \in Handlers : g < h => work[g].at # "idle"
At(h, where) == work[h].at = where
Begin(h, where, r) == work' = [work EXCEPT ![h] = [Idle EXCEPT !.at = where, !.r = r]]
Goto(h, where) == work' = [work EXCEPT ![h].at = where, ![h].read = FALSE, ![h].copy = NoCopy]
Leave(h) == work' = [work EXCEPT ![h] = Idle]
Live(r) == rows[r].status # "none" /\ ~rows[r].deleted
Busy == {r \in Resumes : Live(r) /\ rows[r].status \in InFlight}

\* A store call: _hydrate_user, a change in memory, _persist_resume.
Calls == {"queue", "edit", "pass", "drop", "mark", "win", "lose"}
Hydrates(h) ==
  /\ work[h].at \in Calls /\ ~work[h].read
  /\ work' = [work EXCEPT ![h].copy = rows, ![h].read = TRUE]
  /\ UNCHANGED <<rows, chosen, jobs, budget, history>>
Crosses(h, r) == crossed' = IF work[h].copy[r] = rows[r] THEN crossed ELSE crossed \cup {r}
Persist(h, row) ==
  /\ rows' = [rows EXCEPT ![work[h].r] = row]
  /\ Crosses(h, work[h].r)
Ready(h, call) == At(h, call) /\ work[h].read
Before(h) == work[h].copy[work[h].r]
RecordStatus(h, status) == Persist(h, [Before(h) EXCEPT !.status = status])

-----------------------------------------------------------------------------
\* upload: the limit is looked at first; the row, its status and its message follow.
Upload(h, r) ==
  /\ Event /\ Free(h) /\ rows[r].status = "none" /\ Cardinality(Busy) < MaxParses
  /\ \A g \in Handlers : work[g].r # r
  /\ Begin(h, "create", r)
  /\ UNCHANGED <<rows, chosen, jobs, history>>
Creates(h) ==
  /\ At(h, "create")
  /\ rows' = [rows EXCEPT ![work[h].r] = [NoRow EXCEPT !.status = "uploaded"]]
  /\ Goto(h, "queue")
  /\ UNCHANGED <<chosen, jobs, budget, history>>
\* retry_parse, whatever the status is.
Retry(h, r) ==
  /\ Event /\ Free(h) /\ Live(r)
  /\ Begin(h, "queue", r)
  /\ UNCHANGED <<rows, chosen, jobs, history>>
Queues(h) ==
  /\ Ready(h, "queue")
  /\ RecordStatus(h, "queued")
  /\ Goto(h, "send")
  /\ UNCHANGED <<chosen, jobs, budget, abandoned, rivals>>
Sends(h) ==
  /\ At(h, "send")
  /\ \E i \in {1, 2} :
       /\ jobs[<<work[h].r, i>>].state = "none" /\ (i = 2 => jobs[<<work[h].r, 1>>].state # "none")
       /\ jobs' = [jobs EXCEPT ![<<work[h].r, i>>] = [state |-> "ready", tries |-> 0]]
  /\ Leave(h)
  /\ UNCHANGED <<rows, chosen, budget, history>>

\* patch: new contents, which make a resume parsed whose parse had failed.
Patch(h, r) ==
  /\ Event /\ Free(h) /\ Live(r)
  /\ Begin(h, "edit", r)
  /\ UNCHANGED <<rows, chosen, jobs, history>>
Edits(h) ==
  /\ Ready(h, "edit")
  /\ Persist(h, Before(h))
  /\ \/ Before(h).status = "failed" /\ Goto(h, "pass")
     \/ Leave(h)
  /\ UNCHANGED <<chosen, jobs, budget, abandoned, rivals>>
Passes(h) ==
  /\ Ready(h, "pass")
  /\ RecordStatus(h, "parsed")
  /\ Leave(h)
  /\ UNCHANGED <<chosen, jobs, budget, abandoned, rivals>>

\* delete: the row, and then the selections of it.
Delete(h, r) ==
  /\ Event /\ Free(h) /\ Live(r)
  /\ Begin(h, "drop", r)
  /\ UNCHANGED <<rows, chosen, jobs, history>>
Drops(h) ==
  /\ Ready(h, "drop")
  /\ Persist(h, [Before(h) EXCEPT !.deleted = TRUE, !.active = FALSE])
  /\ Goto(h, "clear")
  /\ UNCHANGED <<chosen, jobs, budget, abandoned, rivals>>
\* Mutant: the selections stay.
Kept(h) == chosen
Cleared(h) == [u \in Runs |-> IF chosen[u] = work[h].r THEN Nobody ELSE chosen[u]]
Clears(h) ==
  /\ At(h, "clear")
  /\ chosen' = Cleared(h)
  /\ Leave(h)
  /\ UNCHANGED <<rows, jobs, budget, history>>

\* set_active: the resume that a run applies with; it is looked at before the write.
Select(h, r, u) ==
  /\ Event /\ Free(h) /\ Live(r) /\ rows[r].status = "parsed"
  /\ work' = [work EXCEPT ![h] = [Idle EXCEPT !.at = "select", !.r = r, !.run = u, !.copy = rows]]
  /\ UNCHANGED <<rows, chosen, jobs, history>>
Selects(h) ==
  /\ At(h, "select")
  /\ chosen' = [chosen EXCEPT ![work[h].run] = work[h].r]
  /\ Crosses(h, work[h].r)
  /\ Leave(h)
  /\ UNCHANGED <<rows, jobs, budget, abandoned, rivals>>

\* set_user_active: every row of the user is written, the active one and those that are not.
Activate(h, r) ==
  /\ Event /\ Free(h) /\ Live(r)
  /\ work' = [work EXCEPT ![h] = [Idle EXCEPT !.at = "spread", !.r = r, !.copy = rows,
                                              !.todo = {x \in Resumes : rows[x].status # "none"}]]
  /\ rivals' = (rivals \/ \E g \in Handlers : At(g, "spread"))
  /\ UNCHANGED <<rows, chosen, jobs, crossed, abandoned>>
Spreads(h) ==
  /\ At(h, "spread")
  /\ \E x \in work[h].todo :
       /\ rows' = [rows EXCEPT ![x] = [work[h].copy[x] EXCEPT !.active = (x = work[h].r)]]
       /\ Crosses(h, x)
       /\ IF work[h].todo = {x} THEN Leave(h) ELSE work' = [work EXCEPT ![h].todo = @ \ {x}]
  /\ UNCHANGED <<chosen, jobs, budget, abandoned, rivals>>

-----------------------------------------------------------------------------
\* process_parse_job: a deleted resume is left alone.
Job(h) == <<work[h].r, work[h].job>>
Take(h, s) ==
  /\ Free(h) /\ jobs[s].state = "ready"
  /\ IF rows[s[1]].deleted
     THEN jobs' = [jobs EXCEPT ![s] = [state |-> "none", tries |-> 0]] /\ UNCHANGED work
     ELSE /\ jobs' = [jobs EXCEPT ![s] = [state |-> "taken", tries |-> @.tries + 1]]
          /\ work' = [work EXCEPT ![h] = [Idle EXCEPT !.at = "mark", !.r = s[1], !.job = s[2]]]
  /\ UNCHANGED <<rows, chosen, budget, history>>
Marks(h) ==
  /\ Ready(h, "mark")
  /\ RecordStatus(h, "parsing")
  /\ Goto(h, "parse")
  /\ UNCHANGED <<chosen, jobs, budget, abandoned, rivals>>
Finish(h) == jobs' = [jobs EXCEPT ![Job(h)] = [state |-> "none", tries |-> 0]] /\ Leave(h)
GiveBack(h) ==
  jobs' = IF work[h].job = 0 THEN jobs
          ELSE [jobs EXCEPT ![Job(h)].state = IF jobs[Job(h)].tries < MaxDeliver THEN "ready" ELSE "dead"]
Parses(h) ==
  /\ At(h, "parse")
  /\ Goto(h, "win")
  /\ UNCHANGED <<rows, chosen, jobs, budget, history>>
\* The blob, the text or the contents are no good: the host tries again, up to a point.
\* Mutant: the host alone gives up, and the resume is never marked.
HostsLast(tries) == tries > MaxDeliver
Final(tries) == tries >= ParseTries
ParseFails(h) ==
  /\ At(h, "parse")
  /\ IF Final(jobs[Job(h)].tries) THEN Goto(h, "lose") /\ UNCHANGED jobs ELSE GiveBack(h) /\ Leave(h)
  /\ UNCHANGED <<rows, chosen, budget, history>>
Wins(h) ==
  /\ Ready(h, "win")
  /\ RecordStatus(h, "parsed")
  /\ Finish(h)
  /\ UNCHANGED <<chosen, budget, abandoned, rivals>>
Loses(h) ==
  /\ Ready(h, "lose")
  /\ RecordStatus(h, "failed")
  /\ Finish(h)
  /\ UNCHANGED <<chosen, budget, abandoned, rivals>>

\* A handler dies half-way, or the store or the queue raises.
Unfinished(h) ==
  IF work[h].job # 0 THEN jobs[Job(h)].tries = MaxDeliver ELSE work[h].at \in {"queue", "send", "clear", "spread"}
Die(h) ==
  /\ work[h].at # "idle" /\ Event
  /\ GiveBack(h) /\ Leave(h)
  /\ abandoned' = IF Unfinished(h) THEN abandoned \cup {work[h].r} ELSE abandoned
  /\ UNCHANGED <<rows, chosen, crossed, rivals>>

-----------------------------------------------------------------------------
RequestStep(h) ==
  \/ Creates(h) \/ Queues(h) \/ Sends(h) \/ Edits(h) \/ Passes(h)
  \/ Drops(h) \/ Clears(h) \/ Selects(h) \/ Spreads(h)
ParseStep(h) ==
  \/ Marks(h) \/ Parses(h) \/ ParseFails(h) \/ Wins(h) \/ Loses(h)
  \/ \E s \in Slots : Take(h, s)
Work(h) == Hydrates(h) \/ RequestStep(h) \/ ParseStep(h)
Request(h) ==
  \E r \in Resumes :
    Upload(h, r) \/ Retry(h, r) \/ Patch(h, r) \/ Delete(h, r) \/ Activate(h, r) \/ \E u \in Runs : Select(h, r, u)
Next == \E h \in Handlers : Request(h) \/ Work(h) \/ Die(h)

Spec == Init /\ [][Next]_resumeVars
\* Handlers go on, and the host hands out the messages that wait.
FairSpec == Spec /\ WF_resumeVars(\E h \in Handlers : Work(h))

-----------------------------------------------------------------------------
\* A run is never left with a deleted resume: while it has one, delete is about to clear it,
\* or died before it could, or a write of the row or the selection met a newer row.
SelectedIsLive ==
  \A u \in Runs :
    LET r == chosen[u]
    IN r # Nobody /\ ~Live(r) =>
         \/ r \in crossed \cup abandoned
         \/ \E h \in Handlers : At(h, "clear") /\ work[h].r = r

\* The user has one active resume at most, except while the rows are being written and unless
\* one of them was written over a newer one, the writing died, or two activations overlapped.
OneActive ==
  LET active == {r \in Resumes : Live(r) /\ rows[r].active}
  IN \/ Cardinality(active) <= 1
     \/ rivals \/ crossed # {} \/ abandoned # {} \/ \E h \in Handlers : At(h, "spread")
SelectionsHold == SelectedIsLive /\ OneActive

\* When the requests are over, every resume that waited for its parse got to an end and freed
\* its place under the limit, unless its request died before the message was sent, its last
\* delivery died, or a row was written over a newer one.
ParsesSettled == Busy \subseteq crossed \cup abandoned
ParseEnds == <>[]ParsesSettled
=============================================================================
