------------------------------ MODULE MatchOps ------------------------------
(***************************************************************************)
(* An asynchronous compute or rank operation of backend/app/matching: its  *)
(* record in the memory of the process, the match-compute messages of its  *)
(* pairs, the workers that score them, and cancel.                         *)
(*                                                                         *)
(* Workers are threads of one process and nothing locks the record: reads  *)
(* and writes of its fields are steps of their own. A store call of a      *)
(* request or a scoring writes back all rows that it read, the preferences *)
(* too: Cosmos does, and the in-memory store as if nothing came between.   *)
(***************************************************************************)
EXTENDS Naturals, Sequences

CONSTANTS
  Size,        \* how many pairs the operation has
  Levels,      \* the thresholds a user may have
  MaxDeliver,  \* maxDequeueCount of the host
  MaxWorkers,  \* bound: workers at a time
  MaxEvents    \* bound: requests, second deliveries, failures and restarts

\* What the composition assumes of the constants.
MatchBounds ==
  {Size, MaxDeliver} \subseteq Nat \ {0} /\ Levels \subseteq Nat /\ {MaxWorkers, MaxEvents} \subseteq Nat

VARIABLES
  prefs,   \* user_match_prefs: the preference
  overlay, \* the threshold of Learning's parameters once personalized, 0 before: Learning's
  asking,  \* the preferences that a request has read, if any
  op,      \* _operations: the record of the operation
  sent,    \* how many pairs _enqueue has sent
  cut,     \* a send raised: the request is over and the rest is never sent
  msgs,    \* match-compute: the message of each pair
  work,    \* the workers
  budget,  \* how many events are left
  answers, \* history: cancel answered that it cancelled
  slipped, \* history: a worker was past its look at "cancelled" when cancel set it
  torn,    \* history: an increment of "processed" was lost
  twice    \* history: the message of a pair was given out while its worker had it
history == <<answers, slipped, torn, twice>>
matchVars == <<prefs, asking, op, sent, cut, msgs, work, budget, history>>

Pairs == 1 .. Size
Workers == 1 .. MaxWorkers
Idle == [at |-> "idle", pair |-> 1, n |-> 0, copy |-> 0]
Ended == {"completed", "failed"}
Unknown == [status |-> "none", cancelled |-> FALSE, processed |-> 0, results |-> [i \in Pairs |-> "none"]]

Job == [at: {"idle", "start", "score", "record", "count", "add", "close"},
        pair: Pairs, n: Nat, copy: Levels \cup {0}]

TypeInv ==
  /\ {cut, answers, slipped, torn, twice} \subseteq BOOLEAN
  /\ prefs \in Levels /\ asking \in Seq(Levels) /\ sent \in 0 .. Size /\ budget \in Nat
  /\ op \in [status: {"none", "queued", "running", "gone"} \cup Ended, cancelled: BOOLEAN,
             processed: Nat, results: [Pairs -> {"none", "ok", "error"}]]
  /\ msgs \in [Pairs -> [state: {"none", "ready", "taken", "done", "dead"}, tries: 0 .. MaxDeliver]]
  /\ work \in [Workers -> Job]

Init ==
  /\ prefs \in Levels
  /\ op = Unknown /\ asking = <<>> /\ sent = 0 /\ cut = FALSE
  /\ msgs = [i \in Pairs |-> [state |-> "none", tries |-> 0]]
  /\ work = [w \in Workers |-> Idle]
  /\ budget \in 0 .. MaxEvents
  /\ answers = FALSE /\ slipped = FALSE /\ torn = FALSE /\ twice = FALSE

-----------------------------------------------------------------------------
Event == budget > 0 /\ budget' = budget - 1
Free(w) == work[w].at = "idle" /\ \A v \in Workers : v < w => work[v].at # "idle"
At(w, where) == work[w].at = where
Goto(w, where) == work' = [work EXCEPT ![w].at = where]
Known == op.status \notin {"none", "gone"}

\* The threshold of a scoring that was not given one of its own.
ThresholdUsed(preference) == IF overlay = 0 THEN preference ELSE overlay

\* compute and rank: _options reads the preferences and writes them back, and _enqueue makes
\* the record, then a message for each pair; workers do not wait for the last.
Request ==
  /\ Event /\ op.status = "none" /\ asking = <<>>
  /\ asking' = <<prefs>>
  /\ UNCHANGED <<prefs, op, sent, cut, msgs, work, history>>
Opens ==
  /\ asking # <<>>
  /\ asking' = <<>> /\ prefs' = Head(asking)
  /\ op' = [Unknown EXCEPT !.status = "queued"]
  /\ UNCHANGED <<sent, cut, msgs, work, budget, history>>
Enqueues ==
  /\ Known /\ sent < Size /\ ~cut
  /\ sent' = sent + 1
  /\ msgs' = [msgs EXCEPT ![sent + 1] = [state |-> "ready", tries |-> 0]]
  /\ UNCHANGED <<prefs, asking, op, cut, work, budget, history>>
EnqueueFails ==
  /\ Event /\ Known /\ sent < Size /\ ~cut
  /\ cut' = TRUE
  /\ UNCHANGED <<prefs, asking, op, sent, msgs, work, history>>

\* cancel: only a queued operation of which nothing is counted.
Cancel ==
  /\ Event /\ Known
  /\ IF op.status = "queued" /\ op.processed = 0
     THEN /\ op' = [op EXCEPT !.cancelled = TRUE, !.status = "failed"]
          /\ answers' = TRUE
          /\ slipped' = (\E w \in Workers : ~At(w, "idle"))
     ELSE UNCHANGED <<op, answers, slipped>>
  /\ UNCHANGED <<prefs, asking, sent, cut, msgs, work, torn, twice>>

-----------------------------------------------------------------------------
\* process_compute: without a record, or once cancelled, the message is dropped.
Dropped == ~Known \/ op.cancelled
Take(w, i) ==
  /\ Free(w) /\ msgs[i].state = "ready"
  /\ msgs' = [msgs EXCEPT ![i] = [state |-> IF Dropped THEN "done" ELSE "taken", tries |-> @.tries + 1]]
  /\ work' = [work EXCEPT ![w] = IF Dropped THEN Idle ELSE [Idle EXCEPT !.at = "start", !.pair = i]]
  /\ UNCHANGED <<prefs, asking, op, sent, cut, budget, history>>
Starts(w) ==
  /\ At(w, "start")
  /\ op' = [op EXCEPT !.status = "running"]
  /\ Goto(w, "score")
  /\ UNCHANGED <<prefs, asking, sent, cut, msgs, budget, history>>

\* _score_pair: a store call on the way reads the preferences and writes them back.
Scores(w) ==
  /\ At(w, "score")
  /\ work' = [work EXCEPT ![w].at = "record", ![w].copy = prefs]
  /\ UNCHANGED <<prefs, asking, op, sent, cut, msgs, budget, history>>
\* Mutant: a pair that fails is not counted.
AfterError == "close"
Counting == "count"
Records(w) ==
  /\ At(w, "record")
  /\ prefs' = work[w].copy
  /\ op' = [op EXCEPT !.results[work[w].pair] = "ok"]
  /\ Goto(w, "count")
  /\ UNCHANGED <<asking, sent, cut, msgs, budget, history>>
RecordsError(w) ==
  /\ At(w, "record")
  /\ op' = [op EXCEPT !.results[work[w].pair] = "error"]
  /\ Goto(w, Counting)
  /\ UNCHANGED <<prefs, asking, sent, cut, msgs, budget, history>>

\* _finish_pair: processed += 1 reads, and then writes.
Counts(w) ==
  /\ At(w, "count")
  /\ work' = [work EXCEPT ![w].at = "add", ![w].n = op.processed]
  /\ UNCHANGED <<prefs, asking, op, sent, cut, msgs, budget, history>>
Adds(w) ==
  /\ At(w, "add")
  /\ op' = [op EXCEPT !.processed = work[w].n + 1]
  /\ torn' = (torn \/ work[w].n # op.processed)
  /\ Goto(w, "close")
  /\ UNCHANGED <<prefs, asking, sent, cut, msgs, budget, answers, slipped, twice>>
\* Mutant: the last pair but one closes the operation.
NearlyAll == op.processed + 1 >= Size
All == op.processed >= Size
Outcome ==
  IF op.cancelled \/ \A i \in Pairs : op.results[i] # "ok" THEN "failed" ELSE "completed"
Closes(w) ==
  /\ At(w, "close")
  /\ op' = IF All THEN [op EXCEPT !.status = Outcome] ELSE op
  /\ msgs' = [msgs EXCEPT ![work[w].pair].state = IF @ = "ready" THEN @ ELSE "done"]
  /\ work' = [work EXCEPT ![w] = Idle]
  /\ UNCHANGED <<prefs, asking, sent, cut, budget, history>>

-----------------------------------------------------------------------------
GiveBack(m) == [m EXCEPT !.state = IF m.tries < MaxDeliver THEN "ready" ELSE "dead"]

\* The queue gives a message out again while its worker is still at it.
Redeliver(i) ==
  /\ Event /\ msgs[i].state = "taken" /\ msgs[i].tries < MaxDeliver
  /\ msgs' = [msgs EXCEPT ![i].state = "ready"]
  /\ twice' = TRUE
  /\ UNCHANGED <<prefs, asking, op, sent, cut, work, answers, slipped, torn>>

\* The process restarts: the record is gone, the messages are not.
Restart ==
  /\ Event /\ Known
  /\ op' = [Unknown EXCEPT !.status = "gone"]
  /\ msgs' = [i \in Pairs |-> IF msgs[i].state = "taken" THEN GiveBack(msgs[i]) ELSE msgs[i]]
  /\ work' = [w \in Workers |-> Idle]
  /\ UNCHANGED <<prefs, asking, sent, cut, history>>

-----------------------------------------------------------------------------
Work ==
  \/ Opens \/ Enqueues
  \/ \E w \in Workers :
       \/ Starts(w) \/ Scores(w) \/ Records(w) \/ RecordsError(w) \/ Counts(w) \/ Adds(w) \/ Closes(w)
       \/ \E i \in Pairs : Take(w, i)
Next == Request \/ EnqueueFails \/ Cancel \/ Work \/ Restart \/ \E i \in Pairs : Redeliver(i)

Spec == Init /\ [][Next]_matchVars
\* Requests and workers go on while there is something to do.
FairSpec == Spec /\ WF_matchVars(Work)

-----------------------------------------------------------------------------
\* An operation that shows completed has scored every pair, unless a message was given out
\* twice and the pair was counted twice.
CompletedIsWhole == op.status = "completed" => twice \/ \A i \in Pairs : op.results[i] # "none"

\* The user who was told that the operation is cancelled finds it failed from then on, unless
\* a worker had already looked when cancel came.
CancelHolds == answers => op.status \in {"failed", "gone"} \/ slipped

\* An operation ends, and stays so, unless its process restarts, a message could not be sent,
\* a worker slipped past a cancel, or two workers counted at the same time.
OperationSettled == op.status \in {"none", "gone"} \cup Ended \/ cut \/ slipped \/ torn
OperationEnds == <>[]OperationSettled
=============================================================================
