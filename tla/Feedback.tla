------------------------------ MODULE Feedback ------------------------------
(***************************************************************************)
(* Review and Learning together (backend/app/review/service.py,            *)
(* backend/app/learning/service.py): users decide on matches and reopen    *)
(* them, and each decision is fed back to Learning twice, by a message of  *)
(* the learning-decisions queue and by a direct call.                      *)
(*                                                                         *)
(* Handlers of users and workers run on threads and interleave at every    *)
(* store call.  Three deployments: "memory", "cosmos" (in-memory queues,   *)
(* which nobody consumes for Learning), and "azure".  A call of the memory *)
(* store is atomic; one of a Cosmos store reads every row first, and if    *)
(* calls overlap, others write before it writes every row back.            *)
(***************************************************************************)
EXTENDS LearningRules

CONSTANTS
  Users, Workers,  \* threads that serve HTTP requests, threads that serve messages
  Deployments,
  Overlaps,        \* {FALSE}: calls of a Cosmos store happen not to overlap
  Serials,         \* {TRUE}: a user waits for each answer before the next request
  MaxDeaths        \* bound: handlers that raise or die half-way

ASSUME ThreadsAssumption == Users \cap Workers = {}
ASSUME FeedbackBounds ==
  /\ MaxDeaths \in Nat /\ Serials \subseteq BOOLEAN /\ Overlaps \subseteq BOOLEAN
  /\ Deployments \subseteq {"memory", "cosmos", "azure"}

VARIABLES
  deployment, overlap, serial,  \* fixed when the host starts
  rev,      \* the Review store
  learn,    \* the Learning store
  th,       \* the handler each thread runs
  hydrated, \* the rows that the store call of each thread has read and not yet written
  queue,    \* learning-decisions: how many copies of each event it holds
  deaths,
  lost,     \* a handler died with a decision that is in no queue
  shown     \* history: the latest decision that each etag of a match stood for
mode == <<deployment, overlap, serial>>
vars == <<mode, rev, learn, th, hydrated, queue, deaths, lost, shown>>

Threads == Users \cup Workers
Deciding  == {"get", "replay", "expire", "decide"}
Reopening == {"rget", "rlist", "reopen"}
Ingesting == {"rec", "dup", "find", "put", "mark"}
Writing   == {"decide", "reopen", "rec", "put", "mark"}
Pcs == {"idle", "send"} \cup Deciding \cup Reopening \cup Ingesting

\* etag: of the page the user looked at; seen, fresh: what the handler has read itself.
Handler == [pc: Pcs, m: Matches \cup {None}, etag: 0 .. MaxEtag,
            choice: Choices, over: BOOLEAN, key: Keys \cup {None},
            seen: {"PENDING"} \cup Terminal, fresh: BOOLEAN, ev: Events \cup {None}]
Idle == [pc |-> "idle", m |-> None, etag |-> 0, choice |-> "approve", over |-> FALSE,
         key |-> None, seen |-> "PENDING", fresh |-> TRUE, ev |-> None]

Init ==
  /\ deployment \in Deployments /\ overlap \in Overlaps /\ serial \in Serials
  /\ rev = EmptyReviews /\ learn = NothingLearnt
  /\ th = [t \in Threads |-> Idle] /\ hydrated = [t \in Threads |-> None]
  /\ queue = [e \in Events |-> 0]
  /\ deaths = 0 /\ lost = FALSE
  /\ shown = [m \in Matches |-> [n \in 1 .. MaxEtag |-> None]]

-----------------------------------------------------------------------------
Serving(t) == th[t].pc # "idle"
At(t, pc) == th[t].pc = pc
Row(t) == rev.match[th[t].m]

\* What a store call works on; one that writes has to have read.
Ready(t) == overlap /\ deployment # "memory" => hydrated[t] # None
ReviewsOf(t) == IF hydrated[t] = None THEN rev ELSE hydrated[t]
LearntOf(t) == IF hydrated[t] = None THEN learn ELSE hydrated[t]
SaveReviews(w) == rev' = Persisted(rev, w)
SaveLearnt(w) == learn' = PersistedLearnt(learn, w)

\* What no step of a handler changes, and the history.
Remember == shown' = [m \in Matches |-> [shown[m] EXCEPT ![rev'.match[m].etag] = rev'.match[m].latest]]
Finish ==
  /\ hydrated' = [t \in Threads |-> IF th'[t] = th[t] THEN hydrated[t] ELSE None]
  /\ Remember
Calm == UNCHANGED <<mode, deaths, lost>> /\ Finish

Goto(t, pc) == th' = [th EXCEPT ![t].pc = pc]
Answer(t) == th' = [th EXCEPT ![t] = Idle]
\* A worker's message is deleted when its handler returns.
\* Mutant: so is one for a direct call.
ReturnAlways(t) ==
  /\ Answer(t)
  /\ queue' = [queue EXCEPT ![th[t].ev] = @ - 1]
Return(t) ==
  /\ Answer(t)
  /\ queue' = IF t \in Workers THEN [queue EXCEPT ![th[t].ev] = @ - 1] ELSE queue

\* The user interface disables its buttons while a request runs.
MaySend == serial => \A u \in Users : ~Serving(u)
\* Bounds: rows and etags are left for every handler that runs.
Room ==
  LET busy == Cardinality({u \in Users : Serving(u)})
  IN /\ \A m \in Matches : rev.match[m].etag + busy < MaxEtag
     /\ Cardinality({d \in Decisions : rev.dec[d].match = None}) > busy

-----------------------------------------------------------------------------
\* _hydrate: a call that overlaps with others reads all rows, and writes later.
Hydrate(t) ==
  /\ overlap /\ deployment # "memory" /\ th[t].pc \in Writing /\ hydrated[t] = None
  /\ hydrated' = [hydrated EXCEPT ![t] = IF th[t].pc \in Ingesting THEN learn ELSE rev]
  /\ UNCHANGED <<mode, rev, learn, th, queue, deaths, lost, shown>>

\* decide.  A request carries the etag of a page, however old, and a key that the client
\* may have used before.
Request(t) ==
  /\ At(t, "idle") /\ MaySend /\ Room
  /\ \E m \in Matches, choice \in Choices, over \in BOOLEAN, key \in Keys :
       \E etag \in 1 .. rev.match[m].etag :
         th' = [th EXCEPT ![t] = [Idle EXCEPT !.pc = "get", !.m = m, !.etag = etag,
                                              !.choice = choice, !.over = over, !.key = key]]
  /\ UNCHANGED <<rev, learn, queue>> /\ Calm

\* get_match: the status, and _within_overwrite_window.
GetMatch(t) ==
  /\ At(t, "get")
  /\ th' = [th EXCEPT ![t].pc = "replay", ![t].seen = Row(t).status,
                      ![t].fresh = Row(t).latest # None => ~rev.dec[Row(t).latest].old]
  /\ UNCHANGED <<rev, learn, queue>> /\ Calm

\* _idempotent_replay: a live key answers 200, or 409 when it was used for the other
\* choice; then the checks of a terminal status.
Replay(t) ==
  /\ At(t, "replay")
  /\ LET same == Keyed(rev, th[t].m, th[t].key)
         live == same # {} /\ ~rev.dec[Newest(rev, same)].old
         refused == th[t].seen \in Terminal /\ ~(th[t].over /\ th[t].fresh)
     IN IF live \/ refused THEN Answer(t)
        ELSE th' = [th EXCEPT ![t].pc = "expire", ![t].seen = "PENDING", ![t].fresh = TRUE]
  /\ UNCHANGED <<rev, learn, queue>> /\ Calm

\* _idempotency_expired: an expired key is not stored again.
Expire(t) ==
  /\ At(t, "expire")
  /\ LET same == Keyed(rev, th[t].m, th[t].key)
     IN th' = [th EXCEPT ![t].pc = "decide",
                         ![t].key = IF same # {} /\ rev.dec[Newest(rev, same)].old THEN None ELSE @]
  /\ UNCHANGED <<rev, learn, queue>> /\ Calm

Log(t, e) == th' = [th EXCEPT ![t] = [Idle EXCEPT !.pc = "send", !.m = th[t].m, !.ev = e]]
\* store.decide: 412, the row stored under the key, 409, or a new row.  The middle two
\* are for callers other than the service: what it has checked before holds under one etag.
Decide(t) ==
  /\ At(t, "decide") /\ Ready(t)
  /\ LET v == ReviewsOf(t)  m == th[t].m
     IN \/ /\ ~SameEtag(v, m, th[t].etag)
           /\ Answer(t) /\ UNCHANGED rev
        \/ /\ SameEtag(v, m, th[t].etag) /\ KnownKey(v, m, th[t].key)
           /\ \E d \in Keyed(v, m, th[t].key) : Log(t, <<d, "log">>)
           /\ UNCHANGED rev
        \/ /\ SameEtag(v, m, th[t].etag) /\ ~KnownKey(v, m, th[t].key) /\ ~CanDecide(v, m, th[t].over)
           /\ Answer(t) /\ UNCHANGED rev
        \/ /\ SameEtag(v, m, th[t].etag) /\ ~KnownKey(v, m, th[t].key) /\ CanDecide(v, m, th[t].over)
           /\ \E d \in Decisions :
                /\ rev.dec[d].match = None
                /\ SaveReviews(Decided(v, m, d, th[t].choice, th[t].key))
                /\ Log(t, <<d, "log">>)
  /\ UNCHANGED <<learn, queue>> /\ Calm

\* reopen: get_match, list_decisions, store.reopen.
RequestReopen(t) ==
  /\ At(t, "idle") /\ MaySend /\ Room
  /\ \E m \in Matches : th' = [th EXCEPT ![t] = [Idle EXCEPT !.pc = "rget", !.m = m]]
  /\ UNCHANGED <<rev, learn, queue>> /\ Calm
ReopenGet(t) ==
  /\ At(t, "rget")
  /\ IF Row(t).status = "PENDING" THEN Answer(t) ELSE Goto(t, "rlist")
  /\ UNCHANGED <<rev, learn, queue>> /\ Calm
ReopenList(t) ==
  /\ At(t, "rlist")
  /\ th' = [th EXCEPT ![t].pc = "reopen", ![t].ev = <<Newest(rev, History(rev, th[t].m)), "undo">>]
  /\ UNCHANGED <<rev, learn, queue>> /\ Calm
Reopen(t) ==
  /\ At(t, "reopen") /\ Ready(t)
  /\ SaveReviews(Reopened(ReviewsOf(t), th[t].m))
  /\ Goto(t, "send")
  /\ UNCHANGED <<learn, queue>> /\ Calm

\* _log_learning_decision: the message, whose send may be retried after it arrived,
\* and then the direct call of ingest_event.
Send(t) ==
  /\ At(t, "send") /\ Goto(t, "rec")
  /\ IF deployment = "azure"
     THEN \E n \in 1 .. 2 : queue' = [queue EXCEPT ![th[t].ev] = @ + n]
     ELSE UNCHANGED queue
  /\ UNCHANGED <<rev, learn>> /\ Calm

-----------------------------------------------------------------------------
\* The host hands a copy to a worker; it stays hidden while the worker runs.
Deliver(t) ==
  /\ At(t, "idle")
  /\ \E e \in Events :
       /\ queue[e] > Cardinality({u \in Workers : Serving(u) /\ th[u].ev = e})
       /\ th' = [th EXCEPT ![t] = [Idle EXCEPT !.pc = "rec", !.m = rev.dec[e[1]].match, !.ev = e]]
  /\ UNCHANGED <<rev, learn, queue>> /\ Calm

\* ingest_event: first the recommendation becomes pending, whatever the event is.
Recommend(t) ==
  /\ At(t, "rec") /\ Ready(t)
  /\ SaveLearnt(Recommended(LearntOf(t), th[t].m, "pending"))
  /\ Goto(t, "dup")
  /\ UNCHANGED <<rev, queue>> /\ Calm

\* get_by_idempotency
Duplicate(t) ==
  /\ At(t, "dup")
  /\ IF Knows(learn, deployment # "memory", th[t].m, th[t].ev)
     THEN Return(t)
     ELSE Goto(t, IF th[t].ev[2] = "undo" THEN "find" ELSE "put") /\ UNCHANGED queue
  /\ UNCHANGED <<rev, learn>> /\ Calm

\* get_decision_by_rec: an undo of what was never logged is dropped.
Find(t) ==
  /\ At(t, "find")
  /\ IF learn.log[th[t].m].choice = "none" THEN Return(t) ELSE Goto(t, "put") /\ UNCHANGED queue
  /\ UNCHANGED <<rev, learn>> /\ Calm

PutLog(t) ==
  /\ At(t, "put") /\ Ready(t)
  /\ LET choice == IF th[t].ev[2] = "undo" THEN "skip" ELSE rev.dec[th[t].ev[1]].choice
     IN SaveLearnt(LogPut(LearntOf(t), th[t].m, th[t].ev, choice))
  /\ Goto(t, "mark")
  /\ UNCHANGED <<rev, queue>> /\ Calm

\* Mutant: the undo leaves the recommendation decided.
MarkDecided(t) ==
  /\ At(t, "mark") /\ Ready(t)
  /\ SaveLearnt(Recommended(LearntOf(t), th[t].m, "decided"))
  /\ Return(t) /\ UNCHANGED rev /\ Calm
Mark(t) ==
  /\ At(t, "mark") /\ Ready(t)
  /\ SaveLearnt(Recommended(LearntOf(t), th[t].m, IF th[t].ev[2] = "undo" THEN "pending" ELSE "decided"))
  /\ Return(t) /\ UNCHANGED rev /\ Calm

-----------------------------------------------------------------------------
\* A handler raises or its host dies.  A worker's message becomes visible again; what
\* the direct call raises is swallowed.
Die(t) ==
  /\ Serving(t) /\ deaths < MaxDeaths
  /\ deaths' = deaths + 1
  /\ Answer(t)
  /\ lost' = (lost \/ (t \in Users /\ (At(t, "send") \/ (th[t].pc \in Ingesting /\ deployment # "azure"))))
  /\ UNCHANGED <<mode, rev, learn, queue>> /\ Finish

\* review_overwrite_hours pass for the decisions up to d.
Age(d) ==
  /\ rev.dec[d].match # None /\ ~rev.dec[d].old
  /\ \A e \in History(rev, rev.dec[d].match) : rev.dec[e].version < rev.dec[d].version => rev.dec[e].old
  /\ rev' = [rev EXCEPT !.dec[d].old = TRUE]
  /\ UNCHANGED <<learn, th, queue>> /\ Calm

\* Matching scores the pair again (upsert_scored_match of an existing row).
Rescore(m) ==
  /\ CanRescore(rev, m) /\ Room
  /\ rev' = Rescored(rev, m)
  /\ UNCHANGED <<learn, th, queue>> /\ Calm

ReviewStep(t) ==
  \/ GetMatch(t) \/ Replay(t) \/ Expire(t) \/ Decide(t)
  \/ ReopenGet(t) \/ ReopenList(t) \/ Reopen(t) \/ Send(t)
LearningStep(t) == Recommend(t) \/ Duplicate(t) \/ Find(t) \/ PutLog(t) \/ Mark(t)
Arrival(t) == Request(t) \/ RequestReopen(t)

Next ==
  \/ \E t \in Users : Arrival(t)
  \/ \E t \in Workers : Deliver(t)
  \/ \E t \in Threads : Hydrate(t) \/ ReviewStep(t) \/ LearningStep(t) \/ Die(t)
  \/ \E d \in Decisions : Age(d)
  \/ \E m \in Matches : Rescore(m)
Spec == Init /\ [][Next]_vars

\* Handlers that run go on, and the host polls the queue.
Progress(t) == Hydrate(t) \/ ReviewStep(t) \/ LearningStep(t)
FairSpec == Spec /\ (\A t \in Threads : WF_vars(Progress(t))) /\ (\A t \in Workers : WF_vars(Deliver(t)))

-----------------------------------------------------------------------------
TypeOK ==
  /\ deployment \in Deployments /\ overlap \in Overlaps /\ serial \in Serials
  /\ rev \in Reviews /\ learn \in Learnt
  /\ th \in [Threads -> Handler]
  /\ \A t \in Threads : hydrated[t] \in {None} \cup Reviews \cup Learnt
  /\ queue \in [Events -> Nat]
  /\ deaths \in 0 .. MaxDeaths /\ lost \in BOOLEAN
  /\ shown \in [Matches -> [1 .. MaxEtag -> Decisions \cup {None}]]
\* What a handler carries fits the point it is at.
HandlerFits(t) ==
  /\ th[t].pc # "idle" => th[t].m \in Matches
  /\ th[t].pc \in {"reopen", "send"} \cup Ingesting =>
       th[t].ev \in Events /\ rev.dec[th[t].ev[1]].match = th[t].m
  /\ th[t].pc = "rlist" => History(rev, th[t].m) # {}
TypeInv ==
  /\ TypeOK
  /\ \A t \in Threads : HandlerFits(t)
  /\ \A e \in Events : queue[e] > 0 => rev.dec[e[1]].match \in Matches

\* "latest_decision_id must correspond to status", whatever decides, reopens and
\* rescores interleave: the pointer names the newest decision of the match, and
\* the status is the one of that decision; a match that awaits one has no pointer.
LatestFits ==
  \A m \in Matches : LET row == rev.match[m] IN
    IF row.status = "PENDING" THEN row.latest = None
    ELSE /\ row.latest \in History(rev, m)
         /\ \A d \in History(rev, m) : rev.dec[d].version <= rev.dec[row.latest].version
         /\ row.status = StatusFor(rev.dec[row.latest].choice)

\* The decisions of a match are numbered 1, 2, 3, ... without a gap, and one that
\* supersedes another is the very next one: the trail is a line that only a reopen cuts.
TrailIsALine ==
  \A m \in Matches :
    /\ {rev.dec[d].version : d \in History(rev, m)} = 1 .. Cardinality(History(rev, m))
    /\ \A d \in History(rev, m) : rev.dec[d].supersedes # None =>
         /\ rev.dec[d].supersedes \in History(rev, m)
         /\ rev.dec[rev.dec[d].supersedes].version = rev.dec[d].version - 1

\* The decision trail of a match fits its row, and has no gap.
TrailFits == LatestFits /\ TrailIsALine

\* "Conditional update with If-Match prevents lost updates": a decision that goes
\* through replaces exactly the decision its user looked at, or none if that user
\* saw none, however long ago the page was loaded; and that one is still the current
\* one when the row is written.
ReplacesWhatWasSeen ==
  [][\A t \in Users, d \in Decisions :
       (th[t].pc = "decide" /\ th'[t].pc = "send" /\ rev.dec[d].match = None /\ rev'.dec[d].match # None)
         => /\ rev'.dec[d].supersedes = shown[th[t].m][th[t].etag]
            /\ rev'.dec[d].supersedes = rev.match[th[t].m].latest]_vars

\* What Learning holds is backed by Review: an approval or a rejection is that of a
\* committed decision on the match, and a skip stands for one that was taken back and
\* is not current any more.
LearntFromReview ==
  \A m \in Matches : LET row == learn.log[m] IN
    row.choice # "none" =>
      /\ row.key[1] \in History(rev, m)
      /\ IF row.key[2] = "undo" THEN row.choice = "skip" /\ rev.match[m].latest # row.key[1]
         ELSE row.choice = rev.dec[row.key[1]].choice

\* Nobody works on anything, and the queue is empty.
Quiet == (\A t \in Threads : ~Serving(t)) /\ (\A e \in Events : queue[e] = 0)
\* Learning has the current decision of the match, or knows that it was taken back.
Agrees(m) ==
  LET row == rev.match[m]
  IN IF row.status \in Terminal
     THEN learn.log[m].choice = rev.dec[row.latest].choice /\ learn.rec[m] = "decided"
     ELSE learn.log[m].choice \in {"none", "skip"} /\ learn.rec[m] \in {"none", "pending"}

\* A user who waits for each answer, and a host where the direct call is the only one:
\* after any sequence of decisions, overwrites, repeats and reopens Learning agrees with Review.
FeedbackAgrees ==
  serial /\ deployment # "azure" /\ ~lost /\ Quiet => \A m \in Matches : Agrees(m)

\* "queue processing at-least-once with idempotent consumers": the same with the queue.
FeedbackConverges == serial /\ ~lost /\ Quiet => \A m \in Matches : Agrees(m)

\* Every decision reaches Learning, although direct calls fail and workers die.
FeedbackArrives ==
  \A d \in Decisions : (rev.dec[d].match # None) ~> (<<d, "log">> \in learn.known \/ lost)
=============================================================================
