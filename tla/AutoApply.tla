------------------------------ MODULE AutoApply ------------------------------
(***************************************************************************)
(* The Auto-Apply service: the HTTP handlers and the queue worker of       *)
(* backend/app/auto_apply/service.py over the store's rules, the request   *)
(* queue and the vendor.                                                   *)
(*                                                                         *)
(* A thread runs one handler at a time.  A handler is cut at every call    *)
(* that leaves the process: each store call, the vendor POST, each         *)
(* enqueue.  There are three deployments:                                  *)
(*   memory  in-memory store and in-memory queue: the thread that created  *)
(*           a request processes it before it answers;                     *)
(*   cosmos  the same queue over CosmosAutoApplyStore;                     *)
(*   azure   CosmosAutoApplyStore and an Azure storage queue, which        *)
(*           delivers at least once and in any order.                      *)
(* Isolated says that the store honours its contract: each call is atomic. *)
(* When it is FALSE a writing call is the two steps of the Cosmos store,   *)
(* _hydrate and _persist_working, and the calls of different threads       *)
(* overlap.                                                                *)
(***************************************************************************)
EXTENDS AutoApplyStore

CONSTANTS
  Threads, Messages,
  Deployments, Isolated,
  PoisonLimit,      \* auto_apply_poison_dequeue
  MaxDequeue,       \* maxDequeueCount of the Functions host (default 5)
  AmbiguousErrors,  \* the vendor may have accepted what it answers with a 5xx
  MaxRequestDeaths, \* bound: HTTP handlers that raise or die half-way
  MaxWorkerDeaths   \* bound: queue deliveries that raise or die half-way

ASSUME DeploymentAssumption ==
  /\ Isolated \in BOOLEAN /\ AmbiguousErrors \in BOOLEAN
  /\ Deployments \subseteq {"memory", "cosmos", "azure"}
  /\ "memory" \in Deployments => Isolated
ASSUME LimitsAssumption ==
  /\ PoisonLimit \in Nat \ {0} /\ MaxDequeue \in Nat \ {0}
  /\ PoisonLimit <= MaxCount /\ MaxDequeue <= MaxCount
  /\ MaxRequestDeaths \in Nat /\ MaxWorkerDeaths \in Nat
ASSUME NoneIsNoMessage == None \notin Messages

VARIABLES
  deployment, \* default_queue, get_auto_apply_store: fixed when the host starts
  th,      \* the handler each thread runs
  snap,    \* the working copy of a thread's store call, when ~Isolated
  queue,   \* the Azure queue
  apps,    \* applications the vendor holds for each attempt
  told,    \* attempts whose user was answered 202 "cancelled"
  deaths   \* handlers that died so far

vars == <<deployment, db, form, th, snap, queue, apps, told, deaths>>

Azure  == deployment = "azure"
Cosmos == deployment # "memory"

Reading == {"read", "reread"}
Calls == {"create", "artifacts", "package", "approve", "queue", "cancel", "manual", "hook",
          "requeue", "putpkg", "lockpkg", "review", "start", "mksub", "complete",
          "limit", "submitted", "succeeded"}
Others == {"idle", "mark", "enqueue", "post", "resend", "ack"}
Idle == [pc |-> "idle", a |-> None, count |-> 0, msg |-> None, sid |-> None, out |-> "none", app |-> 0]
NoMsg == [a |-> None, count |-> 0, held |-> FALSE]
NoSnap == [held |-> FALSE, v |-> EmptyDb]
Snapshot == [held: BOOLEAN, v: Database]

Pcs == Reading \cup Calls \cup Others
Handler == [pc: Pcs, a: Attempts \cup {None}, count: 0 .. MaxCount,
            msg: Messages \cup {None}, sid: Submits \cup {None},
            out: {"none", "retry", "failed", "succeeded"}, app: 0 .. MaxApps]
Message == [a: Attempts \cup {None}, count: 0 .. MaxCount, held: BOOLEAN]

Init ==
  /\ deployment \in Deployments
  /\ db = EmptyDb
  /\ form = [a \in Attempts |-> NoForm]
  /\ th = [t \in Threads |-> Idle]
  /\ snap = [t \in Threads |-> NoSnap]
  /\ queue = [m \in Messages |-> NoMsg]
  /\ apps = [a \in Attempts |-> 0]
  /\ told = {}
  /\ deaths = [request |-> 0, worker |-> 0]

-----------------------------------------------------------------------------
\* Store calls.  At(t, c): thread t is at call c and, in the Cosmos store, has
\* hydrated its working copy.  View: what the rules of the call see.
At(t, c) == th[t].pc = c /\ (Isolated \/ snap[t].held)
View(t) == IF Isolated THEN db ELSE snap[t].v

Hydrate(t) ==
  /\ ~Isolated /\ th[t].pc \in Calls /\ ~snap[t].held
  /\ snap' = [snap EXCEPT ![t] = [held |-> TRUE, v |-> db]]
  /\ UNCHANGED <<db, form, th, queue, apps, told, deaths>>

\* The call ends, writing v back, or writing nothing.
Commit(t, v) == db' = (IF Isolated THEN v ELSE Overlay(db, v)) /\ snap' = [snap EXCEPT ![t] = NoSnap]
NoCommit(t) == UNCHANGED db /\ snap' = [snap EXCEPT ![t] = NoSnap]

Goto(t, c) == th' = [th EXCEPT ![t].pc = c] /\ UNCHANGED queue

\* The handler returns; the host still has to delete the message it was given.
Done(t) ==
  /\ th' = [th EXCEPT ![t] = IF @.msg = None THEN Idle ELSE [@ EXCEPT !.pc = "ack"]]
  /\ UNCHANGED queue

\* The handler raises: its message becomes visible again, or goes to the
\* host's poison queue after MaxDequeue deliveries.
\* Mutant: the message is deleted.
RaiseAndDrop(t) ==
  /\ th' = [th EXCEPT ![t] = Idle]
  /\ queue' = [m \in Messages |-> IF m # th[t].msg THEN queue[m] ELSE NoMsg]
Raise(t) ==
  /\ th' = [th EXCEPT ![t] = Idle]
  /\ queue' = [m \in Messages |->
                 IF m # th[t].msg THEN queue[m]
                 ELSE IF th[t].count >= MaxDequeue THEN NoMsg
                 ELSE [queue[m] EXCEPT !.held = FALSE]]

\* A store call that writes v and goes on at c when ok, and raises otherwise.
Call(t, ok, v, c) ==
  /\ \/ ok /\ Commit(t, v) /\ Goto(t, c)
     \/ ~ok /\ NoCommit(t) /\ Raise(t)
  /\ UNCHANGED <<form, apps, told, deaths>>

\* A store call whose return ends the handler.
LastCall(t, ok, v) ==
  /\ \/ ok /\ Commit(t, v) /\ Done(t)
     \/ ~ok /\ NoCommit(t) /\ Raise(t)
  /\ UNCHANGED <<form, apps, told, deaths>>

\* Send one message, or two when AzureJobQueue.enqueue retries a send that had
\* reached the queue.
Sent(a, q) ==
  \E m1, m2 \in Messages :
    /\ q[m1] = NoMsg /\ q[m2] = NoMsg
    /\ queue' = [m \in Messages |->
                   IF m \in {m1, m2} THEN [a |-> a, count |-> 0, held |-> FALSE] ELSE q[m]]

-----------------------------------------------------------------------------
\* create_request
Unborn == {a \in Attempts : db.att[a].status = "none"}
CreateRequest(t) ==
  /\ th[t].pc = "idle" /\ Goto(t, "create")
  /\ Cardinality(Unborn) > Cardinality({u \in Threads : th[u].pc = "create"})   \* bound
  /\ UNCHANGED <<db, form, snap, apps, told, deaths>>

CreateAttempt(t) ==
  /\ At(t, "create")
  /\ \E a \in Unborn, f \in Bodies :        \* a fresh uuid
       /\ \/ /\ CanCreate(View(t), form, f.target)
             /\ Commit(t, Created(View(t), a))
             /\ form' = [form EXCEPT ![a] = f]
             /\ th' = [th EXCEPT ![t].pc = "artifacts", ![t].a = a]
             /\ UNCHANGED queue
          \/ /\ ~CanCreate(View(t), form, f.target)   \* 409
             /\ NoCommit(t) /\ Raise(t) /\ UNCHANGED form
  /\ UNCHANGED <<apps, told, deaths>>

\* Resume variant, cover letter and autofill values: rows of other tables.
PutArtifacts(t) == At(t, "artifacts") /\ Call(t, TRUE, View(t), "package")
\* Mutant: the approval is skipped.
PutPackageUnapproved(t) ==
  At(t, "package") /\ Call(t, CanPutPackage(View(t), th[t].a), PackagePut(View(t), th[t].a, "request"), "queue")
PutPackage(t) ==
  At(t, "package") /\ Call(t, CanPutPackage(View(t), th[t].a), PackagePut(View(t), th[t].a, "request"), "approve")
Approve(t) ==
  At(t, "approve") /\ Call(t, CanApprove(View(t), th[t].a), Approved(View(t), th[t].a), "queue")
Queue(t) ==
  /\ At(t, "queue")
  /\ LET a == th[t].a
         v == View(t)
     IN \/ CanQueue(v, form, a) /\ Commit(t, Queued(v, a)) /\ Goto(t, "enqueue")
        \/ /\ ~CanQueue(v, form, a) /\ Raise(t)
           /\ IF Cosmos THEN NoCommit(t) ELSE Commit(t, QueueRefused(v, form, a))
  /\ UNCHANGED <<form, apps, told, deaths>>

Enqueue(t) ==
  /\ th[t].pc = "enqueue"
  /\ IF Azure THEN Sent(th[t].a, queue) /\ th' = [th EXCEPT ![t] = Idle]
     ELSE th' = [th EXCEPT ![t].pc = "read", ![t].count = 1] /\ UNCHANGED queue
  /\ UNCHANGED <<db, form, snap, apps, told, deaths>>

\* cancel: the status is checked on one read, the transition is another call.
CancelRead(t) ==
  /\ th[t].pc = "idle"
  /\ \E a \in Attempts :
       /\ db.att[a].status \in {"draft", "queued"}
       /\ th' = [th EXCEPT ![t].pc = "cancel", ![t].a = a]
  /\ UNCHANGED <<db, form, snap, queue, apps, told, deaths>>

\* With the Cosmos store the next statement, self.store._attempts[...], raises.
CancelMove(t) ==
  /\ At(t, "cancel")
  /\ LET ok == CanMove(View(t), th[t].a, "failed")
         v  == Moved(View(t), th[t].a, "failed")
     IN IF Cosmos THEN LastCall(t, ok, v) ELSE Call(t, ok, v, "mark")

CancelMark(t) ==
  /\ th[t].pc = "mark"
  /\ db' = CancelNoted(db, th[t].a)
  /\ told' = told \cup {th[t].a}
  /\ Done(t)
  /\ UNCHANGED <<form, snap, apps, deaths>>

\* mark_manual_submitted: again a read, then the transition.
ManualRead(t) ==
  /\ th[t].pc = "idle"
  /\ \E a \in Attempts :
       /\ db.att[a].status = "needs_review"
       /\ th' = [th EXCEPT ![t].pc = "manual", ![t].a = a]
  /\ UNCHANGED <<db, form, snap, queue, apps, told, deaths>>

ManualMove(t) ==
  At(t, "manual") /\ LastCall(t, CanMove(View(t), th[t].a, "submitted"), Moved(View(t), th[t].a, "submitted"))

\* ingest_webhook, for an application the vendor holds, as often as it likes.
WebhookArrives(t) ==
  /\ th[t].pc = "idle"
  /\ \E a \in Attempts, n \in 1 .. MaxApps :
       n <= apps[a] /\ th' = [th EXCEPT ![t].pc = "hook", ![t].a = a, ![t].app = n]
  /\ UNCHANGED <<db, form, snap, queue, apps, told, deaths>>

IngestWebhook(t) ==
  At(t, "hook") /\ LastCall(t, TRUE, HookIngested(View(t), <<th[t].a, th[t].app>>))

-----------------------------------------------------------------------------
\* auto_apply_process_queued and process_request
Deliver(t) ==
  /\ Azure /\ th[t].pc = "idle"
  /\ \E m \in Messages :
       /\ queue[m] # NoMsg /\ ~queue[m].held
       /\ LET n == queue[m].count + 1 IN
            \/ /\ n > PoisonLimit                     \* poisoned: nothing is done
               /\ queue' = [queue EXCEPT ![m] = NoMsg]
               /\ UNCHANGED th
            \/ /\ n <= PoisonLimit
               /\ queue' = [queue EXCEPT ![m].count = n, ![m].held = TRUE]
               /\ th' = [th EXCEPT ![t] = [Idle EXCEPT !.pc = "read", !.a = queue[m].a,
                                                       !.count = n, !.msg = m]]
  /\ UNCHANGED <<db, form, snap, apps, told, deaths>>

\* The host deletes the message of a handler that returned.
Ack(t) ==
  /\ th[t].pc = "ack"
  /\ th' = [th EXCEPT ![t] = Idle]
  /\ queue' = [queue EXCEPT ![th[t].msg] = NoMsg]
  /\ UNCHANGED <<db, form, snap, apps, told, deaths>>

\* get_attempt, and the dispatch on its status.
Read(t) ==
  /\ th[t].pc \in Reading
  /\ LET a == th[t].a
         s == db.att[a].status
     IN \/ s = "rate_limited" /\ th[t].pc = "read" /\ Goto(t, "requeue")
        \/ s = "queued" /\ form[a].manual /\ Goto(t, "putpkg")
        \/ s = "queued" /\ ~form[a].manual /\ Goto(t, "start")
        \/ s # "queued" /\ (s = "rate_limited" => th[t].pc = "reread") /\ Done(t)
  /\ UNCHANGED <<db, form, snap, apps, told, deaths>>

\* rate_limited -> queued; whatever it raises, process_request returns.
Requeue(t) ==
  /\ At(t, "requeue")
  /\ \/ /\ CanMove(View(t), th[t].a, "queued")
        /\ Commit(t, Moved(View(t), th[t].a, "queued")) /\ Goto(t, "reread")
     \/ /\ ~CanMove(View(t), th[t].a, "queued")
        /\ NoCommit(t) /\ Done(t)
  /\ UNCHANGED <<form, apps, told, deaths>>

\* _package_manual
WorkerPackage(t) ==
  /\ At(t, "putpkg")
  /\ \/ CanPutPackage(View(t), th[t].a) /\ Commit(t, PackagePut(View(t), th[t].a, "worker"))
     \/ ~CanPutPackage(View(t), th[t].a) /\ NoCommit(t)   \* the Conflict is ignored
  /\ Goto(t, "lockpkg")
  /\ UNCHANGED <<form, apps, told, deaths>>

LockPackage(t) ==
  At(t, "lockpkg") /\ Call(t, CanLock(View(t), th[t].a), Locked(View(t), th[t].a), "review")
NeedsReview(t) ==
  At(t, "review") /\ LastCall(t, CanMove(View(t), th[t].a, "needs_review"), Moved(View(t), th[t].a, "needs_review"))

\* _submit_programmatic
\* Mutant: the status read earlier is trusted.
StartUnchecked(t) == At(t, "start") /\ Call(t, TRUE, Moved(View(t), th[t].a, "submitting"), "mksub")
Start(t) ==
  At(t, "start") /\ Call(t, CanMove(View(t), th[t].a, "submitting"), Moved(View(t), th[t].a, "submitting"), "mksub")

\* Mutant: the row is only written with the answer.
CreateSubmitLate(t) ==
  /\ At(t, "mksub") /\ NoCommit(t)
  /\ \E s \in Submits : db.sub[s].status = "none" /\ th' = [th EXCEPT ![t].pc = "post", ![t].sid = s]
  /\ UNCHANGED <<form, queue, apps, told, deaths>>
\* The key is new to the copy, and to the container.
CreateSubmit(t) ==
  /\ At(t, "mksub")
  /\ \/ /\ CanSubmit(View(t), th[t].a, th[t].count) /\ CanSubmit(db, th[t].a, th[t].count)
        /\ \E s \in Submits :
             /\ db.sub[s].status = "none"        \* a fresh uuid
             /\ Commit(t, Submitted(View(t), s, th[t].a, th[t].count))
             /\ th' = [th EXCEPT ![t].pc = "post", ![t].sid = s]
        /\ UNCHANGED queue
     \/ /\ CanSubmit(View(t), th[t].a, th[t].count) /\ ~CanSubmit(db, th[t].a, th[t].count)
        /\ Commit(t, Interrupted(View(t))) /\ Raise(t)
     \/ ~CanSubmit(View(t), th[t].a, th[t].count) /\ NoCommit(t) /\ Raise(t)
  /\ UNCHANGED <<form, apps, told, deaths>>

\* submit_to_vendor: the vendor accepts a new application, recognises one it
\* holds, or refuses; its answer may get lost, and then the poster raises.
Answered(t, out, n) ==
  /\ th' = [th EXCEPT ![t].pc = "complete", ![t].out = out, ![t].app = n]
  /\ UNCHANGED queue
Accepted(a, n) ==
  /\ n \in 1 .. MaxApps /\ n <= apps[a] + 1
  /\ apps' = [apps EXCEPT ![a] = IF n > @ THEN n ELSE @]

\* Mutant: a refusal gets the default application id as well.
PostAssumesId(t) ==
  /\ th[t].pc = "post"
  /\ \E out \in {"retry", "failed"} : UNCHANGED apps /\ Answered(t, out, 1)
  /\ UNCHANGED <<db, form, snap, told, deaths>>
Post(t) ==
  /\ th[t].pc = "post"
  /\ \/ \E n \in 1 .. MaxApps : Accepted(th[t].a, n) /\ Answered(t, "succeeded", n)
     \/ \E out \in {"retry", "failed"} : UNCHANGED apps /\ Answered(t, out, 0)
     \/ AmbiguousErrors /\ Accepted(th[t].a, apps[th[t].a] + 1) /\ Answered(t, "retry", 0)
     \/ Accepted(th[t].a, apps[th[t].a] + 1) /\ Raise(t)
     \/ UNCHANGED apps /\ Raise(t)
  /\ UNCHANGED <<db, form, snap, told, deaths>>

SubmitStatus(out) == IF out = "retry" THEN "retrying" ELSE out

Complete(t) ==
  /\ At(t, "complete")
  /\ LET ok == CanComplete(View(t), th[t].sid, th[t].app)
         v  == Completed(View(t), th[t].sid, SubmitStatus(th[t].out), th[t].app)
     IN CASE th[t].out = "retry"     -> Call(t, ok, v, "limit")
          [] th[t].out = "succeeded" -> Call(t, ok, v, "submitted")
          [] OTHER                   -> LastCall(t, ok, v)

\* Mutants: the bound is not looked at, or reached one retry early.
RateLimitForever(t) ==
  At(t, "limit") /\ Call(t, CanMove(View(t), th[t].a, "rate_limited"), Moved(View(t), th[t].a, "rate_limited"), "resend")
RateLimitEarly(t) ==
  /\ At(t, "limit")
  /\ LET ok == CanMove(View(t), th[t].a, "rate_limited")
         v  == Moved(View(t), th[t].a, "rate_limited")
     IN IF th[t].count + 1 < PoisonLimit THEN Call(t, ok, v, "resend") ELSE LastCall(t, ok, v)
RateLimit(t) ==
  /\ At(t, "limit")
  /\ LET ok == CanMove(View(t), th[t].a, "rate_limited")
         v  == Moved(View(t), th[t].a, "rate_limited")
     IN IF th[t].count < PoisonLimit THEN Call(t, ok, v, "resend") ELSE LastCall(t, ok, v)

\* A new message is sent, its dequeue count starts again; the in-memory queue
\* processes it at once with the next count.
Resend(t) ==
  /\ th[t].pc = "resend"
  /\ IF Azure
       THEN Sent(th[t].a, queue) /\ th' = [th EXCEPT ![t].pc = "ack"]
       ELSE /\ th' = [th EXCEPT ![t] = [Idle EXCEPT !.pc = "read", !.a = th[t].a,
                                                    !.count = th[t].count + 1]]
            /\ UNCHANGED queue
  /\ UNCHANGED <<db, form, snap, apps, told, deaths>>

MarkSubmitted(t) ==
  At(t, "submitted") /\ Call(t, CanMove(View(t), th[t].a, "submitted"), Moved(View(t), th[t].a, "submitted"), "succeeded")
MarkSucceeded(t) ==
  At(t, "succeeded") /\ LastCall(t, CanMove(View(t), th[t].a, "succeeded"), Moved(View(t), th[t].a, "succeeded"))

\* A handler dies at any point: the host restarts, or a store, blob or queue
\* call fails for good.  A store call of a dead handler has no effect.
Die(t) ==
  /\ th[t].pc # "idle"
  /\ IF th[t].msg = None
       THEN deaths.request < MaxRequestDeaths /\ deaths' = [deaths EXCEPT !.request = @ + 1]
       ELSE deaths.worker < MaxWorkerDeaths /\ deaths' = [deaths EXCEPT !.worker = @ + 1]
  /\ NoCommit(t) /\ Raise(t)
  /\ UNCHANGED <<form, apps, told>>

-----------------------------------------------------------------------------
RequestStep(t) == \/ CreateAttempt(t) \/ PutArtifacts(t) \/ PutPackage(t) \/ Approve(t) \/ Queue(t)
                  \/ Enqueue(t) \/ CancelMove(t) \/ CancelMark(t) \/ ManualMove(t) \/ IngestWebhook(t)
WorkStep(t) == \/ Ack(t) \/ Read(t) \/ Requeue(t) \/ WorkerPackage(t) \/ LockPackage(t) \/ NeedsReview(t)
               \/ Start(t) \/ CreateSubmit(t) \/ Post(t) \/ Complete(t) \/ RateLimit(t) \/ Resend(t)
               \/ MarkSubmitted(t) \/ MarkSucceeded(t)
Arrival(t) == CreateRequest(t) \/ CancelRead(t) \/ ManualRead(t) \/ WebhookArrives(t)
Next ==
  /\ UNCHANGED deployment
  /\ \E t \in Threads : Hydrate(t) \/ RequestStep(t) \/ WorkStep(t) \/ Arrival(t) \/ Deliver(t) \/ Die(t)

Spec == Init /\ [][Next]_vars

\* A handler that runs takes its next step; the host delivers what is visible.
Progress(t) == UNCHANGED deployment /\ (Hydrate(t) \/ RequestStep(t) \/ WorkStep(t))
Delivery(t) == UNCHANGED deployment /\ Deliver(t)
Fairness == \A t \in Threads : WF_vars(Progress(t)) /\ SF_vars(Delivery(t))
FairSpec == Spec /\ Fairness

-----------------------------------------------------------------------------
TypeOK ==
  /\ deployment \in Deployments
  /\ db \in Database
  /\ form \in [Attempts -> Form]
  /\ th \in [Threads -> Handler]
  /\ snap \in [Threads -> Snapshot]
  /\ queue \in [Messages -> Message]
  /\ apps \in [Attempts -> 0 .. MaxApps]
  /\ told \subseteq Attempts
  /\ deaths \in [request: 0 .. MaxRequestDeaths, worker: 0 .. MaxWorkerDeaths]

\* What a handler carries fits the point it is at; `form' and `a' are those of
\* an attempt that exists, and a submit row belongs to the handler's attempt.
HasAttempt == Pcs \ {"idle", "create", "hook", "ack"}
HandlerFits(t) ==
  /\ th[t].pc \in HasAttempt => th[t].a \in Attempts /\ db.att[th[t].a].status # "none"
  /\ th[t].pc = "hook" => th[t].a \in Attempts /\ th[t].app # 0
  /\ th[t].pc = "resend" => th[t].count < PoisonLimit
  /\ th[t].pc = "complete" => th[t].out # "none"
  /\ th[t].pc \in {"post", "complete"} =>
       /\ th[t].sid \in Submits
       /\ db.sub[th[t].sid].status # "none" /\ db.sub[th[t].sid].owner = th[t].a
       /\ snap[t].held => snap[t].v.sub[th[t].sid].status # "none"
HandlersFit == \A t \in Threads : HandlerFits(t)
QueueFits == \A m \in Messages : queue[m] # NoMsg => queue[m].a \in Attempts /\ db.att[queue[m].a].status # "none"

\* A working copy only has rows the store has, under the same owner.
SnapshotsFit ==
  \A t \in Threads :
    /\ \A a \in Attempts : snap[t].v.att[a].status # "none" => db.att[a].status # "none"
    /\ \A s \in Submits : snap[t].v.sub[s].status # "none" =>
                             db.sub[s].status # "none" /\ db.sub[s].owner = snap[t].v.sub[s].owner
TypeInv == TypeOK /\ HandlersFit /\ QueueFits /\ SnapshotsFit

\* "no duplicate external submissions for same request": the vendor never holds
\* two applications for one attempt, whatever is redelivered or retried.
OneApplication == \A a \in Attempts : apps[a] <= 1

\* At most one handler is between "submitting" and the end of the submission of
\* an attempt, so two deliveries never submit side by side.
SubmitPhase == {"mksub", "post", "complete", "limit", "submitted", "succeeded"}
OneSubmitter ==
  \A t, u \in Threads :
    (t # u /\ {th[t].pc, th[u].pc} \subseteq SubmitPhase) => th[t].a # th[u].a

\* The inductive invariant behind OneApplication.  A manual attempt never enters
\* the submission; an attempt the vendor holds has left the queue for good; a
\* handler that may still post, or was refused, belongs to an attempt with none.
Packaging == {"putpkg", "lockpkg", "review", "manual"}
SubmittedAttempt(a) ==
  /\ db.att[a].status = "needs_review" => form[a].manual
  /\ apps[a] > 0 => /\ ~form[a].manual
                    /\ db.att[a].status \in {"submitting", "submitted", "succeeded", "failed"}
SubmittingHandler(t) == LET a == th[t].a IN
  /\ th[t].pc \in Packaging => form[a].manual
  /\ th[t].pc \in SubmitPhase \cup {"start"} => ~form[a].manual
  /\ th[t].pc \in SubmitPhase \ {"succeeded"} => db.att[a].status \in {"submitting", "failed"}
  /\ th[t].pc = "succeeded" => db.att[a].status \in {"submitted", "failed"}
  /\ th[t].pc \in {"mksub", "post", "limit"} => apps[a] = 0
  /\ th[t].pc = "complete" /\ th[t].out # "succeeded" => apps[a] = 0
SubmissionInv ==
  /\ OneSubmitter /\ OneApplication
  /\ \A a \in Attempts : SubmittedAttempt(a)
  /\ \A t \in Threads : SubmittingHandler(t)

\* Approval gate and package lock: an attempt that is in the queue or got beyond it
\* was approved, and the package it is submitted with is locked.  ("failed" is left
\* out: complete_submit sets it without passing the gate.)
Frozen == Statuses \ {"draft", "failed"}
Gated == \A a \in Attempts : db.att[a].status \in Frozen => db.att[a].approved /\ db.pkg[a].state = "locked"

\* However store calls overlap and whoever dies, the vendor never holds more
\* applications for an attempt than there are submit rows: the row precedes the POST.
ApplicationsRecorded == \A a \in Attempts : apps[a] <= Cardinality({s \in Submits : db.sub[s].owner = a})

\* However store calls overlap, the store never shows a success, a submission
\* link or a callback that the vendor does not hold an application for.
VendorTruth ==
  /\ \A a \in Attempts : db.att[a].status = "succeeded" => apps[a] > 0
  /\ \A s \in Submits : db.sub[s].app # 0 => db.sub[s].app <= apps[db.sub[s].owner]
  /\ \A a \in Attempts, n \in 1 .. MaxApps :
       db.hook[<<a, n>>] # {} => n <= apps[a] /\ db.hook[<<a, n>>] \subseteq {a, None}

\* What survives every overlap of store calls, every death and every wrong answer.
SurvivesOverlap == ApplicationsRecorded /\ VendorTruth

\* A success is backed by a submit row linked to one of the vendor's applications.
SuccessIsReal ==
  \A a \in Attempts :
    db.att[a].status = "succeeded" => \E s \in Submits : /\ db.sub[s].owner = a
                                                       /\ db.sub[s].status = "succeeded"
                                                       /\ db.sub[s].app \in 1 .. apps[a]

Worked(a) == \/ \E t \in Threads : th[t].pc # "idle" /\ th[t].a = a
             \/ \E m \in Messages : queue[m].a = a
Row(a, states) == \E s \in Submits : db.sub[s].owner = a /\ db.sub[s].status \in states

\* "Rate limited (retry scheduled)": while no worker dies, a rate-limited attempt
\* has a message or a handler on the way to it, unless the retries ran out.
RetryScheduled ==
  deaths.worker + deaths.request = 0 =>
    \A a \in Attempts : db.att[a].status = "rate_limited" =>
      \/ Worked(a)
      \/ \E s \in Submits : /\ db.sub[s].owner = a /\ db.sub[s].status = "retrying"
                             /\ db.sub[s].count >= PoisonLimit

\* While nobody dies, an attempt left in "submitting" with nobody to finish it can
\* be told from the store: it has a submit row that never got its final answer.
StrandedIsVisible ==
  deaths.worker + deaths.request = 0 =>
    \A a \in Attempts : db.att[a].status = "submitting" /\ ~Worked(a) => Row(a, {"queued", "retrying"})

\* Until its submission starts an attempt nobody works on can be cancelled, and so
\* make room for a new request for the same posting, while no request handler dies.
Cancellable ==
  deaths.request = 0 =>
    \A a \in Attempts : db.att[a].status \in {"draft", "queued"} /\ ~Worked(a) => CanMove(db, a, "failed")

\* A user who was told "cancelled" has no application at the vendor.
CancelHonoured == \A a \in told : apps[a] = 0

\* When the vendor asks for a retry, the retry reaches the vendor: an attempt with
\* a "retrying" submit row is not left in "submitting" with nobody to finish it.
RetryIsWorked ==
  \A s \in Submits :
    db.sub[s].status = "retrying" /\ db.att[db.sub[s].owner].status = "submitting"
      => Worked(db.sub[s].owner)

\* A queued attempt is picked up: it leaves the queue whatever is redelivered,
\* cancelled or poisoned on the way.
QueuedLeaves == \A a \in Attempts : (db.att[a].status = "queued") ~> (db.att[a].status # "queued")
=============================================================================
