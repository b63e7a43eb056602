--------------------------- MODULE AutoApplyProofs ---------------------------
(***************************************************************************)
(* Type correctness of AutoApply, the refinement of its store and what the *)
(* store promises by itself; then the anatomy of a step, the lemmas about  *)
(* where a handler goes, what it writes, and what it does to its message;  *)
(* then the safety theorems.  Most of these assume a store that keeps its  *)
(* contract, every call being atomic (Isolated): AutoApply_doubleSubmit    *)
(* shows that the Cosmos store does not keep it, and what follows.         *)
(* TruthHolds and OverlapSurvived need no such assumption.                 *)
(***************************************************************************)
EXTENDS AutoApply, FiniteSetTheorems, TLAPS

-----------------------------------------------------------------------------
(* What the rules write is again a database value.                         *)

LEMMA EmptyDbType == EmptyDb \in Database
<1>1. NoRow \in AttemptRow BY DEF NoRow, AttemptRow
<1>2. NoPackage \in PackageRow BY DEF NoPackage, PackageRow
<1>3. NoSubmit \in SubmitRow BY CountsAssumption DEF NoSubmit, SubmitRow
<1>4. QED BY <1>1, <1>2, <1>3 DEF EmptyDb, Database

LEMMA WithAttempt ==
  ASSUME NEW v \in Database, NEW a \in Attempts, NEW r \in AttemptRow
  PROVE  [v EXCEPT !.att[a] = r] \in Database
  BY DEF Database

LEMMA CreatedType ==
  ASSUME NEW v \in Database, NEW a \in Attempts
  PROVE  Created(v, a) \in Database
<1>1. [NoRow EXCEPT !.status = "draft"] \in AttemptRow BY DEF NoRow, AttemptRow, Statuses
<1>2. QED BY <1>1, WithAttempt DEF Created

LEMMA PackagePutType ==
  ASSUME NEW v \in Database, NEW a \in Attempts, NEW who \in {"request", "worker"}
  PROVE  PackagePut(v, a, who) \in Database
  BY DEF PackagePut, Database, PackageRow

LEMMA LockedType ==
  ASSUME NEW v \in Database, NEW a \in Attempts
  PROVE  Locked(v, a) \in Database
<1> DEFINE r == [v.pkg[a] EXCEPT !.state = IF @ = "none" THEN @ ELSE "locked"]
<1>1. v.pkg[a] \in PackageRow BY DEF Database
<1>2. r \in PackageRow BY <1>1 DEF PackageRow
<1>3. Locked(v, a) = [v EXCEPT !.pkg[a] = r] BY DEF Locked
<1> HIDE DEF r
<1>4. QED BY <1>2, <1>3 DEF Database

LEMMA ApprovedType ==
  ASSUME NEW v \in Database, NEW a \in Attempts
  PROVE  Approved(v, a) \in Database
<1>1. v.att[a] \in AttemptRow BY DEF Database
<1>2. [v.att[a] EXCEPT !.approved = TRUE] \in AttemptRow BY <1>1, Zenon DEF AttemptRow
<1>3. QED BY <1>2, WithAttempt DEF Approved

LEMMA MovedType ==
  ASSUME NEW v \in Database, NEW a \in Attempts, NEW s \in Statuses
  PROVE  Moved(v, a, s) \in Database
<1>1. v.att[a] \in AttemptRow BY DEF Database
<1>2. [v.att[a] EXCEPT !.status = s] \in AttemptRow BY <1>1 DEF AttemptRow
<1>3. QED BY <1>2, WithAttempt DEF Moved

LEMMA QueuedType ==
  ASSUME NEW v \in Database, NEW a \in Attempts
  PROVE  Queued(v, a) \in Database
  BY LockedType, MovedType DEF Queued, Statuses

LEMMA WithSubmit ==
  ASSUME NEW v \in Database, NEW s \in Submits, NEW r \in SubmitRow
  PROVE  [v EXCEPT !.sub[s] = r] \in Database
  BY DEF Database

LEMMA SubmittedType ==
  ASSUME NEW v \in Database, NEW s \in Submits, NEW a \in Attempts, NEW n \in 0 .. MaxCount
  PROVE  Submitted(v, s, a, n) \in Database
<1>1. [owner |-> a, count |-> n, app |-> 0, status |-> "queued"] \in SubmitRow
  BY CountsAssumption DEF SubmitRow
<1>2. QED BY <1>1, WithSubmit DEF Submitted

LEMMA CompletedType ==
  ASSUME NEW v \in Database, NEW s \in Submits, NEW n \in 0 .. MaxApps, NEW status \in SubmitOutcomes,
         v.sub[s].owner \in Attempts
  PROVE  Completed(v, s, status, n) \in Database
<1> DEFINE a == v.sub[s].owner
           u == [v EXCEPT !.sub[s] = CompletedRow(v.sub[s], status, n)]
<1>1. CompletedRow(v.sub[s], status, n) \in SubmitRow
  <2>1. v.sub[s] \in SubmitRow BY DEF Database
  <2>2. QED BY <2>1 DEF SubmitRow, SubmitOutcomes, CompletedRow
<1>2. u \in Database BY <1>1, WithSubmit
<1>3. FailedRow(v.att[a]) \in AttemptRow
  <2>1. v.att[a] \in AttemptRow BY DEF Database
  <2>2. QED BY <2>1 DEF AttemptRow, Statuses, FailedRow
<1>4. [u EXCEPT !.att[a] = FailedRow(v.att[a])] \in Database BY <1>2, <1>3, WithAttempt
<1>5. QED BY <1>2, <1>4 DEF Completed

LEMMA HookIngestedType ==
  ASSUME NEW v \in Database, NEW i \in AppIds
  PROVE  HookIngested(v, i) \in Database
  BY DEF HookIngested, Database, Linkable

LEMMA OverlayType ==
  ASSUME NEW d \in Database, NEW v \in Database
  PROVE  Overlay(d, v) \in Database
  BY DEF Overlay, Database

-----------------------------------------------------------------------------
(* Which rows exist, and who owns a submit row, after each rule: the rules  *)
(* never remove a row and never change an owner.                            *)

Extends(v, w) ==
  /\ \A a \in Attempts : v.att[a].status # "none" => w.att[a].status # "none"
  /\ \A s \in Submits : v.sub[s].status # "none" =>
                         w.sub[s].status # "none" /\ w.sub[s].owner = v.sub[s].owner

KeepsRows(v, w) ==
  /\ \A a \in Attempts : v.att[a].status = "none" <=> w.att[a].status = "none"
  /\ \A s \in Submits : /\ v.sub[s].status = "none" <=> w.sub[s].status = "none"
                        /\ v.sub[s].owner = w.sub[s].owner

LEMMA MovedKeeps ==
  ASSUME NEW v \in Database, NEW a \in Attempts, NEW s \in Statuses, v.att[a].status # "none"
  PROVE  KeepsRows(v, Moved(v, a, s))
  BY DEF KeepsRows, Moved, Database, AttemptRow, Statuses

LEMMA ApprovedKeeps ==
  ASSUME NEW v \in Database, NEW a \in Attempts
  PROVE  KeepsRows(v, Approved(v, a))
  BY DEF KeepsRows, Approved, Database, AttemptRow

LEMMA PackageKeeps ==
  ASSUME NEW v \in Database, NEW a \in Attempts, NEW who \in {"request", "worker"}
  PROVE  KeepsRows(v, PackagePut(v, a, who)) /\ KeepsRows(v, Locked(v, a))
  BY DEF KeepsRows, PackagePut, Locked, Database

LEMMA QueuedKeeps ==
  ASSUME NEW v \in Database, NEW a \in Attempts, v.att[a].status # "none"
  PROVE  KeepsRows(v, Queued(v, a))
<1>1. Locked(v, a) \in Database BY LockedType
<1>2. Locked(v, a).att = v.att BY DEF Locked, Database
<1>3. KeepsRows(Locked(v, a), Queued(v, a)) BY <1>1, <1>2, MovedKeeps DEF Queued, Statuses
<1>4. KeepsRows(v, Locked(v, a)) BY PackageKeeps
<1>5. QED BY <1>3, <1>4 DEF KeepsRows

LEMMA CompletedKeeps ==
  ASSUME NEW v \in Database, NEW s \in Submits, NEW n \in 0 .. MaxApps, NEW status \in SubmitOutcomes,
         v.sub[s].owner \in Attempts, v.sub[s].status # "none"
  PROVE  KeepsRows(v, Completed(v, s, status, n))
<1> DEFINE a == v.sub[s].owner
           r == CompletedRow(v.sub[s], status, n)
           f == FailedRow(v.att[a])
<1>1. r.status # "none" /\ r.owner = v.sub[s].owner
  BY DEF Database, SubmitRow, CompletedRow, SubmitOutcomes
<1>2. f.status = "none" <=> v.att[a].status = "none"
  BY DEF Database, AttemptRow, FailedRow, AllowedFrom
<1> HIDE DEF r, f
<1>3. KeepsRows(v, [v EXCEPT !.sub[s] = r]) BY <1>1 DEF KeepsRows, Database
<1>4. KeepsRows(v, [[v EXCEPT !.sub[s] = r] EXCEPT !.att[a] = f]) BY <1>1, <1>2 DEF KeepsRows, Database
<1>5. QED BY <1>3, <1>4 DEF Completed, r, f

LEMMA HookKeeps ==
  ASSUME NEW v \in Database, NEW i \in AppIds
  PROVE  KeepsRows(v, HookIngested(v, i))
  BY DEF KeepsRows, HookIngested, Database

-----------------------------------------------------------------------------
(* The building blocks of a step.                                          *)

LEMMA ViewFits ==
  ASSUME TypeInv, NEW t \in Threads
  PROVE  /\ View(t) \in Database
         /\ \A a \in Attempts : View(t).att[a].status # "none" => db.att[a].status # "none"
         /\ \A s \in Submits : View(t).sub[s].status # "none" =>
                                /\ db.sub[s].status # "none"
                                /\ db.sub[s].owner = View(t).sub[s].owner
  BY DEF TypeInv, TypeOK, View, Snapshot, SnapshotsFit

LEMMA NoSnapFits ==
  /\ NoSnap \in Snapshot
  /\ \A a \in Attempts : NoSnap.v.att[a].status = "none"
  /\ \A s \in Submits : NoSnap.v.sub[s].status = "none"
<1>1. NoSnap \in Snapshot BY EmptyDbType DEF NoSnap, Snapshot
<1>2. QED BY <1>1 DEF NoSnap, EmptyDb, NoRow, NoSubmit

\* What a step of t leaves of the store and of the working copies.
StoreFits(t) ==
  /\ db' \in Database /\ Extends(db, db')
  /\ snap' \in [Threads -> Snapshot] /\ SnapshotsFit'
  /\ \A u \in Threads \ {t} : snap'[u] = snap[u]

\* A call that writes v: the store grows, the other working copies still fit.
\* Rows that are new in v are new in the store as well.
LEMMA CommitFits ==
  ASSUME TypeInv, NEW t \in Threads, NEW v \in Database, Commit(t, v),
         Extends(View(t), v),
         \A s \in Submits : v.sub[s].status # "none" =>
                            View(t).sub[s].status # "none" \/ db.sub[s].status = "none"
  PROVE  StoreFits(t)
<1>1. db \in Database /\ snap \in [Threads -> Snapshot] /\ SnapshotsFit BY DEF TypeInv, TypeOK
<1>2. db' \in Database BY <1>1, OverlayType DEF Commit
<1>3. snap' = [snap EXCEPT ![t] = NoSnap] BY DEF Commit
<1>4. snap' \in [Threads -> Snapshot] BY <1>1, <1>3, NoSnapFits
<1>5. Extends(db, db')
  <2>1. CASE Isolated BY <2>1 DEF Commit, View
  <2>2. CASE ~Isolated
    <3>1. db' = Overlay(db, v) BY <2>2 DEF Commit
    <3>2. ASSUME NEW a \in Attempts, db.att[a].status # "none"
          PROVE  db'.att[a].status # "none"
      BY <3>1, <3>2 DEF Overlay
    <3>3. ASSUME NEW s \in Submits, db.sub[s].status # "none"
          PROVE  db'.sub[s].status # "none" /\ db'.sub[s].owner = db.sub[s].owner
      BY <3>1, <3>3, ViewFits DEF Overlay, Extends
    <3>4. QED BY <3>2, <3>3 DEF Extends
  <2>3. QED BY <2>1, <2>2
<1>6. SnapshotsFit' BY <1>1, <1>3, <1>5, NoSnapFits DEF SnapshotsFit, Extends
<1>7. QED BY <1>1, <1>2, <1>3, <1>4, <1>5, <1>6 DEF StoreFits

LEMMA KeepCommitFits ==
  ASSUME TypeInv, NEW t \in Threads, NEW v \in Database, Commit(t, v), KeepsRows(View(t), v)
  PROVE  StoreFits(t)
  BY CommitFits DEF KeepsRows, Extends

LEMMA NoCommitFits ==
  ASSUME TypeInv, NEW t \in Threads, NoCommit(t)
  PROVE  StoreFits(t)
  BY NoSnapFits DEF TypeInv, TypeOK, NoCommit, SnapshotsFit, Extends, StoreFits

LEMMA NoCallFits ==
  ASSUME TypeInv, UNCHANGED <<db, snap>>, NEW t \in Threads
  PROVE  StoreFits(t)
  BY DEF TypeInv, TypeOK, SnapshotsFit, Extends, StoreFits

-----------------------------------------------------------------------------
(* How a step of t ends.                                                   *)

\* The columns no store call writes.
Steady == UNCHANGED <<deployment, form, apps, told, deaths>>
Columns == /\ deployment \in Deployments /\ form \in [Attempts -> Form]
           /\ apps \in [Attempts -> 0 .. MaxApps] /\ told \subseteq Attempts
           /\ deaths \in [request: 0 .. MaxRequestDeaths, worker: 0 .. MaxWorkerDeaths]

LEMMA StepFits ==
  ASSUME TypeInv, NEW t \in Threads, StoreFits(t),
         NEW r \in Handler, th' = [th EXCEPT ![t] = r], HandlerFits(t)',
         queue' \in [Messages -> Message], QueueFits', Columns'
  PROVE  TypeInv'
<1>1. TypeOK' BY DEF StoreFits, TypeInv, TypeOK, Columns
<1>2. ASSUME NEW u \in Threads \ {t} PROVE HandlerFits(u)'
  <2>1. th'[u] = th[u] /\ snap'[u] = snap[u] BY DEF StoreFits, TypeInv, TypeOK
  <2>2. HandlerFits(u) BY DEF TypeInv, HandlersFit
  <2>3. QED BY <2>1, <2>2 DEF HandlerFits, StoreFits, Extends, HasAttempt, Pcs, Calls, Reading, Others
<1>3. HandlersFit' BY <1>2 DEF HandlersFit
<1>4. QED BY <1>1, <1>3 DEF TypeInv, StoreFits

LEMMA SteadyColumns == ASSUME TypeInv, Steady PROVE Columns'
  BY DEF TypeInv, TypeOK, Steady, Columns

LEMMA IdleFits == Idle \in Handler /\ Idle.pc = "idle" /\ Idle.msg = None
  BY CountsAssumption DEF Idle, Handler, Pcs, Reading, Calls, Others

LEMMA QueueKept ==
  ASSUME TypeInv, NEW t \in Threads, StoreFits(t), UNCHANGED queue
  PROVE  queue' \in [Messages -> Message] /\ QueueFits'
  BY DEF TypeInv, TypeOK, QueueFits, StoreFits, Extends

LEMMA RaiseFits ==
  ASSUME TypeInv, NEW t \in Threads, StoreFits(t), Raise(t), Columns'
  PROVE  TypeInv'
<1>1. NoMsg \in Message BY CountsAssumption DEF NoMsg, Message
<1>2. queue' \in [Messages -> Message] BY <1>1 DEF Raise, TypeInv, TypeOK, Message
<1>3. QueueFits'
  <2>1. SUFFICES ASSUME NEW m \in Messages, queue'[m] # NoMsg
                 PROVE  queue'[m].a \in Attempts /\ db'.att[queue'[m].a].status # "none"
    BY DEF QueueFits
  <2>2. queue[m] \in Message BY DEF TypeInv, TypeOK
  <2>3. queue[m] # NoMsg /\ queue'[m].a = queue[m].a
    BY <1>1, <2>1, <2>2 DEF Raise, NoMsg, Message
  <2>4. queue[m].a \in Attempts /\ db.att[queue[m].a].status # "none" BY <2>3 DEF TypeInv, QueueFits
  <2>5. QED BY <2>3, <2>4 DEF StoreFits, Extends
<1>4. th'[t].pc = "idle" BY IdleFits DEF Raise, TypeInv, TypeOK
<1>5. HandlerFits(t)' BY <1>4 DEF HandlerFits, HasAttempt
<1>6. QED BY <1>2, <1>3, <1>5, IdleFits, StepFits DEF Raise

\* A handler at work belongs to an attempt that exists.
LEMMA HandlerAttempt ==
  ASSUME TypeInv, NEW t \in Threads, th[t].pc \in HasAttempt
  PROVE  th[t] \in Handler /\ th[t].a \in Attempts /\ db.att[th[t].a].status # "none"
  BY DEF TypeInv, TypeOK, HandlersFit, HandlerFits

LEMMA DoneFits ==
  ASSUME TypeInv, NEW t \in Threads, StoreFits(t), Done(t), Columns'
  PROVE  TypeInv'
<1> DEFINE r == IF th[t].msg = None THEN Idle ELSE [th[t] EXCEPT !.pc = "ack"]
<1>1. r \in Handler /\ r.pc \in {"idle", "ack"}
  <2>1. th[t] \in Handler /\ "ack" \in Pcs BY DEF TypeInv, TypeOK, Pcs, Others
  <2>2. QED BY <2>1, IdleFits DEF Handler
<1>2. th' = [th EXCEPT ![t] = r] BY DEF Done
<1> HIDE DEF r
<1>3. th'[t] = r BY <1>2 DEF TypeInv, TypeOK
<1>4. HandlerFits(t)' BY <1>1, <1>3 DEF HandlerFits, HasAttempt
<1>5. QED BY <1>1, <1>2, <1>4, QueueKept, StepFits DEF Done

\* Program points at which a handler carries no more than its attempt.
Plain == Pcs \ {"idle", "create", "hook", "resend", "post", "complete"}

LEMMA GotoFits ==
  ASSUME TypeInv, NEW t \in Threads, th[t].pc \in HasAttempt, StoreFits(t), NEW c \in Plain, Goto(t, c), Columns'
  PROVE  TypeInv'
<1>1. [th[t] EXCEPT !.pc = c] \in Handler BY HandlerAttempt DEF Handler, Plain
<1>2. th' = [th EXCEPT ![t] = [th[t] EXCEPT !.pc = c]] BY DEF Goto
<1>3. th'[t].pc = c /\ th'[t].a = th[t].a BY <1>2, HandlerAttempt DEF Handler, TypeInv, TypeOK
<1>4. HandlerFits(t)' BY <1>3, HandlerAttempt DEF HandlerFits, Plain, StoreFits, Extends
<1>5. QED BY <1>1, <1>2, <1>4, QueueKept, StepFits DEF Goto

LEMMA CallFits ==
  ASSUME TypeInv, UNCHANGED deployment, NEW t \in Threads, th[t].pc \in HasAttempt,
         NEW ok, NEW v \in Database, ok => KeepsRows(View(t), v), NEW c \in Plain, Call(t, ok, v, c)
  PROVE  TypeInv'
<1>1. Columns' BY SteadyColumns DEF Call, Steady
<1>2. CASE ok /\ Commit(t, v) /\ Goto(t, c) BY <1>1, <1>2, KeepCommitFits, GotoFits
<1>3. CASE ~ok /\ NoCommit(t) /\ Raise(t) BY <1>1, <1>3, NoCommitFits, RaiseFits
<1>4. QED BY <1>2, <1>3 DEF Call

LEMMA LastCallFits ==
  ASSUME TypeInv, UNCHANGED deployment, NEW t \in Threads,
         NEW ok, NEW v \in Database, ok => KeepsRows(View(t), v), LastCall(t, ok, v)
  PROVE  TypeInv'
<1>1. Columns' BY SteadyColumns DEF LastCall, Steady
<1>2. CASE ok /\ Commit(t, v) /\ Done(t) BY <1>1, <1>2, KeepCommitFits, DoneFits
<1>3. CASE ~ok /\ NoCommit(t) /\ Raise(t) BY <1>1, <1>3, NoCommitFits, RaiseFits
<1>4. QED BY <1>2, <1>3 DEF LastCall

-----------------------------------------------------------------------------
(* Type correctness: one lemma for each kind of action.                    *)

LEMMA MoveFits ==
  ASSUME NEW v \in Database, NEW a \in Attempts, NEW s \in Statuses
  PROVE  Moved(v, a, s) \in Database /\ (CanMove(v, a, s) => KeepsRows(v, Moved(v, a, s)))
  BY MovedType, MovedKeeps DEF CanMove, AllowedFrom

LEMMA TypeInit == Init => TypeInv
<1> SUFFICES ASSUME Init PROVE TypeInv OBVIOUS
<1>1. NoForm \in Form BY DEF NoForm, NoTarget, Form, Targets
<1>2. NoMsg \in Message BY CountsAssumption DEF NoMsg, Message
<1>3. TypeOK BY <1>1, <1>2, EmptyDbType, IdleFits, NoSnapFits, CountsAssumption, LimitsAssumption DEF Init, TypeOK
<1>4. HandlersFit BY IdleFits DEF Init, HandlersFit, HandlerFits, HasAttempt
<1>5. QED BY <1>3, <1>4, NoSnapFits DEF Init, TypeInv, QueueFits, SnapshotsFit

LEMMA TypeHydrate ==
  ASSUME TypeInv, UNCHANGED deployment, NEW t \in Threads, Hydrate(t)
  PROVE  TypeInv'
<1> DEFINE s == [held |-> TRUE, v |-> db]
<1>1. s \in Snapshot BY DEF TypeInv, TypeOK, Snapshot
<1>2. TypeOK' BY <1>1 DEF TypeInv, TypeOK, Hydrate
<1>3. SnapshotsFit' BY DEF TypeInv, TypeOK, SnapshotsFit, Hydrate
<1>4. HandlersFit' BY DEF TypeInv, TypeOK, HandlersFit, HandlerFits, Hydrate
<1>5. QED BY <1>2, <1>3, <1>4 DEF TypeInv, QueueFits, Hydrate

LEMMA CreatedFits ==
  ASSUME NEW v \in Database, NEW a \in Attempts
  PROVE  /\ Created(v, a) \in Database /\ Created(v, a).att[a].status = "draft"
         /\ Extends(v, Created(v, a)) /\ Created(v, a).sub = v.sub
<1> DEFINE r == [NoRow EXCEPT !.status = "draft"]
<1>1. r.status = "draft" BY DEF NoRow
<1> HIDE DEF r
<1>2. Created(v, a) = [v EXCEPT !.att[a] = r] BY DEF Created, r
<1>3. QED BY <1>1, <1>2, CreatedType DEF Database, Extends

\* create_request up to the enqueue.
LEMMA TypeCreate ==
  ASSUME TypeInv, UNCHANGED deployment, NEW t \in Threads, CreateAttempt(t)
  PROVE  TypeInv'
<1> PICK a \in Unborn, f \in Bodies :
      \/ /\ CanCreate(View(t), form, f.target)
         /\ Commit(t, Created(View(t), a))
         /\ form' = [form EXCEPT ![a] = f]
         /\ th' = [th EXCEPT ![t].pc = "artifacts", ![t].a = a]
         /\ UNCHANGED queue
      \/ /\ ~CanCreate(View(t), form, f.target)
         /\ NoCommit(t) /\ Raise(t) /\ UNCHANGED form
  BY DEF CreateAttempt
<1>1. a \in Attempts /\ db.att[a].status = "none" BY DEF Unborn
<1>2. Columns' BY BodiesAssumption DEF CreateAttempt, TypeInv, TypeOK, Columns
<1>3. CASE NoCommit(t) /\ Raise(t) BY <1>2, <1>3, NoCommitFits, RaiseFits
<1>4. CASE /\ Commit(t, Created(View(t), a)) /\ UNCHANGED queue
           /\ th' = [th EXCEPT ![t].pc = "artifacts", ![t].a = a]
  <2> DEFINE v == Created(View(t), a)
             r == [th[t] EXCEPT !.pc = "artifacts", !.a = a]
  <2>1. v \in Database /\ v.att[a].status = "draft" /\ Extends(View(t), v) /\ v.sub = View(t).sub
    BY <1>1, ViewFits, CreatedFits
  <2>2. StoreFits(t) BY <1>4, <2>1, CommitFits
  <2>3. db'.att[a].status # "none" BY <1>1, <1>4, <2>1 DEF Commit, Overlay
  <2>4. r \in Handler
    <3>1. th[t] \in Handler /\ "artifacts" \in Pcs BY DEF TypeInv, TypeOK, Pcs, Calls
    <3>2. QED BY <1>1, <3>1 DEF Handler
  <2>5. th' = [th EXCEPT ![t] = r] BY <1>4
  <2>6. th'[t].pc = "artifacts" /\ th'[t].a = a BY <2>5 DEF TypeInv, TypeOK, Handler
  <2>7. HandlerFits(t)' BY <1>1, <2>3, <2>6 DEF HandlerFits
  <2>8. QED BY <1>2, <1>4, <2>2, <2>4, <2>5, <2>7, QueueKept, StepFits
<1>5. QED BY <1>3, <1>4

LEMMA TypeRequest ==
  ASSUME TypeInv, UNCHANGED deployment, NEW t \in Threads,
         PutArtifacts(t) \/ PutPackage(t) \/ Approve(t) \/ Queue(t)
  PROVE  TypeInv'
<1>1. th[t].pc \in HasAttempt
  BY DEF PutArtifacts, PutPackage, Approve, Queue, At, HasAttempt, Pcs, Calls
<1>2. th[t].a \in Attempts /\ View(t) \in Database BY <1>1, HandlerAttempt, ViewFits
<1>3. CASE PutArtifacts(t)
  <2>1. KeepsRows(View(t), View(t)) BY DEF KeepsRows
  <2>2. "package" \in Plain BY DEF Plain, Pcs, Calls
  <2>3. QED BY <1>1, <1>2, <1>3, <2>1, <2>2, CallFits DEF PutArtifacts
<1>4. CASE PutPackage(t)
  <2>1. "approve" \in Plain BY DEF Plain, Pcs, Calls
  <2>2. QED BY <1>1, <1>2, <1>4, <2>1, PackagePutType, PackageKeeps, CallFits DEF PutPackage
<1>5. CASE Approve(t)
  <2>1. "queue" \in Plain BY DEF Plain, Pcs, Calls
  <2>2. QED BY <1>1, <1>2, <1>5, <2>1, ApprovedType, ApprovedKeeps, CallFits DEF Approve
<1>6. CASE Queue(t)
  <2> DEFINE a == th[t].a
             v == View(t)
  <2>1. Columns' BY <1>6, SteadyColumns DEF Queue, Steady
  <2>2. CASE CanQueue(v, form, a) /\ Commit(t, Queued(v, a)) /\ Goto(t, "enqueue")
    <3>1. v.att[a].status # "none" BY <2>2 DEF CanQueue, CanMove, AllowedFrom
    <3>2. StoreFits(t) BY <1>2, <2>2, <3>1, QueuedType, QueuedKeeps, KeepCommitFits
    <3>3. "enqueue" \in Plain BY DEF Plain, Pcs, Others
    <3>4. QED BY <1>1, <2>1, <2>2, <3>2, <3>3, GotoFits
  <2>3. CASE Raise(t) /\ (NoCommit(t) \/ Commit(t, QueueRefused(v, form, a)))
    <3>1. QueueRefused(v, form, a) \in Database /\ KeepsRows(v, QueueRefused(v, form, a))
      BY <1>2, LockedType, PackageKeeps DEF QueueRefused, KeepsRows
    <3>2. StoreFits(t) BY <2>3, <3>1, KeepCommitFits, NoCommitFits
    <3>3. QED BY <2>1, <2>3, <3>2, RaiseFits
  <2>4. QED BY <1>6, <2>2, <2>3 DEF Queue
<1>7. QED BY <1>3, <1>4, <1>5, <1>6

LEMMA SentFits ==
  ASSUME TypeInv, NEW t \in Threads, StoreFits(t),
         NEW a \in Attempts, db.att[a].status # "none", Sent(a, queue)
  PROVE  queue' \in [Messages -> Message] /\ QueueFits'
<1> DEFINE new == [a |-> a, count |-> 0, held |-> FALSE]
<1>1. PICK m1, m2 \in Messages : queue' = [m \in Messages |-> IF m \in {m1, m2} THEN new ELSE queue[m]]
  BY DEF Sent
<1>2. new \in Message /\ new.a = a BY CountsAssumption DEF Message
<1> HIDE DEF new
<1>3. QED BY <1>1, <1>2 DEF TypeInv, TypeOK, QueueFits, StoreFits, Extends

LEMMA TypeEnqueue ==
  ASSUME TypeInv, UNCHANGED deployment, NEW t \in Threads, Enqueue(t)
  PROVE  TypeInv'
<1>1. th[t] \in Handler /\ th[t].a \in Attempts /\ db.att[th[t].a].status # "none"
  BY HandlerAttempt DEF Enqueue, HasAttempt, Pcs, Others
<1>2. StoreFits(t) /\ Columns' BY NoCallFits, SteadyColumns DEF Enqueue, Steady
<1>3. CASE Azure
  <2>1. queue' \in [Messages -> Message] /\ QueueFits' BY <1>1, <1>2, <1>3, SentFits DEF Enqueue
  <2>2. th' = [th EXCEPT ![t] = Idle] BY <1>3 DEF Enqueue
  <2>3. HandlerFits(t)' BY <2>2, IdleFits DEF HandlerFits, HasAttempt, TypeInv, TypeOK
  <2>4. QED BY <1>2, <2>1, <2>2, <2>3, IdleFits, StepFits
<1>4. CASE ~Azure
  <2> DEFINE r == [th[t] EXCEPT !.pc = "read", !.count = 1]
  <2>1. th' = [th EXCEPT ![t] = r] /\ UNCHANGED queue BY <1>4 DEF Enqueue
  <2>2. r \in Handler
    <3>1. "read" \in Pcs /\ 1 \in 0 .. MaxCount BY CountsAssumption DEF Pcs, Reading
    <3>2. QED BY <1>1, <3>1 DEF Handler
  <2>3. r.pc = "read" /\ r.a = th[t].a BY <1>1 DEF Handler
  <2> HIDE DEF r
  <2>4. th'[t] = r BY <2>1 DEF TypeInv, TypeOK
  <2>5. HandlerFits(t)' BY <1>1, <1>2, <2>3, <2>4 DEF HandlerFits, StoreFits, Extends
  <2>6. QED BY <1>2, <2>1, <2>2, <2>5, QueueKept, StepFits
<1>5. QED BY <1>3, <1>4

LEMMA TypeResend ==
  ASSUME TypeInv, UNCHANGED deployment, NEW t \in Threads, Resend(t)
  PROVE  TypeInv'
<1>1. th[t] \in Handler /\ th[t].a \in Attempts /\ db.att[th[t].a].status # "none"
  BY HandlerAttempt DEF Resend, HasAttempt, Pcs, Others
<1>2. StoreFits(t) /\ Columns' BY NoCallFits, SteadyColumns DEF Resend, Steady
<1>3. CASE Azure
  <2> DEFINE r == [th[t] EXCEPT !.pc = "ack"]
  <2>1. queue' \in [Messages -> Message] /\ QueueFits' BY <1>1, <1>2, <1>3, SentFits DEF Resend
  <2>2. th' = [th EXCEPT ![t] = r] BY <1>3 DEF Resend
  <2>3. r \in Handler /\ r.pc = "ack"
    <3>1. "ack" \in Pcs BY DEF Pcs, Others
    <3>2. QED BY <1>1, <3>1 DEF Handler
  <2> HIDE DEF r
  <2>4. HandlerFits(t)' BY <2>2, <2>3 DEF HandlerFits, HasAttempt, TypeInv, TypeOK
  <2>5. QED BY <1>2, <2>1, <2>2, <2>3, <2>4, StepFits
<1>4. CASE ~Azure
  <2> DEFINE r == [Idle EXCEPT !.pc = "read", !.a = th[t].a, !.count = th[t].count + 1]
  <2>1. th' = [th EXCEPT ![t] = r] /\ UNCHANGED queue BY <1>4 DEF Resend
  <2>2. r \in Handler
    <3>1. th[t].count < PoisonLimit BY DEF Resend, TypeInv, HandlersFit, HandlerFits
    <3>2. "read" \in Pcs /\ th[t].count + 1 \in 0 .. MaxCount
      BY <1>1, <3>1, CountsAssumption, LimitsAssumption DEF Pcs, Reading, Handler
    <3>3. QED BY <1>1, <3>2, IdleFits DEF Handler
  <2>3. r.pc = "read" /\ r.a = th[t].a BY IdleFits DEF Idle
  <2> HIDE DEF r
  <2>4. th'[t] = r BY <2>1 DEF TypeInv, TypeOK
  <2>5. HandlerFits(t)' BY <1>1, <1>2, <2>3, <2>4 DEF HandlerFits, StoreFits, Extends
  <2>6. QED BY <1>2, <2>1, <2>2, <2>5, QueueKept, StepFits
<1>5. QED BY <1>3, <1>4

\* A handler that starts: the store is only read.
LEMMA ArrivalFits ==
  ASSUME TypeInv, UNCHANGED deployment, NEW t \in Threads, UNCHANGED <<db, form, snap, queue, apps, told, deaths>>,
         NEW r \in Handler, th' = [th EXCEPT ![t] = r],
         r.pc \in {"create", "cancel", "manual", "hook"},
         r.pc # "create" => r.a \in Attempts,
         r.pc \in {"cancel", "manual"} => db.att[r.a].status # "none",
         r.pc = "hook" => r.app # 0
  PROVE  TypeInv'
<1>1. StoreFits(t) /\ Columns' BY NoCallFits, SteadyColumns DEF Steady
<1>2. th'[t] = r BY DEF TypeInv, TypeOK
<1>3. HandlerFits(t)' BY <1>2 DEF HandlerFits, HasAttempt
<1>4. QED BY <1>1, <1>3, QueueKept, StepFits

LEMMA TypeArrival ==
  ASSUME TypeInv, UNCHANGED deployment, NEW t \in Threads, Arrival(t)
  PROVE  TypeInv'
<1>1. th[t] \in Handler BY DEF TypeInv, TypeOK
<1>2. {"create", "cancel", "manual", "hook"} \subseteq Pcs BY DEF Pcs, Calls
<1>3. CASE CreateRequest(t)
  <2> DEFINE r == [th[t] EXCEPT !.pc = "create"]
  <2>1. r \in Handler /\ r.pc = "create" BY <1>1, <1>2 DEF Handler
  <2>2. th' = [th EXCEPT ![t] = r] BY <1>3 DEF CreateRequest, Goto
  <2>3. QED BY <1>3, <2>1, <2>2, ArrivalFits DEF CreateRequest, Goto
<1>4. CASE CancelRead(t)
  <2> PICK a \in Attempts : /\ db.att[a].status \in {"draft", "queued"}
                            /\ th' = [th EXCEPT ![t].pc = "cancel", ![t].a = a]
    BY <1>4 DEF CancelRead
  <2> DEFINE r == [th[t] EXCEPT !.pc = "cancel", !.a = a]
  <2>1. r \in Handler /\ r.pc = "cancel" /\ r.a = a BY <1>1, <1>2 DEF Handler
  <2>2. th' = [th EXCEPT ![t] = r] OBVIOUS
  <2>3. db.att[a].status # "none" OBVIOUS
  <2>4. UNCHANGED <<db, form, snap, queue, apps, told, deaths>> BY <1>4 DEF CancelRead
  <2> HIDE DEF r
  <2>5. QED BY <2>1, <2>2, <2>3, <2>4, ArrivalFits
<1>5. CASE ManualRead(t)
  <2> PICK a \in Attempts : /\ db.att[a].status = "needs_review"
                            /\ th' = [th EXCEPT ![t].pc = "manual", ![t].a = a]
    BY <1>5 DEF ManualRead
  <2> DEFINE r == [th[t] EXCEPT !.pc = "manual", !.a = a]
  <2>1. r \in Handler /\ r.pc = "manual" /\ r.a = a BY <1>1, <1>2 DEF Handler
  <2>2. th' = [th EXCEPT ![t] = r] OBVIOUS
  <2> HIDE DEF r
  <2>3. UNCHANGED <<db, form, snap, queue, apps, told, deaths>> BY <1>5 DEF ManualRead
  <2>4. r.pc \in {"create", "cancel", "manual", "hook"} /\ r.pc # "create" /\ r.pc # "hook" BY <2>1
  <2>5. r.a \in Attempts /\ db.att[r.a].status # "none" BY <2>1
  <2>6. QED BY <2>1, <2>2, <2>3, <2>4, <2>5, ArrivalFits
<1>6. CASE WebhookArrives(t)
  <2> PICK a \in Attempts, n \in 1 .. MaxApps :
        n <= apps[a] /\ th' = [th EXCEPT ![t].pc = "hook", ![t].a = a, ![t].app = n]
    BY <1>6 DEF WebhookArrives
  <2> DEFINE r == [th[t] EXCEPT !.pc = "hook", !.a = a, !.app = n]
  <2>1. n \in 0 .. MaxApps /\ n # 0 BY CountsAssumption
  <2>2. r \in Handler /\ r.pc = "hook" /\ r.a = a /\ r.app = n BY <1>1, <1>2, <2>1 DEF Handler
  <2>3. th' = [th EXCEPT ![t] = r] OBVIOUS
  <2> HIDE DEF r
  <2>4. UNCHANGED <<db, form, snap, queue, apps, told, deaths>> BY <1>6 DEF WebhookArrives
  <2>5. r.pc \in {"create", "cancel", "manual", "hook"} /\ r.pc \notin {"create", "cancel", "manual"} BY <2>2
  <2>6. r.a \in Attempts /\ r.app # 0 BY <2>1, <2>2
  <2>7. QED BY <2>2, <2>3, <2>4, <2>5, <2>6, ArrivalFits
<1>7. QED BY <1>3, <1>4, <1>5, <1>6 DEF Arrival

\* The calls of cancel, mark_manual_submitted and ingest_webhook.
LEMMA TypeUser ==
  ASSUME TypeInv, UNCHANGED deployment, NEW t \in Threads,
         CancelMove(t) \/ CancelMark(t) \/ ManualMove(t) \/ IngestWebhook(t)
  PROVE  TypeInv'
<1>1. View(t) \in Database BY ViewFits
<1>2. CASE CancelMove(t)
  <2>1. th[t].pc \in HasAttempt BY <1>2 DEF CancelMove, At, HasAttempt, Pcs, Calls
  <2>2. "mark" \in Plain /\ "failed" \in Statuses BY DEF Plain, Pcs, Others, Statuses
  <2>3. QED BY <1>1, <1>2, <2>1, <2>2, HandlerAttempt, MoveFits, CallFits, LastCallFits DEF CancelMove
<1>3. CASE CancelMark(t)
  <2> DEFINE a == th[t].a
  <2>1. a \in Attempts BY <1>3, HandlerAttempt DEF CancelMark, HasAttempt, Pcs, Others
  <2>2. db \in Database /\ db.att[a] \in AttemptRow BY <2>1 DEF TypeInv, TypeOK, Database
  <2>3. [db.att[a] EXCEPT !.error = "cancelled"] \in AttemptRow BY <2>2 DEF AttemptRow
  <2>4. db' \in Database BY <1>3, <2>1, <2>2, <2>3, WithAttempt DEF CancelMark, CancelNoted
  <2>5. KeepsRows(db, db')
    BY <1>3, <2>1, <2>2 DEF CancelMark, CancelNoted, KeepsRows, Database, AttemptRow
  <2>6. StoreFits(t)
    BY <1>3, <2>4, <2>5 DEF CancelMark, StoreFits, KeepsRows, Extends, SnapshotsFit, TypeInv, TypeOK
  <2>7. Columns' BY <1>3, <2>1 DEF CancelMark, Columns, TypeInv, TypeOK
  <2>8. QED BY <1>3, <2>6, <2>7, DoneFits DEF CancelMark
<1>4. CASE ManualMove(t)
  <2>1. th[t].pc \in HasAttempt BY <1>4 DEF ManualMove, At, HasAttempt, Pcs, Calls
  <2>2. "submitted" \in Statuses BY DEF Statuses
  <2>3. QED BY <1>1, <1>4, <2>1, <2>2, HandlerAttempt, MoveFits, LastCallFits DEF ManualMove
<1>5. CASE IngestWebhook(t)
  <2>1. <<th[t].a, th[t].app>> \in AppIds
    BY <1>5, CountsAssumption DEF IngestWebhook, At, TypeInv, TypeOK, HandlersFit, HandlerFits, Handler, AppIds
  <2>2. QED BY <1>1, <1>5, <2>1, HookIngestedType, HookKeeps, LastCallFits DEF IngestWebhook
<1>6. QED BY <1>2, <1>3, <1>4, <1>5

LEMMA TypeDeliver ==
  ASSUME TypeInv, UNCHANGED deployment, NEW t \in Threads, Deliver(t)
  PROVE  TypeInv'
<1>1. StoreFits(t) /\ Columns' BY NoCallFits, SteadyColumns DEF Deliver, Steady
<1> PICK m \in Messages :
      /\ queue[m] # NoMsg /\ ~queue[m].held
      /\ LET n == queue[m].count + 1 IN
           \/ n > PoisonLimit /\ queue' = [queue EXCEPT ![m] = NoMsg] /\ UNCHANGED th
           \/ /\ n <= PoisonLimit
              /\ queue' = [queue EXCEPT ![m].count = n, ![m].held = TRUE]
              /\ th' = [th EXCEPT ![t] = [Idle EXCEPT !.pc = "read", !.a = queue[m].a, !.count = n, !.msg = m]]
  BY DEF Deliver
<1> DEFINE n == queue[m].count + 1
           q == [queue[m] EXCEPT !.count = n, !.held = TRUE]
           r == [Idle EXCEPT !.pc = "read", !.a = queue[m].a, !.count = n, !.msg = m]
<1>2. queue[m] \in Message /\ queue[m].a \in Attempts /\ db.att[queue[m].a].status # "none"
  BY DEF TypeInv, TypeOK, QueueFits
<1>3. CASE queue' = [queue EXCEPT ![m] = NoMsg] /\ UNCHANGED th
  <2>1. NoMsg \in Message BY CountsAssumption DEF NoMsg, Message
  <2>2. queue' \in [Messages -> Message] /\ QueueFits'
    BY <1>1, <1>3, <2>1 DEF TypeInv, TypeOK, QueueFits, StoreFits, Extends
  <2>3. th' = [th EXCEPT ![t] = th[t]] /\ th[t] \in Handler BY <1>3 DEF TypeInv, TypeOK
  <2>4. HandlerFits(t)' BY <1>3 DEF HandlerFits, HasAttempt, TypeInv, TypeOK, HandlersFit, Deliver
  <2>5. QED BY <1>1, <2>2, <2>3, <2>4, StepFits
<1>4. CASE n <= PoisonLimit /\ queue' = [queue EXCEPT ![m] = q] /\ th' = [th EXCEPT ![t] = r]
  <2>1. n \in 0 .. MaxCount BY <1>2, <1>4, CountsAssumption, LimitsAssumption DEF Message
  <2>2. q \in Message /\ q.a = queue[m].a BY <1>2, <2>1, Zenon DEF Message
  <2>3. r \in Handler /\ r.pc = "read" /\ r.a = queue[m].a
    <3>1. "read" \in Pcs BY DEF Pcs, Reading
    <3>2. QED BY <1>2, <2>1, <3>1, IdleFits DEF Handler
  <2> HIDE DEF n, q, r
  <2>4. queue' \in [Messages -> Message] BY <1>4, <2>2 DEF TypeInv, TypeOK
  <2>5. QueueFits' BY <1>1, <1>2, <1>4, <2>2 DEF TypeInv, TypeOK, QueueFits, StoreFits, Extends
  <2>6. th'[t] = r BY <1>4 DEF TypeInv, TypeOK
  <2>7. HandlerFits(t)' BY <1>1, <1>2, <2>3, <2>6 DEF HandlerFits, StoreFits, Extends
  <2>8. QED BY <1>1, <1>4, <2>3, <2>4, <2>5, <2>7, StepFits
<1>5. QED BY <1>3, <1>4

LEMMA TypeAck ==
  ASSUME TypeInv, UNCHANGED deployment, NEW t \in Threads, Ack(t)
  PROVE  TypeInv'
<1>1. StoreFits(t) /\ Columns' BY NoCallFits, SteadyColumns DEF Ack, Steady
<1>2. NoMsg \in Message BY CountsAssumption DEF NoMsg, Message
<1>3. queue' \in [Messages -> Message] /\ QueueFits'
  BY <1>1, <1>2 DEF Ack, TypeInv, TypeOK, QueueFits, StoreFits, Extends
<1>4. HandlerFits(t)' BY IdleFits DEF Ack, HandlerFits, HasAttempt, TypeInv, TypeOK
<1>5. QED BY <1>1, <1>3, <1>4, IdleFits, StepFits DEF Ack

LEMMA TypeDie ==
  ASSUME TypeInv, UNCHANGED deployment, NEW t \in Threads, Die(t)
  PROVE  TypeInv'
<1>1. deaths' \in [request: 0 .. MaxRequestDeaths, worker: 0 .. MaxWorkerDeaths]
  BY LimitsAssumption DEF Die, TypeInv, TypeOK
<1>2. Columns' BY <1>1 DEF Die, Columns, TypeInv, TypeOK
<1>3. QED BY <1>2, NoCommitFits, RaiseFits DEF Die

\* The worker up to the submission.
LEMMA TypeRead ==
  ASSUME TypeInv, UNCHANGED deployment, NEW t \in Threads, Read(t)
  PROVE  TypeInv'
<1>1. StoreFits(t) /\ Columns' BY NoCallFits, SteadyColumns DEF Read, Steady
<1>2. th[t].pc \in HasAttempt BY DEF Read, HasAttempt, Pcs, Reading
<1>3. {"requeue", "putpkg", "start"} \subseteq Plain BY DEF Plain, Pcs, Calls
<1>4. Done(t) \/ \E c \in {"requeue", "putpkg", "start"} : Goto(t, c) BY DEF Read
<1>5. CASE Done(t) BY <1>1, <1>5, DoneFits
<1>6. CASE \E c \in {"requeue", "putpkg", "start"} : Goto(t, c) BY <1>1, <1>2, <1>3, <1>6, GotoFits
<1>7. QED BY <1>4, <1>5, <1>6

LEMMA TypeRequeue ==
  ASSUME TypeInv, UNCHANGED deployment, NEW t \in Threads, Requeue(t)
  PROVE  TypeInv'
<1> DEFINE a == th[t].a
           v == View(t)
<1>1. th[t].pc \in HasAttempt BY DEF Requeue, At, HasAttempt, Pcs, Calls
<1>2. a \in Attempts /\ v \in Database BY <1>1, HandlerAttempt, ViewFits
<1>3. Columns' BY SteadyColumns DEF Requeue, Steady
<1>4. CASE CanMove(v, a, "queued") /\ Commit(t, Moved(v, a, "queued")) /\ Goto(t, "reread")
  <2>1. "queued" \in Statuses /\ "reread" \in Plain BY DEF Statuses, Plain, Pcs, Reading
  <2>2. StoreFits(t) BY <1>2, <1>4, <2>1, MoveFits, KeepCommitFits
  <2>3. QED BY <1>1, <1>3, <1>4, <2>1, <2>2, GotoFits
<1>5. CASE NoCommit(t) /\ Done(t) BY <1>3, <1>5, NoCommitFits, DoneFits
<1>6. QED BY <1>4, <1>5 DEF Requeue

LEMMA TypePackage ==
  ASSUME TypeInv, UNCHANGED deployment, NEW t \in Threads,
         WorkerPackage(t) \/ LockPackage(t) \/ NeedsReview(t)
  PROVE  TypeInv'
<1>1. th[t].pc \in HasAttempt
  BY DEF WorkerPackage, LockPackage, NeedsReview, At, HasAttempt, Pcs, Calls
<1>2. th[t].a \in Attempts /\ View(t) \in Database BY <1>1, HandlerAttempt, ViewFits
<1>3. CASE WorkerPackage(t)
  <2>1. Columns' BY <1>3, SteadyColumns DEF WorkerPackage, Steady
  <2>2. NoCommit(t) \/ Commit(t, PackagePut(View(t), th[t].a, "worker")) BY <1>3 DEF WorkerPackage
  <2>3. StoreFits(t) BY <1>2, <2>2, PackagePutType, PackageKeeps, KeepCommitFits, NoCommitFits
  <2>4. "lockpkg" \in Plain BY DEF Plain, Pcs, Calls
  <2>5. QED BY <1>1, <1>3, <2>1, <2>3, <2>4, GotoFits DEF WorkerPackage
<1>4. CASE LockPackage(t)
  <2>1. "review" \in Plain BY DEF Plain, Pcs, Calls
  <2>2. QED BY <1>1, <1>2, <1>4, <2>1, LockedType, PackageKeeps, CallFits DEF LockPackage
<1>5. CASE NeedsReview(t)
  <2>1. "needs_review" \in Statuses BY DEF Statuses
  <2>2. QED BY <1>2, <1>5, <2>1, MoveFits, LastCallFits DEF NeedsReview
<1>6. QED BY <1>3, <1>4, <1>5

\* The transitions of the submission.
LEMMA TypeSubmitMoves ==
  ASSUME TypeInv, UNCHANGED deployment, NEW t \in Threads,
         Start(t) \/ MarkSubmitted(t) \/ MarkSucceeded(t)
  PROVE  TypeInv'
<1>1. th[t].pc \in HasAttempt BY DEF Start, MarkSubmitted, MarkSucceeded, At, HasAttempt, Pcs, Calls
<1>2. th[t].a \in Attempts /\ View(t) \in Database BY <1>1, HandlerAttempt, ViewFits
<1>3. {"submitting", "submitted", "succeeded"} \subseteq Statuses BY DEF Statuses
<1>4. {"mksub", "succeeded"} \subseteq Plain BY DEF Plain, Pcs, Calls
<1>5. CASE Start(t) BY <1>1, <1>2, <1>3, <1>4, <1>5, MoveFits, CallFits DEF Start
<1>6. CASE MarkSubmitted(t) BY <1>1, <1>2, <1>3, <1>4, <1>6, MoveFits, CallFits DEF MarkSubmitted
<1>7. CASE MarkSucceeded(t) BY <1>2, <1>3, <1>7, MoveFits, LastCallFits DEF MarkSucceeded
<1>8. QED BY <1>5, <1>6, <1>7

LEMMA SubmittedFits ==
  ASSUME NEW v \in Database, NEW s \in Submits, NEW a \in Attempts, NEW n \in 0 .. MaxCount
  PROVE  /\ Submitted(v, s, a, n).sub[s].status = "queued" /\ Submitted(v, s, a, n).sub[s].owner = a
         /\ Submitted(v, s, a, n).att = v.att
         /\ \A r \in Submits \ {s} : Submitted(v, s, a, n).sub[r] = v.sub[r]
  BY DEF Submitted, Database

LEMMA InterruptedFits ==
  ASSUME NEW v \in Database
  PROVE  /\ Interrupted(v) \in Database /\ Interrupted(v).att = v.att /\ Interrupted(v).pkg = v.pkg
         /\ Interrupted(v).sub = v.sub
  BY DEF Interrupted, EmptyDb, Database

LEMMA TypeCreateSubmit ==
  ASSUME TypeInv, UNCHANGED deployment, NEW t \in Threads, CreateSubmit(t)
  PROVE  TypeInv'
<1> DEFINE a == th[t].a
<1>1. th[t].pc \in HasAttempt BY DEF CreateSubmit, At, HasAttempt, Pcs, Calls
<1>2. th[t] \in Handler /\ a \in Attempts /\ db.att[a].status # "none" /\ View(t) \in Database
  BY <1>1, HandlerAttempt, ViewFits
<1>3. Columns' BY SteadyColumns DEF CreateSubmit, Steady
<1>4. CASE NoCommit(t) /\ Raise(t) BY <1>3, <1>4, NoCommitFits, RaiseFits
<1>5. CASE /\ UNCHANGED queue
           /\ \E s \in Submits : /\ db.sub[s].status = "none"
                                  /\ Commit(t, Submitted(View(t), s, a, th[t].count))
                                  /\ th' = [th EXCEPT ![t].pc = "post", ![t].sid = s]
  <2> PICK s \in Submits : /\ db.sub[s].status = "none"
                           /\ Commit(t, Submitted(View(t), s, a, th[t].count))
                           /\ th' = [th EXCEPT ![t].pc = "post", ![t].sid = s]
    BY <1>5
  <2> DEFINE v == Submitted(View(t), s, a, th[t].count)
             r == [th[t] EXCEPT !.pc = "post", !.sid = s]
  <2>1. th[t].count \in 0 .. MaxCount BY <1>2 DEF Handler
  <2>2. v \in Database BY <1>2, <2>1, SubmittedType
  <2>3. View(t).sub[s].status = "none" BY <1>2, ViewFits
  <2>4. Extends(View(t), v) BY <1>2, <2>1, <2>3, SubmittedFits DEF Extends
  <2>5. v.sub[s].status = "queued" /\ v.sub[s].owner = a BY <1>2, <2>1, SubmittedFits
  <2>6. \A q \in Submits : v.sub[q].status # "none" =>
                           View(t).sub[q].status # "none" \/ db.sub[q].status = "none"
    BY <1>2, <2>1, SubmittedFits
  <2>7. r \in Handler /\ r.pc = "post" /\ r.a = a /\ r.sid = s
    <3>1. "post" \in Pcs BY DEF Pcs, Others
    <3>2. QED BY <1>2, <3>1 DEF Handler
  <2>8. th' = [th EXCEPT ![t] = r] OBVIOUS
  <2> HIDE DEF v, r
  <2>9. Commit(t, v) BY DEF v
  <2>10. StoreFits(t) BY <2>2, <2>4, <2>6, <2>9, CommitFits
  <2>11. db'.sub[s].status # "none" /\ db'.sub[s].owner = a
    <3>1. CASE Isolated BY <2>5, <2>9, <3>1 DEF Commit
    <3>2. CASE ~Isolated
      <4>1. db' = Overlay(db, v) BY <2>9, <3>2 DEF Commit
      <4>2. db'.sub[s] = v.sub[s] BY <2>5, <4>1 DEF Overlay
      <4>3. QED BY <2>5, <4>2
    <3>3. QED BY <3>1, <3>2
  <2>12. th'[t] = r /\ snap'[t] = NoSnap BY <2>8, <2>9 DEF TypeInv, TypeOK, Commit
  <2>13. HandlerFits(t)'
    BY <1>2, <2>7, <2>10, <2>11, <2>12 DEF HandlerFits, StoreFits, Extends, NoSnap
  <2>14. QED BY <1>3, <1>5, <2>7, <2>8, <2>10, <2>13, QueueKept, StepFits
<1>6. CASE Commit(t, Interrupted(View(t))) /\ Raise(t)
  <2>1. Interrupted(View(t)) \in Database /\ KeepsRows(View(t), Interrupted(View(t)))
    BY <1>2, InterruptedFits DEF KeepsRows
  <2>2. StoreFits(t) BY <1>6, <2>1, KeepCommitFits
  <2>3. QED BY <1>3, <1>6, <2>2, RaiseFits
<1>7. QED BY <1>4, <1>5, <1>6 DEF CreateSubmit

LEMMA TypePost ==
  ASSUME TypeInv, UNCHANGED deployment, NEW t \in Threads, Post(t)
  PROVE  TypeInv'
<1>1. th[t] \in Handler /\ th[t].a \in Attempts /\ db.att[th[t].a].status # "none"
  BY HandlerAttempt DEF Post, HasAttempt, Pcs, Others
<1>2. StoreFits(t) BY NoCallFits DEF Post
<1>3. apps' \in [Attempts -> 0 .. MaxApps]
  <2>1. CASE UNCHANGED apps BY <2>1 DEF TypeInv, TypeOK
  <2>2. CASE \E n : Accepted(th[t].a, n)
    BY <1>1, <2>2, CountsAssumption DEF Accepted, TypeInv, TypeOK
  <2>3. QED BY <2>1, <2>2 DEF Post
<1>4. Columns' BY <1>3 DEF Post, Columns, TypeInv, TypeOK
<1>5. CASE Raise(t) BY <1>2, <1>4, <1>5, RaiseFits
<1>6. ASSUME NEW out \in {"retry", "failed", "succeeded"}, NEW n \in 0 .. MaxApps, Answered(t, out, n)
      PROVE  TypeInv'
  <2> DEFINE r == [th[t] EXCEPT !.pc = "complete", !.out = out, !.app = n]
  <2>1. r \in Handler
    <3>1. "complete" \in Pcs BY DEF Pcs, Calls
    <3>2. QED BY <1>1, <3>1 DEF Handler
  <2>2. r.pc = "complete" /\ r.a = th[t].a /\ r.sid = th[t].sid /\ r.out = out BY <1>1 DEF Handler
  <2>3. th' = [th EXCEPT ![t] = r] /\ UNCHANGED queue BY <1>6 DEF Answered
  <2> HIDE DEF r
  <2>4. th'[t] = r BY <2>3 DEF TypeInv, TypeOK
  <2>5. UNCHANGED <<db, snap>> BY DEF Post
  <2>6. HandlerFits(t) /\ th[t].pc = "post" BY DEF TypeInv, HandlersFit, Post
  <2>7. HandlerFits(t)' BY <1>1, <2>2, <2>4, <2>5, <2>6 DEF HandlerFits
  <2>8. QED BY <1>2, <1>4, <2>1, <2>3, <2>7, QueueKept, StepFits
<1>7. 0 \in 0 .. MaxApps /\ 1 .. MaxApps \subseteq 0 .. MaxApps BY CountsAssumption
<1>8. Raise(t) \/ \E out \in {"retry", "failed", "succeeded"}, n \in 0 .. MaxApps : Answered(t, out, n)
  BY <1>7 DEF Post
<1>9. QED BY <1>5, <1>6, <1>8

LEMMA TypeComplete ==
  ASSUME TypeInv, UNCHANGED deployment, NEW t \in Threads, Complete(t)
  PROVE  TypeInv'
<1> DEFINE s == th[t].sid
           ok == CanComplete(View(t), s, th[t].app)
           v == Completed(View(t), s, SubmitStatus(th[t].out), th[t].app)
<1>1. th[t].pc = "complete" /\ (Isolated \/ snap[t].held) BY DEF Complete, At
<1>2. th[t].pc \in HasAttempt BY <1>1 DEF HasAttempt, Pcs, Calls
<1>3. th[t] \in Handler /\ th[t].a \in Attempts /\ View(t) \in Database BY <1>2, HandlerAttempt, ViewFits
<1>4. s \in Submits /\ View(t).sub[s].status # "none"
  BY <1>1 DEF TypeInv, HandlersFit, HandlerFits, View
<1>5. View(t).sub[s].owner \in Attempts
  BY <1>1, <1>3, <1>4, ViewFits DEF TypeInv, HandlersFit, HandlerFits
<1>6. th[t].app \in 0 .. MaxApps /\ th[t].out \in {"retry", "failed", "succeeded"}
  BY <1>1, <1>3 DEF Handler, TypeInv, HandlersFit, HandlerFits
<1>7. SubmitStatus(th[t].out) \in SubmitOutcomes BY <1>6 DEF SubmitStatus, SubmitOutcomes
<1>8. v \in Database BY <1>3, <1>4, <1>5, <1>6, <1>7, CompletedType
<1>9. KeepsRows(View(t), v) BY <1>3, <1>4, <1>5, <1>6, <1>7, CompletedKeeps
<1>10. {"limit", "submitted"} \subseteq Plain BY DEF Plain, Pcs, Calls
<1>11. Call(t, ok, v, "limit") \/ Call(t, ok, v, "submitted") \/ LastCall(t, ok, v)
  BY <1>6 DEF Complete
<1> HIDE DEF ok, v
<1>12. QED BY <1>2, <1>8, <1>9, <1>10, <1>11, CallFits, LastCallFits

LEMMA TypeRateLimit ==
  ASSUME TypeInv, UNCHANGED deployment, NEW t \in Threads, RateLimit(t)
  PROVE  TypeInv'
<1> DEFINE ok == CanMove(View(t), th[t].a, "rate_limited")
           v == Moved(View(t), th[t].a, "rate_limited")
<1>1. th[t].pc \in HasAttempt BY DEF RateLimit, At, HasAttempt, Pcs, Calls
<1>2. th[t] \in Handler /\ th[t].a \in Attempts /\ db.att[th[t].a].status # "none" /\ View(t) \in Database
  BY <1>1, HandlerAttempt, ViewFits
<1>3. v \in Database /\ (ok => KeepsRows(View(t), v)) BY <1>2, MoveFits DEF Statuses
<1>4. \/ LastCall(t, ok, v)
      \/ th[t].count < PoisonLimit /\ Call(t, ok, v, "resend")
  BY DEF RateLimit
<1> HIDE DEF ok, v
<1>5. CASE LastCall(t, ok, v) BY <1>3, <1>5, LastCallFits
<1>6. CASE th[t].count < PoisonLimit /\ Call(t, ok, v, "resend")
  <2>1. Columns' BY <1>6, SteadyColumns DEF Call, Steady
  <2>2. CASE ~ok /\ NoCommit(t) /\ Raise(t) BY <2>1, <2>2, NoCommitFits, RaiseFits
  <2>3. CASE ok /\ Commit(t, v) /\ Goto(t, "resend")
    <3> DEFINE r == [th[t] EXCEPT !.pc = "resend"]
    <3>1. StoreFits(t) BY <1>3, <2>3, KeepCommitFits
    <3>2. r \in Handler /\ r.pc = "resend" /\ r.a = th[t].a /\ r.count = th[t].count
      <4>1. "resend" \in Pcs BY DEF Pcs, Others
      <4>2. QED BY <1>2, <4>1 DEF Handler
    <3>3. th' = [th EXCEPT ![t] = r] /\ UNCHANGED queue BY <2>3 DEF Goto
    <3> HIDE DEF r
    <3>4. th'[t] = r BY <3>3 DEF TypeInv, TypeOK
    <3>5. HandlerFits(t)' BY <1>2, <1>6, <3>1, <3>2, <3>4 DEF HandlerFits, StoreFits, Extends
    <3>6. QED BY <2>1, <3>1, <3>2, <3>3, <3>5, QueueKept, StepFits
  <2>4. QED BY <1>6, <2>2, <2>3 DEF Call
<1>7. QED BY <1>4, <1>5, <1>6

\* TypeInv is inductive by itself: what it says of handlers, messages and
\* working copies is what the rows of the store need to stay well formed.
LEMMA TypeStep == TypeInv /\ [Next]_vars => TypeInv'
<1> SUFFICES ASSUME TypeInv, [Next]_vars PROVE TypeInv' OBVIOUS
<1>1. CASE UNCHANGED vars
  <2> USE <1>1 DEF vars
  <2>1. TypeOK' BY DEF TypeInv, TypeOK
  <2>2. HandlersFit' BY DEF TypeInv, HandlersFit, HandlerFits
  <2>3. QueueFits' BY DEF TypeInv, QueueFits
  <2>4. SnapshotsFit' BY DEF TypeInv, SnapshotsFit
  <2>5. QED BY <2>1, <2>2, <2>3, <2>4 DEF TypeInv
<1>2. CASE Next
  <2>1. PICK t \in Threads :
          Hydrate(t) \/ RequestStep(t) \/ WorkStep(t) \/ Arrival(t) \/ Deliver(t) \/ Die(t)
    BY <1>2 DEF Next
  <2>2. UNCHANGED deployment BY <1>2 DEF Next
  <2>3. CASE RequestStep(t) BY <2>2, <2>3, TypeCreate, TypeRequest, TypeEnqueue, TypeUser DEF RequestStep
  <2>4. CASE WorkStep(t)
    BY <2>2, <2>4, TypeAck, TypeRead, TypeRequeue, TypePackage, TypeSubmitMoves, TypeCreateSubmit,
       TypePost, TypeComplete, TypeRateLimit, TypeResend
    DEF WorkStep
  <2>5. QED BY <2>1, <2>2, <2>3, <2>4, TypeHydrate, TypeArrival, TypeDeliver, TypeDie
<1>3. QED BY <1>1, <1>2

\* Types, and that the rows fit together: a handler or a message never refers to
\* an attempt that does not exist, a submit row in use has the attempt of its
\* handler as owner, and a working copy of the Cosmos store never holds a row the
\* store lacks - in every deployment, with calls that overlap or not.
THEOREM TypeCorrect == Spec => []TypeInv
<1>1. QED BY TypeInit, TypeStep, PTL DEF Spec

-----------------------------------------------------------------------------
(* What each rule does to the statuses of the attempts.                    *)

SameStatus(v, w) == \A a \in Attempts : w.att[a].status = v.att[a].status
SetStatus(v, w, a, s) ==
  /\ w.att[a].status = s
  /\ \A b \in Attempts \ {a} : w.att[b].status = v.att[b].status

LEMMA MovedSets ==
  ASSUME NEW v \in Database, NEW a \in Attempts, NEW s \in Statuses
  PROVE  SetStatus(v, Moved(v, a, s), a, s)
  BY DEF SetStatus, Moved, Database, AttemptRow

LEMMA CreatedSets ==
  ASSUME NEW v \in Database, NEW a \in Attempts
  PROVE  SetStatus(v, Created(v, a), a, "draft")
<1> DEFINE r == [NoRow EXCEPT !.status = "draft"]
<1>1. r.status = "draft" BY DEF NoRow
<1> HIDE DEF r
<1>2. Created(v, a) = [v EXCEPT !.att[a] = r] BY DEF Created, r
<1>3. QED BY <1>1, <1>2 DEF Database, SetStatus

LEMMA QueuedSets ==
  ASSUME NEW v \in Database, NEW a \in Attempts
  PROVE  SetStatus(v, Queued(v, a), a, "queued")
<1>1. Locked(v, a) \in Database BY LockedType
<1>2. Locked(v, a).att = v.att BY DEF Locked, Database
<1>3. SetStatus(Locked(v, a), Queued(v, a), a, "queued") BY <1>1, MovedSets DEF Queued, Statuses
<1>4. QED BY <1>2, <1>3 DEF SetStatus

LEMMA QuietRules ==
  ASSUME NEW v \in Database, NEW a \in Attempts
  PROVE  /\ \A who \in {"request", "worker"} : SameStatus(v, PackagePut(v, a, who))
         /\ SameStatus(v, Locked(v, a))
         /\ SameStatus(v, Approved(v, a))
         /\ \A s \in Submits, n \in 0 .. MaxCount : SameStatus(v, Submitted(v, s, a, n))
         /\ \A i \in AppIds : SameStatus(v, HookIngested(v, i))
<1>1. SameStatus(v, Approved(v, a)) BY DEF SameStatus, Approved, Database, AttemptRow
<1>2. SameStatus(v, Locked(v, a)) BY DEF SameStatus, Locked, Database
<1>3. \A who \in {"request", "worker"} : SameStatus(v, PackagePut(v, a, who))
  BY DEF SameStatus, PackagePut, Database
<1>4. \A s \in Submits, n \in 0 .. MaxCount : SameStatus(v, Submitted(v, s, a, n))
  BY SubmittedFits DEF SameStatus
<1>5. \A i \in AppIds : SameStatus(v, HookIngested(v, i)) BY DEF SameStatus, HookIngested, Database
<1>6. QED BY <1>1, <1>2, <1>3, <1>4, <1>5

\* complete_submit either leaves the attempts alone or fails the owner.
LEMMA CompletedSets ==
  ASSUME NEW v \in Database, NEW s \in Submits, NEW n \in 0 .. MaxApps, NEW status \in SubmitOutcomes,
         v.sub[s].owner \in Attempts
  PROVE  \/ SameStatus(v, Completed(v, s, status, n))
         \/ /\ "failed" \in AllowedFrom(v.att[v.sub[s].owner].status)
            /\ SetStatus(v, Completed(v, s, status, n), v.sub[s].owner, "failed")
<1> DEFINE a == v.sub[s].owner
           r == CompletedRow(v.sub[s], status, n)
           f == FailedRow(v.att[a])
<1>1. v.att[a] \in AttemptRow BY DEF Database
<1>2. f.status = IF "failed" \in AllowedFrom(v.att[a].status) THEN "failed" ELSE v.att[a].status
  BY <1>1 DEF FailedRow, AttemptRow
<1>3. Completed(v, s, status, n) = IF status = "failed" THEN [[v EXCEPT !.sub[s] = r] EXCEPT !.att[a] = f]
                                                    ELSE [v EXCEPT !.sub[s] = r]
  BY DEF Completed
<1> HIDE DEF r, f
<1>4. CASE status = "failed"
  <2>1. Completed(v, s, status, n).att = [v.att EXCEPT ![a] = f] BY <1>3, <1>4 DEF Database
  <2>2. QED BY <1>2, <2>1 DEF SameStatus, SetStatus, Database
<1>5. CASE status # "failed" BY <1>3, <1>5 DEF SameStatus, Database
<1>6. QED BY <1>4, <1>5

-----------------------------------------------------------------------------
(* The service implements the store: each step is one call or none.        *)

LEMMA StoreStep ==
  ASSUME NEW a \in Attempts, AttemptCall(a), UNCHANGED form
  PROVE  StoreNext
  BY DEF StoreNext

LEMMA NoPackageNoLock ==
  ASSUME NEW v \in Database, NEW a \in Attempts, ~CanLock(v, a)
  PROVE  Locked(v, a) = v
  BY DEF CanLock, Locked, Database, PackageRow

\* The handler and the row of the call it is about to make.
LEMMA CompleteArguments ==
  ASSUME TypeInv, NEW t \in Threads, th[t].pc = "complete"
  PROVE  /\ th[t].sid \in Submits /\ th[t].app \in 0 .. MaxApps /\ SubmitStatus(th[t].out) \in SubmitOutcomes
         /\ th[t].a \in Attempts /\ db.sub[th[t].sid].owner = th[t].a
         /\ db.sub[th[t].sid].status # "none"
<1>1. th[t] \in Handler BY DEF TypeInv, TypeOK
<1>2. HandlerFits(t) BY DEF TypeInv, HandlersFit
<1>3. "complete" \in HasAttempt BY DEF HasAttempt, Pcs, Calls
<1>4. QED BY <1>1, <1>2, <1>3 DEF Handler, HandlerFits, SubmitStatus, SubmitOutcomes

LEMMA HookArguments ==
  ASSUME TypeInv, NEW t \in Threads, th[t].pc = "hook"
  PROVE  <<th[t].a, th[t].app>> \in AppIds
  BY CountsAssumption DEF TypeInv, TypeOK, HandlersFit, HandlerFits, Handler, AppIds

LEMMA RequestImplements ==
  ASSUME Isolated, TypeInv, NEW t \in Threads, RequestStep(t)
  PROVE  [StoreNext]_storeVars
<1> DEFINE a == th[t].a
<1>1. th[t].pc \in HasAttempt => a \in Attempts /\ db.att[a].status # "none" BY HandlerAttempt
<1>2. CASE UNCHANGED storeVars BY <1>2
<1>3. CASE CreateAttempt(t)
  BY <1>3 DEF CreateAttempt, Unborn, Commit, NoCommit, View, StoreNext, Insert, storeVars
<1>4. CASE PutArtifacts(t) BY <1>4 DEF PutArtifacts, Call, Commit, NoCommit, View, storeVars
<1>5. CASE PutPackage(t)
  BY <1>1, <1>5, StoreStep
  DEF PutPackage, At, HasAttempt, Pcs, Calls, Call, Commit, NoCommit, View, AttemptCall, Put, storeVars
<1>6. CASE Approve(t)
  BY <1>1, <1>6, StoreStep
  DEF Approve, At, HasAttempt, Pcs, Calls, Call, Commit, NoCommit, View, AttemptCall, Sign, storeVars
<1>7. CASE Queue(t)
  <2>1. a \in Attempts /\ UNCHANGED form BY <1>1, <1>7 DEF Queue, At, HasAttempt, Pcs, Calls
  <2>2. \/ UNCHANGED db
        \/ CanQueue(db, form, a) /\ db' = Queued(db, a)
        \/ db' = Locked(db, a)
    BY <1>7 DEF Queue, Commit, NoCommit, View, QueueRefused
  <2>3. db' = Locked(db, a) => UNCHANGED db \/ Lock(a)
    BY <2>1, NoPackageNoLock DEF Lock, TypeInv, TypeOK
  <2>4. QED BY <2>1, <2>2, <2>3, StoreStep DEF AttemptCall, LockQueue, storeVars
<1>8. CASE Enqueue(t) BY <1>8 DEF Enqueue, storeVars
<1>9. CASE CancelMove(t) \/ ManualMove(t)
  <2>1. a \in Attempts /\ UNCHANGED form
    BY <1>1, <1>9 DEF CancelMove, ManualMove, At, HasAttempt, Pcs, Calls, Call, LastCall
  <2>2. UNCHANGED db \/ \E s \in Statuses : Move(a, s)
    BY <1>9 DEF CancelMove, ManualMove, Call, LastCall, Commit, NoCommit, View, Move, Statuses
  <2>3. QED BY <2>1, <2>2, StoreStep DEF AttemptCall, storeVars
<1>10. CASE CancelMark(t)
  BY <1>1, <1>10, StoreStep DEF CancelMark, HasAttempt, Pcs, Others, AttemptCall, NoteCancel
<1>11. CASE IngestWebhook(t)
  BY <1>11, HookArguments DEF IngestWebhook, At, LastCall, Commit, NoCommit, View, StoreNext, Ingest, storeVars
<1>12. QED BY <1>3, <1>4, <1>5, <1>6, <1>7, <1>8, <1>9, <1>10, <1>11 DEF RequestStep

LEMMA WorkImplements ==
  ASSUME Isolated, TypeInv, NEW t \in Threads, WorkStep(t)
  PROVE  [StoreNext]_storeVars
<1> DEFINE a == th[t].a
           moves == \E s \in Statuses : Move(a, s)
<1>1. th[t].pc \in HasAttempt => a \in Attempts /\ th[t] \in Handler BY HandlerAttempt
<1>2. UNCHANGED form
  BY DEF WorkStep, Ack, Read, Requeue, WorkerPackage, LockPackage, NeedsReview, Start, CreateSubmit, Post,
         Complete, RateLimit, Resend, MarkSubmitted, MarkSucceeded, Call, LastCall
<1>3. CASE Ack(t) \/ Read(t) \/ Post(t) \/ Resend(t) BY <1>3 DEF Ack, Read, Post, Resend, storeVars
<1>4. CASE Requeue(t) \/ NeedsReview(t) \/ Start(t) \/ RateLimit(t) \/ MarkSubmitted(t) \/ MarkSucceeded(t)
  <2>1. a \in Attempts
    BY <1>1, <1>4
    DEF Requeue, NeedsReview, Start, RateLimit, MarkSubmitted, MarkSucceeded, At, HasAttempt, Pcs, Calls
  <2>2. UNCHANGED db \/ moves
    BY <1>4
    DEF Requeue, NeedsReview, Start, RateLimit, MarkSubmitted, MarkSucceeded, Call, LastCall, Commit, NoCommit,
        View, Move, Statuses
  <2>3. QED BY <1>2, <2>1, <2>2, StoreStep DEF AttemptCall, storeVars
<1>5. CASE WorkerPackage(t) \/ LockPackage(t)
  BY <1>1, <1>2, <1>5, StoreStep
  DEF WorkerPackage, LockPackage, At, HasAttempt, Pcs, Calls, Call, Commit, NoCommit, View, AttemptCall, Put, Lock,
      storeVars
<1>6. CASE CreateSubmit(t)
  <2>1. a \in Attempts /\ th[t].count \in 0 .. MaxCount
    BY <1>1, <1>6 DEF CreateSubmit, At, HasAttempt, Pcs, Calls, Handler
  <2>2. UNCHANGED db \/ \E s \in Submits : OpenSubmit(a, s, th[t].count)
    BY <1>6 DEF CreateSubmit, Commit, NoCommit, View, OpenSubmit
  <2>3. QED BY <1>2, <2>1, <2>2, StoreStep DEF AttemptCall, storeVars
<1>7. CASE Complete(t)
  <2>1. th[t].pc = "complete" BY <1>7 DEF Complete, At
  <2>2. \/ UNCHANGED db
        \/ /\ CanComplete(db, th[t].sid, th[t].app)
           /\ db' = Completed(db, th[t].sid, SubmitStatus(th[t].out), th[t].app)
    BY <1>7 DEF Complete, Call, LastCall, Commit, NoCommit, View
  <2>3. UNCHANGED db \/ CloseSubmit(th[t].sid, SubmitStatus(th[t].out), th[t].app)
    BY <2>1, <2>2, CompleteArguments DEF CloseSubmit
  <2>4. QED BY <1>2, <2>1, <2>3, CompleteArguments DEF StoreNext, SubmitCall, storeVars
<1>8. QED BY <1>3, <1>4, <1>5, <1>6, <1>7 DEF WorkStep

LEMMA StepImplements == Isolated /\ TypeInv /\ [Next]_vars => [StoreNext]_storeVars
<1> SUFFICES ASSUME Isolated, TypeInv, [Next]_vars PROVE [StoreNext]_storeVars OBVIOUS
<1>1. ASSUME NEW t \in Threads, Hydrate(t) \/ Arrival(t) \/ Deliver(t) \/ Die(t) PROVE UNCHANGED storeVars
  BY <1>1
  DEF Hydrate, Arrival, CreateRequest, CancelRead, ManualRead, WebhookArrives, Deliver, Die, NoCommit, Goto, storeVars
<1>2. QED BY <1>1, RequestImplements, WorkImplements DEF Next, vars, storeVars

\* With atomic calls the service implements the store's contract: whatever handlers
\* interleave, die or run twice, the database only changes by whole rules.
THEOREM ServiceImplementsStore == ASSUME Isolated PROVE Spec => StoreSpec
<1>1. Init => StoreInit BY DEF Init, StoreInit
<1>2. TypeInv /\ [Next]_vars => [StoreNext]_storeVars BY StepImplements
<1>3. QED BY <1>1, <1>2, TypeCorrect, PTL DEF Spec, StoreSpec

-----------------------------------------------------------------------------
(* What the store promises by itself.                                      *)

LEMMA CallTerminal ==
  ASSUME db \in Database, StoreNext, NEW a \in Attempts, db.att[a].status \in TerminalAttempt
  PROVE  db'.att[a].status = db.att[a].status
<1>1. AllowedFrom(db.att[a].status) = {} /\ db.att[a].status # "none" BY DEF TerminalAttempt, AllowedFrom
<1>2. ASSUME NEW b \in Attempts, NEW f \in Bodies, Insert(b, f) PROVE db'.att[a].status = db.att[a].status
  BY <1>1, <1>2, CreatedSets DEF Insert, SetStatus
<1>3. ASSUME NEW b \in Attempts, AttemptCall(b) PROVE db'.att[a].status = db.att[a].status
  <2>1. CASE LockQueue(b) BY <1>1, <2>1, QueuedSets DEF LockQueue, CanQueue, CanMove, SetStatus
  <2>2. ASSUME NEW s \in Statuses, Move(b, s) PROVE db'.att[a].status = db.att[a].status
    BY <1>1, <2>2, MovedSets DEF Move, CanMove, SetStatus
  <2>3. CASE NoteCancel(b) BY <2>3 DEF NoteCancel, CancelNoted, Database, AttemptRow
  <2>4. QED BY <1>3, <2>1, <2>2, <2>3, QuietRules DEF AttemptCall, Put, Lock, Sign, OpenSubmit, SameStatus
<1>4. CASE SubmitCall BY <1>1, <1>4, CompletedSets DEF SubmitCall, CloseSubmit, SameStatus, SetStatus
<1>5. QED BY <1>2, <1>3, <1>4, QuietRules DEF StoreNext, Ingest, SameStatus

LEMMA CallPackage ==
  ASSUME db \in Database, StoreNext, NEW a \in Attempts, db.pkg[a].state = "locked"
  PROVE  db'.pkg[a] = db.pkg[a]
<1>1. db.pkg[a] \in PackageRow BY DEF Database
<1>2. ASSUME NEW b \in Attempts, AttemptCall(b) PROVE db'.pkg[a] = db.pkg[a]
  <2>1. Locked(db, b).pkg[a] = db.pkg[a] /\ Queued(db, b).pkg = Locked(db, b).pkg
    BY <1>1 DEF Locked, Queued, Moved, Database, PackageRow
  <2>2. \A who : Put(b, who) => db'.pkg[a] = db.pkg[a] BY DEF Put, CanPutPackage, PackagePut, Database
  <2>3. Approved(db, b).pkg = db.pkg /\ CancelNoted(db, b).pkg = db.pkg BY DEF Approved, CancelNoted, Database
  <2>4. \A s, n : Moved(db, b, s).pkg = db.pkg /\ Submitted(db, s, b, n).pkg = db.pkg
    BY DEF Moved, Submitted, Database
  <2>5. QED BY <1>2, <2>1, <2>2, <2>3, <2>4 DEF AttemptCall, Lock, Sign, LockQueue, NoteCancel, Move, OpenSubmit
<1>3. ASSUME NEW b \in Attempts, NEW f \in Bodies, Insert(b, f) PROVE db'.pkg[a] = db.pkg[a]
  BY <1>3 DEF Insert, Created, Database
<1>4. CASE SubmitCall BY <1>4 DEF SubmitCall, CloseSubmit, Completed, Database
<1>5. ASSUME NEW i \in AppIds PROVE HookIngested(db, i).pkg = db.pkg BY DEF HookIngested, Database
<1>6. QED BY <1>2, <1>3, <1>4, <1>5 DEF StoreNext, Ingest

\* A terminal attempt never comes back, whoever cancels, redelivers or completes.
THEOREM TerminalStays == ASSUME Isolated PROVE Spec => TerminalIsFinal
<1>1. db \in Database /\ [StoreNext]_storeVars =>
        [\A a \in Attempts : db.att[a].status \in TerminalAttempt => db'.att[a].status = db.att[a].status]_storeVars
  BY CallTerminal
<1>2. TypeInv => db \in Database BY DEF TypeInv, TypeOK
<1>3. QED BY <1>1, <1>2, TypeCorrect, ServiceImplementsStore, PTL DEF StoreSpec, TerminalIsFinal

\* A locked package is never rewritten or unlocked, by the request or by the worker.
THEOREM LockedPackageStays == ASSUME Isolated PROVE Spec => PackageImmutable
<1>1. db \in Database /\ [StoreNext]_storeVars =>
        [\A a \in Attempts : db.pkg[a].state = "locked" => db'.pkg[a] = db.pkg[a]]_storeVars
  BY CallPackage
<1>2. TypeInv => db \in Database BY DEF TypeInv, TypeOK
<1>3. QED BY <1>1, <1>2, TypeCorrect, ServiceImplementsStore, PTL DEF StoreSpec, PackageImmutable

\* Only an insertion puts an attempt in flight.
LEMMA CallInFlight ==
  ASSUME db \in Database, NEW a \in Attempts, db'.att[a].status \in InFlight,
         (\E b \in Attempts : AttemptCall(b)) \/ SubmitCall \/ (\E i \in AppIds : Ingest(i))
  PROVE  db.att[a].status \in InFlight
<1>1. \A s : AllowedFrom(s) # {} => s \in InFlight BY DEF AllowedFrom, InFlight, Statuses, TerminalAttempt
<1>2. ASSUME NEW b \in Attempts, AttemptCall(b) PROVE db.att[a].status \in InFlight
  <2>1. CASE LockQueue(b) BY <1>1, <2>1, QueuedSets DEF LockQueue, CanQueue, CanMove, SetStatus
  <2>2. ASSUME NEW s \in Statuses, Move(b, s) PROVE db.att[a].status \in InFlight
    BY <1>1, <2>2, MovedSets DEF Move, CanMove, SetStatus
  <2>3. CASE NoteCancel(b) BY <2>3 DEF NoteCancel, CancelNoted, Database, AttemptRow
  <2>4. QED BY <1>2, <2>1, <2>2, <2>3, QuietRules DEF AttemptCall, Put, Lock, Sign, OpenSubmit, SameStatus
<1>3. CASE SubmitCall
  <2>1. "failed" \notin InFlight BY DEF InFlight, TerminalAttempt
  <2>2. QED BY <1>3, <2>1, CompletedSets DEF SubmitCall, CloseSubmit, SameStatus, SetStatus
<1>4. ASSUME NEW i \in AppIds, Ingest(i) PROVE db.att[a].status \in InFlight
  BY <1>4, QuietRules DEF Ingest, SameStatus
<1>5. QED BY <1>2, <1>3, <1>4

LEMMA CallUnique ==
  ASSUME db \in Database, form \in [Attempts -> Form], InFlightUnique, [StoreNext]_storeVars
  PROVE  InFlightUnique'
<1>1. CASE UNCHANGED storeVars BY <1>1 DEF storeVars, InFlightUnique
<1>2. ASSUME NEW a \in Attempts, NEW f \in Bodies, Insert(a, f) PROVE InFlightUnique'
  <2>1. /\ form'[a] = f
        /\ \A b \in Attempts \ {a} : form'[b] = form[b] /\ db'.att[b].status = db.att[b].status
    BY <1>2, CreatedSets DEF Insert, SetStatus
  <2>2. \A b \in Attempts \ {a} : db'.att[b].status \in InFlight => ~Clash(form'[b].target, form'[a].target)
    BY <1>2, <2>1 DEF Insert, CanCreate
  <2>3. SUFFICES ASSUME NEW b \in Attempts, NEW c \in Attempts, b # c,
                        db'.att[b].status \in InFlight, db'.att[c].status \in InFlight
                 PROVE  ~Clash(form'[b].target, form'[c].target)
    BY DEF InFlightUnique
  <2>4. CASE b = a \/ c = a BY <2>2, <2>3, <2>4 DEF Clash
  <2>5. CASE b # a /\ c # a BY <2>1, <2>3, <2>5 DEF InFlightUnique
  <2>6. QED BY <2>4, <2>5
<1>3. CASE /\ (\E a \in Attempts : AttemptCall(a)) \/ SubmitCall \/ (\E i \in AppIds : Ingest(i))
           /\ UNCHANGED form
  BY <1>3, CallInFlight DEF InFlightUnique
<1>4. QED BY <1>1, <1>2, <1>3 DEF StoreNext

\* create_attempt's rule survives every later call: two attempts in flight never
\* point at one posting.
THEOREM OneAttemptInFlight == ASSUME Isolated PROVE Spec => []InFlightUnique
<1>1. StoreInit => InFlightUnique
  BY EmptyDbType DEF StoreInit, InFlightUnique, EmptyDb, NoRow, InFlight, Statuses
<1>2. TypeInv => db \in Database /\ form \in [Attempts -> Form] BY DEF TypeInv, TypeOK
<1>3. TypeInv /\ InFlightUnique /\ [StoreNext]_storeVars => InFlightUnique' BY <1>2, CallUnique
<1>4. QED BY <1>1, <1>3, TypeCorrect, ServiceImplementsStore, PTL DEF StoreSpec

\* Rows in use have an owner, the others have none.
SubmitsOwned == \A s \in Submits : db.sub[s].status # "none" <=> db.sub[s].owner \in Attempts
SubmitInv == SubmitsOwned /\ SubmitKeyUnique

LEMMA CallSubmits ==
  ASSUME db \in Database, SubmitInv, [StoreNext]_storeVars
  PROVE  SubmitInv'
<1>1. CASE db'.sub = db.sub BY <1>1 DEF SubmitInv, SubmitsOwned, SubmitKeyUnique
<1>2. CASE UNCHANGED storeVars BY <1>1, <1>2 DEF storeVars
<1>3. ASSUME NEW a \in Attempts, NEW s \in Submits, NEW n \in 0 .. MaxCount, OpenSubmit(a, s, n)
      PROVE  SubmitInv'
  <2>1. /\ db'.sub[s].owner = a /\ db'.sub[s].count = n /\ db'.sub[s].status = "queued"
        /\ \A r \in Submits \ {s} : db'.sub[r] = db.sub[r]
    BY <1>3 DEF OpenSubmit, Submitted, Database
  <2>2. \A r \in Submits \ {s} : db.sub[r].owner = a => db.sub[r].count # n
    BY <1>3 DEF OpenSubmit, CanSubmit, SubmitInv, SubmitsOwned
  <2>3. QED BY <2>1, <2>2 DEF SubmitInv, SubmitsOwned, SubmitKeyUnique
<1>4. ASSUME NEW s \in Submits, NEW status \in SubmitOutcomes, NEW n \in 0 .. MaxApps, CloseSubmit(s, status, n)
      PROVE  SubmitInv'
  <2>1. db'.sub = [db.sub EXCEPT ![s] = CompletedRow(db.sub[s], status, n)]
    BY <1>4 DEF CloseSubmit, Completed, Database
  <2>2. db.sub[s] \in SubmitRow BY DEF Database
  <2>3. /\ db'.sub[s].owner = db.sub[s].owner /\ db'.sub[s].count = db.sub[s].count
        /\ db'.sub[s].status = status /\ status # "none"
        /\ \A r \in Submits \ {s} : db'.sub[r] = db.sub[r]
    BY <2>1, <2>2 DEF CompletedRow, SubmitRow, SubmitOutcomes, Database
  <2>4. db.sub[s].status # "none" BY <1>4 DEF CloseSubmit
  <2>5. QED BY <2>3, <2>4 DEF SubmitInv, SubmitsOwned, SubmitKeyUnique
<1>5. ASSUME NEW a \in Attempts, NEW f \in Bodies, Insert(a, f) PROVE db'.sub = db.sub
  BY <1>5 DEF Insert, Created, Database
<1>6. ASSUME NEW i \in AppIds, Ingest(i) PROVE db'.sub = db.sub BY <1>6 DEF Ingest, HookIngested, Database
<1>7. ASSUME NEW a \in Attempts, AttemptCall(a),
             ~\E s \in Submits, n \in 0 .. MaxCount : OpenSubmit(a, s, n)
      PROVE  db'.sub = db.sub
  BY <1>7
  DEF AttemptCall, Put, Lock, Sign, LockQueue, NoteCancel, Move, PackagePut, Locked, Approved, Queued, CancelNoted,
      Moved, Database
<1>8. QED BY <1>1, <1>2, <1>3, <1>4, <1>5, <1>6, <1>7 DEF StoreNext, SubmitCall

\* No two submit rows of an attempt carry the same dequeue count, which is their
\* idempotency key at the vendor.
THEOREM OneRowPerKey == ASSUME Isolated PROVE Spec => []SubmitKeyUnique
<1>1. StoreInit => SubmitInv
  BY NoneAssumption DEF StoreInit, SubmitInv, SubmitsOwned, SubmitKeyUnique, EmptyDb, NoSubmit
<1>2. TypeInv => db \in Database BY DEF TypeInv, TypeOK
<1>3. TypeInv /\ SubmitInv /\ [StoreNext]_storeVars => SubmitInv' BY <1>2, CallSubmits
<1>4. SubmitInv => SubmitKeyUnique BY DEF SubmitInv
<1>5. QED BY <1>1, <1>3, <1>4, TypeCorrect, ServiceImplementsStore, PTL DEF StoreSpec

-----------------------------------------------------------------------------
(* What a step does to the handler of t.                                   *)

Step(t) == RequestStep(t) \/ WorkStep(t) \/ Arrival(t) \/ Deliver(t) \/ Die(t)
\* Where a handler goes on that neither returned nor raised.
Flow == {<<"idle", "create">>, <<"idle", "cancel">>, <<"idle", "manual">>, <<"idle", "hook">>, <<"idle", "read">>,
         <<"create", "artifacts">>, <<"artifacts", "package">>, <<"package", "approve">>, <<"approve", "queue">>,
         <<"queue", "enqueue">>, <<"enqueue", "read">>, <<"cancel", "mark">>,
         <<"read", "requeue">>, <<"requeue", "reread">>, <<"read", "putpkg">>, <<"reread", "putpkg">>,
         <<"putpkg", "lockpkg">>, <<"lockpkg", "review">>, <<"read", "start">>, <<"reread", "start">>,
         <<"start", "mksub">>, <<"mksub", "post">>, <<"post", "complete">>, <<"complete", "limit">>,
         <<"complete", "submitted">>, <<"limit", "resend">>, <<"resend", "read">>, <<"submitted", "succeeded">>}
Ended(t) == th'[t].pc \in {"idle", "ack"}
Continues(t) == <<th[t].pc, th'[t].pc>> \in Flow /\ (th[t].pc \notin {"idle", "create"} => th'[t].a = th[t].a)
OnlyMoves(t) == \A u \in Threads \ {t} : th'[u] = th[u]

LEMMA Ends ==
  ASSUME TypeInv, NEW t \in Threads, Raise(t) \/ Done(t)
  PROVE  OnlyMoves(t) /\ th'[t].pc \in {"idle", "ack"}
<1>1. th[t] \in Handler BY DEF TypeInv, TypeOK
<1>2. CASE Raise(t) BY <1>2, IdleFits DEF Raise, OnlyMoves, TypeInv, TypeOK
<1>3. CASE Done(t)
  <2> DEFINE r == IF th[t].msg = None THEN Idle ELSE [th[t] EXCEPT !.pc = "ack"]
  <2>1. r.pc \in {"idle", "ack"} BY <1>1, IdleFits DEF Handler
  <2>2. th' = [th EXCEPT ![t] = r] BY <1>3 DEF Done
  <2> HIDE DEF r
  <2>3. QED BY <2>1, <2>2 DEF OnlyMoves, TypeInv, TypeOK
<1>4. QED BY <1>2, <1>3

LEMMA GoesOn ==
  ASSUME TypeInv, NEW t \in Threads, NEW c, Goto(t, c)
  PROVE  OnlyMoves(t) /\ th'[t].pc = c /\ th'[t].a = th[t].a /\ th'[t].out = th[t].out
  BY DEF Goto, OnlyMoves, TypeInv, TypeOK, Handler

LEMMA FlowGoto ==
  ASSUME TypeInv, NEW t \in Threads, NEW c, Goto(t, c), <<th[t].pc, c>> \in Flow
  PROVE  OnlyMoves(t) /\ Continues(t)
  BY GoesOn DEF Continues

LEMMA FlowCall ==
  ASSUME TypeInv, NEW t \in Threads, NEW ok, NEW v, NEW c, Call(t, ok, v, c), <<th[t].pc, c>> \in Flow
  PROVE  OnlyMoves(t) /\ (Ended(t) \/ Continues(t))
  BY FlowGoto, Ends DEF Call, Ended

LEMMA FlowRequest ==
  ASSUME TypeInv, NEW t \in Threads, RequestStep(t)
  PROVE  OnlyMoves(t) /\ (Ended(t) \/ Continues(t))
<1>1. th \in [Threads -> Handler] BY DEF TypeInv, TypeOK
<1>2. Raise(t) \/ Done(t) => OnlyMoves(t) /\ Ended(t) BY Ends DEF Ended
<1>3. CASE CreateAttempt(t)
  <2>1. Raise(t) \/ \E a \in Attempts : th' = [th EXCEPT ![t].pc = "artifacts", ![t].a = a]
    BY <1>3 DEF CreateAttempt, Unborn
  <2>2. ASSUME NEW a \in Attempts, th' = [th EXCEPT ![t].pc = "artifacts", ![t].a = a]
        PROVE  OnlyMoves(t) /\ th'[t].pc = "artifacts"
    BY <1>1, <2>2 DEF OnlyMoves, Handler
  <2>3. th[t].pc = "create" BY <1>3 DEF CreateAttempt, At
  <2>4. QED BY <1>2, <2>1, <2>2, <2>3 DEF Continues, Flow
<1>4. CASE PutArtifacts(t) BY <1>4, FlowCall DEF PutArtifacts, At, Flow
<1>5. CASE PutPackage(t) BY <1>5, FlowCall DEF PutPackage, At, Flow
<1>6. CASE Approve(t) BY <1>6, FlowCall DEF Approve, At, Flow
<1>7. CASE Queue(t) BY <1>2, <1>7, FlowGoto DEF Queue, At, Flow
<1>8. CASE Enqueue(t)
  <2>1. OnlyMoves(t) BY <1>1, <1>8 DEF Enqueue, OnlyMoves
  <2>2. th'[t] = Idle \/ (th'[t].pc = "read" /\ th'[t].a = th[t].a) BY <1>1, <1>8 DEF Enqueue, Handler
  <2>3. QED BY <1>8, <2>1, <2>2, IdleFits DEF Enqueue, Ended, Continues, Flow
<1>9. CASE CancelMove(t) BY <1>2, <1>9, FlowCall DEF CancelMove, LastCall, At, Flow
<1>10. CASE CancelMark(t) BY <1>2, <1>10 DEF CancelMark
<1>11. CASE ManualMove(t) \/ IngestWebhook(t) BY <1>2, <1>11 DEF ManualMove, IngestWebhook, LastCall
<1>12. QED BY <1>3, <1>4, <1>5, <1>6, <1>7, <1>8, <1>9, <1>10, <1>11 DEF RequestStep

LEMMA FlowWork ==
  ASSUME TypeInv, NEW t \in Threads, WorkStep(t)
  PROVE  OnlyMoves(t) /\ (Ended(t) \/ Continues(t))
<1>1. th \in [Threads -> Handler] BY DEF TypeInv, TypeOK
<1>2. Raise(t) \/ Done(t) => OnlyMoves(t) /\ Ended(t) BY Ends DEF Ended
<1>3. CASE Ack(t) BY <1>1, <1>3, IdleFits DEF Ack, Ended, OnlyMoves
<1>4. CASE Read(t) BY <1>2, <1>4, FlowGoto DEF Read, Reading, Flow
<1>5. CASE Requeue(t) BY <1>2, <1>5, FlowGoto DEF Requeue, At, Flow
<1>6. CASE WorkerPackage(t) BY <1>6, FlowGoto DEF WorkerPackage, At, Flow
<1>7. CASE LockPackage(t) BY <1>7, FlowCall DEF LockPackage, At, Flow
<1>8. CASE NeedsReview(t) \/ MarkSucceeded(t) BY <1>2, <1>8 DEF NeedsReview, MarkSucceeded, LastCall
<1>9. CASE Start(t) BY <1>9, FlowCall DEF Start, At, Flow
<1>10. CASE CreateSubmit(t)
  <2>1. Raise(t) \/ \E s \in Submits : th' = [th EXCEPT ![t].pc = "post", ![t].sid = s] BY <1>10 DEF CreateSubmit
  <2>2. ASSUME NEW s \in Submits, th' = [th EXCEPT ![t].pc = "post", ![t].sid = s]
        PROVE  OnlyMoves(t) /\ th'[t].pc = "post" /\ th'[t].a = th[t].a
    BY <1>1, <2>2 DEF OnlyMoves, Handler
  <2>3. th[t].pc = "mksub" BY <1>10 DEF CreateSubmit, At
  <2>4. QED BY <1>2, <2>1, <2>2, <2>3 DEF Continues, Flow
<1>11. CASE Post(t)
  <2>1. Raise(t) \/ \E out, n : th' = [th EXCEPT ![t].pc = "complete", ![t].out = out, ![t].app = n]
    BY <1>11 DEF Post, Answered
  <2>2. ASSUME NEW out, NEW n, th' = [th EXCEPT ![t].pc = "complete", ![t].out = out, ![t].app = n]
        PROVE  OnlyMoves(t) /\ th'[t].pc = "complete" /\ th'[t].a = th[t].a
    BY <1>1, <2>2 DEF OnlyMoves, Handler
  <2>3. th[t].pc = "post" BY <1>11 DEF Post
  <2>4. QED BY <1>2, <2>1, <2>2, <2>3 DEF Continues, Flow
<1>12. CASE Complete(t) BY <1>2, <1>12, FlowCall DEF Complete, LastCall, At, Flow
<1>13. CASE RateLimit(t) BY <1>2, <1>13, FlowCall DEF RateLimit, LastCall, At, Flow
<1>14. CASE Resend(t)
  <2>1. OnlyMoves(t) BY <1>1, <1>14 DEF Resend, OnlyMoves
  <2>2. th'[t].pc = "ack" \/ (th'[t].pc = "read" /\ th'[t].a = th[t].a) BY <1>1, <1>14 DEF Resend, Handler, Idle
  <2>3. QED BY <1>14, <2>1, <2>2 DEF Resend, Ended, Continues, Flow
<1>15. CASE MarkSubmitted(t) BY <1>15, FlowCall DEF MarkSubmitted, At, Flow
<1>16. QED
  BY <1>3, <1>4, <1>5, <1>6, <1>7, <1>8, <1>9, <1>10, <1>11, <1>12, <1>13, <1>14, <1>15 DEF WorkStep

LEMMA StepFlow ==
  ASSUME TypeInv, NEW t \in Threads, Step(t)
  PROVE  OnlyMoves(t) /\ (Ended(t) \/ Continues(t))
<1>1. th \in [Threads -> Handler] BY DEF TypeInv, TypeOK
<1>2. CASE Die(t) BY <1>2, Ends DEF Die, Ended
<1>3. CASE Deliver(t)
  <2>1. OnlyMoves(t) BY <1>1, <1>3 DEF Deliver, OnlyMoves
  <2>2. th[t].pc = "idle" /\ th'[t].pc \in {"idle", "read"} BY <1>1, <1>3 DEF Deliver, Idle
  <2>3. QED BY <2>1, <2>2 DEF Ended, Continues, Flow
<1>4. CASE Arrival(t)
  <2>1. th[t].pc = "idle" BY <1>4 DEF Arrival, CreateRequest, CancelRead, ManualRead, WebhookArrives
  <2>2. OnlyMoves(t)
    BY <1>1, <1>4 DEF Arrival, CreateRequest, CancelRead, ManualRead, WebhookArrives, Goto, OnlyMoves
  <2>3. CASE CreateRequest(t) BY <1>1, <2>1, <2>2, <2>3 DEF CreateRequest, Goto, Handler, Continues, Flow
  <2>4. CASE CancelRead(t) BY <1>1, <2>1, <2>2, <2>4 DEF CancelRead, Handler, Continues, Flow
  <2>5. CASE ManualRead(t) BY <1>1, <2>1, <2>2, <2>5 DEF ManualRead, Handler, Continues, Flow
  <2>6. CASE WebhookArrives(t)
    <3>1. PICK a, n : th' = [th EXCEPT ![t].pc = "hook", ![t].a = a, ![t].app = n] BY <2>6 DEF WebhookArrives
    <3>2. th'[t].pc = "hook" BY <1>1, <3>1 DEF Handler
    <3>3. QED BY <2>1, <2>2, <3>2 DEF Continues, Flow
  <2>7. QED BY <1>4, <2>3, <2>4, <2>5, <2>6 DEF Arrival
<1>5. QED BY <1>2, <1>3, <1>4, FlowRequest, FlowWork DEF Step

\* The point a handler is at says what it does next, unless it dies.
LEMMA ActionOf ==
  ASSUME NEW t \in Threads, Step(t), ~Die(t)
  PROVE  /\ th[t].pc = "idle" => Arrival(t) \/ Deliver(t)
         /\ th[t].pc = "create" => CreateAttempt(t)
         /\ th[t].pc = "artifacts" => PutArtifacts(t)
         /\ th[t].pc = "package" => PutPackage(t)
         /\ th[t].pc = "approve" => Approve(t)
         /\ th[t].pc = "enqueue" => Enqueue(t)
         /\ th[t].pc \in Reading => Read(t)
         /\ th[t].pc = "requeue" => Requeue(t)
         /\ th[t].pc = "start" => Start(t)
         /\ th[t].pc = "mksub" => CreateSubmit(t)
         /\ th[t].pc = "post" => Post(t)
         /\ th[t].pc = "complete" => Complete(t)
         /\ th[t].pc = "limit" => RateLimit(t)
         /\ th[t].pc = "resend" => Resend(t)
         /\ th[t].pc = "submitted" => MarkSubmitted(t)
<1>1. /\ CreateAttempt(t) => th[t].pc = "create"
      /\ PutArtifacts(t) => th[t].pc = "artifacts"
      /\ PutPackage(t) => th[t].pc = "package"
      /\ Approve(t) => th[t].pc = "approve"
      /\ Queue(t) => th[t].pc = "queue"
      /\ Enqueue(t) => th[t].pc = "enqueue"
      /\ CancelMove(t) => th[t].pc = "cancel"
      /\ CancelMark(t) => th[t].pc = "mark"
      /\ ManualMove(t) => th[t].pc = "manual"
      /\ IngestWebhook(t) => th[t].pc = "hook"
  BY DEF CreateAttempt, PutArtifacts, PutPackage, Approve, Queue, Enqueue, CancelMove, CancelMark, ManualMove,
         IngestWebhook, At
<1>2. /\ Ack(t) => th[t].pc = "ack"
      /\ Read(t) => th[t].pc \in Reading
      /\ Requeue(t) => th[t].pc = "requeue"
      /\ WorkerPackage(t) => th[t].pc = "putpkg"
      /\ LockPackage(t) => th[t].pc = "lockpkg"
      /\ NeedsReview(t) => th[t].pc = "review"
      /\ Start(t) => th[t].pc = "start"
      /\ CreateSubmit(t) => th[t].pc = "mksub"
      /\ Post(t) => th[t].pc = "post"
      /\ Complete(t) => th[t].pc = "complete"
      /\ RateLimit(t) => th[t].pc = "limit"
      /\ Resend(t) => th[t].pc = "resend"
      /\ MarkSubmitted(t) => th[t].pc = "submitted"
      /\ MarkSucceeded(t) => th[t].pc = "succeeded"
  BY DEF Ack, Read, Requeue, WorkerPackage, LockPackage, NeedsReview, Start, CreateSubmit, Post, Complete, RateLimit,
         Resend, MarkSubmitted, MarkSucceeded, At
<1>3. Arrival(t) \/ Deliver(t) => th[t].pc = "idle"
  BY DEF Arrival, CreateRequest, CancelRead, ManualRead, WebhookArrives, Deliver
<1>4. QED BY <1>1, <1>2, <1>3 DEF Step, RequestStep, WorkStep, Reading

LEMMA ActionAt ==
  ASSUME TypeInv, NEW t \in Threads, Step(t), th'[t].pc \notin {"idle", "ack"}
  PROVE  /\ th[t].pc = "idle" => Arrival(t) \/ Deliver(t)
         /\ th[t].pc = "create" => CreateAttempt(t)
         /\ th[t].pc = "artifacts" => PutArtifacts(t)
         /\ th[t].pc = "package" => PutPackage(t)
         /\ th[t].pc = "approve" => Approve(t)
         /\ th[t].pc = "enqueue" => Enqueue(t)
         /\ th[t].pc \in Reading => Read(t)
         /\ th[t].pc = "requeue" => Requeue(t)
         /\ th[t].pc = "start" => Start(t)
         /\ th[t].pc = "mksub" => CreateSubmit(t)
         /\ th[t].pc = "post" => Post(t)
         /\ th[t].pc = "complete" => Complete(t)
         /\ th[t].pc = "limit" => RateLimit(t)
         /\ th[t].pc = "resend" => Resend(t)
         /\ th[t].pc = "submitted" => MarkSubmitted(t)
  BY Ends, ActionOf DEF Die

-----------------------------------------------------------------------------
(* What a step does to the store: at most one call commits, and what it     *)
(* writes is its view of the store after one rule.                         *)

\* The transitions, by the call that makes them.
Transitions == {<<"queue", "queued">>, <<"cancel", "failed">>, <<"manual", "submitted">>, <<"requeue", "queued">>,
                <<"review", "needs_review">>, <<"start", "submitting">>, <<"complete", "failed">>,
                <<"limit", "rate_limited">>, <<"submitted", "submitted">>, <<"succeeded", "succeeded">>}
AttemptWrites(t, a, v, w) ==
  \/ \E who \in {"request", "worker"} : w = PackagePut(v, a, who)
  \/ th[t].pc = "approve" /\ w = Approved(v, a)
  \/ (th[t].pc = "lockpkg" \/ v.att[a].approved) /\ w = Locked(v, a)
  \/ th[t].pc = "queue" /\ CanQueue(v, form, a) /\ w = Queued(v, a)
  \/ \E s \in Statuses : <<th[t].pc, s>> \in Transitions /\ CanMove(v, a, s) /\ w = Moved(v, a, s)
SubmitWrites(t, v, w) ==
  \/ /\ th[t].pc = "mksub"
     /\ \E s \in Submits : db.sub[s].status = "none" /\ th'[t].sid = s /\ w = Submitted(v, s, th[t].a, th[t].count)
  \/ /\ At(t, "complete") /\ CanComplete(v, th[t].sid, th[t].app)
     /\ w = Completed(v, th[t].sid, SubmitStatus(th[t].out), th[t].app)
Writes(t, v, w) ==
  \/ w = v
  \/ th[t].pc = "create" /\ \E a \in Unborn : w = Created(v, a)
  \/ th[t].pc \in HasAttempt /\ AttemptWrites(t, th[t].a, v, w)
  \/ SubmitWrites(t, v, w)
  \/ th[t].pc = "hook" /\ w = HookIngested(v, <<th[t].a, th[t].app>>)
  \/ ~Isolated /\ w = Interrupted(v)
Commits(t) == \E w : Commit(t, w) /\ Writes(t, View(t), w)
Quiet(t) == UNCHANGED db /\ (UNCHANGED snap \/ snap' = [snap EXCEPT ![t] = NoSnap])
Notes(t) == th[t].pc = "mark" /\ db' = CancelNoted(db, th[t].a) /\ UNCHANGED snap

LEMMA CallCommits ==
  ASSUME NEW t \in Threads, NEW ok, NEW v, (\E c : Call(t, ok, v, c)) \/ LastCall(t, ok, v),
         ok => Writes(t, View(t), v)
  PROVE  Quiet(t) \/ Commits(t)
  BY DEF Call, LastCall, NoCommit, Quiet, Commits

LEMMA RequestWrites ==
  ASSUME TypeInv, NEW t \in Threads, RequestStep(t)
  PROVE  Quiet(t) \/ Notes(t) \/ Commits(t)
<1>1. th[t].pc \in {"package", "approve", "queue", "cancel", "manual"} => th[t].pc \in HasAttempt
  BY DEF HasAttempt, Pcs, Calls
<1>2. CASE CreateAttempt(t) BY <1>2 DEF CreateAttempt, At, NoCommit, Quiet, Commits, Writes
<1>3. CASE PutArtifacts(t) BY <1>3, CallCommits DEF PutArtifacts, Writes
<1>4. CASE PutPackage(t) BY <1>1, <1>4, CallCommits DEF PutPackage, At, Writes, AttemptWrites
<1>5. CASE Approve(t) BY <1>1, <1>5, CallCommits DEF Approve, At, Writes, AttemptWrites
<1>6. CASE Queue(t)
  <2> DEFINE a == th[t].a
             v == View(t)
  <2>1. th[t].pc = "queue" /\ th[t].pc \in HasAttempt BY <1>1, <1>6 DEF Queue, At
  <2>2. /\ Writes(t, v, v) /\ (v.att[a].approved => Writes(t, v, Locked(v, a)))
        /\ CanQueue(v, form, a) => Writes(t, v, Queued(v, a))
    BY <2>1 DEF Writes, AttemptWrites
  <2>3. \/ NoCommit(t) \/ Commit(t, v) \/ (v.att[a].approved /\ Commit(t, Locked(v, a)))
        \/ (CanQueue(v, form, a) /\ Commit(t, Queued(v, a)))
    BY <1>6 DEF Queue, QueueRefused
  <2>4. QED BY <2>2, <2>3 DEF NoCommit, Quiet, Commits
<1>7. CASE Enqueue(t) BY <1>7 DEF Enqueue, Quiet
<1>8. CASE CancelMove(t)
  <2>1. CanMove(View(t), th[t].a, "failed") => Writes(t, View(t), Moved(View(t), th[t].a, "failed"))
    BY <1>1, <1>8 DEF CancelMove, At, Writes, AttemptWrites, Transitions, Statuses
  <2>2. QED BY <1>8, <2>1, CallCommits DEF CancelMove
<1>9. CASE CancelMark(t) BY <1>9 DEF CancelMark, Notes
<1>10. CASE ManualMove(t)
  <2>1. CanMove(View(t), th[t].a, "submitted") => Writes(t, View(t), Moved(View(t), th[t].a, "submitted"))
    BY <1>1, <1>10 DEF ManualMove, At, Writes, AttemptWrites, Transitions, Statuses
  <2>2. QED BY <1>10, <2>1, CallCommits DEF ManualMove
<1>11. CASE IngestWebhook(t) BY <1>11, CallCommits DEF IngestWebhook, At, Writes
<1>12. QED BY <1>2, <1>3, <1>4, <1>5, <1>6, <1>7, <1>8, <1>9, <1>10, <1>11 DEF RequestStep

LEMMA WorkWrites ==
  ASSUME TypeInv, NEW t \in Threads, WorkStep(t)
  PROVE  Quiet(t) \/ Commits(t)
<1> DEFINE a == th[t].a
           v == View(t)
<1>1. ASSUME NEW s \in Statuses, CanMove(v, a, s), th[t].pc \in HasAttempt, <<th[t].pc, s>> \in Transitions
      PROVE  Writes(t, v, Moved(v, a, s))
  BY <1>1 DEF Writes, AttemptWrites
<1>2. {"requeue", "putpkg", "lockpkg", "review", "start", "limit", "submitted", "succeeded"} \subseteq HasAttempt
  BY DEF HasAttempt, Pcs, Calls
<1>3. {"queued", "needs_review", "submitting", "rate_limited", "submitted", "succeeded"} \subseteq Statuses
  BY DEF Statuses
<1>4. CASE Ack(t) \/ Read(t) \/ Post(t) \/ Resend(t) BY <1>4 DEF Ack, Read, Post, Resend, Quiet
<1>5. CASE Requeue(t)
  <2>1. NoCommit(t) \/ (CanMove(v, a, "queued") /\ Commit(t, Moved(v, a, "queued"))) BY <1>5 DEF Requeue
  <2>2. th[t].pc = "requeue" /\ <<th[t].pc, "queued">> \in Transitions BY <1>5 DEF Requeue, At, Transitions
  <2>3. QED BY <1>1, <1>2, <1>3, <2>1, <2>2 DEF NoCommit, Quiet, Commits
<1>6. CASE WorkerPackage(t)
  <2>1. NoCommit(t) \/ Commit(t, PackagePut(v, a, "worker")) BY <1>6 DEF WorkerPackage
  <2>2. Writes(t, v, PackagePut(v, a, "worker")) BY <1>2, <1>6 DEF WorkerPackage, At, Writes, AttemptWrites
  <2>3. QED BY <2>1, <2>2 DEF NoCommit, Quiet, Commits
<1>7. CASE LockPackage(t)
  <2>1. Writes(t, v, Locked(v, a)) BY <1>2, <1>7 DEF LockPackage, At, Writes, AttemptWrites
  <2>2. QED BY <1>7, <2>1, CallCommits DEF LockPackage
<1>8. CASE NeedsReview(t)
  <2>1. CanMove(v, a, "needs_review") => Writes(t, v, Moved(v, a, "needs_review"))
    BY <1>1, <1>2, <1>3, <1>8 DEF NeedsReview, At, Transitions
  <2>2. QED BY <1>8, <2>1, CallCommits DEF NeedsReview
<1>9. CASE Start(t)
  <2>1. CanMove(v, a, "submitting") => Writes(t, v, Moved(v, a, "submitting"))
    BY <1>1, <1>2, <1>3, <1>9 DEF Start, At, Transitions
  <2>2. QED BY <1>9, <2>1, CallCommits DEF Start
<1>10. CASE CreateSubmit(t)
  <2>1. th[t] \in Handler BY DEF TypeInv, TypeOK
  <2>2. ASSUME NEW s \in Submits, th' = [th EXCEPT ![t].pc = "post", ![t].sid = s] PROVE th'[t].sid = s
    BY <2>1, <2>2 DEF TypeInv, TypeOK, Handler
  <2>3. \/ NoCommit(t)
        \/ \E s \in Submits : /\ db.sub[s].status = "none" /\ th'[t].sid = s
                              /\ Commit(t, Submitted(v, s, a, th[t].count))
        \/ ~Isolated /\ Commit(t, Interrupted(v))
    BY <1>10, <2>2 DEF CreateSubmit, View
  <2>4. QED BY <1>10, <2>3 DEF CreateSubmit, At, NoCommit, Quiet, Commits, Writes, SubmitWrites
<1>11. CASE Complete(t)
  <2> DEFINE w == Completed(v, th[t].sid, SubmitStatus(th[t].out), th[t].app)
             ok == CanComplete(v, th[t].sid, th[t].app)
  <2>1. ok => Writes(t, v, w) BY <1>11 DEF Complete, At, Writes, SubmitWrites
  <2>2. Call(t, ok, w, "limit") \/ Call(t, ok, w, "submitted") \/ LastCall(t, ok, w) BY <1>11 DEF Complete
  <2> HIDE DEF w, ok
  <2>3. QED BY <2>1, <2>2, CallCommits
<1>12. CASE RateLimit(t)
  <2>1. CanMove(v, a, "rate_limited") => Writes(t, v, Moved(v, a, "rate_limited"))
    BY <1>1, <1>2, <1>3, <1>12 DEF RateLimit, At, Transitions
  <2>2. QED BY <1>12, <2>1, CallCommits DEF RateLimit
<1>13. CASE MarkSubmitted(t)
  <2>1. CanMove(v, a, "submitted") => Writes(t, v, Moved(v, a, "submitted"))
    BY <1>1, <1>2, <1>3, <1>13 DEF MarkSubmitted, At, Transitions
  <2>2. QED BY <1>13, <2>1, CallCommits DEF MarkSubmitted
<1>14. CASE MarkSucceeded(t)
  <2>1. CanMove(v, a, "succeeded") => Writes(t, v, Moved(v, a, "succeeded"))
    BY <1>1, <1>2, <1>3, <1>14 DEF MarkSucceeded, At, Transitions
  <2>2. QED BY <1>14, <2>1, CallCommits DEF MarkSucceeded
<1>15. QED
  BY <1>4, <1>5, <1>6, <1>7, <1>8, <1>9, <1>10, <1>11, <1>12, <1>13, <1>14 DEF WorkStep

LEMMA StepWrites ==
  ASSUME TypeInv, NEW t \in Threads, Step(t)
  PROVE  Quiet(t) \/ Notes(t) \/ Commits(t)
<1>1. CASE Arrival(t) \/ Deliver(t) \/ Die(t)
  BY <1>1 DEF Arrival, CreateRequest, CancelRead, ManualRead, WebhookArrives, Deliver, Die, NoCommit, Quiet
<1>2. QED BY <1>1, RequestWrites, WorkWrites DEF Step

\* What a call that is atomic leaves of the submit rows ...
LEMMA RowsAfter ==
  ASSUME Isolated, TypeInv, NEW t \in Threads, Step(t)
  PROVE  \/ db'.sub = db.sub
         \/ /\ th[t].pc = "mksub"
            /\ \E s \in Submits :
                 /\ db.sub[s].status = "none" /\ th'[t].sid = s
                 /\ db'.sub = [db.sub EXCEPT ![s] = [owner |-> th[t].a, count |-> th[t].count, app |-> 0,
                                                    status |-> "queued"]]
         \/ /\ th[t].pc = "complete" /\ CanComplete(db, th[t].sid, th[t].app)
            /\ db'.sub = [db.sub EXCEPT ![th[t].sid] =
                             CompletedRow(db.sub[th[t].sid], SubmitStatus(th[t].out), th[t].app)]
<1> DEFINE a == th[t].a
<1>1. db \in Database BY DEF TypeInv, TypeOK
<1>2. CASE Quiet(t) BY <1>2 DEF Quiet
<1>3. CASE Notes(t) BY <1>1, <1>3 DEF Notes, CancelNoted, Database
<1>4. ASSUME NEW w, Commit(t, w), Writes(t, db, w) PROVE w = db'
  BY <1>4 DEF Commit
<1>5. CASE db' = db BY <1>5
<1>6. ASSUME NEW b \in Unborn, db' = Created(db, b) PROVE db'.sub = db.sub
  BY <1>1, <1>6, CreatedFits DEF Unborn
<1>7. CASE AttemptWrites(t, a, db, db')
  <2>1. \A s : Moved(db, a, s).sub = db.sub BY <1>1 DEF Moved, Database
  <2>2. Queued(db, a).sub = db.sub BY <1>1 DEF Queued, Moved, Locked, Database
  <2>3. /\ Locked(db, a).sub = db.sub /\ Approved(db, a).sub = db.sub
        /\ \A who : PackagePut(db, a, who).sub = db.sub
    BY <1>1 DEF Locked, Approved, PackagePut, Database
  <2>4. QED BY <1>7, <2>1, <2>2, <2>3 DEF AttemptWrites
<1>8. CASE SubmitWrites(t, db, db') BY <1>1, <1>8 DEF SubmitWrites, At, Submitted, Completed, Database
<1>9. ASSUME NEW i, db' = HookIngested(db, i) PROVE db'.sub = db.sub BY <1>1, <1>9 DEF HookIngested, Database
<1>10. QED BY <1>2, <1>3, <1>4, <1>5, <1>6, <1>7, <1>8, <1>9, StepWrites DEF Commits, Writes, View

\* RowsAfter, row by row.
LEMMA RowAfter ==
  ASSUME Isolated, TypeInv, NEW t \in Threads, Step(t), NEW s \in Submits
  PROVE  \/ db'.sub[s] = db.sub[s]
         \/ /\ th[t].pc = "mksub" /\ db.sub[s].status = "none" /\ db'.sub[s].status = "queued"
            /\ db'.sub[s].owner = th[t].a /\ db'.sub[s].count = th[t].count
         \/ /\ th[t].pc = "complete" /\ s = th[t].sid /\ CanComplete(db, s, th[t].app)
            /\ db'.sub[s].status = SubmitStatus(th[t].out)
            /\ db'.sub[s].owner = th[t].a /\ db'.sub[s].count = db.sub[s].count
<1>1. db.sub \in [Submits -> SubmitRow] BY DEF TypeInv, TypeOK, Database
<1>2. CASE db'.sub = db.sub BY <1>2
<1>3. ASSUME NEW r \in Submits, db.sub[r].status = "none", th[t].pc = "mksub",
             db'.sub = [db.sub EXCEPT ![r] = [owner |-> th[t].a, count |-> th[t].count, app |-> 0, status |-> "queued"]]
      PROVE  \/ db'.sub[s] = db.sub[s]
             \/ /\ db.sub[s].status = "none" /\ db'.sub[s].status = "queued"
                /\ db'.sub[s].owner = th[t].a /\ db'.sub[s].count = th[t].count
  BY <1>1, <1>3
<1>4. CASE /\ th[t].pc = "complete" /\ CanComplete(db, th[t].sid, th[t].app)
           /\ db'.sub = [db.sub EXCEPT ![th[t].sid] =
                            CompletedRow(db.sub[th[t].sid], SubmitStatus(th[t].out), th[t].app)]
  <2>1. CASE s # th[t].sid BY <1>1, <1>4, <2>1
  <2>2. CASE s = th[t].sid
    <3>1. db.sub[s] \in SubmitRow /\ db.sub[s].owner = th[t].a BY <1>1, <1>4, <2>2, CompleteArguments
    <3>2. db'.sub[s] = CompletedRow(db.sub[s], SubmitStatus(th[t].out), th[t].app) BY <1>1, <1>4, <2>2
    <3>3. QED BY <1>4, <2>2, <3>1, <3>2 DEF CompletedRow, SubmitRow
  <2>3. QED BY <2>1, <2>2
<1>5. QED BY <1>2, <1>3, <1>4, RowsAfter

\* What a step leaves of a row that its handler is not completing.
LEMMA OtherRows ==
  ASSUME Isolated, TypeInv, NEW t \in Threads, Step(t), NEW s \in Submits, db.sub[s].status # "none",
         th[t].pc = "complete" => s # th[t].sid
  PROVE  db'.sub[s] = db.sub[s]
  BY RowAfter

\* ... and of the statuses.
LEMMA StatusAfter ==
  ASSUME Isolated, TypeInv, NEW t \in Threads, Step(t)
  PROVE  \/ SameStatus(db, db')
         \/ th[t].pc = "create" /\ \E a \in Unborn : SetStatus(db, db', a, "draft")
         \/ /\ th[t].pc \in HasAttempt
            /\ \E s \in Statuses : /\ s \in AllowedFrom(db.att[th[t].a].status)
                                   /\ <<th[t].pc, s>> \in Transitions
                                   /\ SetStatus(db, db', th[t].a, s)
<1> DEFINE a == th[t].a
<1>1. db \in Database BY DEF TypeInv, TypeOK
<1>2. CASE Quiet(t) BY <1>2 DEF Quiet, SameStatus
<1>3. CASE Notes(t) BY <1>1, <1>3 DEF Notes, CancelNoted, Database, AttemptRow, SameStatus
<1>4. ASSUME NEW w, Commit(t, w) PROVE w = db'
  BY <1>4 DEF Commit
<1>5. CASE db' = db BY <1>5 DEF SameStatus
<1>6. ASSUME NEW b \in Unborn, th[t].pc = "create", db' = Created(db, b) PROVE SetStatus(db, db', b, "draft")
  BY <1>1, <1>6, CreatedSets DEF Unborn
<1>7. CASE th[t].pc \in HasAttempt /\ AttemptWrites(t, a, db, db')
  <2>1. a \in Attempts BY <1>7, HandlerAttempt
  <2>2. CASE th[t].pc = "queue" /\ CanQueue(db, form, a) /\ db' = Queued(db, a)
    BY <1>1, <1>7, <2>1, <2>2, QueuedSets DEF AttemptWrites, CanQueue, CanMove, Statuses, Transitions
  <2>3. ASSUME NEW s \in Statuses, CanMove(db, a, s), db' = Moved(db, a, s)
        PROVE  s \in AllowedFrom(db.att[a].status) /\ SetStatus(db, db', a, s)
    BY <1>1, <2>1, <2>3, MovedSets DEF CanMove
  <2>4. QED BY <1>1, <1>7, <2>1, <2>2, <2>3, QuietRules DEF AttemptWrites
<1>8. CASE SubmitWrites(t, db, db')
  <2>1. CASE th[t].pc = "mksub"
    <3>1. a \in Attempts /\ th[t].count \in 0 .. MaxCount
      BY <2>1, HandlerAttempt DEF HasAttempt, Pcs, Calls, Handler
    <3>2. QED BY <1>1, <1>8, <2>1, <3>1, QuietRules DEF SubmitWrites, At
  <2>2. CASE th[t].pc = "complete"
    <3>1. db' = Completed(db, th[t].sid, SubmitStatus(th[t].out), th[t].app) BY <1>8, <2>2 DEF SubmitWrites
    <3>2. th[t].pc \in HasAttempt /\ "failed" \in Statuses /\ <<th[t].pc, "failed">> \in Transitions
      BY <2>2 DEF HasAttempt, Pcs, Calls, Statuses, Transitions
    <3>3. QED BY <1>1, <2>2, <3>1, <3>2, CompleteArguments, CompletedSets
  <2>3. QED BY <1>8, <2>1, <2>2 DEF SubmitWrites, At
<1>9. CASE th[t].pc = "hook" /\ db' = HookIngested(db, <<a, th[t].app>>)
  <2>1. <<a, th[t].app>> \in AppIds /\ a \in Attempts BY <1>9, HookArguments DEF AppIds
  <2>2. QED BY <1>1, <1>9, <2>1, QuietRules
<1>10. QED BY <1>2, <1>3, <1>4, <1>5, <1>6, <1>7, <1>8, <1>9, StepWrites DEF Commits, Writes, View

LEMMA StatusMoves ==
  ASSUME Isolated, TypeInv, NEW t \in Threads, Step(t), NEW a \in Attempts, db'.att[a].status # db.att[a].status
  PROVE  \/ th[t].pc = "create" /\ db.att[a].status = "none" /\ db'.att[a].status = "draft"
         \/ /\ a = th[t].a /\ th[t].pc \in HasAttempt
            /\ db'.att[a].status \in AllowedFrom(db.att[a].status)
            /\ <<th[t].pc, db'.att[a].status>> \in Transitions
<1>1. CASE SameStatus(db, db') BY <1>1 DEF SameStatus
<1>2. CASE th[t].pc = "create" /\ \E b \in Unborn : SetStatus(db, db', b, "draft") BY <1>2 DEF SetStatus, Unborn
<1>3. CASE /\ th[t].pc \in HasAttempt
           /\ \E s \in Statuses : /\ s \in AllowedFrom(db.att[th[t].a].status)
                                  /\ <<th[t].pc, s>> \in Transitions
                                  /\ SetStatus(db, db', th[t].a, s)
  BY <1>3 DEF SetStatus
<1>4. QED BY <1>1, <1>2, <1>3, StatusAfter

-----------------------------------------------------------------------------
(* What a step does to the queue and to the message of its handler.         *)

\* The handler keeps its message, gives it back, or sends new ones.
Keeps(t) == UNCHANGED queue /\ th'[t].msg \in {None, th[t].msg} /\ (th'[t].pc = "idle" => th'[t].msg = None)
Lets(t)  == th'[t] = Idle /\ \A m \in Messages : m # th[t].msg => queue'[m] = queue[m]
Sends(t) == /\ th[t].pc \in {"enqueue", "resend"} /\ Sent(th[t].a, queue)
            /\ th'[t].msg \in {None, th[t].msg} /\ (th'[t].pc = "idle" => th'[t].msg = None)

LEMMA QueueAfter ==
  ASSUME TypeInv, NEW t \in Threads, Step(t)
  PROVE  \/ Keeps(t) \/ Lets(t) \/ Sends(t)
         \/ Deliver(t)
<1>1. th \in [Threads -> Handler] /\ th[t] \in Handler BY DEF TypeInv, TypeOK
<1>2. Raise(t) => Lets(t) BY <1>1 DEF Raise, Lets
<1>3. Done(t) => Keeps(t)
  BY <1>1, IdleFits DEF Done, Keeps, Handler
<1>4. ASSUME NEW c, c # "idle", Goto(t, c) PROVE Keeps(t) BY <1>1, <1>4 DEF Goto, Keeps, Handler
<1>5. ASSUME NEW ok, NEW v, NEW c, c # "idle", Call(t, ok, v, c) PROVE Keeps(t) \/ Lets(t)
  BY <1>2, <1>4, <1>5 DEF Call
<1>6. ASSUME NEW ok, NEW v, LastCall(t, ok, v) PROVE Keeps(t) \/ Lets(t) BY <1>2, <1>3, <1>6 DEF LastCall
<1>7. CASE Die(t) BY <1>2, <1>7 DEF Die
<1>8. CASE Arrival(t)
  <2>1. CASE CreateRequest(t) BY <1>4, <2>1 DEF CreateRequest
  <2>2. ASSUME NEW c, NEW b, c # "idle", UNCHANGED queue, th' = [th EXCEPT ![t].pc = c, ![t].a = b] PROVE Keeps(t)
    BY <1>1, <2>2 DEF Keeps, Handler
  <2>3. ASSUME NEW b, NEW n, UNCHANGED queue, th' = [th EXCEPT ![t].pc = "hook", ![t].a = b, ![t].app = n]
        PROVE  Keeps(t)
    BY <1>1, <2>3 DEF Keeps, Handler
  <2>4. QED BY <1>8, <2>1, <2>2, <2>3 DEF Arrival, CancelRead, ManualRead, WebhookArrives
<1>9. CASE CreateAttempt(t)
  <2>1. \/ Raise(t)
        \/ UNCHANGED queue /\ \E b : th' = [th EXCEPT ![t].pc = "artifacts", ![t].a = b]
    BY <1>9 DEF CreateAttempt
  <2>2. ASSUME NEW b, UNCHANGED queue, th' = [th EXCEPT ![t].pc = "artifacts", ![t].a = b] PROVE Keeps(t)
    BY <1>1, <2>2 DEF Keeps, Handler
  <2>3. QED BY <1>2, <2>1, <2>2
<1>10. CASE PutArtifacts(t) \/ PutPackage(t) \/ Approve(t) BY <1>5, <1>10 DEF PutArtifacts, PutPackage, Approve
<1>11. CASE Queue(t) BY <1>2, <1>4, <1>11 DEF Queue
<1>12. CASE Enqueue(t)
  <2>1. CASE Azure BY <1>1, <1>12, <2>1, IdleFits DEF Enqueue, Sends
  <2>2. CASE ~Azure BY <1>1, <1>12, <2>2 DEF Enqueue, Keeps, Handler
  <2>3. QED BY <2>1, <2>2
<1>13. CASE CancelMove(t) BY <1>5, <1>6, <1>13 DEF CancelMove
<1>14. CASE CancelMark(t) BY <1>3, <1>14 DEF CancelMark
<1>15. CASE ManualMove(t) \/ IngestWebhook(t) \/ NeedsReview(t) \/ MarkSucceeded(t)
  BY <1>6, <1>15 DEF ManualMove, IngestWebhook, NeedsReview, MarkSucceeded
<1>16. CASE Ack(t) BY <1>1, <1>16 DEF Ack, Lets, TypeInv, TypeOK
<1>17. CASE Read(t) BY <1>3, <1>4, <1>17 DEF Read
<1>18. CASE Requeue(t) BY <1>3, <1>4, <1>18 DEF Requeue
<1>19. CASE WorkerPackage(t) BY <1>4, <1>19 DEF WorkerPackage
<1>20. CASE LockPackage(t) \/ Start(t) \/ MarkSubmitted(t) BY <1>5, <1>20 DEF LockPackage, Start, MarkSubmitted
<1>21. CASE CreateSubmit(t)
  <2>1. Raise(t) \/ (UNCHANGED queue /\ \E s : th' = [th EXCEPT ![t].pc = "post", ![t].sid = s])
    BY <1>21 DEF CreateSubmit
  <2>2. ASSUME NEW s, UNCHANGED queue, th' = [th EXCEPT ![t].pc = "post", ![t].sid = s] PROVE Keeps(t)
    BY <1>1, <2>2 DEF Keeps, Handler
  <2>3. QED BY <1>2, <2>1, <2>2
<1>22. CASE Post(t)
  <2>1. ASSUME NEW out, NEW n, Answered(t, out, n) PROVE Keeps(t) BY <1>1, <2>1 DEF Answered, Keeps, Handler
  <2>2. QED BY <1>2, <1>22, <2>1 DEF Post
<1>23. CASE Complete(t) BY <1>5, <1>6, <1>23 DEF Complete
<1>24. CASE RateLimit(t) BY <1>5, <1>6, <1>24 DEF RateLimit
<1>25. CASE Resend(t)
  <2>1. CASE Azure BY <1>1, <1>25, <2>1 DEF Resend, Sends, Handler
  <2>2. CASE ~Azure BY <1>1, <1>25, <2>2 DEF Resend, Keeps, Idle
  <2>3. QED BY <2>1, <2>2
<1>26. QED
  BY <1>7, <1>8, <1>9, <1>10, <1>11, <1>12, <1>13, <1>14, <1>15, <1>16, <1>17, <1>18, <1>19, <1>20, <1>21, <1>22,
     <1>23, <1>24, <1>25
  DEF Step, RequestStep, WorkStep


-----------------------------------------------------------------------------
(* One application per attempt.  SubmissionInv is inductive (given TypeInv):*)
(* the transition to "submitting" lets one handler in, nobody but that     *)
(* handler takes the attempt further, and there is no way back to the      *)
(* queue once the vendor may hold an application.                          *)

Guarded == SubmitPhase \cup Packaging \cup {"start"}
\* The handler of t stays out of the submission, or was in it before.
SamePhase(t) == th'[t].pc \in SubmitPhase => th[t].pc \in SubmitPhase /\ th'[t].a = th[t].a
NoneElse(t, a) == \A u \in Threads \ {t} : th[u].pc \in SubmitPhase => th[u].a # a

LEMMA GuardedAttempt ==
  ASSUME TypeInv, NEW t \in Threads, th[t].pc \in Guarded
  PROVE  th[t] \in Handler /\ th[t].a \in Attempts /\ db.att[th[t].a].status # "none"
<1>1. th[t].pc \in HasAttempt BY DEF Guarded, SubmitPhase, Packaging, HasAttempt, Pcs, Calls, Others
<1>2. QED BY <1>1, HandlerAttempt

LEMMA FreeHandler ==
  ASSUME NEW t \in Threads, th'[t].pc \notin Guarded
  PROVE  SubmittingHandler(t)' /\ SamePhase(t)
  BY DEF Guarded, SubmittingHandler, SamePhase, SubmitPhase

\* The attempt a gets status s, the other attempts and handlers stay.
LEMMA SubmissionMove ==
  ASSUME TypeInv, SubmissionInv, NEW t \in Threads, OnlyMoves(t), UNCHANGED apps,
         \A b \in Attempts : db.att[b].status # "none" => form'[b] = form[b],
         NEW a \in Attempts, NEW s, SetStatus(db, db', a, s),
         s = "needs_review" => form'[a].manual,
         apps[a] > 0 => ~form'[a].manual /\ s \in {"submitting", "submitted", "succeeded", "failed"},
         \A u \in Threads \ {t} : th[u].a = a =>
           /\ th[u].pc \in SubmitPhase \ {"succeeded"} => s \in {"submitting", "failed"}
           /\ th[u].pc = "succeeded" => s \in {"submitted", "failed"},
         SubmittingHandler(t)',
         th'[t].pc \in SubmitPhase => NoneElse(t, th'[t].a)
  PROVE  SubmissionInv'
<1>1. OneSubmitter'
  <2>1. SUFFICES ASSUME NEW u \in Threads, NEW w \in Threads, u # w,
                        th'[u].pc \in SubmitPhase, th'[w].pc \in SubmitPhase
                 PROVE  th'[u].a # th'[w].a
    BY DEF OneSubmitter
  <2>2. CASE u = t \/ w = t BY <2>1, <2>2 DEF OnlyMoves, NoneElse
  <2>3. CASE u # t /\ w # t BY <2>1, <2>3 DEF OnlyMoves, SubmissionInv, OneSubmitter
  <2>4. QED BY <2>2, <2>3
<1>2. OneApplication' BY DEF SubmissionInv, OneApplication
<1>3. ASSUME NEW b \in Attempts PROVE SubmittedAttempt(b)'
  <2>1. SubmittedAttempt(b) BY DEF SubmissionInv
  <2>2. CASE b = a BY <2>2 DEF SubmittedAttempt, SetStatus
  <2>3. CASE b # a BY <2>1, <2>3 DEF SubmittedAttempt, SetStatus
  <2>4. QED BY <2>2, <2>3
<1>4. ASSUME NEW u \in Threads \ {t} PROVE SubmittingHandler(u)'
  <2>1. SubmittingHandler(u) /\ th'[u] = th[u] BY DEF SubmissionInv, OnlyMoves
  <2>2. CASE th[u].pc \notin Guarded BY <2>1, <2>2, FreeHandler
  <2>3. CASE th[u].pc \in Guarded
    <3>1. th[u].a \in Attempts /\ form'[th[u].a] = form[th[u].a] BY <2>3, GuardedAttempt
    <3>2. QED BY <2>1, <3>1 DEF SubmittingHandler, SetStatus
  <2>4. QED BY <2>2, <2>3
<1>5. QED BY <1>1, <1>2, <1>3, <1>4 DEF SubmissionInv

\* No status changes.
LEMMA SubmissionQuiet ==
  ASSUME TypeInv, SubmissionInv, NEW t \in Threads, OnlyMoves(t), UNCHANGED <<apps, form>>,
         SameStatus(db, db'), SubmittingHandler(t)', SamePhase(t)
  PROVE  SubmissionInv'
<1>1. OneSubmitter'
  <2>1. SUFFICES ASSUME NEW u \in Threads, NEW w \in Threads, u # w,
                        th'[u].pc \in SubmitPhase, th'[w].pc \in SubmitPhase
                 PROVE  th'[u].a # th'[w].a
    BY DEF OneSubmitter
  <2>2. \A x \in {u, w} : th[x].pc \in SubmitPhase /\ th[x].a = th'[x].a
    BY <2>1 DEF OnlyMoves, SamePhase
  <2>3. QED BY <2>1, <2>2 DEF SubmissionInv, OneSubmitter
<1>2. OneApplication' BY DEF SubmissionInv, OneApplication
<1>3. \A a \in Attempts : SubmittedAttempt(a)' BY DEF SubmissionInv, SubmittedAttempt, SameStatus
<1>4. ASSUME NEW u \in Threads \ {t} PROVE SubmittingHandler(u)'
  <2>1. SubmittingHandler(u) /\ th'[u] = th[u] BY DEF SubmissionInv, OnlyMoves
  <2>2. CASE th[u].pc \notin Guarded BY <2>1, <2>2, FreeHandler
  <2>3. CASE th[u].pc \in Guarded BY <2>1, <2>3, GuardedAttempt DEF SubmittingHandler, SameStatus
  <2>4. QED BY <2>2, <2>3
<1>5. QED BY <1>1, <1>2, <1>3, <1>4 DEF SubmissionInv

\* A transition: what the table and the invariant leave to check.
LEMMA SubmissionTransition ==
  ASSUME TypeInv, SubmissionInv, NEW t \in Threads, OnlyMoves(t), UNCHANGED <<apps, form>>,
         NEW a \in Attempts, NEW s \in Statuses, s \in AllowedFrom(db.att[a].status), SetStatus(db, db', a, s),
         s \in {"submitted", "succeeded", "rate_limited"} => NoneElse(t, a),
         s = "needs_review" => form[a].manual,
         s = "rate_limited" => apps[a] = 0,
         SubmittingHandler(t)',
         th'[t].pc \in SubmitPhase => NoneElse(t, th'[t].a)
  PROVE  SubmissionInv'
<1>1. SubmittedAttempt(a) /\ apps[a] \in Nat
  BY CountsAssumption DEF SubmissionInv, TypeInv, TypeOK
<1>2. apps[a] > 0 => ~form[a].manual /\ s \in {"submitting", "submitted", "succeeded", "failed"}
  BY <1>1 DEF SubmittedAttempt, AllowedFrom
<1>3. ASSUME NEW u \in Threads \ {t}, th[u].a = a, th[u].pc \in SubmitPhase
      PROVE  /\ th[u].pc # "succeeded" => s \in {"submitting", "failed"}
             /\ th[u].pc = "succeeded" => s \in {"submitted", "failed"}
  <2>1. ~form[a].manual /\ db.att[a].status \in {"submitting", "submitted", "failed"}
    BY <1>3 DEF SubmissionInv, SubmittingHandler
  <2>2. s = "failed" BY <1>3, <2>1 DEF AllowedFrom, NoneElse
  <2>3. QED BY <2>2
<1>4. \A u \in Threads \ {t} : th[u].a = a =>
        /\ th[u].pc \in SubmitPhase \ {"succeeded"} => s \in {"submitting", "failed"}
        /\ th[u].pc = "succeeded" => s \in {"submitted", "failed"}
  BY <1>3 DEF SubmitPhase
<1>5. QED BY <1>2, <1>4, SubmissionMove

LEMMA EndsFree ==
  ASSUME TypeInv, NEW t \in Threads, Raise(t) \/ Done(t)
  PROVE  OnlyMoves(t) /\ th'[t].pc \notin Guarded
  BY Ends DEF Guarded, SubmitPhase, Packaging

\* A step without a word about statuses, after which t is not in the submission.
LEMMA SubmissionFree ==
  ASSUME TypeInv, SubmissionInv, NEW t \in Threads, OnlyMoves(t), th'[t].pc \notin Guarded,
         UNCHANGED <<apps, form>>, SameStatus(db, db')
  PROVE  SubmissionInv'
  BY FreeHandler, SubmissionQuiet

LEMMA SubmissionEnds ==
  ASSUME TypeInv, SubmissionInv, NEW t \in Threads, Raise(t) \/ Done(t), UNCHANGED <<db, apps, form>>
  PROVE  SubmissionInv'
  BY EndsFree, SubmissionFree DEF SameStatus

\* The two outcomes of a call, for a store that is atomic.
LEMMA CallOutcome ==
  ASSUME Isolated, NEW t \in Threads, NEW ok, NEW v, NEW c, Call(t, ok, v, c)
  PROVE  /\ UNCHANGED <<apps, form>>
         /\ \/ ok /\ db' = v /\ Goto(t, c)
            \/ UNCHANGED db /\ Raise(t)
  BY DEF Call, Commit, NoCommit

LEMMA LastCallOutcome ==
  ASSUME Isolated, NEW t \in Threads, NEW ok, NEW v, LastCall(t, ok, v)
  PROVE  /\ UNCHANGED <<apps, form>>
         /\ \/ ok /\ db' = v /\ Done(t)
            \/ UNCHANGED db /\ Raise(t)
  BY DEF LastCall, Commit, NoCommit

\* A call that changes no status and leads to a point outside the submission.
LEMMA SubmissionQuietCall ==
  ASSUME Isolated, TypeInv, SubmissionInv, NEW t \in Threads, NEW ok, NEW v, NEW c,
         (Call(t, ok, v, c) /\ c \notin Guarded) \/ LastCall(t, ok, v), SameStatus(db, v)
  PROVE  SubmissionInv'
<1>1. CASE Call(t, ok, v, c) /\ c \notin Guarded
  <2>1. CASE db' = v /\ Goto(t, c) BY <1>1, <2>1, CallOutcome, GoesOn, SubmissionFree
  <2>2. CASE UNCHANGED db /\ Raise(t) BY <1>1, <2>2, CallOutcome, SubmissionEnds
  <2>3. QED BY <1>1, <2>1, <2>2, CallOutcome
<1>2. CASE LastCall(t, ok, v)
  <2>1. CASE db' = v /\ Done(t) BY <1>2, <2>1, LastCallOutcome, EndsFree, SubmissionFree
  <2>2. CASE UNCHANGED db /\ Raise(t) BY <1>2, <2>2, LastCallOutcome, SubmissionEnds
  <2>3. QED BY <1>2, <2>1, <2>2, LastCallOutcome
<1>3. QED BY <1>1, <1>2

\* create_request: a new attempt is a draft, and nothing is at the vendor.
LEMMA SubmissionCreate ==
  ASSUME Isolated, TypeInv, SubmissionInv, NEW t \in Threads, CreateAttempt(t)
  PROVE  SubmissionInv'
<1>1. UNCHANGED apps BY DEF CreateAttempt
<1>2. CASE Raise(t) /\ UNCHANGED <<db, form>> BY <1>1, <1>2, SubmissionEnds
<1>3. ASSUME NEW a \in Unborn, NEW f \in Bodies, db' = Created(db, a), form' = [form EXCEPT ![a] = f],
             th' = [th EXCEPT ![t].pc = "artifacts", ![t].a = a]
      PROVE  SubmissionInv'
  <2>1. a \in Attempts /\ db.att[a].status = "none" BY DEF Unborn
  <2>2. SetStatus(db, db', a, "draft") BY <1>3, <2>1, CreatedSets DEF TypeInv, TypeOK
  <2>3. OnlyMoves(t) /\ th'[t].pc = "artifacts" BY <1>3 DEF OnlyMoves, TypeInv, TypeOK, Handler
  <2>4. th'[t].pc \notin Guarded BY <2>3 DEF Guarded, SubmitPhase, Packaging
  <2>5. \A b \in Attempts : db.att[b].status # "none" => form'[b] = form[b]
    BY <1>3, <2>1 DEF TypeInv, TypeOK
  <2>6. ~(apps[a] > 0) BY <2>1 DEF SubmissionInv, SubmittedAttempt
  <2>7. ASSUME NEW u \in Threads, th[u].a = a PROVE th[u].pc \notin SubmitPhase
    BY <2>1, <2>7, GuardedAttempt DEF Guarded
  <2>8. QED BY <1>1, <2>1, <2>2, <2>3, <2>4, <2>5, <2>6, <2>7, FreeHandler, SubmissionMove DEF SubmitPhase, Guarded
<1>4. QED BY <1>2, <1>3 DEF CreateAttempt, Commit, NoCommit, View

LEMMA SubmissionRequest ==
  ASSUME Isolated, TypeInv, SubmissionInv, NEW t \in Threads,
         PutArtifacts(t) \/ PutPackage(t) \/ Approve(t) \/ IngestWebhook(t)
  PROVE  SubmissionInv'
<1>1. {"package", "approve", "queue"} \cap Guarded = {} BY DEF Guarded, SubmitPhase, Packaging
<1>2. db \in Database /\ View(t) = db BY DEF TypeInv, TypeOK, View
<1>3. th[t].pc \in HasAttempt => th[t].a \in Attempts BY HandlerAttempt
<1>4. CASE PutArtifacts(t)
  <2>1. SameStatus(db, db) BY DEF SameStatus
  <2>2. QED BY <1>1, <1>2, <1>4, <2>1, SubmissionQuietCall DEF PutArtifacts
<1>5. CASE PutPackage(t)
  <2>1. th[t].a \in Attempts BY <1>3, <1>5 DEF PutPackage, At, HasAttempt, Pcs, Calls
  <2>2. QED BY <1>1, <1>2, <1>5, <2>1, QuietRules, SubmissionQuietCall DEF PutPackage
<1>6. CASE Approve(t)
  <2>1. th[t].a \in Attempts BY <1>3, <1>6 DEF Approve, At, HasAttempt, Pcs, Calls
  <2>2. QED BY <1>1, <1>2, <1>6, <2>1, QuietRules, SubmissionQuietCall DEF Approve
<1>7. CASE IngestWebhook(t)
  <2>1. <<th[t].a, th[t].app>> \in AppIds BY <1>7, HookArguments DEF IngestWebhook, At
  <2>2. th[t].a \in Attempts BY <2>1 DEF AppIds
  <2>3. QED BY <1>2, <1>7, <2>1, <2>2, QuietRules, SubmissionQuietCall DEF IngestWebhook
<1>8. QED BY <1>4, <1>5, <1>6, <1>7

LEMMA SubmissionQueue ==
  ASSUME Isolated, TypeInv, SubmissionInv, NEW t \in Threads, Queue(t)
  PROVE  SubmissionInv'
<1> DEFINE a == th[t].a
<1>1. a \in Attempts BY HandlerAttempt DEF Queue, At, HasAttempt, Pcs, Calls
<1>2. db \in Database /\ UNCHANGED <<apps, form>> BY DEF TypeInv, TypeOK, Queue
<1>3. CASE CanQueue(db, form, a) /\ db' = Queued(db, a) /\ Goto(t, "enqueue")
  <2>1. OnlyMoves(t) /\ th'[t].pc = "enqueue" BY <1>3, GoesOn
  <2>2. th'[t].pc \notin Guarded /\ th'[t].pc \notin SubmitPhase BY <2>1 DEF Guarded, SubmitPhase, Packaging
  <2>3. SetStatus(db, db', a, "queued") /\ "queued" \in Statuses BY <1>1, <1>2, <1>3, QueuedSets DEF Statuses
  <2>4. "queued" \in AllowedFrom(db.att[a].status) BY <1>3 DEF CanQueue, CanMove
  <2>5. QED BY <1>1, <1>2, <2>1, <2>2, <2>3, <2>4, FreeHandler, SubmissionTransition
<1>4. CASE Raise(t) /\ SameStatus(db, db') BY <1>2, <1>4, EndsFree, SubmissionFree
<1>5. SameStatus(db, db) /\ SameStatus(db, Locked(db, a)) BY <1>1, <1>2, QuietRules DEF SameStatus
<1>6. QED BY <1>3, <1>4, <1>5 DEF Queue, Commit, NoCommit, View, QueueRefused

\* A transition made by a call after which t is outside the submission.
LEMMA SubmissionMoveAway ==
  ASSUME TypeInv, SubmissionInv, NEW t \in Threads, OnlyMoves(t), th'[t].pc \notin Guarded,
         UNCHANGED <<apps, form>>, NEW a \in Attempts, NEW s \in Statuses,
         CanMove(db, a, s), db' = Moved(db, a, s),
         s \in {"submitted", "succeeded", "rate_limited"} => NoneElse(t, a),
         s = "needs_review" => form[a].manual,
         s = "rate_limited" => apps[a] = 0
  PROVE  SubmissionInv'
<1>1. SetStatus(db, db', a, s) BY MovedSets DEF TypeInv, TypeOK
<1>2. s \in AllowedFrom(db.att[a].status) BY DEF CanMove
<1>3. th'[t].pc \notin SubmitPhase BY DEF Guarded
<1>4. QED BY <1>1, <1>2, <1>3, FreeHandler, SubmissionTransition

\* A manual attempt is not in the submission, and one that is has one handler.
LEMMA ManualElse ==
  ASSUME SubmissionInv, NEW t \in Threads, NEW a \in Attempts, form[a].manual
  PROVE  NoneElse(t, a)
  BY DEF SubmissionInv, SubmittingHandler, NoneElse

LEMMA PhaseElse ==
  ASSUME SubmissionInv, NEW t \in Threads, th[t].pc \in SubmitPhase
  PROVE  NoneElse(t, th[t].a)
  BY DEF SubmissionInv, OneSubmitter, NoneElse

LEMMA SubmissionUser ==
  ASSUME Isolated, TypeInv, SubmissionInv, NEW t \in Threads,
         CancelMove(t) \/ CancelMark(t) \/ ManualMove(t)
  PROVE  SubmissionInv'
<1> DEFINE a == th[t].a
<1>1. th[t].pc \in HasAttempt BY DEF CancelMove, CancelMark, ManualMove, At, HasAttempt, Pcs, Calls, Others
<1>2. a \in Attempts BY <1>1, HandlerAttempt
<1>3. {"failed", "submitted"} \subseteq Statuses /\ "mark" \notin Guarded
  BY DEF Statuses, Guarded, SubmitPhase, Packaging
<1>4. UNCHANGED <<apps, form>> BY DEF CancelMove, CancelMark, ManualMove, Call, LastCall
<1>5. CASE CancelMove(t)
  <2>1. \/ UNCHANGED db /\ Raise(t)
        \/ /\ CanMove(db, a, "failed") /\ db' = Moved(db, a, "failed")
           /\ Done(t) \/ Goto(t, "mark")
    BY <1>5 DEF CancelMove, Call, LastCall, Commit, NoCommit, View
  <2>2. CASE UNCHANGED db /\ Raise(t) BY <1>4, <2>2, SubmissionEnds
  <2>3. CASE Done(t) \/ Goto(t, "mark")
    <3>1. OnlyMoves(t) /\ th'[t].pc \notin Guarded BY <1>3, <2>3, EndsFree, GoesOn
    <3>2. CASE CanMove(db, a, "failed") /\ db' = Moved(db, a, "failed")
      BY <1>2, <1>3, <1>4, <3>1, <3>2, SubmissionMoveAway
    <3>3. QED BY <2>1, <2>2, <3>2
  <2>4. QED BY <2>1, <2>2, <2>3
<1>6. CASE CancelMark(t)
  <2>1. SameStatus(db, db') BY <1>6 DEF CancelMark, CancelNoted, SameStatus, TypeInv, TypeOK, Database, AttemptRow
  <2>2. QED BY <1>4, <1>6, <2>1, EndsFree, SubmissionFree DEF CancelMark
<1>7. CASE ManualMove(t)
  <2>1. form[a].manual BY <1>7 DEF ManualMove, At, SubmissionInv, SubmittingHandler, Packaging
  <2>2. NoneElse(t, a) BY <1>2, <2>1, ManualElse
  <2>3. \/ UNCHANGED db /\ Raise(t)
        \/ CanMove(db, a, "submitted") /\ db' = Moved(db, a, "submitted") /\ Done(t)
    BY <1>7 DEF ManualMove, LastCall, Commit, NoCommit, View
  <2>4. CASE UNCHANGED db /\ Raise(t) BY <1>4, <2>4, SubmissionEnds
  <2>5. CASE CanMove(db, a, "submitted") /\ db' = Moved(db, a, "submitted") /\ Done(t)
    BY <1>2, <1>3, <1>4, <2>2, <2>5, EndsFree, SubmissionMoveAway
  <2>6. QED BY <2>3, <2>4, <2>5
<1>8. QED BY <1>5, <1>6, <1>7

LEMMA SubmissionArrival ==
  ASSUME TypeInv, SubmissionInv, NEW t \in Threads, Arrival(t)
  PROVE  SubmissionInv'
<1>1. UNCHANGED <<db, apps, form>> BY DEF Arrival, CreateRequest, CancelRead, ManualRead, WebhookArrives
<1>2. SameStatus(db, db') BY <1>1 DEF SameStatus
<1>3. OnlyMoves(t)
  BY DEF Arrival, CreateRequest, CancelRead, ManualRead, WebhookArrives, Goto, OnlyMoves, TypeInv, TypeOK
<1>4. CASE ManualRead(t)
  <2>1. PICK a \in Attempts : /\ db.att[a].status = "needs_review"
                             /\ th' = [th EXCEPT ![t].pc = "manual", ![t].a = a]
    BY <1>4 DEF ManualRead
  <2>2. th'[t].pc = "manual" /\ th'[t].a = a BY <2>1 DEF TypeInv, TypeOK, Handler
  <2>3. form[a].manual BY <2>1 DEF SubmissionInv, SubmittedAttempt
  <2>4. SubmittingHandler(t)' /\ SamePhase(t)
    BY <1>1, <2>2, <2>3 DEF SubmittingHandler, SamePhase, SubmitPhase, Packaging
  <2>5. QED BY <1>1, <1>2, <1>3, <2>4, SubmissionQuiet
<1>5. CASE CreateRequest(t) \/ CancelRead(t) \/ WebhookArrives(t)
  <2>1. th'[t].pc \in {"create", "cancel", "hook"}
    <3>1. th \in [Threads -> Handler] BY DEF TypeInv, TypeOK
    <3>2. CASE CreateRequest(t) BY <3>1, <3>2 DEF CreateRequest, Goto, Handler
    <3>3. CASE CancelRead(t) BY <3>1, <3>3 DEF CancelRead, Handler
    <3>4. CASE WebhookArrives(t)
      <4>1. PICK a \in Attempts, n \in 1 .. MaxApps :
              th' = [th EXCEPT ![t].pc = "hook", ![t].a = a, ![t].app = n]
        BY <3>4 DEF WebhookArrives
      <4>2. QED BY <3>1, <4>1 DEF Handler
    <3>5. QED BY <1>5, <3>2, <3>3, <3>4
  <2>2. th'[t].pc \notin Guarded BY <2>1 DEF Guarded, SubmitPhase, Packaging
  <2>3. QED BY <1>1, <1>2, <1>3, <2>2, SubmissionFree
<1>6. QED BY <1>4, <1>5 DEF Arrival

\* Steps of the queue and of the host.
LEMMA SubmissionHost ==
  ASSUME TypeInv, SubmissionInv, NEW t \in Threads,
         Deliver(t) \/ Ack(t) \/ Enqueue(t) \/ Resend(t) \/ Die(t)
  PROVE  SubmissionInv'
<1>1. UNCHANGED <<db, apps, form>> BY DEF Deliver, Ack, Enqueue, Resend, Die, NoCommit
<1>2. SameStatus(db, db') BY <1>1 DEF SameStatus
<1>3. {"read", "ack", "idle"} \cap Guarded = {} BY DEF Guarded, SubmitPhase, Packaging
<1>4. CASE Die(t) BY <1>1, <1>4, SubmissionEnds DEF Die
<1>5. CASE Ack(t) \/ Enqueue(t) \/ Resend(t)
  <2>1. OnlyMoves(t) BY <1>5 DEF Ack, Enqueue, Resend, OnlyMoves, TypeInv, TypeOK
  <2>2. th[t] \in Handler BY DEF TypeInv, TypeOK
  <2>3. th'[t].pc \in {"read", "ack", "idle"}
    <3>1. CASE Ack(t) BY <3>1, IdleFits DEF Ack, TypeInv, TypeOK
    <3>2. CASE Enqueue(t) BY <2>2, <3>2, IdleFits DEF Enqueue, TypeInv, TypeOK, Handler
    <3>3. CASE Resend(t)
      <4>1. CASE Azure BY <2>2, <3>3, <4>1 DEF Resend, TypeInv, TypeOK, Handler
      <4>2. CASE ~Azure BY <3>3, <4>2 DEF Resend, TypeInv, TypeOK, Idle
      <4>3. QED BY <4>1, <4>2
    <3>4. QED BY <1>5, <3>1, <3>2, <3>3
  <2>4. QED BY <1>1, <1>2, <1>3, <2>1, <2>3, SubmissionFree
<1>6. CASE Deliver(t)
  <2>1. OnlyMoves(t) BY <1>6 DEF Deliver, OnlyMoves, TypeInv, TypeOK
  <2>2. th'[t].pc \in {"read", "idle"}
    <3>1. th \in [Threads -> Handler] BY DEF TypeInv, TypeOK
    <3>2. CASE UNCHANGED th BY <1>6, <3>2 DEF Deliver
    <3>3. CASE ~UNCHANGED th
      <4>1. PICK m \in Messages :
              th' = [th EXCEPT ![t] = [Idle EXCEPT !.pc = "read", !.a = queue[m].a,
                                                   !.count = queue[m].count + 1, !.msg = m]]
        BY <1>6, <3>3 DEF Deliver
      <4>2. QED BY <3>1, <4>1 DEF Idle
    <3>4. QED BY <3>2, <3>3
  <2>3. QED BY <1>1, <1>2, <1>3, <2>1, <2>2, SubmissionFree
<1>7. QED BY <1>4, <1>5, <1>6

LEMMA SubmissionRead ==
  ASSUME TypeInv, SubmissionInv, NEW t \in Threads, Read(t)
  PROVE  SubmissionInv'
<1>1. UNCHANGED <<db, apps, form>> /\ SameStatus(db, db') BY DEF Read, SameStatus
<1>2. CASE Done(t) BY <1>1, <1>2, SubmissionEnds
<1>3. CASE Goto(t, "requeue")
  <2>1. "requeue" \notin Guarded BY DEF Guarded, SubmitPhase, Packaging
  <2>2. QED BY <1>1, <1>3, <2>1, GoesOn, SubmissionFree
<1>4. CASE \/ Goto(t, "putpkg") /\ form[th[t].a].manual
           \/ Goto(t, "start") /\ ~form[th[t].a].manual
  <2>1. OnlyMoves(t) /\ th'[t].a = th[t].a BY <1>4, GoesOn
  <2>2. \/ th'[t].pc = "putpkg" /\ form[th[t].a].manual
        \/ th'[t].pc = "start" /\ ~form[th[t].a].manual
    BY <1>4, GoesOn
  <2>3. SubmittingHandler(t)' /\ SamePhase(t)
    BY <1>1, <2>1, <2>2 DEF SubmittingHandler, SamePhase, SubmitPhase, Packaging
  <2>4. QED BY <1>1, <2>1, <2>3, SubmissionQuiet
<1>5. QED BY <1>2, <1>3, <1>4 DEF Read

LEMMA SubmissionPackage ==
  ASSUME Isolated, TypeInv, SubmissionInv, NEW t \in Threads,
         WorkerPackage(t) \/ LockPackage(t) \/ NeedsReview(t)
  PROVE  SubmissionInv'
<1> DEFINE a == th[t].a
<1>1. th[t].pc \in Packaging BY DEF WorkerPackage, LockPackage, NeedsReview, At, Packaging
<1>2. a \in Attempts /\ form[a].manual
  BY <1>1, GuardedAttempt DEF Guarded, SubmissionInv, SubmittingHandler
<1>3. UNCHANGED <<apps, form>> BY DEF WorkerPackage, LockPackage, NeedsReview, Call, LastCall
<1>4. db \in Database BY DEF TypeInv, TypeOK
<1>5. ASSUME SameStatus(db, db'), NEW c \in {"lockpkg", "review"}, Goto(t, c) PROVE SubmissionInv'
  <2>1. OnlyMoves(t) /\ th'[t].pc = c /\ th'[t].a = a BY <1>5, GoesOn
  <2>2. SubmittingHandler(t)' /\ SamePhase(t)
    BY <1>2, <1>3, <2>1 DEF SubmittingHandler, SamePhase, SubmitPhase, Packaging
  <2>3. QED BY <1>3, <1>5, <2>1, <2>2, SubmissionQuiet
<1>6. CASE WorkerPackage(t)
  <2>1. Goto(t, "lockpkg") BY <1>6 DEF WorkerPackage
  <2>2. db' = db \/ db' = PackagePut(db, a, "worker") BY <1>6 DEF WorkerPackage, Commit, NoCommit, View
  <2>3. SameStatus(db, db') BY <1>2, <1>4, <2>2, QuietRules DEF SameStatus
  <2>4. QED BY <1>5, <2>1, <2>3
<1>7. CASE LockPackage(t)
  <2>1. \/ UNCHANGED db /\ Raise(t)
        \/ db' = Locked(db, a) /\ Goto(t, "review")
    BY <1>7 DEF LockPackage, Call, Commit, NoCommit, View
  <2>2. SameStatus(db, Locked(db, a)) BY <1>2, <1>4, QuietRules
  <2>3. QED BY <1>3, <1>5, <2>1, <2>2, SubmissionEnds
<1>8. CASE NeedsReview(t)
  <2>1. \/ UNCHANGED db /\ Raise(t)
        \/ CanMove(db, a, "needs_review") /\ db' = Moved(db, a, "needs_review") /\ Done(t)
    BY <1>8 DEF NeedsReview, LastCall, Commit, NoCommit, View
  <2>2. "needs_review" \in Statuses BY DEF Statuses
  <2>3. CASE UNCHANGED db /\ Raise(t) BY <1>3, <2>3, SubmissionEnds
  <2>4. CASE CanMove(db, a, "needs_review") /\ db' = Moved(db, a, "needs_review") /\ Done(t)
    BY <1>2, <1>3, <2>2, <2>4, EndsFree, SubmissionMoveAway
  <2>5. QED BY <2>1, <2>3, <2>4
<1>9. QED BY <1>6, <1>7, <1>8

LEMMA SubmissionRequeue ==
  ASSUME Isolated, TypeInv, SubmissionInv, NEW t \in Threads, Requeue(t)
  PROVE  SubmissionInv'
<1> DEFINE a == th[t].a
<1>1. a \in Attempts /\ "queued" \in Statuses
  BY HandlerAttempt DEF Requeue, At, HasAttempt, Pcs, Calls, Statuses
<1>2. UNCHANGED <<apps, form>> BY DEF Requeue
<1>3. \/ UNCHANGED db /\ Done(t)
      \/ CanMove(db, a, "queued") /\ db' = Moved(db, a, "queued") /\ Goto(t, "reread")
  BY DEF Requeue, Commit, NoCommit, View
<1>4. CASE UNCHANGED db /\ Done(t) BY <1>2, <1>4, SubmissionEnds
<1>5. CASE CanMove(db, a, "queued") /\ db' = Moved(db, a, "queued") /\ Goto(t, "reread")
  <2>1. "reread" \notin Guarded BY DEF Guarded, SubmitPhase, Packaging
  <2>2. QED BY <1>1, <1>2, <1>5, <2>1, GoesOn, SubmissionMoveAway
<1>6. QED BY <1>3, <1>4, <1>5

\* The door: the table lets only one handler from the queue into "submitting".
LEMMA SubmissionStart ==
  ASSUME Isolated, TypeInv, SubmissionInv, NEW t \in Threads, Start(t)
  PROVE  SubmissionInv'
<1> DEFINE a == th[t].a
<1>1. th[t].pc = "start" BY DEF Start, At
<1>2. a \in Attempts /\ ~form[a].manual
  BY <1>1, GuardedAttempt DEF Guarded, SubmissionInv, SubmittingHandler
<1>3. UNCHANGED <<apps, form>> BY DEF Start, Call
<1>4. \/ UNCHANGED db /\ Raise(t)
      \/ CanMove(db, a, "submitting") /\ db' = Moved(db, a, "submitting") /\ Goto(t, "mksub")
  BY DEF Start, Call, Commit, NoCommit, View
<1>5. CASE UNCHANGED db /\ Raise(t) BY <1>3, <1>5, SubmissionEnds
<1>6. CASE CanMove(db, a, "submitting") /\ db' = Moved(db, a, "submitting") /\ Goto(t, "mksub")
  <2>1. OnlyMoves(t) /\ th'[t].pc = "mksub" /\ th'[t].a = a BY <1>6, GoesOn
  <2>2. "submitting" \in Statuses BY DEF Statuses
  <2>3. SetStatus(db, db', a, "submitting") BY <1>2, <1>6, <2>2, MovedSets DEF TypeInv, TypeOK
  <2>4. "submitting" \in AllowedFrom(db.att[a].status) BY <1>6 DEF CanMove
  <2>5. db.att[a].status \in {"queued", "rate_limited"} BY <2>4 DEF AllowedFrom
  <2>6. apps[a] = 0
    BY <1>2, <2>5, CountsAssumption DEF SubmissionInv, SubmittedAttempt, TypeInv, TypeOK
  <2>7. NoneElse(t, a) BY <2>5 DEF SubmissionInv, SubmittingHandler, NoneElse, SubmitPhase
  <2>8. SubmittingHandler(t)'
    BY <1>2, <1>3, <2>1, <2>3, <2>6 DEF SubmittingHandler, SubmitPhase, Packaging, SetStatus
  <2>9. QED BY <1>2, <1>3, <2>1, <2>2, <2>3, <2>4, <2>7, <2>8, SubmissionTransition
<1>7. QED BY <1>4, <1>5, <1>6

\* What the invariant says of a handler in the submission.
LEMMA InPhase ==
  ASSUME TypeInv, SubmissionInv, NEW t \in Threads, th[t].pc \in SubmitPhase
  PROVE  /\ th[t] \in Handler /\ th[t].a \in Attempts /\ ~form[th[t].a].manual
         /\ th[t].pc # "succeeded" => db.att[th[t].a].status \in {"submitting", "failed"}
         /\ th[t].pc = "succeeded" => db.att[th[t].a].status \in {"submitted", "failed"}
         /\ NoneElse(t, th[t].a)
  BY GuardedAttempt, PhaseElse DEF Guarded, SubmissionInv, SubmittingHandler

LEMMA SubmissionCreateSubmit ==
  ASSUME Isolated, TypeInv, SubmissionInv, NEW t \in Threads, CreateSubmit(t)
  PROVE  SubmissionInv'
<1> DEFINE a == th[t].a
<1>1. th[t].pc = "mksub" /\ th[t].pc \in SubmitPhase BY DEF CreateSubmit, At, SubmitPhase
<1>2. UNCHANGED <<apps, form>> BY DEF CreateSubmit
<1>3. CASE UNCHANGED db /\ Raise(t) BY <1>2, <1>3, SubmissionEnds
<1>4. ASSUME NEW s \in Submits, db' = Submitted(db, s, a, th[t].count),
             th' = [th EXCEPT ![t].pc = "post", ![t].sid = s]
      PROVE  SubmissionInv'
  <2>1. th[t].count \in 0 .. MaxCount /\ db \in Database BY <1>1, InPhase DEF Handler, TypeInv, TypeOK
  <2>2. SameStatus(db, db') BY <1>1, <1>4, <2>1, InPhase, QuietRules
  <2>3. OnlyMoves(t) /\ th'[t].pc = "post" /\ th'[t].a = a
    BY <1>1, <1>4, InPhase DEF OnlyMoves, TypeInv, TypeOK, Handler
  <2>4. apps[a] = 0 BY <1>1 DEF SubmissionInv, SubmittingHandler
  <2>5. SubmittingHandler(t)' /\ SamePhase(t)
    BY <1>1, <1>2, <2>2, <2>3, <2>4, InPhase
    DEF SubmittingHandler, SamePhase, SubmitPhase, Packaging, SameStatus
  <2>6. QED BY <1>2, <2>2, <2>3, <2>5, SubmissionQuiet
<1>5. QED BY <1>3, <1>4 DEF CreateSubmit, Commit, NoCommit, View

\* The POST: the one handler of the attempt, which the vendor does not hold yet.
LEMMA SubmissionPost ==
  ASSUME ~AmbiguousErrors, TypeInv, SubmissionInv, NEW t \in Threads, Post(t)
  PROVE  SubmissionInv'
<1> DEFINE a == th[t].a
<1>1. th[t].pc = "post" /\ th[t].pc \in SubmitPhase BY DEF Post, SubmitPhase
<1>2. /\ th[t] \in Handler /\ a \in Attempts /\ ~form[a].manual /\ NoneElse(t, a)
      /\ db.att[a].status \in {"submitting", "failed"}
  BY <1>1, InPhase
<1>3. apps[a] = 0 /\ apps \in [Attempts -> 0 .. MaxApps]
  BY <1>1 DEF SubmissionInv, SubmittingHandler, TypeInv, TypeOK
<1>4. UNCHANGED <<db, form>> BY DEF Post
<1>5. ASSUME NEW n, NEW out, Answered(t, out, n)
      PROVE  OnlyMoves(t) /\ th'[t].pc = "complete" /\ th'[t].a = a /\ th'[t].out = out
  BY <1>2, <1>5 DEF Answered, OnlyMoves, TypeInv, TypeOK, Handler
<1>6. \/ UNCHANGED apps /\ Raise(t)
      \/ \E out \in {"retry", "failed"} : UNCHANGED apps /\ Answered(t, out, 0)
      \/ \E n \in 1 .. MaxApps : Accepted(a, n) /\ (Raise(t) \/ Answered(t, "succeeded", n))
  BY DEF Post, Accepted
<1>7. CASE UNCHANGED apps /\ Raise(t) BY <1>4, <1>7, SubmissionEnds
<1>8. ASSUME NEW out, UNCHANGED apps, Answered(t, out, 0) PROVE SubmissionInv'
  <2>1. OnlyMoves(t) /\ th'[t].pc = "complete" /\ th'[t].a = a BY <1>5, <1>8
  <2>2. SubmittingHandler(t)' /\ SamePhase(t)
    BY <1>1, <1>2, <1>3, <1>4, <1>8, <2>1 DEF SubmittingHandler, SamePhase, SubmitPhase, Packaging
  <2>3. QED BY <1>4, <1>8, <2>1, <2>2, SubmissionQuiet DEF SameStatus
<1>9. ASSUME NEW n \in 1 .. MaxApps, Accepted(a, n), Raise(t) \/ Answered(t, "succeeded", n)
      PROVE  SubmissionInv'
  <2>1. apps'[a] = 1 /\ \A b \in Attempts \ {a} : apps'[b] = apps[b]
    BY <1>2, <1>3, <1>9, CountsAssumption DEF Accepted
  <2>2. OnlyMoves(t) BY <1>5, <1>9, EndsFree
  <2>3. \/ th'[t].pc \notin Guarded
        \/ th'[t].pc = "complete" /\ th'[t].a = a /\ th'[t].out = "succeeded"
    BY <1>5, <1>9, EndsFree
  <2>4. SubmittingHandler(t)' /\ SamePhase(t)
    <3>1. CASE th'[t].pc \notin Guarded BY <3>1, FreeHandler
    <3>2. CASE th'[t].pc = "complete" /\ th'[t].a = a /\ th'[t].out = "succeeded"
      BY <1>1, <1>2, <1>4, <3>2 DEF SubmittingHandler, SamePhase, SubmitPhase, Packaging
    <3>3. QED BY <2>3, <3>1, <3>2
  <2>5. OneSubmitter'
    <3>1. SUFFICES ASSUME NEW u \in Threads, NEW w \in Threads, u # w,
                          th'[u].pc \in SubmitPhase, th'[w].pc \in SubmitPhase
                   PROVE  th'[u].a # th'[w].a
      BY DEF OneSubmitter
    <3>2. \A x \in {u, w} : th[x].pc \in SubmitPhase /\ th[x].a = th'[x].a
      BY <2>2, <2>4, <3>1 DEF OnlyMoves, SamePhase
    <3>3. QED BY <3>1, <3>2 DEF SubmissionInv, OneSubmitter
  <2>6. OneApplication' BY <2>1 DEF SubmissionInv, OneApplication
  <2>7. \A b \in Attempts : SubmittedAttempt(b)'
    BY <1>2, <1>4, <2>1 DEF SubmissionInv, SubmittedAttempt
  <2>8. ASSUME NEW u \in Threads \ {t} PROVE SubmittingHandler(u)'
    <3>1. SubmittingHandler(u) /\ th'[u] = th[u] BY <2>2 DEF SubmissionInv, OnlyMoves
    <3>2. CASE th[u].pc \notin Guarded BY <3>1, <3>2, FreeHandler
    <3>3. CASE th[u].pc \in SubmitPhase
      <4>1. apps'[th[u].a] = apps[th[u].a] BY <1>2, <2>1, <3>3, InPhase DEF NoneElse
      <4>2. QED BY <1>4, <3>1, <4>1 DEF SubmittingHandler
    <3>4. CASE th[u].pc \in Guarded \ SubmitPhase
      BY <1>4, <3>1, <3>4 DEF SubmittingHandler, Guarded, SubmitPhase, Packaging
    <3>5. QED BY <3>2, <3>3, <3>4
  <2>9. QED BY <2>4, <2>5, <2>6, <2>7, <2>8 DEF SubmissionInv
<1>10. QED BY <1>6, <1>7, <1>8, <1>9

LEMMA SubmissionComplete ==
  ASSUME Isolated, TypeInv, SubmissionInv, NEW t \in Threads, Complete(t)
  PROVE  SubmissionInv'
<1> DEFINE a == th[t].a
           v == Completed(db, th[t].sid, SubmitStatus(th[t].out), th[t].app)
<1>1. th[t].pc = "complete" /\ th[t].pc \in SubmitPhase BY DEF Complete, At, SubmitPhase
<1>2. /\ th[t] \in Handler /\ a \in Attempts /\ ~form[a].manual /\ NoneElse(t, a)
      /\ db.att[a].status \in {"submitting", "failed"} /\ db \in Database
  BY <1>1, InPhase DEF TypeInv, TypeOK
<1>3. UNCHANGED <<apps, form>> BY DEF Complete, Call, LastCall
<1>4. th[t].out # "succeeded" => apps[a] = 0 BY <1>1 DEF SubmissionInv, SubmittingHandler
<1>5. \/ SameStatus(db, v)
      \/ "failed" \in AllowedFrom(db.att[a].status) /\ SetStatus(db, v, a, "failed")
  BY <1>1, <1>2, CompleteArguments, CompletedSets
<1>6. th[t].out # "failed" => SameStatus(db, v)
  BY <1>2 DEF Completed, SubmitStatus, SameStatus, Database, Handler
<1>7. \/ UNCHANGED db /\ Raise(t)
      \/ th[t].out = "retry" /\ db' = v /\ Goto(t, "limit")
      \/ th[t].out = "succeeded" /\ db' = v /\ Goto(t, "submitted")
      \/ db' = v /\ Done(t)
  BY DEF Complete, Call, LastCall, Commit, NoCommit, View
<1> HIDE DEF v
<1>8. CASE UNCHANGED db /\ Raise(t) BY <1>3, <1>8, SubmissionEnds
<1>9. CASE db' = v /\ Done(t)
  <2>1. OnlyMoves(t) /\ th'[t].pc \notin Guarded /\ th'[t].pc \notin SubmitPhase BY <1>9, EndsFree DEF Guarded
  <2>2. CASE SameStatus(db, v) BY <1>3, <1>9, <2>1, <2>2, SubmissionFree
  <2>3. CASE "failed" \in AllowedFrom(db.att[a].status) /\ SetStatus(db, v, a, "failed")
    <3>1. "failed" \in Statuses BY DEF Statuses
    <3>2. QED BY <1>2, <1>3, <1>9, <2>1, <2>3, <3>1, FreeHandler, SubmissionTransition
  <2>4. QED BY <1>5, <2>2, <2>3
<1>10. ASSUME NEW c \in {"limit", "submitted"}, db' = v, Goto(t, c), SameStatus(db, v), c = "limit" => apps[a] = 0
       PROVE  SubmissionInv'
  <2>1. OnlyMoves(t) /\ th'[t].pc = c /\ th'[t].a = a BY <1>10, GoesOn
  <2>2. db'.att[a].status = db.att[a].status BY <1>2, <1>10 DEF SameStatus
  <2>3. SubmittingHandler(t)' /\ SamePhase(t)
    BY <1>1, <1>2, <1>3, <1>10, <2>1, <2>2 DEF SubmittingHandler, SamePhase, SubmitPhase, Packaging
  <2>4. QED BY <1>3, <1>10, <2>1, <2>3, SubmissionQuiet
<1>11. QED BY <1>4, <1>6, <1>7, <1>8, <1>9, <1>10

LEMMA SubmissionMarks ==
  ASSUME Isolated, TypeInv, SubmissionInv, NEW t \in Threads,
         RateLimit(t) \/ MarkSubmitted(t) \/ MarkSucceeded(t)
  PROVE  SubmissionInv'
<1> DEFINE a == th[t].a
<1>1. th[t].pc \in SubmitPhase BY DEF RateLimit, MarkSubmitted, MarkSucceeded, At, SubmitPhase
<1>2. a \in Attempts /\ ~form[a].manual /\ NoneElse(t, a) BY <1>1, InPhase
<1>3. UNCHANGED <<apps, form>> BY DEF RateLimit, MarkSubmitted, MarkSucceeded, Call, LastCall
<1>4. CASE UNCHANGED db /\ Raise(t) BY <1>3, <1>4, SubmissionEnds
<1>5. {"rate_limited", "submitted", "succeeded"} \subseteq Statuses BY DEF Statuses
<1>6. CASE RateLimit(t)
  <2>1. \/ UNCHANGED db /\ Raise(t)
        \/ /\ CanMove(db, a, "rate_limited") /\ db' = Moved(db, a, "rate_limited")
           /\ Done(t) \/ Goto(t, "resend")
    BY <1>6 DEF RateLimit, Call, LastCall, Commit, NoCommit, View
  <2>2. apps[a] = 0 BY <1>6 DEF RateLimit, At, SubmissionInv, SubmittingHandler
  <2>3. "resend" \notin Guarded BY DEF Guarded, SubmitPhase, Packaging
  <2>4. Done(t) \/ Goto(t, "resend") => OnlyMoves(t) /\ th'[t].pc \notin Guarded BY <2>3, EndsFree, GoesOn
  <2>5. QED BY <1>2, <1>3, <1>4, <1>5, <2>1, <2>2, <2>4, SubmissionMoveAway
<1>7. CASE MarkSubmitted(t)
  <2>1. \/ UNCHANGED db /\ Raise(t)
        \/ CanMove(db, a, "submitted") /\ db' = Moved(db, a, "submitted") /\ Goto(t, "succeeded")
    BY <1>7 DEF MarkSubmitted, Call, Commit, NoCommit, View
  <2>2. CASE CanMove(db, a, "submitted") /\ db' = Moved(db, a, "submitted") /\ Goto(t, "succeeded")
    <3>1. OnlyMoves(t) /\ th'[t].pc = "succeeded" /\ th'[t].a = a BY <2>2, GoesOn
    <3>2. SetStatus(db, db', a, "submitted") BY <1>2, <1>5, <2>2, MovedSets DEF TypeInv, TypeOK
    <3>3. SubmittingHandler(t)'
      BY <1>2, <1>3, <3>1, <3>2 DEF SubmittingHandler, SubmitPhase, Packaging, SetStatus
    <3>4. "submitted" \in AllowedFrom(db.att[a].status) BY <2>2 DEF CanMove
    <3>5. QED BY <1>2, <1>3, <1>5, <3>1, <3>2, <3>3, <3>4, SubmissionTransition
  <2>3. QED BY <1>4, <2>1, <2>2
<1>8. CASE MarkSucceeded(t)
  <2>1. \/ UNCHANGED db /\ Raise(t)
        \/ CanMove(db, a, "succeeded") /\ db' = Moved(db, a, "succeeded") /\ Done(t)
    BY <1>8 DEF MarkSucceeded, LastCall, Commit, NoCommit, View
  <2>2. CASE CanMove(db, a, "succeeded") /\ db' = Moved(db, a, "succeeded") /\ Done(t)
    BY <1>2, <1>3, <1>5, <2>2, EndsFree, SubmissionMoveAway
  <2>3. QED BY <1>4, <2>1, <2>2
<1>9. QED BY <1>6, <1>7, <1>8

LEMMA SubmissionInit == Init => SubmissionInv
<1> SUFFICES ASSUME Init PROVE SubmissionInv OBVIOUS
<1>1. \A t \in Threads : th[t].pc = "idle" BY IdleFits DEF Init
<1>2. \A a \in Attempts : db.att[a].status = "none" /\ apps[a] = 0 BY DEF Init, EmptyDb, NoRow
<1>3. QED BY <1>1, <1>2
  DEF SubmissionInv, OneSubmitter, OneApplication, SubmittedAttempt, SubmittingHandler, SubmitPhase, Packaging

LEMMA SubmissionStep == Isolated /\ ~AmbiguousErrors /\ TypeInv /\ SubmissionInv /\ [Next]_vars => SubmissionInv'
<1> SUFFICES ASSUME Isolated, ~AmbiguousErrors, TypeInv, SubmissionInv, [Next]_vars PROVE SubmissionInv' OBVIOUS
<1>1. CASE UNCHANGED vars
  BY <1>1 DEF vars, SubmissionInv, OneSubmitter, OneApplication, SubmittedAttempt, SubmittingHandler
<1>2. ASSUME NEW t \in Threads, RequestStep(t) PROVE SubmissionInv'
  BY <1>2, SubmissionCreate, SubmissionRequest, SubmissionQueue, SubmissionHost, SubmissionUser DEF RequestStep
<1>3. ASSUME NEW t \in Threads, WorkStep(t) PROVE SubmissionInv'
  BY <1>3, SubmissionHost, SubmissionRead, SubmissionRequeue, SubmissionPackage, SubmissionStart,
     SubmissionCreateSubmit, SubmissionPost, SubmissionComplete, SubmissionMarks
  DEF WorkStep
<1>4. ASSUME NEW t \in Threads PROVE ~Hydrate(t) BY DEF Hydrate
<1>5. QED BY <1>1, <1>2, <1>3, <1>4, SubmissionArrival, SubmissionHost DEF Next

\* The invariant of the submission, for any number of handlers, attempts and
\* messages, whatever dies or is delivered again.
THEOREM SubmissionCorrect == ASSUME Isolated, ~AmbiguousErrors PROVE Spec => []SubmissionInv
<1>1. TypeInv /\ SubmissionInv /\ [Next]_vars => SubmissionInv' BY SubmissionStep
<1>2. QED BY <1>1, SubmissionInit, TypeCorrect, PTL DEF Spec

\* "no duplicate external submissions for same request": the vendor never holds two
\* applications for one attempt.  Both hypotheses are needed: AutoApply_doubleSubmit
\* and AutoApply_overlap are the runs without them.
THEOREM NoDuplicateApplication == ASSUME Isolated, ~AmbiguousErrors PROVE Spec => []OneApplication
<1>1. SubmissionInv => OneApplication BY DEF SubmissionInv
<1>2. QED BY <1>1, SubmissionCorrect, PTL

-----------------------------------------------------------------------------
(* The approval gate.  Gated is not inductive by itself: that queue locks   *)
(* a package needs one to be there, and that the worker's way back to the  *)
(* queue is no way around the lock needs its attempt to have been there.   *)

GateHandler(t) ==
  /\ th[t].pc \in {"approve", "queue"} => db.pkg[th[t].a].state # "none"
  /\ th[t].pc = "requeue" => db.att[th[t].a].status # "draft"
GatedInv == Gated /\ \A t \in Threads : GateHandler(t)

\* What calls do to an attempt: the approval is kept, a draft gets beyond the
\* gate by the way of the queue only, and nothing becomes a draft again.
LEMMA CallGate ==
  ASSUME db \in Database, StoreNext, NEW a \in Attempts, db.att[a].status # "none"
  PROVE  /\ db.att[a].approved => db'.att[a].approved
         /\ \/ db'.att[a].status = db.att[a].status
            \/ db'.att[a].status = "failed"
            \/ db.att[a].approved /\ db'.att[a].status \in AllowedFrom(db.att[a].status)
<1> DEFINE goal == /\ db.att[a].approved => db'.att[a].approved
                   /\ \/ db'.att[a].status = db.att[a].status
                      \/ db'.att[a].status = "failed"
                      \/ db.att[a].approved /\ db'.att[a].status \in AllowedFrom(db.att[a].status)
<1>1. db.att[a] \in AttemptRow BY DEF Database
<1>2. CASE db'.att[a] = db.att[a] BY <1>2
<1>3. ASSUME NEW b \in Attempts, NEW f \in Bodies, Insert(b, f) PROVE goal
  <2>1. db'.att[a] = db.att[a] BY <1>3 DEF Insert, Created, Database
  <2>2. QED BY <1>2, <2>1
<1>4. ASSUME NEW b \in Attempts, AttemptCall(b) PROVE goal
  <2>1. CASE \/ \E who \in {"request", "worker"} : Put(b, who)
             \/ Lock(b)
             \/ \E s \in Submits, n \in 0 .. MaxCount : OpenSubmit(b, s, n)
    <3>1. db'.att = db.att BY <2>1 DEF Put, PackagePut, Lock, Locked, OpenSubmit, Submitted, Database
    <3>2. QED BY <1>2, <3>1
  <2>2. ASSUME NEW r, db' = [db EXCEPT !.att[b] = r], a = b => r.status = db.att[a].status,
               a = b /\ db.att[a].approved => r.approved
        PROVE  goal
    BY <2>2 DEF Database
  <2>3. CASE Sign(b)
    <3> DEFINE r == [db.att[b] EXCEPT !.approved = TRUE]
    <3>1. db.att[b] \in AttemptRow BY DEF Database
    <3>2. r.status = db.att[b].status BY <3>1 DEF AttemptRow
    <3>3. r.approved BY <3>1, Zenon DEF AttemptRow
    <3>4. db' = [db EXCEPT !.att[b] = r] BY <2>3 DEF Sign, Approved, Database
    <3> HIDE DEF r
    <3>5. QED BY <2>2, <3>2, <3>3, <3>4
  <2>4. CASE NoteCancel(b)
    <3> DEFINE r == [db.att[b] EXCEPT !.error = "cancelled"]
    <3>1. db.att[b] \in AttemptRow BY DEF Database
    <3>2. r.status = db.att[b].status /\ r.approved = db.att[b].approved BY <3>1, Zenon DEF AttemptRow
    <3>3. db' = [db EXCEPT !.att[b] = r] BY <2>4 DEF NoteCancel, CancelNoted, Database
    <3> HIDE DEF r
    <3>4. QED BY <2>2, <3>2, <3>3
  <2>5. ASSUME NEW s \in Statuses, NEW v \in Database, v.att = db.att, CanMove(db, b, s), db' = Moved(v, b, s)
        PROVE  goal
    <3> DEFINE r == [db.att[b] EXCEPT !.status = s]
    <3>1. db.att[b] \in AttemptRow BY DEF Database
    <3>2. r.status = s /\ r.approved = db.att[b].approved BY <3>1, Zenon DEF AttemptRow
    <3>3. db'.att = [db.att EXCEPT ![b] = r] BY <2>5 DEF Moved, Database
    <3> HIDE DEF r
    <3>4. db'.att[a] = IF a = b THEN r ELSE db.att[a] BY <3>3 DEF Database
    <3>5. CASE a = b BY <2>5, <3>2, <3>4, <3>5 DEF CanMove
    <3>6. CASE a # b BY <1>2, <3>4, <3>6
    <3>7. QED BY <3>5, <3>6
  <2>6. CASE LockQueue(b)
    <3>1. Locked(db, b) \in Database /\ Locked(db, b).att = db.att BY LockedType DEF Locked, Database
    <3>2. QED BY <2>5, <2>6, <3>1 DEF LockQueue, CanQueue, Queued, Statuses
  <2>7. ASSUME NEW s \in Statuses, Move(b, s) PROVE goal BY <2>5, <2>7 DEF Move
  <2>8. QED BY <1>4, <2>1, <2>3, <2>4, <2>6, <2>7 DEF AttemptCall
<1>5. ASSUME NEW s \in Submits, NEW status \in SubmitOutcomes, NEW n \in 0 .. MaxApps, CloseSubmit(s, status, n)
      PROVE  goal
  <2> DEFINE b == db.sub[s].owner
             r == FailedRow(db.att[b])
  <2>1. db.att[b] \in AttemptRow /\ b \in Attempts BY <1>5 DEF CloseSubmit, Database
  <2>2. r.approved = db.att[b].approved BY <2>1, Zenon DEF FailedRow, AttemptRow
  <2>3. r.status = "failed" \/ r.status = db.att[b].status BY <2>1 DEF FailedRow, AttemptRow
  <2>4. db'.att = db.att \/ db'.att = [db.att EXCEPT ![b] = r]
    BY <1>5 DEF CloseSubmit, Completed, Database
  <2> HIDE DEF r
  <2>5. db'.att[a] = db.att[a] \/ (a = b /\ db'.att[a] = r) BY <2>1, <2>4 DEF Database
  <2>6. QED BY <1>2, <2>2, <2>3, <2>5
<1>6. ASSUME NEW i \in AppIds, Ingest(i) PROVE goal
  <2>1. db'.att = db.att BY <1>6 DEF Ingest, HookIngested, Database
  <2>2. QED BY <1>2, <2>1
<1>7. QED BY <1>3, <1>4, <1>5, <1>6 DEF StoreNext, SubmitCall

LEMMA CallKeepsPackage ==
  ASSUME db \in Database, StoreNext, NEW a \in Attempts, db.pkg[a].state # "none"
  PROVE  db'.pkg[a].state # "none"
<1>1. db.pkg[a] \in PackageRow BY DEF Database
<1>2. ASSUME NEW b \in Attempts, AttemptCall(b) PROVE db'.pkg[a].state # "none"
  <2>1. Locked(db, b).pkg[a].state # "none" /\ Queued(db, b).pkg = Locked(db, b).pkg
    BY <1>1 DEF Locked, Queued, Moved, Database, PackageRow
  <2>2. \A who : PackagePut(db, b, who).pkg[a].state # "none" BY DEF PackagePut, Database
  <2>3. Approved(db, b).pkg = db.pkg /\ CancelNoted(db, b).pkg = db.pkg BY DEF Approved, CancelNoted, Database
  <2>4. \A s, n : Moved(db, b, s).pkg = db.pkg /\ Submitted(db, s, b, n).pkg = db.pkg
    BY DEF Moved, Submitted, Database
  <2>5. QED BY <1>2, <2>1, <2>2, <2>3, <2>4
    DEF AttemptCall, Put, Lock, Sign, LockQueue, NoteCancel, Move, OpenSubmit
<1>3. ASSUME NEW b \in Attempts, NEW f \in Bodies, Insert(b, f) PROVE db'.pkg[a] = db.pkg[a]
  BY <1>3 DEF Insert, Created, Database
<1>4. CASE SubmitCall BY <1>4 DEF SubmitCall, CloseSubmit, Completed, Database
<1>5. ASSUME NEW i \in AppIds PROVE HookIngested(db, i).pkg = db.pkg BY DEF HookIngested, Database
<1>6. QED BY <1>2, <1>3, <1>4, <1>5 DEF StoreNext, Ingest

\* Only the calls queue and requeue write "queued".
QueuesNothing == \A a \in Attempts : db'.att[a].status = "queued" => db.att[a].status = "queued"

LEMMA QuietQueuesNothing == ASSUME SameStatus(db, db') PROVE QueuesNothing
  BY DEF SameStatus, QueuesNothing

LEMMA MoveQueuesNothing ==
  ASSUME db \in Database, NEW a \in Attempts, NEW s \in Statuses \ {"queued"}, UNCHANGED db \/ db' = Moved(db, a, s)
  PROVE  QueuesNothing
  BY MovedSets DEF QueuesNothing, SetStatus

LEMMA OthersQueueNothing ==
  ASSUME Isolated, TypeInv, NEW t \in Threads, RequestStep(t) \/ WorkStep(t), ~Queue(t), ~Requeue(t)
  PROVE  QueuesNothing
<1> DEFINE a == th[t].a
<1>1. th[t].pc \in HasAttempt => a \in Attempts /\ th[t] \in Handler BY HandlerAttempt
<1>2. db \in Database BY DEF TypeInv, TypeOK
<1>3. CASE UNCHANGED db BY <1>3 DEF QueuesNothing
<1>4. CASE \/ Enqueue(t) \/ PutArtifacts(t) \/ Ack(t) \/ Read(t) \/ Post(t) \/ Resend(t)
  BY <1>3, <1>4
  DEF Enqueue, PutArtifacts, Ack, Read, Post, Resend, Call, Commit, NoCommit, View
<1>5. CASE CreateAttempt(t)
  <2>1. UNCHANGED db \/ \E b \in Attempts : db' = Created(db, b)
    BY <1>5 DEF CreateAttempt, Unborn, Commit, NoCommit, View
  <2>2. QED BY <1>2, <2>1, CreatedSets DEF QueuesNothing, SetStatus
<1>6. CASE PutPackage(t) \/ Approve(t) \/ WorkerPackage(t) \/ LockPackage(t)
  <2>1. a \in Attempts
    BY <1>1, <1>6 DEF PutPackage, Approve, WorkerPackage, LockPackage, At, HasAttempt, Pcs, Calls
  <2>2. \/ UNCHANGED db \/ db' = Approved(db, a) \/ db' = Locked(db, a)
        \/ \E who \in {"request", "worker"} : db' = PackagePut(db, a, who)
    BY <1>6 DEF PutPackage, Approve, WorkerPackage, LockPackage, Call, Commit, NoCommit, View
  <2>3. QED BY <1>2, <1>3, <2>1, <2>2, QuietRules, QuietQueuesNothing
<1>7. CASE CancelMark(t)
  <2>1. SameStatus(db, db') BY <1>2, <1>7 DEF CancelMark, CancelNoted, SameStatus, Database, AttemptRow
  <2>2. QED BY <2>1, QuietQueuesNothing
<1>8. CASE IngestWebhook(t)
  <2>1. <<th[t].a, th[t].app>> \in AppIds /\ th[t].a \in Attempts
    BY <1>8, HookArguments DEF IngestWebhook, At, AppIds
  <2>2. UNCHANGED db \/ db' = HookIngested(db, <<th[t].a, th[t].app>>)
    BY <1>8 DEF IngestWebhook, LastCall, Commit, NoCommit, View
  <2>3. QED BY <1>2, <1>3, <2>1, <2>2, QuietRules, QuietQueuesNothing
<1>9. CASE CreateSubmit(t)
  <2>1. a \in Attempts /\ th[t].count \in 0 .. MaxCount
    BY <1>1, <1>9 DEF CreateSubmit, At, HasAttempt, Pcs, Calls, Handler
  <2>2. UNCHANGED db \/ \E s \in Submits : db' = Submitted(db, s, a, th[t].count)
    BY <1>9 DEF CreateSubmit, Commit, NoCommit, View
  <2>3. QED BY <1>2, <1>3, <2>1, <2>2, QuietRules, QuietQueuesNothing
<1>10. CASE Complete(t)
  <2>1. th[t].pc = "complete" BY <1>10 DEF Complete, At
  <2>2. UNCHANGED db \/ db' = Completed(db, th[t].sid, SubmitStatus(th[t].out), th[t].app)
    BY <1>10 DEF Complete, Call, LastCall, Commit, NoCommit, View
  <2>3. QED BY <1>2, <1>3, <2>1, <2>2, CompleteArguments, CompletedSets DEF QueuesNothing, SameStatus, SetStatus
<1>11. CASE \/ CancelMove(t) \/ ManualMove(t) \/ NeedsReview(t) \/ Start(t) \/ RateLimit(t)
            \/ MarkSubmitted(t) \/ MarkSucceeded(t)
  <2>1. a \in Attempts
    BY <1>1, <1>11
    DEF CancelMove, ManualMove, NeedsReview, Start, RateLimit, MarkSubmitted, MarkSucceeded, At, HasAttempt, Pcs, Calls
  <2>2. UNCHANGED db \/ \E s \in Statuses \ {"queued"} : db' = Moved(db, a, s)
    BY <1>11
    DEF CancelMove, ManualMove, NeedsReview, Start, RateLimit, MarkSubmitted, MarkSucceeded, Call, LastCall, Commit,
        NoCommit, View, Statuses
  <2>3. QED BY <1>2, <1>3, <2>1, <2>2, MoveQueuesNothing
<1>12. QED BY <1>4, <1>5, <1>6, <1>7, <1>8, <1>9, <1>10, <1>11 DEF RequestStep, WorkStep

\* A draft that gets into the queue has a locked package.
LEMMA DraftQueued ==
  ASSUME Isolated, TypeInv, GatedInv, [Next]_vars,
         NEW a \in Attempts, db.att[a].status # "queued", db'.att[a].status = "queued"
  PROVE  db'.pkg[a].state = "locked" \/ db.att[a].status # "draft"
<1>1. db \in Database BY DEF TypeInv, TypeOK
<1>2. CASE UNCHANGED db BY <1>2
<1>3. ASSUME NEW t \in Threads, Queue(t) PROVE db'.pkg[a].state = "locked"
  <2> DEFINE b == th[t].a
  <2>1. b \in Attempts BY <1>3, HandlerAttempt DEF Queue, At, HasAttempt, Pcs, Calls
  <2>2. db.pkg[b].state # "none" BY <1>3 DEF Queue, At, GatedInv, GateHandler
  <2>3. UNCHANGED db \/ db' = Locked(db, b) \/ db' = Queued(db, b)
    BY <1>3 DEF Queue, Commit, NoCommit, View, QueueRefused
  <2>4. SameStatus(db, Locked(db, b)) /\ SetStatus(db, Queued(db, b), b, "queued")
    BY <1>1, <2>1, QuietRules, QueuedSets
  <2>5. a = b /\ db' = Queued(db, b) BY <2>3, <2>4 DEF SameStatus, SetStatus
  <2>6. Queued(db, b).pkg[b].state = "locked"
    BY <1>1, <2>1, <2>2 DEF Queued, Locked, Moved, Database, PackageRow
  <2>7. QED BY <2>5, <2>6
<1>4. ASSUME NEW t \in Threads, Requeue(t) PROVE db.att[a].status # "draft"
  <2>1. th[t].a \in Attempts /\ "queued" \in Statuses
    BY <1>4, HandlerAttempt DEF Requeue, At, HasAttempt, Pcs, Calls, Statuses
  <2>2. UNCHANGED db \/ db' = Moved(db, th[t].a, "queued") BY <1>4 DEF Requeue, Commit, NoCommit, View
  <2>3. a = th[t].a BY <1>1, <2>1, <2>2, MovedSets DEF SetStatus
  <2>4. QED BY <1>4, <2>3 DEF Requeue, At, GatedInv, GateHandler
<1>5. ASSUME NEW t \in Threads, Hydrate(t) \/ Arrival(t) \/ Deliver(t) \/ Die(t) PROVE UNCHANGED db
  BY <1>5 DEF Hydrate, Arrival, CreateRequest, CancelRead, ManualRead, WebhookArrives, Deliver, Die, NoCommit, Goto
<1>6. QED BY <1>2, <1>3, <1>4, <1>5, OthersQueueNothing DEF Next, vars, QueuesNothing

\* A row appears as a draft.
LEMMA CallFromNone ==
  ASSUME db \in Database, StoreNext, NEW a \in Attempts, db.att[a].status = "none"
  PROVE  db'.att[a].status \in {"none", "draft"}
<1>1. AllowedFrom("none") = {} BY DEF AllowedFrom
<1>2. ASSUME NEW b \in Attempts, NEW f \in Bodies, Insert(b, f) PROVE db'.att[a].status \in {"none", "draft"}
  BY <1>2, CreatedSets DEF Insert, SetStatus
<1>3. ASSUME NEW b \in Attempts, AttemptCall(b) PROVE db'.att[a].status = "none"
  <2>1. CASE LockQueue(b) BY <1>1, <2>1, QueuedSets DEF LockQueue, CanQueue, CanMove, SetStatus
  <2>2. ASSUME NEW s \in Statuses, Move(b, s) PROVE db'.att[a].status = "none"
    BY <1>1, <2>2, MovedSets DEF Move, CanMove, SetStatus
  <2>3. CASE NoteCancel(b) BY <2>3 DEF NoteCancel, CancelNoted, Database, AttemptRow
  <2>4. QED BY <1>3, <2>1, <2>2, <2>3, QuietRules DEF AttemptCall, Put, Lock, Sign, OpenSubmit, SameStatus
<1>4. CASE SubmitCall
  <2>1. db'.att[a].status = "none" BY <1>1, <1>4, CompletedSets DEF SubmitCall, CloseSubmit, SameStatus, SetStatus
  <2>2. QED BY <2>1
<1>5. QED BY <1>2, <1>3, <1>4, QuietRules DEF StoreNext, Ingest, SameStatus

LEMMA GateStep ==
  ASSUME Isolated, TypeInv, GatedInv, [Next]_vars
  PROVE  Gated'
<1>1. db \in Database /\ [StoreNext]_storeVars BY StepImplements DEF TypeInv, TypeOK
<1>2. CASE UNCHANGED storeVars BY <1>2 DEF storeVars, GatedInv, Gated
<1>3. CASE StoreNext
  <2>1. SUFFICES ASSUME NEW a \in Attempts, db'.att[a].status \in Frozen
                 PROVE  db'.att[a].approved /\ db'.pkg[a].state = "locked"
    BY DEF Gated
  <2>2. CASE db.att[a].status = "none"
    <3>1. db'.att[a].status \in {"none", "draft"} BY <1>1, <1>3, <2>2, CallFromNone
    <3>2. QED BY <2>1, <3>1 DEF Frozen, Statuses
  <2>3. CASE db.att[a].status \in Frozen
    <3>1. db.att[a].approved /\ db.pkg[a].state = "locked" BY <2>3 DEF GatedInv, Gated
    <3>2. db.att[a].status # "none" BY <2>3 DEF Frozen, Statuses
    <3>3. QED BY <1>1, <1>3, <3>1, <3>2, CallGate, CallPackage
  <2>4. CASE db.att[a].status \in {"draft", "failed"}
    <3>1. db'.att[a].status # db.att[a].status /\ db'.att[a].status # "failed" BY <2>1, <2>4 DEF Frozen
    <3>2. db.att[a].approved /\ db'.att[a].approved /\ db'.att[a].status \in AllowedFrom(db.att[a].status)
      BY <1>1, <1>3, <2>4, <3>1, CallGate
    <3>3. db.att[a].status = "draft" /\ db'.att[a].status = "queued" BY <2>4, <3>1, <3>2 DEF AllowedFrom
    <3>4. QED BY <3>2, <3>3, DraftQueued
  <2>5. db.att[a].status \in Statuses \cup {"none"} BY <1>1 DEF Database, AttemptRow
  <2>6. QED BY <2>2, <2>3, <2>4, <2>5 DEF Frozen
<1>4. QED BY <1>1, <1>2, <1>3

GatePcs == {"approve", "queue", "requeue"}
Elsewhere(t) == OnlyMoves(t) /\ th'[t].pc \notin GatePcs

LEMMA CallElsewhere ==
  ASSUME TypeInv, NEW t \in Threads, NEW ok, NEW v, NEW c, c \notin GatePcs, Call(t, ok, v, c) \/ LastCall(t, ok, v)
  PROVE  Elsewhere(t)
<1>1. Raise(t) \/ Done(t) => Elsewhere(t) BY Ends DEF Elsewhere, GatePcs
<1>2. Goto(t, c) => Elsewhere(t) BY GoesOn DEF Elsewhere
<1>3. QED BY <1>1, <1>2 DEF Call, LastCall

LEMMA GateRequest ==
  ASSUME Isolated, TypeInv, GatedInv, NEW t \in Threads, RequestStep(t)
  PROVE  OnlyMoves(t) /\ GateHandler(t)'
<1> DEFINE a == th[t].a
<1>1. Elsewhere(t) => OnlyMoves(t) /\ GateHandler(t)' BY DEF Elsewhere, GateHandler, GatePcs
<1>2. Raise(t) \/ Done(t) => Elsewhere(t) BY Ends DEF Elsewhere, GatePcs
<1>3. th \in [Threads -> Handler] /\ db \in Database BY DEF TypeInv, TypeOK
<1>4. CASE CreateAttempt(t)
  <2>1. Raise(t) \/ \E b \in Attempts : th' = [th EXCEPT ![t].pc = "artifacts", ![t].a = b]
    BY <1>4 DEF CreateAttempt, Unborn
  <2>2. ASSUME NEW b \in Attempts, th' = [th EXCEPT ![t].pc = "artifacts", ![t].a = b] PROVE Elsewhere(t)
    BY <1>3, <2>2 DEF Elsewhere, OnlyMoves, GatePcs, Handler
  <2>3. QED BY <1>1, <1>2, <2>1, <2>2
<1>5. CASE PutPackage(t)
  <2>1. a \in Attempts BY <1>5, HandlerAttempt DEF PutPackage, At, HasAttempt, Pcs, Calls
  <2>2. Raise(t) \/ (db' = PackagePut(db, a, "request") /\ Goto(t, "approve"))
    BY <1>5 DEF PutPackage, Call, Commit, View
  <2>3. CASE db' = PackagePut(db, a, "request") /\ Goto(t, "approve")
    <3>1. db'.pkg[a].state # "none" BY <1>3, <2>1, <2>3 DEF PackagePut, Database
    <3>2. OnlyMoves(t) /\ th'[t].pc = "approve" /\ th'[t].a = a BY <2>3, GoesOn
    <3>3. QED BY <3>1, <3>2 DEF GateHandler
  <2>4. QED BY <1>1, <1>2, <2>2, <2>3
<1>6. CASE Approve(t)
  <2>1. a \in Attempts BY <1>6, HandlerAttempt DEF Approve, At, HasAttempt, Pcs, Calls
  <2>2. db.pkg[a].state # "none" BY <1>6 DEF Approve, At, GatedInv, GateHandler
  <2>3. Raise(t) \/ (db' = Approved(db, a) /\ Goto(t, "queue")) BY <1>6 DEF Approve, Call, Commit, View
  <2>4. CASE db' = Approved(db, a) /\ Goto(t, "queue")
    <3>1. db'.pkg[a].state # "none" BY <1>3, <2>2, <2>4 DEF Approved, Database
    <3>2. OnlyMoves(t) /\ th'[t].pc = "queue" /\ th'[t].a = a BY <2>4, GoesOn
    <3>3. QED BY <3>1, <3>2 DEF GateHandler
  <2>5. QED BY <1>1, <1>2, <2>3, <2>4
<1>7. CASE Queue(t)
  <2>1. Raise(t) \/ Goto(t, "enqueue") BY <1>7 DEF Queue
  <2>2. "enqueue" \notin GatePcs BY DEF GatePcs
  <2>3. QED BY <1>1, <1>2, <2>1, <2>2, GoesOn DEF Elsewhere
<1>8. CASE Enqueue(t)
  <2>1. OnlyMoves(t) BY <1>3, <1>8 DEF Enqueue, OnlyMoves
  <2>2. th'[t].pc \in {"idle", "read"} BY <1>3, <1>8, IdleFits DEF Enqueue, Handler
  <2>3. QED BY <1>1, <2>1, <2>2 DEF Elsewhere, GatePcs
<1>9. CASE CancelMark(t) BY <1>1, <1>2, <1>9 DEF CancelMark
<1>10. CASE PutArtifacts(t) \/ CancelMove(t) \/ ManualMove(t) \/ IngestWebhook(t)
  <2>1. {"package", "mark", "idle"} \cap GatePcs = {} BY DEF GatePcs
  <2>2. \E ok, v : \E c \in {"package", "mark", "idle"} : Call(t, ok, v, c) \/ LastCall(t, ok, v)
    BY <1>10 DEF PutArtifacts, CancelMove, ManualMove, IngestWebhook
  <2>3. QED BY <1>1, <2>1, <2>2, CallElsewhere
<1>11. QED BY <1>4, <1>5, <1>6, <1>7, <1>8, <1>9, <1>10 DEF RequestStep

LEMMA GateWork ==
  ASSUME Isolated, TypeInv, GatedInv, NEW t \in Threads, WorkStep(t)
  PROVE  OnlyMoves(t) /\ GateHandler(t)'
<1>1. Elsewhere(t) => OnlyMoves(t) /\ GateHandler(t)' BY DEF Elsewhere, GateHandler, GatePcs
<1>2. Raise(t) \/ Done(t) => Elsewhere(t) BY Ends DEF Elsewhere, GatePcs
<1>3. th \in [Threads -> Handler] BY DEF TypeInv, TypeOK
<1>4. \A c : c \notin GatePcs /\ Goto(t, c) => Elsewhere(t) BY GoesOn DEF Elsewhere
<1>5. {"reread", "putpkg", "start", "lockpkg", "review", "mksub", "limit", "submitted", "succeeded", "resend", "idle"}
        \cap GatePcs = {}
  BY DEF GatePcs
<1>6. CASE Ack(t) BY <1>1, <1>3, <1>6, IdleFits DEF Ack, Elsewhere, OnlyMoves, GatePcs
<1>7. CASE Resend(t)
  <2>1. OnlyMoves(t) BY <1>3, <1>7 DEF Resend, OnlyMoves
  <2>2. th'[t].pc \in {"ack", "read"} BY <1>3, <1>7 DEF Resend, Handler, Idle
  <2>3. QED BY <1>1, <2>1, <2>2 DEF Elsewhere, GatePcs
<1>8. CASE Read(t)
  <2>1. CASE Goto(t, "requeue") /\ db.att[th[t].a].status = "rate_limited" /\ UNCHANGED db
    <3>1. OnlyMoves(t) /\ th'[t].pc = "requeue" /\ th'[t].a = th[t].a BY <2>1, GoesOn
    <3>2. QED BY <2>1, <3>1 DEF GateHandler
  <2>2. CASE Goto(t, "putpkg") \/ Goto(t, "start") \/ Done(t) BY <1>1, <1>2, <1>4, <1>5, <2>2
  <2>3. QED BY <1>8, <2>1, <2>2 DEF Read
<1>9. CASE Requeue(t) \/ WorkerPackage(t)
  <2>1. Goto(t, "reread") \/ Goto(t, "lockpkg") \/ Done(t) BY <1>9 DEF Requeue, WorkerPackage
  <2>2. QED BY <1>1, <1>2, <1>4, <1>5, <2>1
<1>10. CASE CreateSubmit(t)
  <2>1. Raise(t) \/ \E s \in Submits : th' = [th EXCEPT ![t].pc = "post", ![t].sid = s] BY <1>10 DEF CreateSubmit
  <2>2. ASSUME NEW s \in Submits, th' = [th EXCEPT ![t].pc = "post", ![t].sid = s] PROVE Elsewhere(t)
    BY <1>3, <2>2 DEF Elsewhere, OnlyMoves, GatePcs, Handler
  <2>3. QED BY <1>1, <1>2, <2>1, <2>2
<1>11. CASE Post(t)
  <2>1. Raise(t) \/ \E out, n : th' = [th EXCEPT ![t].pc = "complete", ![t].out = out, ![t].app = n]
    BY <1>11 DEF Post, Answered
  <2>2. ASSUME NEW out, NEW n, th' = [th EXCEPT ![t].pc = "complete", ![t].out = out, ![t].app = n]
        PROVE  Elsewhere(t)
    BY <1>3, <2>2 DEF Elsewhere, OnlyMoves, GatePcs, Handler
  <2>3. QED BY <1>1, <1>2, <2>1, <2>2
<1>12. CASE \/ LockPackage(t) \/ NeedsReview(t) \/ Start(t) \/ Complete(t) \/ RateLimit(t)
            \/ MarkSubmitted(t) \/ MarkSucceeded(t)
  <2>1. \E ok, v : \E c \in {"review", "mksub", "limit", "submitted", "resend", "succeeded", "idle"} :
          Call(t, ok, v, c) \/ LastCall(t, ok, v)
    BY <1>12 DEF LockPackage, NeedsReview, Start, Complete, RateLimit, MarkSubmitted, MarkSucceeded
  <2>2. QED BY <1>1, <1>5, <2>1, CallElsewhere
<1>13. QED BY <1>6, <1>7, <1>8, <1>9, <1>10, <1>11, <1>12 DEF WorkStep

LEMMA GateHost ==
  ASSUME Isolated, TypeInv, NEW t \in Threads, Arrival(t) \/ Deliver(t) \/ Die(t)
  PROVE  Elsewhere(t)
<1>1. th \in [Threads -> Handler] BY DEF TypeInv, TypeOK
<1>2. CASE Die(t) BY <1>2, Ends DEF Die, Elsewhere, GatePcs
<1>3. CASE Deliver(t)
  <2>1. OnlyMoves(t) BY <1>1, <1>3 DEF Deliver, OnlyMoves
  <2>2. th'[t].pc \in {"idle", "read"} BY <1>1, <1>3 DEF Deliver, Idle
  <2>3. QED BY <2>1, <2>2 DEF Elsewhere, GatePcs
<1>4. CASE CreateRequest(t) BY <1>1, <1>4 DEF CreateRequest, Goto, Elsewhere, OnlyMoves, GatePcs, Handler
<1>5. CASE CancelRead(t) BY <1>1, <1>5 DEF CancelRead, Elsewhere, OnlyMoves, GatePcs, Handler
<1>6. CASE ManualRead(t) BY <1>1, <1>6 DEF ManualRead, Elsewhere, OnlyMoves, GatePcs, Handler
<1>7. CASE WebhookArrives(t)
  <2>1. PICK a, n : th' = [th EXCEPT ![t].pc = "hook", ![t].a = a, ![t].app = n] BY <1>7 DEF WebhookArrives
  <2>2. QED BY <1>1, <2>1 DEF Elsewhere, OnlyMoves, GatePcs, Handler
<1>8. QED BY <1>2, <1>3, <1>4, <1>5, <1>6, <1>7 DEF Arrival

LEMMA GateHandlersStep ==
  ASSUME Isolated, TypeInv, GatedInv, [Next]_vars, NEW u \in Threads
  PROVE  GateHandler(u)'
<1>1. db \in Database /\ [StoreNext]_storeVars BY StepImplements DEF TypeInv, TypeOK
<1>2. CASE th'[u] = th[u]
  <2>1. GateHandler(u) BY DEF GatedInv
  <2>2. CASE UNCHANGED storeVars BY <1>2, <2>1, <2>2 DEF storeVars, GateHandler
  <2>3. CASE th[u].pc \notin GatePcs BY <1>2, <2>3 DEF GateHandler, GatePcs
  <2>4. CASE th[u].pc \in GatePcs /\ StoreNext
    <3>1. th[u].a \in Attempts /\ db.att[th[u].a].status # "none"
      BY <2>4, HandlerAttempt DEF GatePcs, HasAttempt, Pcs, Calls
    <3>2. \A s : "draft" \notin AllowedFrom(s) BY DEF AllowedFrom
    <3>3. QED BY <1>1, <1>2, <2>1, <2>4, <3>1, <3>2, CallGate, CallKeepsPackage DEF GateHandler
  <2>5. QED BY <1>1, <2>2, <2>3, <2>4
<1>3. ASSUME NEW t \in Threads, RequestStep(t) \/ WorkStep(t) \/ Arrival(t) \/ Deliver(t) \/ Die(t)
      PROVE  GateHandler(u)'
  <2>1. OnlyMoves(t) /\ GateHandler(t)'
    BY <1>3, GateRequest, GateWork, GateHost DEF Elsewhere, GateHandler, GatePcs
  <2>2. QED BY <1>2, <2>1 DEF OnlyMoves
<1>4. QED BY <1>2, <1>3 DEF Next, vars, Hydrate

\* The approval gate and the package lock: whatever way an attempt took into the
\* queue, and whoever cancelled, retried or died on it, it was approved by the user
\* and its package is locked from then on.
THEOREM GateHolds == ASSUME Isolated PROVE Spec => []Gated
<1>1. Init => GatedInv
  <2> SUFFICES ASSUME Init PROVE GatedInv OBVIOUS
  <2>1. \A t \in Threads : th[t].pc = "idle" BY IdleFits DEF Init
  <2>2. \A a \in Attempts : db.att[a].status = "none" BY DEF Init, EmptyDb, NoRow
  <2>3. QED BY <2>1, <2>2 DEF GatedInv, Gated, GateHandler, Frozen, Statuses
<1>2. TypeInv /\ GatedInv /\ [Next]_vars => GatedInv' BY GateStep, GateHandlersStep DEF GatedInv
<1>3. GatedInv => Gated BY DEF GatedInv
<1>4. QED BY <1>1, <1>2, <1>3, TypeCorrect, PTL DEF Spec

-----------------------------------------------------------------------------
(* What a store may claim of the vendor.  Honest(v, n): v claims no success, *)
(* link or callback without one of the n[a] applications held for a.       *)

Honest(v, n) ==
  /\ \A a \in Attempts : v.att[a].status = "succeeded" => n[a] > 0
  /\ \A s \in Submits : v.sub[s].app # 0 => v.sub[s].owner \in Attempts /\ v.sub[s].app <= n[v.sub[s].owner]
  /\ \A i \in AppIds : v.hook[i] # {} => i[2] <= n[i[1]] /\ v.hook[i] \subseteq {i[1], None}
Held == [Attempts -> 0 .. MaxApps]

LEMMA HonestGrows ==
  ASSUME NEW v \in Database, NEW n \in Held, NEW m \in Held, \A a \in Attempts : n[a] <= m[a], Honest(v, n)
  PROVE  Honest(v, m)
<1>1. \A a \in Attempts : n[a] \in Int /\ m[a] \in Int BY CountsAssumption DEF Held
<1>2. \A s \in Submits : v.sub[s].app \in Int BY CountsAssumption DEF Database, SubmitRow
<1>3. \A i \in AppIds : i[1] \in Attempts /\ i[2] \in Int BY CountsAssumption DEF AppIds
<1>4. QED BY <1>1, <1>2, <1>3 DEF Honest

LEMMA HonestOverlay ==
  ASSUME NEW d \in Database, NEW v \in Database, NEW n \in Held, Honest(d, n), Honest(v, n)
  PROVE  Honest(Overlay(d, v), n)
<1> DEFINE w == Overlay(d, v)
<1>1. /\ \A a \in Attempts : w.att[a] \in {d.att[a], v.att[a]}
      /\ \A s \in Submits : w.sub[s] \in {d.sub[s], v.sub[s]}
      /\ \A i \in AppIds : w.hook[i] \in {d.hook[i], v.hook[i]}
  BY DEF Overlay
<1> HIDE DEF w
<1>2. QED BY <1>1 DEF Honest, w

\* A rule that leaves the submit rows and the callbacks alone.
LEMMA HonestStatuses ==
  ASSUME NEW v \in Database, NEW w, NEW n \in Held, Honest(v, n), w.sub = v.sub, w.hook = v.hook,
         \A a \in Attempts : w.att[a].status = "succeeded" => v.att[a].status = "succeeded" \/ n[a] > 0
  PROVE  Honest(w, n)
  BY DEF Honest

LEMMA HonestRules ==
  ASSUME NEW v \in Database, NEW a \in Attempts, NEW n \in Held, Honest(v, n)
  PROVE  /\ Honest(Created(v, a), n) /\ Honest(Locked(v, a), n) /\ Honest(Approved(v, a), n)
         /\ Honest(Queued(v, a), n)
         /\ \A who \in {"request", "worker"} : Honest(PackagePut(v, a, who), n)
         /\ \A s \in Statuses : (s = "succeeded" => n[a] > 0) => Honest(Moved(v, a, s), n)
<1>1. Honest(Created(v, a), n)
  <2>1. SetStatus(v, Created(v, a), a, "draft") BY CreatedSets
  <2>2. Created(v, a).sub = v.sub /\ Created(v, a).hook = v.hook BY DEF Created, Database
  <2>3. QED BY <2>1, <2>2, HonestStatuses DEF SetStatus
<1>2. Honest(Locked(v, a), n)
  <2>1. SameStatus(v, Locked(v, a)) BY QuietRules
  <2>2. Locked(v, a).sub = v.sub /\ Locked(v, a).hook = v.hook BY DEF Locked, Database
  <2>3. QED BY <2>1, <2>2, HonestStatuses DEF SameStatus
<1>3. Honest(Approved(v, a), n)
  <2>1. SameStatus(v, Approved(v, a)) BY QuietRules
  <2>2. Approved(v, a).sub = v.sub /\ Approved(v, a).hook = v.hook BY DEF Approved, Database
  <2>3. QED BY <2>1, <2>2, HonestStatuses DEF SameStatus
<1>4. Honest(Queued(v, a), n)
  <2>1. SetStatus(v, Queued(v, a), a, "queued") BY QueuedSets
  <2>2. Queued(v, a).sub = v.sub /\ Queued(v, a).hook = v.hook BY DEF Queued, Moved, Locked, Database
  <2>3. QED BY <2>1, <2>2, HonestStatuses DEF SetStatus
<1>5. ASSUME NEW who \in {"request", "worker"} PROVE Honest(PackagePut(v, a, who), n)
  <2>1. SameStatus(v, PackagePut(v, a, who)) BY QuietRules
  <2>2. PackagePut(v, a, who).sub = v.sub /\ PackagePut(v, a, who).hook = v.hook BY DEF PackagePut, Database
  <2>3. QED BY <2>1, <2>2, HonestStatuses DEF SameStatus
<1>6. ASSUME NEW s \in Statuses, s = "succeeded" => n[a] > 0 PROVE Honest(Moved(v, a, s), n)
  <2>1. SetStatus(v, Moved(v, a, s), a, s) BY MovedSets
  <2>2. Moved(v, a, s).sub = v.sub /\ Moved(v, a, s).hook = v.hook BY DEF Moved, Database
  <2>3. \A b \in Attempts : Moved(v, a, s).att[b].status = "succeeded" => v.att[b].status = "succeeded" \/ n[b] > 0
    BY <1>6, <2>1 DEF SetStatus
  <2>4. QED BY <2>2, <2>3, HonestStatuses
<1>7. QED BY <1>1, <1>2, <1>3, <1>4, <1>5, <1>6

LEMMA HonestInterrupted ==
  ASSUME NEW v \in Database, NEW n \in Held, Honest(v, n)
  PROVE  Honest(Interrupted(v), n)
<1>1. Interrupted(v).hook = [i \in AppIds |-> {}] BY DEF Interrupted, EmptyDb, Database
<1>2. QED BY <1>1, InterruptedFits DEF Honest

LEMMA HonestSubmitted ==
  ASSUME NEW v \in Database, NEW s \in Submits, NEW a \in Attempts, NEW c \in 0 .. MaxCount, NEW n \in Held, Honest(v, n)
  PROVE  Honest(Submitted(v, s, a, c), n)
<1> DEFINE w == Submitted(v, s, a, c)
<1>1. w.att = v.att /\ w.hook = v.hook /\ w.sub[s].app = 0 /\ \A r \in Submits \ {s} : w.sub[r] = v.sub[r]
  BY DEF Submitted, Database
<1> HIDE DEF w
<1>2. QED BY <1>1 DEF Honest, w

\* complete_submit links the application the caller was told of.
LEMMA HonestCompleted ==
  ASSUME NEW v \in Database, NEW s \in Submits, NEW k \in 0 .. MaxApps, NEW status \in SubmitOutcomes, NEW n \in Held,
         v.sub[s].owner \in Attempts, k <= n[v.sub[s].owner], Honest(v, n)
  PROVE  Honest(Completed(v, s, status, k), n)
<1> DEFINE w == Completed(v, s, status, k)
<1>1. \A a \in Attempts : w.att[a].status = "succeeded" => v.att[a].status = "succeeded"
  BY CompletedSets DEF SameStatus, SetStatus
<1>2. w.hook = v.hook /\ w.sub = [v.sub EXCEPT ![s] = CompletedRow(v.sub[s], status, k)]
  BY DEF Completed, Database
<1>3. v.sub[s] \in SubmitRow BY DEF Database
<1>4. /\ w.sub[s].owner = v.sub[s].owner /\ w.sub[s].app = (IF k = 0 THEN v.sub[s].app ELSE k)
      /\ \A r \in Submits \ {s} : w.sub[r] = v.sub[r]
  BY <1>2, <1>3 DEF CompletedRow, SubmitRow, Database
<1> HIDE DEF w
<1>5. QED BY <1>1, <1>2, <1>4 DEF Honest, w

LEMMA HonestHook ==
  ASSUME NEW v \in Database, NEW i \in AppIds, NEW n \in Held, i[2] <= n[i[1]], Honest(v, n)
  PROVE  Honest(HookIngested(v, i), n)
<1> DEFINE w == HookIngested(v, i)
<1>1. w.att = v.att /\ w.sub = v.sub /\ \A j \in AppIds \ {i} : w.hook[j] = v.hook[j] BY DEF HookIngested, Database
<1>2. w.hook[i] = v.hook[i] \/ w.hook[i] = {None} \/ w.hook[i] = Linkable(v, i) BY DEF HookIngested, Database
<1>3. Linkable(v, i) \subseteq {i[1]} BY DEF Linkable
<1> HIDE DEF w
<1>4. QED BY <1>1, <1>2, <1>3 DEF Honest, w

-----------------------------------------------------------------------------
(* The store tells the truth of the vendor.  VendorTruth is not inductive:  *)
(* what a working copy or a handler holds is written later, so both must    *)
(* tell the truth already; and they keep doing so because the vendor never  *)
(* drops an application.                                                   *)

\* A handler on its way to write that the vendor holds an application.
Vouched(t) == \/ th[t].pc = "complete" /\ th[t].out = "succeeded"
              \/ th[t].pc \in {"submitted", "succeeded"}
Claims(t) ==
  /\ th[t].pc \in {"hook", "complete"} => th[t].app <= apps[th[t].a]
  /\ Vouched(t) => apps[th[t].a] > 0
TruthInv ==
  /\ Honest(db, apps)
  /\ \A t \in Threads : Honest(snap[t].v, apps) /\ Claims(t)

\* The vendor only ever takes on applications, and only by a POST.
LEMMA OnlyPostApplies ==
  ASSUME NEW t \in Threads, Step(t), ~Post(t)
  PROVE  UNCHANGED apps
  BY DEF Step, Arrival, CreateRequest, CancelRead, ManualRead, WebhookArrives, Deliver, Die, RequestStep, WorkStep,
         CreateAttempt, PutArtifacts, PutPackage, Approve, Queue, Enqueue, CancelMove, CancelMark, ManualMove,
         IngestWebhook, Ack, Read, Requeue, WorkerPackage, LockPackage, NeedsReview, Start, CreateSubmit, Complete,
         RateLimit, Resend, MarkSubmitted, MarkSucceeded, Call, LastCall

LEMMA StepHolds ==
  ASSUME TypeInv, NEW t \in Threads, Step(t)
  PROVE  apps' \in Held /\ \A a \in Attempts : apps[a] <= apps'[a]
<1>1. apps \in Held /\ \A a \in Attempts : apps[a] \in Nat BY CountsAssumption DEF TypeInv, TypeOK, Held
<1>2. CASE UNCHANGED apps BY <1>1, <1>2
<1>3. ASSUME NEW n, Accepted(th[t].a, n) PROVE apps' \in Held /\ \A a \in Attempts : apps[a] <= apps'[a]
  <2> DEFINE b == th[t].a
             k == IF n > apps[b] THEN n ELSE apps[b]
  <2>1. n \in 0 .. MaxApps /\ apps' = [apps EXCEPT ![b] = k] BY <1>3, CountsAssumption DEF Accepted
  <2>2. b \in Attempts => k \in 0 .. MaxApps /\ apps[b] <= k BY <1>1, <2>1, CountsAssumption DEF Held
  <2> HIDE DEF k, b
  <2>3. CASE b \in Attempts BY <1>1, <2>1, <2>2, <2>3 DEF Held
  <2>4. CASE b \notin Attempts
    <3>1. apps' = apps BY <1>1, <2>1, <2>4 DEF Held
    <3>2. QED BY <1>1, <3>1
  <2>5. QED BY <2>3, <2>4
<1>4. QED BY <1>2, <1>3, OnlyPostApplies DEF Post

\* complete_submit works on the view's row of the handler's attempt.
LEMMA CompleteView ==
  ASSUME TypeInv, NEW t \in Threads, At(t, "complete")
  PROVE  View(t).sub[th[t].sid].owner = th[t].a /\ View(t).sub[th[t].sid].status # "none"
<1>1. th[t].sid \in Submits /\ db.sub[th[t].sid].owner = th[t].a /\ db.sub[th[t].sid].status # "none"
  BY CompleteArguments DEF At
<1>2. CASE Isolated BY <1>1, <1>2 DEF View
<1>3. CASE ~Isolated
  <2>1. snap[t].held BY <1>3 DEF At
  <2>2. View(t).sub[th[t].sid].status # "none" BY <1>3, <2>1 DEF At, View, TypeInv, HandlersFit, HandlerFits
  <2>3. QED BY <1>1, <2>2, ViewFits
<1>4. QED BY <1>2, <1>3

LEMMA HonestWrites ==
  ASSUME TypeInv, TruthInv, NEW t \in Threads, NEW w, Writes(t, View(t), w)
  PROVE  w \in Database /\ Honest(w, apps)
<1> DEFINE a == th[t].a
           v == View(t)
<1>1. v \in Database /\ apps \in Held BY ViewFits DEF TypeInv, TypeOK, Held
<1>2. Honest(v, apps) BY DEF TruthInv, View
<1>3. CASE w = v BY <1>1, <1>2, <1>3
<1>4. ASSUME NEW b \in Unborn, w = Created(v, b) PROVE w \in Database /\ Honest(w, apps)
  BY <1>1, <1>2, <1>4, CreatedType, HonestRules DEF Unborn
<1>5. CASE th[t].pc \in HasAttempt /\ AttemptWrites(t, a, v, w)
  <2>1. a \in Attempts BY <1>5, HandlerAttempt
  <2>2. ASSUME NEW s \in Statuses, <<th[t].pc, s>> \in Transitions, w = Moved(v, a, s)
        PROVE  w \in Database /\ Honest(w, apps)
    <3>1. s = "succeeded" => apps[a] > 0 BY <2>2 DEF Transitions, TruthInv, Claims, Vouched
    <3>2. QED BY <1>1, <1>2, <2>1, <2>2, <3>1, MovedType, HonestRules
  <2>3. QED BY <1>1, <1>2, <1>5, <2>1, <2>2, PackagePutType, ApprovedType, LockedType, QueuedType, HonestRules
    DEF AttemptWrites
<1>6. CASE SubmitWrites(t, v, w)
  <2>1. CASE th[t].pc = "mksub"
    <3>1. a \in Attempts /\ th[t].count \in 0 .. MaxCount
      BY <2>1, HandlerAttempt DEF HasAttempt, Pcs, Calls, Handler
    <3>2. QED BY <1>1, <1>2, <1>6, <2>1, <3>1, SubmittedType, HonestSubmitted DEF SubmitWrites, At
  <2>2. CASE At(t, "complete")
    <3>1. /\ th[t].sid \in Submits /\ th[t].app \in 0 .. MaxApps /\ SubmitStatus(th[t].out) \in SubmitOutcomes
          /\ a \in Attempts /\ db.sub[th[t].sid].owner = a
      BY <2>2, CompleteArguments DEF At
    <3>2. v.sub[th[t].sid].owner = a BY <2>2, CompleteView
    <3>3. th[t].app <= apps[a] BY <2>2 DEF At, TruthInv, Claims
    <3>4. QED BY <1>1, <1>2, <1>6, <2>2, <3>1, <3>2, <3>3, CompletedType, HonestCompleted DEF SubmitWrites, At
  <2>3. QED BY <1>6, <2>1, <2>2 DEF SubmitWrites
<1>7. CASE th[t].pc = "hook" /\ w = HookIngested(v, <<a, th[t].app>>)
  <2>1. <<a, th[t].app>> \in AppIds BY <1>7, HookArguments
  <2>2. th[t].app <= apps[a] BY <1>7 DEF TruthInv, Claims
  <2>3. QED BY <1>1, <1>2, <1>7, <2>1, <2>2, HookIngestedType, HonestHook
<1>8. CASE w = Interrupted(v) BY <1>1, <1>2, <1>8, InterruptedFits, HonestInterrupted
<1>9. QED BY <1>3, <1>4, <1>5, <1>6, <1>7, <1>8 DEF Writes

LEMMA HonestNotes ==
  ASSUME TypeInv, TruthInv, NEW t \in Threads, Notes(t)
  PROVE  Honest(db', apps)
<1> DEFINE a == th[t].a
<1>1. db \in Database /\ apps \in Held /\ Honest(db, apps) BY DEF TypeInv, TypeOK, Held, TruthInv
<1>2. a \in Attempts /\ db.att[a] \in AttemptRow
  BY <1>1, HandlerAttempt DEF Notes, HasAttempt, Pcs, Others, Database
<1>3. \A b \in Attempts : db'.att[b].status = db.att[b].status /\ db'.sub = db.sub /\ db'.hook = db.hook
  BY <1>1, <1>2 DEF Notes, CancelNoted, Database, AttemptRow
<1>4. QED BY <1>1, <1>2, <1>3, HonestStatuses

\* Handlers that t does not touch keep their claims.
LEMMA ClaimsKept ==
  ASSUME TypeInv, TruthInv, NEW t \in Threads, Step(t), NEW u \in Threads, th'[u] = th[u]
  PROVE  Claims(u)'
<1>1. Claims(u) BY DEF TruthInv
<1>2. CASE th[u].pc \notin {"hook", "complete", "submitted", "succeeded"} BY <1>2 DEF Claims, Vouched
<1>3. CASE th[u].pc \in {"hook", "complete", "submitted", "succeeded"}
  <2>1. th[u].a \in Attempts /\ th[u].app \in Int
    BY <1>3, CountsAssumption DEF TypeInv, TypeOK, HandlersFit, HandlerFits, HasAttempt, Pcs, Calls, Handler
  <2>2. apps[th[u].a] <= apps'[th[u].a] /\ apps[th[u].a] \in Int /\ apps'[th[u].a] \in Int
    BY <2>1, StepHolds, CountsAssumption DEF TypeInv, TypeOK, Held
  <2>3. QED BY <1>1, <2>1, <2>2 DEF Claims, Vouched
<1>4. QED BY <1>2, <1>3

\* The handler that steps: the claims come from the webhook and from the POST.
LEMMA ClaimsMade ==
  ASSUME TypeInv, TruthInv, NEW t \in Threads, Step(t)
  PROVE  Claims(t)'
<1>1. th[t] \in Handler /\ th \in [Threads -> Handler] BY DEF TypeInv, TypeOK
<1>2. CASE th'[t].pc \notin {"hook", "complete", "submitted", "succeeded"} BY <1>2 DEF Claims, Vouched
<1>3. CASE Ended(t) BY <1>2, <1>3 DEF Ended
<1>4. CASE Continues(t) /\ th'[t].pc = "hook"
  <2>1. th[t].pc = "idle" BY <1>4 DEF Continues, Flow
  <2>2. /\ CreateRequest(t) => th'[t].pc = "create"
        /\ CancelRead(t) => th'[t].pc = "cancel"
        /\ ManualRead(t) => th'[t].pc = "manual"
        /\ Deliver(t) => th'[t].pc \in {"idle", "read"}
    <3>1. CreateRequest(t) => th'[t].pc = "create" BY <1>1 DEF CreateRequest, Goto, Handler
    <3>2. CancelRead(t) => th'[t].pc = "cancel" BY <1>1 DEF CancelRead, Handler
    <3>3. ManualRead(t) => th'[t].pc = "manual" BY <1>1 DEF ManualRead, Handler
    <3>4. Deliver(t) => th'[t].pc \in {"idle", "read"} BY <1>1, <2>1 DEF Deliver, Idle
    <3>5. QED BY <3>1, <3>2, <3>3, <3>4
  <2>3. WebhookArrives(t) BY <1>4, <2>1, <2>2, ActionAt DEF Arrival
  <2>4. PICK a \in Attempts, n \in 1 .. MaxApps :
          n <= apps[a] /\ th' = [th EXCEPT ![t].pc = "hook", ![t].a = a, ![t].app = n]
    BY <2>3 DEF WebhookArrives
  <2>5. th'[t].a = a /\ th'[t].app = n BY <1>1, <2>4 DEF Handler
  <2>6. UNCHANGED apps BY <2>3 DEF WebhookArrives
  <2>7. QED BY <1>4, <2>4, <2>5, <2>6 DEF Claims, Vouched
<1>5. CASE Continues(t) /\ th'[t].pc = "complete"
  <2>1. th[t].pc = "post" /\ th'[t].a = th[t].a BY <1>5 DEF Continues, Flow
  <2>2. Post(t) BY <1>5, <2>1, ActionAt
  <2>3. th[t].a \in Attempts BY <2>1, HandlerAttempt DEF HasAttempt, Pcs, Others
  <2>4. apps[th[t].a] \in Nat BY <2>3, CountsAssumption DEF TypeInv, TypeOK
  <2>5. ASSUME NEW out, NEW n, Answered(t, out, n)
        PROVE  th'[t].out = out /\ th'[t].app = n
    BY <1>1, <2>5 DEF Answered, Handler
  <2>6. ~Raise(t) BY <1>5, IdleFits, <1>1 DEF Raise
  <2>7. \/ \E n \in 1 .. MaxApps : Accepted(th[t].a, n) /\ Answered(t, "succeeded", n)
        \/ /\ UNCHANGED apps \/ Accepted(th[t].a, apps[th[t].a] + 1)
           /\ \E out \in {"retry", "failed"} : Answered(t, out, 0)
    BY <2>2, <2>6 DEF Post
  <2>8. ASSUME NEW n \in 1 .. MaxApps, Accepted(th[t].a, n) PROVE n <= apps'[th[t].a] /\ apps'[th[t].a] > 0
    BY <2>3, <2>4, <2>8, CountsAssumption DEF Accepted, TypeInv, TypeOK
  <2>9. apps'[th[t].a] \in Nat BY <2>3, StepHolds, CountsAssumption DEF Held
  <2>10. QED BY <1>5, <2>1, <2>5, <2>7, <2>8, <2>9 DEF Claims, Vouched
<1>6. CASE Continues(t) /\ th'[t].pc \in {"submitted", "succeeded"}
  <2>1. /\ th'[t].a = th[t].a /\ th[t].pc \in {"complete", "submitted"}
        /\ th'[t].pc = "submitted" => th[t].pc = "complete"
    BY <1>6 DEF Continues, Flow
  <2>2. Complete(t) \/ MarkSubmitted(t) BY <1>6, <2>1, ActionAt
  <2>3. UNCHANGED apps BY <2>2 DEF Complete, MarkSubmitted, Call, LastCall
  <2>4. Vouched(t)
    <3>1. CASE th[t].pc = "submitted" BY <3>1 DEF Vouched
    <3>2. CASE th[t].pc = "complete"
      <4>1. Complete(t) BY <3>2, <1>6, ActionAt
      <4>2. th[t].out = "retry" => Raise(t) \/ Goto(t, "limit") BY <4>1 DEF Complete, Call
      <4>3. th[t].out \notin {"retry", "succeeded"} => Raise(t) \/ Done(t) BY <4>1 DEF Complete, LastCall
      <4>4. th[t].out = "succeeded" BY <1>6, <4>2, <4>3, GoesOn, Ends
      <4>5. QED BY <3>2, <4>4 DEF Vouched
    <3>3. QED BY <2>1, <3>1, <3>2
  <2>5. QED BY <1>6, <2>1, <2>3, <2>4 DEF TruthInv, Claims, Vouched
<1>7. QED BY <1>2, <1>3, <1>4, <1>5, <1>6, StepFlow

LEMMA HonestEmpty == ASSUME NEW n \in Held PROVE Honest(EmptyDb, n)
<1>1. /\ \A a \in Attempts : EmptyDb.att[a].status = "none"
      /\ \A s \in Submits : EmptyDb.sub[s].app = 0
      /\ \A i \in AppIds : EmptyDb.hook[i] = {}
  BY DEF EmptyDb, NoRow, NoSubmit
<1>2. QED BY <1>1 DEF Honest

LEMMA TruthOfStep ==
  ASSUME TypeInv, TruthInv, NEW t \in Threads, Step(t)
  PROVE  TruthInv'
<1>1. db \in Database /\ apps \in Held /\ snap \in [Threads -> Snapshot] BY DEF TypeInv, TypeOK, Held
<1>2. apps' \in Held /\ \A a \in Attempts : apps[a] <= apps'[a] BY StepHolds
<1>3. \A v \in Database : Honest(v, apps) => Honest(v, apps') BY <1>1, <1>2, HonestGrows
<1>4. \A u \in Threads : snap[u].v \in Database /\ Honest(snap[u].v, apps) BY <1>1 DEF TruthInv, Snapshot
<1>5. /\ db' \in Database /\ Honest(db', apps)
      /\ UNCHANGED snap \/ snap' = [snap EXCEPT ![t] = NoSnap]
  <2>1. CASE Quiet(t) BY <1>1, <2>1 DEF Quiet, TruthInv
  <2>2. CASE Notes(t)
    <3>1. th[t].a \in Attempts /\ db.att[th[t].a] \in AttemptRow
      BY <1>1, <2>2, HandlerAttempt DEF Notes, HasAttempt, Pcs, Others, Database
    <3>2. [db.att[th[t].a] EXCEPT !.error = "cancelled"] \in AttemptRow BY <3>1 DEF AttemptRow
    <3>3. db' \in Database BY <1>1, <2>2, <3>1, <3>2, WithAttempt DEF Notes, CancelNoted
    <3>4. QED BY <2>2, <3>3, HonestNotes DEF Notes
  <2>3. CASE Commits(t)
    <3>1. PICK w : Commit(t, w) /\ Writes(t, View(t), w) BY <2>3 DEF Commits
    <3>2. w \in Database /\ Honest(w, apps) BY <2>3, <3>1, HonestWrites DEF Commits
    <3>3. Honest(db, apps) BY DEF TruthInv
    <3>4. QED BY <1>1, <3>1, <3>2, <3>3, OverlayType, HonestOverlay DEF Commit
  <2>4. QED BY <2>1, <2>2, <2>3, StepWrites
<1>6. Honest(db', apps') BY <1>3, <1>5
<1>7. ASSUME NEW u \in Threads PROVE Honest(snap'[u].v, apps')
  <2>1. Honest(NoSnap.v, apps') BY <1>2, HonestEmpty DEF NoSnap
  <2>2. QED BY <1>1, <1>3, <1>4, <1>5, <2>1
<1>8. ASSUME NEW u \in Threads PROVE Claims(u)'
  BY ClaimsKept, ClaimsMade, StepFlow DEF OnlyMoves
<1>9. QED BY <1>6, <1>7, <1>8 DEF TruthInv

LEMMA TruthStep == TypeInv /\ TruthInv /\ [Next]_vars => TruthInv'
<1> SUFFICES ASSUME TypeInv, TruthInv, [Next]_vars PROVE TruthInv' OBVIOUS
<1>1. CASE UNCHANGED vars BY <1>1 DEF vars, TruthInv, Claims, Vouched
<1>2. ASSUME NEW t \in Threads, Hydrate(t) PROVE TruthInv'
  <2>1. UNCHANGED <<db, th, apps>> /\ \A u \in Threads : snap'[u].v = snap[u].v \/ snap'[u].v = db
    BY <1>2 DEF Hydrate, TypeInv, TypeOK
  <2>2. QED BY <2>1 DEF TruthInv, Claims, Vouched
<1>3. QED BY <1>1, <1>2, TruthOfStep DEF Next, Step

LEMMA TruthInit == Init => TruthInv
<1> SUFFICES ASSUME Init PROVE TruthInv OBVIOUS
<1>1. apps \in Held BY CountsAssumption DEF Init, Held
<1>2. \A t \in Threads : ~Vouched(t) /\ th[t].pc \notin {"hook", "complete"}
  BY IdleFits DEF Init, Vouched
<1>3. QED BY <1>1, <1>2, HonestEmpty DEF Init, TruthInv, Claims, NoSnap

\* The store shows no success, link or callback without an application of the vendor,
\* however the calls of the Cosmos store overlap and whoever dies.
THEOREM TruthHolds == Spec => []VendorTruth
<1>1. TypeInv /\ TruthInv => VendorTruth
  <2> SUFFICES ASSUME TypeInv, TruthInv PROVE VendorTruth OBVIOUS
  <2>1. Honest(db, apps) BY DEF TruthInv
  <2>2. \A a \in Attempts, n \in 1 .. MaxApps : <<a, n>> \in AppIds /\ <<a, n>>[1] = a /\ <<a, n>>[2] = n
    BY DEF AppIds
  <2>3. QED BY <2>1, <2>2 DEF Honest, VendorTruth
<1>2. QED BY <1>1, TruthInit, TruthStep, TypeCorrect, PTL DEF Spec

-----------------------------------------------------------------------------
(* The row precedes the POST.  ApplicationsRecorded is not inductive: that   *)
(* the vendor may take on one more application needs a row that was not    *)
(* counted yet, the row of the handler that posts.                         *)

RowsOf(a) == {s \in Submits : db.sub[s].owner = a}
Posting(s) == \E t \in Threads : th[t].pc = "post" /\ th[t].sid = s
Spent(a) == {s \in RowsOf(a) : ~Posting(s)}
RecordedInv ==
  /\ \A s \in Submits : db.sub[s].status = "none" => db.sub[s].owner \notin Attempts
  /\ \A t, u \in Threads : t # u /\ th[t].pc = "post" /\ th[u].pc = "post" => th[t].sid # th[u].sid
  /\ \A a \in Attempts : IsFiniteSet(RowsOf(a)) /\ apps[a] <= Cardinality(Spent(a))

KeepsSubmit(v, w, s) == /\ v.sub[s].status = "none" <=> w.sub[s].status = "none"
                        /\ v.sub[s].owner = w.sub[s].owner
KeepsSubmits(v, w) == \A s \in Submits : KeepsSubmit(v, w, s)
AddsSubmit(v, w, s) ==
  /\ v.sub[s].status = "none" /\ w.sub[s].status # "none" /\ w.sub[s].owner \in Attempts
  /\ \A r \in Submits \ {s} : KeepsSubmit(v, w, r)

LEMMA CommitKeepsSubmits ==
  ASSUME TypeInv, NEW t \in Threads, NEW w \in Database, Commit(t, w), KeepsSubmits(View(t), w)
  PROVE  KeepsSubmits(db, db')
<1>1. CASE Isolated BY <1>1 DEF Commit, View
<1>2. CASE ~Isolated
  <2>1. \A s \in Submits : db'.sub[s] = IF w.sub[s].status = "none" THEN db.sub[s] ELSE w.sub[s]
    BY <1>2 DEF Commit, Overlay
  <2>2. QED BY <2>1, ViewFits DEF KeepsSubmits, KeepsSubmit
<1>3. QED BY <1>1, <1>2

LEMMA CommitAddsSubmit ==
  ASSUME TypeInv, NEW t \in Threads, NEW s \in Submits, NEW a \in Attempts, NEW n \in 0 .. MaxCount,
         db.sub[s].status = "none", Commit(t, Submitted(View(t), s, a, n))
  PROVE  AddsSubmit(db, db', s) /\ db'.sub[s].owner = a
<1> DEFINE w == Submitted(View(t), s, a, n)
<1>1. /\ w.sub[s].status = "queued" /\ w.sub[s].owner = a
      /\ \A r \in Submits \ {s} : w.sub[r] = View(t).sub[r]
  BY ViewFits, SubmittedFits
<1> HIDE DEF w
<1>2. Commit(t, w) BY DEF w
<1>3. CASE Isolated BY <1>1, <1>2, <1>3 DEF Commit, View, AddsSubmit, KeepsSubmit
<1>4. CASE ~Isolated
  <2>1. \A r \in Submits : db'.sub[r] = IF w.sub[r].status = "none" THEN db.sub[r] ELSE w.sub[r]
    BY <1>2, <1>4 DEF Commit, Overlay
  <2>2. QED BY <1>1, <2>1, ViewFits DEF AddsSubmit, KeepsSubmit
<1>5. QED BY <1>3, <1>4

LEMMA WritesSubmits ==
  ASSUME TypeInv, NEW t \in Threads, NEW w, Commit(t, w), Writes(t, View(t), w)
  PROVE  KeepsSubmits(db, db') \/ \E s \in Submits : AddsSubmit(db, db', s)
<1> DEFINE a == th[t].a
           v == View(t)
<1>1. v \in Database BY ViewFits
<1>2. ASSUME w \in Database, w.sub = v.sub PROVE KeepsSubmits(db, db')
  BY <1>2, CommitKeepsSubmits DEF KeepsSubmits, KeepsSubmit
<1>3. CASE w = v BY <1>1, <1>2, <1>3
<1>4. ASSUME NEW b \in Unborn, w = Created(v, b) PROVE KeepsSubmits(db, db')
  BY <1>1, <1>2, <1>4, CreatedFits DEF Unborn
<1>5. CASE th[t].pc \in HasAttempt /\ AttemptWrites(t, a, v, w)
  <2>1. a \in Attempts BY <1>5, HandlerAttempt
  <2>2. \A s : Moved(v, a, s).sub = v.sub BY <1>1 DEF Moved, Database
  <2>3. Queued(v, a).sub = v.sub BY <1>1 DEF Queued, Moved, Locked, Database
  <2>4. /\ Locked(v, a).sub = v.sub /\ Approved(v, a).sub = v.sub
        /\ \A who : PackagePut(v, a, who).sub = v.sub
    BY <1>1 DEF Locked, Approved, PackagePut, Database
  <2>5. QED
    BY <1>1, <1>2, <1>5, <2>1, <2>2, <2>3, <2>4, PackagePutType, ApprovedType, LockedType, QueuedType, MovedType
    DEF AttemptWrites
<1>6. CASE SubmitWrites(t, v, w)
  <2>1. CASE th[t].pc = "mksub"
    <3>1. a \in Attempts /\ th[t].count \in 0 .. MaxCount
      BY <2>1, HandlerAttempt DEF HasAttempt, Pcs, Calls, Handler
    <3>2. QED BY <1>6, <2>1, <3>1, CommitAddsSubmit DEF SubmitWrites, At
  <2>2. CASE At(t, "complete")
    <3>1. /\ th[t].sid \in Submits /\ th[t].app \in 0 .. MaxApps /\ SubmitStatus(th[t].out) \in SubmitOutcomes
          /\ a \in Attempts
      BY <2>2, CompleteArguments DEF At
    <3>2. w = Completed(v, th[t].sid, SubmitStatus(th[t].out), th[t].app) BY <1>6, <2>2 DEF SubmitWrites, At
    <3>3. w \in Database /\ KeepsRows(v, w) BY <1>1, <2>2, <3>1, <3>2, CompleteView, CompletedType, CompletedKeeps
    <3>4. QED BY <3>3, CommitKeepsSubmits DEF KeepsRows, KeepsSubmits, KeepsSubmit
  <2>3. QED BY <1>6, <2>1, <2>2 DEF SubmitWrites
<1>7. CASE th[t].pc = "hook" /\ w = HookIngested(v, <<a, th[t].app>>)
  <2>1. <<a, th[t].app>> \in AppIds BY <1>7, HookArguments
  <2>2. w.sub = v.sub BY <1>1, <1>7 DEF HookIngested, Database
  <2>3. QED BY <1>1, <1>2, <1>7, <2>1, <2>2, HookIngestedType
<1>8. CASE w = Interrupted(v) BY <1>1, <1>2, <1>8, InterruptedFits
<1>9. QED BY <1>3, <1>4, <1>5, <1>6, <1>7, <1>8 DEF Writes

LEMMA StepSubmits ==
  ASSUME TypeInv, NEW t \in Threads, Step(t)
  PROVE  KeepsSubmits(db, db') \/ \E s \in Submits : AddsSubmit(db, db', s)
<1>1. CASE Quiet(t) BY <1>1 DEF Quiet, KeepsSubmits, KeepsSubmit
<1>2. CASE Notes(t)
  <2>1. db'.sub = db.sub BY <1>2 DEF Notes, CancelNoted, TypeInv, TypeOK, Database
  <2>2. QED BY <2>1 DEF KeepsSubmits, KeepsSubmit
<1>3. QED BY <1>1, <1>2, StepWrites, WritesSubmits DEF Commits

LEMMA PostingStarts ==
  ASSUME TypeInv, NEW t \in Threads, Step(t), th'[t].pc = "post"
  PROVE  th'[t].sid \in Submits /\ db.sub[th'[t].sid].status = "none"
<1>1. th[t].pc = "mksub" BY StepFlow DEF Ended, Continues, Flow
<1>2. CreateSubmit(t) /\ ~Raise(t) BY <1>1, ActionAt, Ends
<1>3. PICK s \in Submits : db.sub[s].status = "none" /\ th' = [th EXCEPT ![t].pc = "post", ![t].sid = s]
  BY <1>2 DEF CreateSubmit
<1>4. th'[t].sid = s BY <1>3 DEF TypeInv, TypeOK, Handler
<1>5. QED BY <1>3, <1>4

\* Rows of an attempt stay, and what is spent stays spent.
LEMMA RowsGrow ==
  ASSUME TypeInv, RecordedInv, NEW t \in Threads, Step(t), NEW a \in Attempts
  PROVE  IsFiniteSet(RowsOf(a)') /\ RowsOf(a) \subseteq RowsOf(a)'
<1>1. IsFiniteSet(RowsOf(a)) BY DEF RecordedInv
<1>2. CASE KeepsSubmits(db, db')
  <2>1. RowsOf(a)' = RowsOf(a) BY <1>2 DEF RowsOf, KeepsSubmits, KeepsSubmit
  <2>2. QED BY <1>1, <2>1
<1>3. ASSUME NEW s \in Submits, AddsSubmit(db, db', s)
      PROVE  IsFiniteSet(RowsOf(a)') /\ RowsOf(a) \subseteq RowsOf(a)'
  <2>1. db.sub[s].owner # a BY <1>3 DEF AddsSubmit, RecordedInv
  <2>2. RowsOf(a) \subseteq RowsOf(a)' /\ RowsOf(a)' \subseteq RowsOf(a) \cup {s}
    BY <1>3, <2>1 DEF RowsOf, AddsSubmit, KeepsSubmit
  <2>3. IsFiniteSet(RowsOf(a) \cup {s}) BY <1>1, FS_AddElement
  <2>4. QED BY <2>2, <2>3, FS_Subset
<1>4. QED BY <1>2, <1>3, StepSubmits

LEMMA SpentGrows ==
  ASSUME TypeInv, RecordedInv, NEW t \in Threads, Step(t), NEW a \in Attempts
  PROVE  /\ Spent(a) \subseteq Spent(a)' /\ IsFiniteSet(Spent(a))
         /\ IsFiniteSet(Spent(a)') /\ Cardinality(Spent(a)) <= Cardinality(Spent(a)')
<1>1. SUFFICES ASSUME NEW s \in Spent(a) PROVE ~Posting(s)'
  <2>1. /\ Spent(a) \subseteq RowsOf(a) /\ Spent(a)' \subseteq RowsOf(a)'
        /\ IsFiniteSet(RowsOf(a)) /\ IsFiniteSet(RowsOf(a)')
    BY RowsGrow DEF Spent, RecordedInv
  <2>2. Spent(a) \subseteq Spent(a)' BY <1>1, RowsGrow DEF Spent
  <2>3. IsFiniteSet(Spent(a)) /\ IsFiniteSet(Spent(a)') BY <2>1, FS_Subset
  <2>4. QED BY <2>2, <2>3, FS_Subset
<1>2. s \in Submits /\ db.sub[s].owner = a /\ ~Posting(s) BY DEF Spent, RowsOf
<1>3. db.sub[s].status # "none" BY <1>2 DEF RecordedInv
<1>4. QED BY <1>2, <1>3, StepFlow, PostingStarts DEF Posting, OnlyMoves

\* The application that is new has the row of the handler that posts.
LEMMA PostRecorded ==
  ASSUME TypeInv, RecordedInv, NEW t \in Threads, Post(t), NEW a \in Attempts
  PROVE  apps'[a] <= Cardinality(Spent(a)')
<1> PICK s : s = th[t].sid OBVIOUS
<1>1. Step(t) /\ th[t].pc = "post" BY DEF Post, WorkStep, Step
<1>2. s \in Submits /\ db.sub[s].owner = th[t].a /\ th[t].a \in Attempts /\ db.sub[s].status # "none"
  BY <1>1, HandlerAttempt DEF HasAttempt, Pcs, Others, TypeInv, HandlersFit, HandlerFits
<1>3. apps[a] \in Int /\ apps'[a] \in Int /\ apps[a] <= Cardinality(Spent(a))
  BY <1>1, StepHolds, CountsAssumption DEF TypeInv, TypeOK, Held, RecordedInv
<1>4. /\ Spent(a) \subseteq Spent(a)' /\ IsFiniteSet(Spent(a)) /\ IsFiniteSet(Spent(a)')
      /\ Cardinality(Spent(a)) <= Cardinality(Spent(a)')
      /\ Cardinality(Spent(a)) \in Nat /\ Cardinality(Spent(a)') \in Nat
  BY <1>1, SpentGrows, FS_CardinalityType
<1>5. CASE a # th[t].a
  <2>1. apps'[a] = apps[a]
    BY <1>5, <1>2 DEF Post, Accepted, TypeInv, TypeOK
  <2>2. QED BY <1>3, <1>4, <2>1
<1>6. CASE a = th[t].a
  <2>1. apps'[a] <= apps[a] + 1
    BY <1>3, <1>6, CountsAssumption DEF Post, Accepted, TypeInv, TypeOK
  <2>2. s \in RowsOf(a) /\ s \notin Spent(a) BY <1>1, <1>2, <1>6 DEF RowsOf, Spent, Posting
  <2>3. s \in Spent(a)'
    <3>1. s \in RowsOf(a)' BY <1>1, <2>2, RowsGrow
    <3>2. ~Posting(s)'
      <4>1. th'[t].pc # "post" BY <1>1, <1>2, PostingStarts, StepFlow DEF Ended, Continues, Flow
      <4>2. \A u \in Threads \ {t} : th'[u] = th[u] BY <1>1, StepFlow DEF OnlyMoves
      <4>3. QED BY <1>1, <4>1, <4>2 DEF Posting, RecordedInv
    <3>3. QED BY <3>1, <3>2 DEF Spent
  <2>4. Cardinality(Spent(a) \cup {s}) = Cardinality(Spent(a)) + 1 BY <1>4, <2>2, FS_AddElement
  <2>5. Cardinality(Spent(a) \cup {s}) <= Cardinality(Spent(a)') BY <1>4, <2>3, FS_Subset
  <2>6. QED BY <1>3, <1>4, <2>1, <2>4, <2>5
<1>7. QED BY <1>5, <1>6

LEMMA RecordedOfStep ==
  ASSUME TypeInv, RecordedInv, NEW t \in Threads, Step(t)
  PROVE  RecordedInv'
<1>1. \A s \in Submits : db'.sub[s].status = "none" => db'.sub[s].owner \notin Attempts
  BY StepSubmits DEF RecordedInv, KeepsSubmits, AddsSubmit, KeepsSubmit
<1>2. ASSUME NEW u \in Threads, NEW w \in Threads, u # w, th'[u].pc = "post", th'[w].pc = "post"
      PROVE  th'[u].sid # th'[w].sid
  <2>1. ASSUME NEW x \in Threads \ {t}, th'[x].pc = "post"
        PROVE  th'[x] = th[x] /\ db.sub[th[x].sid].status # "none"
    BY <2>1, StepFlow DEF OnlyMoves, TypeInv, HandlersFit, HandlerFits
  <2>2. QED BY <1>2, <2>1, PostingStarts DEF RecordedInv
<1>3. ASSUME NEW a \in Attempts PROVE IsFiniteSet(RowsOf(a)') /\ apps'[a] <= Cardinality(Spent(a)')
  <2>1. IsFiniteSet(RowsOf(a)') BY RowsGrow
  <2>2. CASE Post(t) BY <2>1, <2>2, PostRecorded
  <2>3. CASE ~Post(t)
    <3>1. UNCHANGED apps BY <2>3, OnlyPostApplies
    <3>2. apps[a] \in Int /\ apps[a] <= Cardinality(Spent(a))
      BY CountsAssumption DEF TypeInv, TypeOK, RecordedInv
    <3>3. /\ Cardinality(Spent(a)) <= Cardinality(Spent(a)')
          /\ Cardinality(Spent(a)) \in Nat /\ Cardinality(Spent(a)') \in Nat
      BY SpentGrows, FS_CardinalityType
    <3>4. QED BY <2>1, <3>1, <3>2, <3>3
  <2>4. QED BY <2>2, <2>3
<1>4. QED BY <1>1, <1>2, <1>3 DEF RecordedInv

LEMMA RecordedStep == TypeInv /\ RecordedInv /\ [Next]_vars => RecordedInv'
<1> SUFFICES ASSUME TypeInv, RecordedInv, [Next]_vars PROVE RecordedInv' OBVIOUS
<1>1. CASE UNCHANGED <<db, th, apps>> BY <1>1 DEF RecordedInv, RowsOf, Spent, Posting
<1>2. ASSUME NEW t \in Threads, Hydrate(t) PROVE UNCHANGED <<db, th, apps>> BY <1>2 DEF Hydrate
<1>3. QED BY <1>1, <1>2, RecordedOfStep DEF Next, Step, vars

LEMMA RecordedInit == Init => RecordedInv
<1> SUFFICES ASSUME Init PROVE RecordedInv OBVIOUS
<1>1. \A s \in Submits : db.sub[s].owner \notin Attempts BY NoneAssumption DEF Init, EmptyDb, NoSubmit
<1>2. \A t \in Threads : th[t].pc = "idle" BY IdleFits DEF Init
<1>3. ASSUME NEW a \in Attempts PROVE IsFiniteSet(RowsOf(a)) /\ apps[a] <= Cardinality(Spent(a))
  <2>1. RowsOf(a) = {} /\ Spent(a) = {} /\ apps[a] = 0 BY <1>1 DEF RowsOf, Spent, Init
  <2>2. QED BY <2>1, FS_EmptySet
<1>4. QED BY <1>1, <1>2, <1>3 DEF RecordedInv

\* However store calls overlap, whoever dies and whatever the vendor answers, it holds
\* no application without a submit row of its own.
THEOREM OverlapSurvived == Spec => []SurvivesOverlap
<1>1. TypeInv /\ RecordedInv => ApplicationsRecorded
  <2> SUFFICES ASSUME TypeInv, RecordedInv, NEW a \in Attempts PROVE apps[a] <= Cardinality(RowsOf(a))
    BY DEF ApplicationsRecorded, RowsOf
  <2>1. IsFiniteSet(RowsOf(a)) /\ Spent(a) \subseteq RowsOf(a) BY DEF RecordedInv, Spent
  <2>2. /\ IsFiniteSet(Spent(a)) /\ Cardinality(Spent(a)) <= Cardinality(RowsOf(a))
        /\ Cardinality(Spent(a)) \in Nat /\ Cardinality(RowsOf(a)) \in Nat
    BY <2>1, FS_Subset, FS_CardinalityType
  <2>3. apps[a] \in Int /\ apps[a] <= Cardinality(Spent(a)) BY CountsAssumption DEF TypeInv, TypeOK, RecordedInv
  <2>4. QED BY <2>2, <2>3
<1>2. QED BY <1>1, RecordedInit, RecordedStep, TypeCorrect, TruthHolds, PTL DEF Spec, SurvivesOverlap

-----------------------------------------------------------------------------
(* A success is real.  SuccessIsReal is not inductive: the handler that     *)
(* brings the success home must have a row that backs it, and nobody may   *)
(* write that row again.                                                   *)

Linked(v, n, a) == \E s \in Submits : v.sub[s].owner = a /\ v.sub[s].status = "succeeded" /\ v.sub[s].app \in 1 .. n
RowPcs == {"post", "complete"}
RealInv ==
  /\ \A a \in Attempts : db.att[a].status = "succeeded" => Linked(db, apps[a], a)
  /\ \A t \in Threads :
       /\ th[t].pc \in {"submitted", "succeeded"} => Linked(db, apps[th[t].a], th[t].a)
       /\ th[t].pc \in RowPcs => db.sub[th[t].sid].status = "queued"
       /\ th[t].pc = "complete" /\ th[t].out = "succeeded" => th[t].app # 0
  /\ \A t, u \in Threads : t # u /\ {th[t].pc, th[u].pc} \subseteq RowPcs => th[t].sid # th[u].sid

\* A row that backs a success is never written again.
LEMMA LinkedGrows ==
  ASSUME Isolated, TypeInv, RealInv, NEW t \in Threads, Step(t), NEW a \in Attempts, Linked(db, apps[a], a)
  PROVE  Linked(db', apps'[a], a)
<1>1. PICK s \in Submits : db.sub[s].owner = a /\ db.sub[s].status = "succeeded" /\ db.sub[s].app \in 1 .. apps[a]
  BY DEF Linked
<1>2. /\ db.sub \in [Submits -> SubmitRow] BY DEF TypeInv, TypeOK, Database
<1>3. th[t].pc = "complete" => db.sub[th[t].sid].status = "queued" BY DEF RealInv, RowPcs
<1>4. db'.sub[s] = db.sub[s] BY <1>1, <1>2, <1>3, RowsAfter
<1>5. apps[a] \in Int /\ apps'[a] \in Int /\ apps[a] <= apps'[a]
  BY StepHolds, CountsAssumption DEF TypeInv, TypeOK, Held
<1>6. db.sub[s].app \in 1 .. apps'[a] BY <1>1, <1>5
<1>7. QED BY <1>1, <1>4, <1>6 DEF Linked

\* The row of a handler on its way to the answer is its own.
LEMMA RowsKept ==
  ASSUME Isolated, TypeInv, RealInv, NEW t \in Threads, Step(t), NEW u \in Threads \ {t}, th[u].pc \in RowPcs
  PROVE  db'.sub[th[u].sid].status = "queued"
<1>1. db.sub \in [Submits -> SubmitRow] BY DEF TypeInv, TypeOK, Database
<1>2. db.sub[th[u].sid].status = "queued" /\ th[u].sid \in Submits
  BY DEF RealInv, RowPcs, TypeInv, HandlersFit, HandlerFits
<1>3. th[t].pc = "complete" => th[t].sid # th[u].sid BY DEF RealInv, RowPcs
<1>4. QED BY <1>1, <1>2, <1>3, RowsAfter

\* A handler at the POST has a row that is new, one at the answer has kept its row.
LEMMA RowMade ==
  ASSUME Isolated, TypeInv, RealInv, NEW t \in Threads, Step(t), th'[t].pc \in RowPcs
  PROVE  /\ db'.sub[th'[t].sid].status = "queued"
         /\ th'[t].pc = "complete" => th[t].pc = "post" /\ th'[t].sid = th[t].sid
         /\ th'[t].pc = "complete" /\ th'[t].out = "succeeded" => th'[t].app # 0
<1>1. th \in [Threads -> Handler] /\ db \in Database BY DEF TypeInv, TypeOK
<1>2. CASE th'[t].pc = "post"
  <2>1. th[t].pc = "mksub" BY <1>2, StepFlow DEF Ended, Continues, Flow
  <2>2. CreateSubmit(t) /\ ~Raise(t) BY <1>2, <2>1, ActionAt, Ends
  <2>3. PICK s \in Submits : /\ db' = Submitted(db, s, th[t].a, th[t].count)
                             /\ th' = [th EXCEPT ![t].pc = "post", ![t].sid = s]
    BY <2>2 DEF CreateSubmit, Commit, View
  <2>4. th'[t].sid = s BY <1>1, <2>3 DEF Handler
  <2>5. db'.sub[s].status = "queued" BY <1>1, <2>3 DEF Submitted, Database
  <2>6. QED BY <1>2, <2>4, <2>5
<1>3. CASE th'[t].pc = "complete"
  <2>1. th[t].pc = "post" BY <1>3, StepFlow DEF Ended, Continues, Flow
  <2>2. Post(t) /\ ~Raise(t) BY <1>3, <2>1, ActionAt, Ends
  <2>3. PICK out, n : Answered(t, out, n) /\ (out = "succeeded" => n \in 1 .. MaxApps) BY <2>2 DEF Post
  <2>4. th'[t].out = out /\ th'[t].app = n /\ th'[t].sid = th[t].sid BY <1>1, <2>3 DEF Answered, Handler
  <2>5. UNCHANGED db BY <2>2 DEF Post
  <2>6. db.sub[th[t].sid].status = "queued" BY <2>1 DEF RealInv, RowPcs
  <2>7. QED BY <1>3, <2>1, <2>3, <2>4, <2>5, <2>6
<1>4. QED BY <1>2, <1>3 DEF RowPcs

\* The handler that brings a success home has written the row that backs it.
LEMMA LinkMade ==
  ASSUME Isolated, TypeInv, TruthInv, RealInv, NEW t \in Threads, Step(t), th'[t].pc \in {"submitted", "succeeded"}
  PROVE  Linked(db', apps'[th'[t].a], th'[t].a)
<1> PICK a : a = th[t].a OBVIOUS
<1>1. /\ th'[t].a = a /\ th[t].pc \in {"complete", "submitted"}
      /\ th'[t].pc = "submitted" => th[t].pc = "complete"
  BY StepFlow DEF Ended, Continues, Flow
<1>2. a \in Attempts BY <1>1, HandlerAttempt DEF HasAttempt, Pcs, Calls
<1>3. CASE th[t].pc = "submitted" BY <1>1, <1>2, <1>3, LinkedGrows DEF RealInv
<1>4. CASE th[t].pc = "complete"
  <2> PICK s : s = th[t].sid OBVIOUS
  <2>1. Complete(t) BY <1>4, ActionAt
  <2>2. th[t].out = "retry" => Raise(t) \/ Goto(t, "limit") BY <2>1 DEF Complete, Call
  <2>3. th[t].out \notin {"retry", "succeeded"} => Raise(t) \/ Done(t) BY <2>1 DEF Complete, LastCall
  <2>4. th[t].out = "succeeded" BY <2>2, <2>3, GoesOn, Ends
  <2>5. ~Raise(t) BY Ends
  <2>6. db' = Completed(db, s, SubmitStatus("succeeded"), th[t].app) /\ UNCHANGED apps
    BY <2>1, <2>4, <2>5 DEF Complete, Call, Commit, View
  <2>7. s \in Submits /\ db.sub[s].owner = a /\ db.sub[s] \in SubmitRow /\ th[t].app \in 0 .. MaxApps
    BY <1>4, CompleteArguments DEF TypeInv, TypeOK, Database
  <2>8. db'.sub[s] = CompletedRow(db.sub[s], "succeeded", th[t].app)
    BY <2>6, <2>7 DEF Completed, SubmitStatus, TypeInv, TypeOK, Database
  <2>9. th[t].app # 0 BY <1>4, <2>4 DEF RealInv
  <2>10. db'.sub[s].owner = a /\ db'.sub[s].status = "succeeded" /\ db'.sub[s].app = th[t].app
    BY <2>7, <2>8, <2>9 DEF CompletedRow, SubmitRow
  <2>11. th[t].app <= apps[a] BY <1>4 DEF TruthInv, Claims
  <2>12. th[t].app \in 1 .. apps[a]
    BY <1>2, <2>7, <2>9, <2>11, CountsAssumption DEF TypeInv, TypeOK
  <2>13. QED BY <1>1, <2>6, <2>7, <2>10, <2>12 DEF Linked
<1>5. QED BY <1>1, <1>3, <1>4

LEMMA RealOfStep ==
  ASSUME Isolated, TypeInv, TruthInv, RealInv, NEW t \in Threads, Step(t)
  PROVE  RealInv'
<1>1. \A u \in Threads \ {t} : th'[u] = th[u] BY StepFlow DEF OnlyMoves
<1>2. ASSUME NEW a \in Attempts, db'.att[a].status = "succeeded" PROVE Linked(db', apps'[a], a)
  <2>1. CASE db.att[a].status = "succeeded" BY <2>1, LinkedGrows DEF RealInv
  <2>2. CASE db.att[a].status # "succeeded"
    <3>1. th[t].pc = "succeeded" /\ a = th[t].a BY <1>2, <2>2, StatusMoves DEF Transitions
    <3>2. QED BY <3>1, LinkedGrows DEF RealInv
  <2>3. QED BY <2>1, <2>2
<1>3. ASSUME NEW u \in Threads PROVE th'[u].pc \in {"submitted", "succeeded"} => Linked(db', apps'[th'[u].a], th'[u].a)
  <2>1. CASE u = t BY <2>1, LinkMade
  <2>2. CASE u # t
    <3>1. th[u].pc \in {"submitted", "succeeded"} => th[u].a \in Attempts
      BY HandlerAttempt DEF HasAttempt, Pcs, Calls
    <3>2. QED BY <1>1, <2>2, <3>1, LinkedGrows DEF RealInv
  <2>3. QED BY <2>1, <2>2
<1>4. ASSUME NEW u \in Threads
      PROVE  /\ th'[u].pc \in RowPcs => db'.sub[th'[u].sid].status = "queued"
             /\ th'[u].pc = "complete" /\ th'[u].out = "succeeded" => th'[u].app # 0
  <2>1. CASE u = t BY <2>1, RowMade DEF RowPcs
  <2>2. CASE u # t BY <1>1, <2>2, RowsKept DEF RealInv
  <2>3. QED BY <2>1, <2>2
<1>5. ASSUME NEW u \in Threads \ {t}, {th'[t].pc, th'[u].pc} \subseteq RowPcs PROVE th'[t].sid # th'[u].sid
  <2>1. th[u].pc \in RowPcs /\ th'[u] = th[u] /\ db.sub[th[u].sid].status = "queued" BY <1>1, <1>5 DEF RealInv
  <2>2. CASE th'[t].pc = "post" BY <2>1, <2>2, PostingStarts
  <2>3. CASE th'[t].pc = "complete" BY <1>5, <2>1, <2>3, RowMade DEF RealInv, RowPcs
  <2>4. QED BY <1>5, <2>2, <2>3 DEF RowPcs
<1>6. ASSUME NEW u \in Threads, NEW w \in Threads, u # w, {th'[u].pc, th'[w].pc} \subseteq RowPcs
      PROVE  th'[u].sid # th'[w].sid
  BY <1>1, <1>5, <1>6 DEF RealInv
<1>7. QED BY <1>2, <1>3, <1>4, <1>6 DEF RealInv

LEMMA RealStep == Isolated /\ TypeInv /\ TruthInv /\ RealInv /\ [Next]_vars => RealInv'
<1> SUFFICES ASSUME Isolated, TypeInv, TruthInv, RealInv, [Next]_vars PROVE RealInv' OBVIOUS
<1>1. CASE UNCHANGED <<db, th, apps>> BY <1>1 DEF RealInv
<1>2. ASSUME NEW t \in Threads PROVE ~Hydrate(t) BY DEF Hydrate
<1>3. QED BY <1>1, <1>2, RealOfStep DEF Next, Step, vars

LEMMA RealCorrect == ASSUME Isolated PROVE Spec => []RealInv
<1>1. Init => RealInv
  <2> SUFFICES ASSUME Init PROVE RealInv OBVIOUS
  <2>1. (\A a \in Attempts : db.att[a].status = "none") /\ \A t \in Threads : th[t].pc = "idle"
    BY IdleFits DEF Init, EmptyDb, NoRow
  <2>2. QED BY <2>1 DEF RealInv, RowPcs
<1>2. QED BY <1>1, RealStep, TypeCorrect, TruthInit, TruthStep, PTL DEF Spec

\* With atomic store calls an attempt is shown as a success only when one of its
\* submit rows is, linked to an application the vendor holds.
THEOREM SuccessReal == ASSUME Isolated PROVE Spec => []SuccessIsReal
<1>1. RealInv => SuccessIsReal BY DEF RealInv, SuccessIsReal, Linked
<1>2. QED BY <1>1, RealCorrect, PTL

-----------------------------------------------------------------------------
(* One submitter at a time, whatever the vendor answers.  The part of       *)
(* SubmissionInv that does not speak of the vendor is inductive by itself. *)

PhaseHandler(t) == LET a == th[t].a IN
  /\ th[t].pc \in Packaging => form[a].manual
  /\ th[t].pc \in SubmitPhase \cup {"start"} => ~form[a].manual
  /\ th[t].pc \in SubmitPhase \ {"succeeded"} => db.att[a].status \in {"submitting", "failed"}
  /\ th[t].pc = "succeeded" => db.att[a].status \in {"submitted", "failed"}
PhaseInv ==
  /\ OneSubmitter
  /\ \A a \in Attempts : db.att[a].status = "needs_review" => form[a].manual
  /\ \A t \in Threads : PhaseHandler(t)

\* An attempt that exists keeps its form, its existence and its approval.
LEMMA BornStays ==
  ASSUME Isolated, TypeInv, [Next]_vars, NEW a \in Attempts, db.att[a].status # "none"
  PROVE  /\ form'[a] = form[a] /\ db'.att[a].status # "none"
         /\ db.att[a].approved => db'.att[a].approved
<1>1. db \in Database /\ form \in [Attempts -> Form] /\ [StoreNext]_storeVars BY StepImplements DEF TypeInv, TypeOK
<1>2. CASE UNCHANGED storeVars BY <1>2 DEF storeVars
<1>3. CASE StoreNext
  <2>1. form'[a] = form[a] BY <1>1, <1>3 DEF StoreNext, Insert
  <2>2. /\ db.att[a].approved => db'.att[a].approved
        /\ \/ db'.att[a].status = db.att[a].status
           \/ db'.att[a].status = "failed"
           \/ db.att[a].approved /\ db'.att[a].status \in AllowedFrom(db.att[a].status)
    BY <1>1, <1>3, CallGate
  <2>3. \A s : "none" \notin AllowedFrom(s) BY DEF AllowedFrom
  <2>4. QED BY <2>1, <2>2, <2>3
<1>4. QED BY <1>1, <1>2, <1>3

LEMMA StepIsNext == ASSUME UNCHANGED deployment, NEW t \in Threads, Step(t) PROVE [Next]_vars
  BY DEF Next, Step

\* The statuses seen by a handler of the submission that does not take the step.
LEMMA PhaseStatus ==
  ASSUME Isolated, TypeInv, PhaseInv, NEW t \in Threads, Step(t), NEW u \in Threads \ {t}, th[u].pc \in SubmitPhase
  PROVE  /\ th[u].pc # "succeeded" => db'.att[th[u].a].status \in {"submitting", "failed"}
         /\ th[u].pc = "succeeded" => db'.att[th[u].a].status \in {"submitted", "failed"}
<1> PICK a : a = th[u].a OBVIOUS
<1>1. a \in Attempts BY HandlerAttempt DEF SubmitPhase, HasAttempt, Pcs, Calls, Others
<1>2. /\ th[u].pc # "succeeded" => db.att[a].status \in {"submitting", "failed"}
      /\ th[u].pc = "succeeded" => db.att[a].status \in {"submitted", "failed"}
  BY DEF PhaseInv, PhaseHandler
<1>3. CASE db'.att[a].status = db.att[a].status BY <1>2, <1>3
<1>4. CASE db'.att[a].status # db.att[a].status
  <2>1. /\ a = th[t].a /\ db'.att[a].status \in AllowedFrom(db.att[a].status)
        /\ <<th[t].pc, db'.att[a].status>> \in Transitions
    BY <1>1, <1>2, <1>4, StatusMoves
  <2>2. th[t].pc \notin Packaging BY <2>1 DEF PhaseInv, PhaseHandler
  <2>3. th[t].pc \notin SubmitPhase BY <2>1 DEF PhaseInv, OneSubmitter
  <2>4. db'.att[a].status = "failed"
    BY <1>2, <2>1, <2>2, <2>3 DEF Transitions, AllowedFrom, Packaging, SubmitPhase
  <2>5. QED BY <2>4
<1>5. QED BY <1>3, <1>4

\* The handler that takes the step.
LEMMA PhaseMade ==
  ASSUME Isolated, TypeInv, PhaseInv, NEW t \in Threads, Step(t), UNCHANGED deployment
  PROVE  PhaseHandler(t)'
<1> PICK a : a = th[t].a OBVIOUS
<1>1. th \in [Threads -> Handler] /\ th[t] \in Handler BY DEF TypeInv, TypeOK
<1>2. CASE th'[t].pc \notin Packaging \cup SubmitPhase \cup {"start"} BY <1>2 DEF PhaseHandler, SubmitPhase
<1>3. CASE th'[t].pc \in Packaging \cup SubmitPhase \cup {"start"}
  <2>1. ~Ended(t) /\ Continues(t) BY <1>3, StepFlow DEF Ended, Packaging, SubmitPhase
  <2>2. CASE th'[t].pc = "manual"
    <3>1. th[t].pc = "idle" BY <2>1, <2>2 DEF Continues, Flow
    <3>2. Arrival(t) \/ Deliver(t) BY <2>2, <3>1, ActionAt
    <3>3. CASE ManualRead(t)
      <4>1. PICK b \in Attempts :
              db.att[b].status = "needs_review" /\ th' = [th EXCEPT ![t].pc = "manual", ![t].a = b]
        BY <3>3 DEF ManualRead
      <4>2. th'[t].a = b /\ form[b].manual /\ form' = form
        BY <1>1, <3>3, <4>1 DEF ManualRead, Handler, PhaseInv
      <4>3. QED BY <2>2, <4>2 DEF PhaseHandler, SubmitPhase
    <3>4. CASE ~ManualRead(t)
      <4>1. CreateRequest(t) => th'[t].pc = "create" BY <1>1 DEF CreateRequest, Goto, Handler
      <4>2. CancelRead(t) => th'[t].pc = "cancel" BY <1>1 DEF CancelRead, Handler
      <4>3. WebhookArrives(t) => th'[t].pc = "hook" BY <1>1 DEF WebhookArrives, Handler
      <4>4. Deliver(t) => th'[t].pc \in {"idle", "read"} BY <1>1, <3>1 DEF Deliver, Idle
      <4>5. QED BY <2>2, <3>2, <3>4, <4>1, <4>2, <4>3, <4>4 DEF Arrival
    <3>5. QED BY <3>3, <3>4
  <2>3. CASE th'[t].pc # "manual"
    <3>1. th'[t].a = a /\ th[t].pc \in HasAttempt
      BY <1>3, <2>1, <2>3 DEF Continues, Flow, Packaging, SubmitPhase, HasAttempt, Pcs, Calls, Others, Reading
    <3>2. a \in Attempts /\ db.att[a].status # "none" BY <3>1, HandlerAttempt
    <3>3. form'[a] = form[a] BY <3>2, BornStays, StepIsNext
    <3>4. PhaseHandler(t) BY DEF PhaseInv
    <3>5. CASE th'[t].pc \in {"putpkg", "start"}
      <4>1. th[t].pc \in Reading BY <2>1, <3>5 DEF Continues, Flow, Reading
      <4>2. Read(t) BY <3>5, <4>1, ActionAt
      <4>3. Goto(t, "putpkg") => th'[t].pc = "putpkg" BY GoesOn
      <4>4. Goto(t, "start") => th'[t].pc = "start" BY GoesOn
      <4>5. Goto(t, "requeue") => th'[t].pc = "requeue" BY GoesOn
      <4>6. ~Done(t) BY <3>5, Ends
      <4>7. /\ th'[t].pc = "putpkg" => form[a].manual
            /\ th'[t].pc = "start" => ~form[a].manual
        BY <3>5, <4>2, <4>3, <4>4, <4>5, <4>6 DEF Read
      <4>8. QED BY <3>1, <3>3, <3>5, <4>7 DEF PhaseHandler, SubmitPhase, Packaging
    <3>6. CASE th'[t].pc \in {"lockpkg", "review"}
      <4>1. th[t].pc \in Packaging BY <2>1, <3>6 DEF Continues, Flow, Packaging
      <4>2. QED BY <3>1, <3>3, <3>4, <3>6, <4>1 DEF PhaseHandler, SubmitPhase, Packaging
    <3>7. CASE th'[t].pc = "mksub"
      <4>1. th[t].pc = "start" BY <2>1, <3>7 DEF Continues, Flow
      <4>2. Start(t) /\ ~Raise(t) BY <3>7, <4>1, ActionAt, Ends
      <4>3. db' = Moved(db, a, "submitting") BY <4>2 DEF Start, Call, Commit, View
      <4>4. db'.att[a].status = "submitting" BY <3>2, <4>3, MovedSets DEF SetStatus, TypeInv, TypeOK, Statuses
      <4>5. QED BY <3>1, <3>3, <3>4, <3>7, <4>1, <4>4 DEF PhaseHandler, Packaging
    <3>8. CASE th'[t].pc = "succeeded"
      <4>1. th[t].pc = "submitted" BY <2>1, <3>8 DEF Continues, Flow
      <4>2. MarkSubmitted(t) /\ ~Raise(t) BY <3>8, <4>1, ActionAt, Ends
      <4>3. db' = Moved(db, a, "submitted") BY <4>2 DEF MarkSubmitted, Call, Commit, View
      <4>4. db'.att[a].status = "submitted" BY <3>2, <4>3, MovedSets DEF SetStatus, TypeInv, TypeOK, Statuses
      <4>5. QED BY <3>1, <3>3, <3>4, <3>8, <4>1, <4>4 DEF PhaseHandler, Packaging, SubmitPhase
    <3>9. CASE th'[t].pc \in {"post", "complete", "limit", "submitted"}
      <4>1. th[t].pc \in {"mksub", "post", "complete"} BY <2>1, <3>9 DEF Continues, Flow
      <4>2. db.att[a].status \in {"submitting", "failed"} /\ ~form[a].manual
        BY <3>4, <4>1 DEF PhaseHandler, SubmitPhase
      <4>3. db'.att[a].status # db.att[a].status => db'.att[a].status = "failed"
        BY <3>2, <4>1, StatusMoves DEF Transitions
      <4>4. QED BY <3>1, <3>3, <3>9, <4>2, <4>3 DEF PhaseHandler, Packaging, SubmitPhase
    <3>10. QED BY <1>3, <2>3, <3>5, <3>6, <3>7, <3>8, <3>9 DEF Packaging, SubmitPhase
  <2>4. QED BY <2>2, <2>3
<1>4. QED BY <1>2, <1>3

\* A handler enters the submission from the queue, where no submitter's attempt is.
LEMMA PhaseEntered ==
  ASSUME Isolated, TypeInv, PhaseInv, NEW t \in Threads, Step(t), th'[t].pc \in SubmitPhase
  PROVE  \A u \in Threads \ {t} : th[u].pc \in SubmitPhase => th[u].a # th'[t].a
<1> PICK a : a = th[t].a OBVIOUS
<1>1. th'[t].a = a /\ th[t].pc \in SubmitPhase \cup {"start"}
  BY StepFlow DEF Ended, Continues, Flow, SubmitPhase
<1>2. CASE th[t].pc \in SubmitPhase BY <1>1, <1>2 DEF PhaseInv, OneSubmitter
<1>3. CASE th[t].pc = "start"
  <2>1. th'[t].pc = "mksub" BY <1>3, StepFlow DEF Ended, Continues, Flow, SubmitPhase
  <2>2. Start(t) /\ ~Raise(t) BY <1>3, <2>1, ActionAt, Ends
  <2>3. CanMove(db, a, "submitting") BY <2>2 DEF Start, Call, View
  <2>4. db.att[a].status \notin {"submitting", "submitted", "failed"} BY <2>3 DEF CanMove, AllowedFrom
  <2>5. QED BY <1>1, <2>4 DEF PhaseInv, PhaseHandler, SubmitPhase
<1>4. QED BY <1>1, <1>2, <1>3

LEMMA PhaseStep == Isolated /\ TypeInv /\ PhaseInv /\ [Next]_vars => PhaseInv'
<1> SUFFICES ASSUME Isolated, TypeInv, PhaseInv, [Next]_vars PROVE PhaseInv' OBVIOUS
<1>1. CASE UNCHANGED vars BY <1>1 DEF vars, PhaseInv, PhaseHandler, OneSubmitter
<1>2. ASSUME NEW t \in Threads, Step(t), UNCHANGED deployment PROVE PhaseInv'
  <2>1. \A u \in Threads \ {t} : th'[u] = th[u] BY <1>2, StepFlow DEF OnlyMoves
  <2>2. OneSubmitter' BY <1>2, <2>1, PhaseEntered DEF PhaseInv, OneSubmitter
  <2>3. ASSUME NEW a \in Attempts, db'.att[a].status = "needs_review" PROVE form'[a].manual
    <3>1. CASE db.att[a].status = "needs_review" BY <3>1, BornStays DEF PhaseInv
    <3>2. CASE db.att[a].status # "needs_review"
      <4>1. db.att[a].status # "none" /\ a = th[t].a /\ th[t].pc = "review"
        BY <1>2, <2>3, <3>2, StatusMoves DEF Transitions, AllowedFrom
      <4>2. form[a].manual BY <4>1 DEF PhaseInv, PhaseHandler, Packaging
      <4>3. QED BY <4>1, <4>2, BornStays
    <3>3. QED BY <3>1, <3>2
  <2>4. ASSUME NEW u \in Threads \ {t} PROVE PhaseHandler(u)'
    <3>1. CASE th[u].pc \notin Packaging \cup SubmitPhase \cup {"start"}
      BY <2>1, <3>1 DEF PhaseHandler, SubmitPhase
    <3>2. CASE th[u].pc \in Packaging \cup SubmitPhase \cup {"start"}
      <4>1. th[u].pc \in HasAttempt BY <3>2 DEF Packaging, SubmitPhase, HasAttempt, Pcs, Calls, Others
      <4>2. form'[th[u].a] = form[th[u].a] BY <4>1, HandlerAttempt, BornStays
      <4>3. QED BY <1>2, <2>1, <4>2, PhaseStatus DEF PhaseInv, PhaseHandler, SubmitPhase
    <3>3. QED BY <3>1, <3>2
  <2>5. QED BY <1>2, <2>2, <2>3, <2>4, PhaseMade DEF PhaseInv
<1>3. ASSUME NEW t \in Threads PROVE ~Hydrate(t) BY DEF Hydrate
<1>4. QED BY <1>1, <1>2, <1>3 DEF Next, Step

LEMMA PhaseInit == Init => PhaseInv
<1> SUFFICES ASSUME Init PROVE PhaseInv OBVIOUS
<1>1. (\A a \in Attempts : db.att[a].status = "none") /\ \A t \in Threads : th[t].pc = "idle"
  BY IdleFits DEF Init, EmptyDb, NoRow
<1>2. QED BY <1>1 DEF PhaseInv, PhaseHandler, OneSubmitter, Packaging, SubmitPhase

-----------------------------------------------------------------------------
(* Stranded attempts show.  While nobody dies, a submission ends without an *)
(* answer in the store only where its row is left open: the row is there   *)
(* before the POST, and a finished row comes with a status that is final.  *)

NoDeath == deaths.worker + deaths.request = 0
Open == {"queued", "retrying"}
Carried(a) == \E t \in Threads : th[t].pc \in SubmitPhase /\ th[t].a = a
\* The attempt has, or is about to have, the outcome its succeeded row announces.
Landed(a) == \/ db.att[a].status \in {"submitted", "succeeded", "failed"}
             \/ /\ db.att[a].status = "submitting"
                /\ \E t \in Threads : th[t].pc = "submitted" /\ th[t].a = a
RowsOwned ==
  \A s \in Submits : LET a == db.sub[s].owner IN
    db.sub[s].status # "none" => a \in Attempts /\ db.att[a].status # "none" /\ ~form[a].manual
RowsFinal ==
  \A s \in Submits : LET a == db.sub[s].owner IN
    /\ db.sub[s].status = "failed" => db.att[a].status = "failed"
    /\ db.sub[s].status = "succeeded" => Landed(a)
NoneLost == \A a \in Attempts : db.att[a].status = "submitting" => Carried(a) \/ Row(a, Open)
StrandedInv == RowsOwned /\ (NoDeath => RowsFinal /\ NoneLost)

LEMMA OnlyDieKills ==
  ASSUME NEW t \in Threads, Step(t), ~Die(t)
  PROVE  UNCHANGED deaths
  BY DEF Step, Arrival, CreateRequest, CancelRead, ManualRead, WebhookArrives, Deliver, RequestStep, WorkStep,
         CreateAttempt, PutArtifacts, PutPackage, Approve, Queue, Enqueue, CancelMove, CancelMark, ManualMove,
         IngestWebhook, Ack, Read, Requeue, WorkerPackage, LockPackage, NeedsReview, Start, CreateSubmit, Post, Complete,
         RateLimit, Resend, MarkSubmitted, MarkSucceeded, Call, LastCall

LEMMA DeathCounts ==
  ASSUME TypeInv, NEW t \in Threads, Step(t)
  PROVE  /\ NoDeath' => NoDeath /\ ~Die(t)
         /\ deaths'.request = 0 => deaths.request = 0 /\ (Die(t) => th[t].msg # None)
<1>1. deaths.request \in Nat /\ deaths.worker \in Nat /\ deaths \in [request : Nat, worker : Nat]
  BY LimitsAssumption DEF TypeInv, TypeOK
<1>2. CASE Die(t)
  <2>1. CASE th[t].msg = None
    <3>1. deaths'.request = deaths.request + 1 /\ deaths'.worker = deaths.worker BY <1>1, <1>2, <2>1 DEF Die
    <3>2. QED BY <1>1, <3>1 DEF NoDeath
  <2>2. CASE th[t].msg # None
    <3>1. deaths'.worker = deaths.worker + 1 /\ deaths'.request = deaths.request BY <1>1, <1>2, <2>2 DEF Die
    <3>2. QED BY <1>1, <2>2, <3>1 DEF NoDeath
  <2>3. QED BY <2>1, <2>2
<1>3. CASE ~Die(t) BY <1>3, OnlyDieKills DEF NoDeath
<1>4. QED BY <1>2, <1>3

\* A refusal fails the attempt that was being submitted.
LEMMA CompletedFails ==
  ASSUME NEW v \in Database, NEW s \in Submits, NEW n \in 0 .. MaxApps, NEW a \in Attempts, v.sub[s].owner = a,
         v.att[a].status \in {"submitting", "failed"}
  PROVE  Completed(v, s, "failed", n).att[a].status = "failed"
<1> DEFINE r == CompletedRow(v.sub[s], "failed", n)
           f == FailedRow(v.att[a])
<1>1. v.att[a] \in AttemptRow BY DEF Database
<1>2. f.status = "failed" BY <1>1 DEF FailedRow, AttemptRow, AllowedFrom
<1>3. Completed(v, s, "failed", n) = [[v EXCEPT !.sub[s] = r] EXCEPT !.att[a] = f] BY DEF Completed
<1> HIDE DEF r, f
<1>4. QED BY <1>2, <1>3 DEF Database

LEMMA RowsOwnedStep ==
  ASSUME Isolated, TypeInv, PhaseInv, RowsOwned, NEW t \in Threads, Step(t), UNCHANGED deployment
  PROVE  RowsOwned'
<1>1. SUFFICES ASSUME NEW s \in Submits, db'.sub[s].status # "none"
               PROVE  /\ db'.sub[s].owner \in Attempts /\ db'.att[db'.sub[s].owner].status # "none"
                      /\ ~form'[db'.sub[s].owner].manual
  BY DEF RowsOwned
<1>2. [Next]_vars BY StepIsNext
<1>3. \/ db.sub[s].status # "none" /\ db'.sub[s].owner = db.sub[s].owner
      \/ th[t].pc = "mksub" /\ db'.sub[s].owner = th[t].a
  BY <1>1, RowAfter, CompleteArguments
<1>4. th[t].pc = "mksub" => th[t].a \in Attempts /\ db.att[th[t].a].status # "none" /\ ~form[th[t].a].manual
  BY HandlerAttempt DEF PhaseInv, PhaseHandler, SubmitPhase, HasAttempt, Pcs, Calls
<1>5. QED BY <1>2, <1>3, <1>4, BornStays DEF RowsOwned

\* An outcome that is announced stays so until it is there.
LEMMA LandedStays ==
  ASSUME Isolated, TypeInv, Gated, PhaseInv, NEW t \in Threads, Step(t), ~Die(t), NEW a \in Attempts,
         ~form[a].manual, Landed(a)
  PROVE  Landed(a)'
<1>1. CASE db.att[a].status \in {"submitted", "succeeded", "failed"}
  <2>1. db'.att[a].status = db.att[a].status \/ db'.att[a].status \in {"succeeded", "failed"}
    <3>1. SUFFICES ASSUME db'.att[a].status # db.att[a].status PROVE db'.att[a].status \in {"succeeded", "failed"}
      OBVIOUS
    <3>2. /\ a = th[t].a /\ db'.att[a].status \in AllowedFrom(db.att[a].status)
          /\ <<th[t].pc, db'.att[a].status>> \in Transitions
      BY <1>1, <3>1, StatusMoves
    <3>3. th[t].pc # "review" BY <3>2 DEF PhaseInv, PhaseHandler, Packaging
    <3>4. QED BY <1>1, <3>2, <3>3 DEF AllowedFrom, Transitions
  <2>2. QED BY <1>1, <2>1 DEF Landed
<1>2. ASSUME NEW u \in Threads, th[u].pc = "submitted", th[u].a = a, db.att[a].status = "submitting"
      PROVE  Landed(a)'
  <2>1. CASE u = t
    <3>1. MarkSubmitted(t) BY <1>2, <2>1, ActionOf
    <3>2. CanMove(db, a, "submitted") BY <1>2 DEF CanMove, AllowedFrom, Gated, Frozen, Statuses
    <3>3. db' = Moved(db, a, "submitted") BY <1>2, <2>1, <3>1, <3>2 DEF MarkSubmitted, Call, Commit, View
    <3>4. db'.att[a].status = "submitted" BY <3>3, MovedSets DEF SetStatus, TypeInv, TypeOK, Statuses
    <3>5. QED BY <3>4 DEF Landed
  <2>2. CASE u # t
    <3>1. th'[u] = th[u] BY <2>2, StepFlow DEF OnlyMoves
    <3>2. db'.att[a].status \in {"submitting", "failed"} BY <1>2, <2>2, PhaseStatus DEF SubmitPhase
    <3>3. QED BY <1>2, <3>1, <3>2 DEF Landed
  <2>3. QED BY <2>1, <2>2
<1>3. QED BY <1>1, <1>2 DEF Landed

LEMMA RowsFinalStep ==
  ASSUME Isolated, TypeInv, Gated, PhaseInv, RowsOwned, RowsFinal, NEW t \in Threads, Step(t), ~Die(t)
  PROVE  RowsFinal'
<1>1. SUFFICES ASSUME NEW s \in Submits, NEW a, db'.sub[s].owner = a
               PROVE  /\ db'.sub[s].status = "failed" => db'.att[a].status = "failed"
                      /\ db'.sub[s].status = "succeeded" => Landed(a)'
  BY DEF RowsFinal
<1>2. db \in Database /\ db.sub \in [Submits -> SubmitRow] BY DEF TypeInv, TypeOK, Database
<1>3. CASE db.sub[s].status # "none" /\ db'.sub[s] = db.sub[s]
  <2>1. a \in Attempts /\ ~form[a].manual /\ db.sub[s].owner = a BY <1>1, <1>3 DEF RowsOwned
  <2>2. db.sub[s].status = "failed" => db'.att[a].status = "failed"
    BY <2>1, StatusMoves DEF RowsFinal, AllowedFrom
  <2>3. db.sub[s].status = "succeeded" => Landed(a)' BY <2>1, LandedStays DEF RowsFinal
  <2>4. QED BY <1>3, <2>2, <2>3
<1>4. CASE /\ th[t].pc = "complete" /\ s = th[t].sid /\ a = th[t].a /\ CanComplete(db, s, th[t].app)
           /\ db'.sub[s].status = SubmitStatus(th[t].out)
  <2> PICK out, n : out = th[t].out /\ n = th[t].app OBVIOUS
  <2>1. /\ a \in Attempts /\ db.sub[s].owner = a /\ n \in 0 .. MaxApps
        /\ db.att[a].status \in {"submitting", "failed"}
    BY <1>2, <1>4, CompleteArguments DEF PhaseInv, PhaseHandler, SubmitPhase
  <2>2. CanComplete(db, s, n) /\ db'.sub[s].status = SubmitStatus(out) BY <1>4
  <2>4. Complete(t) BY <1>4, ActionOf
  <2>5. out \in {"retry", "failed", "succeeded"}
    BY <1>4 DEF TypeInv, TypeOK, Handler, HandlersFit, HandlerFits
  <2>6. CASE out = "retry" BY <2>2, <2>6 DEF SubmitStatus
  <2>7. CASE out = "failed"
    <3>1. db' = Completed(db, s, "failed", n) BY <1>4, <2>2, <2>4, <2>7 DEF Complete, LastCall, Commit, View, SubmitStatus
    <3>2. QED BY <1>2, <2>1, <2>2, <2>7, <3>1, CompletedFails DEF SubmitStatus
  <2>8. CASE out = "succeeded"
    <3>1. db' = Completed(db, s, "succeeded", n) /\ Goto(t, "submitted")
      BY <1>4, <2>2, <2>4, <2>8 DEF Complete, Call, Commit, View, SubmitStatus
    <3>2. db'.att = db.att BY <1>2, <3>1 DEF Completed, Database
    <3>3. th'[t].pc = "submitted" /\ th'[t].a = a BY <1>4, <3>1, GoesOn
    <3>4. Landed(a)' BY <2>1, <3>2, <3>3 DEF Landed
    <3>5. QED BY <2>2, <2>8, <3>4 DEF SubmitStatus
  <2>9. QED BY <2>5, <2>6, <2>7, <2>8
<1>5. CASE db'.sub[s].status = "queued" BY <1>5
<1>6. CASE db.sub[s].status = "none" /\ db'.sub[s] = db.sub[s] BY <1>6
<1>7. QED BY <1>1, <1>3, <1>4, <1>5, <1>6, RowAfter

\* A submitter leaves an attempt in "submitting" only with an open row.
LEMMA PhaseLeft ==
  ASSUME Isolated, TypeInv, Gated, PhaseInv, RealInv, RowsOwned, RowsFinal, NEW t \in Threads, Step(t), ~Die(t),
         th[t].pc \in SubmitPhase, NEW a \in Attempts, th[t].a = a,
         db.att[a].status = "submitting", db'.att[a].status = "submitting"
  PROVE  th'[t].pc \in SubmitPhase \/ Row(a, Open)'
<1> PICK s : s = th[t].sid OBVIOUS
<1>1. a \in Attempts OBVIOUS
<1>2. db \in Database BY DEF TypeInv, TypeOK
<1>3. \A x \in Statuses : CanMove(db, a, x) /\ db' = Moved(db, a, x) => db'.att[a].status = x
  BY <1>1, <1>2, MovedSets DEF SetStatus
<1>4. CanMove(db, a, "rate_limited") /\ CanMove(db, a, "submitted")
  BY <1>1 DEF CanMove, AllowedFrom, Gated, Frozen, Statuses
<1>5. th[t].pc \in RowPcs => /\ s \in Submits /\ db.sub[s].owner = a /\ db.sub[s].status = "queued"
  BY DEF RowPcs, RealInv, TypeInv, HandlersFit, HandlerFits
<1>6. CASE th[t].pc = "mksub"
  <2>1. CreateSubmit(t) BY <1>6, ActionOf
  <2>2. CASE ~CanSubmit(db, a, th[t].count)
    <3>1. PICK r \in Submits : db.sub[r].status # "none" /\ db.sub[r].owner = a BY <2>2 DEF CanSubmit
    <3>2. \A u \in Threads : ~(th[u].pc = "submitted" /\ th[u].a = a)
      BY <1>6 DEF PhaseInv, OneSubmitter, SubmitPhase
    <3>3. db.sub[r].status \notin {"failed", "succeeded"} BY <3>1, <3>2 DEF RowsFinal, Landed
    <3>4. db.sub[r].status \in Open BY <1>2, <3>1, <3>3 DEF Database, SubmitRow, Open
    <3>5. UNCHANGED db BY <2>1, <2>2 DEF CreateSubmit, NoCommit, View
    <3>6. QED BY <3>1, <3>4, <3>5 DEF Row
  <2>3. CASE CanSubmit(db, a, th[t].count)
    <3>1. \E r \in Submits : th' = [th EXCEPT ![t].pc = "post", ![t].sid = r] BY <2>1, <2>3 DEF CreateSubmit, View
    <3>2. th'[t].pc = "post" BY <3>1 DEF TypeInv, TypeOK, Handler
    <3>3. QED BY <3>2 DEF SubmitPhase
  <2>4. QED BY <2>2, <2>3
<1>7. CASE th[t].pc = "post"
  <2>1. UNCHANGED db BY <1>7, ActionOf DEF Post
  <2>2. QED BY <1>5, <1>7, <2>1 DEF Row, Open, RowPcs
<1>8. CASE th[t].pc = "complete"
  <2> PICK out, n : out = th[t].out /\ n = th[t].app OBVIOUS
  <2>1. Complete(t) BY <1>8, ActionOf
  <2>2. CASE UNCHANGED db BY <1>5, <1>8, <2>2 DEF Row, Open, RowPcs
  <2>3. CASE out \in {"retry", "succeeded"}
    <3>1. UNCHANGED db \/ Goto(t, "limit") \/ Goto(t, "submitted")
      BY <2>1, <2>3 DEF Complete, Call, NoCommit
    <3>2. Goto(t, "limit") => th'[t].pc = "limit" BY GoesOn
    <3>3. Goto(t, "submitted") => th'[t].pc = "submitted" BY GoesOn
    <3>4. QED BY <2>2, <3>1, <3>2, <3>3 DEF SubmitPhase
  <2>4. CASE out \notin {"retry", "succeeded"}
    <3>1. out = "failed" BY <1>8, <2>4 DEF TypeInv, TypeOK, Handler, HandlersFit, HandlerFits
    <3>2. UNCHANGED db \/ db' = Completed(db, s, "failed", n)
      BY <2>1, <3>1 DEF Complete, LastCall, Commit, NoCommit, View, SubmitStatus
    <3>3. n \in 0 .. MaxApps BY <1>8, CompleteArguments
    <3>4. QED BY <1>1, <1>2, <1>5, <1>8, <2>2, <3>2, <3>3, CompletedFails DEF RowPcs
  <2>5. QED BY <2>3, <2>4
<1>9. CASE th[t].pc = "limit"
  <2>1. RateLimit(t) BY <1>9, ActionOf
  <2>2. db' = Moved(db, a, "rate_limited") BY <1>4, <2>1 DEF RateLimit, Call, LastCall, Commit, View
  <2>3. QED BY <1>3, <1>4, <2>2 DEF Statuses
<1>10. CASE th[t].pc = "submitted"
  <2>1. MarkSubmitted(t) BY <1>10, ActionOf
  <2>2. db' = Moved(db, a, "submitted") BY <1>4, <2>1 DEF MarkSubmitted, Call, Commit, View
  <2>3. QED BY <1>3, <1>4, <2>2 DEF Statuses
<1>11. CASE th[t].pc = "succeeded" BY <1>11 DEF PhaseInv, PhaseHandler
<1>12. QED BY <1>6, <1>7, <1>8, <1>9, <1>10, <1>11 DEF SubmitPhase

LEMMA NoneLostStep ==
  ASSUME Isolated, TypeInv, Gated, PhaseInv, RealInv, RowsOwned, RowsFinal, NoneLost, NEW t \in Threads, Step(t), ~Die(t)
  PROVE  NoneLost'
<1>1. SUFFICES ASSUME NEW a \in Attempts, db'.att[a].status = "submitting"
               PROVE  Carried(a)' \/ Row(a, Open)'
  BY DEF NoneLost
<1>2. \A u \in Threads \ {t} : th'[u] = th[u] BY StepFlow DEF OnlyMoves
<1>3. CASE db.att[a].status # "submitting"
  <2>1. a = th[t].a /\ th[t].pc = "start" BY <1>1, <1>3, StatusMoves DEF Transitions
  <2>2. Start(t) BY <2>1, ActionOf
  <2>3. Goto(t, "mksub") BY <1>1, <1>3, <2>2 DEF Start, Call, NoCommit
  <2>4. th'[t].pc = "mksub" /\ th'[t].a = a BY <2>1, <2>3, GoesOn
  <2>5. QED BY <2>4 DEF Carried, SubmitPhase
<1>4. ASSUME NEW u \in Threads, th[u].pc \in SubmitPhase, th[u].a = a, db.att[a].status = "submitting"
      PROVE  Carried(a)' \/ Row(a, Open)'
  <2>1. CASE u # t BY <1>2, <1>4, <2>1 DEF Carried
  <2>2. CASE u = t
    <3>1. th'[t].pc \in SubmitPhase \/ Row(a, Open)' BY <1>1, <1>4, <2>2, PhaseLeft
    <3>2. th'[t].pc \in SubmitPhase => th'[t].a = a
      BY <1>4, <2>2, StepFlow DEF Ended, Continues, SubmitPhase
    <3>3. QED BY <3>1, <3>2 DEF Carried
  <2>3. QED BY <2>1, <2>2
<1>5. CASE db.att[a].status = "submitting" /\ ~Carried(a)
  <2>1. PICK s \in Submits : db.sub[s].owner = a /\ db.sub[s].status \in Open BY <1>5 DEF NoneLost, Row
  <2>2. th[t].pc = "complete" => s # th[t].sid BY <1>5, <2>1, CompleteArguments DEF Carried, SubmitPhase
  <2>3. db'.sub[s] = db.sub[s] BY <2>1, <2>2, OtherRows DEF Open
  <2>4. QED BY <2>1, <2>3 DEF Row
<1>6. QED BY <1>3, <1>4, <1>5 DEF Carried

LEMMA StrandedStep == Isolated /\ TypeInv /\ Gated /\ PhaseInv /\ RealInv /\ StrandedInv /\ [Next]_vars => StrandedInv'
<1> SUFFICES ASSUME Isolated, TypeInv, Gated, PhaseInv, RealInv, StrandedInv, [Next]_vars PROVE StrandedInv' OBVIOUS
<1>1. CASE UNCHANGED vars
  BY <1>1 DEF vars, StrandedInv, RowsOwned, RowsFinal, NoneLost, NoDeath, Landed, Carried, Row
<1>2. ASSUME NEW t \in Threads, Step(t), UNCHANGED deployment PROVE StrandedInv'
  BY <1>2, DeathCounts, RowsOwnedStep, RowsFinalStep, NoneLostStep DEF StrandedInv
<1>3. ASSUME NEW t \in Threads PROVE ~Hydrate(t) BY DEF Hydrate
<1>4. QED BY <1>1, <1>2, <1>3 DEF Next, Step

\* While nobody dies, an attempt left in "submitting" with nobody to finish it has a
\* submit row that never got its final answer.
THEOREM StrandedShows == ASSUME Isolated PROVE Spec => []StrandedIsVisible
<1>1. Init => StrandedInv
  <2> SUFFICES ASSUME Init PROVE StrandedInv OBVIOUS
  <2>1. (\A a \in Attempts : db.att[a].status = "none") /\ (\A s \in Submits : db.sub[s].status = "none")
    BY DEF Init, EmptyDb, NoRow, NoSubmit
  <2>2. QED BY <2>1 DEF StrandedInv, RowsOwned, RowsFinal, NoneLost
<1>2. StrandedInv => StrandedIsVisible
  BY DEF StrandedInv, StrandedIsVisible, NoDeath, NoneLost, Carried, Worked, SubmitPhase, Open
<1>3. QED BY <1>1, <1>2, StrandedStep, TypeCorrect, GateHolds, PhaseInit, PhaseStep, RealCorrect, PTL DEF Spec

-----------------------------------------------------------------------------
(* Cancelling stays possible.  A draft that is not approved has its request *)
(* handler; that handler gets through to the approval because nobody locks *)
(* the package of an attempt that is not approved.                         *)

Requesting == {"artifacts", "package", "approve"}
NoMessage == \A t \in Threads : th[t].pc \in Requesting \cup {"idle", "create"} => th[t].msg = None
LocksApproved == \A t \in Threads : th[t].pc \in {"putpkg", "lockpkg"} => db.att[th[t].a].approved
LocksGated ==
  \A a \in Attempts : db.pkg[a].state = "locked" => db.att[a].status # "none" /\ db.att[a].approved
DraftsHandled ==
  \A a \in Attempts : db.att[a].status = "draft" /\ ~db.att[a].approved =>
    \E t \in Threads : th[t].pc \in Requesting /\ th[t].a = a
CancelInv == NoMessage /\ LocksApproved /\ LocksGated /\ (deaths.request = 0 => DraftsHandled)

LEMMA NoMessageStep ==
  ASSUME TypeInv, NoMessage, NEW t \in Threads, Step(t)
  PROVE  NoMessage'
<1>1. th \in [Threads -> Handler] BY DEF TypeInv, TypeOK
<1>2. SUFFICES ASSUME th'[t].pc \in Requesting \cup {"idle", "create"} PROVE th'[t].msg = None
  BY StepFlow DEF NoMessage, OnlyMoves
<1>3. CASE th'[t].pc = "idle"
  <2>1. Deliver(t) => th[t].pc = "idle" /\ (th'[t] = th[t] \/ th'[t].pc = "read") BY <1>1 DEF Deliver, Idle
  <2>2. QED BY <1>3, <2>1, QueueAfter, IdleFits DEF NoMessage, Keeps, Lets, Sends
<1>4. CASE th'[t].pc # "idle"
  <2>1. th[t].pc \in {"idle", "create", "artifacts", "package"}
    BY <1>2, <1>4, StepFlow DEF Ended, Continues, Flow, Requesting
  <2>2. th[t].msg = None BY <2>1 DEF NoMessage, Requesting
  <2>3. Deliver(t) => th'[t].pc \in {th[t].pc, "read"} /\ th[t].pc = "idle" BY <1>1 DEF Deliver, Idle
  <2>4. QED BY <1>2, <1>4, <2>1, <2>2, <2>3, QueueAfter, IdleFits DEF Keeps, Lets, Sends, Requesting
<1>5. QED BY <1>3, <1>4

\* Who locks a package.
LEMMA LockAfter ==
  ASSUME Isolated, TypeInv, NEW t \in Threads, Step(t), NEW a \in Attempts,
         db.pkg[a].state # "locked", db'.pkg[a].state = "locked"
  PROVE  a = th[t].a /\ th[t].pc \in HasAttempt /\ (th[t].pc = "lockpkg" \/ db.att[a].approved)
<1> PICK b : b = th[t].a OBVIOUS
<1>1. db \in Database BY DEF TypeInv, TypeOK
<1>2. UNCHANGED db.pkg \/ Writes(t, db, db')
  <2>1. CASE Quiet(t) BY <2>1 DEF Quiet
  <2>2. CASE Notes(t) BY <1>1, <2>2 DEF Notes, CancelNoted, Database
  <2>3. CASE Commits(t) BY <2>3 DEF Commits, Commit, View
  <2>4. QED BY <2>1, <2>2, <2>3, StepWrites
<1>3. CASE UNCHANGED db.pkg BY <1>3
<1>4. ASSUME NEW c, db' = Created(db, c) PROVE UNCHANGED db.pkg BY <1>1, <1>4 DEF Created, Database
<1>5. CASE SubmitWrites(t, db, db')
  <2>1. UNCHANGED db.pkg BY <1>1, <1>5 DEF SubmitWrites, Submitted, Completed, Database
  <2>2. QED BY <1>3, <2>1
<1>6. ASSUME NEW i, db' = HookIngested(db, i) PROVE UNCHANGED db.pkg BY <1>1, <1>6 DEF HookIngested, Database
<1>7. CASE th[t].pc \in HasAttempt /\ AttemptWrites(t, b, db, db')
  <2>1. b \in Attempts /\ db.pkg[b] \in PackageRow BY <1>1, <1>7, HandlerAttempt DEF Database
  <2>2. ASSUME NEW who, db' = PackagePut(db, b, who) PROVE FALSE
    BY <1>1, <2>1, <2>2 DEF PackagePut, Database
  <2>3. CASE db' = Approved(db, b) \/ \E s \in Statuses : db' = Moved(db, b, s)
    <3>1. UNCHANGED db.pkg BY <1>1, <2>3 DEF Approved, Moved, Database
    <3>2. QED BY <1>3, <3>1
  <2>4. CASE (th[t].pc = "lockpkg" \/ db.att[b].approved) /\ db' = Locked(db, b)
    BY <1>1, <1>7, <2>1, <2>4 DEF Locked, Database
  <2>5. CASE CanQueue(db, form, b) /\ db' = Queued(db, b)
    <3>1. db'.pkg = Locked(db, b).pkg BY <1>1, <2>1, <2>5, LockedType DEF Queued, Moved, Database
    <3>2. QED BY <1>1, <1>7, <2>1, <2>5, <3>1 DEF Locked, CanQueue, CanMove, Database
  <2>6. QED BY <1>7, <2>2, <2>3, <2>4, <2>5 DEF AttemptWrites
<1>8. QED BY <1>2, <1>3, <1>4, <1>5, <1>6, <1>7 DEF Writes

LEMMA LocksStep ==
  ASSUME Isolated, TypeInv, Gated, LocksApproved, LocksGated, NEW t \in Threads, Step(t), UNCHANGED deployment
  PROVE  LocksApproved' /\ LocksGated'
<1>1. [Next]_vars BY StepIsNext
<1>2. {"putpkg", "lockpkg"} \subseteq HasAttempt /\ Reading \subseteq HasAttempt
  BY DEF HasAttempt, Pcs, Calls, Reading
<1>3. ASSUME NEW a \in Attempts, db'.pkg[a].state = "locked"
      PROVE  db'.att[a].status # "none" /\ db'.att[a].approved
  <2>1. db.att[a].status # "none" /\ db.att[a].approved
    BY <1>3, LockAfter, HandlerAttempt DEF LocksGated, LocksApproved
  <2>2. QED BY <1>1, <2>1, BornStays
<1>4. ASSUME NEW u \in Threads, th'[u].pc \in {"putpkg", "lockpkg"}
      PROVE  db'.att[th'[u].a].approved
  <2>1. CASE u # t
    <3>1. th'[u] = th[u] BY <2>1, StepFlow DEF OnlyMoves
    <3>2. th[u].a \in Attempts /\ db.att[th[u].a].status # "none" /\ db.att[th[u].a].approved
      BY <1>2, <1>4, <3>1, HandlerAttempt DEF LocksApproved
    <3>3. QED BY <1>1, <3>1, <3>2, BornStays
  <2>2. CASE u = t
    <3> PICK a : a = th[t].a OBVIOUS
    <3>1. th'[t].a = a /\ th[t].pc \in Reading \cup {"putpkg"}
      BY <1>4, <2>2, StepFlow DEF Ended, Continues, Flow, Reading
    <3>2. a \in Attempts /\ db.att[a].status # "none" BY <1>2, <3>1, HandlerAttempt
    <3>3. db.att[a].approved
      <4>1. CASE th[t].pc = "putpkg" BY <4>1 DEF LocksApproved
      <4>2. CASE th[t].pc \in Reading
        <5>1. Read(t) /\ ~Done(t) BY <1>4, <2>2, <4>2, ActionAt, Ends
        <5>2. Goto(t, "requeue") => th'[t].pc = "requeue" BY GoesOn
        <5>3. db.att[a].status = "queued" BY <1>4, <2>2, <5>1, <5>2 DEF Read
        <5>4. QED BY <3>2, <5>3 DEF Gated, Frozen, Statuses
      <4>3. QED BY <3>1, <4>1, <4>2
    <3>4. QED BY <1>1, <2>2, <3>1, <3>2, <3>3, BornStays
  <2>3. QED BY <2>1, <2>2
<1>5. QED BY <1>3, <1>4 DEF LocksApproved, LocksGated

LEMMA DraftsStep ==
  ASSUME Isolated, TypeInv, NoMessage, LocksGated, DraftsHandled, NEW t \in Threads, Step(t), UNCHANGED deployment,
         Die(t) => th[t].msg # None
  PROVE  DraftsHandled'
<1>1. SUFFICES ASSUME NEW a \in Attempts, db'.att[a].status = "draft", ~db'.att[a].approved
               PROVE  \E u \in Threads : th'[u].pc \in Requesting /\ th'[u].a = a
  BY DEF DraftsHandled
<1>2. db \in Database /\ th \in [Threads -> Handler] BY DEF TypeInv, TypeOK
<1>3. CASE db.att[a].status # "draft"
  <2>1. th[t].pc = "create" /\ db.att[a].status = "none" BY <1>1, <1>3, StatusMoves DEF AllowedFrom
  <2>2. th[t].msg = None BY <2>1 DEF NoMessage
  <2>3. CreateAttempt(t) BY <2>1, <2>2, ActionOf
  <2>4. PICK b \in Unborn : /\ db' = Created(db, b)
                           /\ th' = [th EXCEPT ![t].pc = "artifacts", ![t].a = b]
    BY <1>1, <1>3, <2>3 DEF CreateAttempt, Commit, NoCommit, View
  <2>5. a = b BY <1>1, <1>2, <1>3, <2>4, CreatedSets DEF SetStatus, Unborn
  <2>6. th'[t].pc = "artifacts" /\ th'[t].a = a BY <1>2, <2>4, <2>5 DEF Handler
  <2>7. QED BY <2>6 DEF Requesting
<1>4. CASE db.att[a].status = "draft"
  <2>1. ~db.att[a].approved BY <1>1, <1>4, StepIsNext, BornStays
  <2>2. PICK u \in Threads : th[u].pc \in Requesting /\ th[u].a = a BY <1>4, <2>1 DEF DraftsHandled
  <2>3. CASE u # t BY <2>2, <2>3, StepFlow DEF OnlyMoves
  <2>4. CASE u = t
    <3>1. ~Die(t) BY <2>2, <2>4 DEF NoMessage
    <3>2. CASE th[t].pc = "artifacts"
      <4>1. Goto(t, "package") BY <3>1, <3>2, ActionOf DEF PutArtifacts, Call
      <4>2. QED BY <2>2, <2>4, <4>1, GoesOn DEF Requesting
    <3>3. CASE th[t].pc = "package"
      <4>1. CanPutPackage(db, a) BY <2>1 DEF CanPutPackage, LocksGated
      <4>2. Goto(t, "approve") BY <2>2, <2>4, <3>1, <3>3, <4>1, ActionOf DEF PutPackage, Call, View
      <4>3. QED BY <2>2, <2>4, <4>2, GoesOn DEF Requesting
    <3>4. CASE th[t].pc = "approve"
      <4>1. CanApprove(db, a) BY <1>4 DEF CanApprove
      <4>2. db' = Approved(db, a) BY <2>2, <2>4, <3>1, <3>4, <4>1, ActionOf DEF Approve, Call, Commit, View
      <4>3. db.att[a] \in AttemptRow BY <1>2 DEF Database
      <4>4. [db.att[a] EXCEPT !.approved = TRUE].approved BY <4>3, Zenon DEF AttemptRow
      <4>5. db'.att[a] = [db.att[a] EXCEPT !.approved = TRUE] BY <1>2, <4>2 DEF Approved, Database
      <4>6. QED BY <1>1, <4>4, <4>5
    <3>5. QED BY <2>2, <2>4, <3>2, <3>3, <3>4 DEF Requesting
  <2>5. QED BY <2>3, <2>4
<1>5. QED BY <1>3, <1>4

LEMMA CancelStep == Isolated /\ TypeInv /\ Gated /\ CancelInv /\ [Next]_vars => CancelInv'
<1> SUFFICES ASSUME Isolated, TypeInv, Gated, CancelInv, [Next]_vars PROVE CancelInv' OBVIOUS
<1>1. CASE UNCHANGED vars
  BY <1>1 DEF vars, CancelInv, NoMessage, LocksApproved, LocksGated, DraftsHandled
<1>2. ASSUME NEW t \in Threads, Step(t), UNCHANGED deployment PROVE CancelInv'
  BY <1>2, DeathCounts, NoMessageStep, LocksStep, DraftsStep DEF CancelInv
<1>3. ASSUME NEW t \in Threads PROVE ~Hydrate(t) BY DEF Hydrate
<1>4. QED BY <1>1, <1>2, <1>3 DEF Next, Step

\* Until its submission starts an attempt nobody works on can be cancelled, while no
\* request handler dies.
THEOREM CancelPossible == ASSUME Isolated PROVE Spec => []Cancellable
<1>1. Init => CancelInv
  <2> SUFFICES ASSUME Init PROVE CancelInv OBVIOUS
  <2>1. /\ \A a \in Attempts : db.att[a].status = "none" /\ db.pkg[a].state = "none"
        /\ \A t \in Threads : th[t].pc = "idle" /\ th[t].msg = None
    BY IdleFits DEF Init, EmptyDb, NoRow, NoPackage
  <2>2. QED BY <2>1 DEF CancelInv, NoMessage, LocksApproved, LocksGated, DraftsHandled
<1>2. Gated /\ CancelInv => Cancellable
  <2> SUFFICES ASSUME Gated, CancelInv, deaths.request = 0, NEW a \in Attempts,
                      db.att[a].status \in {"draft", "queued"}, ~Worked(a)
               PROVE  CanMove(db, a, "failed")
    BY DEF Cancellable
  <2>1. \A t \in Threads : th[t].pc \in Requesting => th[t].a # a BY DEF Worked, Requesting
  <2>2. db.att[a].approved BY <2>1 DEF CancelInv, DraftsHandled, Gated, Frozen, Statuses
  <2>3. QED BY <2>2 DEF CanMove, AllowedFrom
<1>3. QED BY <1>1, <1>2, CancelStep, TypeCorrect, GateHolds, PTL DEF Spec

-----------------------------------------------------------------------------
(* The retry is scheduled.  A rate-limited attempt has a message that will   *)
(* still be delivered, a handler that found it rate-limited or is sending  *)
(* that message, or a row that shows that the retries ran out.             *)

HeldFits ==
  /\ \A t \in Threads : th[t].msg # None => th[t].msg \in Messages /\ queue[th[t].msg].held
  /\ \A t, u \in Threads : t # u /\ th[t].msg # None => th[t].msg # th[u].msg
RetryRow(t) ==
  /\ th[t].pc \in {"post", "complete", "limit"} =>
       th[t].sid \in Submits /\ db.sub[th[t].sid].owner = th[t].a /\ db.sub[th[t].sid].count = th[t].count
  /\ th[t].pc = "limit" => db.sub[th[t].sid].status = "retrying"
Retrying(t, a) == th[t].pc \in {"resend", "read", "requeue"} /\ th[t].a = a
Waiting(m, a)  == queue[m].a = a /\ ~queue[m].held /\ queue[m].count < PoisonLimit
Exhausted(s, a) == db.sub[s].owner = a /\ db.sub[s].status = "retrying" /\ db.sub[s].count >= PoisonLimit
Scheduled(a) == \/ \E t \in Threads : Retrying(t, a)
                \/ \E m \in Messages : Waiting(m, a)
                \/ \E s \in Submits : Exhausted(s, a)
RetryInv ==
  /\ HeldFits /\ \A t \in Threads : RetryRow(t)
  /\ NoDeath => \A a \in Attempts : db.att[a].status = "rate_limited" => Scheduled(a)

\* The message a handler was given stays held for it until it lets it go.
LEMMA HeldStep ==
  ASSUME TypeInv, HeldFits, NEW t \in Threads, Step(t)
  PROVE  HeldFits'
<1>1. th \in [Threads -> Handler] /\ queue \in [Messages -> Message] BY DEF TypeInv, TypeOK
<1>2. \A u \in Threads \ {t} : th'[u] = th[u] BY StepFlow DEF OnlyMoves
<1>3. CASE Keeps(t) BY <1>2, <1>3 DEF Keeps, HeldFits
<1>4. CASE Lets(t) BY <1>2, <1>4, IdleFits DEF Lets, HeldFits
<1>5. CASE Sends(t)
  <2>1. \A m \in Messages : queue[m].held => queue'[m] = queue[m] BY <1>1, <1>5 DEF Sends, Sent, NoMsg
  <2>2. th'[t].msg \in {None, th[t].msg} BY <1>5 DEF Sends
  <2>3. QED BY <1>2, <2>1, <2>2 DEF HeldFits
<1>6. CASE Deliver(t)
  <2>1. PICK m \in Messages :
          /\ ~queue[m].held
          /\ \/ queue' = [queue EXCEPT ![m] = NoMsg] /\ UNCHANGED th
             \/ /\ queue' = [queue EXCEPT ![m].count = queue[m].count + 1, ![m].held = TRUE]
                /\ th' = [th EXCEPT ![t] = [Idle EXCEPT !.pc = "read", !.a = queue[m].a,
                                                        !.count = queue[m].count + 1, !.msg = m]]
    BY <1>6 DEF Deliver
  <2>2. \A n \in Messages \ {m} : queue'[n] = queue[n] BY <1>1, <2>1
  <2>3. \A u \in Threads : th[u].msg # m BY <2>1, NoneIsNoMessage DEF HeldFits
  <2>4. CASE UNCHANGED th BY <2>2, <2>3, <2>4 DEF HeldFits
  <2>5. CASE /\ queue' = [queue EXCEPT ![m].count = queue[m].count + 1, ![m].held = TRUE]
             /\ th' = [th EXCEPT ![t] = [Idle EXCEPT !.pc = "read", !.a = queue[m].a,
                                                     !.count = queue[m].count + 1, !.msg = m]]
    <3>1. th'[t].msg = m BY <1>1, <2>5 DEF Idle
    <3>2. queue'[m].held BY <1>1, <2>5, Zenon DEF Message
    <3>3. QED BY <1>2, <2>2, <2>3, <3>1, <3>2 DEF HeldFits
  <2>6. QED BY <2>1, <2>4, <2>5
<1>7. QED BY <1>3, <1>4, <1>5, <1>6, QueueAfter

LEMMA RetryRowStep ==
  ASSUME Isolated, TypeInv, RealInv, NEW t \in Threads, Step(t), NEW u \in Threads, \A w \in Threads : RetryRow(w)
  PROVE  RetryRow(u)'
<1>1. th \in [Threads -> Handler] /\ th[t] \in Handler /\ db \in Database BY DEF TypeInv, TypeOK
<1>2. CASE u # t
  <2>1. th'[u] = th[u] /\ RetryRow(u) BY <1>2, StepFlow DEF OnlyMoves
  <2>2. CASE th[u].pc \notin {"post", "complete", "limit"} BY <2>1, <2>2 DEF RetryRow
  <2>3. CASE th[u].pc \in {"post", "complete", "limit"}
    <3>1. th[u].sid \in Submits /\ db.sub[th[u].sid].status # "none"
          /\ (th[t].pc = "complete" => th[u].sid # th[t].sid)
      BY <1>2, <2>1, <2>3 DEF RetryRow, RealInv, RowPcs
    <3>2. db'.sub[th[u].sid] = db.sub[th[u].sid] BY <3>1, OtherRows
    <3>3. QED BY <2>1, <3>2 DEF RetryRow
  <2>4. QED BY <2>2, <2>3
<1>3. CASE u = t /\ th'[t].pc = "post"
  <2>1. th[t].pc = "mksub" BY <1>3, StepFlow DEF Ended, Continues, Flow
  <2>2. CreateSubmit(t) /\ ~Raise(t) BY <1>3, <2>1, ActionAt, Ends
  <2>3. PICK s \in Submits : /\ db' = Submitted(db, s, th[t].a, th[t].count)
                             /\ th' = [th EXCEPT ![t].pc = "post", ![t].sid = s]
    BY <2>2 DEF CreateSubmit, Commit, View
  <2>4. th'[t].sid = s /\ th'[t].a = th[t].a /\ th'[t].count = th[t].count BY <1>1, <2>3 DEF Handler
  <2>5. db'.sub[s].owner = th[t].a /\ db'.sub[s].count = th[t].count BY <1>1, <2>3 DEF Submitted, Database
  <2>6. QED BY <1>3, <2>4, <2>5 DEF RetryRow
<1>4. CASE u = t /\ th'[t].pc = "complete"
  <2>1. th[t].pc = "post" BY <1>4, StepFlow DEF Ended, Continues, Flow
  <2>2. Post(t) /\ ~Raise(t) BY <1>4, <2>1, ActionAt, Ends
  <2>3. PICK out, n : Answered(t, out, n) BY <2>2 DEF Post
  <2>4. th'[t].sid = th[t].sid /\ th'[t].a = th[t].a /\ th'[t].count = th[t].count BY <1>1, <2>3 DEF Answered, Handler
  <2>5. UNCHANGED db BY <2>2 DEF Post
  <2>6. QED BY <1>4, <2>1, <2>4, <2>5 DEF RetryRow
<1>5. CASE u = t /\ th'[t].pc = "limit"
  <2> PICK s : s = th[t].sid OBVIOUS
  <2>1. th[t].pc = "complete" BY <1>5, StepFlow DEF Ended, Continues, Flow
  <2>2. Complete(t) /\ ~Raise(t) /\ ~Done(t) BY <1>5, <2>1, ActionAt, Ends
  <2>3. Goto(t, "submitted") => th'[t].pc = "submitted" BY GoesOn
  <2>4. th[t].out = "retry" BY <1>5, <2>2, <2>3 DEF Complete, Call, LastCall
  <2>5. Goto(t, "limit") /\ db' = Completed(db, s, "retrying", th[t].app)
    BY <2>2, <2>4 DEF Complete, Call, Commit, View, SubmitStatus
  <2>6. th'[t].sid = s /\ th'[t].a = th[t].a /\ th'[t].count = th[t].count BY <1>1, <2>5 DEF Goto, Handler
  <2>7. s \in Submits /\ db.sub[s] \in SubmitRow BY <1>1, <2>1, CompleteArguments DEF Database
  <2>8. db'.sub[s] = CompletedRow(db.sub[s], "retrying", th[t].app) BY <1>1, <2>5, <2>7 DEF Completed, Database
  <2>9. db'.sub[s].status = "retrying" /\ db'.sub[s].owner = db.sub[s].owner /\ db'.sub[s].count = db.sub[s].count
    BY <2>7, <2>8 DEF CompletedRow, SubmitRow
  <2>10. QED BY <1>5, <2>1, <2>6, <2>7, <2>9 DEF RetryRow
<1>6. CASE u = t /\ th'[t].pc \notin {"post", "complete", "limit"} BY <1>6 DEF RetryRow
<1>7. QED BY <1>2, <1>3, <1>4, <1>5, <1>6

\* The step that limits an attempt schedules the retry, or leaves the exhausted row.
LEMMA ScheduleMade ==
  ASSUME Isolated, TypeInv, NEW t \in Threads, Step(t), ~Die(t), RetryRow(t), NEW a \in Attempts,
         db.att[a].status # "rate_limited", db'.att[a].status = "rate_limited"
  PROVE  Scheduled(a)'
<1> PICK s : s = th[t].sid OBVIOUS
<1>1. th[t].pc = "limit" /\ a = th[t].a BY StatusMoves DEF Transitions
<1>2. RateLimit(t) /\ ~UNCHANGED db BY <1>1, ActionOf
<1>3. s \in Submits /\ db.sub[s].owner = a /\ db.sub[s].count = th[t].count /\ db.sub[s].status = "retrying"
  BY <1>1 DEF RetryRow
<1>4. th[t].count \in Int /\ PoisonLimit \in Int
  BY LimitsAssumption, CountsAssumption DEF TypeInv, TypeOK, Handler
<1>5. CASE th[t].count < PoisonLimit
  <2>1. Goto(t, "resend") BY <1>2, <1>5 DEF RateLimit, Call, NoCommit
  <2>2. th'[t].pc = "resend" /\ th'[t].a = a BY <1>1, <2>1, GoesOn
  <2>3. QED BY <2>2 DEF Scheduled, Retrying
<1>6. CASE ~(th[t].count < PoisonLimit)
  <2>1. db'.sub[s] = db.sub[s] BY <1>1, <1>3, OtherRows
  <2>2. db'.sub[s].count >= PoisonLimit BY <1>3, <1>4, <1>6, <2>1
  <2>3. QED BY <1>3, <2>1, <2>2 DEF Scheduled, Exhausted
<1>7. QED BY <1>5, <1>6

LEMMA HandlerKeepsSchedule ==
  ASSUME Isolated, TypeInv, Gated, NEW t \in Threads, Step(t), ~Die(t), NEW a \in Attempts, Retrying(t, a),
         db.att[a].status = "rate_limited", db'.att[a].status = "rate_limited"
  PROVE  Scheduled(a)'
<1>1. th \in [Threads -> Handler] /\ queue \in [Messages -> Message] /\ db \in Database BY DEF TypeInv, TypeOK
<1>2. CASE th[t].pc = "read"
  <2>1. Goto(t, "requeue") BY <1>2, ActionOf DEF Retrying, Read, Reading
  <2>2. QED BY <2>1, GoesOn DEF Retrying, Scheduled
<1>3. CASE th[t].pc = "requeue"
  <2>1. CanMove(db, a, "queued") BY DEF CanMove, AllowedFrom, Gated, Frozen, Statuses
  <2>2. db' = Moved(db, a, "queued") BY <1>3, <2>1, ActionOf DEF Retrying, Requeue, Commit, View
  <2>3. db'.att[a].status = "queued" BY <1>1, <2>2, MovedSets DEF SetStatus, Statuses
  <2>4. QED BY <2>3
<1>4. CASE th[t].pc = "resend"
  <2>1. Resend(t) BY <1>4, ActionOf
  <2>2. CASE Azure
    <3>1. PICK m \in Messages : queue'[m] = [a |-> a, count |-> 0, held |-> FALSE]
      BY <1>1, <2>1, <2>2 DEF Resend, Sent, Retrying
    <3>2. 0 < PoisonLimit BY LimitsAssumption
    <3>3. QED BY <3>1, <3>2 DEF Waiting, Scheduled
  <2>3. CASE ~Azure
    <3>1. th'[t].pc = "read" /\ th'[t].a = a BY <1>1, <2>1, <2>3 DEF Resend, Retrying, Idle
    <3>2. QED BY <3>1 DEF Retrying, Scheduled
  <2>4. QED BY <2>2, <2>3
<1>5. QED BY <1>2, <1>3, <1>4 DEF Retrying

\* A message that is still to be delivered waits, or is delivered to a handler.
LEMMA MessageKeepsSchedule ==
  ASSUME TypeInv, HeldFits, NEW t \in Threads, Step(t), NEW a \in Attempts, NEW m \in Messages, Waiting(m, a)
  PROVE  Scheduled(a)'
<1>1. th \in [Threads -> Handler] /\ queue \in [Messages -> Message] /\ PoisonLimit \in Int
  BY LimitsAssumption DEF TypeInv, TypeOK
<1>2. CASE queue'[m] = queue[m] BY <1>2 DEF Waiting, Scheduled
<1>3. m # th[t].msg BY NoneIsNoMessage DEF HeldFits, Waiting
<1>4. CASE Keeps(t) BY <1>2, <1>4 DEF Keeps
<1>5. CASE Lets(t) BY <1>2, <1>3, <1>5 DEF Lets
<1>6. CASE Sends(t)
  <2>1. queue[m] # NoMsg BY NoneAssumption DEF Waiting, NoMsg
  <2>2. queue'[m] = queue[m] BY <1>1, <1>6, <2>1 DEF Sends, Sent
  <2>3. QED BY <1>2, <2>2
<1>7. CASE Deliver(t)
  <2>1. PICK n \in Messages :
          \/ queue[n].count + 1 > PoisonLimit /\ queue' = [queue EXCEPT ![n] = NoMsg]
          \/ /\ queue' = [queue EXCEPT ![n].count = queue[n].count + 1, ![n].held = TRUE]
             /\ th' = [th EXCEPT ![t] = [Idle EXCEPT !.pc = "read", !.a = queue[n].a,
                                                     !.count = queue[n].count + 1, !.msg = n]]
    BY <1>7 DEF Deliver
  <2>2. CASE n # m BY <1>1, <1>2, <2>1, <2>2
  <2>3. CASE n = m
    <3>1. queue[m].count \in Int /\ queue[m].count < PoisonLimit
      BY <1>1, CountsAssumption DEF Message, Waiting
    <3>2. ~(queue[m].count + 1 > PoisonLimit) BY <1>1, <3>1
    <3>3. th' = [th EXCEPT ![t] = [Idle EXCEPT !.pc = "read", !.a = queue[m].a,
                                               !.count = queue[m].count + 1, !.msg = m]]
      BY <2>1, <2>3, <3>2
    <3>4. th'[t] = [Idle EXCEPT !.pc = "read", !.a = queue[m].a, !.count = queue[m].count + 1, !.msg = m]
      BY <1>1, <3>3
    <3>5. th'[t].pc = "read" /\ th'[t].a = queue[m].a BY <3>4 DEF Idle
    <3>6. QED BY <3>5 DEF Waiting, Retrying, Scheduled
  <2>4. QED BY <2>2, <2>3
<1>8. QED BY <1>4, <1>5, <1>6, <1>7, QueueAfter

LEMMA ScheduleStep ==
  ASSUME Isolated, TypeInv, Gated, RealInv, RetryInv, NoDeath, NEW t \in Threads, Step(t), ~Die(t), NEW a \in Attempts,
         db'.att[a].status = "rate_limited"
  PROVE  Scheduled(a)'
<1>1. CASE db.att[a].status # "rate_limited" BY <1>1, ScheduleMade DEF RetryInv
<1>2. ASSUME NEW u \in Threads, Retrying(u, a), db.att[a].status = "rate_limited" PROVE Scheduled(a)'
  <2>1. CASE u = t BY <1>2, <2>1, HandlerKeepsSchedule
  <2>2. CASE u # t BY <1>2, <2>2, StepFlow DEF OnlyMoves, Retrying, Scheduled
  <2>3. QED BY <2>1, <2>2
<1>3. ASSUME NEW s \in Submits, Exhausted(s, a) PROVE Scheduled(a)'
  <2>1. th[t].pc = "complete" => s # th[t].sid BY <1>3 DEF Exhausted, RealInv, RowPcs
  <2>2. db'.sub[s] = db.sub[s] BY <1>3, <2>1, OtherRows DEF Exhausted
  <2>3. QED BY <1>3, <2>2 DEF Exhausted, Scheduled
<1>4. QED BY <1>1, <1>2, <1>3, MessageKeepsSchedule DEF RetryInv, Scheduled

LEMMA RetryStep == Isolated /\ TypeInv /\ Gated /\ RealInv /\ RetryInv /\ [Next]_vars => RetryInv'
<1> SUFFICES ASSUME Isolated, TypeInv, Gated, RealInv, RetryInv, [Next]_vars PROVE RetryInv' OBVIOUS
<1>1. CASE UNCHANGED vars
  BY <1>1 DEF vars, RetryInv, HeldFits, RetryRow, NoDeath, Scheduled, Retrying, Waiting, Exhausted
<1>2. ASSUME NEW t \in Threads, Step(t) PROVE RetryInv'
  BY <1>2, DeathCounts, HeldStep, RetryRowStep, ScheduleStep DEF RetryInv
<1>3. ASSUME NEW t \in Threads PROVE ~Hydrate(t) BY DEF Hydrate
<1>4. QED BY <1>1, <1>2, <1>3 DEF Next, Step

\* While nobody dies, a rate-limited attempt has a message or a handler on the way to
\* it, unless the retries ran out.
THEOREM RetryComes == ASSUME Isolated PROVE Spec => []RetryScheduled
<1>1. Init => RetryInv
  <2> SUFFICES ASSUME Init PROVE RetryInv OBVIOUS
  <2>1. (\A a \in Attempts : db.att[a].status = "none") /\ \A t \in Threads : th[t].pc = "idle" /\ th[t].msg = None
    BY IdleFits DEF Init, EmptyDb, NoRow
  <2>2. QED BY <2>1 DEF RetryInv, HeldFits, RetryRow
<1>2. RetryInv => RetryScheduled
  <2> SUFFICES ASSUME RetryInv, NoDeath, NEW a \in Attempts, Scheduled(a)
               PROVE  Worked(a) \/ \E s \in Submits : Exhausted(s, a)
    BY DEF RetryInv, RetryScheduled, NoDeath, Exhausted
  <2>1. QED BY DEF Scheduled, Retrying, Waiting, Worked
<1>3. QED BY <1>1, <1>2, RetryStep, TypeCorrect, GateHolds, RealCorrect, PTL DEF Spec

=============================================================================
