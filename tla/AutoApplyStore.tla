--------------------------- MODULE AutoApplyStore ---------------------------
(***************************************************************************)
(* What the Auto-Apply store promises (the AutoApplyStore protocol of      *)
(* backend/app/auto_apply/store.py): callers may make any call at any      *)
(* time, and each call is one rule applied to the database as a whole.     *)
(* AutoApply implements it when its store calls are atomic.                *)
(***************************************************************************)
EXTENDS AutoApplyRules

CONSTANT Bodies   \* the requests users post
ASSUME BodiesAssumption == Bodies \subseteq {f \in Form : f.target # NoTarget}

VARIABLES
  db,      \* the store
  form     \* immutable columns of the attempts
storeVars == <<db, form>>

StoreInit == db = EmptyDb /\ form = [a \in Attempts |-> NoForm]

Insert(a, f) ==
  /\ db.att[a].status = "none" /\ CanCreate(db, form, f.target)
  /\ db' = Created(db, a) /\ form' = [form EXCEPT ![a] = f]
Put(a, who)  == CanPutPackage(db, a) /\ db' = PackagePut(db, a, who)
Lock(a)      == CanLock(db, a) /\ db' = Locked(db, a)
Sign(a)      == CanApprove(db, a) /\ db' = Approved(db, a)
LockQueue(a) == CanQueue(db, form, a) /\ db' = Queued(db, a)
Move(a, s)   == CanMove(db, a, s) /\ db' = Moved(db, a, s)
\* The service writes the error column of the in-memory store by itself.
NoteCancel(a) == db.att[a].status # "none" /\ db' = CancelNoted(db, a)
OpenSubmit(a, s, n) ==
  db.sub[s].status = "none" /\ CanSubmit(db, a, n) /\ db' = Submitted(db, s, a, n)
CloseSubmit(s, status, n) ==
  /\ db.sub[s].owner \in Attempts /\ db.sub[s].status # "none"
  /\ CanComplete(db, s, n) /\ db' = Completed(db, s, status, n)
Ingest(i) == db' = HookIngested(db, i)

AttemptCall(a) ==
  \/ \E who \in {"request", "worker"} : Put(a, who)
  \/ Lock(a) \/ Sign(a) \/ LockQueue(a) \/ NoteCancel(a)
  \/ \E s \in Statuses : Move(a, s)
  \/ \E s \in Submits, n \in 0 .. MaxCount : OpenSubmit(a, s, n)
SubmitCall == \E s \in Submits, status \in SubmitOutcomes, n \in 0 .. MaxApps : CloseSubmit(s, status, n)

StoreNext ==
  \/ \E a \in Attempts, f \in Bodies : Insert(a, f)
  \/ /\ (\E a \in Attempts : AttemptCall(a)) \/ SubmitCall \/ (\E i \in AppIds : Ingest(i))
     /\ UNCHANGED form

StoreSpec == StoreInit /\ [][StoreNext]_storeVars

-----------------------------------------------------------------------------
\* Two attempts of the user that are both in flight never point at the same
\* posting (create_attempt's rule, which checks and inserts in one call).
InFlightUnique ==
  \A a, b \in Attempts :
    (a # b /\ {db.att[a].status, db.att[b].status} \subseteq InFlight)
      => ~Clash(form[a].target, form[b].target)

\* submit_requests.idempotency_key is unique per vendor.
SubmitKeyUnique ==
  \A r, s \in Submits :
    (r # s /\ db.sub[r].status # "none" /\ db.sub[r].owner = db.sub[s].owner)
      => db.sub[r].count # db.sub[s].count

\* A locked package is never rewritten or unlocked.
PackageImmutable ==
  [][\A a \in Attempts : db.pkg[a].state = "locked" => db'.pkg[a] = db.pkg[a]]_storeVars

\* A terminal attempt never comes back.
TerminalIsFinal ==
  [][\A a \in Attempts : db.att[a].status \in TerminalAttempt => db'.att[a].status = db.att[a].status]_storeVars
=============================================================================
