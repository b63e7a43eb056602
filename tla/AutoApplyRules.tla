--------------------------- MODULE AutoApplyRules ---------------------------
(***************************************************************************)
(* The rule engine of the Auto-Apply store                                 *)
(* (backend/app/auto_apply/memory.py, constants.py).                       *)
(*                                                                         *)
(* Every operation of the store is a condition under which the call        *)
(* returns (when it is false the call raises; only queue has written       *)
(* something by then) and the database value it leaves.  The Cosmos store  *)
(* runs the same rules on a copy of the database, so the same operators    *)
(* serve both stores: module AutoApply says to which value v they apply.   *)
(*                                                                         *)
(* A database value has four tables.  The columns of an attempt that are   *)
(* written once, when it is inserted, are kept apart in `form', which no   *)
(* later write changes.  The audit trail (status_events), resume variants, *)
(* cover letters and vendor field mappings are abstracted away; of the     *)
(* autofill values only "a required one is blank" is kept (form.blank).    *)
(*                                                                         *)
(* Operators marked "Mutant" are not used: each is a plausible bug in the  *)
(* definition that follows it, and the properties must notice it.          *)
(***************************************************************************)
EXTENDS Integers, FiniteSets

CONSTANTS
  Attempts,   \* ids of auto_apply_attempts rows
  Submits,    \* ids of submit_requests rows
  MaxCount,   \* bound: largest dequeue count a handler can carry
  MaxApps,    \* bound: applications the vendor accepts for one attempt
  Jobs, Urls, \* source job ids and posting URLs
  None        \* the null value

ASSUME CountsAssumption == MaxCount \in Nat \ {0} /\ MaxApps \in Nat \ {0}
ASSUME NoneAssumption == None \notin Attempts \cup Submits \cup Jobs \cup Urls

\* vendor_application_id values: the vendor's n-th application for an attempt.
AppIds == Attempts \X (1 .. MaxApps)

\* What a request points at: a job id, a posting URL, or both.
Targets == [job: Jobs \cup {None}, url: Urls \cup {None}]
NoTarget == [job |-> None, url |-> None]

\* same_job or same_url in create_attempt.
Clash(x, y) == \/ x.job # None /\ x.job = y.job
               \/ x.url # None /\ x.url = y.url

\* Immutable columns: target, mode = manual_package, a blank required answer.
Form   == [target: Targets, manual: BOOLEAN, blank: BOOLEAN]
NoForm == [target |-> NoTarget, manual |-> FALSE, blank |-> FALSE]

Statuses == {"draft", "queued", "submitting", "submitted", "succeeded",
             "failed", "needs_review", "rate_limited"}
TerminalAttempt == {"succeeded", "failed"}
InFlight == Statuses \ TerminalAttempt

\* ALLOWED_TRANSITIONS
AllowedFrom(s) ==
  CASE s = "draft"        -> {"queued", "failed"}
    [] s = "queued"       -> {"submitting", "failed", "needs_review"}
    [] s = "submitting"   -> {"submitted", "failed", "needs_review", "rate_limited"}
    [] s = "submitted"    -> {"succeeded", "failed", "needs_review"}
    [] s = "rate_limited" -> {"queued", "submitting", "failed"}
    [] s = "needs_review" -> {"queued", "failed", "submitted"}
    [] OTHER              -> {}

AttemptRow == [status: Statuses \cup {"none"}, approved: BOOLEAN,
               error: {"none", "cancelled", "vendor"}]
NoRow      == [status |-> "none", approved |-> FALSE, error |-> "none"]

\* `built' says who wrote the content of the package last.
PackageRow == [state: {"none", "open", "locked"}, built: {"none", "request", "worker"}]
NoPackage  == [state |-> "none", built |-> "none"]

\* idempotency_key is "{owner}:{vendor}:{count}"; `app' is the ordinal of the
\* vendor_application_id, 0 while none is linked.
SubmitRow == [owner: Attempts \cup {None}, count: 0 .. MaxCount, app: 0 .. MaxApps,
              status: {"none", "queued", "retrying", "failed", "succeeded"}]
NoSubmit  == [owner |-> None, count |-> 0, app |-> 0, status |-> "none"]

\* webhook_callbacks by dedupe key (one event per application): {} before the
\* callback arrived, {a} when it was linked to a, {None} when it was not linked.
Database == [att: [Attempts -> AttemptRow], pkg: [Attempts -> PackageRow],
             sub: [Submits -> SubmitRow], hook: [AppIds -> SUBSET (Attempts \cup {None})]]
EmptyDb  == [att  |-> [a \in Attempts |-> NoRow], pkg |-> [a \in Attempts |-> NoPackage],
             sub  |-> [s \in Submits |-> NoSubmit], hook |-> [i \in AppIds |-> {}]]

-----------------------------------------------------------------------------
\* create_attempt: no in-flight attempt of the user shares the job or the URL.
\* Mutant: a draft does not count yet.
CanCreateBesideDrafts(v, form, target) ==
  \A b \in Attempts : v.att[b].status \in InFlight \ {"draft"} => ~Clash(form[b].target, target)
CanCreate(v, form, target) ==
  \A b \in Attempts : v.att[b].status \in InFlight => ~Clash(form[b].target, target)
Created(v, a) == [v EXCEPT !.att[a] = [NoRow EXCEPT !.status = "draft"]]

\* put_package, by the request handler or by the manual path of the worker.
\* Mutant: the lock is not looked at.
CanAlwaysPutPackage(v, a) == v.att[a].status # "none"
CanPutPackage(v, a) == v.pkg[a].state # "locked"
PackagePut(v, a, who) == [v EXCEPT !.pkg[a] = [state |-> "open", built |-> who]]

\* lock_package raises when there is no package.
CanLock(v, a) == v.pkg[a].state # "none"
Locked(v, a) == [v EXCEPT !.pkg[a].state = IF @ = "none" THEN @ ELSE "locked"]

CanApprove(v, a) == v.att[a].status = "draft"
Approved(v, a) == [v EXCEPT !.att[a].approved = TRUE]

\* transition: the approval gate, then the table.
\* Mutant: any transition is allowed.
CanAlwaysMove(v, a, status) == v.att[a].approved
CanMove(v, a, status) == v.att[a].approved /\ status \in AllowedFrom(v.att[a].status)
Moved(v, a, status) == [v EXCEPT !.att[a].status = status]

\* queue: approved, no required answer missing, and the package gets locked.
CanQueue(v, form, a) == CanMove(v, a, "queued") /\ ~form[a].blank
\* Mutant: queue forgets to lock the package.
QueuedUnlocked(v, a) == Moved(v, a, "queued")
Queued(v, a) == Moved(Locked(v, a), a, "queued")
\* The lock precedes the transition: when that raises, the in-memory store keeps it.
QueueRefused(v, form, a) == IF v.att[a].approved /\ ~form[a].blank THEN Locked(v, a) ELSE v

\* cancel writes the error column of the in-memory store directly.
CancelNoted(v, a) == [v EXCEPT !.att[a].error = "cancelled"]

\* create_submit_request: the idempotency key is new for the vendor.
CanSubmit(v, a, count) ==
  \A s \in Submits : v.sub[s].status # "none" => <<v.sub[s].owner, v.sub[s].count>> # <<a, count>>
Submitted(v, s, a, count) ==
  [v EXCEPT !.sub[s] = [owner |-> a, count |-> count, app |-> 0, status |-> "queued"]]

SubmitOutcomes == {"retrying", "failed", "succeeded"}
\* complete_submit: no other row of the vendor is linked to the application.
CanComplete(v, s, app) ==
  LET id == IF app = 0 THEN v.sub[s].app ELSE app
  IN id # 0 => \A r \in Submits \ {s} : <<v.sub[r].owner, v.sub[r].app>> # <<v.sub[s].owner, id>>
\* Mutant: the application id is dropped.
CompletedUnlinked(row, status, app) == [row EXCEPT !.status = status]
CompletedRow(row, status, app) ==
  [row EXCEPT !.status = status, !.app = IF app = 0 THEN @ ELSE app]
\* Mutant: the attempt keeps its status.
FailedRowOpen(row) == [row EXCEPT !.error = "vendor"]
FailedRow(row) ==
  [row EXCEPT !.error = "vendor", !.status = IF "failed" \in AllowedFrom(@) THEN "failed" ELSE @]
Completed(v, s, status, app) ==
  LET a == v.sub[s].owner
      u == [v EXCEPT !.sub[s] = CompletedRow(v.sub[s], status, app)]
  IN IF status = "failed" THEN [u EXCEPT !.att[a] = FailedRow(v.att[a])] ELSE u

\* ingest_webhook: a known dedupe key is returned as it is; a new callback is
\* linked to the attempt of the submit that holds the application, if any.
Linkable(v, i) == {a \in Attempts : \E s \in Submits : v.sub[s].owner = a /\ <<a, v.sub[s].app>> = i}
HookIngested(v, i) ==
  IF v.hook[i] # {} THEN v
  ELSE [v EXCEPT !.hook[i] = IF Linkable(v, i) = {} THEN {None} ELSE Linkable(v, i)]

\* _persist_working: every row of the working copy overwrites the row stored
\* under its id; rows the copy does not know are left alone. A callback is stored
\* once: the container of webhook_callbacks refuses a second row for a dedupe key.
Overlay(db, v) ==
  [att  |-> [a \in Attempts |-> IF v.att[a].status = "none" THEN db.att[a] ELSE v.att[a]],
   pkg  |-> [a \in Attempts |-> IF v.pkg[a].state = "none" THEN db.pkg[a] ELSE v.pkg[a]],
   sub  |-> [s \in Submits  |-> IF v.sub[s].status = "none" THEN db.sub[s] ELSE v.sub[s]],
   hook |-> [i \in AppIds   |-> IF db.hook[i] = {} THEN v.hook[i] ELSE db.hook[i]]]
\* What is written before the container of submit_requests refuses a new row, whose
\* key another row has: attempts, packages, and the submits that the copy knew.
Interrupted(v) == [v EXCEPT !.hook = EmptyDb.hook]
=============================================================================
