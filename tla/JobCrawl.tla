------------------------------ MODULE JobCrawl ------------------------------
(***************************************************************************)
(* Crawling the job boards of tenants (backend/app/job_sources): a run     *)
(* reads the listing of a board page by page, sends a job-fetch message    *)
(* for each posting, and closes the postings that have been missing;       *)
(* workers fetch the postings, file them, and count; the one whose count   *)
(* completes the run ends it.                                              *)
(*                                                                         *)
(* Messages are delivered at least once: the host retries a handler that   *)
(* raised or died, MaxDeliver times in all.  Handlers interleave at every  *)
(* store call that others can tell apart.                                  *)
(*                                                                         *)
(* A store call is one step here: that is the contract of JobSourceStore,  *)
(* which CosmosJobSourceStore keeps while no two calls overlap in time.    *)
(* JobOverlap is this module with calls that do.                           *)
(***************************************************************************)
EXTENDS Naturals, FiniteSets

CONSTANTS
  Tenants, Postings,
  Lever,       \* the tenants on Lever; the others are on Greenhouse
  LastPage, PageOf,  \* the page of the board that lists each posting
  MaxPages,    \* MAX_PAGES: pages read by one delivery
  Newcomers,   \* boards that nobody has connected yet
  Refiled,     \* the postings that the last run before the start may have filed again
  MaxRuns,     \* bound: runs
  MaxDeliver,  \* maxDequeueCount of the host
  MaxWorkers,  \* bound: job-fetch handlers at work at a time
  MaxEvents    \* bound: requests of users, crawls that come due, handlers that die

ASSUME BoardAssumption == /\ LastPage \in Nat \ {0} /\ PageOf \in [Postings -> 1 .. LastPage]
                          /\ Lever \subseteq Tenants /\ IsFiniteSet(Postings)
                          /\ Newcomers \subseteq Tenants /\ Refiled \subseteq SUBSET Postings
                          /\ MaxPages \in Nat \ {0, 1}
ASSUME CrawlBounds ==
  {MaxRuns, MaxDeliver, MaxWorkers, MaxEvents} \subseteq Nat

VARIABLES
  tenants,  \* source_tenants, with the schedule of each
  cursor,   \* fetch_cursors: the pages read so far, 0 for None
  open,     \* the postings whose raw row is current
  runs,     \* source_fetch_runs
  msg,      \* the crawl-runs message of each run
  crawl,    \* the handler of that message
  fetch,    \* job-fetch: how many copies of each message are at each stage
  adding,   \* the handler of create_tenant
    \* external: what each board lists
  budget,   \* how many events are left
  deaths,   \* history: handlers that died half-way
  fallen,   \* history: those that had the message of a run and a posting
  outrun    \* history: runs whose fetches had all been counted before expected was set
vars == <<tenants, cursor, open, runs, msg, crawl, fetch, adding, budget, deaths, fallen, outrun>>

Runs == 1 .. MaxRuns
Tokens == 0 .. LastPage
Good == {"succeeded", "partial_success"}
InFlight == {"queued", "running"}
Stages == {"sent", "filing", "counting", "closing"}

\* since: the postings filed since the run started (their seen_last_at is not before its
\* started_at).  after: the runs that finished after this one.
NoRun == [tenant |-> "none", status |-> "none", expected |-> 0, completed |-> 0,
          errors |-> FALSE, finished |-> FALSE, since |-> {}, after |-> {}]
Resting == [at |-> "idle", cur |-> 0, saved |-> 0, skip |-> 0, asked |-> {}, more |-> FALSE,
            ok |-> FALSE, reset |-> FALSE, seen |-> {}, doomed |-> {}]

Run == [tenant: Tenants \cup {"none"},
        status: {"none", "failed"} \cup Good \cup InFlight,
        expected: Nat, completed: Nat, errors: BOOLEAN, finished: BOOLEAN,
        since: SUBSET Postings, after: SUBSET Runs]
Crawler == [at: {"idle", "list", "save", "count", "prune", "close", "end"},
            cur: Tokens, saved: Tokens, skip: Tokens, asked: SUBSET Tokens, more: BOOLEAN,
            ok: BOOLEAN, reset: BOOLEAN, seen: SUBSET Postings, doomed: SUBSET Postings]

TypeInv ==
  /\ tenants \in [Tenants -> [status: {"new", "live", "gone"}, enabled: BOOLEAN]]
  /\ cursor \in [Tenants -> Tokens] /\ open \subseteq Tenants \X Postings
  /\ runs \in [Runs -> Run]
  /\ msg \in [Runs -> [state: {"none", "unsent", "lost", "ready", "taken", "done", "dead"}, tries: Nat]]
  /\ crawl \in [Runs -> Crawler]
  /\ fetch \in [Runs \X Postings \X Stages -> Nat]
  /\ adding \in [Tenants -> {"no", "check", "crawl"}]
  /\ {budget, deaths} \subseteq Nat /\ fallen \in [Runs \X Postings -> Nat]
  /\ outrun \subseteq Runs

\* The host starts with a store where one board is in use (the others were deleted): a
\* newcomer, or one whose last run filed some postings again, missed others, and left a cursor.
Gone == [status |-> "gone", enabled |-> FALSE]
Only(t, row) == [u \in Tenants |-> IF u = t THEN row ELSE Gone]
Past(t, refiled) == [NoRun EXCEPT !.tenant = t, !.status = "succeeded", !.finished = TRUE, !.since = refiled]
InitNew ==
  /\ \E t \in Newcomers : tenants = Only(t, [status |-> "new", enabled |-> FALSE])
  /\ open = {} /\ runs = [r \in Runs |-> NoRun] /\ cursor = [t \in Tenants |-> 0]
InitCrawled ==
  \E t \in Tenants, refiled \in Refiled, saved \in 0 .. LastPage - 1 :
    /\ tenants = Only(t, [status |-> "live", enabled |-> TRUE])
    /\ open = {t} \X Postings
    /\ runs = [r \in Runs |-> IF r = 1 THEN Past(t, refiled) ELSE NoRun]
    /\ cursor = [u \in Tenants |-> IF u = t THEN saved ELSE 0]
Init ==
  /\ InitNew \/ InitCrawled
  /\ msg = [r \in Runs |-> [state |-> "none", tries |-> 0]]
  /\ crawl = [r \in Runs |-> Resting] /\ fetch = [x \in Runs \X Postings \X Stages |-> 0]
  /\ adding = [t \in Tenants |-> "no"]
  /\ budget = MaxEvents /\ deaths = 0 /\ outrun = {}
  /\ fallen = [x \in Runs \X Postings |-> 0]

-----------------------------------------------------------------------------
Live(t) == tenants[t].status = "live"
TenantOf(r) == runs[r].tenant
RunsOf(t) == {r \in Runs : TenantOf(r) = t}
Free == {r \in Runs : runs[r].status = "none"}
NextRun == CHOOSE r \in Free : \A s \in Free : r <= s
Latest(t) == CHOOSE r \in RunsOf(t) : \A s \in RunsOf(t) : s <= r

Event == budget > 0 /\ budget' = budget - 1
Death == Event /\ deaths' = deaths + 1

\* start_run; set_run_status(running).
Started(t, status) == [NoRun EXCEPT !.tenant = t, !.status = status]
Running(r) == [runs EXCEPT ![r].status = "running"]
\* finish_run: errors turn a success into a partial one.
\* Mutant: they do not.
FinishedBlindly(rs, r, status) ==
  [x \in Runs |->
     IF x = r THEN [rs[r] EXCEPT !.status = status, !.finished = TRUE, !.after = {}]
     ELSE [rs[x] EXCEPT !.after = IF rs[x].finished THEN @ \cup {r} ELSE @]]
Finished(rs, r, status) ==
  [x \in Runs |->
     IF x = r
     THEN [rs[r] EXCEPT !.status = IF status = "succeeded" /\ rs[r].errors
                                   THEN "partial_success" ELSE status,
                        !.finished = TRUE, !.after = {}]
     ELSE [rs[x] EXCEPT !.after = IF rs[x].finished THEN @ \cup {r} ELSE @]]

-----------------------------------------------------------------------------
\* Requests and the timer.

\* create_tenant: upsert_tenant.
AddBoard(t, enabled) ==
  /\ Event /\ tenants[t].status # "gone" /\ adding[t] = "no"
  /\ tenants' = [tenants EXCEPT ![t] = [status |-> "live", enabled |-> enabled]]
  /\ adding' = [adding EXCEPT ![t] = "check"]
  /\ UNCHANGED <<cursor, open, runs, msg, crawl, fetch, deaths, fallen, outrun>>

\* _preflight_listing: the outcome of one GET is recorded as a run of its own, a success
\* only after a run that was not.
PreflightFails(t) ==
  /\ adding[t] = "check" /\ Live(t) /\ Free # {}
  /\ runs' = Finished([runs EXCEPT ![NextRun] = Started(t, "running")], NextRun, "failed")
  /\ adding' = [adding EXCEPT ![t] = "no"]
  /\ UNCHANGED <<tenants, cursor, open, msg, crawl, fetch, budget, deaths, fallen, outrun>>
PreflightHeals(t) ==
  /\ adding[t] = "check" /\ Live(t) /\ Free # {}
  /\ RunsOf(t) # {} /\ runs[Latest(t)].status \in {"failed", "partial_success"}
  /\ runs' = Finished([runs EXCEPT ![NextRun] = Started(t, "running")], NextRun, "succeeded")
  /\ adding' = [adding EXCEPT ![t] = "crawl"]
  /\ UNCHANGED <<tenants, cursor, open, msg, crawl, fetch, budget, deaths, fallen, outrun>>
PreflightPasses(t) ==
  /\ adding[t] = "check" /\ Live(t)
  /\ RunsOf(t) # {} => runs[Latest(t)].status \notin {"failed", "partial_success"}
  /\ adding' = [adding EXCEPT ![t] = "crawl"]
  /\ UNCHANGED <<tenants, cursor, open, runs, msg, crawl, fetch, budget, deaths, fallen, outrun>>

\* enqueue_crawl and schedule_due start a run, and send its message in a step of its own.
Enqueue(t) ==
  /\ Free # {}
  /\ runs' = [runs EXCEPT ![NextRun] = Started(t, "queued")]
  /\ msg' = [msg EXCEPT ![NextRun].state = "unsent"]

\* _crawl_new_tenant.
CrawlNew(t) ==
  /\ adding[t] = "crawl" /\ Live(t) /\ tenants[t].enabled /\ Enqueue(t)
  /\ adding' = [adding EXCEPT ![t] = "no"]
  /\ UNCHANGED <<tenants, cursor, open, crawl, fetch, budget, deaths, fallen, outrun>>
\* create_tenant ends early: the board is disabled, or deleted meanwhile.
AddEnds(t) ==
  /\ \/ adding[t] # "no" /\ ~Live(t)
     \/ adding[t] = "crawl" /\ ~tenants[t].enabled
  /\ adding' = [adding EXCEPT ![t] = "no"]
  /\ UNCHANGED <<tenants, cursor, open, runs, msg, crawl, fetch, budget, deaths, fallen, outrun>>

\* start_crawl.
Refresh(t) ==
  /\ Event /\ Live(t) /\ tenants[t].enabled /\ Enqueue(t)
  /\ UNCHANGED <<tenants, cursor, open, crawl, fetch, adding, deaths, fallen, outrun>>

\* schedule_due, at any time: the clock is abstracted.  One crawl of a tenant at a time
\* (crawl_max_concurrent_per_tenant is 1).
Schedule(t) ==
  /\ Event /\ Live(t) /\ tenants[t].enabled
  /\ \A r \in RunsOf(t) : runs[r].status \notin InFlight
  /\ Enqueue(t)
  /\ UNCHANGED <<tenants, cursor, open, crawl, fetch, adding, deaths, fallen, outrun>>

Send(r) ==
  /\ msg[r].state = "unsent"
  /\ msg' = [msg EXCEPT ![r].state = "ready"]
  /\ UNCHANGED <<tenants, cursor, open, runs, crawl, fetch, adding, budget, deaths, fallen, outrun>>
\* The handler dies, or the queue refuses four times: the run stays queued.
SendFails(r) ==
  /\ msg[r].state = "unsent" /\ Death
  /\ msg' = [msg EXCEPT ![r].state = "lost"]
  /\ UNCHANGED <<tenants, cursor, open, runs, crawl, fetch, adding, fallen, outrun>>

\* delete_tenant closes the postings of the tenant and drops its rows.
\* Mutant: it only drops the rows.
DeleteRowsOnly(t) ==
  /\ Event /\ Live(t)
  /\ tenants' = [tenants EXCEPT ![t] = [status |-> "gone", enabled |-> FALSE]]
  /\ UNCHANGED <<open, cursor, runs, msg, crawl, fetch, adding, deaths, fallen, outrun>>
DeleteBoard(t) ==
  /\ Event /\ Live(t)
  /\ tenants' = [tenants EXCEPT ![t] = [status |-> "gone", enabled |-> FALSE]]
  /\ open' = {x \in open : x[1] # t}
  /\ UNCHANGED <<cursor, runs, msg, crawl, fetch, adding, deaths, fallen, outrun>>

-----------------------------------------------------------------------------
\* process_crawl_run.

\* A handler that raises or dies leaves its message to be delivered again, until the host
\* gives up.  The code gives up after 10 deliveries, which the host never makes.
GivenBack(r) ==
  [msg EXCEPT ![r].state = IF msg[r].tries < MaxDeliver THEN "ready" ELSE "dead"]
Raise(r) == msg' = GivenBack(r) /\ crawl' = [crawl EXCEPT ![r] = Resting]
Return(r) ==
  /\ msg' = [msg EXCEPT ![r].state = "done"]
  /\ crawl' = [crawl EXCEPT ![r] = Resting]
Deliver(r) == msg[r].state = "ready"
At(r, where) == crawl[r].at = where
\* The end of the listing: only what was seen is still of use, and where it began.
Seen(c) == [Resting EXCEPT !.at = "count", !.ok = c.ok, !.seen = c.seen, !.saved = c.saved]
Goto(r, where) == crawl' = [crawl EXCEPT ![r].at = where]

\* get_tenant, set_run_status and get_cursor.
CrawlStart(r) ==
  /\ Deliver(r) /\ Live(TenantOf(r))
  /\ msg' = [msg EXCEPT ![r] = [state |-> "taken", tries |-> @.tries + 1]]
  /\ runs' = Running(r)
  /\ LET saved == cursor[TenantOf(r)]
     IN crawl' = [crawl EXCEPT ![r] = [Resting EXCEPT !.at = "list", !.cur = saved, !.saved = saved]]
  /\ UNCHANGED <<tenants, cursor, open, fetch, adding, budget, deaths, fallen, outrun>>
\* The tenant was deleted: every delivery raises, and the run stays as it is.
CrawlOrphan(r) ==
  /\ Deliver(r) /\ ~Live(TenantOf(r))
  /\ msg' = [msg EXCEPT ![r].state = "dead"]
  /\ UNCHANGED <<tenants, cursor, open, runs, crawl, fetch, adding, budget, deaths, fallen, outrun>>

\* The page that _list_url asks for: Greenhouse goes by the cursor, Lever by skip, which
\* starts from 0 whatever cursor was saved.  Both remember what they asked for by a token.
Page(r) == IF TenantOf(r) \in Lever THEN crawl[r].skip + 1 ELSE crawl[r].cur + 1
Token(c) == IF c.cur # 0 THEN c.cur ELSE c.skip
Asking(r) == [crawl[r] EXCEPT !.asked = @ \cup {Token(crawl[r])}]
OnPage(n) == {p \in Postings : PageOf[p] = n}

\* A page is read, with whatever the board lists by now: a job-fetch message for each posting
\* that passes the filters of the board and was not seen before.  A blank page ends the listing;
\* one whose postings the filters reject does not.
ListPage(r) ==
  /\ At(r, "list") /\ Live(TenantOf(r))
  /\ \E jobs \in SUBSET OnPage(Page(r)), more \in BOOLEAN, blank \in BOOLEAN :
       LET new  == jobs \ crawl[r].seen
           read == [Asking(r) EXCEPT !.ok = TRUE, !.seen = @ \cup new, !.more = more, !.at = "save"]
       IN /\ more => Page(r) < LastPage
          /\ blank => jobs = {} /\ ~more
          /\ crawl' = [crawl EXCEPT ![r] = IF blank THEN Seen(read) ELSE read]
          /\ cursor' = IF blank THEN [cursor EXCEPT ![TenantOf(r)] = 0] ELSE cursor
          /\ fetch' = [x \in DOMAIN fetch |->
                         IF x[1] = r /\ x[2] \in new /\ x[3] = "sent" THEN fetch[x] + 1 ELSE fetch[x]]
  /\ UNCHANGED <<tenants, open, runs, msg, adding, budget, deaths, fallen, outrun>>

\* The GET fails for good, or the page is no JSON.
ListFails(r) ==
  /\ At(r, "list") /\ Live(TenantOf(r))
  /\ \E kind \in {"http", "network", "garbled"} :
       /\ crawl' = [crawl EXCEPT ![r] = Seen([crawl[r] EXCEPT !.ok = @ \/ kind = "garbled"])]
       /\ runs' = [runs EXCEPT ![r].errors = @ \/ kind = "http"]
  /\ UNCHANGED <<tenants, cursor, open, msg, fetch, adding, budget, deaths, fallen, outrun>>
\* 404: the cursor is dropped, and if it was a saved one the listing starts over, once.
ListMissing(r) ==
  /\ At(r, "list") /\ Live(TenantOf(r))
  /\ LET c == crawl[r]
         again == c.saved # 0 /\ c.cur = c.saved /\ ~c.reset
     IN crawl' = [crawl EXCEPT ![r] =
                    IF again THEN [Asking(r) EXCEPT !.cur = 0, !.skip = 0, !.reset = TRUE]
                    ELSE Seen(c)]
  /\ cursor' = [cursor EXCEPT ![TenantOf(r)] = 0]
  /\ runs' = [runs EXCEPT ![r].errors = TRUE]
  /\ UNCHANGED <<tenants, open, msg, fetch, adding, budget, deaths, fallen, outrun>>
\* Out of tokens, or the tenant is gone: what process_crawl_run catches ends the run.
ListRaises(r) ==
  /\ \/ At(r, "list")
     \/ At(r, "save") /\ ~Live(TenantOf(r))
  /\ runs' = Finished(runs, r, "failed")
  /\ Return(r)
  /\ UNCHANGED <<tenants, cursor, open, fetch, adding, budget, deaths, fallen, outrun>>

\* save_cursor after a page; a token asked for before ends the listing, and so do MaxPages.
SavePage(r) ==
  /\ At(r, "save") /\ Live(TenantOf(r))
  /\ LET c == crawl[r]
         lever == TenantOf(r) \in Lever
         next == IF lever THEN c.skip + 1 ELSE c.cur + 1
         stop == ~c.more \/ next \in c.asked \/ Cardinality(c.asked) >= MaxPages
         none == ~c.more \/ (next \in c.asked /\ ~lever)
     IN /\ cursor' = [cursor EXCEPT ![TenantOf(r)] = IF none THEN 0 ELSE next]
        /\ crawl' = [crawl EXCEPT ![r] =
                       IF stop THEN Seen(c)
                       ELSE [c EXCEPT !.at = "list", !.cur = next, !.skip = IF lever THEN next ELSE @]]
  /\ UNCHANGED <<tenants, open, runs, msg, fetch, adding, budget, deaths, fallen, outrun>>

\* set_run_job_counts(expected), which nobody compares with completed.
\* Mutant: one too many.
OneMore(r) == Cardinality(crawl[r].seen) + 1
Expected(r) == Cardinality(crawl[r].seen)
SetCounts(r) ==
  /\ At(r, "count")
  /\ runs' = [runs EXCEPT ![r].expected = Expected(r)]
  /\ outrun' = IF Expected(r) \in 1 .. runs[r].completed THEN outrun \cup {r} ELSE outrun \ {r}
  /\ Goto(r, IF crawl[r].ok THEN "prune" ELSE "end")
  /\ UNCHANGED <<tenants, cursor, open, msg, fetch, adding, budget, deaths, fallen>>

\* _deactivate_missing: what is open, was not and was not filed since the last
\* other successful run started.  Between its reads and close_posting others run.
LastGood(r) ==
  LET good == {x \in RunsOf(TenantOf(r)) \ {r} : runs[x].status \in Good /\ runs[x].finished}
  IN {x \in good : runs[x].after \cap good = {}}
Prune(r) ==
  /\ At(r, "prune")
  /\ LET doomed == {p \in Postings : /\ <<TenantOf(r), p>> \in open /\ p \notin crawl[r].seen
                                     /\ \E x \in LastGood(r) : p \notin runs[x].since}
     IN crawl' = [crawl EXCEPT ![r].doomed = doomed, ![r].at = IF doomed = {} THEN "end" ELSE "close"]
  /\ UNCHANGED <<tenants, cursor, open, runs, msg, fetch, adding, budget, deaths, fallen, outrun>>
Close(r, p) ==
  /\ At(r, "close") /\ p \in crawl[r].doomed /\ <<TenantOf(r), p>> \in open
  /\ open' = open \ {<<TenantOf(r), p>>}
  /\ crawl' = [crawl EXCEPT ![r].doomed = @ \ {p},
                            ![r].at = IF crawl[r].doomed = {p} THEN "end" ELSE @]
  /\ UNCHANGED <<tenants, cursor, runs, msg, fetch, adding, budget, deaths, fallen, outrun>>
\* Somebody else closed it first: JobSourceNotFoundError leaves process_crawl_run.
CloseRaises(r, p) ==
  /\ At(r, "close") /\ p \in crawl[r].doomed /\ <<TenantOf(r), p>> \notin open
  /\ Raise(r)
  /\ UNCHANGED <<tenants, cursor, open, runs, fetch, adding, budget, deaths, fallen, outrun>>

\* A run with no posting ends here; the others when their fetches have been counted.
CrawlEnds(r) ==
  /\ At(r, "end")
  /\ runs' = IF crawl[r].seen = {}
             THEN Finished(runs, r, IF crawl[r].ok THEN "succeeded" ELSE "failed") ELSE runs
  /\ Return(r)
  /\ UNCHANGED <<tenants, cursor, open, fetch, adding, budget, deaths, fallen, outrun>>

CrawlDies(r) ==
  /\ crawl[r].at # "idle" /\ Death
  /\ Raise(r)
  /\ UNCHANGED <<tenants, cursor, open, runs, fetch, adding, fallen, outrun>>

-----------------------------------------------------------------------------
\* process_job_fetch, a copy of the message of posting p and run r.
AtWork == {x \in DOMAIN fetch : x[3] # "sent" /\ fetch[x] > 0}
Some(r, p, stage) == fetch[<<r, p, stage>>] > 0
\* Mutant: a message is deleted that nobody holds.
DropTwice(r, p, stage) == fetch' = [fetch EXCEPT ![<<r, p, stage>>] = @ - 2]
Drop(r, p, stage) == fetch' = [fetch EXCEPT ![<<r, p, stage>>] = @ - 1]
Advance(r, p, stage, next) ==
  fetch' = [fetch EXCEPT ![<<r, p, stage>>] = @ - 1, ![<<r, p, next>>] = @ + 1]
\* A handler dies: its message is delivered again, or given up, when the handlers of as many
\* deliveries as the host makes have died.
Lapse(r, p, stage) ==
  /\ Death
  /\ fallen' = [fallen EXCEPT ![<<r, p>>] = @ + 1]
  /\ \/ Advance(r, p, stage, "sent")
     \/ fallen[<<r, p>>] + 1 >= MaxDeliver /\ Drop(r, p, stage)
\* The handler returns and the host deletes the message, unless it dies before that: what the
\* handler did is done then.
Settle(r, p, stage) ==
  \/ Drop(r, p, stage) /\ UNCHANGED <<budget, deaths, fallen>>
  \/ Lapse(r, p, stage)

\* _get, and what the answer is good for: the posting is filed from the detail page or from
\* the listing's copy, unless a field is missing, the JSON is broken or a limit is hit.
FetchAnswer(r, p) ==
  /\ Some(r, p, "sent") /\ Live(TenantOf(r)) /\ Cardinality(AtWork) < MaxWorkers
  /\ \E next \in {"filing", "counting"}, error \in BOOLEAN :
       /\ Advance(r, p, "sent", next)
       /\ runs' = [runs EXCEPT ![r].errors = @ \/ error]
  /\ UNCHANGED <<tenants, cursor, open, msg, crawl, adding, budget, deaths, fallen, outrun>>
\* get_tenant raises at every delivery, until the host gives up.
FetchOrphan(r, p) ==
  /\ Some(r, p, "sent") /\ ~Live(TenantOf(r))
  /\ Drop(r, p, "sent")
  /\ UNCHANGED <<tenants, cursor, open, runs, msg, crawl, adding, budget, deaths, fallen, outrun>>
\* ingest_raw, which raises when the tenant is gone; the handler records that and goes on.
\* Mutant: it does not look at the tenant.
FiledAnyway(r, p) == open \cup {<<TenantOf(r), p>>}
Filed(r, p) == IF Live(TenantOf(r)) THEN open \cup {<<TenantOf(r), p>>} ELSE open
FetchFiles(r, p) ==
  /\ Some(r, p, "filing")
  /\ Advance(r, p, "filing", "counting")
  /\ open' = Filed(r, p)
  /\ runs' = IF ~Live(TenantOf(r)) THEN runs
             ELSE [x \in Runs |->
                     IF TenantOf(x) = TenantOf(r) /\ runs[x].status # "queued"
                     THEN [runs[x] EXCEPT !.since = @ \cup {p}] ELSE runs[x]]
  /\ UNCHANGED <<tenants, cursor, msg, crawl, adding, budget, deaths, fallen, outrun>>

\* set_run_job_counts(completed_delta=1), and _maybe_finish's test of the row it returns.
\* Mutant: one more than expected.
Exceeded(n, r) == runs[r].expected > 0 /\ n > runs[r].expected
Completed(n, r) == runs[r].expected > 0 /\ n >= runs[r].expected
FetchCounts(r, p) ==
  /\ Some(r, p, "counting")
  /\ LET n == runs[r].completed + 1
     IN /\ runs' = [runs EXCEPT ![r].completed = n]
        /\ IF Completed(n, r) THEN Advance(r, p, "counting", "closing") /\ UNCHANGED <<budget, deaths, fallen>>
           ELSE Settle(r, p, "counting")
  /\ UNCHANGED <<tenants, cursor, open, msg, crawl, adding, outrun>>
\* finish_run(succeeded).  _rank_ingested_jobs follows; whatever it raises is swallowed.
FetchFinishes(r, p) ==
  /\ Some(r, p, "closing")
  /\ Settle(r, p, "closing")
  /\ runs' = Finished(runs, r, "succeeded")
  /\ UNCHANGED <<tenants, cursor, open, msg, crawl, adding, outrun>>
FetchDies(r, p, stage) ==
  /\ stage # "sent" /\ Some(r, p, stage) /\ Lapse(r, p, stage)
  /\ UNCHANGED <<tenants, cursor, open, runs, msg, crawl, adding, outrun>>

-----------------------------------------------------------------------------
BoardStep(t) ==
  \/ \E enabled \in BOOLEAN : AddBoard(t, enabled)
  \/ PreflightFails(t) \/ PreflightHeals(t) \/ PreflightPasses(t) \/ CrawlNew(t) \/ AddEnds(t)
  \/ Refresh(t) \/ Schedule(t)
TenantStep(t) == BoardStep(t) \/ DeleteBoard(t)
CrawlStep(r) ==
  \/ CrawlStart(r) \/ CrawlOrphan(r) \/ ListPage(r) \/ ListFails(r) \/ ListMissing(r)
  \/ ListRaises(r) \/ SavePage(r) \/ SetCounts(r) \/ Prune(r) \/ CrawlEnds(r)
  \/ \E p \in Postings : Close(r, p) \/ CloseRaises(r, p)
FetchStep(r, p) ==
  \/ FetchAnswer(r, p) \/ FetchOrphan(r, p) \/ FetchFiles(r, p)
  \/ FetchCounts(r, p) \/ FetchFinishes(r, p)

\* What the host works on for a run.
Work(r) == CrawlStep(r) \/ \E p \in Postings : FetchStep(r, p)

Next ==
  \/ \E t \in Tenants : TenantStep(t)
  \/ \E r \in Runs :
       \/ Send(r) \/ SendFails(r) \/ Work(r) \/ CrawlDies(r)
       \/ \E p \in Postings, stage \in Stages : FetchDies(r, p, stage)

Spec == Init /\ [][Next]_vars
\* The host always works on something while there is something to do.  Nobody has to post a
\* request, and no message has to be taken before another.
FairSpec == Spec /\ WF_vars(\E r \in Runs : Work(r))

-----------------------------------------------------------------------------
\* Every step of a crawl is one of the feed (feed.py shows current rows only), or none.
Feed == INSTANCE JobFeed WITH board <- [t \in Tenants |-> tenants[t].status], shown <- open
FeedSpec == Feed!FeedSpec
OnlyLiveShow == Feed!OnlyLiveShow

\* Messages and handlers that are left of a run.
Left(r) == {x \in DOMAIN fetch : x[1] = r /\ fetch[x] > 0}
Quiet(r) == Left(r) = {} /\ msg[r].state \in {"none", "lost", "done", "dead"}

\* The host may have given up a fetch of the run.
Worn(r) == \E p \in Postings : fallen[<<r, p>>] >= MaxDeliver

\* A run of a live board that nothing will touch again has ended, except in the ways the
\* code leaves open: its message or one of its fetches was lost or given up, or every fetch
\* was counted before the listing was.
OnlyOutrunHangs ==
  \A r \in Runs :
    (runs[r].status \in InFlight /\ Quiet(r) /\ Live(TenantOf(r)))
      => msg[r].state \in {"lost", "dead"} \/ r \in outrun \/ Worn(r)

\* A run that counts as a success has no posting left to fetch, but one per handler that
\* died, while its own message was delivered once.
SuccessIsComplete ==
  \A r \in Runs :
    (runs[r].status \in Good /\ msg[r].tries <= 1)
      => Cardinality(Left(r)) <= deaths

\* When all is over and no fetch was given up, a run with a failed request does not read as
\* a plain success.
ErrorsShow ==
  \A r \in Runs :
    (/\ runs[r].status = "succeeded" /\ runs[r].expected > 0 /\ msg[r].tries <= 1
     /\ Quiet(r) /\ Live(TenantOf(r)) /\ ~Worn(r)) => ~runs[r].errors

\* What a finished run says of itself is true.
ResultsAreTrue == SuccessIsComplete /\ ErrorsShow

\* A crawl does not close a posting that it has listed itself ("not present in two consecutive
\* successful crawls"): one that waits to be fetched for it, of a page behind which the cursor
\* that its delivery started from lies.  On later pages the board may have dropped it meanwhile.
ListedStays ==
  \A r \in Runs : \A p \in crawl[r].doomed :
    <<r, p, "sent">> \in Left(r) => PageOf[p] > crawl[r].saved

\* A run that waits for fetches ends, unless its board is deleted or a fetch given up.
CountedRunEnds ==
  \A r \in Runs :
    (runs[r].completed < runs[r].expected)
      ~> (runs[r].status \notin InFlight \/ ~Live(TenantOf(r)) \/ Worn(r))
=============================================================================
