----------------------------- MODULE JobOverlap -----------------------------
(***************************************************************************)
(* JobCrawl over CosmosJobSourceStore with store calls that overlap        *)
(* (backend/app/job_sources/cosmos_store.py).  A writing call hydrates a   *)
(* working copy of every row, applies the in-memory rule to the copy, and  *)
(* upserts all rows of the copy with no etag: it puts back what others     *)
(* changed in between.  delete_tenant writes back first and deletes the    *)
(* row of the tenant after that.                                           *)
(*                                                                         *)
(* Fewer interleavings than the code has: one call of a queue handler      *)
(* spans steps of others at a time, its handler does not die in it, the    *)
(* calls of requests and timers are single steps but for delete_tenant,    *)
(* and the rows of one call are written together.                          *)
(***************************************************************************)
EXTENDS JobCrawl

CONSTANT Spanning  \* bound: the places of handlers whose calls may span steps of others

VARIABLES
  calling,   \* the call that has hydrated and has not written back, if any
  ctenants, ccursor, copen, cruns,  \* its working copy
  dropping,  \* boards whose delete_tenant has yet to delete the row
  refused    \* history: runs that had a request refused
copy == <<ctenants, ccursor, copen, cruns>>
ovars == <<vars, copy, calling, dropping, refused>>

\* The rules, on the working copy.
Copy == INSTANCE JobCrawl WITH tenants <- ctenants, cursor <- ccursor, open <- copen, runs <- cruns

\* The handlers at work, by where they are.
CrawlCalls == Runs \X {"crawl"} \X {"list", "save", "count", "close", "end"}
Calls == (Runs \X Postings \X Stages) \cup CrawlCalls
Crawls(x) == x[2] = "crawl"
Waits(x) == IF Crawls(x) THEN At(x[1], x[3]) ELSE Some(x[1], x[2], x[3])
Held(r, who) == \E x \in calling : x[1] = r /\ x[2] = who

OverlapInit ==
  /\ Init
  /\ calling = {} /\ dropping = {} /\ refused = {}
  /\ ctenants = tenants /\ ccursor = cursor /\ copen = open /\ cruns = runs

-----------------------------------------------------------------------------
Hydrated(t, c, o, r) == ctenants' = t /\ ccursor' = c /\ copen' = o /\ cruns' = r
Hydrate(x) ==
  /\ calling = {} /\ Waits(x) /\ x[3] \in Spanning
  /\ calling' = {x} /\ Hydrated(tenants, cursor, open, runs)
  /\ UNCHANGED <<vars, dropping, refused>>

\* The calls of a handler that write.
CallOf(x) ==
  LET r == x[1]
      p == x[2]
  IN IF Crawls(x)
     THEN \/ Copy!ListPage(r) \/ Copy!ListFails(r) \/ Copy!ListMissing(r) \/ Copy!ListRaises(r)
          \/ Copy!SavePage(r) \/ Copy!SetCounts(r) \/ (\E q \in Postings : Copy!Close(r, q))
          \/ crawl[r].seen = {} /\ Copy!CrawlEnds(r)
     ELSE \/ x[3] = "sent" /\ Copy!FetchAnswer(r, p)
          \/ x[3] = "filing" /\ Copy!Live(Copy!TenantOf(r)) /\ Copy!FetchFiles(r, p)
          \/ x[3] = "counting" /\ Copy!FetchCounts(r, p)
          \/ x[3] = "closing" /\ Copy!FetchFinishes(r, p)

\* _persist_working: each row of the copy replaces the stored one, and a row that was deleted
\* meanwhile is created again; rows that the copy does not know stay.  A posting filed anew has
\* a row of its own; one filed again as it was has the old one, seen_last_at and all.  A board
\* without a cursor row is taken for one whose cursor is None.
Unknown == {x \in Runs : cruns'[x].status = "none"}
PutTenants == [t \in Tenants |-> IF ctenants'[t].status = "live" THEN ctenants'[t] ELSE tenants[t]]
PutOpen == (open \ (copen \ copen')) \cup copen'
PutRuns ==
  [x \in Runs |->
     LET mine  == IF x \in Unknown THEN runs[x] ELSE cruns'[x]
         fresh == {p \in runs[x].since : <<TenantOf(x), p>> \notin copen}
         later == {y \in Unknown : runs[y].finished}
     IN [mine EXCEPT !.since = IF x \in Unknown THEN fresh ELSE @ \cup fresh,
                     !.after = IF ~mine.finished THEN {}
                               ELSE IF x \in Unknown THEN @ \cap Unknown ELSE @ \cup later]]
Persist(x) ==
  /\ calling = {x} /\ CallOf(x)
  /\ tenants' = PutTenants /\ cursor' = ccursor' /\ open' = PutOpen /\ runs' = PutRuns
  /\ calling' = {}
  /\ refused' = refused \cup {r \in Runs : cruns'[r].errors}
  /\ UNCHANGED dropping

-----------------------------------------------------------------------------
\* Everybody else, one call a step.
Others ==
  \/ \E t \in Tenants : BoardStep(t)
  \/ \E r \in Runs :
       \/ Send(r) \/ SendFails(r)
       \/ ~Held(r, "crawl") /\ (CrawlStep(r) \/ CrawlDies(r))
       \/ \E p \in Postings :
            /\ ~Held(r, p)
            /\ FetchStep(r, p) \/ \E stage \in Stages : FetchDies(r, p, stage)
Meanwhile ==
  /\ Others
  /\ IF calling = {} THEN Hydrated(tenants', cursor', open', runs') ELSE UNCHANGED copy
  /\ refused' = refused \cup {r \in Runs : runs'[r].errors}
  /\ UNCHANGED <<calling, dropping>>

\* delete_tenant: the rows are written back, then the row of the tenant is deleted.
DeleteCloses(t) ==
  /\ Event /\ Live(t) /\ t \notin dropping
  /\ open' = {s \in open : s[1] # t}
  /\ dropping' = dropping \cup {t}
  /\ UNCHANGED <<tenants, cursor, runs, msg, crawl, fetch, adding, deaths, fallen, outrun, copy, calling, refused>>
DeleteDrops(t) ==
  /\ t \in dropping
  /\ tenants' = [tenants EXCEPT ![t] = [status |-> "gone", enabled |-> FALSE]]
  /\ dropping' = dropping \ {t}
  /\ UNCHANGED <<cursor, open, runs, msg, crawl, fetch, adding, budget, deaths, fallen, outrun, copy, calling, refused>>

OverlapNext ==
  \/ \E x \in Calls : Hydrate(x) \/ Persist(x)
  \/ Meanwhile
  \/ \E t \in Tenants : DeleteCloses(t) \/ DeleteDrops(t)
OverlapSpec == OverlapInit /\ [][OverlapNext]_ovars

-----------------------------------------------------------------------------
OverlapTypeInv ==
  /\ TypeInv /\ Copy!TypeInv
  /\ calling \subseteq Calls /\ Cardinality(calling) <= 1 /\ \A x \in calling : Waits(x)
  /\ dropping \subseteq Tenants /\ refused \subseteq Runs

\* A board that was removed does not come back by itself: its users have to connect it anew.
RemovedStay ==
  [][\A t \in Tenants : tenants[t].status = "gone" => tenants'[t].status = "gone"]_ovars

\* A run with a refused request does not end as a plain success.
FailuresShow ==
  \A r \in refused :
    ~(/\ runs[r].status = "succeeded" /\ runs[r].expected > 0 /\ msg[r].tries <= 1
      /\ Quiet(r) /\ Live(TenantOf(r)) /\ ~Worn(r))
=============================================================================
