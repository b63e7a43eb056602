--------------------------- MODULE JobCrawlProofs ---------------------------
(***************************************************************************)
(* JobCrawl is typed.  While store calls keep the contract of              *)
(* JobSourceStore, which is that none overlaps another, it implements      *)
(* JobFeed, its runs end but in the ways the code leaves open, and what a  *)
(* run says of itself is true: for any number of boards, postings, pages,  *)
(* runs, workers, deliveries and handlers that die.                        *)
(***************************************************************************)
EXTENDS JobCrawl, FiniteSetTheorems, TLAPS

\* A run that was started has a tenant and keeps it.
Used(r) == runs[r].status # "none" /\ TenantOf(r) \in Tenants
\* Whatever works for a run works for one that was started.
Owned ==
  /\ \A r \in Runs : msg[r].state # "none" \/ crawl[r].at # "idle" => Used(r)
  /\ \A x \in Runs \X Postings \X Stages : fetch[x] > 0 => Used(x[1])
\* A page that has a next one is not the last.
PageKept == \A r \in Runs : At(r, "save") /\ crawl[r].more => Page(r) < LastPage
\* Runs are started in the order of their numbers.
Numbered == \E k \in 0 .. MaxRuns : \A r \in Runs : runs[r].status # "none" <=> r <= k
Inv == TypeInv /\ Owned /\ PageKept /\ Numbered

Message == [state: {"none", "unsent", "lost", "ready", "taken", "done", "dead"}, tries: Nat]

-----------------------------------------------------------------------------
\* The next run is one that was not started, as the started ones come first.
LEMMA NextRunFree ==
  ASSUME Numbered, Free # {}
  PROVE  NextRun \in Runs /\ \A r \in Runs : runs[r].status # "none" <=> r < NextRun
<1>1. PICK k \in 0 .. MaxRuns : \A r \in Runs : runs[r].status # "none" <=> r <= k
  BY DEF Numbered
<1>2. MaxRuns \in Nat BY CrawlBounds
<1>3. k + 1 \in Free /\ \A r \in Free : k + 1 <= r BY <1>1, <1>2 DEF Free, Runs
<1>4. NextRun \in Free /\ NextRun <= k + 1 BY <1>3 DEF NextRun
<1>5. NextRun = k + 1 BY <1>1, <1>2, <1>3, <1>4 DEF Free, Runs
<1>. QED BY <1>1, <1>2, <1>3, <1>5 DEF Free, Runs

\* What the updates of a run's row keep.
LEMMA RunRow ==
  ASSUME NEW row \in Run
  PROVE  /\ \A s \in {"none", "failed"} \cup Good \cup InFlight : [row EXCEPT !.status = s] \in Run
         /\ \A b \in BOOLEAN : [row EXCEPT !.errors = b] \in Run
         /\ \A n \in Nat : [row EXCEPT !.expected = n] \in Run /\ [row EXCEPT !.completed = n] \in Run
         /\ \A S \in SUBSET Postings : [row EXCEPT !.since = S] \in Run
         /\ \A S \in SUBSET Runs : [row EXCEPT !.after = S] \in Run
         /\ \A s \in {"failed"} \cup Good :
              [row EXCEPT !.status = s, !.finished = TRUE, !.after = {}] \in Run
  BY DEF Run

LEMMA StartedRow ==
  ASSUME NEW t \in Tenants, NEW s \in InFlight
  PROVE  Started(t, s) \in Run /\ Started(t, s).status = s /\ Started(t, s).tenant = t
  BY DEF Started, NoRun, Run, InFlight

\* finish_run changes no run's tenant, and leaves no run without a status.
LEMMA FinishedRuns ==
  ASSUME NEW rs \in [Runs -> Run], NEW r \in Runs, NEW s \in {"succeeded", "failed"}
  PROVE  /\ Finished(rs, r, s) \in [Runs -> Run]
         /\ \A x \in Runs : Finished(rs, r, s)[x].tenant = rs[x].tenant
         /\ \A x \in Runs \ {r} : Finished(rs, r, s)[x].status = rs[x].status
         /\ Finished(rs, r, s)[r].status # "none"
<1>. DEFINE ended == IF s = "succeeded" /\ rs[r].errors THEN "partial_success" ELSE s
            mark(x) == IF rs[x].finished THEN rs[x].after \cup {r} ELSE rs[x].after
            row(x) == IF x = r THEN [rs[r] EXCEPT !.status = ended, !.finished = TRUE, !.after = {}]
                      ELSE [rs[x] EXCEPT !.after = mark(x)]
<1>1. Finished(rs, r, s) = [x \in Runs |-> row(x)] BY DEF Finished
<1>2. ended \in {"failed"} \cup Good /\ ended # "none" BY DEF Good
<1>3. \A x \in Runs : rs[x] \in Run /\ mark(x) \in SUBSET Runs BY DEF Run
<1>4. \A x \in Runs : row(x) \in Run BY <1>2, <1>3, RunRow
<1>5. \A x \in Runs : row(x).tenant = rs[x].tenant BY <1>3 DEF Run
<1>6. \A x \in Runs \ {r} : row(x).status = rs[x].status BY <1>3 DEF Run
<1>7. row(r).status = ended BY <1>3 DEF Run
<1>. HIDE DEF row, ended, mark
<1>. QED BY <1>1, <1>2, <1>4, <1>5, <1>6, <1>7

-----------------------------------------------------------------------------
\* The initial states.
LEMMA InvInit == ASSUME Init PROVE Inv
<1>. USE DEF TypeInv
<1>a. NoRun \in Run /\ Resting \in Crawler BY BoardAssumption DEF NoRun, Run, Resting, Crawler, Tokens
<1>b. \A t \in Tenants, S \in SUBSET Postings : Past(t, S) \in Run BY <1>a DEF Past, Run, Good
<1>1. NoRun \in Run /\ Resting \in Crawler /\ \A t \in Tenants, S \in SUBSET Postings : Past(t, S) \in Run
  BY <1>a, <1>b
<1>2. 0 \in Tokens /\ 0 .. LastPage - 1 \subseteq Tokens BY BoardAssumption DEF Tokens
<1>3. crawl \in [Runs -> Crawler] /\ \A r \in Runs : crawl[r].at = "idle" BY <1>1 DEF Init, Resting
<1>4. msg \in [Runs -> Message] /\ \A r \in Runs : msg[r].state = "none" BY DEF Init, Message
<1>5. /\ fetch \in [Runs \X Postings \X Stages -> Nat] /\ \A x \in Runs \X Postings \X Stages : fetch[x] = 0
      /\ adding \in [Tenants -> {"no", "check", "crawl"}] /\ {budget, deaths} \subseteq Nat /\ outrun = {}
      /\ fallen \in [Runs \X Postings -> Nat]
  BY CrawlBounds DEF Init
<1>6. Owned /\ PageKept BY <1>3, <1>4, <1>5 DEF Owned, PageKept, At
<1>7. CASE InitNew
  <2>1. tenants \in [Tenants -> [status: {"new", "live", "gone"}, enabled: BOOLEAN]]
    BY <1>7 DEF InitNew, Only, Gone
  <2>2. cursor \in [Tenants -> Tokens] /\ open = {} /\ runs \in [Runs -> Run]
    BY <1>1, <1>2, <1>7 DEF InitNew
  <2>3. \A r \in Runs : runs[r].status = "none" BY <1>7 DEF InitNew, NoRun
  <2>4. Numbered
    <3>1. 0 \in 0 .. MaxRuns /\ \A r \in Runs : ~(r <= 0) BY CrawlBounds DEF Runs
    <3>. QED BY <2>3, <3>1 DEF Numbered
  <2>. QED BY <1>3, <1>4, <1>5, <1>6, <2>1, <2>2, <2>4 DEF Inv, Message
<1>8. CASE InitCrawled
  <2>0. PICK t \in Tenants, refiled \in Refiled, saved \in 0 .. LastPage - 1 :
          /\ tenants = Only(t, [status |-> "live", enabled |-> TRUE])
          /\ open = {t} \X Postings
          /\ runs = [r \in Runs |-> IF r = 1 THEN Past(t, refiled) ELSE NoRun]
          /\ cursor = [u \in Tenants |-> IF u = t THEN saved ELSE 0]
    BY <1>8 DEF InitCrawled
  <2>1. tenants \in [Tenants -> [status: {"new", "live", "gone"}, enabled: BOOLEAN]]
    BY <2>0 DEF Only, Gone
  <2>2. cursor \in [Tenants -> Tokens] /\ open \subseteq Tenants \X Postings BY <1>2, <2>0
  <2>3. runs \in [Runs -> Run] BY <1>1, <2>0, BoardAssumption
  <2>4. \A r \in Runs : runs[r].status # "none" <=> r = 1 BY <2>0 DEF Past, NoRun
  <2>5. Numbered
    <3>1. CASE MaxRuns = 0 BY <3>1 DEF Numbered, Runs
    <3>2. CASE MaxRuns # 0
      <4>1. 1 \in 0 .. MaxRuns /\ \A r \in Runs : r = 1 <=> r <= 1 BY <3>2, CrawlBounds DEF Runs
      <4>. QED BY <2>4, <4>1 DEF Numbered
    <3>. QED BY <3>1, <3>2
  <2>. QED BY <1>3, <1>4, <1>5, <1>6, <2>1, <2>2, <2>3, <2>5 DEF Inv, Message
<1>. QED BY <1>7, <1>8 DEF Init

-----------------------------------------------------------------------------
\* What the parts of the invariant need to know of a step.
Keeps == \A r \in Runs : Used(r) => Used(r)' /\ TenantOf(r)' = TenantOf(r)

LEMMA SameRuns ==
  ASSUME Inv, \A r \in Runs : /\ runs'[r].tenant = runs[r].tenant
                              /\ runs'[r].status # "none" <=> runs[r].status # "none"
  PROVE  Keeps /\ Numbered'
<1>1. Keeps BY DEF Keeps, Used, TenantOf
<1>2. Numbered' BY DEF Inv, Numbered
<1>. QED BY <1>1, <1>2

LEMMA NewRun ==
  ASSUME Inv, Free # {}, NEW n, n = NextRun,
         runs'[n].status # "none", runs'[n].tenant \in Tenants,
         \A r \in Runs \ {n} : /\ runs'[r].tenant = runs[r].tenant
                               /\ runs'[r].status # "none" <=> runs[r].status # "none"
  PROVE  Keeps /\ Numbered' /\ Used(n)'
<1>1. n \in Runs /\ \A r \in Runs : runs[r].status # "none" <=> r < n
  BY NextRunFree DEF Inv
<1>2. Used(n)' BY DEF Used, TenantOf
<1>3. runs[n].status = "none" BY <1>1 DEF Runs
<1>7. Keeps BY <1>2, <1>3 DEF Keeps, Used, TenantOf
<1>4. MaxRuns \in Nat BY CrawlBounds
<1>5. n \in 0 .. MaxRuns /\ \A r \in Runs : runs'[r].status # "none" <=> r <= n
  BY <1>1, <1>4 DEF Runs
<1>6. Numbered' BY <1>5 DEF Numbered
<1>. QED BY <1>2, <1>6, <1>7

LEMMA OwnedStep ==
  ASSUME Inv, Keeps,
         \A r \in Runs : msg'[r].state # "none" \/ crawl'[r].at # "idle" =>
           msg[r].state # "none" \/ crawl[r].at # "idle" \/ Used(r)',
         \A x \in Runs \X Postings \X Stages : fetch'[x] > 0 => fetch[x] > 0 \/ Used(x[1])'
  PROVE  Owned'
  BY DEF Owned, Inv, Keeps

LEMMA PageStep ==
  ASSUME Inv, Keeps,
         \A r \in Runs : At(r, "save")' => crawl'[r] = crawl[r] \/ ~crawl'[r].more \/ Page(r)' < LastPage
  PROVE  PageKept'
<1>1. SUFFICES ASSUME NEW r \in Runs, At(r, "save")', crawl'[r].more PROVE Page(r)' < LastPage
  BY DEF PageKept
<1>2. CASE crawl'[r] = crawl[r]
  <2>1. At(r, "save") /\ crawl[r].more BY <1>1, <1>2 DEF At
  <2>2. Used(r) BY <2>1 DEF Inv, Owned, At
  <2>3. TenantOf(r)' = TenantOf(r) BY <2>2 DEF Keeps
  <2>4. Page(r)' = Page(r) BY <1>2, <2>3 DEF Page
  <2>. QED BY <2>1, <2>4 DEF Inv, PageKept
<1>. QED BY <1>1, <1>2

\* The steps of users and the timer.
LEMMA Enqueued ==
  ASSUME Inv, NEW t \in Tenants, Enqueue(t)
  PROVE  /\ runs' \in [Runs -> Run] /\ msg' \in [Runs -> Message]
         /\ Keeps /\ Numbered'
         /\ \A r \in Runs : msg'[r].state # "none" => msg[r].state # "none" \/ Used(r)'
<1>0. PICK n : n = NextRun OBVIOUS
<1>1. Free # {} /\ n \in Runs BY <1>0, NextRunFree DEF Enqueue, Inv
<1>2. Started(t, "queued") \in Run /\ Started(t, "queued").status = "queued" /\ Started(t, "queued").tenant = t
  BY StartedRow DEF InFlight
<1>3. runs \in [Runs -> Run] /\ msg \in [Runs -> Message] BY DEF Inv, TypeInv, Message
<1>4. runs' = [runs EXCEPT ![n] = Started(t, "queued")] BY <1>0 DEF Enqueue
<1>5. runs' \in [Runs -> Run] BY <1>2, <1>3, <1>4
<1>6. runs'[n] = Started(t, "queued") /\ \A r \in Runs \ {n} : runs'[r] = runs[r]
  BY <1>1, <1>3, <1>4
<1>7. Keeps /\ Numbered' /\ Used(n)' BY <1>0, <1>1, <1>2, <1>6, NewRun
<1>8. msg' = [msg EXCEPT ![n].state = "unsent"] BY <1>0 DEF Enqueue
<1>9. msg' \in [Runs -> Message] BY <1>3, <1>8 DEF Message
<1>10. \A r \in Runs \ {n} : msg'[r] = msg[r] BY <1>1, <1>3, <1>8
<1>. QED BY <1>5, <1>7, <1>9, <1>10

LEMMA PreflightRuns ==
  ASSUME Inv, NEW t \in Tenants, NEW s \in {"succeeded", "failed"}, Free # {},
         runs' = Finished([runs EXCEPT ![NextRun] = Started(t, "running")], NextRun, s)
  PROVE  runs' \in [Runs -> Run] /\ Keeps /\ Numbered'
<1>0. PICK n : n = NextRun OBVIOUS
<1>. DEFINE rs == [runs EXCEPT ![n] = Started(t, "running")]
<1>1. n \in Runs BY <1>0, NextRunFree DEF Inv
<1>2. Started(t, "running") \in Run /\ Started(t, "running").tenant = t BY StartedRow DEF InFlight
<1>3. runs \in [Runs -> Run] BY DEF Inv, TypeInv
<1>4. rs \in [Runs -> Run] BY <1>2, <1>3
<1>5. rs[n].tenant = t /\ \A r \in Runs \ {n} : rs[r] = runs[r] BY <1>1, <1>2, <1>3
<1>6. runs' = Finished(rs, n, s) BY <1>0
<1>. HIDE DEF rs
<1>7. runs' \in [Runs -> Run] /\ runs'[n].status # "none" /\ runs'[n].tenant = t
  <2>0. Finished(rs, n, s) \in [Runs -> Run] BY <1>1, <1>4, FinishedRuns, Zenon
  <2>1. runs' \in [Runs -> Run] BY <1>6, <2>0
  <2>2. runs'[n].status # "none" BY <1>1, <1>4, <1>6, FinishedRuns
  <2>3. runs'[n].tenant = rs[n].tenant BY <1>1, <1>4, <1>6, FinishedRuns
  <2>. QED BY <2>1, <2>2, <2>3, <1>5
<1>8. \A r \in Runs \ {n} : runs'[r].tenant = runs[r].tenant /\ runs'[r].status = runs[r].status
  BY <1>1, <1>4, <1>5, <1>6, FinishedRuns
<1>. QED BY <1>0, <1>7, <1>8, NewRun

LEMMA TenantInv == ASSUME Inv, NEW t \in Tenants, TenantStep(t) PROVE Inv'
<1>. USE DEF TypeInv
<1>a. /\ TypeInv /\ runs \in [Runs -> Run] /\ msg \in [Runs -> Message] /\ fetch \in [Runs \X Postings \X Stages -> Nat]
      /\ crawl \in [Runs -> Crawler]
  BY DEF Inv, Message
<1>b. ASSUME runs' = runs PROVE Keeps /\ Numbered' BY <1>b, SameRuns
<1>c. ASSUME Keeps, UNCHANGED <<msg, crawl, fetch>> PROVE Owned' /\ PageKept'
  BY <1>c, OwnedStep, PageStep
<1>d. ASSUME Keeps, UNCHANGED <<crawl, fetch>>,
             \A r \in Runs : msg'[r].state # "none" => msg[r].state # "none" \/ Used(r)'
      PROVE  Owned' /\ PageKept'
  BY <1>d, OwnedStep, PageStep
<1>e. Event => budget' \in Nat BY <1>a DEF Event
<1>1. ASSUME NEW enabled \in BOOLEAN, AddBoard(t, enabled) PROVE Inv'
  <2>1. Keeps /\ Numbered' /\ Owned' /\ PageKept' BY <1>1, <1>b, <1>c DEF AddBoard
  <2>. QED BY <1>1, <2>1, <1>a, <1>e DEF AddBoard, Inv, Message
<1>2. CASE PreflightFails(t)
  <2>1. runs' \in [Runs -> Run] /\ Keeps /\ Numbered' BY <1>2, PreflightRuns DEF PreflightFails
  <2>2. Owned' /\ PageKept' BY <1>2, <2>1, <1>c DEF PreflightFails
  <2>. QED BY <1>2, <2>1, <2>2, <1>a DEF PreflightFails, Inv, Message
<1>3. CASE PreflightHeals(t)
  <2>1. runs' \in [Runs -> Run] /\ Keeps /\ Numbered' BY <1>3, PreflightRuns DEF PreflightHeals
  <2>2. Owned' /\ PageKept' BY <1>3, <2>1, <1>c DEF PreflightHeals
  <2>. QED BY <1>3, <2>1, <2>2, <1>a DEF PreflightHeals, Inv, Message
<1>4. CASE PreflightPasses(t)
  <2>1. Keeps /\ Numbered' /\ Owned' /\ PageKept' BY <1>4, <1>b, <1>c DEF PreflightPasses
  <2>. QED BY <1>4, <2>1, <1>a DEF PreflightPasses, Inv, Message
<1>5. CASE AddEnds(t)
  <2>1. Keeps /\ Numbered' /\ Owned' /\ PageKept' BY <1>5, <1>b, <1>c DEF AddEnds
  <2>. QED BY <1>5, <2>1, <1>a DEF AddEnds, Inv, Message
<1>6. CASE CrawlNew(t) \/ Refresh(t) \/ Schedule(t)
  <2>1. /\ Enqueue(t) /\ UNCHANGED <<tenants, cursor, open, crawl, fetch, deaths, fallen, outrun>>
        /\ adding' \in [Tenants -> {"no", "check", "crawl"}] /\ budget' \in Nat
    BY <1>6, <1>a, <1>e DEF CrawlNew, Refresh, Schedule
  <2>2. /\ runs' \in [Runs -> Run] /\ msg' \in [Runs -> Message] /\ Keeps /\ Numbered'
        /\ \A r \in Runs : msg'[r].state # "none" => msg[r].state # "none" \/ Used(r)'
    BY <2>1, Enqueued
  <2>3. Owned' /\ PageKept' BY <2>1, <2>2, <1>d
  <2>. QED BY <2>1, <2>2, <2>3, <1>a DEF Inv, Message
<1>7. CASE DeleteBoard(t)
  <2>1. Keeps /\ Numbered' /\ Owned' /\ PageKept' BY <1>7, <1>b, <1>c DEF DeleteBoard
  <2>2. open' \subseteq Tenants \X Postings BY <1>7, <1>a DEF DeleteBoard
  <2>. QED BY <1>7, <2>1, <2>2, <1>a, <1>e DEF DeleteBoard, Inv, Message
<1>. QED BY <1>1, <1>2, <1>3, <1>4, <1>5, <1>6, <1>7 DEF TenantStep, BoardStep

-----------------------------------------------------------------------------
\* The steps of the handler of a run.

LEMMA RunChanged ==
  ASSUME Inv, NEW r \in Runs, NEW row \in Run, row.tenant = runs[r].tenant,
         runs[r].status # "none" /\ row.status # "none",
         runs' = [runs EXCEPT ![r] = row]
  PROVE  runs' \in [Runs -> Run] /\ Keeps /\ Numbered'
<1>1. runs \in [Runs -> Run] BY DEF Inv, TypeInv
<1>2. runs' \in [Runs -> Run] /\ runs'[r] = row /\ \A x \in Runs \ {r} : runs'[x] = runs[x] BY <1>1
<1>. QED BY <1>2, SameRuns

LEMMA RunFinished ==
  ASSUME Inv, NEW r \in Runs, Used(r), NEW s \in {"succeeded", "failed"}, runs' = Finished(runs, r, s)
  PROVE  runs' \in [Runs -> Run] /\ Keeps /\ Numbered'
<1>1. runs \in [Runs -> Run] BY DEF Inv, TypeInv
<1>2. runs' \in [Runs -> Run]
  <2>1. Finished(runs, r, s) \in [Runs -> Run] BY <1>1, FinishedRuns, Zenon
  <2>. QED BY <2>1
<1>3. \A x \in Runs : runs'[x].tenant = runs[x].tenant BY <1>1, FinishedRuns
<1>4. \A x \in Runs : runs'[x].status # "none" <=> runs[x].status # "none"
  <2>1. \A x \in Runs \ {r} : runs'[x].status = runs[x].status BY <1>1, FinishedRuns
  <2>2. runs'[r].status # "none" BY <1>1, FinishedRuns
  <2>. QED BY <2>1, <2>2 DEF Used
<1>. QED BY <1>2, <1>3, <1>4, SameRuns

\* A handler of a started run moves on, and may send fetches of its run.
LEMMA HandlerMoves ==
  ASSUME Inv, Keeps, NEW r \in Runs, Used(r), NEW c \in Crawler,
         crawl' = [crawl EXCEPT ![r] = c],
         c.at = "save" => ~c.more \/ (IF TenantOf(r) \in Lever THEN c.skip ELSE c.cur) + 1 < LastPage,
         \A x \in Runs \ {r} : msg'[x] = msg[x],
         \A x \in Runs \X Postings \X Stages : fetch'[x] > 0 => fetch[x] > 0 \/ x[1] = r
  PROVE  Owned' /\ PageKept' /\ crawl' \in [Runs -> Crawler]
<1>1. crawl \in [Runs -> Crawler] BY DEF Inv, TypeInv
<1>2. crawl' \in [Runs -> Crawler] /\ crawl'[r] = c /\ \A x \in Runs \ {r} : crawl'[x] = crawl[x] BY <1>1
<1>3. Used(r)' /\ TenantOf(r)' = TenantOf(r) BY DEF Keeps
<1>4. \A x \in Runs : msg'[x].state # "none" \/ crawl'[x].at # "idle" =>
        msg[x].state # "none" \/ crawl[x].at # "idle" \/ Used(x)'
  BY <1>2, <1>3
<1>5. \A x \in Runs \X Postings \X Stages : fetch'[x] > 0 => fetch[x] > 0 \/ Used(x[1])' BY <1>3
<1>6. Owned' BY <1>4, <1>5, OwnedStep
<1>7. \A x \in Runs : At(x, "save")' => crawl'[x] = crawl[x] \/ ~crawl'[x].more \/ Page(x)' < LastPage
  <2>1. Page(r)' = (IF TenantOf(r) \in Lever THEN c.skip ELSE c.cur) + 1 BY <1>2, <1>3 DEF Page
  <2>. QED BY <1>2, <2>1 DEF At
<1>8. PageKept' BY <1>7, PageStep
<1>. QED BY <1>2, <1>6, <1>8

\* What the updates of a handler keep.
LEMMA HandlerRow ==
  ASSUME NEW c \in Crawler
  PROVE  /\ Seen(c) \in Crawler /\ Seen(c).at = "count"
         /\ \A b \in BOOLEAN : [c EXCEPT !.ok = b] \in Crawler
         /\ Token(c) \in Tokens
         /\ [c EXCEPT !.asked = @ \cup {Token(c)}] \in Crawler
         /\ [c EXCEPT !.asked = @ \cup {Token(c)}].at = c.at
         /\ \A at \in {"idle", "list", "save", "count", "prune", "close", "end"} :
              [c EXCEPT !.at = at] \in Crawler /\ [c EXCEPT !.at = at].at = at
<1>1. Token(c) \in Tokens BY DEF Token, Crawler
<1>2. 0 \in Tokens BY BoardAssumption DEF Tokens
<1>3. [c EXCEPT !.asked = @ \cup {Token(c)}] \in Crawler BY <1>1 DEF Crawler
<1>. QED BY <1>1, <1>2, <1>3 DEF Seen, Resting, Crawler

LEMMA Rests == Resting \in Crawler /\ Resting.at = "idle"
  BY BoardAssumption DEF Resting, Crawler, Tokens

LEMMA InvParts ==
  ASSUME Inv
  PROVE  /\ runs \in [Runs -> Run] /\ msg \in [Runs -> Message] /\ crawl \in [Runs -> Crawler]
         /\ fetch \in [Runs \X Postings \X Stages -> Nat] /\ cursor \in [Tenants -> Tokens]
         /\ open \subseteq Tenants \X Postings /\ {budget, deaths} \subseteq Nat /\ outrun \subseteq Runs
         /\ tenants \in [Tenants -> [status: {"new", "live", "gone"}, enabled: BOOLEAN]]
         /\ adding \in [Tenants -> {"no", "check", "crawl"}] /\ fallen \in [Runs \X Postings -> Nat]
  BY DEF Inv, TypeInv, Message

LEMMA Assembled ==
  ASSUME runs' \in [Runs -> Run], msg' \in [Runs -> Message], crawl' \in [Runs -> Crawler],
         fetch' \in [Runs \X Postings \X Stages -> Nat], cursor' \in [Tenants -> Tokens],
         open' \subseteq Tenants \X Postings, {budget', deaths'} \subseteq Nat, outrun' \subseteq Runs,
         tenants' \in [Tenants -> [status: {"new", "live", "gone"}, enabled: BOOLEAN]],
         adding' \in [Tenants -> {"no", "check", "crawl"}], fallen' \in [Runs \X Postings -> Nat],
         Owned', PageKept', Numbered'
  PROVE  Inv'
  BY DEF Inv, TypeInv, Message

\* A message that is put back, or done with.
LEMMA MessageStates ==
  ASSUME Inv, NEW r \in Runs, NEW s \in {"none", "unsent", "lost", "ready", "taken", "done", "dead"},
         msg' = [msg EXCEPT ![r].state = s]
  PROVE  msg' \in [Runs -> Message] /\ \A x \in Runs \ {r} : msg'[x] = msg[x]
<1>1. \A m \in Message : [m EXCEPT !.state = s] \in Message BY DEF Message
<1>2. msg \in [Runs -> Message] BY InvParts
<1>3. msg' = [msg EXCEPT ![r] = [msg[r] EXCEPT !.state = s]] OBVIOUS
<1>. QED BY <1>1, <1>2, <1>3

LEMMA Active == ASSUME Inv, NEW r \in Runs, Deliver(r) \/ crawl[r].at # "idle" PROVE Used(r)
  BY DEF Inv, Owned, Deliver

LEMMA StartInv == ASSUME Inv, NEW r \in Runs, CrawlStart(r) \/ CrawlOrphan(r) PROVE Inv'
<1>1. Used(r) /\ runs[r].status # "none" BY Active DEF CrawlStart, CrawlOrphan, Used
<1>2. CASE CrawlStart(r)
  <2>. DEFINE saved == cursor[TenantOf(r)]
              c == [Resting EXCEPT !.at = "list", !.cur = saved, !.saved = saved]
              row == [runs[r] EXCEPT !.status = "running"]
  <2>1. row \in Run /\ row.tenant = runs[r].tenant /\ row.status # "none"
    <3>1. runs[r] \in Run BY InvParts
    <3>2. row \in Run BY <3>1, RunRow DEF InFlight
    <3>. QED BY <3>1, <3>2 DEF Run
  <2>2. runs' = [runs EXCEPT ![r] = row] BY <1>2 DEF CrawlStart, Running
  <2>3. runs' \in [Runs -> Run] /\ Keeps /\ Numbered' BY <1>1, <2>1, <2>2, RunChanged
  <2>4. saved \in Tokens BY <1>1, InvParts DEF Used
  <2>5. c \in Crawler /\ c.at = "list" BY <2>4, Rests DEF Crawler
  <2>6. crawl' = [crawl EXCEPT ![r] = c] BY <1>2 DEF CrawlStart
  <2>7. msg' \in [Runs -> Message] /\ \A x \in Runs \ {r} : msg'[x] = msg[x]
    BY <1>2, InvParts DEF CrawlStart, Message
  <2>8. UNCHANGED <<tenants, cursor, open, fetch, adding, budget, deaths, fallen, outrun>> BY <1>2 DEF CrawlStart
  <2>. HIDE DEF c, saved, row
  <2>9. Owned' /\ PageKept' /\ crawl' \in [Runs -> Crawler]
    BY <1>1, <2>3, <2>5, <2>6, <2>7, <2>8, HandlerMoves
  <2>. QED BY <2>3, <2>7, <2>8, <2>9, InvParts, Assembled
<1>3. CASE CrawlOrphan(r)
  <2>1. msg' \in [Runs -> Message] /\ \A x \in Runs \ {r} : msg'[x] = msg[x]
    BY <1>3, MessageStates DEF CrawlOrphan
  <2>2. UNCHANGED <<tenants, cursor, open, runs, crawl, fetch, adding, budget, deaths, fallen, outrun>>
    BY <1>3 DEF CrawlOrphan
  <2>3. Keeps /\ Numbered' BY <2>2, SameRuns
  <2>4. Used(r)' BY <1>1, <2>3 DEF Keeps
  <2>5. Owned' BY <2>1, <2>2, <2>3, <2>4, OwnedStep
  <2>6. PageKept' BY <2>2, <2>3, PageStep
  <2>. QED BY <2>1, <2>2, <2>3, <2>5, <2>6, InvParts, Assembled
<1>. QED BY <1>2, <1>3

\* The steps of the listing.
LEMMA ListPageInv == ASSUME Inv, NEW r \in Runs, ListPage(r) PROVE Inv'
<1>0. PICK jobs \in SUBSET OnPage(Page(r)), more \in BOOLEAN, blank \in BOOLEAN :
        LET new  == jobs \ crawl[r].seen
            read == [Asking(r) EXCEPT !.ok = TRUE, !.seen = @ \cup new, !.more = more, !.at = "save"]
        IN /\ more => Page(r) < LastPage
           /\ crawl' = [crawl EXCEPT ![r] = IF blank THEN Seen(read) ELSE read]
           /\ cursor' = IF blank THEN [cursor EXCEPT ![TenantOf(r)] = 0] ELSE cursor
           /\ fetch' = [x \in DOMAIN fetch |->
                          IF x[1] = r /\ x[2] \in new /\ x[3] = "sent" THEN fetch[x] + 1 ELSE fetch[x]]
  BY DEF ListPage
<1>. DEFINE new  == jobs \ crawl[r].seen
            read == [Asking(r) EXCEPT !.ok = TRUE, !.seen = @ \cup new, !.more = more, !.at = "save"]
            c == IF blank THEN Seen(read) ELSE read
<1>1. UNCHANGED <<tenants, open, runs, msg, adding, budget, deaths, fallen, outrun>> BY DEF ListPage
<1>2. Used(r) BY Active DEF ListPage, At
<1>3. Keeps /\ Numbered' BY <1>1, SameRuns
<1>4. Asking(r) \in Crawler BY InvParts, HandlerRow DEF Asking
<1>5. Asking(r).cur = crawl[r].cur /\ Asking(r).skip = crawl[r].skip BY InvParts DEF Asking, Crawler
<1>6. new \subseteq Postings BY DEF OnPage
<1>7. read \in Crawler BY <1>4, <1>6 DEF Crawler
<1>8. read.cur = crawl[r].cur /\ read.skip = crawl[r].skip /\ read.more = more BY <1>4, <1>5 DEF Crawler
<1>9. more => Page(r) < LastPage BY <1>0
<1>10. crawl' = [crawl EXCEPT ![r] = c] BY <1>0
<1>11. c \in Crawler BY <1>7, HandlerRow
<1>12. c.at = "save" => ~c.more \/ (IF TenantOf(r) \in Lever THEN c.skip ELSE c.cur) + 1 < LastPage
  <2>1. CASE blank BY <1>7, <2>1, HandlerRow
  <2>2. CASE ~blank BY <1>8, <1>9, <2>2 DEF Page
  <2>. QED BY <2>1, <2>2
<1>13. cursor' \in [Tenants -> Tokens]
  <2>1. 0 \in Tokens BY BoardAssumption DEF Tokens
  <2>. QED BY <1>0, <2>1, InvParts
<1>14. fetch' = [x \in DOMAIN fetch |->
                  IF x[1] = r /\ x[2] \in new /\ x[3] = "sent" THEN fetch[x] + 1 ELSE fetch[x]]
  BY <1>0
<1>. HIDE DEF new, c
<1>15. fetch' \in [Runs \X Postings \X Stages -> Nat] BY <1>14, InvParts
<1>16. \A x \in Runs \X Postings \X Stages : fetch'[x] > 0 => fetch[x] > 0 \/ x[1] = r
  BY <1>14, InvParts
<1>17. Owned' /\ PageKept' /\ crawl' \in [Runs -> Crawler]
  BY <1>1, <1>2, <1>3, <1>10, <1>11, <1>12, <1>16, HandlerMoves
<1>. QED BY <1>1, <1>3, <1>13, <1>15, <1>17, InvParts, Assembled

\* A handler that leaves the listing changes its row of runs only in its errors.
LEMMA ErrorRow ==
  ASSUME Inv, NEW r \in Runs, Used(r), NEW b \in BOOLEAN, runs' = [runs EXCEPT ![r].errors = b]
  PROVE  runs' \in [Runs -> Run] /\ Keeps /\ Numbered'
<1>1. runs[r] \in Run BY InvParts
<1>2. [runs[r] EXCEPT !.errors = b] \in Run BY <1>1, RunRow
<1>3. [runs[r] EXCEPT !.errors = b].tenant = runs[r].tenant /\ [runs[r] EXCEPT !.errors = b].status = runs[r].status
  BY <1>1 DEF Run
<1>4. runs' = [runs EXCEPT ![r] = [runs[r] EXCEPT !.errors = b]] OBVIOUS
<1>. QED BY <1>2, <1>3, <1>4, RunChanged DEF Used

LEMMA ListEndInv == ASSUME Inv, NEW r \in Runs, ListFails(r) \/ ListMissing(r) PROVE Inv'
<1>1. Used(r) BY Active DEF ListFails, ListMissing, At
<1>a. crawl[r] \in Crawler /\ runs[r].errors \in BOOLEAN BY InvParts DEF Run
<1>2. CASE ListFails(r)
  <2>0. PICK kind \in {"http", "network", "garbled"} :
          /\ crawl' = [crawl EXCEPT ![r] = Seen([crawl[r] EXCEPT !.ok = @ \/ kind = "garbled"])]
          /\ runs' = [runs EXCEPT ![r].errors = @ \/ kind = "http"]
    BY <1>2 DEF ListFails
  <2>. DEFINE c == Seen([crawl[r] EXCEPT !.ok = @ \/ kind = "garbled"])
  <2>a. (crawl[r].ok \/ kind = "garbled") \in BOOLEAN BY <1>a DEF Crawler
  <2>b. [crawl[r] EXCEPT !.ok = @ \/ kind = "garbled"] \in Crawler BY <1>a, <2>a, HandlerRow
  <2>1. c \in Crawler /\ c.at = "count" BY <2>b, HandlerRow
  <2>2. crawl' = [crawl EXCEPT ![r] = c] BY <2>0
  <2>3. UNCHANGED <<tenants, cursor, open, msg, fetch, adding, budget, deaths, fallen, outrun>> BY <1>2 DEF ListFails
  <2>4. runs' \in [Runs -> Run] /\ Keeps /\ Numbered'
    <3>1. (runs[r].errors \/ kind = "http") \in BOOLEAN OBVIOUS
    <3>. QED BY <1>1, <2>0, <3>1, ErrorRow
  <2>. HIDE DEF c
  <2>5. Owned' /\ PageKept' /\ crawl' \in [Runs -> Crawler]
    BY <1>1, <2>1, <2>2, <2>3, <2>4, HandlerMoves
  <2>. QED BY <2>3, <2>4, <2>5, InvParts, Assembled
<1>3. CASE ListMissing(r)
  <2>. DEFINE again == crawl[r].saved # 0 /\ crawl[r].cur = crawl[r].saved /\ ~crawl[r].reset
              restart == [Asking(r) EXCEPT !.cur = 0, !.skip = 0, !.reset = TRUE]
              c == IF again THEN restart ELSE Seen(crawl[r])
  <2>1. crawl' = [crawl EXCEPT ![r] = c] /\ cursor' = [cursor EXCEPT ![TenantOf(r)] = 0]
        /\ runs' = [runs EXCEPT ![r].errors = TRUE]
    BY <1>3 DEF ListMissing
  <2>2. Asking(r) \in Crawler /\ Asking(r).at = "list" BY <1>3, <1>a, HandlerRow DEF Asking, ListMissing, At
  <2>3. 0 \in Tokens BY BoardAssumption DEF Tokens
  <2>4. restart \in Crawler /\ restart.at = "list" BY <2>2, <2>3 DEF Crawler
  <2>5. c \in Crawler /\ c.at # "save" BY <2>4, <1>a, HandlerRow
  <2>6. UNCHANGED <<tenants, open, msg, fetch, adding, budget, deaths, fallen, outrun>> BY <1>3 DEF ListMissing
  <2>7. runs' \in [Runs -> Run] /\ Keeps /\ Numbered' BY <1>1, <2>1, ErrorRow
  <2>8. cursor' \in [Tenants -> Tokens] BY <2>1, <2>3, InvParts
  <2>. HIDE DEF c
  <2>9. Owned' /\ PageKept' /\ crawl' \in [Runs -> Crawler]
    BY <1>1, <2>1, <2>5, <2>6, <2>7, HandlerMoves
  <2>. QED BY <2>6, <2>7, <2>8, <2>9, InvParts, Assembled
<1>. QED BY <1>2, <1>3

\* A handler that returns, raises or dies.
LEMMA HandlerLeaves ==
  ASSUME Inv, Keeps, NEW r \in Runs, Used(r), fetch' = fetch,
         NEW s \in {"ready", "dead", "done"}, msg' = [msg EXCEPT ![r].state = s],
         crawl' = [crawl EXCEPT ![r] = Resting]
  PROVE  Owned' /\ PageKept' /\ crawl' \in [Runs -> Crawler] /\ msg' \in [Runs -> Message]
<1>1. msg' \in [Runs -> Message] /\ \A x \in Runs \ {r} : msg'[x] = msg[x] BY MessageStates
<1>2. Owned' /\ PageKept' /\ crawl' \in [Runs -> Crawler] BY <1>1, Rests, HandlerMoves
<1>. QED BY <1>1, <1>2

LEMMA Raised ==
  ASSUME NEW r \in Runs, Raise(r)
  PROVE  /\ crawl' = [crawl EXCEPT ![r] = Resting]
         /\ \E s \in {"ready", "dead", "done"} : msg' = [msg EXCEPT ![r].state = s]
<1>1. (IF msg[r].tries < MaxDeliver THEN "ready" ELSE "dead") \in {"ready", "dead", "done"} OBVIOUS
<1>. QED BY <1>1 DEF Raise, GivenBack

LEMMA LeaveInv ==
  ASSUME Inv, NEW r \in Runs,
         ListRaises(r) \/ CrawlEnds(r) \/ CrawlDies(r) \/ \E p \in Postings : CloseRaises(r, p)
  PROVE  Inv'
<1>1. Used(r) BY Active DEF ListRaises, CrawlEnds, CrawlDies, CloseRaises, At
<1>2. CASE ListRaises(r)
  <2>1. UNCHANGED <<tenants, cursor, open, fetch, adding, budget, deaths, fallen, outrun>> BY <1>2 DEF ListRaises
  <2>2. runs' \in [Runs -> Run] /\ Keeps /\ Numbered' BY <1>1, <1>2, RunFinished DEF ListRaises
  <2>3. Owned' /\ PageKept' /\ crawl' \in [Runs -> Crawler] /\ msg' \in [Runs -> Message]
    BY <1>1, <1>2, <2>1, <2>2, HandlerLeaves DEF ListRaises, Return
  <2>. QED BY <2>1, <2>2, <2>3, InvParts, Assembled
<1>3. CASE CrawlEnds(r)
  <2>1. UNCHANGED <<tenants, cursor, open, fetch, adding, budget, deaths, fallen, outrun>> BY <1>3 DEF CrawlEnds
  <2>2. runs' \in [Runs -> Run] /\ Keeps /\ Numbered'
    <3>1. CASE crawl[r].seen = {}
      <4>1. (IF crawl[r].ok THEN "succeeded" ELSE "failed") \in {"succeeded", "failed"} OBVIOUS
      <4>. QED BY <1>1, <1>3, <3>1, <4>1, RunFinished DEF CrawlEnds
    <3>2. CASE crawl[r].seen # {} BY <1>3, <3>2, SameRuns, InvParts DEF CrawlEnds
    <3>. QED BY <3>1, <3>2
  <2>3. Owned' /\ PageKept' /\ crawl' \in [Runs -> Crawler] /\ msg' \in [Runs -> Message]
    BY <1>1, <1>3, <2>1, <2>2, HandlerLeaves DEF CrawlEnds, Return
  <2>. QED BY <2>1, <2>2, <2>3, InvParts, Assembled
<1>4. CASE CrawlDies(r) \/ \E p \in Postings : CloseRaises(r, p)
  <2>1. /\ UNCHANGED <<tenants, cursor, open, runs, fetch, adding, fallen, outrun>>
        /\ {budget', deaths'} \subseteq Nat /\ Raise(r)
    <3>1. CASE CrawlDies(r) BY <3>1, InvParts DEF CrawlDies, Death, Event
    <3>2. ASSUME NEW p \in Postings, CloseRaises(r, p)
          PROVE  /\ UNCHANGED <<tenants, cursor, open, runs, fetch, adding, fallen, outrun>>
                 /\ {budget', deaths'} \subseteq Nat /\ Raise(r)
      BY <3>2, InvParts DEF CloseRaises
    <3>. QED BY <1>4, <3>1, <3>2
  <2>2. Keeps /\ Numbered' BY <2>1, SameRuns
  <2>3. PICK s \in {"ready", "dead", "done"} : msg' = [msg EXCEPT ![r].state = s] BY <2>1, Raised
  <2>5. crawl' = [crawl EXCEPT ![r] = Resting] BY <2>1, Raised
  <2>4. Owned' /\ PageKept' /\ crawl' \in [Runs -> Crawler] /\ msg' \in [Runs -> Message]
    BY <1>1, <2>1, <2>2, <2>3, <2>5, HandlerLeaves
  <2>. QED BY <2>1, <2>2, <2>4, InvParts, Assembled
<1>. QED BY <1>2, <1>3, <1>4

LEMMA SavePageInv == ASSUME Inv, NEW r \in Runs, SavePage(r) PROVE Inv'
<1>. DEFINE lever == TenantOf(r) \in Lever
            next == IF lever THEN crawl[r].skip + 1 ELSE crawl[r].cur + 1
            stop == ~crawl[r].more \/ next \in crawl[r].asked \/ Cardinality(crawl[r].asked) >= MaxPages
            none == ~crawl[r].more \/ (next \in crawl[r].asked /\ ~lever)
            skip == IF lever THEN next ELSE crawl[r].skip
            on == [crawl[r] EXCEPT !.at = "list", !.cur = next, !.skip = skip]
            c == IF stop THEN Seen(crawl[r]) ELSE on
<1>1. Used(r) BY Active DEF SavePage, At
<1>2. cursor' = [cursor EXCEPT ![TenantOf(r)] = IF none THEN 0 ELSE next] BY DEF SavePage
<1>3. crawl' = [crawl EXCEPT ![r] = c] BY DEF SavePage
<1>4. UNCHANGED <<tenants, open, runs, msg, fetch, adding, budget, deaths, fallen, outrun>> BY DEF SavePage
<1>5. crawl[r] \in Crawler BY InvParts
<1>6. crawl[r].more => next \in Tokens
  <2>1. crawl[r].cur \in Nat /\ crawl[r].skip \in Nat /\ LastPage \in Nat
    BY <1>5, BoardAssumption DEF Crawler, Tokens
  <2>2. Page(r) = next BY DEF Page
  <2>3. crawl[r].more => Page(r) < LastPage BY DEF Inv, PageKept, SavePage
  <2>. HIDE DEF next
  <2>4. next \in Nat BY <2>1 DEF next
  <2>. QED BY <2>1, <2>2, <2>3, <2>4 DEF Tokens
<1>7. 0 \in Tokens BY BoardAssumption DEF Tokens
<1>. HIDE DEF next
<1>8. cursor' \in [Tenants -> Tokens] BY <1>2, <1>6, <1>7, InvParts
<1>9. c \in Crawler /\ c.at # "save"
  <2>1. CASE stop BY <1>5, <2>1, HandlerRow
  <2>2. CASE ~stop
    <3>1. next \in Tokens /\ skip \in Tokens BY <1>5, <1>6, <2>2 DEF Crawler
    <3>2. on \in Crawler /\ on.at = "list" BY <1>5, <3>1 DEF Crawler
    <3>. QED BY <2>2, <3>2
  <2>. QED BY <2>1, <2>2
<1>. HIDE DEF c
<1>10. Keeps /\ Numbered' BY <1>4, SameRuns
<1>11. Owned' /\ PageKept' /\ crawl' \in [Runs -> Crawler]
  BY <1>1, <1>3, <1>4, <1>9, <1>10, HandlerMoves
<1>. QED BY <1>4, <1>8, <1>10, <1>11, InvParts, Assembled

\* A handler that only moves on to another place.
LEMMA HandlerGoes ==
  ASSUME Inv, NEW r \in Runs, Used(r), NEW c \in Crawler, c.at # "save", crawl' = [crawl EXCEPT ![r] = c],
         open' \subseteq Tenants \X Postings,
         UNCHANGED <<tenants, cursor, runs, msg, fetch, adding, budget, deaths, fallen, outrun>>
  PROVE  Inv'
<1>1. Keeps /\ Numbered' BY SameRuns
<1>2. Owned' /\ PageKept' /\ crawl' \in [Runs -> Crawler] BY <1>1, HandlerMoves
<1>. QED BY <1>1, <1>2, InvParts, Assembled

LEMMA PruneInv ==
  ASSUME Inv, NEW r \in Runs, Prune(r) \/ \E p \in Postings : Close(r, p)
  PROVE  Inv'
<1>1. Used(r) BY Active DEF Prune, Close, At
<1>2. crawl[r] \in Crawler /\ open \subseteq Tenants \X Postings BY InvParts
<1>3. \A S \in SUBSET Postings, at \in {"end", "close"} :
        [crawl[r] EXCEPT !.doomed = S, !.at = at] \in Crawler /\ [crawl[r] EXCEPT !.doomed = S, !.at = at].at = at
  BY <1>2 DEF Crawler
<1>4. CASE Prune(r)
  <2>1. PICK S \in SUBSET Postings : crawl' = [crawl EXCEPT ![r].doomed = S, ![r].at = IF S = {} THEN "end" ELSE "close"]
    BY <1>4 DEF Prune
  <2>. DEFINE c == [crawl[r] EXCEPT !.doomed = S, !.at = IF S = {} THEN "end" ELSE "close"]
  <2>2. crawl' = [crawl EXCEPT ![r] = c] BY <2>1
  <2>3. c \in Crawler /\ c.at # "save" BY <1>3
  <2>4. UNCHANGED <<tenants, cursor, open, runs, msg, fetch, adding, budget, deaths, fallen, outrun>> BY <1>4 DEF Prune
  <2>. HIDE DEF c
  <2>. QED BY <1>1, <1>2, <2>2, <2>3, <2>4, HandlerGoes
<1>5. ASSUME NEW p \in Postings, Close(r, p) PROVE Inv'
  <2>. DEFINE at == IF crawl[r].doomed = {p} THEN "end" ELSE "close"
              c == [crawl[r] EXCEPT !.doomed = crawl[r].doomed \ {p}, !.at = at]
  <2>1. crawl[r].at = "close" BY <1>5 DEF Close, At
  <2>2. crawl' = [crawl EXCEPT ![r] = c] BY <1>5, <2>1 DEF Close
  <2>3. crawl[r].doomed \ {p} \in SUBSET Postings BY <1>2 DEF Crawler
  <2>4. c \in Crawler /\ c.at # "save" BY <1>3, <2>3
  <2>5. open' \subseteq Tenants \X Postings BY <1>2, <1>5 DEF Close
  <2>6. UNCHANGED <<tenants, cursor, runs, msg, fetch, adding, budget, deaths, fallen, outrun>> BY <1>5 DEF Close
  <2>. HIDE DEF c
  <2>. QED BY <1>1, <2>2, <2>4, <2>5, <2>6, HandlerGoes
<1>. QED BY <1>4, <1>5

LEMMA CountsInv == ASSUME Inv, NEW r \in Runs, SetCounts(r) PROVE Inv'
<1>1. Used(r) /\ runs[r].status # "none" BY Active DEF SetCounts, At, Used
<1>2. crawl[r] \in Crawler /\ runs[r] \in Run BY InvParts
<1>3. Expected(r) \in Nat
  <2>1. IsFiniteSet(crawl[r].seen) BY <1>2, BoardAssumption, FS_Subset DEF Crawler
  <2>. QED BY <2>1, FS_CardinalityType DEF Expected
<1>. DEFINE row == [runs[r] EXCEPT !.expected = Expected(r)]
            c == [crawl[r] EXCEPT !.at = IF crawl[r].ok THEN "prune" ELSE "end"]
<1>4. row \in Run /\ row.tenant = runs[r].tenant /\ row.status = runs[r].status
  <2>1. row \in Run BY <1>2, <1>3, RunRow
  <2>. QED BY <1>2, <2>1 DEF Run
<1>5. runs' = [runs EXCEPT ![r] = row] /\ crawl' = [crawl EXCEPT ![r] = c] BY DEF SetCounts, Goto
<1>6. c \in Crawler /\ c.at # "save" BY <1>2, HandlerRow
<1>7. UNCHANGED <<tenants, cursor, open, msg, fetch, adding, budget, deaths, fallen>> BY DEF SetCounts
<1>8. outrun' \subseteq Runs BY InvParts DEF SetCounts
<1>. HIDE DEF row, c
<1>9. runs' \in [Runs -> Run] /\ Keeps /\ Numbered' BY <1>1, <1>4, <1>5, RunChanged
<1>10. Owned' /\ PageKept' /\ crawl' \in [Runs -> Crawler] BY <1>1, <1>5, <1>6, <1>7, <1>9, HandlerMoves
<1>. QED BY <1>7, <1>8, <1>9, <1>10, InvParts, Assembled

-----------------------------------------------------------------------------
\* The steps of the fetches of a run, and of its message.

LEMMA Elsewhere ==
  ASSUME Inv, Keeps, Numbered', runs' \in [Runs -> Run], UNCHANGED <<tenants, cursor, crawl, adding, outrun>>,
         open' \subseteq Tenants \X Postings, {budget', deaths'} \subseteq Nat, fallen' \in [Runs \X Postings -> Nat],
         msg' \in [Runs -> Message], fetch' \in [Runs \X Postings \X Stages -> Nat],
         \A x \in Runs : msg'[x].state # "none" => msg[x].state # "none",
         \A x \in Runs \X Postings \X Stages : fetch'[x] > 0 => fetch[x] > 0 \/ Used(x[1])
  PROVE  Inv'
<1>1. \A x \in Runs \X Postings \X Stages : fetch'[x] > 0 => fetch[x] > 0 \/ Used(x[1])' BY DEF Keeps
<1>2. Owned' BY <1>1, OwnedStep
<1>3. PageKept' BY PageStep
<1>. QED BY <1>2, <1>3, InvParts, Assembled

LEMMA Fetched ==
  ASSUME Inv, NEW r \in Runs, NEW p \in Postings, NEW stage \in Stages, Some(r, p, stage)
  PROVE  /\ Used(r)
         /\ \A next \in Stages : Advance(r, p, stage, next) /\ next # stage =>
              /\ fetch' \in [Runs \X Postings \X Stages -> Nat]
              /\ \A x \in Runs \X Postings \X Stages : fetch'[x] > 0 => fetch[x] > 0 \/ Used(x[1])
         /\ Drop(r, p, stage) =>
              /\ fetch' \in [Runs \X Postings \X Stages -> Nat]
              /\ \A x \in Runs \X Postings \X Stages : fetch'[x] > 0 => fetch[x] > 0 \/ Used(x[1])
<1>1. fetch \in [Runs \X Postings \X Stages -> Nat] BY InvParts
<1>2. <<r, p, stage>> \in Runs \X Postings \X Stages /\ fetch[<<r, p, stage>>] \in Nat \ {0}
  BY <1>1 DEF Some
<1>3. Used(r) BY <1>2 DEF Inv, Owned
<1>4. ASSUME NEW next \in Stages, Advance(r, p, stage, next), next # stage
      PROVE  /\ fetch' \in [Runs \X Postings \X Stages -> Nat]
             /\ \A x \in Runs \X Postings \X Stages : fetch'[x] > 0 => fetch[x] > 0 \/ Used(x[1])
  <2>. DEFINE a == <<r, p, stage>>
              b == <<r, p, next>>
  <2>1. a \in Runs \X Postings \X Stages /\ b \in Runs \X Postings \X Stages /\ a # b /\ b[1] = r
    BY <1>4
  <2>2. fetch' = [fetch EXCEPT ![a] = fetch[a] - 1, ![b] = fetch[b] + 1] BY <1>1, <1>4, <2>1 DEF Advance
  <2>3. fetch[a] \in Nat \ {0} /\ fetch[b] \in Nat BY <1>1, <1>2, <2>1
  <2>. HIDE DEF a, b
  <2>. QED BY <1>1, <1>3, <2>1, <2>2, <2>3
<1>5. ASSUME Drop(r, p, stage)
      PROVE  /\ fetch' \in [Runs \X Postings \X Stages -> Nat]
             /\ \A x \in Runs \X Postings \X Stages : fetch'[x] > 0 => fetch[x] > 0 \/ Used(x[1])
  BY <1>1, <1>2, <1>5 DEF Drop
<1>. QED BY <1>3, <1>4, <1>5

LEMMA Lapsed ==
  ASSUME Inv, NEW r \in Runs, NEW p \in Postings, NEW stage \in Stages \ {"sent"}, Some(r, p, stage), Lapse(r, p, stage)
  PROVE  /\ fetch' \in [Runs \X Postings \X Stages -> Nat] /\ {budget', deaths'} \subseteq Nat
         /\ fallen' \in [Runs \X Postings -> Nat]
         /\ \A x \in Runs \X Postings \X Stages : fetch'[x] > 0 => fetch[x] > 0 \/ Used(x[1])
<1>1. "sent" \in Stages BY DEF Stages
<1>2. {budget', deaths'} \subseteq Nat BY InvParts DEF Lapse, Death, Event
<1>3. fallen' \in [Runs \X Postings -> Nat] BY InvParts DEF Lapse
<1>. QED BY <1>1, <1>2, <1>3, Fetched DEF Lapse

LEMMA Settled ==
  ASSUME Inv, NEW r \in Runs, NEW p \in Postings, NEW stage \in Stages \ {"sent"}, Some(r, p, stage), Settle(r, p, stage)
  PROVE  /\ fetch' \in [Runs \X Postings \X Stages -> Nat] /\ {budget', deaths'} \subseteq Nat
         /\ fallen' \in [Runs \X Postings -> Nat]
         /\ \A x \in Runs \X Postings \X Stages : fetch'[x] > 0 => fetch[x] > 0 \/ Used(x[1])
<1>1. CASE Drop(r, p, stage) /\ UNCHANGED <<budget, deaths, fallen>> BY <1>1, Fetched, InvParts
<1>2. CASE Lapse(r, p, stage) BY <1>2, Lapsed
<1>. QED BY <1>1, <1>2 DEF Settle

\* A field of a started run's row changes.
LEMMA RowChanged ==
  ASSUME Inv, NEW r \in Runs, Used(r), NEW row \in Run, row.tenant = runs[r].tenant,
         row.status = runs[r].status, runs' = [runs EXCEPT ![r] = row]
  PROVE  runs' \in [Runs -> Run] /\ Keeps /\ Numbered'
  BY RunChanged DEF Used

LEMMA FetchInv == ASSUME Inv, NEW r \in Runs, NEW p \in Postings, FetchStep(r, p) PROVE Inv'
<1>1. runs[r] \in Run /\ "sent" \in Stages /\ "filing" \in Stages /\ "counting" \in Stages /\ "closing" \in Stages
  BY InvParts DEF Stages
<1>2. CASE FetchAnswer(r, p)
  <2>0. PICK next \in {"filing", "counting"}, error \in BOOLEAN :
          Advance(r, p, "sent", next) /\ runs' = [runs EXCEPT ![r].errors = @ \/ error]
    BY <1>2 DEF FetchAnswer
  <2>1. Some(r, p, "sent") /\ UNCHANGED <<tenants, cursor, open, msg, crawl, adding, budget, deaths, fallen, outrun>>
    BY <1>2 DEF FetchAnswer
  <2>2. next \in Stages /\ next # "sent" BY <1>1
  <2>3. (runs[r].errors \/ error) \in BOOLEAN OBVIOUS
  <2>4. Used(r) BY <1>1, <2>1, Fetched
  <2>5. runs' \in [Runs -> Run] /\ Keeps /\ Numbered' BY <2>0, <2>3, <2>4, ErrorRow
  <2>6. /\ fetch' \in [Runs \X Postings \X Stages -> Nat]
        /\ \A x \in Runs \X Postings \X Stages : fetch'[x] > 0 => fetch[x] > 0 \/ Used(x[1])
    BY <1>1, <2>0, <2>1, <2>2, Fetched
  <2>. QED BY <2>1, <2>5, <2>6, InvParts, Elsewhere
<1>3. CASE FetchOrphan(r, p)
  <2>1. /\ Some(r, p, "sent") /\ Drop(r, p, "sent")
        /\ UNCHANGED <<tenants, cursor, open, runs, msg, crawl, adding, budget, deaths, fallen, outrun>>
    BY <1>3 DEF FetchOrphan
  <2>2. /\ fetch' \in [Runs \X Postings \X Stages -> Nat]
        /\ \A x \in Runs \X Postings \X Stages : fetch'[x] > 0 => fetch[x] > 0 \/ Used(x[1])
    BY <1>1, <2>1, Fetched
  <2>3. Keeps /\ Numbered' BY <2>1, SameRuns
  <2>. QED BY <2>1, <2>2, <2>3, InvParts, Elsewhere
<1>4. CASE FetchFiles(r, p)
  <2>1. /\ Some(r, p, "filing") /\ Advance(r, p, "filing", "counting")
        /\ UNCHANGED <<tenants, cursor, msg, crawl, adding, budget, deaths, fallen, outrun>>
    BY <1>4 DEF FetchFiles
  <2>2. Used(r) BY <1>1, <2>1, Fetched
  <2>3. /\ fetch' \in [Runs \X Postings \X Stages -> Nat]
        /\ \A x \in Runs \X Postings \X Stages : fetch'[x] > 0 => fetch[x] > 0 \/ Used(x[1])
    BY <1>1, <2>1, Fetched
  <2>4. open' \subseteq Tenants \X Postings BY <1>4, <2>2, InvParts DEF FetchFiles, Filed, Used
  <2>5. runs' \in [Runs -> Run] /\ Keeps /\ Numbered'
    <3>1. CASE ~Live(TenantOf(r)) BY <1>4, <3>1, SameRuns, InvParts DEF FetchFiles
    <3>2. CASE Live(TenantOf(r))
      <4>. DEFINE more(x) == runs[x].since \cup {p}
                  row(x) == IF TenantOf(x) = TenantOf(r) /\ runs[x].status # "queued"
                            THEN [runs[x] EXCEPT !.since = more(x)] ELSE runs[x]
      <4>1. runs' = [x \in Runs |-> row(x)] BY <1>4, <3>2 DEF FetchFiles
      <4>2. \A x \in Runs : runs[x] \in Run /\ more(x) \in SUBSET Postings BY InvParts DEF Run
      <4>3. \A x \in Runs : row(x) \in Run BY <4>2, RunRow
      <4>4. \A x \in Runs : row(x).tenant = runs[x].tenant /\ row(x).status = runs[x].status
        BY <4>2 DEF Run
      <4>. HIDE DEF row
      <4>. QED BY <4>1, <4>3, <4>4, SameRuns
    <3>. QED BY <3>1, <3>2
  <2>. QED BY <2>1, <2>3, <2>4, <2>5, InvParts, Elsewhere
<1>5. CASE FetchCounts(r, p)
  <2>. DEFINE n == runs[r].completed + 1
              row == [runs[r] EXCEPT !.completed = n]
  <2>1. /\ Some(r, p, "counting") /\ runs' = [runs EXCEPT ![r] = row]
        /\ \/ Advance(r, p, "counting", "closing") /\ UNCHANGED <<budget, deaths, fallen>>
           \/ Settle(r, p, "counting")
        /\ UNCHANGED <<tenants, cursor, open, msg, crawl, adding, outrun>>
    BY <1>5 DEF FetchCounts
  <2>2. Used(r) BY <1>1, <2>1, Fetched
  <2>3. /\ fetch' \in [Runs \X Postings \X Stages -> Nat] /\ {budget', deaths'} \subseteq Nat
        /\ fallen' \in [Runs \X Postings -> Nat]
        /\ \A x \in Runs \X Postings \X Stages : fetch'[x] > 0 => fetch[x] > 0 \/ Used(x[1])
    BY <1>1, <2>1, Fetched, Settled, InvParts
  <2>4. n \in Nat BY <1>1 DEF Run
  <2>5. row \in Run /\ row.tenant = runs[r].tenant /\ row.status = runs[r].status
    <3>1. row \in Run BY <1>1, <2>4, RunRow
    <3>. QED BY <1>1, <3>1 DEF Run
  <2>. HIDE DEF row
  <2>6. runs' \in [Runs -> Run] /\ Keeps /\ Numbered' BY <2>1, <2>2, <2>5, RowChanged
  <2>. QED BY <2>1, <2>3, <2>6, InvParts, Elsewhere
<1>6. CASE FetchFinishes(r, p)
  <2>1. /\ Some(r, p, "closing") /\ Settle(r, p, "closing") /\ runs' = Finished(runs, r, "succeeded")
        /\ UNCHANGED <<tenants, cursor, open, msg, crawl, adding, outrun>>
    BY <1>6 DEF FetchFinishes
  <2>2. Used(r) BY <1>1, <2>1, Fetched
  <2>3. /\ fetch' \in [Runs \X Postings \X Stages -> Nat] /\ {budget', deaths'} \subseteq Nat
        /\ fallen' \in [Runs \X Postings -> Nat]
        /\ \A x \in Runs \X Postings \X Stages : fetch'[x] > 0 => fetch[x] > 0 \/ Used(x[1])
    BY <1>1, <2>1, Settled
  <2>4. runs' \in [Runs -> Run] /\ Keeps /\ Numbered' BY <2>1, <2>2, RunFinished
  <2>. QED BY <2>1, <2>3, <2>4, InvParts, Elsewhere
<1>. QED BY <1>2, <1>3, <1>4, <1>5, <1>6 DEF FetchStep

LEMMA FetchDiesInv ==
  ASSUME Inv, NEW r \in Runs, NEW p \in Postings, NEW stage \in Stages, FetchDies(r, p, stage)
  PROVE  Inv'
<1>1. /\ Some(r, p, stage) /\ stage # "sent" /\ Lapse(r, p, stage)
      /\ UNCHANGED <<tenants, cursor, open, runs, msg, crawl, adding, outrun>>
  BY DEF FetchDies
<1>2. /\ fetch' \in [Runs \X Postings \X Stages -> Nat] /\ {budget', deaths'} \subseteq Nat
      /\ fallen' \in [Runs \X Postings -> Nat]
      /\ \A x \in Runs \X Postings \X Stages : fetch'[x] > 0 => fetch[x] > 0 \/ Used(x[1])
  BY <1>1, Lapsed
<1>3. Keeps /\ Numbered' BY <1>1, SameRuns
<1>. QED BY <1>1, <1>2, <1>3, InvParts, Elsewhere

LEMMA SendInv == ASSUME Inv, NEW r \in Runs, Send(r) \/ SendFails(r) PROVE Inv'
<1>1. PICK s \in {"ready", "lost"} : msg' = [msg EXCEPT ![r].state = s] BY DEF Send, SendFails
<1>2. /\ UNCHANGED <<tenants, cursor, open, runs, crawl, fetch, adding, fallen, outrun>>
      /\ {budget', deaths'} \subseteq Nat /\ msg[r].state = "unsent"
  BY InvParts DEF Send, SendFails, Death, Event
<1>3. msg' \in [Runs -> Message] /\ \A x \in Runs \ {r} : msg'[x] = msg[x] BY <1>1, MessageStates
<1>4. Keeps /\ Numbered' BY <1>2, SameRuns
<1>. QED BY <1>2, <1>3, <1>4, InvParts, Elsewhere

LEMMA InvStep == ASSUME Inv, [Next]_vars PROVE Inv'
<1>1. ASSUME NEW t \in Tenants, TenantStep(t) PROVE Inv' BY <1>1, TenantInv
<1>2. ASSUME NEW r \in Runs, CrawlStep(r) PROVE Inv'
  BY <1>2, StartInv, ListPageInv, ListEndInv, LeaveInv, SavePageInv, CountsInv, PruneInv DEF CrawlStep
<1>3. ASSUME NEW r \in Runs, NEW p \in Postings, FetchStep(r, p) PROVE Inv' BY <1>3, FetchInv
<1>4. ASSUME NEW r \in Runs, Send(r) \/ SendFails(r) PROVE Inv' BY <1>4, SendInv
<1>5. ASSUME NEW r \in Runs, CrawlDies(r) PROVE Inv' BY <1>5, LeaveInv
<1>6. ASSUME NEW r \in Runs, NEW p \in Postings, NEW stage \in Stages, FetchDies(r, p, stage) PROVE Inv'
  BY <1>6, FetchDiesInv
<1>7. CASE UNCHANGED vars
  <2>1. UNCHANGED <<tenants, cursor, open, runs, msg, crawl, fetch, adding, budget, deaths, fallen, outrun>>
    BY <1>7 DEF vars
  <2>2. Keeps /\ Numbered' BY <2>1, SameRuns
  <2>. QED BY <2>1, <2>2, InvParts, Elsewhere
<1>. QED BY <1>1, <1>2, <1>3, <1>4, <1>5, <1>6, <1>7 DEF Next, Work

\* Every state of a crawl is typed: a saved cursor is always a page of the board, and a
\* message or a handler always belongs to a run of a board, however deliveries repeat.
THEOREM TypeCorrect == Spec => []TypeInv
<1>1. Inv => TypeInv BY DEF Inv
<1>. QED BY <1>1, InvInit, InvStep, PTL DEF Spec

-----------------------------------------------------------------------------
\* Crawling implements the feed: what its steps do to the boards and the open postings.
Boards == [t \in Tenants |-> tenants[t].status]

LEMMA FeedStart == ASSUME Init PROVE Feed!FeedInit
<1>0. Inv BY InvInit
<1>1. Boards \in [Tenants -> {"new", "live", "gone"}] BY <1>0, InvParts DEF Boards
<1>2. open \subseteq {t \in Tenants : Boards[t] = "live"} \X Postings
  <2>1. CASE InitNew BY <2>1 DEF InitNew
  <2>2. CASE InitCrawled BY <2>2 DEF InitCrawled, Only, Boards
  <2>. QED BY <2>1, <2>2 DEF Init
<1>. QED BY <1>1, <1>2 DEF Feed!FeedInit, Boards

LEMMA BoardMoves ==
  ASSUME Inv, NEW t \in Tenants, NEW row \in [status: {"new", "live", "gone"}, enabled: BOOLEAN],
         tenants' = [tenants EXCEPT ![t] = row], NEW s, row.status = s
  PROVE  Boards' = [Boards EXCEPT ![t] = s]
<1>1. \A u \in Tenants : tenants'[u] = IF u = t THEN row ELSE tenants[u] BY InvParts
<1>2. \A u \in Tenants : tenants'[u].status = IF u = t THEN s ELSE tenants[u].status BY <1>1
<1>3. Boards' = [u \in Tenants |-> IF u = t THEN s ELSE tenants[u].status] BY <1>2 DEF Boards
<1>. QED BY <1>3 DEF Boards

\* A step of a user: a board is connected, or removed with what it shows, or nothing the
\* feed can tell.
LEMMA FeedTenant ==
  ASSUME Inv, NEW t \in Tenants, TenantStep(t)
  PROVE  Feed!FeedNext \/ UNCHANGED <<Boards, open>>
<1>1. ASSUME NEW enabled \in BOOLEAN, AddBoard(t, enabled) PROVE Feed!FeedNext \/ UNCHANGED <<Boards, open>>
  <2>. DEFINE row == [status |-> "live", enabled |-> enabled]
  <2>1. tenants' = [tenants EXCEPT ![t] = row] /\ open' = open /\ tenants[t].status # "gone" BY <1>1 DEF AddBoard
  <2>2. row \in [status: {"new", "live", "gone"}, enabled: BOOLEAN] /\ row.status = "live" OBVIOUS
  <2>. HIDE DEF row
  <2>3. Boards' = [Boards EXCEPT ![t] = "live"] BY <2>1, <2>2, BoardMoves
  <2>4. Boards[t] \in {"new", "live"} BY <2>1, InvParts DEF Boards
  <2>5. CASE Boards[t] = "new"
    <3>1. Feed!ConnectBoard(t) BY <2>1, <2>3, <2>5 DEF Feed!ConnectBoard, Boards
    <3>. QED BY <3>1 DEF Feed!FeedNext
  <2>6. CASE Boards[t] = "live"
    <3>1. Boards' = Boards BY <2>3, <2>6 DEF Boards
    <3>. QED BY <2>1, <3>1
  <2>. QED BY <2>4, <2>5, <2>6
<1>2. CASE DeleteBoard(t)
  <2>1. /\ tenants' = [tenants EXCEPT ![t] = Gone] /\ open' = {x \in open : x[1] # t} /\ Boards[t] = "live"
    BY <1>2 DEF DeleteBoard, Live, Boards, Gone
  <2>2. Gone \in [status: {"new", "live", "gone"}, enabled: BOOLEAN] /\ Gone.status = "gone" BY DEF Gone
  <2>3. Boards' = [Boards EXCEPT ![t] = "gone"] BY <2>1, <2>2, BoardMoves
  <2>4. Feed!RemoveBoard(t) BY <2>1, <2>3 DEF Feed!RemoveBoard, Boards
  <2>. QED BY <2>4 DEF Feed!FeedNext
<1>3. ASSUME UNCHANGED <<tenants, open>> PROVE UNCHANGED <<Boards, open>> BY <1>3 DEF Boards
<1>4. CASE PreflightFails(t) \/ PreflightHeals(t) \/ PreflightPasses(t) \/ CrawlNew(t) \/ AddEnds(t)
           \/ Refresh(t) \/ Schedule(t)
  BY <1>3, <1>4 DEF PreflightFails, PreflightHeals, PreflightPasses, CrawlNew, AddEnds, Refresh, Schedule
<1>. QED BY <1>1, <1>2, <1>4 DEF TenantStep, BoardStep

\* A fetch that files, and a crawl that closes, do so for a board that is connected.
LEMMA FeedFiles ==
  ASSUME Inv, NEW r \in Runs, NEW p \in Postings, FetchFiles(r, p)
  PROVE  Feed!FeedNext \/ UNCHANGED <<Boards, open>>
<1>1. Boards' = Boards BY DEF FetchFiles, Boards
<1>2. CASE ~Live(TenantOf(r)) BY <1>1, <1>2 DEF FetchFiles, Filed
<1>3. CASE Live(TenantOf(r))
  <2>0. Some(r, p, "filing") /\ "filing" \in Stages BY DEF FetchFiles, Stages
  <2>1. TenantOf(r) \in Tenants BY <2>0, Fetched DEF Used
  <2>2. open' = open \cup {<<TenantOf(r), p>>} /\ Boards[TenantOf(r)] = "live"
    BY <1>3, <2>1 DEF FetchFiles, Filed, Live, Boards
  <2>3. Feed!File(TenantOf(r), p) BY <1>1, <2>2 DEF Feed!File, Boards
  <2>. QED BY <2>1, <2>3 DEF Feed!FeedNext
<1>. QED BY <1>2, <1>3

LEMMA FeedCloses ==
  ASSUME Inv, OnlyLiveShow, NEW r \in Runs, NEW p \in Postings, Close(r, p)
  PROVE  Feed!FeedNext
<1>1. Boards' = Boards BY DEF Close, Boards
<1>2. <<TenantOf(r), p>> \in open /\ open' = open \ {<<TenantOf(r), p>>} BY DEF Close
<1>3. TenantOf(r) \in Tenants BY <1>2, InvParts
<1>4. Boards[TenantOf(r)] = "live" BY <1>2, <1>3 DEF OnlyLiveShow, Feed!OnlyLiveShow, Boards
<1>5. Feed!Retire(TenantOf(r), p) BY <1>1, <1>2, <1>4 DEF Feed!Retire, Boards
<1>. QED BY <1>3, <1>5 DEF Feed!FeedNext

LEMMA FeedStep ==
  ASSUME Inv, OnlyLiveShow, [Next]_vars
  PROVE  Feed!FeedNext \/ UNCHANGED <<Boards, open>>
<1>1. ASSUME UNCHANGED <<tenants, open>> PROVE UNCHANGED <<Boards, open>> BY <1>1 DEF Boards
<1>2. ASSUME NEW r \in Runs, CrawlStep(r) PROVE Feed!FeedNext \/ UNCHANGED <<Boards, open>>
  <2>1. CASE CrawlStart(r) \/ CrawlOrphan(r) \/ ListPage(r) \/ ListFails(r) \/ ListMissing(r)
    BY <1>1, <2>1 DEF CrawlStart, CrawlOrphan, ListPage, ListFails, ListMissing
  <2>2. CASE ListRaises(r) \/ SavePage(r) \/ SetCounts(r) \/ Prune(r) \/ CrawlEnds(r)
    BY <1>1, <2>2 DEF ListRaises, SavePage, SetCounts, Prune, CrawlEnds
  <2>3. ASSUME NEW p \in Postings, CloseRaises(r, p) PROVE UNCHANGED <<Boards, open>>
    BY <1>1, <2>3 DEF CloseRaises
  <2>. QED BY <1>2, <2>1, <2>2, <2>3, FeedCloses DEF CrawlStep
<1>3. ASSUME NEW r \in Runs, NEW p \in Postings, FetchStep(r, p) PROVE Feed!FeedNext \/ UNCHANGED <<Boards, open>>
  <2>1. CASE FetchAnswer(r, p) \/ FetchOrphan(r, p) \/ FetchCounts(r, p) \/ FetchFinishes(r, p)
    BY <1>1, <2>1 DEF FetchAnswer, FetchOrphan, FetchCounts, FetchFinishes
  <2>. QED BY <1>3, <2>1, FeedFiles DEF FetchStep
<1>4. ASSUME NEW r \in Runs, Send(r) \/ SendFails(r) \/ CrawlDies(r) PROVE UNCHANGED <<Boards, open>>
  BY <1>1, <1>4 DEF Send, SendFails, CrawlDies
<1>5. ASSUME NEW r \in Runs, NEW p \in Postings, NEW stage \in Stages, FetchDies(r, p, stage)
      PROVE  UNCHANGED <<Boards, open>>
  BY <1>1, <1>5 DEF FetchDies
<1>6. CASE UNCHANGED vars BY <1>1, <1>6 DEF vars
<1>. QED BY <1>2, <1>3, <1>4, <1>5, <1>6, FeedTenant DEF Next, Work

\* The promise of the feed follows from its own steps.
LEMMA ShownInit == ASSUME Init PROVE OnlyLiveShow
  BY FeedStart DEF Feed!FeedInit, OnlyLiveShow, Feed!OnlyLiveShow

LEMMA ShownStep ==
  ASSUME Inv, OnlyLiveShow, Feed!FeedNext \/ UNCHANGED <<Boards, open>>
  PROVE  OnlyLiveShow'
<1>1. \A x \in open : x[1] \in Tenants /\ Boards[x[1]] = "live"
  BY InvParts DEF OnlyLiveShow, Feed!OnlyLiveShow, Boards
<1>2. SUFFICES \A x \in open' : Boards'[x[1]] = "live" BY DEF OnlyLiveShow, Feed!OnlyLiveShow, Boards
<1>3. CASE UNCHANGED <<Boards, open>> BY <1>1, <1>3
<1>4. ASSUME NEW t \in Tenants, Feed!ConnectBoard(t) \/ Feed!RemoveBoard(t) PROVE \A x \in open' : Boards'[x[1]] = "live"
  <2>1. PICK s \in {"live", "gone"} :
          /\ Boards' = [Boards EXCEPT ![t] = s]
          /\ s = "live" => open' = open
          /\ s = "gone" => open' = {x \in open : x[1] # t}
    BY <1>4 DEF Feed!ConnectBoard, Feed!RemoveBoard, Boards
  <2>. QED BY <1>1, <2>1 DEF Boards
<1>5. ASSUME NEW t \in Tenants, NEW p \in Postings, Feed!File(t, p) \/ Feed!Retire(t, p)
      PROVE  \A x \in open' : Boards'[x[1]] = "live"
  <2>1. Boards[t] = "live" /\ Boards' = Boards /\ open' \subseteq open \cup {<<t, p>>}
    BY <1>5 DEF Feed!File, Feed!Retire, Boards
  <2>. QED BY <1>1, <2>1
<1>. QED BY <1>3, <1>4, <1>5 DEF Feed!FeedNext

LEMMA AlwaysInv == Spec => [](Inv /\ OnlyLiveShow)
<1>1. Init => Inv /\ OnlyLiveShow BY InvInit, ShownInit
<1>2. Inv /\ OnlyLiveShow /\ [Next]_vars => (Inv /\ OnlyLiveShow)' BY InvStep, FeedStep, ShownStep
<1>. QED BY <1>1, <1>2, PTL DEF Spec

\* While no two store calls overlap, a posting in the feed is one of a connected board: neither a
\* fetch whose handler had begun when the board was deleted, nor a message delivered after that,
\* files it again.  (JobOverlap shows that calls which overlap do.)
THEOREM OnlyLiveShown == Spec => []OnlyLiveShow
  BY AlwaysInv, PTL

\* While no two store calls overlap, crawling with runs, pages, retries, deaths and many workers
\* implements the feed, in which postings of a connected board come and go.
THEOREM ImplementsFeed == Spec => FeedSpec
<1>1. Init => Feed!FeedInit BY FeedStart
<1>2. Inv /\ OnlyLiveShow /\ [Next]_vars => [Feed!FeedNext]_(Feed!feedVars)
  BY FeedStep DEF Feed!feedVars, Boards
<1>. QED BY <1>1, <1>2, AlwaysInv, PTL DEF Spec, FeedSpec, Feed!FeedSpec

-----------------------------------------------------------------------------
(* How many copies of its messages are left of a run.  A copy is a posting, *)
(* a stage and a number, so that what a step does to their count is what it *)
(* does to a set.                                                          *)

Fetches == Runs \X Postings \X Stages
Copies(f, r, stages) == {c \in Postings \X stages \X Nat : c[3] \in 1 .. f[<<r, c[1], c[2]>>]}
One(s, stages) == IF s \in stages THEN 1 ELSE 0

\* A copy more, or one less, at a stage.
Changes(f, g, r, p, s, n) ==
  /\ g \in [Fetches -> Nat]
  /\ \A x \in Fetches : g[x] = IF x = <<r, p, s>> THEN f[x] + n ELSE f[x]

LEMMA CopyChanges ==
  ASSUME NEW f \in [Fetches -> Nat], NEW r \in Runs, NEW p \in Postings, NEW stages \in SUBSET Stages,
         NEW s \in Stages, IsFiniteSet(Copies(f, r, stages)), NEW n \in {-1, 1}, NEW g, Changes(f, g, r, p, s, n)
  PROVE  /\ IsFiniteSet(Copies(g, r, stages))
         /\ Cardinality(Copies(g, r, stages)) = Cardinality(Copies(f, r, stages)) + n * One(s, stages)
<1>1. /\ <<r, p, s>> \in Fetches
      /\ \A q \in Postings, u \in stages :
           <<r, q, u>> \in Fetches /\ (<<r, q, u>> = <<r, p, s>> <=> q = p /\ u = s)
  BY DEF Fetches
<1>2. PICK k \in Nat : k = f[<<r, p, s>>] BY <1>1
<1>3. k + n \in Nat BY <1>1, <1>2 DEF Changes
<1>4. \A q \in Postings, u \in stages :
        /\ f[<<r, q, u>>] \in Nat
        /\ g[<<r, q, u>>] = IF q = p /\ u = s THEN k + n ELSE f[<<r, q, u>>]
  BY <1>1, <1>2 DEF Changes
<1>5. Cardinality(Copies(f, r, stages)) \in Nat BY FS_CardinalityType
<1>6. CASE s \notin stages
  <2>1. Copies(g, r, stages) = Copies(f, r, stages) BY <1>4, <1>6 DEF Copies
  <2>2. QED BY <1>5, <1>6, <2>1 DEF One
<1>7. CASE s \in stages /\ n = -1
  <2>1. ASSUME NEW q \in Postings, NEW u \in stages, NEW i \in Nat
        PROVE  i \in 1 .. g[<<r, q, u>>] <=> i \in 1 .. f[<<r, q, u>>] /\ <<q, u, i>> # <<p, s, k>>
    BY <1>2, <1>3, <1>4, <1>7
  <2>2. PICK C, c : C = Copies(f, r, stages) /\ c = <<p, s, k>> OBVIOUS
  <2>3. Copies(g, r, stages) = C \ {c} BY <2>1, <2>2 DEF Copies
  <2>4. c \in C /\ IsFiniteSet(C) BY <1>2, <1>3, <1>7, <2>2 DEF Copies
  <2>5. IsFiniteSet(C \ {c}) /\ Cardinality(C \ {c}) = Cardinality(C) - 1 BY <2>4, FS_RemoveElement
  <2>6. QED BY <1>5, <1>7, <2>2, <2>3, <2>5 DEF One
<1>8. CASE s \in stages /\ n = 1
  <2>1. ASSUME NEW q \in Postings, NEW u \in stages, NEW i \in Nat
        PROVE  i \in 1 .. g[<<r, q, u>>] <=> i \in 1 .. f[<<r, q, u>>] \/ <<q, u, i>> = <<p, s, k + 1>>
    BY <1>2, <1>4, <1>8
  <2>2. PICK C, c : C = Copies(f, r, stages) /\ c = <<p, s, k + 1>> OBVIOUS
  <2>3. Copies(g, r, stages) = C \cup {c} BY <1>8, <2>1, <2>2 DEF Copies
  <2>4. c \notin C /\ IsFiniteSet(C) BY <1>2, <2>2 DEF Copies
  <2>5. IsFiniteSet(C \cup {c}) /\ Cardinality(C \cup {c}) = Cardinality(C) + 1 BY <2>4, FS_AddElement
  <2>6. QED BY <1>5, <1>8, <2>2, <2>3, <2>5 DEF One
<1>9. QED BY <1>6, <1>7, <1>8

\* A copy goes on to another stage.
LEMMA CopyMoves ==
  ASSUME NEW f \in [Fetches -> Nat], NEW r \in Runs, NEW p \in Postings, NEW stages \in SUBSET Stages,
         NEW s \in Stages, NEW u \in Stages, s # u, f[<<r, p, s>>] > 0, IsFiniteSet(Copies(f, r, stages)),
         NEW g \in [Fetches -> Nat],
         \A x \in Fetches : g[x] = IF x = <<r, p, s>> THEN f[x] - 1 ELSE IF x = <<r, p, u>> THEN f[x] + 1 ELSE f[x]
  PROVE  /\ IsFiniteSet(Copies(g, r, stages))
         /\ Cardinality(Copies(g, r, stages)) = Cardinality(Copies(f, r, stages)) - One(s, stages) + One(u, stages)
<1> DEFINE h == [x \in Fetches |-> IF x = <<r, p, s>> THEN f[x] - 1 ELSE f[x]]
<1>1. Changes(f, h, r, p, s, -1) BY DEF Changes
<1>2. Changes(h, g, r, p, u, 1)
  <2>1. <<r, p, s>> # <<r, p, u>> OBVIOUS
  <2>2. QED BY <2>1 DEF Changes
<1> HIDE DEF h
<1>3. h \in [Fetches -> Nat] BY <1>1 DEF Changes
<1>4. /\ IsFiniteSet(Copies(h, r, stages))
      /\ Cardinality(Copies(h, r, stages)) = Cardinality(Copies(f, r, stages)) + (-1) * One(s, stages)
  BY <1>1, CopyChanges
<1>5. /\ IsFiniteSet(Copies(g, r, stages))
      /\ Cardinality(Copies(g, r, stages)) = Cardinality(Copies(h, r, stages)) + 1 * One(u, stages)
  BY <1>2, <1>3, <1>4, CopyChanges
<1>6. Cardinality(Copies(f, r, stages)) \in Nat BY FS_CardinalityType
<1>7. QED BY <1>4, <1>5, <1>6 DEF One

\* A message is sent for each posting of new.
LEMMA CopiesSent ==
  ASSUME NEW f \in [Fetches -> Nat], NEW r \in Runs, NEW new \in SUBSET Postings, NEW stages \in SUBSET Stages,
         "sent" \in stages, IsFiniteSet(Copies(f, r, stages)),
         NEW g, \A x \in Fetches : g[x] = IF x[1] = r /\ x[2] \in new /\ x[3] = "sent" THEN f[x] + 1 ELSE f[x]
  PROVE  /\ IsFiniteSet(Copies(g, r, stages))
         /\ Cardinality(Copies(g, r, stages)) = Cardinality(Copies(f, r, stages)) + Cardinality(new)
<1> DEFINE b == [p \in new |-> <<p, "sent", f[<<r, p, "sent">>] + 1>>]
           B == {c \in Postings \X stages \X Nat : c[1] \in new /\ c[2] = "sent" /\ c[3] = f[<<r, c[1], "sent">>] + 1}
<1>1. \A q \in Postings, u \in stages :
        /\ <<r, q, u>> \in Fetches /\ f[<<r, q, u>>] \in Nat
        /\ g[<<r, q, u>>] = IF q \in new /\ u = "sent" THEN f[<<r, q, u>>] + 1 ELSE f[<<r, q, u>>]
  BY DEF Fetches
<1>2. b \in Bijection(new, B)
  <2>1. \A p \in new : b[p] \in B BY <1>1
  <2>2. \A p, q \in new : b[p] = b[q] => p = q OBVIOUS
  <2>3. ASSUME NEW c \in B PROVE \E p \in new : b[p] = c
    <3>1. c[1] \in new /\ b[c[1]] = c BY DEF B
    <3>2. QED BY <3>1
  <2>4. b \in [new -> B] BY <2>1
  <2> HIDE DEF b, B
  <2>5. QED BY <2>2, <2>3, <2>4 DEF Bijection, Injection, Surjection, IsInjective
<1>3. IsFiniteSet(new) BY BoardAssumption, FS_Subset
<1>4. IsFiniteSet(B) /\ Cardinality(B) = Cardinality(new)
  <2>1. ExistsBijection(new, B) BY <1>2 DEF ExistsBijection
  <2> HIDE DEF B
  <2>2. QED BY <1>3, <2>1, FS_Bijection
<1>5. Copies(g, r, stages) = Copies(f, r, stages) \cup B
  <2>1. ASSUME NEW q \in Postings, NEW u \in stages, NEW i \in Nat
        PROVE  i \in 1 .. g[<<r, q, u>>] <=> i \in 1 .. f[<<r, q, u>>] \/ <<q, u, i>> \in B
    BY <1>1
  <2>2. QED BY <2>1 DEF Copies
<1>6. Copies(f, r, stages) \cap B = {} BY <1>1 DEF Copies
<1> HIDE DEF B
<1>7. Cardinality(new) \in Nat /\ Cardinality(Copies(f, r, stages)) \in Nat BY <1>3, FS_CardinalityType
<1>8. PICK C : C = Copies(f, r, stages) OBVIOUS
<1>9. IsFiniteSet(C) /\ IsFiniteSet(B) /\ C \cap B = {} /\ Copies(g, r, stages) = C \cup B BY <1>4, <1>5, <1>6, <1>8
<1>10. /\ IsFiniteSet(C \cup B)
       /\ Cardinality(C \cup B) = Cardinality(C) + Cardinality(B) - Cardinality(C \cap B)
  BY <1>9, FS_Union
<1>11. Cardinality(C \cap B) = 0 BY <1>9, FS_EmptySet
<1>12. QED BY <1>4, <1>7, <1>8, <1>9, <1>10, <1>11

-----------------------------------------------------------------------------
(* What is left of a run accounts for what its row says.                    *)

Before == {"sent", "filing", "counting"}
Present(r) == Cardinality(Copies(fetch, r, Stages))
Uncounted(r) == Cardinality(Copies(fetch, r, Before))
Reading == {"list", "save", "count"}
Listed == {"prune", "close", "end"}
InUse(r) == Used(r) /\ Live(TenantOf(r)) /\ ~Worn(r)
NoClosing(r) == \A p \in Postings : ~Some(r, p, "closing")

\* A run in flight has a message, which its handler holds.
Placed(r) ==
  /\ IsFiniteSet(Copies(fetch, r, Stages))
  /\ Used(r) => tenants[TenantOf(r)].status # "new"
  /\ runs[r].expected > 0 => Used(r)
  /\ runs[r].status \in InFlight => msg[r].state # "none"
  /\ crawl[r].at # "idle" <=> msg[r].state = "taken"
  /\ crawl[r].at # "idle" => msg[r].tries > 0
  /\ crawl[r].at \in Listed => runs[r].expected = Expected(r)
  /\ runs[r].status \in InFlight /\ msg[r].state = "done" => runs[r].expected > 0

\* The fetches that are left are enough to end the run, unless one was given up ...
Owing(r) ==
  InUse(r) =>
    /\ crawl[r].at \in Reading => Expected(r) <= runs[r].completed + Uncounted(r)
    /\ runs[r].expected <= runs[r].completed + Uncounted(r)
    /\ (/\ runs[r].status \in InFlight /\ runs[r].expected > 0
        /\ msg[r].state = "done" \/ crawl[r].at \in Listed)
         => r \in outrun \/ runs[r].completed < runs[r].expected \/ Present(r) > 0

\* ... and no more than that, but for those of handlers that died, if the listing was read once.
Bounded(r) ==
  /\ msg[r].tries = 0 => Present(r) = 0 /\ runs[r].completed = 0 /\ runs[r].expected = 0
  /\ msg[r].tries <= 1 =>
       /\ crawl[r].at \in Reading => /\ runs[r].expected = 0 /\ runs[r].status \notin Good
                                    /\ runs[r].completed + Present(r) <= Expected(r) + deaths
       /\ runs[r].expected = 0 /\ (crawl[r].at \in Listed \/ runs[r].status \in Good) => Present(r) <= deaths
       /\ runs[r].completed < runs[r].expected =>
            runs[r].status \notin Good /\ runs[r].completed + Present(r) <= runs[r].expected + deaths
       /\ runs[r].expected > 0 /\ runs[r].completed >= runs[r].expected =>
            Present(r) <= deaths + (IF runs[r].status \in Good THEN 0 ELSE 1)
       /\ runs[r].expected = 0 \/ runs[r].completed < runs[r].expected => NoClosing(r)

\* A run that reads as a success without its errors has fetches left that will tell.
Shown(r) ==
  InUse(r) /\ msg[r].tries <= 1 /\ runs[r].status = "succeeded" /\ runs[r].expected > 0 /\ runs[r].errors
    => Present(r) > 0

Sound(r) == Placed(r) /\ Owing(r) /\ Bounded(r) /\ Shown(r)
SoundInv == \A r \in Runs : Sound(r)

\* What a step leaves of a run that it is not about.
SameFetches(r) == \A p \in Postings, s \in Stages : fetch'[<<r, p, s>>] = fetch[<<r, p, s>>]
SameRow(r) ==
  /\ runs'[r].tenant = runs[r].tenant /\ runs'[r].status = runs[r].status /\ runs'[r].errors = runs[r].errors
  /\ runs'[r].expected = runs[r].expected /\ runs'[r].completed = runs[r].completed
Same(r) ==
  /\ SameFetches(r) /\ SameRow(r) /\ msg'[r] = msg[r] /\ crawl'[r] = crawl[r]
  /\ r \in outrun' <=> r \in outrun
\* Boards do not come back, and deaths only add up.
Onward ==
  /\ \A x \in Runs : Worn(x) => Worn(x)'
  /\ deaths \in Nat /\ deaths' \in Nat /\ deaths <= deaths'
  /\ \A t \in Tenants : tenants[t].status # "new" => tenants'[t].status # "new" /\ (Live(t)' => Live(t))

LEMMA Numbers ==
  ASSUME Inv, NEW r \in Runs, IsFiniteSet(Copies(fetch, r, Stages))
  PROVE  /\ Present(r) \in Nat /\ Uncounted(r) \in Nat /\ Uncounted(r) <= Present(r)
         /\ Expected(r) \in Nat /\ runs[r].expected \in Nat /\ runs[r].completed \in Nat /\ deaths \in Nat
         /\ msg[r].tries \in Nat /\ runs[r].errors \in BOOLEAN
<1>1. Copies(fetch, r, Before) \in SUBSET Copies(fetch, r, Stages) BY DEF Copies, Before, Stages
<1>2. /\ IsFiniteSet(Copies(fetch, r, Before))
      /\ Cardinality(Copies(fetch, r, Before)) <= Cardinality(Copies(fetch, r, Stages))
  BY <1>1, FS_Subset
<1>3. Present(r) \in Nat /\ Uncounted(r) \in Nat BY <1>2, FS_CardinalityType DEF Present, Uncounted
<1>4. crawl[r].seen \in SUBSET Postings BY InvParts DEF Crawler
<1>5. IsFiniteSet(crawl[r].seen) BY <1>4, BoardAssumption, FS_Subset
<1>6. Expected(r) \in Nat BY <1>5, FS_CardinalityType DEF Expected
<1>7. runs[r] \in Run /\ msg[r] \in Message /\ deaths \in Nat BY InvParts
<1>8. QED BY <1>2, <1>3, <1>6, <1>7 DEF Present, Uncounted, Run, Message

LEMMA UncountedType ==
  ASSUME NEW r \in Runs, IsFiniteSet(Copies(fetch, r, Stages))'
  PROVE  Uncounted(r)' \in Nat
<1>1. Copies(fetch', r, Before) \subseteq Copies(fetch', r, Stages) BY DEF Copies, Before, Stages
<1>2. IsFiniteSet(Copies(fetch', r, Before)) BY <1>1, FS_Subset
<1>3. QED BY <1>2, FS_CardinalityType DEF Uncounted

LEMMA SameCounts ==
  ASSUME NEW r \in Runs, SameFetches(r)
  PROVE  /\ Copies(fetch, r, Stages)' = Copies(fetch, r, Stages)
         /\ Present(r)' = Present(r) /\ Uncounted(r)' = Uncounted(r) /\ (NoClosing(r)' <=> NoClosing(r))
<1>1. Before \subseteq Stages /\ "closing" \in Stages BY DEF Before, Stages
<1>2. Copies(fetch', r, Stages) = Copies(fetch, r, Stages) BY DEF SameFetches, Copies
<1>3. Copies(fetch', r, Before) = Copies(fetch, r, Before) BY <1>1 DEF SameFetches, Copies
<1>4. NoClosing(r)' <=> NoClosing(r) BY <1>1 DEF SameFetches, NoClosing, Some
<1>5. QED BY <1>2, <1>3, <1>4 DEF Present, Uncounted

LEMMA SameSound ==
  ASSUME Inv, Onward, NEW r \in Runs, Sound(r), Same(r)
  PROVE  Sound(r)'
<1>1. /\ Copies(fetch, r, Stages)' = Copies(fetch, r, Stages)
      /\ Present(r)' = Present(r) /\ Uncounted(r)' = Uncounted(r) /\ (NoClosing(r)' <=> NoClosing(r))
  BY SameCounts DEF Same
<1>2. /\ Used(r)' <=> Used(r)
      /\ Used(r) => TenantOf(r)' = TenantOf(r) /\ TenantOf(r) \in Tenants
      /\ Expected(r)' = Expected(r)
  BY DEF Same, SameRow, Used, TenantOf, Expected
<1>3. /\ Used(r) /\ tenants[TenantOf(r)].status # "new" => tenants'[TenantOf(r)].status # "new"
      /\ Placed(r) /\ InUse(r)' => InUse(r)
  BY <1>2 DEF Onward, Placed, InUse, Live
<1>4. Placed(r)' BY <1>1, <1>2, <1>3 DEF Sound, Placed, Same, SameRow
<1>5. Owing(r)' BY <1>1, <1>2, <1>3 DEF Sound, Owing, Same, SameRow
<1>6. Bounded(r)'
  <2>1. IsFiniteSet(Copies(fetch, r, Stages)) BY DEF Sound, Placed
  <2>2. QED BY <1>1, <1>2, <2>1, Numbers DEF Sound, Bounded, Same, SameRow, Onward
<1>7. Shown(r)' BY <1>1, <1>2, <1>3 DEF Sound, Shown, Same, SameRow
<1>8. QED BY <1>4, <1>5, <1>6, <1>7 DEF Sound

LEMMA ActsSound ==
  ASSUME Inv, Onward, SoundInv, NEW r \in Runs, \A x \in Runs \ {r} : Same(x), Sound(r)'
  PROVE  SoundInv'
  BY SameSound DEF SoundInv

\* A step of one run's handler or fetches.
LEMMA OthersSame ==
  ASSUME NEW r \in Runs,
         \A x \in Runs \ {r} : /\ SameRow(x) /\ msg'[x] = msg[x] /\ crawl'[x] = crawl[x]
                               /\ x \in outrun' <=> x \in outrun,
         \A x \in Fetches : x[1] # r => fetch'[x] = fetch[x]
  PROVE  \A x \in Runs \ {r} : Same(x)
<1>1. ASSUME NEW x \in Runs \ {r} PROVE SameFetches(x) BY DEF SameFetches, Fetches
<1>2. QED BY <1>1 DEF Same

LEMMA FinishedRow ==
  ASSUME Inv, NEW rs \in [Runs -> Run], NEW r \in Runs, NEW s \in {"succeeded", "failed"}, runs' = Finished(rs, r, s)
  PROVE  /\ \A x \in Runs : /\ runs'[x].tenant = rs[x].tenant /\ runs'[x].expected = rs[x].expected
                            /\ runs'[x].completed = rs[x].completed /\ runs'[x].errors = rs[x].errors
         /\ \A x \in Runs \ {r} : runs'[x].status = rs[x].status
         /\ runs'[r].status = IF s = "succeeded" /\ rs[r].errors THEN "partial_success" ELSE s
<1> DEFINE ended == IF s = "succeeded" /\ rs[r].errors THEN "partial_success" ELSE s
           mark(x) == IF rs[x].finished THEN rs[x].after \cup {r} ELSE rs[x].after
           row(x) == IF x = r THEN [rs[r] EXCEPT !.status = ended, !.finished = TRUE, !.after = {}]
                     ELSE [rs[x] EXCEPT !.after = mark(x)]
<1>1. runs' = [x \in Runs |-> row(x)] BY DEF Finished
<1>2. \A x \in Runs : runs'[x] = row(x) /\ rs[x] \in Run BY <1>1
<1> HIDE DEF ended, mark
<1>3. \A x \in Runs : /\ row(x).tenant = rs[x].tenant /\ row(x).expected = rs[x].expected
                      /\ row(x).completed = rs[x].completed /\ row(x).errors = rs[x].errors
  BY <1>2 DEF Run
<1>4. (\A x \in Runs \ {r} : row(x).status = rs[x].status) /\ row(r).status = ended
  BY <1>2 DEF Run
<1> HIDE DEF row
<1>5. QED BY <1>2, <1>3, <1>4 DEF ended

\* A run that nobody started has no message, no handler and no fetch.
LEMMA UnusedRun ==
  ASSUME Inv, SoundInv, NEW n, n = NextRun, Free # {}
  PROVE  /\ n \in Runs /\ msg[n].state = "none" /\ crawl[n].at = "idle" /\ Present(n) = 0 /\ Uncounted(n) = 0
         /\ IsFiniteSet(Copies(fetch, n, Stages)) /\ NoClosing(n)
<1>1. n \in Runs /\ ~Used(n)
  <2>1. n \in Runs /\ runs[n].status = "none" BY NextRunFree DEF Inv, Runs
  <2>2. QED BY <2>1 DEF Used
<1>2. msg[n].state = "none" /\ crawl[n].at = "idle" BY <1>1 DEF Inv, Owned
<1>3. \A p \in Postings, s \in Stages : ~(fetch[<<n, p, s>>] > 0) BY <1>1 DEF Inv, Owned
<1>4. \A p \in Postings, s \in Stages : fetch[<<n, p, s>>] = 0 BY <1>1, <1>3, InvParts
<1>5. Copies(fetch, n, Stages) = {} BY <1>4 DEF Copies
<1>6. NoClosing(n) BY <1>3 DEF NoClosing, Some, Stages
<1>7. Present(n) = 0 /\ IsFiniteSet(Copies(fetch, n, Stages)) BY <1>5, FS_EmptySet DEF Present
<1>8. Uncounted(n) = 0 BY <1>1, <1>7, Numbers
<1>9. QED BY <1>1, <1>2, <1>6, <1>7, <1>8

\* The run that is started.
LEMMA NewSound ==
  ASSUME Inv, Onward, SoundInv, Free # {}, NEW n, n = NextRun, UNCHANGED <<crawl, fetch, outrun>>,
         runs'[n].tenant \in Tenants, tenants'[runs'[n].tenant].status # "new",
         runs'[n].expected = 0, runs'[n].completed = 0,
         runs'[n].status \in InFlight => msg'[n].state = "unsent",
         msg'[n].state \in {"none", "unsent"},
         \A x \in Runs \ {n} : SameRow(x) /\ msg'[x] = msg[x]
  PROVE  SoundInv'
<1>1. /\ n \in Runs /\ msg[n].state = "none" /\ crawl[n].at = "idle" /\ Present(n) = 0 /\ Uncounted(n) = 0
      /\ IsFiniteSet(Copies(fetch, n, Stages)) /\ NoClosing(n)
  BY UnusedRun
<1>2. \A x \in Runs : SameFetches(x) BY DEF SameFetches
<1>3. \A x \in Runs \ {n} : Same(x) BY <1>2 DEF Same
<1>4. /\ Copies(fetch, n, Stages)' = Copies(fetch, n, Stages)
      /\ Present(n)' = 0 /\ Uncounted(n)' = 0 /\ NoClosing(n)'
  BY <1>1, <1>2, SameCounts
<1>5. TenantOf(n)' = runs'[n].tenant /\ crawl'[n].at = "idle" BY <1>1 DEF TenantOf
<1>6. Placed(n)' BY <1>1, <1>4, <1>5 DEF Placed, Reading, Listed
<1>7. Owing(n)' BY <1>1, <1>4, <1>5 DEF Owing, Reading, Listed
<1>8. Bounded(n)' BY <1>1, <1>4, <1>5 DEF Bounded, Reading, Listed, Onward
<1>9. Shown(n)' BY <1>1 DEF Shown
<1>10. QED BY <1>1, <1>3, <1>6, <1>7, <1>8, <1>9, ActsSound DEF Sound

LEMMA TenantSound ==
  ASSUME Inv, SoundInv, NEW t \in Tenants, TenantStep(t)
  PROVE  Onward /\ SoundInv'
<1>1. deaths' = deaths /\ deaths \in Nat /\ fallen' = fallen
  BY InvParts DEF TenantStep, BoardStep, AddBoard, PreflightFails, PreflightHeals, PreflightPasses, CrawlNew, AddEnds, Refresh,
     Schedule, DeleteBoard
<1>a. \A x \in Runs : Worn(x) => Worn(x)' BY <1>1 DEF Worn
<1>2. ASSUME UNCHANGED tenants PROVE Onward BY <1>1, <1>2, <1>a DEF Onward, Live
<1>3. ASSUME Onward, UNCHANGED <<runs, msg, crawl, fetch, outrun>> PROVE SoundInv'
  <2>1. \A x \in Runs : Same(x) BY <1>3 DEF Same, SameRow, SameFetches
  <2>2. QED BY <1>3, <2>1, SameSound DEF SoundInv
<1>4. ASSUME NEW enabled \in BOOLEAN, AddBoard(t, enabled) PROVE Onward /\ SoundInv'
  <2>1. Onward BY <1>1, <1>4, <1>a, InvParts DEF AddBoard, Onward, Live
  <2>2. QED BY <1>3, <1>4, <2>1 DEF AddBoard
<1>5. CASE DeleteBoard(t)
  <2>1. Onward BY <1>1, <1>5, <1>a, InvParts DEF DeleteBoard, Onward, Live
  <2>2. QED BY <1>3, <1>5, <2>1 DEF DeleteBoard
<1>6. CASE PreflightPasses(t) \/ AddEnds(t)
  BY <1>2, <1>3, <1>6 DEF PreflightPasses, AddEnds
<1>7. CASE CrawlNew(t) \/ Refresh(t) \/ Schedule(t)
  <2>1. Live(t) /\ Enqueue(t) /\ UNCHANGED <<tenants, crawl, fetch, outrun>>
    BY <1>7 DEF CrawlNew, Refresh, Schedule
  <2>2. PICK n : n = NextRun OBVIOUS
  <2>3. /\ Free # {} /\ runs' = [runs EXCEPT ![n] = Started(t, "queued")]
        /\ msg' = [msg EXCEPT ![n].state = "unsent"]
    BY <2>1, <2>2 DEF Enqueue
  <2>4. n \in Runs BY <2>2, <2>3, NextRunFree DEF Inv
  <2>5. runs'[n] = Started(t, "queued") /\ \A x \in Runs \ {n} : runs'[x] = runs[x] BY <2>3, <2>4, InvParts
  <2>6. /\ Started(t, "queued").tenant = t /\ Started(t, "queued").expected = 0
        /\ Started(t, "queued").completed = 0
    BY DEF Started, NoRun
  <2>7. msg'[n].state = "unsent" /\ \A x \in Runs \ {n} : msg'[x] = msg[x]
    BY <2>3, <2>4, InvParts DEF Message
  <2>8. Onward /\ tenants'[t].status # "new" BY <1>2, <2>1 DEF Live
  <2>9. QED BY <2>1, <2>2, <2>3, <2>5, <2>6, <2>7, <2>8, NewSound DEF SameRow
<1>8. CASE PreflightFails(t) \/ PreflightHeals(t)
  <2>1. PICK s \in {"succeeded", "failed"} :
          runs' = Finished([runs EXCEPT ![NextRun] = Started(t, "running")], NextRun, s)
    BY <1>8 DEF PreflightFails, PreflightHeals
  <2>2. Live(t) /\ Free # {} /\ UNCHANGED <<tenants, msg, crawl, fetch, outrun>>
    BY <1>8 DEF PreflightFails, PreflightHeals
  <2>3. PICK n : n = NextRun OBVIOUS
  <2>4. n \in Runs /\ msg[n].state = "none" BY <2>2, <2>3, UnusedRun
  <2> DEFINE rs == [runs EXCEPT ![n] = Started(t, "running")]
  <2>5. /\ Started(t, "running") \in Run /\ Started(t, "running").tenant = t
        /\ Started(t, "running").expected = 0 /\ Started(t, "running").completed = 0
    BY StartedRow DEF Started, NoRun, InFlight
  <2>6. rs \in [Runs -> Run] /\ rs[n] = Started(t, "running") /\ \A x \in Runs \ {n} : rs[x] = runs[x]
    BY <2>4, <2>5, InvParts
  <2>7. runs' = Finished(rs, n, s) BY <2>1, <2>3
  <2> HIDE DEF rs
  <2>8. /\ \A x \in Runs : /\ runs'[x].tenant = rs[x].tenant /\ runs'[x].expected = rs[x].expected
                           /\ runs'[x].completed = rs[x].completed /\ runs'[x].errors = rs[x].errors
        /\ \A x \in Runs \ {n} : runs'[x].status = rs[x].status
        /\ runs'[n].status \notin InFlight
    BY <2>4, <2>6, <2>7, FinishedRow DEF InFlight
  <2>9. Onward /\ tenants'[t].status # "new" BY <1>2, <2>2 DEF Live
  <2>10. \A x \in Runs \ {n} : SameRow(x) BY <2>6, <2>8 DEF SameRow
  <2>11. QED BY <2>2, <2>3, <2>4, <2>5, <2>6, <2>8, <2>9, <2>10, NewSound
<1>9. QED BY <1>4, <1>5, <1>6, <1>7, <1>8 DEF TenantStep, BoardStep

-----------------------------------------------------------------------------
(* The fetches of a run.                                                    *)

LEMMA CopyCounted ==
  ASSUME Inv, NEW r \in Runs, NEW p \in Postings, NEW s \in Stages, Some(r, p, s), IsFiniteSet(Copies(fetch, r, Stages))
  PROVE  Present(r) > 0 /\ IsFiniteSet(Copies(fetch, r, Before))
<1>1. fetch[<<r, p, s>>] \in Nat /\ fetch[<<r, p, s>>] > 0 BY InvParts DEF Some
<1>2. <<p, s, 1>> \in Copies(fetch, r, Stages) BY <1>1 DEF Copies
<1>3. Present(r) # 0 /\ Present(r) \in Nat BY <1>2, FS_EmptySet, FS_CardinalityType DEF Present
<1>4. Copies(fetch, r, Before) \subseteq Copies(fetch, r, Stages) BY DEF Copies, Before, Stages
<1>5. QED BY <1>3, <1>4, FS_Subset

LEMMA Advanced ==
  ASSUME Inv, NEW r \in Runs, NEW p \in Postings, NEW s \in Stages, NEW u \in Stages, s # u, Some(r, p, s),
         IsFiniteSet(Copies(fetch, r, Stages)), Advance(r, p, s, u)
  PROVE  /\ IsFiniteSet(Copies(fetch, r, Stages))' /\ Present(r)' = Present(r) /\ Present(r) > 0
         /\ Uncounted(r)' = Uncounted(r) - One(s, Before) + One(u, Before)
         /\ NoClosing(r) /\ u # "closing" => NoClosing(r)'
         /\ \A x \in Fetches : x[1] # r => fetch'[x] = fetch[x]
<1>1. fetch \in [Fetches -> Nat] /\ <<r, p, s>> \in Fetches /\ <<r, p, u>> \in Fetches /\ <<r, p, s>> # <<r, p, u>>
  BY InvParts DEF Fetches
<1>2. fetch[<<r, p, s>>] \in Nat /\ fetch[<<r, p, u>>] \in Nat /\ fetch[<<r, p, s>>] > 0 BY <1>1 DEF Some
<1>3. \A x \in Fetches : fetch'[x] = IF x = <<r, p, s>> THEN fetch[x] - 1
                                     ELSE IF x = <<r, p, u>> THEN fetch[x] + 1 ELSE fetch[x]
  BY <1>1 DEF Advance
<1>4. fetch' \in [Fetches -> Nat] BY <1>1, <1>2 DEF Advance
<1>5. PICK g : g = fetch' OBVIOUS
<1>6. /\ g \in [Fetches -> Nat]
      /\ \A x \in Fetches : g[x] = IF x = <<r, p, s>> THEN fetch[x] - 1
                                   ELSE IF x = <<r, p, u>> THEN fetch[x] + 1 ELSE fetch[x]
  BY <1>3, <1>4, <1>5
<1>7. Present(r) > 0 /\ IsFiniteSet(Copies(fetch, r, Before)) BY CopyCounted
<1>8. Before \in SUBSET Stages /\ Stages \in SUBSET Stages BY DEF Before, Stages
<1>9. /\ IsFiniteSet(Copies(g, r, Stages))
      /\ Cardinality(Copies(g, r, Stages)) = Cardinality(Copies(fetch, r, Stages)) - One(s, Stages) + One(u, Stages)
  BY <1>1, <1>2, <1>6, <1>8, CopyMoves
<1>10. Cardinality(Copies(g, r, Before)) = Cardinality(Copies(fetch, r, Before)) - One(s, Before) + One(u, Before)
  BY <1>1, <1>2, <1>6, <1>7, <1>8, CopyMoves
<1>11. Cardinality(Copies(fetch, r, Stages)) \in Nat BY FS_CardinalityType
<1>12. Present(r)' = Present(r) BY <1>5, <1>9, <1>11 DEF Present, One
<1>13. Uncounted(r)' = Uncounted(r) - One(s, Before) + One(u, Before) BY <1>5, <1>10 DEF Uncounted
<1>14. NoClosing(r) /\ u # "closing" => NoClosing(r)' BY <1>1, <1>2, <1>3 DEF NoClosing, Some, Fetches, Stages
<1>15. \A x \in Fetches : x[1] # r => fetch'[x] = fetch[x] BY <1>3
<1>16. QED BY <1>5, <1>7, <1>9, <1>12, <1>13, <1>14, <1>15

LEMMA Dropped ==
  ASSUME Inv, NEW r \in Runs, NEW p \in Postings, NEW s \in Stages, Some(r, p, s),
         IsFiniteSet(Copies(fetch, r, Stages)), Drop(r, p, s)
  PROVE  /\ IsFiniteSet(Copies(fetch, r, Stages))' /\ Present(r)' = Present(r) - 1 /\ Present(r) > 0
         /\ Uncounted(r)' = Uncounted(r) - One(s, Before)
         /\ NoClosing(r) => NoClosing(r)'
         /\ \A x \in Fetches : x[1] # r => fetch'[x] = fetch[x]
<1>1. fetch \in [Fetches -> Nat] /\ <<r, p, s>> \in Fetches BY InvParts DEF Fetches
<1>2. fetch[<<r, p, s>>] \in Nat /\ fetch[<<r, p, s>>] > 0 BY <1>1 DEF Some
<1>3. /\ fetch' \in [Fetches -> Nat]
      /\ \A x \in Fetches : fetch'[x] = IF x = <<r, p, s>> THEN fetch[x] - 1 ELSE fetch[x]
  BY <1>1, <1>2 DEF Drop
<1>4. PICK g : g = fetch' OBVIOUS
<1>5. Changes(fetch, g, r, p, s, -1) BY <1>1, <1>2, <1>3, <1>4 DEF Changes
<1>7. Present(r) > 0 /\ IsFiniteSet(Copies(fetch, r, Before)) BY CopyCounted
<1>8. Before \in SUBSET Stages /\ Stages \in SUBSET Stages BY DEF Before, Stages
<1>9. /\ IsFiniteSet(Copies(g, r, Stages))
      /\ Cardinality(Copies(g, r, Stages)) = Cardinality(Copies(fetch, r, Stages)) + (-1) * One(s, Stages)
  BY <1>1, <1>5, <1>8, CopyChanges
<1>10. Cardinality(Copies(g, r, Before)) = Cardinality(Copies(fetch, r, Before)) + (-1) * One(s, Before)
  BY <1>1, <1>5, <1>7, <1>8, CopyChanges
<1>11. Cardinality(Copies(fetch, r, Stages)) \in Nat /\ Cardinality(Copies(fetch, r, Before)) \in Nat
  BY <1>7, FS_CardinalityType
<1>12. Present(r)' = Present(r) - 1 BY <1>4, <1>9, <1>11 DEF Present, One
<1>13. Uncounted(r)' = Uncounted(r) - One(s, Before) BY <1>4, <1>10, <1>11 DEF Uncounted, One
<1>14. NoClosing(r) => NoClosing(r)' BY <1>1, <1>2, <1>3 DEF NoClosing, Some, Fetches, Stages
<1>15. \A x \in Fetches : x[1] # r => fetch'[x] = fetch[x] BY <1>3
<1>16. QED BY <1>4, <1>7, <1>9, <1>12, <1>13, <1>14, <1>15

\* What a step of fetches leaves alone of its run.
FetchFrame(r) ==
  /\ UNCHANGED <<tenants, msg, crawl, outrun>> /\ \A x \in Runs : Worn(x) => Worn(x)'
  /\ \A x \in Fetches : x[1] # r => fetch'[x] = fetch[x]
  /\ \A x \in Runs \ {r} : SameRow(x)
  /\ TenantOf(r)' = TenantOf(r) /\ runs'[r].expected = runs[r].expected
  /\ Used(r)' <=> Used(r)

LEMMA FetchFramed ==
  ASSUME Inv, SoundInv, NEW r \in Runs, FetchFrame(r), Used(r), deaths' \in Nat, deaths <= deaths',
         Onward => Sound(r)'
  PROVE  Onward /\ SoundInv'
<1>1. Onward BY InvParts DEF Onward, FetchFrame, Live
<1>2. \A x \in Runs \ {r} : Same(x) BY OthersSame DEF FetchFrame
<1>3. QED BY <1>1, <1>2, ActsSound

\* The row stays, or notes an error; the posting is still to be counted.
LEMMA FetchWaits ==
  ASSUME Inv, SoundInv, NEW r \in Runs, FetchFrame(r), Used(r), deaths' \in Nat, deaths <= deaths',
         runs'[r].status = runs[r].status, runs'[r].completed = runs[r].completed,
         IsFiniteSet(Copies(fetch, r, Stages))', Present(r) > 0, Present(r)' = Present(r),
         Uncounted(r)' \in Nat, Uncounted(r)' >= Uncounted(r), NoClosing(r) => NoClosing(r)'
  PROVE  Onward /\ SoundInv'
<1>1. Sound(r) /\ IsFiniteSet(Copies(fetch, r, Stages)) BY DEF SoundInv, Sound, Placed
<1>2. /\ Present(r) \in Nat /\ Uncounted(r) \in Nat /\ Expected(r) \in Nat /\ runs[r].expected \in Nat
      /\ runs[r].completed \in Nat /\ deaths \in Nat
  BY <1>1, Numbers
<1>3. /\ tenants' = tenants /\ msg' = msg /\ crawl' = crawl /\ outrun' = outrun /\ Expected(r)' = Expected(r)
      /\ TenantOf(r)' = TenantOf(r) /\ runs'[r].expected = runs[r].expected /\ (InUse(r)' => InUse(r))
      /\ Used(r)' <=> Used(r)
  BY DEF FetchFrame, InUse, Live, Expected
<1>4. Placed(r)' BY <1>1, <1>3 DEF Sound, Placed
<1>5. Owing(r)' BY <1>1, <1>2, <1>3 DEF Sound, Owing
<1>6. Bounded(r)' BY <1>1, <1>2, <1>3 DEF Sound, Bounded
<1>7. Shown(r)' BY <1>3 DEF Shown
<1>8. QED BY <1>4, <1>5, <1>6, <1>7, FetchFramed DEF Sound

\* Handlers that died stay dead.
LEMMA WornStays ==
  ASSUME Inv, \/ fallen' = fallen
              \/ \E r \in Runs, p \in Postings : fallen' = [fallen EXCEPT ![<<r, p>>] = @ + 1]
  PROVE  \A x \in Runs : Worn(x) => Worn(x)'
<1>0. fallen \in [Runs \X Postings -> Nat] BY InvParts
<1>1. \A y \in Runs \X Postings : fallen[y] \in Nat /\ fallen'[y] \in Nat /\ fallen[y] <= fallen'[y]
  <2>1. CASE fallen' = fallen BY <1>0, <2>1
  <2>2. ASSUME NEW r \in Runs, NEW p \in Postings, fallen' = [fallen EXCEPT ![<<r, p>>] = @ + 1]
        PROVE  \A y \in Runs \X Postings : fallen[y] \in Nat /\ fallen'[y] \in Nat /\ fallen[y] <= fallen'[y]
    <3>1. <<r, p>> \in Runs \X Postings OBVIOUS
    <3>2. \A y \in Runs \X Postings : fallen'[y] = IF y = <<r, p>> THEN fallen[y] + 1 ELSE fallen[y]
      BY <1>0, <2>2
    <3>. QED BY <1>0, <3>2
  <2>. QED BY <2>1, <2>2
<1>2. MaxDeliver \in Nat BY CrawlBounds
<1>3. \A x \in Runs, p \in Postings : fallen[<<x, p>>] >= MaxDeliver => fallen'[<<x, p>>] >= MaxDeliver
  BY <1>1, <1>2
<1>. QED BY <1>3 DEF Worn

\* A message that was given up is one of a run that is worn.
LEMMA GivenUp ==
  ASSUME Inv, NEW r \in Runs, NEW p \in Postings, NEW s \in Stages, Lapse(r, p, s)
  PROVE  /\ deaths' = deaths + 1 /\ \A x \in Runs : Worn(x) => Worn(x)'
         /\ Advance(r, p, s, "sent") \/ (Drop(r, p, s) /\ Worn(r)')
<1>1. deaths' = deaths + 1 /\ fallen' = [fallen EXCEPT ![<<r, p>>] = @ + 1] BY DEF Lapse, Death
<1>2. fallen'[<<r, p>>] = fallen[<<r, p>>] + 1 BY <1>1, InvParts
<1>3. fallen[<<r, p>>] + 1 >= MaxDeliver => Worn(r)' BY <1>2 DEF Worn
<1>4. Advance(r, p, s, "sent") \/ (Drop(r, p, s) /\ Worn(r)') BY <1>3 DEF Lapse
<1>. QED BY <1>1, <1>4, WornStays

\* What a copy of a message does to the counts when its handler is done with it.
LEMMA SettledCounts ==
  ASSUME Inv, NEW r \in Runs, NEW p \in Postings, NEW s \in {"counting", "closing"}, Some(r, p, s),
         IsFiniteSet(Copies(fetch, r, Stages)), Settle(r, p, s)
  PROVE  /\ IsFiniteSet(Copies(fetch, r, Stages))' /\ Present(r) > 0
         /\ deaths' \in Nat /\ deaths <= deaths' /\ Present(r)' + deaths <= Present(r) - 1 + deaths'
         /\ Present(r)' \in {Present(r), Present(r) - 1}
         /\ Uncounted(r)' \in Nat /\ Uncounted(r)' >= Uncounted(r) - One(s, Before)
         /\ NoClosing(r) => NoClosing(r)'
         /\ \A x \in Fetches : x[1] # r => fetch'[x] = fetch[x]
         /\ \A x \in Runs : Worn(x) => Worn(x)'
<1>1. s \in Stages /\ "sent" \in Stages /\ s # "sent" /\ One("sent", Before) = 1 /\ One(s, Before) \in {0, 1}
  BY DEF Stages, One, Before
<1>2. Present(r) \in Nat /\ Uncounted(r) \in Nat /\ deaths \in Nat BY Numbers
<1>5. \A x \in Runs : Worn(x) => Worn(x)'
  <2>1. CASE Lapse(r, p, s) BY <1>1, <2>1, GivenUp
  <2>2. CASE fallen' = fallen BY <2>2, WornStays
  <2>. QED BY <2>1, <2>2 DEF Settle
<1>3. CASE Drop(r, p, s) /\ deaths' \in Nat /\ deaths <= deaths'
  <2>1. /\ IsFiniteSet(Copies(fetch, r, Stages))' /\ Present(r)' = Present(r) - 1 /\ Present(r) > 0
        /\ Uncounted(r)' = Uncounted(r) - One(s, Before)
        /\ NoClosing(r) => NoClosing(r)'
        /\ \A x \in Fetches : x[1] # r => fetch'[x] = fetch[x]
    BY <1>1, <1>3, Dropped
  <2>2. Uncounted(r)' \in Nat BY <2>1, UncountedType
  <2>3. QED BY <1>1, <1>2, <1>3, <1>5, <2>1, <2>2
<1>4. CASE Advance(r, p, s, "sent") /\ deaths' = deaths + 1
  <2>1. /\ IsFiniteSet(Copies(fetch, r, Stages))' /\ Present(r)' = Present(r) /\ Present(r) > 0
        /\ Uncounted(r)' = Uncounted(r) - One(s, Before) + One("sent", Before)
        /\ NoClosing(r) => NoClosing(r)'
        /\ \A x \in Fetches : x[1] # r => fetch'[x] = fetch[x]
    BY <1>1, <1>4, Advanced
  <2>2. QED BY <1>1, <1>2, <1>4, <1>5, <2>1
<1>6. CASE Lapse(r, p, s) BY <1>1, <1>2, <1>3, <1>4, <1>6, GivenUp
<1>7. CASE Drop(r, p, s) /\ UNCHANGED <<budget, deaths, fallen>> BY <1>2, <1>3, <1>7
<1>. QED BY <1>6, <1>7 DEF Settle

\* A fetch is counted.
LEMMA CountsSound ==
  ASSUME Inv, SoundInv, NEW r \in Runs, NEW p \in Postings, FetchCounts(r, p)
  PROVE  Onward /\ SoundInv'
<1> DEFINE n == runs[r].completed + 1
<1>1. /\ Some(r, p, "counting") /\ runs' = [runs EXCEPT ![r].completed = n]
      /\ UNCHANGED <<tenants, cursor, open, msg, crawl, adding, outrun>>
      /\ \/ Completed(n, r) /\ Advance(r, p, "counting", "closing") /\ UNCHANGED <<budget, deaths, fallen>>
         \/ ~Completed(n, r) /\ Settle(r, p, "counting")
  BY DEF FetchCounts
<1>2. Sound(r) /\ IsFiniteSet(Copies(fetch, r, Stages)) BY DEF SoundInv, Sound, Placed
<1>3. /\ Present(r) \in Nat /\ Uncounted(r) \in Nat /\ Expected(r) \in Nat /\ runs[r].expected \in Nat
      /\ runs[r].completed \in Nat /\ deaths \in Nat /\ msg[r].tries \in Nat
  BY <1>2, Numbers
<1>4. "counting" \in Stages /\ "closing" \in Stages /\ One("counting", Before) = 1 /\ One("closing", Before) = 0
  BY DEF Stages, One, Before
<1>5. Used(r) BY <1>1, <1>4, Fetched
<1>6. /\ runs'[r].completed = n /\ runs'[r].expected = runs[r].expected /\ runs'[r].status = runs[r].status
      /\ runs'[r].errors = runs[r].errors /\ runs'[r].tenant = runs[r].tenant
      /\ \A x \in Runs \ {r} : runs'[x] = runs[x]
  BY <1>1, InvParts DEF Run
<1> HIDE DEF n
<1>7. /\ IsFiniteSet(Copies(fetch, r, Stages))' /\ Present(r) > 0
      /\ deaths' \in Nat /\ deaths <= deaths' /\ Uncounted(r)' \in Nat /\ Uncounted(r)' >= Uncounted(r) - 1
      /\ \/ Completed(n, r) /\ Present(r)' = Present(r) /\ deaths' = deaths
         \/ /\ ~Completed(n, r) /\ Present(r)' \in {Present(r), Present(r) - 1}
            /\ Present(r)' + deaths <= Present(r) - 1 + deaths' /\ (NoClosing(r) => NoClosing(r)')
      /\ \A x \in Fetches : x[1] # r => fetch'[x] = fetch[x]
      /\ \A x \in Runs : Worn(x) => Worn(x)'
  <2>1. CASE Completed(n, r) /\ Advance(r, p, "counting", "closing") /\ UNCHANGED <<budget, deaths, fallen>>
    <3>1. /\ IsFiniteSet(Copies(fetch, r, Stages))' /\ Present(r)' = Present(r) /\ Present(r) > 0
          /\ Uncounted(r)' = Uncounted(r) - 1 + 0
          /\ \A x \in Fetches : x[1] # r => fetch'[x] = fetch[x]
      BY <1>1, <1>2, <1>4, <2>1, Advanced
    <3>2. Uncounted(r)' \in Nat BY <3>1, UncountedType
    <3>3. QED BY <1>3, <2>1, <3>1, <3>2, WornStays
  <2>2. CASE ~Completed(n, r) /\ Settle(r, p, "counting")
    BY <1>1, <1>2, <1>4, <2>2, SettledCounts
  <2>3. QED BY <1>1, <2>1, <2>2
<1>8. /\ tenants' = tenants /\ msg' = msg /\ crawl' = crawl /\ outrun' = outrun /\ Expected(r)' = Expected(r)
      /\ TenantOf(r)' = TenantOf(r) /\ (InUse(r)' => InUse(r)) /\ (Used(r)' <=> Used(r))
  BY <1>1, <1>6, <1>7 DEF InUse, Live, Expected, TenantOf, Used
<1>9. FetchFrame(r) BY <1>6, <1>7, <1>8 DEF FetchFrame, SameRow
<1>10. Completed(n, r) <=> runs[r].expected > 0 /\ n >= runs[r].expected BY DEF Completed
<1>11. n = runs[r].completed + 1 BY DEF n
<1>12. Placed(r)' BY <1>2, <1>6, <1>7, <1>8 DEF Sound, Placed
<1>13. Owing(r)'
  <2>1. InUse(r)' => runs[r].expected <= runs[r].completed + Uncounted(r) BY <1>2, <1>8 DEF Sound, Owing
  <2>2. InUse(r)' /\ crawl[r].at \in Reading => Expected(r) <= runs[r].completed + Uncounted(r)
    BY <1>2, <1>8 DEF Sound, Owing
  <2>3. runs[r].expected > 0 => n < runs[r].expected \/ Present(r)' > 0 BY <1>3, <1>7, <1>10, <1>11
  <2>4. QED BY <1>3, <1>6, <1>7, <1>8, <1>11, <2>1, <2>2, <2>3 DEF Owing
<1>14. Bounded(r)'
  <2>1. msg[r].tries # 0 BY <1>2, <1>3, <1>7 DEF Sound, Bounded
  <2>2. CASE Completed(n, r)
    BY <1>2, <1>3, <1>6, <1>7, <1>8, <1>10, <1>11, <2>1, <2>2 DEF Sound, Bounded
  <2>3. CASE ~Completed(n, r)
    BY <1>2, <1>3, <1>6, <1>7, <1>8, <1>10, <1>11, <2>1, <2>3 DEF Sound, Bounded
  <2>4. QED BY <2>2, <2>3
<1>15. Shown(r)'
  <2>1. CASE Completed(n, r) BY <1>7, <2>1 DEF Shown
  <2>2. CASE ~Completed(n, r)
    <3>1. msg[r].tries <= 1 /\ runs[r].expected > 0 => runs[r].status \notin Good
      BY <1>2, <1>3, <1>10, <1>11, <2>2 DEF Sound, Bounded
    <3>2. QED BY <1>6, <1>8, <3>1 DEF Shown, Good
  <2>3. QED BY <2>1, <2>2
<1>16. QED BY <1>5, <1>7, <1>9, <1>12, <1>13, <1>14, <1>15, FetchFramed DEF Sound

\* The fetch that completes a run ends it.
LEMMA FinishesSound ==
  ASSUME Inv, SoundInv, NEW r \in Runs, NEW p \in Postings, FetchFinishes(r, p)
  PROVE  Onward /\ SoundInv'
<1>1. /\ Some(r, p, "closing") /\ Settle(r, p, "closing") /\ runs' = Finished(runs, r, "succeeded")
      /\ UNCHANGED <<tenants, cursor, open, msg, crawl, adding, outrun>>
  BY DEF FetchFinishes
<1>2. Sound(r) /\ IsFiniteSet(Copies(fetch, r, Stages)) BY DEF SoundInv, Sound, Placed
<1>3. /\ Present(r) \in Nat /\ Uncounted(r) \in Nat /\ Expected(r) \in Nat /\ runs[r].expected \in Nat
      /\ runs[r].completed \in Nat /\ deaths \in Nat /\ msg[r].tries \in Nat
  BY <1>2, Numbers
<1>4. "closing" \in Stages /\ One("closing", Before) = 0 BY DEF Stages, One, Before
<1>5. Used(r) BY <1>1, <1>4, Fetched
<1>6. /\ \A x \in Runs : /\ runs'[x].tenant = runs[x].tenant /\ runs'[x].expected = runs[x].expected
                         /\ runs'[x].completed = runs[x].completed /\ runs'[x].errors = runs[x].errors
      /\ \A x \in Runs \ {r} : runs'[x].status = runs[x].status
      /\ runs'[r].status = IF runs[r].errors THEN "partial_success" ELSE "succeeded"
  BY <1>1, InvParts, FinishedRow
<1>7. /\ IsFiniteSet(Copies(fetch, r, Stages))' /\ Present(r) > 0
      /\ deaths' \in Nat /\ deaths <= deaths' /\ Uncounted(r)' \in Nat /\ Uncounted(r)' >= Uncounted(r)
      /\ Present(r)' \in {Present(r), Present(r) - 1} /\ Present(r)' + deaths <= Present(r) - 1 + deaths'
      /\ \A x \in Fetches : x[1] # r => fetch'[x] = fetch[x]
      /\ \A x \in Runs : Worn(x) => Worn(x)'
  BY <1>1, <1>2, <1>3, <1>4, SettledCounts
<1>8. /\ tenants' = tenants /\ msg' = msg /\ crawl' = crawl /\ outrun' = outrun /\ Expected(r)' = Expected(r)
      /\ TenantOf(r)' = TenantOf(r) /\ (InUse(r)' => InUse(r)) /\ (Used(r)' <=> Used(r))
      /\ runs'[r].status \notin InFlight /\ runs'[r].status \in Good
  BY <1>1, <1>5, <1>6, <1>7 DEF InUse, Live, Expected, TenantOf, Used, InFlight, Good
<1>9. FetchFrame(r) BY <1>6, <1>7, <1>8 DEF FetchFrame, SameRow
<1>10. ~NoClosing(r) BY <1>1 DEF NoClosing
<1>11. Placed(r)' BY <1>2, <1>6, <1>7, <1>8 DEF Sound, Placed
<1>12. Owing(r)' BY <1>2, <1>3, <1>6, <1>7, <1>8 DEF Sound, Owing
<1>13. Bounded(r)' BY <1>2, <1>3, <1>6, <1>7, <1>8, <1>10 DEF Sound, Bounded
<1>14. Shown(r)' BY <1>3, <1>6 DEF Shown
<1>15. QED BY <1>5, <1>7, <1>9, <1>11, <1>12, <1>13, <1>14, FetchFramed DEF Sound

LEMMA FetchSound ==
  ASSUME Inv, SoundInv, NEW r \in Runs, NEW p \in Postings, FetchStep(r, p)
  PROVE  Onward /\ SoundInv'
<1>1. Sound(r) /\ IsFiniteSet(Copies(fetch, r, Stages)) BY DEF SoundInv, Sound, Placed
<1>2. Present(r) \in Nat /\ Uncounted(r) \in Nat /\ deaths \in Nat BY <1>1, Numbers
<1>3. /\ {"sent", "filing", "counting"} \subseteq Stages
      /\ One("sent", Before) = 1 /\ One("filing", Before) = 1 /\ One("counting", Before) = 1
  BY DEF Stages, One, Before
<1>4. CASE FetchAnswer(r, p)
  <2>1. PICK next \in {"filing", "counting"}, error \in BOOLEAN :
          Advance(r, p, "sent", next) /\ runs' = [runs EXCEPT ![r].errors = @ \/ error]
    BY <1>4 DEF FetchAnswer
  <2>2. Some(r, p, "sent") /\ UNCHANGED <<tenants, msg, crawl, deaths, fallen, outrun>> BY <1>4 DEF FetchAnswer
  <2>3. Used(r) BY <1>3, <2>2, Fetched
  <2>4. /\ IsFiniteSet(Copies(fetch, r, Stages))' /\ Present(r)' = Present(r) /\ Present(r) > 0
        /\ Uncounted(r)' = Uncounted(r) - 1 + 1 /\ (NoClosing(r) => NoClosing(r)')
        /\ \A x \in Fetches : x[1] # r => fetch'[x] = fetch[x]
    BY <1>1, <1>3, <2>1, <2>2, Advanced
  <2>5. /\ runs'[r].tenant = runs[r].tenant /\ runs'[r].status = runs[r].status
        /\ runs'[r].expected = runs[r].expected /\ runs'[r].completed = runs[r].completed
        /\ \A x \in Runs \ {r} : runs'[x] = runs[x]
    BY <2>1, InvParts DEF Run
  <2>6. FetchFrame(r) BY <2>2, <2>4, <2>5, WornStays DEF FetchFrame, SameRow, TenantOf, Used
  <2>7. QED BY <1>2, <2>2, <2>3, <2>4, <2>5, <2>6, FetchWaits
<1>5. CASE FetchFiles(r, p)
  <2>1. /\ Some(r, p, "filing") /\ Advance(r, p, "filing", "counting")
        /\ UNCHANGED <<tenants, msg, crawl, deaths, fallen, outrun>>
    BY <1>5 DEF FetchFiles
  <2>2. Used(r) BY <1>3, <2>1, Fetched
  <2>3. /\ IsFiniteSet(Copies(fetch, r, Stages))' /\ Present(r)' = Present(r) /\ Present(r) > 0
        /\ Uncounted(r)' = Uncounted(r) - 1 + 1 /\ (NoClosing(r) => NoClosing(r)')
        /\ \A x \in Fetches : x[1] # r => fetch'[x] = fetch[x]
    BY <1>1, <1>3, <2>1, Advanced
  <2>4. \A x \in Runs : SameRow(x)
    <3>1. CASE ~Live(TenantOf(r)) BY <1>5, <3>1 DEF FetchFiles, SameRow
    <3>2. CASE Live(TenantOf(r))
      <4> DEFINE more(x) == runs[x].since \cup {p}
                 row(x) == IF TenantOf(x) = TenantOf(r) /\ runs[x].status # "queued"
                           THEN [runs[x] EXCEPT !.since = more(x)] ELSE runs[x]
      <4>1. runs' = [x \in Runs |-> row(x)] BY <1>5, <3>2 DEF FetchFiles
      <4>2. \A x \in Runs : /\ row(x).tenant = runs[x].tenant /\ row(x).status = runs[x].status
                            /\ row(x).errors = runs[x].errors /\ row(x).expected = runs[x].expected
                            /\ row(x).completed = runs[x].completed
        BY InvParts DEF Run
      <4> HIDE DEF row
      <4>3. QED BY <4>1, <4>2 DEF SameRow
    <3>3. QED BY <3>1, <3>2
  <2>5. FetchFrame(r) BY <2>1, <2>3, <2>4, WornStays DEF FetchFrame, SameRow, TenantOf, Used
  <2>6. QED BY <1>2, <2>1, <2>2, <2>3, <2>4, <2>5, FetchWaits DEF SameRow
<1>6. CASE FetchOrphan(r, p)
  <2>1. /\ Some(r, p, "sent") /\ ~Live(TenantOf(r)) /\ Drop(r, p, "sent")
        /\ UNCHANGED <<tenants, runs, msg, crawl, deaths, fallen, outrun>>
    BY <1>6 DEF FetchOrphan
  <2>2. Used(r) BY <1>3, <2>1, Fetched
  <2>3. /\ IsFiniteSet(Copies(fetch, r, Stages))' /\ Present(r)' = Present(r) - 1 /\ Present(r) > 0
        /\ (NoClosing(r) => NoClosing(r)')
        /\ \A x \in Fetches : x[1] # r => fetch'[x] = fetch[x]
    BY <1>1, <1>3, <2>1, Dropped
  <2>4. FetchFrame(r) BY <2>1, <2>3, WornStays DEF FetchFrame, SameRow, TenantOf, Used
  <2>5. Placed(r)' BY <1>1, <2>1, <2>3 DEF Sound, Placed, Used, TenantOf, Expected
  <2>6. ~InUse(r)' BY <2>1 DEF InUse, Live, TenantOf
  <2>7. Owing(r)' /\ Shown(r)' BY <2>6 DEF Owing, Shown
  <2>8. Bounded(r)'
    <3>1. Expected(r)' = Expected(r) BY <2>1 DEF Expected
    <3>2. Expected(r) \in Nat /\ runs[r].expected \in Nat /\ runs[r].completed \in Nat BY <1>1, Numbers
    <3>3. QED BY <1>1, <1>2, <2>1, <2>3, <3>1, <3>2 DEF Sound, Bounded
  <2>9. QED BY <1>2, <2>1, <2>2, <2>4, <2>5, <2>7, <2>8, FetchFramed DEF Sound
<1>7. QED BY <1>4, <1>5, <1>6, CountsSound, FinishesSound DEF FetchStep

\* The handler of a fetch dies: its message is delivered again, or given up.
LEMMA FetchDiesSound ==
  ASSUME Inv, SoundInv, NEW r \in Runs, NEW p \in Postings, NEW s \in Stages, FetchDies(r, p, s)
  PROVE  Onward /\ SoundInv'
<1>1. /\ s # "sent" /\ Some(r, p, s) /\ Lapse(r, p, s)
      /\ UNCHANGED <<tenants, runs, msg, crawl, outrun>>
  BY DEF FetchDies
<1>2. Sound(r) /\ IsFiniteSet(Copies(fetch, r, Stages)) BY DEF SoundInv, Sound, Placed
<1>3. Present(r) \in Nat /\ Uncounted(r) \in Nat /\ deaths \in Nat BY <1>2, Numbers
<1>4. "sent" \in Stages /\ One("sent", Before) = 1 /\ One(s, Before) \in {0, 1} BY DEF Stages, One, Before
<1>5. deaths' = deaths + 1 /\ \A x \in Runs : Worn(x) => Worn(x)' BY <1>1, GivenUp
<1>6. Used(r) BY <1>1, Fetched
<1>7. ASSUME \A x \in Fetches : x[1] # r => fetch'[x] = fetch[x] PROVE FetchFrame(r)
  BY <1>1, <1>5, <1>7 DEF FetchFrame, SameRow, TenantOf, Used
<1>8. CASE Advance(r, p, s, "sent")
  <2>1. /\ IsFiniteSet(Copies(fetch, r, Stages))' /\ Present(r)' = Present(r) /\ Present(r) > 0
        /\ Uncounted(r)' = Uncounted(r) - One(s, Before) + 1
        /\ NoClosing(r) => NoClosing(r)'
        /\ \A x \in Fetches : x[1] # r => fetch'[x] = fetch[x]
    BY <1>1, <1>2, <1>4, <1>8, Advanced
  <2>2. FetchFrame(r) BY <1>7, <2>1
  <2>3. QED BY <1>1, <1>3, <1>4, <1>5, <1>6, <2>1, <2>2, FetchWaits
<1>9. CASE Drop(r, p, s) /\ Worn(r)'
  <2>1. /\ IsFiniteSet(Copies(fetch, r, Stages))' /\ Present(r)' = Present(r) - 1 /\ Present(r) > 0
        /\ NoClosing(r) => NoClosing(r)'
        /\ \A x \in Fetches : x[1] # r => fetch'[x] = fetch[x]
    BY <1>1, <1>2, <1>9, Dropped
  <2>2. FetchFrame(r) BY <1>7, <2>1
  <2>3. Placed(r)' BY <1>1, <1>2, <2>1 DEF Sound, Placed, Used, TenantOf, Expected
  <2>4. ~InUse(r)' BY <1>9 DEF InUse
  <2>5. Owing(r)' /\ Shown(r)' BY <2>4 DEF Owing, Shown
  <2>6. Bounded(r)'
    <3>1. Expected(r)' = Expected(r) BY <1>1 DEF Expected
    <3>2. Expected(r) \in Nat /\ runs[r].expected \in Nat /\ runs[r].completed \in Nat BY <1>2, Numbers
    <3>3. QED BY <1>1, <1>2, <1>3, <1>5, <2>1, <3>1, <3>2 DEF Sound, Bounded
  <2>7. QED BY <1>3, <1>5, <1>6, <2>2, <2>3, <2>5, <2>6, FetchFramed DEF Sound
<1>. QED BY <1>1, <1>8, <1>9, GivenUp

-----------------------------------------------------------------------------
(* The handler of a run.                                                    *)

\* What its steps leave alone.
HandlerFrame(r) ==
  /\ tenants' = tenants /\ fallen' = fallen /\ deaths' \in Nat /\ deaths <= deaths'
  /\ \A x \in Runs \ {r} : /\ SameRow(x) /\ msg'[x] = msg[x] /\ crawl'[x] = crawl[x]
                           /\ x \in outrun' <=> x \in outrun
  /\ \A x \in Fetches : x[1] # r => fetch'[x] = fetch[x]
  /\ Used(r) /\ runs'[r].tenant = runs[r].tenant /\ runs'[r].completed = runs[r].completed
  /\ runs'[r].status # "none"

LEMMA HandlerFramed ==
  ASSUME Inv, SoundInv, NEW r \in Runs, HandlerFrame(r), Onward => Sound(r)'
  PROVE  Onward /\ SoundInv'
<1>1. Onward BY InvParts, WornStays DEF Onward, HandlerFrame, Live
<1>2. \A x \in Runs \ {r} : Same(x) BY OthersSame DEF HandlerFrame
<1>3. QED BY <1>1, <1>2, ActsSound

LEMMA HandlerFacts ==
  ASSUME Inv, SoundInv, NEW r \in Runs, HandlerFrame(r)
  PROVE  /\ Sound(r) /\ IsFiniteSet(Copies(fetch, r, Stages))
         /\ Present(r) \in Nat /\ Uncounted(r) \in Nat /\ Expected(r) \in Nat /\ runs[r].expected \in Nat
         /\ runs[r].completed \in Nat /\ deaths \in Nat /\ msg[r].tries \in Nat
         /\ TenantOf(r)' = TenantOf(r) /\ Used(r) /\ Used(r)' /\ (InUse(r)' <=> InUse(r))
         /\ runs'[r].completed = runs[r].completed /\ tenants[TenantOf(r)].status # "new"
         /\ tenants'[TenantOf(r)].status # "new"
         /\ deaths' \in Nat /\ deaths <= deaths'
         /\ fetch' = fetch =>
              /\ IsFiniteSet(Copies(fetch, r, Stages))'
              /\ Present(r)' = Present(r) /\ Uncounted(r)' = Uncounted(r) /\ (NoClosing(r)' <=> NoClosing(r))
<1>1. Sound(r) /\ IsFiniteSet(Copies(fetch, r, Stages)) BY DEF SoundInv, Sound, Placed
<1>2. /\ Present(r) \in Nat /\ Uncounted(r) \in Nat /\ Expected(r) \in Nat /\ runs[r].expected \in Nat
      /\ runs[r].completed \in Nat /\ deaths \in Nat /\ msg[r].tries \in Nat
  BY <1>1, Numbers
<1>3. /\ TenantOf(r)' = TenantOf(r) /\ Used(r) /\ Used(r)' /\ (InUse(r)' <=> InUse(r))
      /\ runs'[r].completed = runs[r].completed /\ deaths' \in Nat /\ deaths <= deaths' /\ tenants' = tenants
  BY DEF HandlerFrame, TenantOf, Used, InUse, Live, Worn
<1>4. tenants[TenantOf(r)].status # "new" BY <1>1, <1>3 DEF Sound, Placed
<1>5. fetch' = fetch =>
        /\ IsFiniteSet(Copies(fetch, r, Stages))'
        /\ Present(r)' = Present(r) /\ Uncounted(r)' = Uncounted(r) /\ (NoClosing(r)' <=> NoClosing(r))
  BY <1>1, SameCounts DEF SameFetches
<1>6. QED BY <1>1, <1>2, <1>3, <1>4, <1>5

\* The message of a run moves, and no handler holds it.
LEMMA MessageSound ==
  ASSUME Inv, SoundInv, NEW r \in Runs, HandlerFrame(r), fetch' = fetch, SameRow(r), crawl'[r] = crawl[r],
         msg[r].state # "taken", msg'[r].state \in {"ready", "lost", "dead"}, msg'[r].tries = msg[r].tries,
         r \in outrun' <=> r \in outrun
  PROVE  Onward /\ SoundInv'
<1>1. Expected(r)' = Expected(r) BY DEF Expected
<1>2. crawl[r].at = "idle" BY DEF SoundInv, Sound, Placed
<1>3. Placed(r)' BY <1>1, <1>2, HandlerFacts DEF Sound, Placed, SameRow, Listed
<1>4. Owing(r)' BY <1>1, <1>2, HandlerFacts DEF Sound, Owing, SameRow, Listed, Reading
<1>5. Bounded(r)' BY <1>1, <1>2, HandlerFacts DEF Sound, Bounded, SameRow, Listed, Reading
<1>6. Shown(r)' BY HandlerFacts DEF Sound, Shown, SameRow
<1>7. QED BY <1>3, <1>4, <1>5, <1>6, HandlerFramed DEF Sound

\* The handler starts.
LEMMA StartsSound ==
  ASSUME Inv, SoundInv, NEW r \in Runs, HandlerFrame(r), fetch' = fetch,
         msg[r].state # "taken", msg'[r].state = "taken", msg'[r].tries = msg[r].tries + 1,
         runs'[r].status = "running", runs'[r].expected = runs[r].expected,
         crawl'[r].at = "list", crawl'[r].seen = {}, r \in outrun' <=> r \in outrun
  PROVE  Onward /\ SoundInv'
<1>1. Expected(r)' = 0 BY FS_EmptySet DEF Expected
<1>2. Placed(r)' BY HandlerFacts DEF Sound, Placed, Listed
<1>3. Owing(r)' BY <1>1, HandlerFacts DEF Sound, Owing, Listed
<1>4. Bounded(r)'
  <2>1. SUFFICES ASSUME msg'[r].tries <= 1 PROVE Bounded(r)' BY HandlerFacts DEF Bounded
  <2>2. Present(r) = 0 /\ runs[r].completed = 0 /\ runs[r].expected = 0 BY <2>1, HandlerFacts DEF Sound, Bounded
  <2>3. NoClosing(r) BY <2>2, HandlerFacts, CopyCounted DEF NoClosing, Stages
  <2>4. QED BY <1>1, <2>2, <2>3, HandlerFacts DEF Bounded, Listed, Good
<1>5. Shown(r)' BY DEF Shown
<1>6. QED BY <1>2, <1>3, <1>4, <1>5, HandlerFramed DEF Sound

\* The handler reads on, and may send messages.
LEMMA ReadsSound ==
  ASSUME Inv, SoundInv, NEW r \in Runs, HandlerFrame(r), NEW n \in Nat,
         IsFiniteSet(Copies(fetch, r, Stages))', NoClosing(r) => NoClosing(r)',
         Present(r)' = Present(r) + n, Uncounted(r)' = Uncounted(r) + n, Expected(r)' = Expected(r) + n,
         crawl[r].at \in Reading, crawl'[r].at \in Reading, msg'[r] = msg[r],
         runs'[r].status = runs[r].status, runs'[r].expected = runs[r].expected, r \in outrun' <=> r \in outrun
  PROVE  Onward /\ SoundInv'
<1>1. msg[r].state = "taken" /\ "idle" \notin Reading /\ Reading \cap Listed = {}
  BY HandlerFacts DEF Sound, Placed, Reading, Listed
<1>2. Placed(r)' BY <1>1, HandlerFacts DEF Sound, Placed
<1>3. Owing(r)' BY <1>1, HandlerFacts DEF Sound, Owing
<1>4. Bounded(r)'
  <2>1. msg[r].tries # 0 BY <1>1, HandlerFacts DEF Sound, Placed
  <2>2. QED BY <1>1, <2>1, HandlerFacts DEF Sound, Bounded
<1>5. Shown(r)' BY HandlerFacts DEF Sound, Bounded, Shown, Good
<1>6. QED BY <1>2, <1>3, <1>4, <1>5, HandlerFramed DEF Sound

\* The listing is counted.
LEMMA ExpectsSound ==
  ASSUME Inv, SoundInv, NEW r \in Runs, HandlerFrame(r), fetch' = fetch, msg'[r] = msg[r],
         crawl[r].at \in Reading, crawl'[r].at \in Listed, crawl'[r].seen = crawl[r].seen,
         runs'[r].status = runs[r].status, runs'[r].expected = Expected(r),
         r \in outrun' <=> Expected(r) \in 1 .. runs[r].completed
  PROVE  Onward /\ SoundInv'
<1>1. /\ msg[r].state = "taken" /\ "idle" \notin Reading /\ "idle" \notin Listed /\ Reading \cap Listed = {}
      /\ Expected(r)' = Expected(r)
  BY HandlerFacts DEF Sound, Placed, Reading, Listed, Expected
<1>2. Placed(r)' BY <1>1, HandlerFacts DEF Sound, Placed
<1>3. Owing(r)' BY <1>1, HandlerFacts DEF Sound, Owing
<1>4. Bounded(r)'
  <2>1. msg[r].tries # 0 BY <1>1, HandlerFacts DEF Sound, Placed
  <2>2. QED BY <1>1, <2>1, HandlerFacts DEF Sound, Bounded
<1>5. Shown(r)' BY HandlerFacts DEF Sound, Bounded, Shown, Good
<1>6. QED BY <1>2, <1>3, <1>4, <1>5, HandlerFramed DEF Sound

\* The handler closes postings.
LEMMA ClosesSound ==
  ASSUME Inv, SoundInv, NEW r \in Runs, HandlerFrame(r), fetch' = fetch, msg'[r] = msg[r], SameRow(r),
         crawl[r].at \in Listed, crawl'[r].at \in Listed, crawl'[r].seen = crawl[r].seen,
         r \in outrun' <=> r \in outrun
  PROVE  Onward /\ SoundInv'
<1>1. "idle" \notin Listed /\ Reading \cap Listed = {} /\ Expected(r)' = Expected(r)
  BY DEF Reading, Listed, Expected
<1>2. Placed(r)' BY <1>1, HandlerFacts DEF Sound, Placed, SameRow
<1>3. Owing(r)' BY <1>1, HandlerFacts DEF Sound, Owing, SameRow
<1>4. Bounded(r)' BY <1>1, HandlerFacts DEF Sound, Bounded, SameRow
<1>5. Shown(r)' BY HandlerFacts DEF Sound, Shown, SameRow
<1>6. QED BY <1>2, <1>3, <1>4, <1>5, HandlerFramed DEF Sound

\* The handler raises or dies.
LEMMA RaisesSound ==
  ASSUME Inv, SoundInv, NEW r \in Runs, HandlerFrame(r), fetch' = fetch, SameRow(r),
         crawl[r].at # "idle", crawl'[r].at = "idle", msg'[r].state \in {"ready", "dead"},
         msg'[r].tries = msg[r].tries, r \in outrun' <=> r \in outrun
  PROVE  Onward /\ SoundInv'
<1>1. "idle" \notin Listed /\ "idle" \notin Reading BY DEF Reading, Listed
<1>2. Placed(r)' BY <1>1, HandlerFacts DEF Sound, Placed, SameRow
<1>3. Owing(r)' BY <1>1, HandlerFacts DEF Sound, Owing, SameRow
<1>4. Bounded(r)'
  <2>1. msg[r].tries # 0 BY HandlerFacts DEF Sound, Placed
  <2>2. QED BY <1>1, <2>1, HandlerFacts DEF Sound, Bounded, SameRow
<1>5. Shown(r)' BY HandlerFacts DEF Sound, Shown, SameRow
<1>6. QED BY <1>2, <1>3, <1>4, <1>5, HandlerFramed DEF Sound

\* The handler ends the run, of which it found nothing, or could not read the listing.
LEMMA EndsSound ==
  ASSUME Inv, SoundInv, NEW r \in Runs, HandlerFrame(r), fetch' = fetch,
         crawl'[r].at = "idle", msg'[r].state = "done", msg'[r].tries = msg[r].tries,
         runs'[r].expected = runs[r].expected, r \in outrun' <=> r \in outrun,
         \/ crawl[r].at \in Reading /\ runs'[r].status = "failed"
         \/ crawl[r].at \in Listed /\ Expected(r) = 0 /\ runs'[r].status \notin InFlight
  PROVE  Onward /\ SoundInv'
<1>1. /\ "idle" \notin Listed /\ "idle" \notin Reading /\ "failed" \notin InFlight /\ "failed" \notin Good
      /\ Reading \cap Listed = {} /\ crawl[r].at # "idle"
  BY DEF Reading, Listed, InFlight, Good
<1>2. Placed(r)' BY <1>1, HandlerFacts DEF Sound, Placed
<1>3. Owing(r)' BY <1>1, HandlerFacts DEF Sound, Owing
<1>4. Bounded(r)'
  <2>1. msg[r].tries # 0 BY <1>1, HandlerFacts DEF Sound, Placed
  <2>2. crawl[r].at \in Listed => runs[r].expected = Expected(r) BY HandlerFacts DEF Sound, Placed
  <2>3. QED BY <1>1, <2>1, <2>2, HandlerFacts DEF Sound, Bounded
<1>5. Shown(r)'
  <2>1. crawl[r].at \in Listed => runs[r].expected = Expected(r) BY HandlerFacts DEF Sound, Placed
  <2>2. QED BY <2>1 DEF Shown
<1>6. QED BY <1>2, <1>3, <1>4, <1>5, HandlerFramed DEF Sound

\* The handler leaves the end of the run to its fetches.
LEMMA HandsOver ==
  ASSUME Inv, SoundInv, NEW r \in Runs, HandlerFrame(r), fetch' = fetch, SameRow(r),
         crawl[r].at \in Listed, Expected(r) > 0, crawl'[r].at = "idle",
         msg'[r].state = "done", msg'[r].tries = msg[r].tries, r \in outrun' <=> r \in outrun
  PROVE  Onward /\ SoundInv'
<1>1. "idle" \notin Listed /\ "idle" \notin Reading /\ Reading \cap Listed = {} /\ crawl[r].at # "idle"
  BY DEF Reading, Listed
<1>2. runs[r].expected = Expected(r) BY HandlerFacts DEF Sound, Placed
<1>3. Placed(r)' BY <1>1, <1>2, HandlerFacts DEF Sound, Placed, SameRow
<1>4. Owing(r)' BY <1>1, <1>2, HandlerFacts DEF Sound, Owing, SameRow
<1>5. Bounded(r)' BY <1>1, <1>2, HandlerFacts DEF Sound, Bounded, SameRow
<1>6. Shown(r)' BY HandlerFacts DEF Sound, Shown, SameRow
<1>7. QED BY <1>3, <1>4, <1>5, <1>6, HandlerFramed DEF Sound

-----------------------------------------------------------------------------
(* Which of them each step is.                                              *)

\* What the updates of one run's row, message and handler say of the others.
LEMMA OneRun ==
  ASSUME Inv, NEW r \in Runs
  PROVE  /\ \A row : runs' = [runs EXCEPT ![r] = row] => runs'[r] = row /\ \A x \in Runs \ {r} : SameRow(x)
         /\ \A m : msg' = [msg EXCEPT ![r] = m] => msg'[r] = m /\ \A x \in Runs \ {r} : msg'[x] = msg[x]
         /\ \A s : msg' = [msg EXCEPT ![r].state = s] =>
              /\ msg'[r].state = s /\ msg'[r].tries = msg[r].tries
              /\ \A x \in Runs \ {r} : msg'[x] = msg[x]
         /\ \A c : crawl' = [crawl EXCEPT ![r] = c] =>
              crawl'[r] = c /\ \A x \in Runs \ {r} : crawl'[x] = crawl[x]
         /\ runs' = runs => \A x \in Runs : SameRow(x)
<1>1. runs \in [Runs -> Run] /\ msg \in [Runs -> Message] /\ crawl \in [Runs -> Crawler] BY InvParts
<1>2. \A m \in Message : \A s : [m EXCEPT !.state = s].state = s /\ [m EXCEPT !.state = s].tries = m.tries
  BY DEF Message
<1>3. ASSUME NEW row, runs' = [runs EXCEPT ![r] = row] PROVE runs'[r] = row /\ \A x \in Runs \ {r} : SameRow(x)
  BY <1>1, <1>3 DEF SameRow
<1>4. ASSUME NEW s, msg' = [msg EXCEPT ![r].state = s]
      PROVE  /\ msg'[r].state = s /\ msg'[r].tries = msg[r].tries
             /\ \A x \in Runs \ {r} : msg'[x] = msg[x]
  <2>1. msg' = [msg EXCEPT ![r] = [msg[r] EXCEPT !.state = s]] BY <1>4
  <2>2. msg'[r] = [msg[r] EXCEPT !.state = s] /\ \A x \in Runs \ {r} : msg'[x] = msg[x] BY <1>1, <2>1
  <2>3. QED BY <1>1, <1>2, <2>2
<1>5. runs' = runs => \A x \in Runs : SameRow(x) BY DEF SameRow
<1>6. ASSUME NEW m, msg' = [msg EXCEPT ![r] = m] PROVE msg'[r] = m /\ \A x \in Runs \ {r} : msg'[x] = msg[x]
  BY <1>1, <1>6
<1>7. ASSUME NEW c, crawl' = [crawl EXCEPT ![r] = c]
      PROVE  crawl'[r] = c /\ \A x \in Runs \ {r} : crawl'[x] = crawl[x]
  BY <1>1, <1>7
<1>8. QED BY <1>3, <1>4, <1>5, <1>6, <1>7

LEMMA Unheld ==
  ASSUME Inv, SoundInv, NEW r \in Runs
  PROVE  /\ crawl[r].at # "idle" <=> msg[r].state = "taken"
         /\ crawl[r].at # "idle" \/ msg[r].state # "none" => Used(r)
         /\ crawl[r].at \in Reading => crawl[r].at # "idle"
         /\ crawl[r].at \in Listed => crawl[r].at # "idle"
  BY DEF Inv, Owned, SoundInv, Sound, Placed, Reading, Listed

LEMMA SendSound ==
  ASSUME Inv, SoundInv, NEW r \in Runs, Send(r) \/ SendFails(r) \/ CrawlOrphan(r)
  PROVE  Onward /\ SoundInv'
<1>1. PICK s \in {"ready", "lost", "dead"} : msg' = [msg EXCEPT ![r].state = s]
  BY DEF Send, SendFails, CrawlOrphan
<1>2. /\ UNCHANGED <<tenants, runs, crawl, fetch, fallen, outrun>> /\ deaths' \in Nat /\ deaths <= deaths'
      /\ msg[r].state \in {"unsent", "ready"}
  BY InvParts DEF Send, SendFails, CrawlOrphan, Death, Event, Deliver
<1>3. /\ msg'[r].state = s /\ msg'[r].tries = msg[r].tries /\ SameRow(r)
      /\ \A x \in Runs \ {r} : SameRow(x) /\ msg'[x] = msg[x] /\ crawl'[x] = crawl[x]
  BY <1>1, <1>2, OneRun
<1>4. Used(r) BY <1>2, Unheld
<1>5. HandlerFrame(r) BY <1>2, <1>3, <1>4 DEF HandlerFrame, SameRow, Used
<1>6. QED BY <1>2, <1>3, <1>5, MessageSound

LEMMA StartSound ==
  ASSUME Inv, SoundInv, NEW r \in Runs, CrawlStart(r)
  PROVE  Onward /\ SoundInv'
<1> DEFINE saved == cursor[TenantOf(r)]
           c == [Resting EXCEPT !.at = "list", !.cur = saved, !.saved = saved]
           m == [state |-> "taken", tries |-> msg[r].tries + 1]
           row == [runs[r] EXCEPT !.status = "running"]
<1>1. /\ msg[r].state = "ready" /\ UNCHANGED <<tenants, fetch, deaths, fallen, outrun>>
      /\ crawl' = [crawl EXCEPT ![r] = c] /\ runs' = [runs EXCEPT ![r] = row]
      /\ msg' = [msg EXCEPT ![r] = m]
  BY InvParts DEF CrawlStart, Deliver, Running
<1>2. c.at = "list" /\ c.seen = {} BY DEF Resting
<1>3. /\ row.status = "running" /\ row.tenant = runs[r].tenant /\ row.expected = runs[r].expected
      /\ row.completed = runs[r].completed
  BY InvParts DEF Run
<1>4. m.state = "taken" /\ m.tries = msg[r].tries + 1 OBVIOUS
<1> HIDE DEF c, m, row
<1>5. /\ msg'[r] = m /\ crawl'[r] = c /\ runs'[r] = row
      /\ \A x \in Runs \ {r} : SameRow(x) /\ msg'[x] = msg[x] /\ crawl'[x] = crawl[x]
  BY <1>1, OneRun
<1>6. Used(r) /\ deaths \in Nat BY <1>1, Unheld, InvParts
<1>7. HandlerFrame(r) BY <1>1, <1>3, <1>5, <1>6 DEF HandlerFrame
<1>8. QED BY <1>1, <1>2, <1>3, <1>4, <1>5, <1>7, StartsSound

LEMMA ListPageSound ==
  ASSUME Inv, SoundInv, NEW r \in Runs, ListPage(r)
  PROVE  Onward /\ SoundInv'
<1>0. PICK jobs \in SUBSET OnPage(Page(r)), more \in BOOLEAN, blank \in BOOLEAN :
        LET new  == jobs \ crawl[r].seen
            read == [Asking(r) EXCEPT !.ok = TRUE, !.seen = @ \cup new, !.more = more, !.at = "save"]
        IN /\ crawl' = [crawl EXCEPT ![r] = IF blank THEN Seen(read) ELSE read]
           /\ fetch' = [x \in DOMAIN fetch |->
                          IF x[1] = r /\ x[2] \in new /\ x[3] = "sent" THEN fetch[x] + 1 ELSE fetch[x]]
  BY DEF ListPage
<1> DEFINE new  == jobs \ crawl[r].seen
           read == [Asking(r) EXCEPT !.ok = TRUE, !.seen = @ \cup new, !.more = more, !.at = "save"]
           c == IF blank THEN Seen(read) ELSE read
<1>1. /\ crawl[r].at = "list" /\ UNCHANGED <<tenants, runs, msg, deaths, fallen, outrun>>
      /\ crawl' = [crawl EXCEPT ![r] = c]
  BY <1>0 DEF ListPage, At
<1>2. new \in SUBSET Postings BY DEF OnPage
<1>3. Asking(r) \in Crawler /\ Asking(r).seen = crawl[r].seen
  <2>1. Asking(r) \in Crawler BY InvParts, HandlerRow DEF Asking
  <2>2. QED BY <2>1, InvParts DEF Asking, Crawler
<1>4. read \in Crawler /\ read.at = "save" /\ read.seen = crawl[r].seen \cup new BY <1>2, <1>3 DEF Crawler
<1>5. c.at \in Reading /\ c.seen = crawl[r].seen \cup new
  <2> HIDE DEF read
  <2>1. Seen(read).at = "count" /\ Seen(read).seen = read.seen BY <1>4 DEF Seen, Resting, Crawler
  <2>2. QED BY <1>4, <2>1 DEF Reading
<1>6. fetch' = [x \in DOMAIN fetch |->
                  IF x[1] = r /\ x[2] \in new /\ x[3] = "sent" THEN fetch[x] + 1 ELSE fetch[x]]
  BY <1>0
<1>7. new \cap crawl[r].seen = {} OBVIOUS
<1>8. crawl[r].seen \in SUBSET Postings BY InvParts DEF Crawler
<1>9. PICK old, sent : old = crawl[r].seen /\ sent = new OBVIOUS
<1> HIDE DEF c, read, new
<1>10. IsFiniteSet(old) /\ IsFiniteSet(sent) /\ old \cap sent = {}
  BY <1>2, <1>7, <1>8, <1>9, BoardAssumption, FS_Subset
<1>11. /\ Cardinality(old \cup sent) = Cardinality(old) + Cardinality(sent) - Cardinality(old \cap sent)
       /\ Cardinality(old \cap sent) = 0 /\ Cardinality(old) \in Nat /\ Cardinality(sent) \in Nat
  BY <1>10, FS_Union, FS_EmptySet, FS_CardinalityType
<1>12. /\ crawl'[r] = c /\ msg'[r] = msg[r] /\ SameRow(r)
       /\ \A x \in Runs \ {r} : SameRow(x) /\ msg'[x] = msg[x] /\ crawl'[x] = crawl[x]
  BY <1>1, OneRun
<1>13. Expected(r)' = Expected(r) + Cardinality(sent)
  <2>1. crawl'[r].seen = old \cup sent BY <1>5, <1>9, <1>12
  <2>2. Expected(r)' = Cardinality(old \cup sent) BY <2>1 DEF Expected
  <2>3. Expected(r) = Cardinality(old) BY <1>9 DEF Expected
  <2>4. QED BY <1>11, <2>2, <2>3
<1>14. fetch \in [Fetches -> Nat] BY InvParts DEF Fetches
<1>15. PICK g : g = fetch' OBVIOUS
<1>16. \A x \in Fetches : g[x] = IF x[1] = r /\ x[2] \in sent /\ x[3] = "sent" THEN fetch[x] + 1 ELSE fetch[x]
  BY <1>6, <1>9, <1>14, <1>15
<1>17. /\ IsFiniteSet(Copies(fetch, r, Stages)) /\ IsFiniteSet(Copies(fetch, r, Before))
       /\ Before \in SUBSET Stages /\ Stages \in SUBSET Stages /\ "sent" \in Before /\ "sent" \in Stages
  <2>1. IsFiniteSet(Copies(fetch, r, Stages)) BY DEF SoundInv, Sound, Placed
  <2>2. Copies(fetch, r, Before) \subseteq Copies(fetch, r, Stages) BY DEF Copies, Before, Stages
  <2>3. IsFiniteSet(Copies(fetch, r, Before)) BY <2>1, <2>2, FS_Subset
  <2>4. QED BY <2>1, <2>3 DEF Before, Stages
<1>18. sent \in SUBSET Postings BY <1>2, <1>9
<1>19. /\ IsFiniteSet(Copies(g, r, Stages))
       /\ Cardinality(Copies(g, r, Stages)) = Cardinality(Copies(fetch, r, Stages)) + Cardinality(sent)
  BY <1>14, <1>16, <1>17, <1>18, CopiesSent
<1>20. Cardinality(Copies(g, r, Before)) = Cardinality(Copies(fetch, r, Before)) + Cardinality(sent)
  BY <1>14, <1>16, <1>17, <1>18, CopiesSent
<1>21. /\ IsFiniteSet(Copies(fetch, r, Stages))' /\ Present(r)' = Present(r) + Cardinality(sent)
       /\ Uncounted(r)' = Uncounted(r) + Cardinality(sent)
  BY <1>15, <1>19, <1>20 DEF Present, Uncounted
<1>22. NoClosing(r) => NoClosing(r)' BY <1>14, <1>15, <1>16 DEF NoClosing, Some, Fetches, Stages
<1>23. \A x \in Fetches : x[1] # r => fetch'[x] = fetch[x] BY <1>15, <1>16
<1>24. Used(r) /\ deaths \in Nat BY <1>1, Unheld, InvParts
<1>25. HandlerFrame(r) BY <1>1, <1>12, <1>23, <1>24 DEF HandlerFrame, SameRow, Used
<1>26. crawl[r].at \in Reading BY <1>1 DEF Reading
<1>27. QED BY <1>1, <1>5, <1>11, <1>12, <1>13, <1>21, <1>22, <1>25, <1>26, ReadsSound DEF SameRow

\* A handler that reads no page: fetch stays, and its row but for the errors.
LEMMA ReadsOn ==
  ASSUME Inv, SoundInv, NEW r \in Runs, UNCHANGED <<tenants, msg, fetch, deaths, fallen, outrun>>,
         NEW c, crawl' = [crawl EXCEPT ![r] = c], c.at \in Reading, c.seen = crawl[r].seen,
         NEW b, runs' = [runs EXCEPT ![r].errors = b], crawl[r].at \in Reading
  PROVE  Onward /\ SoundInv'
<1>1. /\ runs'[r].tenant = runs[r].tenant /\ runs'[r].status = runs[r].status
      /\ runs'[r].expected = runs[r].expected /\ runs'[r].completed = runs[r].completed
      /\ \A x \in Runs \ {r} : SameRow(x)
  <2>1. \A x \in Runs \ {r} : runs'[x] = runs[x] BY InvParts
  <2>2. QED BY <2>1, InvParts DEF Run, SameRow
<1>2. crawl'[r] = c /\ \A x \in Runs \ {r} : crawl'[x] = crawl[x] BY OneRun
<1>3. Used(r) /\ deaths \in Nat BY Unheld, InvParts
<1>4. HandlerFrame(r) BY <1>1, <1>2, <1>3 DEF HandlerFrame, Used
<1>5. Expected(r)' = Expected(r) BY <1>2 DEF Expected
<1>6. /\ IsFiniteSet(Copies(fetch, r, Stages))' /\ (NoClosing(r) => NoClosing(r)')
      /\ Present(r)' = Present(r) + 0 /\ Uncounted(r)' = Uncounted(r) + 0 /\ Expected(r)' = Expected(r) + 0
  BY <1>4, <1>5, HandlerFacts
<1>7. QED BY <1>1, <1>2, <1>4, <1>6, ReadsSound

LEMMA ListEndSound ==
  ASSUME Inv, SoundInv, NEW r \in Runs, ListFails(r) \/ ListMissing(r)
  PROVE  Onward /\ SoundInv'
<1>1. /\ crawl[r].at \in Reading /\ UNCHANGED <<tenants, msg, fetch, deaths, fallen, outrun>>
      /\ \E b : runs' = [runs EXCEPT ![r].errors = b]
  BY DEF ListFails, ListMissing, At, Reading
<1>2. crawl[r] \in Crawler BY InvParts
<1>3. \A d \in Crawler : Seen(d).at \in Reading /\ Seen(d).seen = d.seen BY DEF Seen, Resting, Crawler, Reading
<1>4. \E c : crawl' = [crawl EXCEPT ![r] = c] /\ c.at \in Reading /\ c.seen = crawl[r].seen
  <2>1. CASE ListFails(r)
    <3>1. PICK b : crawl' = [crawl EXCEPT ![r] = Seen([crawl[r] EXCEPT !.ok = b])] /\ b \in BOOLEAN
      <4>1. PICK kind \in {"http", "network", "garbled"} :
              crawl' = [crawl EXCEPT ![r] = Seen([crawl[r] EXCEPT !.ok = @ \/ kind = "garbled"])]
        BY <2>1 DEF ListFails
      <4>2. (crawl[r].ok \/ kind = "garbled") \in BOOLEAN BY <1>2 DEF Crawler
      <4>3. QED BY <4>1, <4>2
    <3>2. [crawl[r] EXCEPT !.ok = b] \in Crawler /\ [crawl[r] EXCEPT !.ok = b].seen = crawl[r].seen
      BY <1>2, <3>1 DEF Crawler
    <3>3. QED BY <1>3, <3>1, <3>2
  <2>2. CASE ListMissing(r)
    <3> DEFINE again == crawl[r].saved # 0 /\ crawl[r].cur = crawl[r].saved /\ ~crawl[r].reset
               restart == [Asking(r) EXCEPT !.cur = 0, !.skip = 0, !.reset = TRUE]
               c == IF again THEN restart ELSE Seen(crawl[r])
    <3>1. crawl' = [crawl EXCEPT ![r] = c] BY <2>2 DEF ListMissing
    <3>2. crawl[r].at = "list" BY <2>2 DEF ListMissing, At
    <3>3. restart.at = "list" /\ restart.seen = crawl[r].seen BY <1>2, <3>2 DEF Asking, Crawler
    <3> HIDE DEF restart
    <3>4. c.at \in Reading /\ c.seen = crawl[r].seen BY <1>2, <1>3, <3>3 DEF Reading
    <3>5. QED BY <3>1, <3>4
  <2>3. QED BY <2>1, <2>2
<1>5. PICK c : crawl' = [crawl EXCEPT ![r] = c] /\ c.at \in Reading /\ c.seen = crawl[r].seen BY <1>4
<1>6. PICK b : runs' = [runs EXCEPT ![r].errors = b] BY <1>1
<1>7. QED BY <1>1, <1>5, <1>6, ReadsOn

LEMMA SavePageSound ==
  ASSUME Inv, SoundInv, NEW r \in Runs, SavePage(r)
  PROVE  Onward /\ SoundInv'
<1> DEFINE lever == TenantOf(r) \in Lever
           next == IF lever THEN crawl[r].skip + 1 ELSE crawl[r].cur + 1
           stop == ~crawl[r].more \/ next \in crawl[r].asked \/ Cardinality(crawl[r].asked) >= MaxPages
           skip == IF lever THEN next ELSE crawl[r].skip
           on == [crawl[r] EXCEPT !.at = "list", !.cur = next, !.skip = skip]
           c == IF stop THEN Seen(crawl[r]) ELSE on
<1>1. /\ crawl' = [crawl EXCEPT ![r] = c] /\ UNCHANGED <<tenants, runs, msg, fetch, deaths, fallen, outrun>>
      /\ crawl[r].at \in Reading
  BY DEF SavePage, At, Reading
<1>2. crawl[r] \in Crawler BY InvParts
<1> HIDE DEF stop, next, skip
<1>3. on.at = "list" /\ on.seen = crawl[r].seen BY <1>2 DEF Crawler
<1>4. Seen(crawl[r]).at = "count" /\ Seen(crawl[r]).seen = crawl[r].seen BY DEF Seen, Resting
<1> HIDE DEF on
<1>5. c.at \in Reading /\ c.seen = crawl[r].seen BY <1>3, <1>4 DEF Reading
<1>6. runs' = [runs EXCEPT ![r].errors = runs[r].errors] BY <1>1, InvParts DEF Run
<1> HIDE DEF c
<1>7. QED BY <1>1, <1>5, <1>6, ReadsOn

LEMMA SetCountsSound ==
  ASSUME Inv, SoundInv, NEW r \in Runs, SetCounts(r)
  PROVE  Onward /\ SoundInv'
<1> DEFINE row == [runs[r] EXCEPT !.expected = Expected(r)]
           c == [crawl[r] EXCEPT !.at = IF crawl[r].ok THEN "prune" ELSE "end"]
<1>1. /\ runs' = [runs EXCEPT ![r] = row] /\ crawl' = [crawl EXCEPT ![r] = c]
      /\ outrun' = IF Expected(r) \in 1 .. runs[r].completed THEN outrun \cup {r} ELSE outrun \ {r}
      /\ UNCHANGED <<tenants, msg, fetch, deaths, fallen>> /\ crawl[r].at \in Reading
  BY DEF SetCounts, Goto, At, Reading
<1>2. /\ row.tenant = runs[r].tenant /\ row.status = runs[r].status /\ row.expected = Expected(r)
      /\ row.completed = runs[r].completed
  BY InvParts DEF Run
<1>3. c.at \in Listed /\ c.seen = crawl[r].seen BY InvParts DEF Crawler, Listed
<1> HIDE DEF row, c
<1>4. /\ runs'[r] = row /\ crawl'[r] = c /\ msg'[r] = msg[r]
      /\ \A x \in Runs \ {r} : SameRow(x) /\ msg'[x] = msg[x] /\ crawl'[x] = crawl[x]
  BY <1>1, OneRun
<1>5. /\ \A x \in Runs \ {r} : x \in outrun' <=> x \in outrun
      /\ r \in outrun' <=> Expected(r) \in 1 .. runs[r].completed
  BY <1>1
<1>6. Used(r) /\ deaths \in Nat BY <1>1, Unheld, InvParts
<1>7. HandlerFrame(r) BY <1>1, <1>2, <1>4, <1>5, <1>6 DEF HandlerFrame, Used
<1>8. QED BY <1>1, <1>2, <1>3, <1>4, <1>5, <1>7, ExpectsSound

LEMMA PruneSound ==
  ASSUME Inv, SoundInv, NEW r \in Runs, Prune(r) \/ \E p \in Postings : Close(r, p)
  PROVE  Onward /\ SoundInv'
<1>1. UNCHANGED <<tenants, runs, msg, fetch, deaths, fallen, outrun>> /\ crawl[r].at \in Listed
  BY DEF Prune, Close, At, Listed
<1>2. PICK S, at : at \in Listed /\ crawl' = [crawl EXCEPT ![r].doomed = S, ![r].at = at]
  <2>1. CASE Prune(r)
    <3>1. PICK S : crawl' = [crawl EXCEPT ![r].doomed = S, ![r].at = IF S = {} THEN "end" ELSE "close"]
      BY <2>1 DEF Prune
    <3>2. QED BY <3>1 DEF Listed
  <2>2. ASSUME NEW p \in Postings, Close(r, p)
        PROVE  \E S, at : at \in Listed /\ crawl' = [crawl EXCEPT ![r].doomed = S, ![r].at = at]
    <3>1. crawl[r].at = "close" BY <2>2 DEF Close, At
    <3>2. crawl' = [crawl EXCEPT ![r].doomed = crawl[r].doomed \ {p},
                                 ![r].at = IF crawl[r].doomed = {p} THEN "end" ELSE "close"]
      BY <2>2, <3>1 DEF Close
    <3>3. QED BY <3>2 DEF Listed
  <2>3. QED BY <2>1, <2>2
<1> DEFINE c == [crawl[r] EXCEPT !.doomed = S, !.at = at]
<1>3. crawl' = [crawl EXCEPT ![r] = c] BY <1>2
<1>4. c.at \in Listed /\ c.seen = crawl[r].seen BY <1>2, InvParts DEF Crawler
<1> HIDE DEF c
<1>5. /\ crawl'[r] = c /\ msg'[r] = msg[r] /\ SameRow(r)
      /\ \A x \in Runs \ {r} : SameRow(x) /\ msg'[x] = msg[x] /\ crawl'[x] = crawl[x]
  BY <1>1, <1>3, OneRun
<1>6. Used(r) /\ deaths \in Nat BY <1>1, Unheld, InvParts
<1>7. HandlerFrame(r) BY <1>1, <1>5, <1>6 DEF HandlerFrame, SameRow, Used
<1>8. QED BY <1>1, <1>4, <1>5, <1>7, ClosesSound

LEMMA RaiseSound ==
  ASSUME Inv, SoundInv, NEW r \in Runs, CrawlDies(r) \/ \E p \in Postings : CloseRaises(r, p)
  PROVE  Onward /\ SoundInv'
<1>1. /\ UNCHANGED <<tenants, runs, fetch, fallen, outrun>> /\ deaths' \in Nat /\ deaths <= deaths'
      /\ crawl[r].at # "idle" /\ Raise(r)
  <2>1. deaths \in Nat BY InvParts
  <2>2. CASE CrawlDies(r) BY <2>1, <2>2 DEF CrawlDies, Death
  <2>3. ASSUME NEW p \in Postings, CloseRaises(r, p)
        PROVE  /\ UNCHANGED <<tenants, runs, fetch, deaths, fallen, outrun>> /\ crawl[r].at # "idle" /\ Raise(r)
    BY <2>3 DEF CloseRaises, At
  <2>4. QED BY <2>1, <2>2, <2>3
<1>2. PICK s \in {"ready", "dead"} : msg' = [msg EXCEPT ![r].state = s] BY <1>1 DEF Raise, GivenBack
<1>3. crawl' = [crawl EXCEPT ![r] = Resting] /\ Resting.at = "idle" BY <1>1, Rests DEF Raise
<1>4. /\ crawl'[r].at = "idle" /\ msg'[r].state = s /\ msg'[r].tries = msg[r].tries /\ SameRow(r)
      /\ \A x \in Runs \ {r} : SameRow(x) /\ msg'[x] = msg[x] /\ crawl'[x] = crawl[x]
  <2>1. PICK c : c = Resting OBVIOUS
  <2>2. crawl'[r] = c /\ \A x \in Runs \ {r} : crawl'[x] = crawl[x] BY <1>3, <2>1, OneRun
  <2>3. c.at = "idle" BY <1>3, <2>1
  <2>4. msg'[r].state = s /\ msg'[r].tries = msg[r].tries /\ \A x \in Runs \ {r} : msg'[x] = msg[x]
    BY <1>2, OneRun
  <2>5. \A x \in Runs : SameRow(x) BY <1>1, OneRun
  <2>6. QED BY <2>2, <2>3, <2>4, <2>5
<1>5. Used(r) BY <1>1, Unheld
<1>6. HandlerFrame(r) BY <1>1, <1>4, <1>5 DEF HandlerFrame, SameRow, Used
<1>7. QED BY <1>1, <1>3, <1>4, <1>6, RaisesSound

LEMMA ReturnSound ==
  ASSUME Inv, SoundInv, NEW r \in Runs, ListRaises(r) \/ CrawlEnds(r)
  PROVE  Onward /\ SoundInv'
<1>1. /\ UNCHANGED <<tenants, fetch, deaths, fallen, outrun>>
      /\ msg' = [msg EXCEPT ![r].state = "done"] /\ crawl' = [crawl EXCEPT ![r] = Resting]
  BY DEF ListRaises, CrawlEnds, Return
<1>2. /\ crawl'[r].at = "idle" /\ msg'[r].state = "done" /\ msg'[r].tries = msg[r].tries
      /\ \A x \in Runs \ {r} : msg'[x] = msg[x] /\ crawl'[x] = crawl[x]
  <2>1. PICK c : c = Resting OBVIOUS
  <2>2. crawl'[r] = c /\ \A x \in Runs \ {r} : crawl'[x] = crawl[x] BY <1>1, <2>1, OneRun
  <2>3. c.at = "idle" BY <2>1, Rests
  <2>4. msg'[r].state = "done" /\ msg'[r].tries = msg[r].tries /\ \A x \in Runs \ {r} : msg'[x] = msg[x]
    BY <1>1, OneRun
  <2>5. QED BY <2>2, <2>3, <2>4
<1>3. ASSUME NEW s \in {"succeeded", "failed"}, runs' = Finished(runs, r, s), Used(r)
      PROVE  /\ HandlerFrame(r) /\ runs'[r].expected = runs[r].expected /\ runs'[r].status \notin InFlight
             /\ s = "failed" => runs'[r].status = "failed"
  <2>1. /\ \A x \in Runs : /\ runs'[x].tenant = runs[x].tenant /\ runs'[x].expected = runs[x].expected
                           /\ runs'[x].completed = runs[x].completed /\ runs'[x].errors = runs[x].errors
        /\ \A x \in Runs \ {r} : runs'[x].status = runs[x].status
        /\ runs'[r].status = IF s = "succeeded" /\ runs[r].errors THEN "partial_success" ELSE s
    BY <1>3, InvParts, FinishedRow
  <2>2. runs'[r].status \in {"succeeded", "partial_success", "failed"} BY <2>1
  <2>3. HandlerFrame(r) BY <1>1, <1>2, <1>3, <2>1, <2>2, InvParts DEF HandlerFrame, SameRow
  <2>4. QED BY <2>1, <2>2, <2>3 DEF InFlight
<1>4. CASE ListRaises(r)
  <2>1. crawl[r].at \in Reading /\ runs' = Finished(runs, r, "failed") BY <1>4 DEF ListRaises, At, Reading
  <2>2. Used(r) BY <2>1, Unheld
  <2>3. QED BY <1>1, <1>2, <1>3, <2>1, <2>2, EndsSound
<1>5. CASE CrawlEnds(r)
  <2>1. crawl[r].at \in Listed BY <1>5 DEF CrawlEnds, At, Listed
  <2>2. Used(r) BY <2>1, Unheld
  <2>3. CASE crawl[r].seen = {}
    <3>1. PICK s \in {"succeeded", "failed"} : runs' = Finished(runs, r, s) BY <1>5, <2>3 DEF CrawlEnds
    <3>2. Expected(r) = 0 BY <2>3, FS_EmptySet DEF Expected
    <3>3. QED BY <1>1, <1>2, <1>3, <2>1, <2>2, <3>1, <3>2, EndsSound
  <2>4. CASE crawl[r].seen # {}
    <3>1. runs' = runs BY <1>5, <2>4 DEF CrawlEnds
    <3>2. \A x \in Runs : SameRow(x) BY <3>1, OneRun
    <3>3. HandlerFrame(r) BY <1>1, <1>2, <2>2, <3>1, <3>2, InvParts DEF HandlerFrame, SameRow, Used
    <3>4. crawl[r].seen \in SUBSET Postings BY InvParts DEF Crawler
    <3>5. IsFiniteSet(crawl[r].seen) BY <3>4, BoardAssumption, FS_Subset
    <3>6. Expected(r) > 0 BY <2>4, <3>5, FS_EmptySet, FS_CardinalityType DEF Expected
    <3>7. QED BY <1>1, <1>2, <2>1, <3>2, <3>3, <3>6, HandsOver
  <2>5. QED BY <2>3, <2>4
<1>6. QED BY <1>4, <1>5

-----------------------------------------------------------------------------
\* The initial states.
LEMMA SoundInit == ASSUME Init PROVE SoundInv
<1>1. SUFFICES ASSUME NEW r \in Runs PROVE Sound(r) BY DEF SoundInv
<1>2. Inv BY InvInit
<1>3. /\ msg[r].state = "none" /\ msg[r].tries = 0 /\ crawl[r].at = "idle" /\ deaths = 0
      /\ \A p \in Postings, s \in Stages : fetch[<<r, p, s>>] = 0
  BY DEF Init, Resting
<1>4. /\ runs[r].expected = 0 /\ runs[r].completed = 0 /\ runs[r].status \in {"none", "succeeded"}
      /\ Used(r) => tenants[TenantOf(r)].status # "new"
  <2>1. CASE InitNew BY <2>1 DEF InitNew, NoRun, Used
  <2>2. CASE InitCrawled
    <3>1. PICK t \in Tenants, refiled \in Refiled :
            /\ tenants = Only(t, [status |-> "live", enabled |-> TRUE])
            /\ runs = [x \in Runs |-> IF x = 1 THEN Past(t, refiled) ELSE NoRun]
      BY <2>2 DEF InitCrawled
    <3>2. tenants[t].status = "live" BY <3>1 DEF Only
    <3>3. CASE r = 1 BY <3>1, <3>2, <3>3 DEF Past, NoRun, TenantOf
    <3>4. CASE r # 1 BY <3>1, <3>4 DEF NoRun, Used
    <3>5. QED BY <3>3, <3>4
  <2>3. QED BY <2>1, <2>2 DEF Init
<1>5. Copies(fetch, r, Stages) = {} BY <1>3 DEF Copies
<1>6. IsFiniteSet(Copies(fetch, r, Stages)) /\ Present(r) = 0 BY <1>5, FS_EmptySet DEF Present
<1>7. Uncounted(r) = 0 BY <1>2, <1>6, Numbers
<1>8. NoClosing(r)
  <2>1. "closing" \in Stages BY DEF Stages
  <2>2. \A p \in Postings : fetch[<<r, p, "closing">>] = 0 BY <1>3, <2>1
  <2>3. QED BY <2>2 DEF NoClosing, Some
<1>9. Placed(r) BY <1>3, <1>4, <1>6 DEF Placed, Listed, InFlight
<1>10. Owing(r) BY <1>3, <1>4, <1>6, <1>7 DEF Owing, Listed, Reading
<1>11. Bounded(r) BY <1>3, <1>4, <1>6, <1>8 DEF Bounded, Listed, Reading
<1>12. Shown(r) BY <1>4 DEF Shown
<1>13. QED BY <1>9, <1>10, <1>11, <1>12 DEF Sound

LEMMA SoundStep == ASSUME Inv, SoundInv, [Next]_vars PROVE SoundInv'
<1>1. ASSUME NEW r \in Runs, CrawlStep(r) PROVE SoundInv'
  BY <1>1, StartSound, SendSound, ListPageSound, ListEndSound, ReturnSound, SavePageSound, SetCountsSound, PruneSound,
     RaiseSound DEF CrawlStep
<1>2. ASSUME NEW r \in Runs, NEW p \in Postings, FetchStep(r, p) PROVE SoundInv' BY <1>2, FetchSound
<1>3. ASSUME NEW r \in Runs, Send(r) \/ SendFails(r) PROVE SoundInv' BY <1>3, SendSound
<1>4. ASSUME NEW r \in Runs, CrawlDies(r) PROVE SoundInv' BY <1>4, RaiseSound
<1>5. ASSUME NEW r \in Runs, NEW p \in Postings, NEW stage \in Stages, FetchDies(r, p, stage) PROVE SoundInv'
  BY <1>5, FetchDiesSound
<1>6. ASSUME NEW t \in Tenants, TenantStep(t) PROVE SoundInv' BY <1>6, TenantSound
<1>7. CASE UNCHANGED vars
  <2>1. UNCHANGED <<tenants, runs, msg, crawl, fetch, deaths, fallen, outrun>> BY <1>7 DEF vars
  <2>2. Onward BY <2>1, InvParts, WornStays DEF Onward, Live
  <2>3. \A x \in Runs : Same(x) BY <2>1 DEF Same, SameRow, SameFetches
  <2>4. QED BY <2>2, <2>3, SameSound DEF SoundInv
<1>8. QED BY <1>1, <1>2, <1>3, <1>4, <1>5, <1>6, <1>7 DEF Next, Work

LEMMA AlwaysSound == Spec => [](Inv /\ SoundInv)
<1>1. Init => Inv /\ SoundInv BY InvInit, SoundInit
<1>2. Inv /\ SoundInv /\ [Next]_vars => (Inv /\ SoundInv)' BY InvStep, SoundStep
<1>3. QED BY <1>1, <1>2, PTL DEF Spec

\* The messages that are left of a run are among their copies.
LEMMA LeftCopies ==
  ASSUME Inv, NEW r \in Runs, IsFiniteSet(Copies(fetch, r, Stages))
  PROVE  /\ IsFiniteSet(Left(r)) /\ Cardinality(Left(r)) <= Present(r)
         /\ Left(r) = {} => Present(r) = 0
<1> DEFINE copy == [x \in Left(r) |-> <<x[2], x[3], 1>>]
<1>1. fetch \in [Fetches -> Nat] BY InvParts DEF Fetches
<1>2. \A x \in Left(r) : x \in Fetches /\ x[1] = r /\ fetch[x] \in Nat /\ fetch[x] > 0 /\ x = <<r, x[2], x[3]>>
  BY <1>1 DEF Left, Fetches
<1>3. \A x \in Left(r) : copy[x] \in Copies(fetch, r, Stages) BY <1>2 DEF Copies, Fetches
<1>4. \A x, y \in Left(r) : copy[x] = copy[y] => x = y BY <1>2
<1>5. PICK C, L : C = Copies(fetch, r, Stages) /\ L = Left(r) OBVIOUS
<1>6. copy \in [L -> C] BY <1>3, <1>5
<1>7. copy \in Injection(L, C)
  <2>1. \A x, y \in L : copy[x] = copy[y] => x = y BY <1>4, <1>5
  <2> HIDE DEF copy
  <2>2. QED BY <1>6, <2>1 DEF Injection, IsInjective
<1>8. IsFiniteSet(L) /\ Cardinality(L) <= Cardinality(C)
  <2> HIDE DEF copy
  <2>1. IsFiniteSet(C) BY <1>5
  <2>2. QED BY <1>7, <2>1, FS_Injection
<1>9. Left(r) = {} => Copies(fetch, r, Stages) = {}
  <2>1. ASSUME NEW q \in Postings, NEW s \in Stages, NEW i \in Nat, i \in 1 .. fetch[<<r, q, s>>]
        PROVE  <<r, q, s>> \in Left(r)
    BY <1>1, <2>1 DEF Left, Fetches
  <2>2. QED BY <2>1 DEF Copies
<1>10. QED BY <1>5, <1>8, <1>9, FS_EmptySet DEF Present

\* While no two store calls overlap, a run of a connected board that nothing will touch again has
\* ended, unless its message was lost or given up, a fetch of it was, or its fetches were all
\* counted before the listing was: but for these, the fetches that are left to count make up what
\* is expected, however handlers die and are run again.
THEOREM OnlyOutrun == Spec => []OnlyOutrunHangs
<1>1. ASSUME Inv, SoundInv, NEW r \in Runs, runs[r].status \in InFlight, Quiet(r), Live(TenantOf(r))
      PROVE  msg[r].state \in {"lost", "dead"} \/ r \in outrun \/ Worn(r)
  <2>1. Sound(r) BY <1>1 DEF SoundInv
  <2>2. msg[r].state # "none" BY <1>1, <2>1 DEF Sound, Placed
  <2>4. SUFFICES ASSUME msg[r].state = "done", ~Worn(r) PROVE r \in outrun BY <1>1, <2>2 DEF Quiet
  <2>3. InUse(r) BY <1>1, <2>2, <2>4 DEF Inv, Owned, InUse
  <2>5. runs[r].expected > 0 BY <1>1, <2>1, <2>4 DEF Sound, Placed
  <2>6. IsFiniteSet(Copies(fetch, r, Stages)) BY <2>1 DEF Sound, Placed
  <2>7. Present(r) = 0 BY <1>1, <2>6, LeftCopies DEF Quiet
  <2>8. /\ Uncounted(r) = 0 /\ runs[r].expected \in Nat /\ runs[r].completed \in Nat
    BY <1>1, <2>6, <2>7, Numbers
  <2>9. QED BY <1>1, <2>1, <2>3, <2>4, <2>5, <2>7, <2>8 DEF Sound, Owing
<1>2. Inv /\ SoundInv => OnlyOutrunHangs BY <1>1 DEF OnlyOutrunHangs
<1>3. QED BY <1>2, AlwaysSound, PTL

\* While no two store calls overlap, what a run that was delivered once says of itself is true: a
\* success leaves no more postings to fetch than handlers died, as each of them is counted once but
\* for those, and a failed request shows in the end, if no fetch was given up, as the last to
\* finish the run reads its errors.
THEOREM ResultsTrue == Spec => []ResultsAreTrue
<1>1. ASSUME Inv, SoundInv, NEW r \in Runs, runs[r].status \in Good, msg[r].tries <= 1
      PROVE  Cardinality(Left(r)) <= deaths
  <2>1. Sound(r) /\ IsFiniteSet(Copies(fetch, r, Stages)) BY <1>1 DEF SoundInv, Sound, Placed
  <2>2. Present(r) \in Nat /\ runs[r].expected \in Nat /\ runs[r].completed \in Nat /\ deaths \in Nat
    BY <1>1, <2>1, Numbers
  <2>3. Present(r) <= deaths BY <1>1, <2>1, <2>2 DEF Sound, Bounded
  <2>4. IsFiniteSet(Left(r)) /\ Cardinality(Left(r)) <= Present(r) BY <1>1, <2>1, LeftCopies
  <2>5. Cardinality(Left(r)) \in Nat BY <2>4, FS_CardinalityType
  <2>6. QED BY <2>2, <2>3, <2>4, <2>5
<1>2. ASSUME Inv, SoundInv, NEW r \in Runs, runs[r].status = "succeeded", runs[r].expected > 0, msg[r].tries <= 1,
             Quiet(r), Live(TenantOf(r)), ~Worn(r)
      PROVE  ~runs[r].errors
  <2>1. Sound(r) /\ IsFiniteSet(Copies(fetch, r, Stages)) BY <1>2 DEF SoundInv, Sound, Placed
  <2>2. InUse(r) BY <1>2, <2>1 DEF Sound, Placed, InUse
  <2>3. Present(r) = 0 BY <1>2, <2>1, LeftCopies DEF Quiet
  <2>4. QED BY <1>2, <2>1, <2>2, <2>3 DEF Sound, Shown
<1>3. Inv /\ SoundInv => ResultsAreTrue BY <1>1, <1>2 DEF ResultsAreTrue, SuccessIsComplete, ErrorsShow
<1>4. QED BY <1>3, AlwaysSound, PTL
=============================================================================
