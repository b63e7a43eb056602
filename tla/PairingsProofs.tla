--------------------------- MODULE PairingsProofs ---------------------------
(***************************************************************************)
(* What Pairings promises, for any number of runs, handlers and events.    *)
(***************************************************************************)
EXTENDS Pairings, FiniteSetTheorems, TLAPS

\* The rows that a store call leaves: its copy where that has a row, the store's where not.
LEMMA OverwrittenRow ==
  ASSUME NEW copy \in [Ids -> Row], matches \in [Ids -> Row]
  PROVE  /\ Overwritten(copy) \in [Ids -> Row]
         /\ \A r \in Ids : Overwritten(copy)[r] = IF copy[r].status = "none" THEN matches[r] ELSE copy[r]
  BY DEF Overwritten

LEMMA IdsBound == ASSUME PairingBounds PROVE {1, 2} \subseteq Ids
  BY DEF PairingBounds, Ids

LEMMA TypeInit == ASSUME PairingBounds, Init PROVE TypeInv
<1>1. NoRow \in Row /\ \A s \in Sources : Waiting(s) \in Row BY DEF NoRow, Row, Sources, Waiting
<1>2. NoCopy \in [Ids -> Row] BY <1>1 DEF NoCopy
<1>3. matches \in [Ids -> Row] BY <1>1, <1>2, IdsBound DEF Init, Sources
<1>4. Idle \in Job BY <1>2 DEF Idle, Job, Aimed, Sources
<1>5. work \in [Handlers -> Job] BY <1>4 DEF Init
<1>6. budget \in Nat BY DEF Init, PairingBounds
<1>. QED BY <1>3, <1>5, <1>6 DEF Init, TypeInv, Ready, At, Aimed

\* Types are kept by every step.
LEMMA TypeStep == ASSUME TypeInv, [Next]_pairingVars PROVE TypeInv'
<1>. USE DEF TypeInv, history
<1>a. NoRow \in Row /\ \A s \in Sources : Waiting(s) \in Row BY DEF NoRow, Row, Sources, Waiting
<1>b. NoCopy \in [Ids -> Row] BY <1>a DEF NoCopy
<1>c. Idle \in Job BY <1>b DEF Idle, Job, Aimed, Sources
<1>d. work \in [Handlers -> Job] BY DEF Job, Aimed
<1>e. SUFFICES ASSUME Next PROVE TypeInv' BY DEF pairingVars
<1>f. PICK h \in Handlers : Request(h) \/ Work(h) \/ Die(h) BY <1>e DEF Next
<1>g. work[h] \in Job /\ Copy(h) \in [Ids -> Row] BY <1>d DEF Job, Aimed, Copy
<1>h. \A job \in Job : Begin(h, job) => work' \in [Handlers -> Job] BY <1>d DEF Begin
<1>i. \A where \in {"create", "merge", "audit"} :
        Goto(h, where) /\ work[h].at \in Aimed => work' \in [Handlers -> Job]
  <2>1. SUFFICES ASSUME NEW where \in {"create", "merge", "audit"}, Goto(h, where), work[h].at \in Aimed
                 PROVE  work' \in [Handlers -> Job]
    OBVIOUS
  <2>2. [work[h] EXCEPT !.at = where, !.read = FALSE, !.copy = NoCopy] \in Job
    BY <2>1, <1>b, <1>g DEF Job, Aimed
  <2>3. work' = [work EXCEPT ![h] = [work[h] EXCEPT !.at = where, !.read = FALSE, !.copy = NoCopy]]
    BY <2>1 DEF Goto
  <2>. QED BY <2>2, <2>3, <1>d
<1>j. Leave(h) => work' \in [Handlers -> Job] BY <1>c, <1>d DEF Leave
<1>k. Event => budget' \in Nat BY DEF Event
<1>l. \A x \in Ids : Further(h, x) => work' \in [Handlers -> Job]
  <2>1. SUFFICES ASSUME NEW x \in Ids, Further(h, x) PROVE work' \in [Handlers -> Job]
    OBVIOUS
  <2>2. [work[h] EXCEPT !.extras = @ \ {x}, !.read = FALSE, !.copy = NoCopy] \in Job
    BY <1>b, <1>g DEF Job
  <2>3. CASE work[h].extras = {x} BY <2>1, <2>3, <1>j DEF Further
  <2>4. CASE work[h].extras # {x}
    <3>1. work' = [work EXCEPT ![h] = [work[h] EXCEPT !.extras = @ \ {x}, !.read = FALSE, !.copy = NoCopy]]
      BY <2>1, <2>4 DEF Further
    <3>. QED BY <3>1, <2>2, <1>d
  <2>. QED BY <2>3, <2>4
<1>m. ASSUME NEW copy \in [Ids -> Row], Persist(h, copy)
      PROVE  matches' \in [Ids -> Row] /\ overtaken' \subseteq Ids
  BY <1>m, OverwrittenRow DEF Persist, Stale, Present
<1>n. /\ \A row \in Row, s \in Sources : [row EXCEPT !.source = s] \in Row
      /\ \A row \in Row, s \in {"pending", "decided"} : [row EXCEPT !.status = s] \in Row
  BY DEF Row
<1>1. CASE Request(h)
  <2>1. CASE View(h)
    <3>1. [Idle EXCEPT !.at = "audit"] \in Job BY <1>c DEF Job, Aimed
    <3>. QED BY <2>1, <3>1, <1>h, <1>k DEF View, Ready, At, Aimed
  <2>2. CASE \E run \in Ids, source \in Sources : Score(h, run, source)
    <3>1. PICK run \in Ids, source \in Sources : Score(h, run, source) BY <2>2
    <3>2. [Idle EXCEPT !.at = "list", !.r = run, !.source = source] \in Job BY <1>c DEF Job, Aimed
    <3>. QED BY <3>1, <3>2, <1>h, <1>k DEF Score, Ready, At, Aimed
  <2>3. CASE \E r \in Ids : Decide(h, r) \/ Reopen(h, r)
    <3>1. PICK r \in Ids : Decide(h, r) \/ Reopen(h, r) BY <2>3
    <3>2. [Idle EXCEPT !.at = "decide", !.r = r] \in Job /\ [Idle EXCEPT !.at = "reopen", !.r = r] \in Job
      BY <1>c DEF Job, Aimed
    <3>. QED BY <3>1, <3>2, <1>h, <1>k DEF Decide, Reopen, Ready, At, Aimed
  <2>. QED BY <1>1, <2>1, <2>2, <2>3 DEF Request
<1>2. CASE Die(h) BY <1>2, <1>j, <1>k DEF Die, Ready, At, Aimed
<1>3. CASE Hydrates(h)
  <2>1. [work[h] EXCEPT !.copy = matches, !.read = TRUE] \in Job BY <1>g DEF Job
  <2>2. work' = [work EXCEPT ![h] = [work[h] EXCEPT !.copy = matches, !.read = TRUE]]
    BY <1>3 DEF Hydrates
  <2>. QED BY <1>3, <2>1, <2>2, <1>d DEF Hydrates
<1>4. CASE Finds(h)
  <2>1. PICK r \in Targets(h) :
          Begin(h, [work[h] EXCEPT !.at = "update", !.r = r, !.extras = Pending(matches) \ {r},
                                   !.source = IF matches[r].source = "saved" THEN "saved" ELSE @])
    BY <1>4 DEF Finds
  <2>2. r \in Ids /\ Pending(matches) \ {r} \subseteq Ids BY DEF Targets, Pending
  <2>3. [work[h] EXCEPT !.at = "update", !.r = r, !.extras = Pending(matches) \ {r},
                        !.source = IF matches[r].source = "saved" THEN "saved" ELSE @] \in Job
    BY <2>2, <1>g DEF Job, Aimed, Sources
  <2>4. work' \in [Handlers -> Job] BY <2>1, <2>3, <1>h
  <2>. QED BY <1>4, <2>4 DEF Finds, Ready, At, Aimed
<1>5. CASE FindsDecided(h) \/ CreateClashes(h) \/ UpdateRefused(h) \/ DecideRefused(h) \/ ReopenMisses(h)
  BY <1>5, <1>j DEF FindsDecided, CreateClashes, UpdateRefused, DecideRefused, ReopenMisses, Ready, At, Aimed
<1>6. CASE FindsNone(h) BY <1>6, <1>i DEF FindsNone, Ready, At, Aimed
<1>7. CASE Creates(h)
  <2>1. [Copy(h) EXCEPT ![work[h].r] = Waiting(work[h].source)] \in [Ids -> Row]
    BY <1>a, <1>g DEF Job, Aimed
  <2>2. matches' \in [Ids -> Row] BY <1>7, <2>1, OverwrittenRow DEF Creates
  <2>3. overtaken' \subseteq Ids BY <1>7 DEF Creates, Stale, Present
  <2>. QED BY <1>7, <2>2, <2>3, <1>j DEF Creates, Ready, At, Aimed
<1>8. CASE Updates(h)
  <2>1. [Copy(h) EXCEPT ![work[h].r].source = work[h].source] \in [Ids -> Row]
    BY <1>g, <1>n DEF Job
  <2>2. work' \in [Handlers -> Job] BY <1>8, <1>i, <1>j DEF Updates, Ready, At, Aimed
  <2>. QED BY <1>8, <2>1, <2>2, <1>m DEF Updates, Ready, At, Aimed
<1>9. ASSUME NEW x \in Ids, Discards(h, x) \/ KeepsDecided(h, x) \/ MissesExtra(h, x) PROVE TypeInv'
  <2>1. CASE Discards(h, x)
    <3>1. matches' \in [Ids -> Row] BY <2>1, <1>a, <1>g, OverwrittenRow DEF Discards
    <3>2. overtaken' \subseteq Ids BY <2>1 DEF Discards, Stale, Present
    <3>. QED BY <2>1, <3>1, <3>2, <1>l DEF Discards, Ready, At, Aimed
  <2>2. CASE KeepsDecided(h, x) BY <2>2, <1>l DEF KeepsDecided, Ready, At, Aimed
  <2>3. CASE MissesExtra(h, x) BY <2>3, <1>j DEF MissesExtra, Ready, At, Aimed
  <2>. QED BY <1>9, <2>1, <2>2, <2>3
<1>10. CASE Decides(h) \/ Reopens(h)
  <2>1. /\ [Copy(h) EXCEPT ![work[h].r].status = "decided"] \in [Ids -> Row]
        /\ [Copy(h) EXCEPT ![work[h].r].status = "pending"] \in [Ids -> Row]
    BY <1>g, <1>n
  <2>2. matches' \in [Ids -> Row] /\ overtaken' \subseteq Ids BY <1>10, <2>1, <1>m DEF Decides, Reopens
  <2>3. work' \in [Handlers -> Job] BY <1>10, <1>i, <1>j DEF Decides, Reopens, Ready, At, Aimed
  <2>4. work[h].r \in Ids => standing' \subseteq Ids BY <1>10 DEF Decides, Reopens
  <2>5. work[h].r \in Ids BY <1>10, <1>g DEF Decides, Reopens, Ready, At, Job, Aimed
  <2>. QED BY <1>10, <2>2, <2>3, <2>4, <2>5 DEF Decides, Reopens, Ready, At, Aimed
<1>11. CASE Audits(h) BY <1>11, <1>g, <1>j, <1>m DEF Audits, Ready, At, Aimed
<1>. QED
  BY <1>f, <1>1, <1>2, <1>3, <1>4, <1>5, <1>6, <1>7, <1>8, <1>9, <1>10, <1>11
  DEF Work, ScoringStep, UserStep

\* Every reachable state of the rows of a pairing is typed, whatever the bounds.
THEOREM TypeCorrect == ASSUME PairingBounds PROVE Spec => []TypeInv
BY TypeInit, TypeStep, PTL DEF Spec

-----------------------------------------------------------------------------
\* A store call writes a row back as it is, or is recorded as stale.
LEMMA FreshRow ==
  ASSUME TypeInv, NEW h \in Handlers, NEW r \in Ids, r \notin Stale(h)
  PROVE  Copy(h)[r].status = "none" \/ Copy(h)[r] = matches[r]
  BY DEF Stale, Present

LEMMA CopyTyped == ASSUME TypeInv, NEW h \in Handlers PROVE Copy(h) \in [Ids -> Row] /\ work[h] \in Job
  BY DEF TypeInv, Copy, Job

\* What a step does to a row that is not written over: only decide and reopen change that it
\* was decided, and they say so in standing.
LEMMA StandsStep == ASSUME TypeInv, DecisionStands, [Next]_pairingVars PROVE DecisionStands'
<1>a. SUFFICES ASSUME NEW r \in standing', r \notin overtaken' PROVE matches'[r].status = "decided"
  BY DEF DecisionStands
<1>. USE DEF history
<1>1. CASE UNCHANGED <<matches, overtaken, standing>> BY <1>1, <1>a DEF DecisionStands
<1>2. CASE Next
  <2>1. PICK h \in Handlers : Request(h) \/ Work(h) \/ Die(h) BY <1>2 DEF Next
  <2>a. Copy(h) \in [Ids -> Row] /\ work[h] \in Job /\ matches \in [Ids -> Row] /\ standing \subseteq Ids
    BY CopyTyped DEF TypeInv
  <2>b. ASSUME overtaken' = overtaken \cup Stale(h), r \in standing
        PROVE  /\ matches[r].status = "decided"
               /\ Copy(h)[r].status = "none" \/ Copy(h)[r].status = "decided"
               /\ Overwritten(Copy(h))[r].status = "decided"
    BY <2>a, <2>b, <1>a, FreshRow, OverwrittenRow DEF DecisionStands, TypeInv
  <2>2. CASE Request(h) BY <2>2, <1>1 DEF Request, View, Score, Decide, Reopen
  <2>3. CASE Die(h) BY <2>3, <1>1 DEF Die
  <2>4. CASE \/ Hydrates(h) \/ Finds(h) \/ FindsDecided(h) \/ FindsNone(h) \/ CreateClashes(h)
             \/ UpdateRefused(h) \/ DecideRefused(h) \/ ReopenMisses(h)
             \/ \E x \in Ids : KeepsDecided(h, x) \/ MissesExtra(h, x)
    <3>1. UNCHANGED <<matches, standing>> /\ overtaken' = overtaken
      BY <2>4 DEF Hydrates, Finds, FindsDecided, FindsNone, CreateClashes, UpdateRefused,
                  DecideRefused, ReopenMisses, KeepsDecided, MissesExtra
    <3>. QED BY <3>1, <1>1
  <2>5. CASE Creates(h)
    <3>1. r \in standing /\ r \in Ids /\ r \notin Stale(h) BY <2>5, <2>a, <1>a DEF Creates
    <3>2. matches[r].status = "decided" /\ (Copy(h)[r].status = "none" \/ Copy(h)[r] = matches[r])
      BY <2>5, <3>1, <1>a, FreshRow DEF Creates, DecisionStands
    <3>3. work[h].r # r BY <2>5, <3>1, <3>2, <1>a DEF Creates, Present
    <3>4. [Copy(h) EXCEPT ![work[h].r] = Waiting(work[h].source)] \in [Ids -> Row]
      BY <2>a DEF Job, Row, Waiting
    <3>5. [Copy(h) EXCEPT ![work[h].r] = Waiting(work[h].source)][r] = Copy(h)[r]
      BY <2>a, <3>1, <3>3
    <3>. QED BY <2>5, <2>a, <3>1, <3>2, <3>4, <3>5, OverwrittenRow DEF Creates
  <2>6. CASE Updates(h)
    <3>1. r \in standing /\ r \in Ids /\ overtaken' = overtaken \cup Stale(h)
      BY <2>6, <2>a, <1>a DEF Updates, Persist
    <3>2. work[h].r # r BY <2>6, <2>b, <3>1 DEF Updates, CanUpdate, Target, Copy
    <3>3. [Copy(h) EXCEPT ![work[h].r].source = work[h].source] \in [Ids -> Row]
      BY <2>a DEF Job, Row
    <3>4. [Copy(h) EXCEPT ![work[h].r].source = work[h].source][r] = Copy(h)[r] BY <2>a, <3>1, <3>2
    <3>5. matches' = Overwritten([Copy(h) EXCEPT ![work[h].r].source = work[h].source])
      BY <2>6 DEF Updates, Persist
    <3>. QED BY <2>a, <2>b, <3>1, <3>3, <3>4, <3>5, OverwrittenRow
  <2>7. ASSUME NEW x \in Ids, Discards(h, x) PROVE matches'[r].status = "decided"
    <3>1. r \in standing /\ r \in Ids /\ overtaken' = overtaken \cup Stale(h)
      BY <2>7, <2>a, <1>a DEF Discards
    <3>2. x # r BY <2>7, <2>b, <3>1 DEF Discards
    <3>. QED BY <2>7, <2>a, <2>b, <3>1, <3>2, OverwrittenRow DEF Discards
  <2>8. CASE Decides(h) \/ Reopens(h)
    <3>1. PICK s \in {"pending", "decided"} :
            /\ Persist(h, [Copy(h) EXCEPT ![work[h].r].status = s])
            /\ r # work[h].r => r \in standing
            /\ r = work[h].r => s = "decided"
      BY <2>8, <1>a DEF Decides, Reopens
    <3>2. work[h].r \in Ids BY <2>8, <2>a DEF Decides, Reopens, Ready, At, Job, Aimed
    <3>3. [Copy(h) EXCEPT ![work[h].r].status = s] \in [Ids -> Row] BY <2>a, <3>2 DEF Row
    <3>4. matches' = Overwritten([Copy(h) EXCEPT ![work[h].r].status = s])
      BY <3>1 DEF Persist
    <3>5. CASE r = work[h].r
      <4>1. [Copy(h) EXCEPT ![work[h].r].status = s][r].status = "decided"
        BY <2>a, <3>1, <3>2, <3>5 DEF Row
      <4>. QED BY <2>a, <3>2, <3>3, <3>4, <3>5, <4>1, OverwrittenRow
    <3>6. CASE r # work[h].r
      <4>1. r \in standing /\ r \in Ids /\ overtaken' = overtaken \cup Stale(h)
        BY <3>1, <3>6, <2>a DEF Persist
      <4>2. [Copy(h) EXCEPT ![work[h].r].status = s][r] = Copy(h)[r] BY <2>a, <3>6, <4>1
      <4>. QED BY <2>a, <2>b, <3>3, <3>4, <4>1, <4>2, OverwrittenRow
    <3>. QED BY <3>5, <3>6
  <2>9. CASE Audits(h)
    <3>1. r \in standing /\ overtaken' = overtaken \cup Stale(h) /\ matches' = Overwritten(Copy(h))
      BY <2>9, <1>a DEF Audits, Persist
    <3>. QED BY <2>b, <3>1
  <2>. QED
    BY <2>1, <2>2, <2>3, <2>4, <2>5, <2>6, <2>7, <2>8, <2>9 DEF Work, ScoringStep, UserStep
<1>. QED BY <1>1, <1>2 DEF pairingVars

-----------------------------------------------------------------------------
\* Why there is one row: while no two scorings create at a time and no copy was stale, a
\* scoring that is about to create is the only one, and there is no row yet.
Alone ==
  ~raced /\ overtaken = {} =>
    /\ \A r, s \in Present(matches) : r = s
    /\ \A h \in Handlers : At(h, "create") =>
         Present(matches) = {} /\ \A g \in Handlers \ {h} : ~At(g, "create")

LEMMA AloneInit == ASSUME PairingBounds, Init PROVE Alone
<1>1. \A h \in Handlers : ~At(h, "create") BY DEF Init, At, Idle
<1>2. ~raced => Present(matches) = {} BY DEF Init, Present, NoCopy, NoRow
<1>. QED BY <1>1, <1>2 DEF Alone

\* A call without a stale row leaves no row that was not there, but the one it creates.
LEMMA NoNewRow ==
  ASSUME TypeInv, NEW h \in Handlers, Stale(h) = {}, NEW copy \in [Ids -> Row],
         \A r \in Ids : copy[r].status # "none" => Copy(h)[r].status # "none",
         \A r \in Ids : matches'[r].status # "none" => Overwritten(copy)[r].status # "none"
  PROVE  Present(matches') \subseteq Present(matches)
<1>1. SUFFICES ASSUME NEW r \in Ids, matches'[r].status # "none" PROVE matches[r].status # "none"
  BY DEF Present
<1>2. copy[r].status # "none" \/ matches[r].status # "none" BY <1>1, OverwrittenRow DEF TypeInv
<1>. QED BY <1>2, FreshRow

LEMMA AloneStep == ASSUME TypeInv, Alone, [Next]_pairingVars PROVE Alone'
<1>a. SUFFICES ASSUME ~raced', overtaken' = {} PROVE Alone'
  BY DEF Alone
<1>. DEFINE Creating(g) == At(g, "create")
<1>b. ASSUME ~raced, overtaken = {},
             Present(matches') \subseteq Present(matches),
             \A g \in Handlers : Creating(g)' => Creating(g)
      PROVE  Alone'
  BY <1>b, <1>a DEF Alone
<1>. USE DEF history
<1>1. CASE UNCHANGED pairingVars
  <2>1. matches' = matches /\ work' = work /\ raced' = raced /\ overtaken' = overtaken
    BY <1>1 DEF pairingVars
  <2>2. \A g \in Handlers : Creating(g)' => Creating(g) BY <2>1 DEF At
  <2>3. Present(matches') = Present(matches) BY <2>1
  <2>. QED BY <2>1, <2>2, <2>3, <1>a, <1>b
<1>2. CASE Next
  <2>1. PICK h \in Handlers : Request(h) \/ Work(h) \/ Die(h) BY <1>2 DEF Next
  <2>a. Copy(h) \in [Ids -> Row] /\ work[h] \in Job /\ matches \in [Ids -> Row] /\ work \in [Handlers -> Job]
    BY CopyTyped DEF TypeInv
  <2>b. ASSUME NEW job, Begin(h, job), job.at # "create"
        PROVE  \A g \in Handlers : Creating(g)' => Creating(g)
    BY <2>a, <2>b DEF Begin, At
  <2>c. Leave(h) => \A g \in Handlers : Creating(g)' => Creating(g) /\ g # h
    BY <2>a DEF Leave, Idle, At
  <2>d. ASSUME NEW where, where # "create", Goto(h, where)
        PROVE  \A g \in Handlers : Creating(g)' => Creating(g)
    BY <2>a, <2>d DEF Goto, At, Job
  <2>e. ASSUME NEW copy \in [Ids -> Row], Persist(h, copy),
               \A r \in Ids : copy[r].status # "none" => Copy(h)[r].status # "none"
        PROVE  overtaken = {} /\ Present(matches') \subseteq Present(matches)
    BY <2>e, <1>a, NoNewRow DEF Persist
  <2>2. CASE Request(h)
    <3>1. \E job : Begin(h, job) /\ job.at # "create"
      <4>1. CASE View(h)
        <5>1. [Idle EXCEPT !.at = "audit"].at = "audit" BY DEF Idle
        <5>. QED BY <4>1, <5>1 DEF View
      <4>2. ASSUME NEW run \in Ids, NEW source \in Sources, Score(h, run, source)
            PROVE  \E job : Begin(h, job) /\ job.at # "create"
        <5>1. [Idle EXCEPT !.at = "list", !.r = run, !.source = source].at = "list" BY DEF Idle
        <5>. QED BY <4>2, <5>1 DEF Score
      <4>3. ASSUME NEW r \in Ids, Decide(h, r) \/ Reopen(h, r)
            PROVE  \E job : Begin(h, job) /\ job.at # "create"
        <5>1. [Idle EXCEPT !.at = "decide", !.r = r].at = "decide" BY DEF Idle
        <5>2. [Idle EXCEPT !.at = "reopen", !.r = r].at = "reopen" BY DEF Idle
        <5>. QED BY <4>3, <5>1, <5>2 DEF Decide, Reopen
      <4>. QED BY <2>2, <4>1, <4>2, <4>3 DEF Request
    <3>2. UNCHANGED <<matches, raced, overtaken>> BY <2>2 DEF Request, View, Score, Decide, Reopen
    <3>. QED BY <3>1, <3>2, <1>a, <1>b, <2>b
  <2>3. CASE Die(h) BY <2>3, <1>a, <1>b, <2>c DEF Die
  <2>4. CASE Hydrates(h)
    <3>1. \A g \in Handlers : Creating(g)' => Creating(g) BY <2>4, <2>a DEF Hydrates, At, Job
    <3>. QED BY <2>4, <3>1, <1>a, <1>b DEF Hydrates
  <2>5. CASE Finds(h)
    <3>1. \E job : Begin(h, job) /\ job.at # "create"
      <4>1. PICK r \in Targets(h) :
              Begin(h, [work[h] EXCEPT !.at = "update", !.r = r, !.extras = Pending(matches) \ {r},
                                       !.source = IF matches[r].source = "saved" THEN "saved" ELSE @])
        BY <2>5 DEF Finds
      <4>2. [work[h] EXCEPT !.at = "update", !.r = r, !.extras = Pending(matches) \ {r},
                            !.source = IF matches[r].source = "saved" THEN "saved" ELSE @].at = "update"
        BY <2>a DEF Job
      <4>. QED BY <4>1, <4>2
    <3>. QED BY <2>5, <3>1, <1>a, <1>b, <2>b DEF Finds
  <2>6. CASE \/ FindsDecided(h) \/ CreateClashes(h) \/ UpdateRefused(h) \/ DecideRefused(h)
             \/ ReopenMisses(h) \/ \E x \in Ids : MissesExtra(h, x)
    <3>1. Leave(h) /\ UNCHANGED <<matches, raced, overtaken>>
      BY <2>6 DEF FindsDecided, CreateClashes, UpdateRefused, DecideRefused, ReopenMisses, MissesExtra
    <3>. QED BY <3>1, <1>a, <1>b, <2>c
  <2>7. CASE FindsNone(h)
    <3>1. ~raced /\ overtaken = {} /\ \A g \in Handlers : ~Creating(g) BY <2>7, <1>a DEF FindsNone
    <3>2. Present(matches) = {} /\ matches' = matches BY <2>7 DEF FindsNone, Existing
    <3>3. \A g \in Handlers : Creating(g)' => g = h BY <2>7, <2>a, <3>1 DEF FindsNone, Goto, At
    <3>4. Present(matches') = {} BY <3>2
    <3>. QED BY <3>3, <3>4 DEF Alone
  <2>8. CASE Creates(h)
    <3>1. ~raced /\ overtaken = {} /\ Stale(h) = {} /\ Creating(h) /\ work[h].r \in Ids
      BY <2>8, <2>a, <1>a DEF Creates, Ready, At, Job, Aimed
    <3>2. Present(matches) = {} /\ \A g \in Handlers \ {h} : ~Creating(g) BY <3>1 DEF Alone
    <3>3. \A g \in Handlers : ~Creating(g)' BY <2>8, <2>c, <3>2 DEF Creates
    <3>4. [Copy(h) EXCEPT ![work[h].r] = Waiting(work[h].source)] \in [Ids -> Row]
      BY <2>a DEF Job, Row, Waiting
    <3>5. Present(matches') \subseteq {work[h].r}
      <4>1. SUFFICES ASSUME NEW r \in Ids, r # work[h].r PROVE matches'[r].status = "none"
        BY DEF Present
      <4>2. matches[r].status = "none" BY <3>2 DEF Present
      <4>3. Copy(h)[r].status = "none" BY <3>1, <4>2, FreshRow
      <4>4. [Copy(h) EXCEPT ![work[h].r] = Waiting(work[h].source)][r].status = "none"
        BY <2>a, <4>1, <4>3
      <4>. QED BY <2>8, <2>a, <3>4, <4>2, <4>4, OverwrittenRow DEF Creates
    <3>. QED BY <3>3, <3>5 DEF Alone
  <2>9. CASE Updates(h)
    <3>1. [Copy(h) EXCEPT ![work[h].r].source = work[h].source] \in [Ids -> Row]
      <4>1. \A row \in Row, s \in Sources : [row EXCEPT !.source = s] \in Row BY DEF Row
      <4>. QED BY <2>a, <4>1 DEF Job
    <3>2. \A r \in Ids : [Copy(h) EXCEPT ![work[h].r].source = work[h].source][r].status = Copy(h)[r].status
      BY <2>a DEF Row
    <3>3. overtaken = {} /\ Present(matches') \subseteq Present(matches)
      BY <2>9, <2>e, <3>1, <3>2 DEF Updates
    <3>. QED BY <2>9, <3>3, <1>a, <1>b, <2>c, <2>d DEF Updates
  <2>10. ASSUME NEW x \in Ids, Discards(h, x) PROVE Alone'
    <3>1. overtaken = {} /\ Stale(h) = {} /\ ~raced BY <2>10, <1>a DEF Discards
    <3>2. \A r \in Ids : matches'[r].status # "none" => Overwritten(Copy(h))[r].status # "none"
      BY <2>10, <2>a, OverwrittenRow DEF Discards, NoRow
    <3>3. Present(matches') \subseteq Present(matches) BY <2>a, <3>1, <3>2, NoNewRow
    <3>4. \A g \in Handlers : Creating(g)' => Creating(g)
      BY <2>10, <2>a, <2>c DEF Discards, Further, At, Job
    <3>. QED BY <3>1, <3>3, <3>4, <1>b
  <2>11. ASSUME NEW x \in Ids, KeepsDecided(h, x) PROVE Alone'
    <3>1. \A g \in Handlers : Creating(g)' => Creating(g)
      BY <2>11, <2>a, <2>c DEF KeepsDecided, Further, At, Job
    <3>. QED BY <2>11, <3>1, <1>a, <1>b DEF KeepsDecided
  <2>12. CASE Decides(h) \/ Reopens(h)
    <3>1. PICK s \in {"pending", "decided"} :
            /\ Persist(h, [Copy(h) EXCEPT ![work[h].r].status = s])
            /\ Target(h).status # "none" /\ raced' = raced
            /\ Leave(h) \/ Goto(h, "audit")
      BY <2>12 DEF Decides, Reopens
    <3>2. work[h].r \in Ids BY <2>12, <2>a DEF Decides, Reopens, Ready, At, Job, Aimed
    <3>3. [Copy(h) EXCEPT ![work[h].r].status = s] \in [Ids -> Row] BY <2>a, <3>2 DEF Row
    <3>4. \A r \in Ids : [Copy(h) EXCEPT ![work[h].r].status = s][r].status # "none"
                            => Copy(h)[r].status # "none"
      BY <2>a, <3>1, <3>2 DEF Target, Copy
    <3>5. overtaken = {} /\ Present(matches') \subseteq Present(matches) BY <2>e, <3>1, <3>3, <3>4
    <3>. QED BY <3>1, <3>5, <1>a, <1>b, <2>c, <2>d
  <2>13. CASE Audits(h)
    <3>1. overtaken = {} /\ Present(matches') \subseteq Present(matches) BY <2>13, <2>a, <2>e DEF Audits
    <3>. QED BY <2>13, <3>1, <1>a, <1>b, <2>c DEF Audits
  <2>. QED
    BY <2>1, <2>2, <2>3, <2>4, <2>5, <2>6, <2>7, <2>8, <2>9, <2>10, <2>11, <2>12, <2>13
    DEF Work, ScoringStep, UserStep
<1>. QED BY <1>1, <1>2

\* A set without two members has at most one.
LEMMA AtMostOne == ASSUME NEW S, \A r, s \in S : r = s PROVE Cardinality(S) <= 1
<1>1. CASE S = {} BY <1>1, FS_EmptySet
<1>2. CASE S # {}
  <2>1. PICK r : S = {r} BY <1>2
  <2>. QED BY <2>1, FS_Singleton
<1>. QED BY <1>1, <1>2

\* A user's decision on a pairing stands, and a pairing has one row, however many scorings,
\* requests and deaths there are, unless rows were written from an old copy or two scorings
\* created at once.
THEOREM PairingsHold == ASSUME PairingBounds PROVE Spec => []PairingHolds
<1>. DEFINE Inv == TypeInv /\ DecisionStands /\ Alone
<1>1. Init => Inv BY TypeInit, AloneInit DEF Init, DecisionStands
<1>2. Inv /\ [Next]_pairingVars => Inv' BY TypeStep, StandsStep, AloneStep
<1>3. Inv => PairingHolds
  <2>1. SUFFICES ASSUME Inv, ~raced, overtaken = {} PROVE Cardinality(Present(matches)) <= 1
    BY DEF PairingHolds, OneRow
  <2>. QED BY <2>1, AtMostOne DEF Alone
<1>. QED BY <1>1, <1>2, <1>3, PTL DEF Spec
=============================================================================
