--------------------------- MODULE WorkspaceProofs ---------------------------
(***************************************************************************)
(* What is proved of a component holds in the workspace: the others leave  *)
(* its variables alone.                                                    *)
(***************************************************************************)
EXTENDS Workspace, FiniteSetTheorems, TLAPS

\* Pairings once more, with what is proved about it.
Rows == INSTANCE PairingsProofs WITH work <- reviewWork, budget <- reviewBudget

\* Mailbox, Conversation and Tuning too.
Inbox == INSTANCE MailboxProofs WITH work <- mailWork, budget <- mailBudget, torn <- mailTorn
Talks == INSTANCE ConversationProofs WITH work <- talkWork, budget <- talkBudget, strayed <- unseen
Tunes == INSTANCE TuningProofs WITH
           work <- tuneWork, budget <- tuneBudget, chosen <- choice, crossed <- undone

\* The review rows of the workspace start and move as those of Pairings alone.
LEMMA RowsInit == ASSUME Init PROVE Rows!Init
BY DEF Init, Pair!Init, Rows!Init, Pair!Handlers, Rows!Handlers, Pair!Idle, Rows!Idle,
       Pair!NoCopy, Rows!NoCopy, Pair!NoRow, Rows!NoRow, Pair!Ids, Rows!Ids, Pair!Waiting, Rows!Waiting

LEMMA RowsNext == ASSUME Pair!Next PROVE Rows!Next
<1>. USE DEF Pair!Next, Rows!Next, Pair!Request, Rows!Request, Pair!Work, Rows!Work, Pair!Die, Rows!Die,
  Pair!ScoringStep, Rows!ScoringStep, Pair!UserStep, Rows!UserStep, Pair!View, Rows!View, Pair!Score,
    Rows!Score,
  Pair!Decide, Rows!Decide, Pair!Reopen, Rows!Reopen, Pair!Hydrates, Rows!Hydrates, Pair!Finds, Rows!Finds,
  Pair!FindsDecided, Rows!FindsDecided, Pair!FindsNone, Rows!FindsNone, Pair!Creates, Rows!Creates,
  Pair!CreateClashes, Rows!CreateClashes, Pair!Updates, Rows!Updates, Pair!UpdateRefused, Rows!UpdateRefused,
  Pair!Discards, Rows!Discards, Pair!KeepsDecided, Rows!KeepsDecided, Pair!MissesExtra, Rows!MissesExtra,
  Pair!Decides, Rows!Decides, Pair!DecideRefused, Rows!DecideRefused, Pair!Reopens, Rows!Reopens,
  Pair!ReopenMisses, Rows!ReopenMisses, Pair!Audits, Rows!Audits,
  Pair!Event, Rows!Event, Pair!Free, Rows!Free, Pair!At, Rows!At, Pair!Begin, Rows!Begin, Pair!Goto, Rows!Goto,
  Pair!Leave, Rows!Leave, Pair!Present, Rows!Present, Pair!Pending, Rows!Pending, Pair!Calls, Rows!Calls,
  Pair!Ready, Rows!Ready, Pair!Copy, Rows!Copy, Pair!Target, Rows!Target, Pair!Overwritten, Rows!Overwritten,
  Pair!Stale, Rows!Stale, Pair!Persist, Rows!Persist, Pair!Targets, Rows!Targets, Pair!Existing, Rows!Existing,
  Pair!Unique, Rows!Unique, Pair!CanUpdate, Rows!CanUpdate, Pair!Further, Rows!Further,
  Pair!Ids, Rows!Ids, Pair!Handlers, Rows!Handlers, Pair!Sources, Rows!Sources, Pair!NoRow, Rows!NoRow,
  Pair!NoCopy, Rows!NoCopy, Pair!Idle, Rows!Idle, Pair!Waiting, Rows!Waiting, Pair!history, Rows!history
<1>. QED OBVIOUS

LEMMA RowsSpec == Spec => Rows!Spec
<1>1. Init => Rows!Init BY RowsInit
<1>2. [Next]_vars => [Rows!Next]_(Rows!pairingVars)
  BY RowsNext DEF Next, vars, MailFrame, TalkFrame, LimitFrame, TuneFrame, MatchFrame, ShelfFrame, pairVars,
     Rows!pairingVars, Rows!history
<1>. QED BY <1>1, <1>2, PTL DEF Spec, Rows!Spec

\* Whatever goes on beside: a decision stands until the user reopens it, and a pairing has one
\* row, unless a store call wrote an old copy back or two scorings created at the same time.
THEOREM PairingsHold == Spec => []PairingHolds
<1>1. Rows!PairingBounds BY Bounds DEF Pair!PairingBounds, Rows!PairingBounds
<1>2. Rows!Spec => []Rows!PairingHolds BY <1>1, Rows!PairingsHold
<1>3. Rows!PairingHolds => PairingHolds
  BY DEF PairingHolds, Pair!PairingHolds, Rows!PairingHolds, Pair!DecisionStands, Rows!DecisionStands,
         Pair!OneRow, Rows!OneRow, Pair!Present, Rows!Present, Pair!Ids, Rows!Ids,
         Pair!Cardinality, Rows!Cardinality
<1>. QED BY RowsSpec, <1>2, <1>3, PTL

\* The same of the conversation.
LEMMA TalksNext == ASSUME Talk!Next PROVE Talks!Next
<1>. USE DEF Talk!Next, Talks!Next, Talk!ReplyStep, Talks!ReplyStep, Talk!LinkStep, Talks!LinkStep,
  Talk!Die, Talks!Die, Talk!Arrive, Talks!Arrive, Talk!Touch, Talks!Touch, Talk!Touched, Talks!Touched,
  Talk!Reply, Talks!Reply, Talk!Pick, Talks!Pick, Talk!Age, Talks!Age, Talk!Posts, Talks!Posts,
  Talk!PostRefused, Talks!PostRefused, Talk!PostRaises, Talks!PostRaises, Talk!Storing, Talks!Storing,
  Talk!Stores, Talks!Stores, Talk!Remembering, Talks!Remembering, Talk!Remembers, Talks!Remembers,
  Talk!Picking, Talks!Picking, Talk!Picks, Talks!Picks, Talk!Attaching, Talks!Attaching,
  Talk!Attaches, Talks!Attaches, Talk!Filing, Talks!Filing, Talk!Files, Talks!Files,
  Talk!Event, Talks!Event, Talk!Free, Talks!Free, Talk!At, Talks!At, Talk!Begin, Talks!Begin,
  Talk!Goto, Talks!Goto, Talk!Leave, Talks!Leave, Talk!Hydrates, Talks!Hydrates,
  Talk!Undone, Talks!Undone, Talk!PutBack, Talks!PutBack, Talk!More, Talks!More,
  Talk!TakenNow, Talks!TakenNow, Talk!Taken, Talks!Taken, Talk!Pardon, Talks!Pardon,
  Talk!Decisions, Talks!Decisions, Talk!Judged, Talks!Judged, Talk!Upserted, Talks!Upserted, Talk!Idle, Talks!Idle, Talk!Handlers, Talks!Handlers,
  Talk!Links, Talks!Links, Talk!history, Talks!history
<1>. QED OBVIOUS

LEMMA TalksSpec == Spec => Talks!Spec
<1>1. Init => Talks!Init
  BY
     DEF Init, Talk!Init, Talks!Init, Talk!Handlers, Talks!Handlers, Talk!Idle, Talks!Idle, Talk!None,
       Talks!None
<1>2. [Next]_vars => [Talks!Next]_(Talks!conversationVars)
  BY TalksNext DEF Next, vars, MailFrame, LimitFrame, TuneFrame, MatchFrame, ShelfFrame, PairFrame, talkVars,
                   Talks!conversationVars, Talks!history
<1>. QED BY <1>1, <1>2, PTL DEF Spec, Talks!Spec

LEMMA TalksBounds == Talks!ConversationBounds
BY Bounds DEF Talk!ConversationBounds, Talks!ConversationBounds

\* Whatever goes on beside: a key that is refused has its reply, what the conversation shows as
\* sent was sent, and one key sends one mail, but for the known reasons.
THEOREM RepliesStand == Spec => []RepliesHold
<1>1. Talks!Spec => []Talks!RepliesHold BY TalksBounds, Talks!RepliesStand
<1>2. Talks!RepliesHold => RepliesHold BY DEF RepliesHold, Talk!RepliesHold, Talks!RepliesHold
<1>. QED BY TalksSpec, <1>1, <1>2, PTL

\* Whatever goes on beside: the conversation stays with the posting that the user linked,
\* unless a link is written by who had not seen the user's.
THEOREM LinksHold == Spec => []LinkHolds
<1>1. Talks!Spec => []Talks!LinkHolds BY TalksBounds, Talks!LinksHold
<1>2. Talks!LinkHolds => LinkHolds BY DEF LinkHolds, Talk!LinkHolds, Talks!LinkHolds
<1>. QED BY TalksSpec, <1>1, <1>2, PTL

\* And of the mailbox.
LEMMA InboxInit == ASSUME Init PROVE Inbox!Init
BY DEF Init, Mail!Init, Inbox!Init, Mail!Handlers, Inbox!Handlers, Mail!Idle, Inbox!Idle

LEMMA InboxSteps ==
  ASSUME NEW h \in Inbox!Handlers
  PROVE  /\ Mail!SettingsStep(h) => Inbox!SettingsStep(h)
         /\ Mail!SubscriptionStep(h) => Inbox!SubscriptionStep(h)
         /\ Mail!IngestStep(h) => Inbox!IngestStep(h)
         /\ Mail!Request(h) => Inbox!Request(h)
         /\ Mail!Die(h) => Inbox!Die(h)
<1>. USE DEF Mail!access, Inbox!access, Mail!notices, Inbox!notices, Mail!ingest, Inbox!ingest,
  Mail!history, Inbox!history, Mail!Handlers, Inbox!Handlers, Mail!Idle, Inbox!Idle,
  Mail!Event, Inbox!Event, Mail!Free, Inbox!Free, Mail!At, Inbox!At, Mail!Goto, Inbox!Goto,
  Mail!Begin, Inbox!Begin, Mail!Leave, Inbox!Leave, Mail!Rows, Inbox!Rows,
  Mail!WithStatus, Inbox!WithStatus, Mail!Newest, Inbox!Newest, Mail!Usable, Inbox!Usable,
  Mail!Grantor, Inbox!Grantor, Mail!Updated, Inbox!Updated, Mail!Cardinality, Inbox!Cardinality, Mail!Clash,
    Inbox!Clash, Mail!Put, Inbox!Put,
  Mail!PutBack, Inbox!PutBack, Mail!Connect, Inbox!Connect, Mail!Inserts, Inbox!Inserts,
  Mail!Consent, Inbox!Consent, Mail!Exchanged, Inbox!Exchanged, Mail!ExchangeClashes, Inbox!ExchangeClashes,
  Mail!ExchangeFails, Inbox!ExchangeFails, Mail!SessionEnds, Inbox!SessionEnds,
  Mail!Disconnect, Inbox!Disconnect, Mail!Unhooks, Inbox!Unhooks, Mail!Restores, Inbox!Restores,
  Mail!ToRevoke, Inbox!ToRevoke, Mail!Revokes, Inbox!Revokes, Mail!Expire, Inbox!Expire,
  Mail!Refresh, Inbox!Refresh, Mail!Refreshes, Inbox!Refreshes, Mail!RefreshFails, Inbox!RefreshFails,
  Mail!Renew, Inbox!Renew, Mail!Subscribes, Inbox!Subscribes, Mail!SubscribeFails, Inbox!SubscribeFails,
  Mail!Records, Inbox!Records, Mail!Stores, Inbox!Stores, Mail!Arrive, Inbox!Arrive,
  Mail!Notify, Inbox!Notify, Mail!Answered, Inbox!Answered, Mail!GivenBack, Inbox!GivenBack,
  Mail!Held, Inbox!Held, Mail!Torn, Inbox!Torn, Mail!Raise, Inbox!Raise, Mail!Poll, Inbox!Poll,
  Mail!Page, Inbox!Page, Mail!Polled, Inbox!Polled, Mail!PollFails, Inbox!PollFails,
  Mail!PollRefused, Inbox!PollRefused, Mail!Take, Inbox!Take, Mail!Fetched, Inbox!Fetched,
  Mail!FetchFails, Inbox!FetchFails, Mail!FetchRefused, Inbox!FetchRefused, Mail!Known, Inbox!Known,
  Mail!Drop, Inbox!Drop, Mail!Skips, Inbox!Skips, Mail!Checks, Inbox!Checks, Mail!Beaten, Inbox!Beaten,
  Mail!Files, Inbox!Files, Mail!FileClashes, Inbox!FileClashes, Mail!Die, Inbox!Die,
  Mail!SettingsStep, Inbox!SettingsStep, Mail!SubscriptionStep, Inbox!SubscriptionStep,
  Mail!IngestStep, Inbox!IngestStep, Mail!Request, Inbox!Request
<1>1. Mail!SettingsStep(h) => Inbox!SettingsStep(h) OBVIOUS
<1>2. Mail!SubscriptionStep(h) => Inbox!SubscriptionStep(h) OBVIOUS
<1>3. Mail!IngestStep(h) => Inbox!IngestStep(h) OBVIOUS
<1>4. Mail!Request(h) => Inbox!Request(h) OBVIOUS
<1>5. Mail!Die(h) => Inbox!Die(h) OBVIOUS
<1>. QED BY <1>1, <1>2, <1>3, <1>4, <1>5

LEMMA InboxEvents ==
  /\ \A x \in Conns : Mail!Expire(x) => Inbox!Expire(x)
  /\ \A x \in Conns : Mail!SessionEnds(x) => Inbox!SessionEnds(x)
  /\ \A x \in Mails : Mail!Arrive(x) => Inbox!Arrive(x)
  /\ \A x \in Mails : Mail!Notify(x) => Inbox!Notify(x)
BY DEF Mail!Expire, Inbox!Expire, Mail!SessionEnds, Inbox!SessionEnds, Mail!Arrive, Inbox!Arrive, Mail!Notify,
   Inbox!Notify,
       Mail!Event, Inbox!Event, Mail!Put, Inbox!Put, Mail!Updated, Inbox!Updated, Mail!Cardinality,
         Inbox!Cardinality, Mail!access, Inbox!access, Mail!notices, Inbox!notices, Mail!ingest, Inbox!ingest,
         Mail!history, Inbox!history

LEMMA InboxNext == ASSUME Mail!Next PROVE Inbox!Next
BY InboxSteps, InboxEvents
DEF Mail!Next, Inbox!Next, Mail!Work, Inbox!Work, Mail!Handlers, Inbox!Handlers

LEMMA InboxSpec == Spec => Inbox!Spec
<1>1. Init => Inbox!Init BY InboxInit
<1>2. [Next]_vars => [Inbox!Next]_(Inbox!mailVars)
  BY InboxNext DEF Next, vars, TalkFrame, LimitFrame, TuneFrame, MatchFrame, ShelfFrame, PairFrame, mailVars,
                   Inbox!mailVars, Inbox!access, Inbox!notices, Inbox!ingest, Inbox!history
<1>. QED BY <1>1, <1>2, PTL DEF Spec, Inbox!Spec

\* Whatever goes on beside: every mail behind the cursor is filed or held, or was on the page of
\* a poll that died or met a conflict.
THEOREM MailsKept == Spec => []OnlyTornMailIsLost
<1>1. Inbox!Spec => []Inbox!OnlyTornMailIsLost BY Inbox!MailsKept
<1>2. Inbox!OnlyTornMailIsLost => OnlyTornMailIsLost
  BY DEF OnlyTornMailIsLost, Mail!OnlyTornMailIsLost, Inbox!OnlyTornMailIsLost, Mail!Held, Inbox!Held,
         Mail!Handlers, Inbox!Handlers
<1>. QED BY InboxSpec, <1>1, <1>2, PTL

\* Whatever goes on beside: after disconnect there is no token on file until the next consent,
\* unless a handler that had read the connection before has written it back since.
THEOREM DisconnectStands == Spec => []DisconnectHolds
<1>1. Inbox!MailBounds BY Bounds DEF Mail!MailBounds, Inbox!MailBounds, Mail!IsFiniteSet, Inbox!IsFiniteSet
<1>2. Inbox!Spec => []Inbox!DisconnectHolds BY <1>1, Inbox!DisconnectStands
<1>3. Inbox!DisconnectHolds => DisconnectHolds
  BY DEF DisconnectHolds, Mail!DisconnectHolds, Inbox!DisconnectHolds, Mail!Usable, Inbox!Usable,
         Mail!WithStatus, Inbox!WithStatus
<1>. QED BY InboxSpec, <1>2, <1>3, PTL

-----------------------------------------------------------------------------
\* The handlers and the messages by their types; a copy that is written back as it was read, and
\* an update that is tried once more at most; and the message a handler works on, which says the same as its copy.
LimitJob == [at: {"idle", "view", "get", "update", "put", "reget", "send", "apply"}, want: Levels,
        old: Levels, row: Limit!Row, base: Limit!Row, tries: 0 .. MaxTries, post: Nat]
LimitPost == [level: Levels, state: {"ready", "taken", "done"}]
LimitCopies(job) ==
  /\ job.at \in {"view", "get"} => job.row = job.base
  /\ job.at = "update" => job.tries < MaxTries
LimitServes(job) ==
  job.post # 0 => job.at = "apply" /\ job.post \in DOMAIN posts /\ posts[job.post].level = job.row.level
LimitCompared(job) == job.at = "put" => job.base.level = job.old
\* The threshold of the settings is on its way to scoring: with a handler, or in a message.
LimitCarries(job) == job.at \in {"send", "apply"} /\ job.row.level = settings.level
LimitQueued(i) == posts[i].state # "done" /\ posts[i].level = settings.level
OnItsWay ==
  (\E h \in Limit!Handlers : LimitCarries(thresholdWork[h])) \/ (\E i \in DOMAIN posts : LimitQueued(i))
LimitInv ==
  /\ settings \in Limit!Row /\ posts \in Seq(LimitPost) /\ thresholdWork \in [Limit!Handlers -> LimitJob] /\
       thresholdBudget \in Nat /\ strayed \in BOOLEAN
  /\ \A h \in Limit!Handlers : LimitCopies(thresholdWork[h]) /\ LimitServes(thresholdWork[h])
  /\ ~strayed => (\A h \in Limit!Handlers : LimitCompared(thresholdWork[h])) /\
       (prefs = settings.level \/ OnItsWay)

LEMMA IdleLimit ==
  ASSUME Limit!ThresholdBounds
  PROVE Limit!Idle \in LimitJob /\ LimitCopies(Limit!Idle) /\ LimitServes(Limit!Idle) /\
          LimitCompared(Limit!Idle) /\ Limit!Idle.at = "idle"
BY DEF Limit!ThresholdBounds, Limit!Idle, LimitJob, Limit!Row, LimitCopies, LimitServes, LimitCompared

LEMMA LimitInit == ASSUME Limit!ThresholdBounds, Limit!Init PROVE LimitInv
<1>1. Default \in Levels /\ MaxEvents \in Nat BY DEF Limit!ThresholdBounds
<1>2. settings \in Limit!Row BY <1>1 DEF Limit!Init, Limit!Row
<1>4. posts \in Seq(LimitPost) /\ thresholdBudget \in Nat /\ strayed \in BOOLEAN
  <2>1. posts = <<>> /\ thresholdBudget \in 0 .. MaxEvents /\ strayed = FALSE BY DEF Limit!Init
  <2>2. posts \in Seq(LimitPost) BY <2>1
  <2>3. thresholdBudget \in Nat BY <1>1, <2>1
  <2>4. strayed \in BOOLEAN BY <2>1
  <2>. QED BY <2>2, <2>3, <2>4
<1>3. thresholdWork = [h \in Limit!Handlers |-> Limit!Idle] /\ prefs = settings.level BY DEF Limit!Init
<1>. QED BY <1>2, <1>3, <1>4, IdleLimit DEF LimitInv

\* A step of one handler, given what becomes of the messages and of the threshold.
LEMMA LimitKeeps ==
  ASSUME LimitInv, NEW h \in Limit!Handlers, NEW job \in LimitJob,
         thresholdWork' = [thresholdWork EXCEPT ![h] = job],
         settings' \in Limit!Row, posts' \in Seq(LimitPost), thresholdBudget' \in Nat, strayed' \in BOOLEAN,
         \A i \in DOMAIN posts : i \in DOMAIN posts' /\ posts'[i].level = posts[i].level,
         LimitCopies(job),
         job.post # 0 => job.at = "apply" /\ job.post \in DOMAIN posts' /\
           posts'[job.post].level = job.row.level,
         ~strayed' => ~strayed /\ LimitCompared(job) /\ (prefs' = settings'.level \/ OnItsWay')
  PROVE  LimitInv'
<1>1. thresholdWork' \in [Limit!Handlers -> LimitJob] /\ thresholdWork'[h] = job /\
        \A g \in Limit!Handlers \ {h} : thresholdWork'[g] = thresholdWork[g]
  BY DEF LimitInv
<1>2. \A g \in Limit!Handlers : LimitCopies(thresholdWork'[g]) BY <1>1 DEF LimitInv
<1>3. \A g \in Limit!Handlers : LimitServes(thresholdWork[g])' BY <1>1 DEF LimitInv, LimitServes
<1>4. ~strayed' => \A g \in Limit!Handlers : LimitCompared(thresholdWork'[g]) BY <1>1 DEF LimitInv
<1>. QED BY <1>1, <1>2, <1>3, <1>4 DEF LimitInv

\* The threshold stays on its way while who carries it goes on, and no message is done with.
LEMMA StaysOnItsWay ==
  ASSUME LimitInv, OnItsWay, NEW h \in Limit!Handlers, NEW job,
         thresholdWork' = [thresholdWork EXCEPT ![h] = job],
         settings'.level = settings.level,
         \A i \in DOMAIN posts : i \in DOMAIN posts' /\ posts'[i].level = posts[i].level
                                 /\ (posts'[i].state = "done" => posts[i].state = "done"),
         LimitCarries(thresholdWork[h]) => LimitCarries(job) \/ \E i \in DOMAIN posts' : LimitQueued(i)'
  PROVE  OnItsWay'
<1>1. thresholdWork'[h] = job /\ \A g \in Limit!Handlers \ {h} : thresholdWork'[g] = thresholdWork[g]
  BY DEF LimitInv
<1>2. CASE \E g \in Limit!Handlers : LimitCarries(thresholdWork[g])
  <2>1. PICK g \in Limit!Handlers : LimitCarries(thresholdWork[g]) BY <1>2
  <2>2. CASE g = h BY <1>1, <2>1, <2>2 DEF OnItsWay, LimitCarries
  <2>3. CASE g # h BY <1>1, <2>1, <2>3 DEF OnItsWay, LimitCarries
  <2>. QED BY <2>2, <2>3
<1>3. CASE \E i \in DOMAIN posts : LimitQueued(i) BY <1>3 DEF OnItsWay, LimitQueued
<1>. QED BY <1>2, <1>3 DEF OnItsWay

\* A step that touches neither the threshold nor the messages.
LEMMA LimitQuiet ==
  ASSUME LimitInv, NEW h \in Limit!Handlers, NEW job \in LimitJob,
         thresholdWork' = [thresholdWork EXCEPT ![h] = job],
         settings' = settings \/ (strayed' /\ settings' \in Limit!Row),
         posts' = posts, prefs' = prefs, thresholdBudget' \in Nat, strayed' \in BOOLEAN, strayed => strayed',
         LimitCopies(job), LimitServes(job), strayed' \/ LimitCompared(job),
         strayed' \/ (LimitCarries(thresholdWork[h]) => LimitCarries(job))
  PROVE  LimitInv'
<1>1. \A i \in DOMAIN posts : i \in DOMAIN posts' /\ posts'[i].level = posts[i].level
                              /\ (posts'[i].state = "done" => posts[i].state = "done")
  OBVIOUS
<1>2. settings' \in Limit!Row BY DEF LimitInv
<1>3. ASSUME ~strayed' PROVE prefs' = settings'.level \/ OnItsWay'
  <2>1. settings' = settings /\ (prefs = settings.level \/ OnItsWay) BY <1>3 DEF LimitInv
  <2>. QED BY <1>1, <1>3, <2>1, StaysOnItsWay
<1>4. posts' \in Seq(LimitPost) BY DEF LimitInv
<1>5. job.post # 0 => job.at = "apply" /\ job.post \in DOMAIN posts' /\ posts'[job.post].level = job.row.level
  BY DEF LimitServes
<1>. QED BY <1>1, <1>2, <1>3, <1>4, <1>5, LimitKeeps

LEMMA LimitStep == ASSUME Limit!ThresholdBounds, LimitInv, Limit!Next PROVE LimitInv'
<1>1. PICK h \in Limit!Handlers :
    \/ Limit!View(h) \/ Limit!Viewed(h) \/ Limit!Got(h) \/ Limit!Updates(h) \/ Limit!Conflicts(h) \/
         Limit!Regets(h) \/ Limit!Puts(h)
    \/ Limit!Sends(h) \/ Limit!SendFails(h) \/ Limit!Applies(h) \/ Limit!ApplyFails(h) \/ Limit!Die(h)
    \/ \E level \in Tried : Limit!Patch(h, level)
    \/ \E i \in DOMAIN posts : Limit!Take(h, i)
  BY DEF Limit!Next
<1>a. /\ thresholdWork[h] \in LimitJob /\ settings \in Limit!Row /\ posts \in Seq(LimitPost) /\
           thresholdBudget \in Nat /\ strayed \in BOOLEAN
      /\ LimitCopies(thresholdWork[h]) /\ LimitServes(thresholdWork[h]) /\
           (~strayed => LimitCompared(thresholdWork[h]))
  BY DEF LimitInv
<1>b. Limit!Event => thresholdBudget' \in Nat BY <1>a DEF Limit!Event
<1>c. ASSUME NEW why \in BOOLEAN, Limit!Strays(why)
      PROVE strayed' \in BOOLEAN /\ (strayed => strayed') /\ (why => strayed')
  BY <1>a, <1>c DEF Limit!Strays
<1>d. Limit!PutBack(h) =>
        strayed' \in BOOLEAN /\ (strayed => strayed') /\ settings' = thresholdWork[h].row /\
          (thresholdWork[h].base = settings \/ strayed')
  BY <1>a DEF Limit!PutBack, Limit!Strays, Limit!Write
<1>f. Limit!Idle.post = 0 BY DEF Limit!Idle
<1>2. CASE Limit!View(h)
  <2>. DEFINE new == [Limit!Idle EXCEPT !.at = "view", !.row = settings, !.base = settings]
  <2>1. UNCHANGED <<settings, posts, prefs, strayed>> /\ thresholdBudget' \in Nat /\
          thresholdWork[h].at = "idle"
        /\ thresholdWork' = [thresholdWork EXCEPT ![h] = new]
    BY <1>2, <1>b DEF Limit!View, Limit!Free, Limit!Look, Limit!Begin
  <2>2. new \in LimitJob /\ LimitCopies(new) /\ LimitServes(new) /\ LimitCompared(new)
    BY <1>a, <1>f, IdleLimit DEF LimitJob, LimitCopies, LimitServes, LimitCompared
  <2>3. ~LimitCarries(thresholdWork[h]) BY <2>1 DEF LimitCarries
  <2>. HIDE DEF new
  <2>. QED BY <1>a, <2>1, <2>2, <2>3, LimitQuiet
<1>15. CASE \E level \in Tried : Limit!Patch(h, level)
  <2>1. PICK level \in Tried : Limit!Patch(h, level) BY <1>15
  <2>. DEFINE asked == [Limit!Idle EXCEPT !.want = level, !.old = settings.level]
              new == [asked EXCEPT !.at = "get", !.row = settings, !.base = settings]
  <2>2. UNCHANGED <<settings, posts, prefs, strayed>> /\ thresholdBudget' \in Nat /\
          thresholdWork[h].at = "idle"
        /\ thresholdWork' = [thresholdWork EXCEPT ![h] = new]
    BY <2>1, <1>b DEF Limit!Patch, Limit!Free, Limit!Look, Limit!Begin
  <2>3. level \in Levels /\ settings.level \in Levels BY <1>a DEF Limit!ThresholdBounds, Limit!Row
  <2>4. asked \in LimitJob /\ asked.post = 0 BY <1>f, <2>3, IdleLimit DEF LimitJob
  <2>. HIDE DEF asked
  <2>5. new \in LimitJob /\ LimitCopies(new) /\ LimitServes(new) /\ LimitCompared(new)
    BY <1>a, <2>4 DEF LimitJob, LimitCopies, LimitServes, LimitCompared
  <2>6. ~LimitCarries(thresholdWork[h]) BY <2>2 DEF LimitCarries
  <2>. HIDE DEF new
  <2>. QED BY <1>a, <2>2, <2>5, <2>6, LimitQuiet
<1>3. CASE Limit!Viewed(h)
  <2>1. Limit!PutBack(h) /\ UNCHANGED <<prefs, posts, thresholdBudget>> /\
          thresholdWork' = [thresholdWork EXCEPT ![h] = Limit!Idle] /\ thresholdWork[h].at = "view"
    BY <1>3 DEF Limit!Viewed, Limit!Leave, Limit!At
  <2>2. ~LimitCarries(thresholdWork[h]) /\ thresholdWork[h].row = thresholdWork[h].base /\
          thresholdWork[h].row \in Limit!Row
    BY <1>a, <2>1 DEF LimitCarries, LimitCopies, LimitJob
  <2>. QED BY <1>a, <1>d, <2>1, <2>2, IdleLimit, LimitQuiet
<1>4. CASE Limit!Got(h)
  <2>. DEFINE new == IF thresholdWork[h].tries < MaxTries THEN [thresholdWork[h] EXCEPT !.at = "update"] ELSE Limit!Idle
  <2>1. Limit!PutBack(h) /\ UNCHANGED <<prefs, posts, thresholdBudget>> /\
          thresholdWork' = [thresholdWork EXCEPT ![h] = new] /\ thresholdWork[h].at = "get"
    BY <1>4 DEF Limit!Got, Limit!At, Limit!Leave
  <2>2. ~LimitCarries(thresholdWork[h]) /\ thresholdWork[h].row = thresholdWork[h].base /\
          thresholdWork[h].row \in Limit!Row
    BY <1>a, <2>1 DEF LimitCarries, LimitCopies, LimitJob
  <2>3. new \in LimitJob /\ LimitCopies(new) /\ LimitServes(new) /\ LimitCompared(new)
    <3>1. CASE thresholdWork[h].tries < MaxTries
      BY <1>a, <2>1, <3>1 DEF LimitJob, LimitCopies, LimitServes, LimitCompared
    <3>2. CASE ~(thresholdWork[h].tries < MaxTries) BY <3>2, IdleLimit
    <3>. QED BY <3>1, <3>2
  <2>. HIDE DEF new
  <2>. QED BY <1>a, <1>d, <2>1, <2>2, <2>3, LimitQuiet
<1>5. CASE Limit!Updates(h)
  <2>. DEFINE new == [thresholdWork[h] EXCEPT !.at = "put", !.row = Limit!Patched(h), !.base = settings]
  <2>1. UNCHANGED <<settings, prefs, posts, thresholdBudget>> /\
          thresholdWork' = [thresholdWork EXCEPT ![h] = new] /\ thresholdWork[h].at = "update"
        /\ Limit!Strays(settings.level # thresholdWork[h].old)
    BY <1>5 DEF Limit!Updates, Limit!At
  <2>2. Limit!Patched(h) \in Limit!Row BY <1>a DEF Limit!Patched, Limit!Row, LimitJob
  <2>3. strayed' \in BOOLEAN /\ (strayed => strayed') /\ (settings.level = thresholdWork[h].old \/ strayed')
    BY <1>a, <2>1 DEF Limit!Strays
  <2>4. new \in LimitJob /\ LimitCopies(new) /\ LimitServes(new) /\ (strayed' \/ LimitCompared(new))
    BY <1>a, <2>1, <2>2, <2>3 DEF LimitJob, LimitCopies, LimitServes, LimitCompared
  <2>5. ~LimitCarries(thresholdWork[h]) BY <2>1 DEF LimitCarries
  <2>. HIDE DEF new
  <2>. QED BY <1>a, <2>1, <2>3, <2>4, <2>5, LimitQuiet
<1>6. CASE Limit!Conflicts(h)
  <2>1. UNCHANGED <<settings, prefs, posts, thresholdBudget, strayed>> /\ thresholdWork[h].at = "update"
    BY <1>6 DEF Limit!Conflicts, Limit!At
  <2>2. ~LimitCarries(thresholdWork[h]) BY <2>1 DEF LimitCarries
  <2>. DEFINE new == [thresholdWork[h] EXCEPT !.at = "reget", !.tries = thresholdWork[h].tries + 1]
  <2>3. thresholdWork' = [thresholdWork EXCEPT ![h] = new] BY <1>6 DEF Limit!Conflicts, LimitInv
  <2>4. MaxTries \in Nat /\ thresholdWork[h].tries \in 0 .. MaxTries /\ thresholdWork[h].tries < MaxTries
    BY <1>a, <2>1 DEF Limit!ThresholdBounds, LimitJob, LimitCopies
  <2>5. thresholdWork[h].tries + 1 \in 0 .. MaxTries BY <2>4
  <2>6. new \in LimitJob /\ LimitCopies(new) /\ LimitServes(new) /\ LimitCompared(new)
    BY <1>a, <2>1, <2>5 DEF LimitJob, LimitCopies, LimitServes, LimitCompared
  <2>. HIDE DEF new
  <2>. QED BY <1>a, <2>1, <2>2, <2>3, <2>6, LimitQuiet
<1>7. CASE Limit!Regets(h)
  <2>. DEFINE new == [thresholdWork[h] EXCEPT !.at = "get", !.row = settings, !.base = settings]
  <2>1. UNCHANGED <<settings, prefs, posts, thresholdBudget, strayed>> /\ thresholdWork[h].at = "reget" /\
          thresholdWork' = [thresholdWork EXCEPT ![h] = new]
    BY <1>7 DEF Limit!Regets, Limit!At, Limit!Look, Limit!Begin
  <2>2. ~LimitCarries(thresholdWork[h]) BY <2>1 DEF LimitCarries
  <2>3. new \in LimitJob /\ LimitCopies(new) /\ LimitServes(new) /\ LimitCompared(new)
    BY <1>a, <2>1 DEF LimitJob, LimitCopies, LimitServes, LimitCompared
  <2>. HIDE DEF new
  <2>. QED BY <1>a, <2>1, <2>2, <2>3, LimitQuiet
<1>8. CASE Limit!Puts(h)
  <2>1. Limit!PutBack(h) /\ UNCHANGED <<prefs, posts, thresholdBudget>> /\ thresholdWork[h].at = "put"
    BY <1>8 DEF Limit!Puts, Limit!At
  <2>2. thresholdWork[h].row \in Limit!Row /\ ~LimitCarries(thresholdWork[h]) /\ thresholdWork[h].post = 0
    BY <1>a, <2>1 DEF LimitJob, LimitCarries, LimitServes
  <2>3. CASE Limit!Changed(h)
    <3>. DEFINE new == [thresholdWork[h] EXCEPT !.at = "send"]
    <3>1. thresholdWork' = [thresholdWork EXCEPT ![h] = new] BY <1>8, <2>3 DEF Limit!Puts
    <3>2. new \in LimitJob /\ LimitCopies(new) /\ new.post = 0 /\ LimitCompared(new) /\ new.at = "send" /\
            new.row = thresholdWork[h].row
      BY <1>a, <2>2 DEF LimitJob, LimitCopies, LimitCompared
    <3>. HIDE DEF new
    <3>3. thresholdWork'[h] = new BY <3>1 DEF LimitInv
    <3>4. OnItsWay' BY <1>d, <2>1, <3>2, <3>3 DEF OnItsWay, LimitCarries
    <3>. QED BY <1>a, <1>d, <2>1, <2>2, <3>1, <3>2, <3>4, LimitKeeps
  <2>4. CASE ~Limit!Changed(h)
    <3>1. thresholdWork' = [thresholdWork EXCEPT ![h] = Limit!Idle] BY <1>8, <2>4 DEF Limit!Puts, Limit!Leave
    <3>2. ASSUME ~strayed' PROVE prefs' = settings'.level \/ OnItsWay'
      <4>1. settings'.level = settings.level /\ (prefs = settings.level \/ OnItsWay)
        BY <1>a, <1>d, <2>1, <2>4, <3>2 DEF Limit!Changed, LimitCompared, LimitInv
      <4>. QED BY <2>1, <2>2, <3>1, <4>1, StaysOnItsWay
    <3>3. Limit!Idle.post = 0 BY DEF Limit!Idle
    <3>. QED BY <1>a, <1>d, <2>1, <2>2, <3>1, <3>2, <3>3, IdleLimit, LimitKeeps
  <2>. QED BY <2>3, <2>4
<1>9. CASE Limit!Sends(h)
  <2>. DEFINE new == [thresholdWork[h] EXCEPT !.at = "apply"]
              post == [level |-> thresholdWork[h].row.level, state |-> "ready"]
  <2>1. UNCHANGED <<settings, prefs, thresholdBudget, strayed>> /\ thresholdWork[h].at = "send" /\
          thresholdWork' = [thresholdWork EXCEPT ![h] = new]
        /\ posts' = Append(posts, post)
    BY <1>9 DEF Limit!Sends, Limit!At
  <2>2. post \in LimitPost BY <1>a DEF LimitPost, LimitJob, Limit!Row
  <2>3. new \in LimitJob /\ LimitCopies(new) /\ new.post = 0 /\ LimitCompared(new) /\ new.at = "apply" /\
          new.row = thresholdWork[h].row
    BY <1>a, <2>1 DEF LimitJob, LimitCopies, LimitCompared, LimitServes
  <2>. HIDE DEF new, post
  <2>4. posts' \in Seq(LimitPost) /\ \A i \in DOMAIN posts : i \in DOMAIN posts' /\ posts'[i] = posts[i]
    BY <1>a, <2>1, <2>2
  <2>5. LimitCarries(thresholdWork[h]) => LimitCarries(new) BY <2>1, <2>3 DEF LimitCarries
  <2>6. OnItsWay => OnItsWay' BY <2>1, <2>4, <2>5, StaysOnItsWay
  <2>7. ~strayed' => prefs' = settings'.level \/ OnItsWay' BY <2>1, <2>6 DEF LimitInv
  <2>. QED BY <1>a, <2>1, <2>3, <2>4, <2>7, LimitKeeps
<1>10. CASE Limit!SendFails(h)
  <2>1. settings' = settings /\ prefs' = prefs /\ posts' = posts /\ thresholdBudget' \in Nat /\
          thresholdWork' = [thresholdWork EXCEPT ![h] = Limit!Idle]
    BY <1>10, <1>b DEF Limit!SendFails, Limit!Leave
  <2>2. strayed' = TRUE BY <1>10, <1>a DEF Limit!SendFails, Limit!Strays
  <2>. QED BY <1>a, <1>f, <2>1, <2>2, IdleLimit, LimitKeeps
\* What becomes of the messages when one of them is done, or given back.
<1>e. ASSUME NEW state \in {"ready", "done"},
             posts' = [i \in DOMAIN posts |->
               IF i = thresholdWork[h].post THEN [posts[i] EXCEPT !.state = state] ELSE posts[i]]
      PROVE  /\ posts' \in Seq(LimitPost)
             /\ \A i \in DOMAIN posts :
                  /\ i \in DOMAIN posts' /\ posts'[i].level = posts[i].level
                  /\ posts'[i].state = IF i = thresholdWork[h].post THEN state ELSE posts[i].state
  <2>1. Len(posts) \in Nat /\ DOMAIN posts = 1 .. Len(posts) /\ \A i \in DOMAIN posts : posts[i] \in LimitPost
    BY <1>a
  <2>2. \A i \in DOMAIN posts : posts'[i] \in LimitPost /\ posts'[i].level = posts[i].level
                                /\ posts'[i].state = IF i = thresholdWork[h].post THEN state ELSE posts[i].state
    BY <1>e, <2>1 DEF LimitPost
  <2>3. posts' \in [1 .. Len(posts) -> LimitPost] BY <1>e, <2>1, <2>2
  <2>. QED BY <1>e, <2>1, <2>2, <2>3
<1>11. CASE Limit!Applies(h)
  <2>1. UNCHANGED <<settings, thresholdBudget>> /\ thresholdWork' = [thresholdWork EXCEPT ![h] = Limit!Idle] /\
          Limit!Done(h) /\ Limit!Prefer(thresholdWork[h].row.level)
    BY <1>11 DEF Limit!Applies, Limit!Leave
  <2>2. strayed' \in BOOLEAN /\ (~strayed' => ~strayed /\ prefs' = settings'.level)
    BY <1>a, <2>1 DEF Limit!Prefer, Limit!Strays
  <2>. QED BY <1>a, <1>e, <1>f, <2>1, <2>2, IdleLimit, LimitKeeps DEF Limit!Done
<1>12. CASE Limit!ApplyFails(h)
  <2>1. UNCHANGED settings /\ thresholdBudget' \in Nat /\
          thresholdWork' = [thresholdWork EXCEPT ![h] = Limit!Idle] /\ Limit!Done(h) /\ strayed'
    BY <1>12, <1>b DEF Limit!ApplyFails, Limit!Leave, Limit!Strays
  <2>2. strayed' \in BOOLEAN BY <1>12, <1>a DEF Limit!ApplyFails, Limit!Strays
  <2>. QED BY <1>a, <1>e, <1>f, <2>1, <2>2, IdleLimit, LimitKeeps DEF Limit!Done
<1>13. CASE Limit!Die(h)
  <2>1. /\ UNCHANGED <<settings, prefs>> /\ thresholdBudget' \in Nat /\
             thresholdWork' = [thresholdWork EXCEPT ![h] = Limit!Idle]
        /\ Limit!Strays(thresholdWork[h].post = 0 /\ Limit!Stored(h))
        /\ posts' = [i \in DOMAIN posts |->
             IF i = thresholdWork[h].post THEN [posts[i] EXCEPT !.state = "ready"] ELSE posts[i]]
    BY <1>13, <1>b DEF Limit!Die, Limit!Leave
  <2>2. strayed' \in BOOLEAN /\ (~strayed' => ~strayed /\ ~(thresholdWork[h].post = 0 /\ Limit!Stored(h)))
    BY <1>a, <2>1 DEF Limit!Strays
  <2>3. ASSUME ~strayed' PROVE prefs' = settings'.level \/ OnItsWay'
    <3>1. ~strayed /\ ~(thresholdWork[h].post = 0 /\ thresholdWork[h].at \in {"send", "apply"})
      BY <2>2, <2>3 DEF Limit!Stored
    <3>2. LimitCarries(thresholdWork[h]) => \E i \in DOMAIN posts' : LimitQueued(i)'
      <4>1. SUFFICES ASSUME LimitCarries(thresholdWork[h]) PROVE \E i \in DOMAIN posts' : LimitQueued(i)'
        OBVIOUS
      <4>2. thresholdWork[h].post # 0 /\ thresholdWork[h].row.level = settings.level
        BY <3>1, <4>1 DEF LimitCarries
      <4>3. thresholdWork[h].post \in DOMAIN posts /\ posts[thresholdWork[h].post].level = settings.level
        BY <1>a, <4>2 DEF LimitServes
      <4>. QED BY <1>e, <2>1, <4>3 DEF LimitQueued
    <3>3. \A i \in DOMAIN posts : i \in DOMAIN posts' /\ posts'[i].level = posts[i].level
                                  /\ (posts'[i].state = "done" => posts[i].state = "done")
      BY <1>e, <2>1
    <3>4. settings'.level = settings.level /\ prefs' = prefs BY <2>1
    <3>5. OnItsWay => OnItsWay' BY <2>1, <3>2, <3>3, <3>4, StaysOnItsWay
    <3>. QED BY <3>1, <3>4, <3>5 DEF LimitInv
  <2>. QED BY <1>a, <1>e, <1>f, <2>1, <2>2, <2>3, IdleLimit, LimitKeeps
<1>14. CASE \E i \in DOMAIN posts : Limit!Take(h, i)
  <2>1. PICK i \in DOMAIN posts : Limit!Take(h, i) BY <1>14
  <2>. DEFINE new == [Limit!Idle EXCEPT !.at = "apply", !.row.level = posts[i].level, !.post = i]
  <2>2. /\ UNCHANGED <<settings, prefs, thresholdBudget, strayed>> /\
             thresholdWork' = [thresholdWork EXCEPT ![h] = new] /\ thresholdWork[h].at = "idle"
        /\ posts' = [posts EXCEPT ![i].state = "taken"]
    BY <2>1 DEF Limit!Take, Limit!Begin, Limit!Free
  <2>3. Len(posts) \in Nat /\ DOMAIN posts = 1 .. Len(posts) /\ \A j \in DOMAIN posts : posts[j] \in LimitPost
    BY <1>a
  <2>4. \A j \in DOMAIN posts : posts'[j] \in LimitPost /\ posts'[j].level = posts[j].level
                                /\ (posts'[j].state = "done" => posts[j].state = "done")
    BY <2>1, <2>2, <2>3 DEF LimitPost, Limit!Take
  <2>5. posts' \in [1 .. Len(posts) -> LimitPost] /\ DOMAIN posts' = DOMAIN posts BY <2>2, <2>3, <2>4
  <2>6. new \in LimitJob /\ new.at = "apply" /\ new.post = i /\ new.row.level = posts[i].level
    <3>1. i \in Nat /\ posts[i].level \in Levels BY <2>3 DEF LimitPost
    <3>2. Limit!Idle \in LimitJob BY IdleLimit
    <3>. QED BY <3>1, <3>2 DEF LimitJob, Limit!Row
  <2>. HIDE DEF new
  <2>7. LimitCopies(new) /\ LimitCompared(new) /\ ~LimitCarries(thresholdWork[h])
    BY <2>2, <2>6 DEF LimitCopies, LimitCompared, LimitCarries
  <2>8. settings'.level = settings.level /\ prefs' = prefs BY <2>2
  <2>9. OnItsWay => OnItsWay' BY <2>2, <2>4, <2>5, <2>7, <2>8, StaysOnItsWay
  <2>10. ~strayed' => prefs' = settings'.level \/ OnItsWay' BY <2>2, <2>8, <2>9 DEF LimitInv
  <2>11. posts' \in Seq(LimitPost) BY <2>3, <2>5
  <2>. QED BY <1>a, <2>2, <2>4, <2>5, <2>6, <2>7, <2>10, <2>11, LimitKeeps
<1>. QED BY <1>1, <1>2, <1>3, <1>4, <1>5, <1>6, <1>7, <1>8, <1>9, <1>10, <1>11, <1>12, <1>13, <1>14, <1>15

\* Somebody else sets the preference.
LEMMA LimitFramed ==
  ASSUME LimitInv, UNCHANGED <<settings, posts, thresholdWork, thresholdBudget>>,
         strayed' \in BOOLEAN, ~strayed' => ~strayed /\ prefs' = prefs
  PROVE  LimitInv'
<1>1. OnItsWay' = OnItsWay BY DEF OnItsWay, LimitCarries, LimitQueued
<1>2. \A h \in Limit!Handlers : LimitServes(thresholdWork[h])' BY DEF LimitInv, LimitServes
<1>. QED BY <1>1, <1>2 DEF LimitInv

\* Whatever goes on beside.
LEMMA LimitAlways == Spec => []LimitInv
<1>1. Limit!ThresholdBounds BY Bounds
<1>2. Init => LimitInv BY <1>1, LimitInit DEF Init
<1>3. LimitInv /\ [Next]_vars => LimitInv'
  <2>1. SUFFICES ASSUME LimitInv, [Next]_vars PROVE LimitInv' OBVIOUS
  <2>2. strayed \in BOOLEAN BY <2>1 DEF LimitInv
  <2>3. CASE UNCHANGED <<prefs, strayed, limitOwn>> BY <2>1, <2>2, <2>3, LimitFramed DEF limitOwn
  <2>4. CASE UNCHANGED limitOwn /\ strayed' = (strayed \/ prefs' # prefs)
    BY <2>1, <2>2, <2>4, LimitFramed DEF limitOwn
  <2>5. CASE Limit!Next BY <1>1, <2>1, <2>5, LimitStep
  <2>6. CASE UNCHANGED vars BY <2>3, <2>6 DEF vars, sharedVars
  <2>. QED BY <2>1, <2>3, <2>4, <2>5, <2>6
     DEF Next, MailFrame, TalkFrame, TuneFrame, MatchFrame, ShelfFrame, PairFrame, sharedVars
<1>. QED BY <1>2, <1>3, PTL DEF Spec

\* The operation and its workers by their types; a record is there between the request and a
\* restart, and workers only then.
MatchStages == {"start", "score", "record", "count", "add", "close"}
MatchJob(job) ==
  /\ DOMAIN job = {"at", "pair", "n", "copy"} /\ job.at \in MatchStages \cup {"idle"}
  /\ job.pair \in Match!Pairs /\ job.n \in Nat
MatchMessage(m) == DOMAIN m = {"state", "tries"} /\ m.state \in {"none", "ready", "taken", "done", "dead"}
MatchTypes ==
  /\ op \in [status: {"none", "queued", "running", "gone"} \cup Match!Ended, cancelled: BOOLEAN,
             processed: Nat, results: [Match!Pairs -> {"none", "ok", "error"}]]
  /\ DOMAIN msgs = Match!Pairs /\ \A i \in Match!Pairs : MatchMessage(msgs[i])
  /\ DOMAIN matchWork = Match!Workers /\ \A w \in Match!Workers : MatchJob(matchWork[w])
  /\ sent \in 0 .. Size /\ {answers, slipped, twice} \subseteq BOOLEAN
  /\ asking # <<>> => op.status = "none"
  /\ ~Match!Known => \A w \in Match!Workers : Match!At(w, "idle")
\* Once a cancel is answered nobody works on the operation, unless somebody slipped past it.
CancelInv ==
  /\ answers => op.status \notin {"none", "queued"}
  /\ answers /\ ~slipped => op.status = "gone" \/
       (op.status = "failed" /\ op.cancelled /\ \A w \in Match!Workers : Match!At(w, "idle"))
\* The pairs that a worker has counted.
MatchBusy(i) == \E w \in Match!Workers : matchWork[w].pair = i /\ matchWork[w].at \in MatchStages \ {"close"}
MatchCounted == {i \in Match!Pairs : op.results[i] # "none" /\ ~MatchBusy(i)}
CountInv ==
  /\ \A w \in Match!Workers : ~Match!At(w, "idle") =>
       /\ msgs[matchWork[w].pair].state = "taken"
       /\ \A v \in Match!Workers \ {w} : ~Match!At(v, "idle") => matchWork[v].pair # matchWork[w].pair
       /\ matchWork[w].at \in {"count", "add", "close"} => op.results[matchWork[w].pair] # "none"
       /\ Match!At(w, "add") => matchWork[w].n <= Cardinality(MatchCounted)
  /\ \A i \in Match!Pairs : msgs[i].state \in {"none", "ready"} => op.results[i] = "none"
  /\ op.processed <= Cardinality(MatchCounted)
\* No message but of a pair that was sent, and none before the record.
SentInv ==
  /\ \A i \in Match!Pairs : i > sent => msgs[i].state = "none"
  /\ op.status = "none" => sent = 0
  /\ \A w \in Match!Workers : Match!At(w, "idle") \/ msgs[matchWork[w].pair].state # "none"
MatchInv == MatchTypes /\ CancelInv /\ SentInv /\ (Match!Known /\ ~twice => CountInv) /\ Match!CompletedIsWhole

LEMMA MatchInit == ASSUME Match!MatchBounds, Match!Init PROVE MatchInv
<1>1. Size \in Nat \ {0} /\ op = Match!Unknown /\ asking = <<>> /\ sent = 0 /\
        msgs = [i \in Match!Pairs |-> [state |-> "none", tries |-> 0]]
      /\ matchWork = [w \in Match!Workers |-> Match!Idle] /\ answers = FALSE /\ slipped = FALSE /\ twice = FALSE
  BY DEF Match!MatchBounds, Match!Init
<1>2. 1 \in Match!Pairs BY <1>1 DEF Match!Pairs
<1>3. op \in [status: {"none", "queued", "running", "gone"} \cup Match!Ended, cancelled: BOOLEAN,
              processed: Nat, results: [Match!Pairs -> {"none", "ok", "error"}]] /\ op.status = "none"
  BY <1>1 DEF Match!Unknown
<1>4. DOMAIN msgs = Match!Pairs /\ (\A i \in Match!Pairs : MatchMessage(msgs[i]) /\ msgs[i].state = "none")
  BY <1>1 DEF MatchMessage
<1>5. MatchJob(Match!Idle) /\ Match!Idle.at = "idle" BY <1>2 DEF MatchJob, Match!Idle
<1>6. DOMAIN matchWork = Match!Workers /\ \A w \in Match!Workers : MatchJob(matchWork[w]) /\ Match!At(w, "idle")
  <2>1. DOMAIN matchWork = Match!Workers /\ \A w \in Match!Workers : matchWork[w] = Match!Idle BY <1>1
  <2>. QED BY <1>5, <2>1 DEF Match!At
<1>7. sent \in 0 .. Size /\ {answers, slipped, twice} \subseteq BOOLEAN /\ ~Match!Known
  <2>1. sent \in 0 .. Size BY <1>1
  <2>2. {answers, slipped, twice} \subseteq BOOLEAN BY <1>1, Zenon
  <2>3. ~Match!Known BY <1>3 DEF Match!Known
  <2>. QED BY <2>1, <2>2, <2>3
<1>8. MatchTypes BY <1>1, <1>3, <1>4, <1>6, <1>7 DEF MatchTypes
<1>9. CancelInv /\ SentInv /\ Match!CompletedIsWhole
  BY <1>1, <1>3, <1>4, <1>6 DEF CancelInv, SentInv, Match!CompletedIsWhole
<1>. QED BY <1>7, <1>8, <1>9 DEF MatchInv

\* How many pairs are counted, and that all are when there are as many as pairs.
LEMMA PairsCountable ==
  ASSUME Match!MatchBounds, NEW S, S \subseteq Match!Pairs
  PROVE  IsFiniteSet(S) /\ Cardinality(S) \in Nat /\ (Cardinality(S) >= Size => S = Match!Pairs)
<1>1. Size \in Nat BY DEF Match!MatchBounds
<1>2. IsFiniteSet(Match!Pairs) /\ Cardinality(Match!Pairs) = Size
  <2>1. IsFiniteSet(1 .. Size) /\ Cardinality(1 .. Size) = IF 1 > Size THEN 0 ELSE Size - 1 + 1
    BY <1>1, FS_Interval
  <2>. QED BY <1>1, <2>1 DEF Match!Pairs
<1>3. IsFiniteSet(S) /\ Cardinality(S) \in Nat BY <1>2, FS_Subset, FS_CardinalityType
<1>4. Cardinality(S) <= Cardinality(Match!Pairs) /\
        (Cardinality(Match!Pairs) = Cardinality(S) => Match!Pairs = S)
  BY <1>2, FS_Subset
<1>. QED BY <1>1, <1>2, <1>3, <1>4

LEMMA CountedMore ==
  ASSUME Match!MatchBounds, NEW S, NEW i \in Match!Pairs, S \subseteq Match!Pairs, i \notin S
  PROVE  Cardinality(S \cup {i}) = Cardinality(S) + 1
BY PairsCountable, FS_AddElement

LEMMA MatchTypesStep == ASSUME Match!MatchBounds, MatchTypes, Match!Next PROVE MatchTypes'
<1>. USE DEF MatchTypes
<1>a. Size \in Nat \ {0} /\ Match!Pairs = 1 .. Size /\ 1 \in Match!Pairs BY DEF Match!MatchBounds, Match!Pairs
<1>b. MatchJob(Match!Idle) /\ Match!Idle.at = "idle" BY <1>a DEF MatchJob, Match!Idle
<1>c. \A n : \A s \in {"none", "ready", "taken", "done", "dead"} : MatchMessage([state |-> s, tries |-> n])
  BY DEF MatchMessage
<1>d. \A i \in Match!Pairs : \A s \in {"none", "ready", "taken", "done", "dead"} :
        MatchMessage([msgs[i] EXCEPT !.state = s])
  BY DEF MatchMessage
<1>w. ASSUME NEW w \in Match!Workers, NEW job, MatchJob(job), matchWork' = [matchWork EXCEPT ![w] = job],
             Match!Known \/ job.at = "idle",
             Match!Known => Match!Known'
      PROVE  DOMAIN matchWork' = Match!Workers /\ (\A v \in Match!Workers : MatchJob(matchWork'[v])) /\
               (~Match!Known' => \A v \in Match!Workers : Match!At(v, "idle")')
  BY <1>w DEF Match!At
<1>i. ASSUME UNCHANGED <<op, matchWork>>
      PROVE  DOMAIN matchWork' = Match!Workers /\ (\A v \in Match!Workers : MatchJob(matchWork'[v])) /\
               (~Match!Known' => \A v \in Match!Workers : Match!At(v, "idle")')
  BY <1>i DEF Match!At, Match!Known
<1>n. \A w \in Match!Workers : ~Match!At(w, "idle") => Match!Known OBVIOUS
<1>1. CASE Match!Request BY <1>1, <1>i DEF Match!Request, Match!history
<1>2. CASE Match!EnqueueFails BY <1>2, <1>i DEF Match!EnqueueFails, Match!history
<1>3. CASE Match!Cancel
  <2>1. UNCHANGED <<asking, sent, msgs, matchWork, twice>> /\ Match!Known BY <1>3 DEF Match!Cancel
  <2>2. op' \in [status: {"none", "queued", "running", "gone"} \cup Match!Ended, cancelled: BOOLEAN,
                processed: Nat, results: [Match!Pairs -> {"none", "ok", "error"}]] /\ Match!Known'
    <3>1. CASE op' = op BY <2>1, <3>1 DEF Match!Known
    <3>2. CASE op' = [op EXCEPT !.cancelled = TRUE, !.status = "failed"] BY <3>2 DEF Match!Known, Match!Ended
    <3>. QED BY <1>3, <3>1, <3>2 DEF Match!Cancel
  <2>3. answers' \in BOOLEAN /\ slipped' \in BOOLEAN BY <1>3 DEF Match!Cancel
  <2>. QED BY <2>1, <2>2, <2>3 DEF Match!At, Match!Known
<1>4. CASE Match!Opens
  <2>1. op' = [Match!Unknown EXCEPT !.status = "queued"] /\ asking' = <<>> /\
          UNCHANGED <<sent, msgs, matchWork, Match!history>>
    BY <1>4 DEF Match!Opens
  <2>2. op' \in [status: {"none", "queued", "running", "gone"} \cup Match!Ended, cancelled: BOOLEAN,
                processed: Nat, results: [Match!Pairs -> {"none", "ok", "error"}]] /\ op'.status = "queued"
    BY <2>1 DEF Match!Unknown
  <2>. QED BY <2>1, <2>2 DEF Match!At, Match!Known, Match!history
<1>5. CASE Match!Enqueues
  <2>1. sent' = sent + 1 /\ sent < Size /\ msgs' = [msgs EXCEPT ![sent + 1] = [state |-> "ready", tries |-> 0]]
        /\ UNCHANGED <<asking, op, matchWork, Match!history>>
    BY <1>5 DEF Match!Enqueues
  <2>2. sent' \in 0 .. Size /\ sent + 1 \in Match!Pairs BY <1>a, <2>1
  <2>3. DOMAIN msgs' = Match!Pairs /\ \A i \in Match!Pairs : MatchMessage(msgs'[i]) BY <1>c, <2>1, <2>2
  <2>. QED BY <1>i, <2>1, <2>2, <2>3 DEF Match!history
<1>6. CASE \E i \in Match!Pairs : Match!Redeliver(i)
  <2>1. PICK i \in Match!Pairs : msgs' = [msgs EXCEPT ![i].state = "ready"] /\ twice' = TRUE
                           /\ UNCHANGED <<asking, op, sent, matchWork, answers, slipped>>
    BY <1>6 DEF Match!Redeliver
  <2>2. DOMAIN msgs' = Match!Pairs /\ \A j \in Match!Pairs : MatchMessage(msgs'[j]) BY <1>d, <2>1
  <2>. QED BY <1>i, <2>1, <2>2
<1>7. CASE Match!Restart
  <2>1. op' = [Match!Unknown EXCEPT !.status = "gone"] /\ UNCHANGED <<asking, sent, Match!history>> /\
          Match!Known
        /\ msgs' = [i \in Match!Pairs |-> IF msgs[i].state = "taken" THEN Match!GiveBack(msgs[i]) ELSE msgs[i]]
        /\ matchWork' = [w \in Match!Workers |-> Match!Idle]
    BY <1>7 DEF Match!Restart
  <2>2. op' \in [status: {"none", "queued", "running", "gone"} \cup Match!Ended, cancelled: BOOLEAN,
                processed: Nat, results: [Match!Pairs -> {"none", "ok", "error"}]] /\ op'.status = "gone"
    BY <2>1 DEF Match!Unknown
  <2>3. \A i \in Match!Pairs : MatchMessage(Match!GiveBack(msgs[i])) BY <1>d DEF Match!GiveBack
  <2>4. DOMAIN msgs' = Match!Pairs /\ \A j \in Match!Pairs : MatchMessage(msgs'[j]) BY <2>1, <2>3
  <2>. QED BY <1>b, <2>1, <2>2, <2>4 DEF Match!At, Match!Known, Match!history
<1>8. ASSUME NEW w \in Match!Workers, NEW i \in Match!Pairs, Match!Take(w, i) PROVE MatchTypes'
  <2>1. UNCHANGED <<asking, op, sent, Match!history>> BY <1>8 DEF Match!Take
  <2>2. DOMAIN msgs' = Match!Pairs /\ \A j \in Match!Pairs : MatchMessage(msgs'[j]) BY <1>8, <1>c DEF Match!Take
  <2>3. CASE Match!Dropped
    <3>1. matchWork' = [matchWork EXCEPT ![w] = Match!Idle] BY <1>8, <2>3 DEF Match!Take
    <3>. QED BY <1>b, <1>w, <2>1, <2>2, <3>1 DEF Match!Known, Match!history
  <2>4. CASE ~Match!Dropped
    <3>. DEFINE new == [Match!Idle EXCEPT !.at = "start", !.pair = i]
    <3>1. matchWork' = [matchWork EXCEPT ![w] = new] /\ Match!Known BY <1>8, <2>4 DEF Match!Take, Match!Dropped
    <3>2. MatchJob(new) BY <1>b DEF MatchJob, MatchStages
    <3>. HIDE DEF new
    <3>. QED BY <1>w, <2>1, <2>2, <3>1, <3>2 DEF Match!Known, Match!history
  <2>. QED BY <2>3, <2>4
<1>9. ASSUME NEW w \in Match!Workers, Match!Starts(w) \/ Match!Scores(w) \/ Match!Records(w) \/
             Match!RecordsError(w) \/ Match!Counts(w) \/ Match!Adds(w) \/ Match!Closes(w)
      PROVE  MatchTypes'
  <2>1. UNCHANGED <<asking, sent, answers, slipped, twice>> /\ Match!Known
    BY <1>9, <1>n DEF Match!Starts, Match!Scores, Match!Records, Match!RecordsError, Match!Counts, Match!Adds,
       Match!Closes, Match!history, Match!At
  <2>2. op' \in [status: {"none", "queued", "running", "gone"} \cup Match!Ended, cancelled: BOOLEAN,
                processed: Nat, results: [Match!Pairs -> {"none", "ok", "error"}]] /\ Match!Known'
    <3>1. MatchJob(matchWork[w]) OBVIOUS
    <3>2. Match!Outcome \in Match!Ended BY DEF Match!Outcome, Match!Ended
    <3>3. CASE Match!Closes(w) BY <2>1, <3>2, <3>3 DEF Match!Closes, Match!Known, Match!Ended
    <3>4. CASE Match!Starts(w) \/ Match!Scores(w) \/ Match!Counts(w)
      BY <2>1, <3>4 DEF Match!Starts, Match!Scores, Match!Counts, Match!Known
    <3>5. CASE Match!Records(w) \/ Match!RecordsError(w)
      BY <2>1, <3>1, <3>5 DEF Match!Records, Match!RecordsError, Match!Known, MatchJob
    <3>6. CASE Match!Adds(w) BY <2>1, <3>1, <3>6 DEF Match!Adds, Match!Known, MatchJob
    <3>. QED BY <1>9, <3>3, <3>4, <3>5, <3>6
  <2>3. DOMAIN msgs' = Match!Pairs /\ \A j \in Match!Pairs : MatchMessage(msgs'[j])
    <3>1. CASE msgs' = msgs BY <3>1
    <3>2. CASE Match!Closes(w)
      <4>1. msgs' = [msgs EXCEPT ![matchWork[w].pair].state = IF @ = "ready" THEN @ ELSE "done"]
        BY <3>2 DEF Match!Closes
      <4>. QED BY <1>d, <4>1
    <3>. QED
      BY <1>9, <3>1, <3>2
         DEF Match!Starts, Match!Scores, Match!Records, Match!RecordsError, Match!Counts, Match!Adds
  <2>4. PICK job : MatchJob(job) /\ matchWork' = [matchWork EXCEPT ![w] = job]
    <3>1. MatchJob(matchWork[w]) OBVIOUS
    <3>2. \A where \in MatchStages : MatchJob([matchWork[w] EXCEPT !.at = where]) BY <3>1 DEF MatchJob
    <3>3. CASE Match!Starts(w) \/ Match!Records(w) \/ Match!RecordsError(w) \/ Match!Adds(w)
      BY <3>2, <3>3
         DEF Match!Starts, Match!Records, Match!RecordsError, Match!Adds, Match!Goto, Match!Counting,
           MatchStages
    <3>4. CASE Match!Scores(w)
      <4>. DEFINE new == [matchWork[w] EXCEPT !.at = "record", !.copy = prefs]
      <4>1. MatchJob(new) /\ matchWork' = [matchWork EXCEPT ![w] = new]
        BY <3>1, <3>4 DEF Match!Scores, MatchJob, MatchStages
      <4>. QED BY <4>1
    <3>5. CASE Match!Counts(w)
      <4>. DEFINE new == [matchWork[w] EXCEPT !.at = "add", !.n = op.processed]
      <4>1. MatchJob(new) /\ matchWork' = [matchWork EXCEPT ![w] = new]
        BY <3>1, <3>5 DEF Match!Counts, MatchJob, MatchStages
      <4>. QED BY <4>1
    <3>6. CASE Match!Closes(w) BY <1>b, <3>6 DEF Match!Closes
    <3>. QED BY <1>9, <3>3, <3>4, <3>5, <3>6
  <2>. QED BY <1>w, <2>1, <2>2, <2>3, <2>4 DEF Match!Known
<1>. QED BY <1>1, <1>2, <1>3, <1>4, <1>5, <1>6, <1>7, <1>8, <1>9 DEF Match!Next, Match!Work

LEMMA CancelStep == ASSUME MatchTypes, CancelInv, Match!Next PROVE CancelInv'
<1>. USE DEF CancelInv, Match!At
<1>a. MatchTypes BY DEF MatchTypes
<1>b. Match!Idle.at = "idle" /\ Match!Outcome \in Match!Ended /\ (op.cancelled => Match!Outcome = "failed")
  BY DEF Match!Idle, Match!Outcome, Match!Ended
<1>1. CASE Match!Request \/ Match!EnqueueFails \/ Match!Enqueues \/ \E i \in Match!Pairs : Match!Redeliver(i)
  BY <1>1 DEF Match!Request, Match!EnqueueFails, Match!Enqueues, Match!Redeliver, Match!history
<1>2. CASE Match!Opens
  <2>1. op.status = "none" BY <1>2 DEF Match!Opens, MatchTypes
  <2>2. ~answers BY <2>1
  <2>. QED BY <1>2, <2>2 DEF Match!Opens, Match!history
<1>3. CASE Match!Cancel
  <2>1. CASE op.status = "queued" /\ op.processed = 0
    <3>1. op' = [op EXCEPT !.cancelled = TRUE, !.status = "failed"] /\ answers' = TRUE /\ matchWork' = matchWork
          /\ slipped' = (\E w \in Match!Workers : ~Match!At(w, "idle"))
      BY <1>3, <2>1 DEF Match!Cancel
    <3>2. op'.status = "failed" /\ op'.cancelled BY <3>1 DEF MatchTypes
    <3>. QED BY <3>1, <3>2
  <2>2. CASE ~(op.status = "queued" /\ op.processed = 0) BY <1>3, <2>2 DEF Match!Cancel
  <2>. QED BY <2>1, <2>2
<1>4. CASE Match!Restart BY <1>4, <1>b DEF Match!Restart, Match!history, Match!Unknown, Match!Known
<1>5. ASSUME NEW w \in Match!Workers, NEW i \in Match!Pairs, Match!Take(w, i) PROVE CancelInv'
  <2>1. UNCHANGED <<op, answers, slipped>> BY <1>5 DEF Match!Take, Match!history
  <2>2. CASE Match!Dropped BY <1>5, <1>b, <2>1, <2>2 DEF Match!Take, MatchTypes
  <2>3. CASE ~Match!Dropped BY <2>1, <2>3 DEF Match!Dropped, Match!Known
  <2>. QED BY <2>2, <2>3
<1>6. ASSUME NEW w \in Match!Workers, Match!Starts(w) \/ Match!Scores(w) \/ Match!Records(w) \/
             Match!RecordsError(w) \/ Match!Counts(w) \/ Match!Adds(w) \/ Match!Closes(w)
      PROVE  CancelInv'
  <2>1. UNCHANGED <<answers, slipped>> /\ matchWork[w].at # "idle"
    BY <1>6 DEF Match!Starts, Match!Scores, Match!Records, Match!RecordsError, Match!Counts, Match!Adds,
       Match!Closes, Match!history
  <2>2. answers /\ ~slipped => op.status = "gone" BY <2>1
  <2>3. Match!Known BY <2>1 DEF MatchTypes
  <2>4. ~(answers /\ ~slipped) BY <2>2, <2>3 DEF Match!Known
  <2>5. answers => op'.status \notin {"none", "queued"}
    <3>1. op'.status = op.status \/ op'.status = "running" \/ op'.status \in Match!Ended
      BY <1>6, <1>b DEF Match!Starts, Match!Scores, Match!Records, Match!RecordsError, Match!Counts,
         Match!Adds, Match!Closes, MatchTypes
    <3>. QED BY <3>1 DEF Match!Ended
  <2>. QED BY <2>1, <2>4, <2>5
<1>. QED BY <1>1, <1>2, <1>3, <1>4, <1>5, <1>6 DEF Match!Next, Match!Work

\* Match!Counting looks at the results and at who is still at a pair.
LEMMA MatchCountedSame ==
  ASSUME MatchTypes,
         \A i \in Match!Pairs : MatchBusy(i)' = MatchBusy(i) /\ (MatchBusy(i) \/ op'.results[i] = op.results[i])
  PROVE  MatchCounted' = MatchCounted
BY DEF MatchCounted

LEMMA MatchBusySame ==
  ASSUME MatchTypes, NEW w \in Match!Workers, NEW job, matchWork' = [matchWork EXCEPT ![w] = job],
         \/ job.at \notin MatchStages \ {"close"} /\ matchWork[w].at \notin MatchStages \ {"close"}
         \/ job.pair = matchWork[w].pair /\ job.at \in MatchStages \ {"close"} /\
              matchWork[w].at \in MatchStages \ {"close"}
  PROVE  \A i \in Match!Pairs : MatchBusy(i)' = MatchBusy(i)
<1>1. matchWork'[w] = job /\ \A v \in Match!Workers \ {w} : matchWork'[v] = matchWork[v] BY DEF MatchTypes
<1>2. SUFFICES ASSUME NEW i \in Match!Pairs PROVE MatchBusy(i)' <=> MatchBusy(i) BY DEF MatchBusy
<1>. QED BY <1>1 DEF MatchBusy

LEMMA CountStep ==
  ASSUME Match!MatchBounds, MatchTypes, MatchTypes', SentInv, (Match!Known /\ ~twice) => CountInv,
         Match!Next, Match!Known', ~twice'
  PROVE  CountInv'
<1>a. /\ op.processed \in Nat /\ op'.processed \in Nat /\ IsFiniteSet(MatchCounted)
      /\ Cardinality(MatchCounted) \in Nat /\ Cardinality(MatchCounted)' \in Nat
  <2>1. MatchCounted \subseteq Match!Pairs /\ MatchCounted' \subseteq Match!Pairs BY DEF MatchCounted
  <2>2. Cardinality(MatchCounted') \in Nat BY <2>1, PairsCountable
  <2>. QED BY <2>1, <2>2, PairsCountable DEF MatchTypes
<1>b. Match!Idle.at = "idle" BY DEF Match!Idle
<1>1. CASE Match!Opens
  <2>1. op.status = "none" /\ op' = [Match!Unknown EXCEPT !.status = "queued"] /\ UNCHANGED <<msgs, matchWork>>
    BY <1>1 DEF Match!Opens, MatchTypes
  <2>2. \A w \in Match!Workers : matchWork'[w].at = "idle" BY <2>1 DEF MatchTypes, Match!Known, Match!At
  <2>3. op'.processed = 0 /\ \A i \in Match!Pairs : op'.results[i] = "none" BY <2>1 DEF Match!Unknown
  <2>. QED BY <1>a, <2>2, <2>3 DEF CountInv, Match!At
<1>2. CASE Match!Restart BY <1>2 DEF Match!Restart, Match!Unknown, Match!Known
<1>3. CASE \E i \in Match!Pairs : Match!Redeliver(i) BY <1>3 DEF Match!Redeliver
<1>4. ASSUME UNCHANGED matchWork, op'.results = op.results, op'.processed = op.processed, CountInv,
             \A i \in Match!Pairs : msgs[i].state = "none" \/ msgs'[i].state = msgs[i].state
      PROVE  CountInv'
  <2>1. \A i \in Match!Pairs : MatchBusy(i)' = MatchBusy(i) BY <1>4 DEF MatchBusy
  <2>2. MatchCounted' = MatchCounted BY <1>4, <2>1, MatchCountedSame
  <2>3. \A w \in Match!Workers : matchWork[w].pair \in Match!Pairs BY DEF MatchTypes, MatchJob
  <2>. QED BY <1>4, <2>2, <2>3 DEF CountInv, Match!At
<1>5. CASE Match!Request \/ Match!EnqueueFails \/ Match!Cancel
  <2>1. UNCHANGED <<matchWork, msgs, twice>>
    BY <1>5 DEF Match!Request, Match!EnqueueFails, Match!Cancel, Match!history
  <2>2. op' = op \/ op' = [op EXCEPT !.cancelled = TRUE, !.status = "failed"]
    BY <1>5 DEF Match!Request, Match!EnqueueFails, Match!Cancel
  <2>3. op'.results = op.results /\ op'.processed = op.processed BY <2>2 DEF MatchTypes
  <2>4. Match!Known BY <1>5 DEF Match!Request, Match!EnqueueFails, Match!Cancel, Match!Known
  <2>. QED BY <1>4, <2>1, <2>3, <2>4
<1>6. CASE Match!Enqueues
  <2>1. /\ UNCHANGED <<matchWork, op, twice>> /\ Match!Known /\ sent < Size
        /\ msgs' = [msgs EXCEPT ![sent + 1] = [state |-> "ready", tries |-> 0]]
    BY <1>6 DEF Match!Enqueues, Match!history
  <2>2. sent + 1 \in Match!Pairs /\ sent + 1 > sent BY <2>1 DEF MatchTypes, Match!Pairs, Match!MatchBounds
  <2>3. \A i \in Match!Pairs : msgs[i].state = "none" \/ msgs'[i].state = msgs[i].state
    BY <2>1, <2>2 DEF MatchTypes, SentInv
  <2>4. CountInv BY <2>1
  <2>5. op'.results = op.results /\ op'.processed = op.processed BY <2>1
  <2>6. matchWork' = matchWork BY <2>1
  <2>7. CountInv' BY <1>4, <2>3, <2>4, <2>5, <2>6
  <2>. QED BY <2>7
\* A worker takes a message, and goes on with it.
<1>7. ASSUME NEW w \in Match!Workers, NEW i \in Match!Pairs, Match!Take(w, i) PROVE CountInv'
  <2>1. /\ UNCHANGED <<op, twice>> /\ Match!Known /\ Match!At(w, "idle") /\ msgs[i].state = "ready"
        /\ \A j \in Match!Pairs \ {i} : msgs'[j] = msgs[j]
    BY <1>7 DEF Match!Take, Match!history, Match!Free, Match!At, Match!Known, MatchTypes
  <2>2. CountInv BY <2>1
  <2>3. op.results[i] = "none" /\ \A v \in Match!Workers : ~Match!At(v, "idle") => matchWork[v].pair # i
    BY <2>1, <2>2 DEF CountInv
  <2>4. CASE Match!Dropped
    <3>1. matchWork' = [matchWork EXCEPT ![w] = Match!Idle] /\ msgs'[i].state = "done"
      BY <1>7, <2>4 DEF Match!Take, MatchTypes
    <3>2. \A j \in Match!Pairs : MatchBusy(j)' = MatchBusy(j)
      BY <1>b, <2>1, <3>1, MatchBusySame DEF MatchStages, Match!At
    <3>3. MatchCounted' = MatchCounted BY <2>1, <3>2, MatchCountedSame
    <3>4. matchWork'[w].at = "idle" /\ \A v \in Match!Workers \ {w} : matchWork'[v] = matchWork[v]
      BY <1>b, <3>1 DEF MatchTypes
    <3>5. \A v \in Match!Workers : matchWork[v].pair \in Match!Pairs BY DEF MatchTypes, MatchJob
    <3>. QED BY <2>1, <2>2, <2>3, <3>1, <3>3, <3>4, <3>5 DEF CountInv, Match!At
  <2>5. CASE ~Match!Dropped
    <3>1. /\ matchWork'[w].at = "start" /\ matchWork'[w].pair = i /\ msgs'[i].state = "taken"
          /\ \A v \in Match!Workers \ {w} : matchWork'[v] = matchWork[v]
      BY <1>7, <2>5 DEF Match!Take, MatchTypes, Match!Idle
    <3>2. \A j \in Match!Pairs \ {i} : MatchBusy(j)' = MatchBusy(j)
      <4>1. SUFFICES ASSUME NEW j \in Match!Pairs \ {i} PROVE MatchBusy(j)' <=> MatchBusy(j) BY DEF MatchBusy
      <4>. QED BY <2>1, <3>1 DEF MatchBusy, Match!At, MatchStages
    <3>3. MatchCounted' = MatchCounted BY <2>1, <2>3, <3>2 DEF MatchCounted
    <3>4. \A v \in Match!Workers : matchWork[v].pair \in Match!Pairs BY DEF MatchTypes, MatchJob
    <3>. QED BY <2>1, <2>2, <2>3, <3>1, <3>3, <3>4 DEF CountInv, Match!At
  <2>. QED BY <2>4, <2>5
<1>8. ASSUME NEW w \in Match!Workers, Match!Starts(w) \/ Match!Scores(w) \/ Match!Records(w) \/
             Match!RecordsError(w) \/ Match!Counts(w) \/ Match!Adds(w) \/ Match!Closes(w)
      PROVE  CountInv'
  <2>1. twice' = twice /\ ~Match!At(w, "idle")
    BY <1>8 DEF Match!Starts, Match!Scores, Match!Records, Match!RecordsError, Match!Counts, Match!Adds,
       Match!Closes, Match!history, Match!At
  <2>2. Match!Known /\ CountInv BY <2>1 DEF MatchTypes
  <2>. DEFINE p == matchWork[w].pair
  <2>3. /\ msgs[p].state = "taken" /\ p \in Match!Pairs /\
             (\A v \in Match!Workers : matchWork[v].pair \in Match!Pairs)
        /\ \A v \in Match!Workers \ {w} : ~Match!At(v, "idle") => matchWork[v].pair # p
    BY <2>1, <2>2 DEF CountInv, MatchTypes, MatchJob
  <2>4. CASE Match!Starts(w) \/ Match!Scores(w) \/ Match!Records(w) \/ Match!RecordsError(w) \/ Match!Counts(w)
    <3>1. PICK job : /\ matchWork' = [matchWork EXCEPT ![w] = job] /\ job.pair = p
                     /\ job.at \in MatchStages \ {"close"} /\ matchWork[w].at \in MatchStages \ {"close"}
                     /\ (job.at = "add" => job.n = op.processed)
                     /\ (job.at \in {"count", "add"} => op'.results[p] # "none")
      <4>1. DOMAIN matchWork[w] = {"at", "pair", "n", "copy"} /\ matchWork[w].at \in MatchStages \cup {"idle"}
            /\ op.results \in [Match!Pairs -> {"none", "ok", "error"}]
        BY DEF MatchTypes, MatchJob
      <4>2. CASE Match!Starts(w) \/ Match!Records(w) \/ Match!RecordsError(w)
        <5>1. PICK where \in {"score", "count"} : matchWork' = [matchWork EXCEPT ![w].at = where]
                      /\ matchWork[w].at \in MatchStages \ {"close"} /\
                           (where = "count" => op'.results[p] # "none")
          BY <2>3, <4>1, <4>2 DEF Match!Starts, Match!Records, Match!RecordsError, Match!Goto, Match!At,
             Match!Counting, MatchStages, MatchTypes
        <5>. DEFINE new == [matchWork[w] EXCEPT !.at = where]
        <5>2. matchWork' = [matchWork EXCEPT ![w] = new] /\ new.at = where /\ new.pair = p BY <4>1, <5>1
        <5>. HIDE DEF new
        <5>. QED BY <5>1, <5>2 DEF MatchStages
      <4>3. CASE Match!Scores(w)
        <5>. DEFINE new == [matchWork[w] EXCEPT !.at = "record", !.copy = prefs]
        <5>1. matchWork' = [matchWork EXCEPT ![w] = new] /\ new.at = "record" /\ new.pair = p /\
                matchWork[w].at = "score"
          BY <4>1, <4>3 DEF Match!Scores, Match!At
        <5>. HIDE DEF new
        <5>. QED BY <5>1 DEF MatchStages
      <4>4. CASE Match!Counts(w)
        <5>. DEFINE new == [matchWork[w] EXCEPT !.at = "add", !.n = op.processed]
        <5>1. matchWork' = [matchWork EXCEPT ![w] = new] /\ new.at = "add" /\ new.pair = p /\
                matchWork[w].at = "count"
              /\ new.n = op.processed /\ op' = op
          BY <4>1, <4>4 DEF Match!Counts, Match!At
        <5>2. op'.results[p] # "none" BY <2>2, <5>1 DEF CountInv, Match!At
        <5>. HIDE DEF new
        <5>. QED BY <5>1, <5>2 DEF MatchStages
      <4>. QED BY <2>4, <4>2, <4>3, <4>4
    <3>2. /\ msgs' = msgs /\ op'.processed = op.processed
          /\ \A i \in Match!Pairs \ {p} : op'.results[i] = op.results[i]
      BY <2>3, <2>4 DEF Match!Starts, Match!Scores, Match!Records, Match!RecordsError, Match!Counts, MatchTypes
    <3>3. \A i \in Match!Pairs : MatchBusy(i)' = MatchBusy(i) BY <3>1, MatchBusySame
    <3>4. MatchBusy(p) BY <3>1 DEF MatchBusy
    <3>5. MatchCounted' = MatchCounted BY <3>2, <3>3, <3>4, MatchCountedSame
    <3>6. matchWork'[w] = job /\ \A v \in Match!Workers \ {w} : matchWork'[v] = matchWork[v]
      BY <3>1 DEF MatchTypes
    <3>. QED BY <2>2, <2>3, <3>1, <3>2, <3>5, <3>6 DEF CountInv, Match!At
  <2>5. CASE Match!Adds(w)
    <3>1. /\ msgs' = msgs /\ op'.processed = matchWork[w].n + 1 /\ op'.results = op.results
          /\ matchWork' = [matchWork EXCEPT ![w].at = "close"] /\ matchWork[w].at = "add"
      BY <2>5 DEF Match!Adds, Match!Goto, Match!At, MatchTypes
    <3>2. /\ matchWork'[w].at = "close" /\ matchWork'[w].pair = p /\
               \A v \in Match!Workers \ {w} : matchWork'[v] = matchWork[v]
          /\ matchWork[w].n \in Nat
      BY <3>1 DEF MatchTypes, MatchJob
    <3>3. op.results[p] # "none" /\ matchWork[w].n <= Cardinality(MatchCounted)
      BY <2>2, <3>1 DEF CountInv, Match!At
    <3>4. \A i \in Match!Pairs \ {p} : MatchBusy(i)' = MatchBusy(i)
      <4>1. SUFFICES ASSUME NEW i \in Match!Pairs \ {p} PROVE MatchBusy(i)' <=> MatchBusy(i) BY DEF MatchBusy
      <4>. QED BY <3>2 DEF MatchBusy
    <3>5. ~MatchBusy(p)' /\ MatchBusy(p) BY <2>3, <3>1, <3>2 DEF MatchBusy, Match!At, MatchStages
    <3>6. MatchCounted' = MatchCounted \cup {p} /\ p \notin MatchCounted
      BY <2>3, <3>1, <3>3, <3>4, <3>5 DEF MatchCounted
    <3>7. Cardinality(MatchCounted') = Cardinality(MatchCounted) + 1 BY <2>3, <3>6, CountedMore DEF MatchCounted
    <3>8. \A v \in Match!Workers \ {w} : matchWork[v].n \in Nat BY DEF MatchTypes, MatchJob
    <3>. QED BY <1>a, <2>2, <2>3, <3>1, <3>2, <3>3, <3>7, <3>8 DEF CountInv, Match!At
  <2>6. CASE Match!Closes(w)
    <3>1. /\ msgs' = [msgs EXCEPT ![p].state = IF @ = "ready" THEN @ ELSE "done"]
          /\ op'.processed = op.processed /\ op'.results = op.results
          /\ matchWork' = [matchWork EXCEPT ![w] = Match!Idle] /\ matchWork[w].at = "close"
      BY <2>6 DEF Match!Closes, Match!At, MatchTypes
    <3>2. matchWork'[w].at = "idle" /\ \A v \in Match!Workers \ {w} : matchWork'[v] = matchWork[v]
      BY <1>b, <3>1 DEF MatchTypes
    <3>3. \A i \in Match!Pairs : MatchBusy(i)' = MatchBusy(i) BY <1>b, <3>1, MatchBusySame DEF MatchStages
    <3>4. MatchCounted' = MatchCounted BY <3>1, <3>3, MatchCountedSame
    <3>5. msgs'[p].state = "done" /\ \A i \in Match!Pairs \ {p} : msgs'[i] = msgs[i]
      BY <2>3, <3>1 DEF MatchTypes, MatchMessage
    <3>. QED BY <2>2, <2>3, <3>1, <3>2, <3>4, <3>5 DEF CountInv, Match!At
  <2>. QED BY <1>8, <2>4, <2>5, <2>6
<1>. QED BY <1>1, <1>2, <1>3, <1>5, <1>6, <1>7, <1>8 DEF Match!Next, Match!Work

\* A message comes with its pair, and the record before the first one.
LEMMA SentStep == ASSUME Match!MatchBounds, MatchTypes, SentInv, Match!Next PROVE SentInv'
<1>a. sent \in Nat /\ (\A i \in Match!Pairs : i \in Nat) /\
        \A w \in Match!Workers : matchWork[w].pair \in Match!Pairs
  BY DEF MatchTypes, Match!Pairs, MatchJob
<1>b. Match!Idle.at = "idle" BY DEF Match!Idle
<1>1. CASE Match!Enqueues
  <2>1. /\ sent' = sent + 1 /\ msgs' = [msgs EXCEPT ![sent + 1] = [state |-> "ready", tries |-> 0]]
        /\ op' = op /\ matchWork' = matchWork /\ Match!Known
    BY <1>1 DEF Match!Enqueues
  <2>2. \A i \in Match!Pairs : IF i = sent + 1 THEN msgs'[i].state = "ready" ELSE msgs'[i] = msgs[i]
    BY <2>1 DEF MatchTypes
  <2>. QED BY <1>a, <2>1, <2>2 DEF Match!Known, SentInv, Match!At
<1>2. ASSUME sent' = sent, \A i \in Match!Pairs : msgs[i].state = "none" <=> msgs'[i].state = "none",
             op'.status = "none" => op.status = "none",
             \A w \in Match!Workers : matchWork'[w] = matchWork[w] \/ matchWork'[w].at = "idle"
      PROVE  SentInv'
  BY <1>a, <1>2 DEF SentInv, Match!At
<1>3. CASE Match!Request \/ Match!EnqueueFails \/ Match!Cancel
  <2>1. op'.status = "none" => op.status = "none"
    BY <1>3 DEF Match!Request, Match!EnqueueFails, Match!Cancel, MatchTypes
  <2>2. UNCHANGED <<sent, msgs, matchWork>> BY <1>3 DEF Match!Request, Match!EnqueueFails, Match!Cancel
  <2>. QED BY <1>2, <2>1, <2>2
<1>4. CASE Match!Opens BY <1>2, <1>4 DEF Match!Opens, Match!Unknown
<1>5. CASE \E i \in Match!Pairs : Match!Redeliver(i)
  <2>1. PICK i \in Match!Pairs : /\ msgs' = [msgs EXCEPT ![i].state = "ready"] /\ msgs[i].state = "taken"
                           /\ UNCHANGED <<op, sent, matchWork>>
    BY <1>5 DEF Match!Redeliver
  <2>2. \A j \in Match!Pairs : msgs[j].state = "none" <=> msgs'[j].state = "none"
    BY <2>1 DEF MatchTypes, MatchMessage
  <2>. QED BY <1>2, <2>1, <2>2
<1>6. CASE Match!Restart
  <2>1. /\ op' = [Match!Unknown EXCEPT !.status = "gone"] /\ sent' = sent /\
             matchWork' = [w \in Match!Workers |-> Match!Idle]
        /\ msgs' = [i \in Match!Pairs |-> IF msgs[i].state = "taken" THEN Match!GiveBack(msgs[i]) ELSE msgs[i]]
    BY <1>6 DEF Match!Restart
  <2>2. \A j \in Match!Pairs : msgs[j].state = "none" <=> msgs'[j].state = "none"
    BY <2>1 DEF MatchTypes, MatchMessage, Match!GiveBack
  <2>. QED BY <1>2, <1>b, <2>1, <2>2 DEF Match!Unknown
<1>7. ASSUME NEW w \in Match!Workers, NEW i \in Match!Pairs, Match!Take(w, i) PROVE SentInv'
  <2>1. UNCHANGED <<op, sent>> /\ msgs[i].state = "ready" BY <1>7 DEF Match!Take
  <2>2. msgs'[i].state \in {"done", "taken"} /\ \A j \in Match!Pairs \ {i} : msgs'[j] = msgs[j]
    BY <1>7 DEF Match!Take, MatchTypes
  <2>3. /\ matchWork'[w].at = "idle" \/ matchWork'[w].pair = i
        /\ \A v \in Match!Workers \ {w} : matchWork'[v] = matchWork[v]
    BY <1>7, <1>b DEF Match!Take, MatchTypes, Match!Idle
  <2>. QED BY <1>a, <2>1, <2>2, <2>3 DEF SentInv, Match!At
<1>8. ASSUME NEW w \in Match!Workers, Match!Starts(w) \/ Match!Scores(w) \/ Match!Records(w) \/
             Match!RecordsError(w) \/ Match!Counts(w) \/ Match!Adds(w) \/ Match!Closes(w)
      PROVE  SentInv'
  <2>1. /\ Match!Known /\ sent' = sent /\ ~Match!At(w, "idle") /\ msgs[matchWork[w].pair].state # "none"
        /\ \A v \in Match!Workers \ {w} : matchWork'[v] = matchWork[v]
    BY <1>8 DEF Match!Starts, Match!Scores, Match!Records, Match!RecordsError, Match!Counts, Match!Adds,
       Match!Closes, Match!At, Match!Goto, MatchTypes, SentInv
  <2>2. Match!Outcome \in Match!Ended BY DEF Match!Outcome, Match!Ended
  <2>3. op'.status # "none"
    BY <1>8, <2>1, <2>2 DEF Match!Starts, Match!Scores, Match!Records, Match!RecordsError, Match!Counts,
       Match!Adds, Match!Closes, MatchTypes, Match!Known, Match!Ended
  <2>4. \A i \in Match!Pairs : msgs[i].state = "none" <=> msgs'[i].state = "none"
    <3>1. CASE msgs' = msgs BY <3>1
    <3>2. CASE Match!Closes(w)
      <4>. DEFINE p == matchWork[w].pair
      <4>1. msgs' = [msgs EXCEPT ![p].state = IF @ = "ready" THEN @ ELSE "done"] BY <3>2 DEF Match!Closes
      <4>2. p \in Match!Pairs /\ DOMAIN msgs = Match!Pairs /\ DOMAIN msgs[p] = {"state", "tries"}
        BY <1>a DEF MatchTypes, MatchMessage
      <4>3. msgs'[p].state # "none" /\ \A i \in Match!Pairs \ {p} : msgs'[i] = msgs[i] BY <2>1, <4>1, <4>2
      <4>. QED BY <2>1, <4>2, <4>3
    <3>. QED
      BY <1>8, <3>1, <3>2
         DEF Match!Starts, Match!Scores, Match!Records, Match!RecordsError, Match!Counts, Match!Adds
  <2>5. matchWork'[w].pair = matchWork[w].pair \/ matchWork'[w].at = "idle"
    BY <1>8, <1>b DEF Match!Starts, Match!Scores, Match!Records, Match!RecordsError, Match!Counts, Match!Adds,
       Match!Closes, Match!Goto, MatchTypes, MatchJob
  <2>. QED BY <1>a, <2>1, <2>3, <2>4, <2>5 DEF SentInv, Match!At
<1>. QED BY <1>1, <1>3, <1>4, <1>5, <1>6, <1>7, <1>8 DEF Match!Next, Match!Work

\* Only the last to count closes the operation, and then every pair is counted.
LEMMA WholeStep ==
  ASSUME Match!MatchBounds, MatchTypes, (Match!Known /\ ~twice) => CountInv, Match!CompletedIsWhole, Match!Next
  PROVE  Match!CompletedIsWhole'
<1>1. CASE \E w \in Match!Workers : Match!Closes(w)
  <2>1. PICK w \in Match!Workers : Match!Closes(w) BY <1>1
  <2>2. Match!Known /\ twice' = twice BY <2>1 DEF Match!Closes, Match!history, Match!At, MatchTypes
  <2>3. CASE ~Match!All BY <2>1, <2>2, <2>3 DEF Match!Closes, Match!CompletedIsWhole
  <2>4. CASE Match!All
    <3>1. SUFFICES ASSUME ~twice PROVE \A i \in Match!Pairs : op'.results[i] # "none"
      BY <2>2 DEF Match!CompletedIsWhole
    <3>2. op'.results = op.results BY <2>1, <2>4 DEF Match!Closes, MatchTypes
    <3>3. MatchCounted \subseteq Match!Pairs /\ op.processed \in Nat /\
            op.processed <= Cardinality(MatchCounted)
      BY <2>2, <3>1 DEF MatchCounted, CountInv, MatchTypes
    <3>4. Size \in Nat /\ op.processed >= Size BY <2>4 DEF Match!All, Match!MatchBounds
    <3>5. MatchCounted = Match!Pairs BY <3>3, <3>4, PairsCountable
    <3>. QED BY <3>2, <3>5 DEF MatchCounted
  <2>. QED BY <2>3, <2>4
<1>2. CASE Match!Request \/ Match!EnqueueFails \/ Match!Cancel \/ Match!Opens \/ Match!Enqueues \/
             Match!Restart \/ \E i \in Match!Pairs : Match!Redeliver(i)
  <2>1. /\ twice => twice'
        /\ op'.status = "completed" => op'.results = op.results /\ op.status = "completed"
    <3>1. CASE Match!Request \/ Match!EnqueueFails \/ Match!Enqueues \/
                 \E i \in Match!Pairs : Match!Redeliver(i)
      BY <3>1 DEF Match!Request, Match!EnqueueFails, Match!Enqueues, Match!Redeliver, Match!history, MatchTypes
    <3>2. CASE Match!Cancel BY <3>2 DEF Match!Cancel, MatchTypes
    <3>3. CASE Match!Opens \/ Match!Restart BY <3>3 DEF Match!Opens, Match!Restart, Match!Unknown, Match!history
    <3>. QED BY <1>2, <3>1, <3>2, <3>3
  <2>. QED BY <2>1 DEF Match!CompletedIsWhole
<1>3. CASE \E w \in Match!Workers :
          \/ Match!Starts(w) \/ Match!Scores(w) \/ Match!Records(w) \/ Match!RecordsError(w) \/
               Match!Counts(w) \/
               Match!Adds(w)
                               \/ \E i \in Match!Pairs : Match!Take(w, i)
  <2>1. PICK w \in Match!Workers :
            \/ Match!Starts(w) \/ Match!Scores(w) \/ Match!Records(w) \/ Match!RecordsError(w) \/
                 Match!Counts(w) \/ Match!Adds(w)
                             \/ \E i \in Match!Pairs : Match!Take(w, i)
    BY <1>3
  <2>2. twice' = twice
    BY <2>1 DEF Match!Starts, Match!Scores, Match!Records, Match!RecordsError, Match!Counts, Match!Adds,
       Match!Take, Match!history
  <2>3. op'.status = "completed" =>
          op.status = "completed" /\ \A i \in Match!Pairs : op'.results[i] # "none" \/
            op'.results[i] = op.results[i]
    BY <2>1 DEF Match!Starts, Match!Scores, Match!Records, Match!RecordsError, Match!Counts, Match!Adds,
       Match!Take, MatchTypes
  <2>. QED BY <2>2, <2>3 DEF Match!CompletedIsWhole
<1>. QED BY <1>1, <1>2, <1>3 DEF Match!Next, Match!Work

LEMMA MatchAlways == Spec => []MatchInv
<1>1. Match!MatchBounds BY Bounds
<1>2. Init => MatchInv BY <1>1, MatchInit DEF Init
<1>3. MatchInv /\ [Next]_vars => MatchInv'
  <2>1. SUFFICES ASSUME MatchInv, [Next]_vars PROVE MatchInv' OBVIOUS
  <2>2. CASE Match!Next
    <3>1. MatchTypes' /\ CancelInv' /\ SentInv' /\ Match!CompletedIsWhole'
      BY <1>1, <2>1, <2>2, MatchTypesStep, CancelStep, SentStep, WholeStep DEF MatchInv
    <3>2. Match!Known' /\ ~twice' => CountInv' BY <1>1, <2>1, <2>2, <3>1, CountStep DEF MatchInv
    <3>. QED BY <3>1, <3>2 DEF MatchInv
  <2>3. CASE UNCHANGED matchOwn
    BY <2>1, <2>3 DEF matchOwn, MatchInv, MatchTypes, CancelInv, SentInv, CountInv, Match!CompletedIsWhole,
                      Match!Known, Match!At, MatchCounted, MatchBusy, MatchJob, MatchMessage
  <2>. QED BY <2>1, <2>2, <2>3
     DEF Next, vars, MailFrame, TalkFrame, LimitFrame, TuneFrame, ShelfFrame, PairFrame
<1>. QED BY <1>2, <1>3, PTL DEF Spec

\* Whatever goes on beside: an operation that shows completed has scored every pair, unless a
\* message was given out twice, and one whose cancel was answered stays failed, unless a worker
\* had already looked.
THEOREM OperationStands == Spec => []OperationIsHonest
<1>1. MatchInv => OperationIsHonest BY DEF MatchInv, CancelInv, OperationIsHonest, Match!CancelHolds
<1>. QED BY <1>1, MatchAlways, PTL

-----------------------------------------------------------------------------
\* The rows and the handlers by their types; a row that is active is there; what a request has
\* looked at before it writes.
ShelfStages == {"idle", "create", "queue", "send", "edit", "pass", "drop", "clear", "select", "spread",
                "mark", "parse", "win", "lose"}
ShelfJob == [at: ShelfStages, r: Resumes \cup {Nobody}, run: Runs \cup {Nobody}, copy: [Resumes -> Shelf!Row],
             read: BOOLEAN, todo: SUBSET Resumes, job: 0 .. 2]
RowsSound(all) == all \in [Resumes -> Shelf!Row] /\ \A x \in Resumes : all[x].active => all[x].status # "none"
ShelfDoing(job) ==
  /\ job \in ShelfJob /\ RowsSound(job.copy)
  /\ job.at # "idle" => job.r \in Resumes
  /\ job.at \in {"drop", "clear", "spread"} => job.job = 0
  /\ job.at = "select" => job.run \in Runs /\ job.copy[job.r].status # "none" /\ ~job.copy[job.r].deleted
  /\ job.at = "spread" => \A x \in job.todo : job.copy[x].status # "none"
ShelfTypes ==
  /\ RowsSound(rows) /\ chosen \in [Runs -> Resumes \cup {Nobody}]
  /\ DOMAIN resumeWork = Shelf!Handlers /\ \A h \in Shelf!Handlers : ShelfDoing(resumeWork[h])
  /\ rivals \in BOOLEAN
\* One activation writes at a time, and what it has written is not active but for its resume.
ActiveInv ==
  rivals \/ crossed # {} \/ abandoned # {} \/
    /\ \A g, h \in Shelf!Handlers : Shelf!At(g, "spread") /\ Shelf!At(h, "spread") => g = h
    /\ \A h \in Shelf!Handlers : Shelf!At(h, "spread") =>
         \A x \in Resumes \ resumeWork[h].todo : rows[x].active => x = resumeWork[h].r
    /\ (\A h \in Shelf!Handlers : ~Shelf!At(h, "spread")) => \A x, y \in Resumes : rows[x].active /\
         rows[y].active => x = y
ShelfInv == ShelfTypes /\ Shelf!SelectedIsLive /\ ActiveInv

LEMMA NoneActive == ASSUME Shelf!ResumeBounds
PROVE RowsSound(Shelf!NoCopy) /\ ShelfDoing(Shelf!Idle) /\ Shelf!Idle.at = "idle" /\ Shelf!NoRow \in Shelf!Row
<1>1. Shelf!NoRow \in Shelf!Row /\ ~Shelf!NoRow.active BY DEF Shelf!NoRow, Shelf!Row, Shelf!Status
<1>2. RowsSound(Shelf!NoCopy) BY <1>1 DEF RowsSound, Shelf!NoCopy
<1>3. Shelf!Idle \in ShelfJob BY <1>2 DEF RowsSound, Shelf!Idle, ShelfJob, ShelfStages
<1>. QED BY <1>1, <1>2, <1>3 DEF ShelfDoing, Shelf!Idle

LEMMA ShelfInit == ASSUME Shelf!ResumeBounds, Shelf!Init PROVE ShelfInv
<1>1. PICK status \in {"none", "queued", "parsed"} :
        rows = [r \in Resumes |-> IF r = Oldest
          THEN [Shelf!NoRow EXCEPT !.status = status, !.active = (status = "parsed")]
                                ELSE Shelf!NoRow]
  BY DEF Shelf!Init
<1>2. chosen = [u \in Runs |-> Nobody] /\ resumeWork = [h \in Shelf!Handlers |-> Shelf!Idle] /\ rivals = FALSE
  BY DEF Shelf!Init
<1>3. \A x \in Resumes : /\ rows[x] \in Shelf!Row /\ (rows[x].active => rows[x].status # "none")
                         /\ (rows[x].active => x = Oldest)
  BY <1>1 DEF Shelf!NoRow, Shelf!Row, Shelf!Status
<1>4. RowsSound(rows) BY <1>1, <1>3 DEF RowsSound
<1>5. ShelfTypes BY <1>2, <1>4, NoneActive DEF ShelfTypes
<1>6. Shelf!SelectedIsLive BY <1>2 DEF Shelf!SelectedIsLive
<1>7. ActiveInv BY <1>2, <1>3, NoneActive DEF ActiveInv, Shelf!At
<1>. QED BY <1>5, <1>6, <1>7 DEF ShelfInv

\* A step of one handler, given what becomes of the rows.
LEMMA SelectedKept ==
  ASSUME ShelfTypes, Shelf!SelectedIsLive, NEW h \in Shelf!Handlers, NEW job,
         resumeWork' = [resumeWork EXCEPT ![h] = job],
         chosen' = chosen, crossed \subseteq crossed', abandoned \subseteq abandoned',
         resumeWork[h].at = "clear" => resumeWork[h].r \in abandoned',
         \A x \in Resumes : Shelf!Live(x) => Shelf!Live(x)' \/ x \in crossed' \/ (job.at = "clear" /\ job.r = x)
  PROVE  Shelf!SelectedIsLive'
<1>1. resumeWork'[h] = job /\ \A g \in Shelf!Handlers \ {h} : resumeWork'[g] = resumeWork[g] BY DEF ShelfTypes
<1>2. SUFFICES ASSUME NEW u \in Runs, chosen[u] # Nobody, ~Shelf!Live(chosen[u])'
               PROVE  \/ chosen[u] \in crossed' \cup abandoned'
                      \/ \E g \in Shelf!Handlers : resumeWork'[g].at = "clear" /\ resumeWork'[g].r = chosen[u]
  BY DEF Shelf!SelectedIsLive, Shelf!At
<1>3. chosen[u] \in Resumes BY <1>2 DEF ShelfTypes
<1>4. CASE Shelf!Live(chosen[u]) BY <1>1, <1>2, <1>3, <1>4
<1>5. CASE ~Shelf!Live(chosen[u])
  <2>1. \/ chosen[u] \in crossed \cup abandoned
        \/ \E g \in Shelf!Handlers : resumeWork[g].at = "clear" /\ resumeWork[g].r = chosen[u]
    BY <1>2, <1>5 DEF Shelf!SelectedIsLive, Shelf!At
  <2>. QED BY <1>1, <2>1
<1>. QED BY <1>4, <1>5

LEMMA ActiveKept ==
  ASSUME ShelfTypes, ActiveInv, NEW h \in Shelf!Handlers, NEW job, resumeWork' = [resumeWork EXCEPT ![h] = job],
         crossed \subseteq crossed', abandoned \subseteq abandoned', rivals => rivals',
         resumeWork[h].at = "spread" => abandoned' # {}, job.at # "spread",
         crossed' = {} => \A x \in Resumes : rows'[x].active => rows[x].active
  PROVE  ActiveInv'
<1>1. resumeWork'[h] = job /\ \A g \in Shelf!Handlers \ {h} : resumeWork'[g] = resumeWork[g] BY DEF ShelfTypes
<1>2. SUFFICES ASSUME ~rivals', crossed' = {}, abandoned' = {}
      PROVE  /\ \A f, g \in Shelf!Handlers : resumeWork'[f].at = "spread" /\ resumeWork'[g].at = "spread" =>
                  f = g
             /\ \A g \in Shelf!Handlers : resumeWork'[g].at = "spread" =>
                  \A x \in Resumes \ resumeWork'[g].todo : rows'[x].active => x = resumeWork'[g].r
             /\ (\A g \in Shelf!Handlers : resumeWork'[g].at # "spread") =>
                  \A x, y \in Resumes : rows'[x].active /\ rows'[y].active => x = y
  BY DEF ActiveInv, Shelf!At
<1>3. ~rivals /\ crossed = {} /\ abandoned = {} /\ resumeWork[h].at # "spread" BY <1>2
<1>4. /\ \A f, g \in Shelf!Handlers : resumeWork[f].at = "spread" /\ resumeWork[g].at = "spread" => f = g
      /\ \A g \in Shelf!Handlers : resumeWork[g].at = "spread" =>
           \A x \in Resumes \ resumeWork[g].todo : rows[x].active => x = resumeWork[g].r
      /\ (\A g \in Shelf!Handlers : resumeWork[g].at # "spread") =>
           \A x, y \in Resumes : rows[x].active /\ rows[y].active => x = y
  BY <1>3 DEF ActiveInv, Shelf!At
<1>5. \A g \in Shelf!Handlers : resumeWork'[g].at = "spread" => g # h /\ resumeWork'[g] = resumeWork[g] BY <1>1
<1>6. (\A g \in Shelf!Handlers : resumeWork'[g].at # "spread") =>
        \A g \in Shelf!Handlers : resumeWork[g].at # "spread"
  BY <1>1, <1>3
<1>. QED BY <1>2, <1>4, <1>5, <1>6

LEMMA ShelfKept ==
  ASSUME ShelfInv, NEW h \in Shelf!Handlers, NEW job, ShelfDoing(job),
         resumeWork' = [resumeWork EXCEPT ![h] = job], job.at # "spread",
         RowsSound(rows'), chosen' = chosen, crossed \subseteq crossed', abandoned \subseteq abandoned',
         rivals' = rivals,
         resumeWork[h].at = "clear" => resumeWork[h].r \in abandoned', resumeWork[h].at = "spread" =>
           abandoned' # {},
         \A x \in Resumes : Shelf!Live(x) => Shelf!Live(x)' \/ x \in crossed' \/
           (job.at = "clear" /\ job.r = x),
         crossed' = {} => \A x \in Resumes : rows'[x].active => rows[x].active
  PROVE  ShelfInv'
<1>1. ShelfTypes' BY DEF ShelfInv, ShelfTypes
<1>2. Shelf!SelectedIsLive' BY SelectedKept DEF ShelfInv
<1>3. ActiveInv' BY ActiveKept DEF ShelfInv
<1>. QED BY <1>1, <1>2, <1>3 DEF ShelfInv

\* A row is written from the copy of the handler.
LEMMA PersistKept ==
  ASSUME ShelfInv, NEW h \in Shelf!Handlers, NEW job, ShelfDoing(job),
         resumeWork' = [resumeWork EXCEPT ![h] = job], job.at # "spread",
         resumeWork[h].at \notin {"idle", "clear", "spread"}, NEW row \in Shelf!Row, Shelf!Persist(h, row),
         UNCHANGED <<chosen, abandoned, rivals>>,
         row.active => row.status # "none",
         row.active => Shelf!Before(h).active,
         \/ job.at = "clear" /\ job.r = resumeWork[h].r
         \/ row.deleted = Shelf!Before(h).deleted /\
              (row.status = Shelf!Before(h).status \/ row.status # "none")
  PROVE  ShelfInv'
<1>. DEFINE r == resumeWork[h].r
<1>1. r \in Resumes /\ RowsSound(rows) BY DEF ShelfInv, ShelfTypes, ShelfDoing
<1>2. rows' = [rows EXCEPT ![r] = row] /\ crossed \subseteq crossed' /\
        (r \in crossed' \/ Shelf!Before(h) = rows[r])
  BY DEF Shelf!Persist, Shelf!Crosses, Shelf!Before
<1>3. rows'[r] = row /\ \A x \in Resumes \ {r} : rows'[x] = rows[x] BY <1>1, <1>2 DEF RowsSound
<1>4. RowsSound(rows') BY <1>1, <1>2, <1>3 DEF RowsSound
<1>5. \A x \in Resumes : Shelf!Live(x) => Shelf!Live(x)' \/ x \in crossed' \/ (job.at = "clear" /\ job.r = x)
  BY <1>2, <1>3 DEF Shelf!Live
<1>6. crossed' = {} => \A x \in Resumes : rows'[x].active => rows[x].active BY <1>2, <1>3
<1>. HIDE DEF r
<1>. QED BY <1>2, <1>4, <1>5, <1>6, ShelfKept

\* A step that leaves the rows alone.
LEMMA ShelfQuiet ==
  ASSUME ShelfInv, NEW h \in Shelf!Handlers, NEW job, ShelfDoing(job),
         resumeWork' = [resumeWork EXCEPT ![h] = job], job.at # "spread",
         UNCHANGED <<rows, chosen, crossed, rivals>>, abandoned \subseteq abandoned',
         resumeWork[h].at \in {"clear", "spread"} => resumeWork[h].r \in abandoned'
  PROVE  ShelfInv'
<1>1. RowsSound(rows') BY DEF ShelfInv, ShelfTypes
<1>2. \A x \in Resumes : Shelf!Live(x) => Shelf!Live(x)' BY DEF Shelf!Live
<1>. QED BY <1>1, <1>2, ShelfKept

LEMMA ShelfStep == ASSUME Shelf!ResumeBounds, ShelfInv, Shelf!Next PROVE ShelfInv'
<1>0. PICK h \in Shelf!Handlers : Shelf!Request(h) \/ Shelf!Work(h) \/ Shelf!Die(h) BY DEF Shelf!Next
<1>a. ShelfDoing(resumeWork[h]) /\ RowsSound(rows) /\ DOMAIN resumeWork = Shelf!Handlers
  BY DEF ShelfInv, ShelfTypes
<1>b. ShelfDoing(Shelf!Idle) /\ Shelf!Idle.at = "idle" /\ RowsSound(Shelf!NoCopy) BY NoneActive
<1>c. \A where \in {"create", "queue", "edit", "drop"} : \A r \in Resumes :
        ShelfDoing([Shelf!Idle EXCEPT !.at = where, !.r = r]) /\
          [Shelf!Idle EXCEPT !.at = where, !.r = r].at = where
  <2>1. TAKE where \in {"create", "queue", "edit", "drop"}
  <2>2. TAKE r \in Resumes
  <2>. DEFINE new == [Shelf!Idle EXCEPT !.at = where, !.r = r]
  <2>3. Shelf!Idle \in ShelfJob /\ RowsSound(Shelf!Idle.copy) /\ Shelf!Idle.job = 0
    BY <1>b DEF ShelfDoing, Shelf!Idle
  <2>4. new \in ShelfJob /\ new.at = where /\ new.r = r /\ new.copy = Shelf!Idle.copy /\
          new.job = Shelf!Idle.job
    BY <2>3 DEF ShelfJob, ShelfStages
  <2>. HIDE DEF new
  <2>5. ShelfDoing(new) BY <2>3, <2>4 DEF ShelfDoing
  <2>. QED BY <2>4, <2>5 DEF new
<1>d. ASSUME NEW where \in {"create", "queue", "edit", "drop"}, NEW r \in Resumes, Shelf!Free(h),
             Shelf!Begin(h, where, r),
             UNCHANGED <<rows, chosen, Shelf!history>>
      PROVE  ShelfInv'
  <2>. DEFINE new == [Shelf!Idle EXCEPT !.at = where, !.r = r]
  <2>1. resumeWork' = [resumeWork EXCEPT ![h] = new] /\ ShelfDoing(new) /\ new.at = where
    BY <1>c, <1>d DEF Shelf!Begin
  <2>. HIDE DEF new
  <2>. QED BY <1>d, <2>1, ShelfQuiet DEF Shelf!Free, Shelf!history
<1>1. CASE \E r \in Resumes : Shelf!Upload(h, r) \/ Shelf!Retry(h, r) \/ Shelf!Patch(h, r) \/ Shelf!Delete(h, r)
  BY <1>1, <1>d DEF Shelf!Upload, Shelf!Retry, Shelf!Patch, Shelf!Delete
<1>2. CASE \E r \in Resumes : \E u \in Runs : Shelf!Select(h, r, u)
  <2>1. PICK r \in Resumes, u \in Runs : Shelf!Select(h, r, u) BY <1>2
  <2>. DEFINE new == [Shelf!Idle EXCEPT !.at = "select", !.r = r, !.run = u, !.copy = rows]
  <2>2. resumeWork' = [resumeWork EXCEPT ![h] = new] /\ Shelf!Live(r) /\ resumeWork[h].at = "idle" /\
          UNCHANGED <<rows, chosen, Shelf!history>>
    BY <2>1 DEF Shelf!Select, Shelf!Free
  <2>3. ShelfDoing(new) /\ new.at = "select"
    BY <1>a, <1>b, <2>2 DEF ShelfDoing, ShelfJob, ShelfStages, Shelf!Idle, Shelf!Live, RowsSound
  <2>. HIDE DEF new
  <2>. QED BY <2>2, <2>3, ShelfQuiet DEF Shelf!history
<1>3. CASE \E r \in Resumes : Shelf!Activate(h, r)
  <2>1. PICK r \in Resumes : Shelf!Activate(h, r) BY <1>3
  <2>. DEFINE there == {x \in Resumes : rows[x].status # "none"}
              new == [Shelf!Idle EXCEPT !.at = "spread", !.r = r, !.copy = rows, !.todo = there]
  <2>2. /\ resumeWork' = [resumeWork EXCEPT ![h] = new] /\ resumeWork[h].at = "idle"
        /\ UNCHANGED <<rows, chosen, crossed, abandoned>>
        /\ rivals' = (rivals \/ \E g \in Shelf!Handlers : Shelf!At(g, "spread"))
    BY <2>1 DEF Shelf!Activate, Shelf!Free
  <2>3. ShelfDoing(new) /\ new.at = "spread" /\ new.todo = there /\ new.r = r
    BY <1>a, <1>b DEF ShelfDoing, ShelfJob, ShelfStages, Shelf!Idle, RowsSound
  <2>. HIDE DEF new
  <2>4. resumeWork'[h] = new /\ \A g \in Shelf!Handlers \ {h} : resumeWork'[g] = resumeWork[g] BY <1>a, <2>2
  <2>5. ShelfTypes' BY <2>2, <2>3, <2>4 DEF ShelfInv, ShelfTypes
  <2>6. \A x \in Resumes : Shelf!Live(x) => Shelf!Live(x)' BY <2>2 DEF Shelf!Live
  <2>7. Shelf!SelectedIsLive' BY <2>2, <2>6, SelectedKept DEF ShelfInv
  <2>8. ASSUME ~rivals' PROVE \A g \in Shelf!Handlers : resumeWork'[g].at = "spread" => g = h
    BY <2>2, <2>4, <2>8 DEF Shelf!At
  <2>9. \A x \in Resumes \ there : rows[x].active => x = r BY <1>a DEF RowsSound
  <2>10. ActiveInv' BY <2>2, <2>3, <2>4, <2>8, <2>9 DEF ActiveInv, Shelf!At
  <2>. QED BY <2>5, <2>7, <2>10 DEF ShelfInv
<1>4. CASE Shelf!Hydrates(h)
  <2>. DEFINE new == [resumeWork[h] EXCEPT !.copy = rows, !.read = TRUE]
  <2>1. /\ resumeWork' = [resumeWork EXCEPT ![h] = new] /\ resumeWork[h].at \in Shelf!Calls
        /\ UNCHANGED <<rows, chosen, Shelf!history>>
    BY <1>4 DEF Shelf!Hydrates
  <2>2. ShelfDoing(new) /\ new.at = resumeWork[h].at
    BY <1>a, <2>1 DEF ShelfDoing, ShelfJob, RowsSound, Shelf!Calls
  <2>. HIDE DEF new
  <2>. QED BY <2>1, <2>2, ShelfQuiet DEF Shelf!history, Shelf!Calls
\* A handler goes on with what it had.
<1>e. ASSUME NEW where \in {"queue", "send", "pass", "clear", "parse", "win", "lose"},
             resumeWork[h].at # "idle",
             where = "clear" => resumeWork[h].job = 0, Shelf!Goto(h, where)
      PROVE  \E job : ShelfDoing(job) /\ resumeWork' = [resumeWork EXCEPT ![h] = job] /\ job.at = where /\
               job.r = resumeWork[h].r
  <2>. DEFINE new == [resumeWork[h] EXCEPT !.at = where, !.read = FALSE, !.copy = Shelf!NoCopy]
  <2>1. resumeWork' = [resumeWork EXCEPT ![h] = new] BY <1>e DEF Shelf!Goto
  <2>2. new.at = where /\ new.r = resumeWork[h].r /\ ShelfDoing(new)
    BY <1>a, <1>b, <1>e DEF ShelfDoing, ShelfJob, ShelfStages, RowsSound
  <2>. QED BY <2>1, <2>2
<1>5. CASE Shelf!Creates(h)
  <2>1. PICK job : ShelfDoing(job) /\ resumeWork' = [resumeWork EXCEPT ![h] = job] /\ job.at = "queue"
    BY <1>5, <1>e DEF Shelf!Creates, Shelf!At
  <2>. DEFINE row == [Shelf!NoRow EXCEPT !.status = "uploaded"]  r == resumeWork[h].r
  <2>2. /\ rows' = [rows EXCEPT ![r] = row] /\ UNCHANGED <<chosen, Shelf!history>> /\
             resumeWork[h].at = "create"
    BY <1>5 DEF Shelf!Creates, Shelf!At
  <2>3. row \in Shelf!Row /\ row.status = "uploaded" /\ ~row.deleted /\ ~row.active
    BY DEF Shelf!NoRow, Shelf!Row, Shelf!Status
  <2>4. r \in Resumes BY <1>a, <2>2 DEF ShelfDoing
  <2>. HIDE DEF row, r
  <2>5. rows'[r] = row /\ \A x \in Resumes \ {r} : rows'[x] = rows[x] BY <1>a, <2>2, <2>4 DEF RowsSound
  <2>6. RowsSound(rows') BY <1>a, <2>2, <2>3, <2>5 DEF RowsSound
  <2>7. (\A x \in Resumes : Shelf!Live(x) => Shelf!Live(x)') /\ \A x \in Resumes : rows'[x].active =>
          rows[x].active
    BY <2>3, <2>5 DEF Shelf!Live
  <2>. QED BY <2>1, <2>2, <2>6, <2>7, ShelfKept DEF Shelf!history
\* A store call that changes the status, or nothing.
<1>f. resumeWork[h].at # "idle" => Shelf!Before(h) \in Shelf!Row /\
        (Shelf!Before(h).active => Shelf!Before(h).status # "none")
  BY <1>a DEF Shelf!Before, ShelfDoing, RowsSound
<1>g. ASSUME NEW status \in Shelf!Status \ {"none"}, NEW job, ShelfDoing(job),
             resumeWork' = [resumeWork EXCEPT ![h] = job],
             job.at \notin {"spread"}, resumeWork[h].at \in Shelf!Calls, Shelf!RecordStatus(h, status),
             UNCHANGED <<chosen, abandoned, rivals>>
      PROVE  ShelfInv'
  <2>. DEFINE row == [Shelf!Before(h) EXCEPT !.status = status]
  <2>1. Shelf!Before(h) \in Shelf!Row BY <1>f, <1>g DEF Shelf!Calls
  <2>2. row \in Shelf!Row /\ row.status = status /\ row.deleted = Shelf!Before(h).deleted /\
          row.active = Shelf!Before(h).active
    BY <2>1 DEF Shelf!Row
  <2>3. Shelf!Persist(h, row) BY <1>g DEF Shelf!RecordStatus
  <2>. HIDE DEF row
  <2>. QED BY <1>g, <2>2, <2>3, PersistKept DEF Shelf!Calls
<1>6. CASE Shelf!Queues(h)
  <2>1. PICK job : ShelfDoing(job) /\ resumeWork' = [resumeWork EXCEPT ![h] = job] /\ job.at = "send"
    BY <1>6, <1>e DEF Shelf!Queues, Shelf!Ready, Shelf!At
  <2>. QED BY <1>6, <1>g, <2>1 DEF Shelf!Queues, Shelf!Ready, Shelf!At, Shelf!Calls, Shelf!Status
<1>7. CASE Shelf!Marks(h)
  <2>1. PICK job : ShelfDoing(job) /\ resumeWork' = [resumeWork EXCEPT ![h] = job] /\ job.at = "parse"
    BY <1>7, <1>e DEF Shelf!Marks, Shelf!Ready, Shelf!At
  <2>. QED BY <1>7, <1>g, <2>1 DEF Shelf!Marks, Shelf!Ready, Shelf!At, Shelf!Calls, Shelf!Status
<1>8. CASE Shelf!Passes(h) \/ Shelf!Wins(h) \/ Shelf!Loses(h)
  <2>1. resumeWork' = [resumeWork EXCEPT ![h] = Shelf!Idle] /\ UNCHANGED <<chosen, abandoned, rivals>>
    BY <1>8 DEF Shelf!Passes, Shelf!Wins, Shelf!Loses, Shelf!Finish, Shelf!Leave
  <2>2. resumeWork[h].at \in Shelf!Calls
    BY <1>8 DEF Shelf!Passes, Shelf!Wins, Shelf!Loses, Shelf!Ready, Shelf!At, Shelf!Calls
  <2>3. PICK status \in {"parsed", "failed"} : Shelf!RecordStatus(h, status)
    BY <1>8 DEF Shelf!Passes, Shelf!Wins, Shelf!Loses
  <2>. QED BY <1>b, <1>g, <2>1, <2>2, <2>3 DEF Shelf!Status
<1>9. CASE Shelf!Edits(h)
  <2>1. Shelf!Persist(h, Shelf!Before(h)) /\ UNCHANGED <<chosen, abandoned, rivals>> /\
          resumeWork[h].at = "edit"
    BY <1>9 DEF Shelf!Edits, Shelf!Ready, Shelf!At
  <2>2. PICK job : ShelfDoing(job) /\ resumeWork' = [resumeWork EXCEPT ![h] = job] /\
               job.at \in {"idle", "pass"}
    <3>1. CASE Shelf!Goto(h, "pass") BY <1>e, <2>1, <3>1
    <3>2. CASE Shelf!Leave(h) BY <1>b, <3>2 DEF Shelf!Leave
    <3>. QED BY <1>9, <3>1, <3>2 DEF Shelf!Edits
  <2>. QED BY <1>f, <2>1, <2>2, PersistKept
<1>10. CASE Shelf!Drops(h)
  <2>. DEFINE row == [Shelf!Before(h) EXCEPT !.deleted = TRUE, !.active = FALSE]
  <2>1. Shelf!Persist(h, row) /\ UNCHANGED <<chosen, abandoned, rivals>> /\ resumeWork[h].at = "drop"
    BY <1>10 DEF Shelf!Drops, Shelf!Ready, Shelf!At
  <2>2. PICK job : ShelfDoing(job) /\ resumeWork' = [resumeWork EXCEPT ![h] = job] /\ job.at = "clear" /\
               job.r = resumeWork[h].r
    BY <1>10, <1>a, <1>e, <2>1 DEF Shelf!Drops, ShelfDoing
  <2>3. row \in Shelf!Row /\ ~row.active BY <1>f, <2>1 DEF Shelf!Row
  <2>. HIDE DEF row
  <2>. QED BY <2>1, <2>2, <2>3, PersistKept
<1>11. CASE Shelf!Sends(h)
  <2>1. resumeWork' = [resumeWork EXCEPT ![h] = Shelf!Idle] /\ UNCHANGED <<rows, chosen, Shelf!history>> /\
          resumeWork[h].at = "send"
    BY <1>11 DEF Shelf!Sends, Shelf!Leave, Shelf!At
  <2>. QED BY <1>b, <2>1, ShelfQuiet DEF Shelf!history
<1>12. CASE Shelf!Clears(h)
  <2>. DEFINE r == resumeWork[h].r
  <2>1. /\ resumeWork' = [resumeWork EXCEPT ![h] = Shelf!Idle] /\ UNCHANGED <<rows, Shelf!history>> /\
             resumeWork[h].at = "clear"
        /\ chosen' = [u \in Runs |-> IF chosen[u] = r THEN Nobody ELSE chosen[u]]
    BY <1>12 DEF Shelf!Clears, Shelf!Cleared, Shelf!Leave, Shelf!At
  <2>2. resumeWork'[h] = Shelf!Idle /\ \A g \in Shelf!Handlers \ {h} : resumeWork'[g] = resumeWork[g]
    BY <1>a, <2>1
  <2>3. chosen' \in [Runs -> Resumes \cup {Nobody}] BY <2>1 DEF ShelfInv, ShelfTypes
  <2>4. ShelfTypes' BY <1>b, <2>1, <2>2, <2>3 DEF ShelfInv, ShelfTypes, Shelf!history
  <2>5. ActiveInv' BY <1>b, <2>1, ActiveKept DEF ShelfInv, Shelf!history
  <2>6. Shelf!SelectedIsLive'
    <3>1. SUFFICES ASSUME NEW u \in Runs, chosen'[u] # Nobody, ~Shelf!Live(chosen[u])'
                   PROVE  \/ chosen'[u] \in crossed' \cup abandoned'
                          \/ \E g \in Shelf!Handlers : resumeWork'[g].at = "clear" /\
                               resumeWork'[g].r = chosen'[u]
      BY DEF Shelf!SelectedIsLive, Shelf!At
    <3>2. chosen'[u] = chosen[u] /\ chosen[u] # r BY <2>1, <3>1
    <3>3. ~Shelf!Live(chosen[u]) BY <2>1, <3>1, <3>2 DEF Shelf!Live
    <3>4. \/ chosen[u] \in crossed \cup abandoned
          \/ \E g \in Shelf!Handlers : resumeWork[g].at = "clear" /\ resumeWork[g].r = chosen[u]
      BY <3>1, <3>2, <3>3 DEF ShelfInv, Shelf!SelectedIsLive, Shelf!At
    <3>. QED BY <2>1, <2>2, <3>2, <3>4 DEF Shelf!history
  <2>. QED BY <2>4, <2>5, <2>6 DEF ShelfInv
<1>13. CASE Shelf!Selects(h)
  <2>. DEFINE r == resumeWork[h].r  run == resumeWork[h].run
  <2>1. /\ resumeWork' = [resumeWork EXCEPT ![h] = Shelf!Idle] /\ UNCHANGED <<rows, abandoned, rivals>> /\
             resumeWork[h].at = "select"
        /\ chosen' = [chosen EXCEPT ![run] = r] /\ Shelf!Crosses(h, r)
    BY <1>13 DEF Shelf!Selects, Shelf!Leave, Shelf!At
  <2>2. resumeWork'[h] = Shelf!Idle /\ \A g \in Shelf!Handlers \ {h} : resumeWork'[g] = resumeWork[g]
    BY <1>a, <2>1
  <2>3. r \in Resumes /\ run \in Runs /\ chosen \in [Runs -> Resumes \cup {Nobody}]
    BY <1>a, <2>1 DEF ShelfDoing, ShelfInv, ShelfTypes
  <2>4. crossed \subseteq crossed' /\ (r \in crossed' \/ Shelf!Live(r))
    BY <1>a, <2>1 DEF Shelf!Crosses, Shelf!Live, ShelfDoing
  <2>5. ShelfTypes' BY <1>b, <2>1, <2>2, <2>3 DEF ShelfInv, ShelfTypes
  <2>6. ActiveInv' BY <1>b, <2>1, <2>4, ActiveKept DEF ShelfInv
  <2>7. Shelf!SelectedIsLive'
    <3>1. SUFFICES ASSUME NEW u \in Runs, chosen'[u] # Nobody, ~Shelf!Live(chosen[u])'
                   PROVE  \/ chosen'[u] \in crossed' \cup abandoned'
                          \/ \E g \in Shelf!Handlers : resumeWork'[g].at = "clear" /\
                               resumeWork'[g].r = chosen'[u]
      BY DEF Shelf!SelectedIsLive, Shelf!At
    <3>2. ~Shelf!Live(chosen'[u]) BY <2>1, <3>1 DEF Shelf!Live
    <3>3. CASE u = run BY <2>1, <2>3, <2>4, <3>2, <3>3
    <3>4. CASE u # run
      <4>1. chosen'[u] = chosen[u] BY <2>1, <2>3, <3>4
      <4>2. \/ chosen[u] \in crossed \cup abandoned
            \/ \E g \in Shelf!Handlers : resumeWork[g].at = "clear" /\ resumeWork[g].r = chosen[u]
        BY <3>1, <3>2, <4>1 DEF ShelfInv, Shelf!SelectedIsLive, Shelf!At
      <4>. QED BY <2>1, <2>2, <2>4, <4>1, <4>2
    <3>. QED BY <3>3, <3>4
  <2>. QED BY <2>5, <2>6, <2>7 DEF ShelfInv
<1>14. CASE Shelf!Spreads(h)
  <2>1. PICK x \in resumeWork[h].todo :
          /\ rows' = [rows EXCEPT ![x] = [resumeWork[h].copy[x] EXCEPT !.active = (x = resumeWork[h].r)]]
          /\ Shelf!Crosses(h, x)
          /\ IF resumeWork[h].todo = {x} THEN Shelf!Leave(h)
               ELSE resumeWork' = [resumeWork EXCEPT ![h].todo = @ \ {x}]
    BY <1>14 DEF Shelf!Spreads
  <2>. DEFINE r == resumeWork[h].r  todo == resumeWork[h].todo  copy == resumeWork[h].copy
              row == [resumeWork[h].copy[x] EXCEPT !.active = (x = resumeWork[h].r)]
  <2>2. UNCHANGED <<chosen, abandoned, rivals>> /\ resumeWork[h].at = "spread"
    BY <1>14 DEF Shelf!Spreads, Shelf!At
  <2>3. /\ x \in Resumes /\ r \in Resumes /\ todo \subseteq Resumes /\ copy \in [Resumes -> Shelf!Row]
        /\ copy[x].status # "none" /\ resumeWork[h].job = 0
    BY <1>a, <2>2 DEF ShelfDoing, ShelfJob, RowsSound
  <2>4. row \in Shelf!Row /\ row.status = copy[x].status /\ row.deleted = copy[x].deleted /\
          row.active = (x = r)
    BY <2>3 DEF Shelf!Row
  <2>5. PICK job : /\ ShelfDoing(job) /\ resumeWork' = [resumeWork EXCEPT ![h] = job]
                   /\ \/ job.at = "idle" /\ todo = {x}
                      \/ job.at = "spread" /\ job.r = r /\ job.todo = todo \ {x}
    <3>1. CASE todo = {x} BY <1>b, <2>1, <3>1 DEF Shelf!Leave
    <3>2. CASE todo # {x}
      <4>. DEFINE new == [resumeWork[h] EXCEPT !.todo = todo \ {x}]
      <4>1. resumeWork' = [resumeWork EXCEPT ![h] = new] BY <2>1, <3>2
      <4>2. ShelfDoing(new) /\ new.at = "spread" /\ new.r = r /\ new.todo = todo \ {x}
        BY <1>a, <2>2 DEF ShelfDoing, ShelfJob
      <4>. HIDE DEF new
      <4>. QED BY <4>1, <4>2
    <3>. QED BY <3>1, <3>2
  <2>6. crossed \subseteq crossed' /\ (x \in crossed' \/ copy[x] = rows[x]) BY <2>1 DEF Shelf!Crosses
  <2>7. rows' = [rows EXCEPT ![x] = row] BY <2>1
  <2>. HIDE DEF row, r, todo, copy
  <2>8. rows'[x] = row /\ \A y \in Resumes \ {x} : rows'[y] = rows[y] BY <1>a, <2>3, <2>7 DEF RowsSound
  <2>9. RowsSound(rows') BY <1>a, <2>3, <2>4, <2>7, <2>8 DEF RowsSound
  <2>10. resumeWork'[h] = job /\ \A g \in Shelf!Handlers \ {h} : resumeWork'[g] = resumeWork[g] BY <1>a, <2>5
  <2>11. ShelfTypes' BY <2>2, <2>5, <2>9, <2>10 DEF ShelfInv, ShelfTypes
  <2>12. Shelf!SelectedIsLive'
    <3>1. \A y \in Resumes : Shelf!Live(y) => Shelf!Live(y)' \/ y \in crossed'
      BY <2>4, <2>6, <2>8 DEF Shelf!Live
    <3>. QED BY <2>2, <2>5, <2>6, <3>1, SelectedKept DEF ShelfInv
  <2>13. ActiveInv'
    <3>1. SUFFICES ASSUME ~rivals', crossed' = {}, abandoned' = {}
          PROVE  /\ \A f, g \in Shelf!Handlers : resumeWork'[f].at = "spread" /\ resumeWork'[g].at = "spread" =>
                      f = g
                 /\ \A g \in Shelf!Handlers : resumeWork'[g].at = "spread" =>
                      \A y \in Resumes \ resumeWork'[g].todo : rows'[y].active => y = resumeWork'[g].r
                 /\ (\A g \in Shelf!Handlers : resumeWork'[g].at # "spread") =>
                      \A y, z \in Resumes : rows'[y].active /\ rows'[z].active => y = z
      BY DEF ActiveInv, Shelf!At
    <3>2. ~rivals /\ crossed = {} /\ abandoned = {} BY <2>2, <2>6, <3>1
    <3>3. /\ \A f, g \in Shelf!Handlers : resumeWork[f].at = "spread" /\ resumeWork[g].at = "spread" => f = g
          /\ \A y \in Resumes \ todo : rows[y].active => y = r
      BY <2>2, <3>2 DEF ShelfInv, ActiveInv, Shelf!At, r, todo
    <3>4. \A g \in Shelf!Handlers : resumeWork'[g].at = "spread" => g = h BY <2>2, <2>10, <3>3
    <3>5. \A y \in Resumes \ (todo \ {x}) : rows'[y].active => y = r BY <2>4, <2>8, <3>3
    <3>. QED BY <2>5, <2>10, <3>4, <3>5
  <2>. QED BY <2>11, <2>12, <2>13 DEF ShelfInv
<1>15. CASE Shelf!Parses(h)
  <2>1. PICK job : ShelfDoing(job) /\ resumeWork' = [resumeWork EXCEPT ![h] = job] /\ job.at = "win"
    BY <1>15, <1>e DEF Shelf!Parses, Shelf!At
  <2>. QED BY <1>15, <2>1, ShelfQuiet DEF Shelf!Parses, Shelf!At, Shelf!history
<1>16. CASE Shelf!ParseFails(h)
  <2>1. PICK job : ShelfDoing(job) /\ resumeWork' = [resumeWork EXCEPT ![h] = job] /\
               job.at \in {"idle", "lose"}
    <3>1. CASE Shelf!Goto(h, "lose") BY <1>16, <1>e, <3>1 DEF Shelf!ParseFails, Shelf!At
    <3>2. CASE Shelf!Leave(h) BY <1>b, <3>2 DEF Shelf!Leave
    <3>. QED BY <1>16, <3>1, <3>2 DEF Shelf!ParseFails
  <2>. QED BY <1>16, <2>1, ShelfQuiet DEF Shelf!ParseFails, Shelf!At, Shelf!history
<1>17. CASE \E s \in Shelf!Slots : Shelf!Take(h, s)
  <2>1. PICK s \in Shelf!Slots : Shelf!Take(h, s) BY <1>17
  <2>2. UNCHANGED <<rows, chosen, Shelf!history>> /\ resumeWork[h].at = "idle"
    BY <2>1 DEF Shelf!Take, Shelf!Free
  <2>3. CASE resumeWork' = resumeWork BY <2>2, <2>3
     DEF ShelfInv, ShelfTypes, Shelf!SelectedIsLive, ActiveInv, Shelf!Live, Shelf!At, Shelf!history
  <2>4. CASE resumeWork' = [resumeWork EXCEPT ![h] = [Shelf!Idle EXCEPT !.at = "mark", !.r = s[1],
               !.job = s[2]]]
    <3>1. PICK r \in Resumes, n \in {1, 2} : s[1] = r /\ s[2] = n BY DEF Shelf!Slots
    <3>. DEFINE new == [Shelf!Idle EXCEPT !.at = "mark", !.r = r, !.job = n]
    <3>2. Shelf!Idle \in ShelfJob /\ RowsSound(Shelf!Idle.copy) BY <1>b DEF ShelfDoing
    <3>0. n \in 0 .. 2 /\ "mark" \in ShelfStages BY DEF ShelfStages
    <3>3. new \in ShelfJob /\ new.at = "mark" /\ new.r = r /\ new.copy = Shelf!Idle.copy
      BY <3>0, <3>2 DEF ShelfJob
    <3>4. resumeWork' = [resumeWork EXCEPT ![h] = new] BY <2>4, <3>1
    <3>. HIDE DEF new
    <3>5. ShelfDoing(new) BY <3>2, <3>3 DEF ShelfDoing
    <3>. QED BY <2>2, <3>3, <3>4, <3>5, ShelfQuiet DEF Shelf!history
  <2>. QED BY <2>1, <2>3, <2>4 DEF Shelf!Take
<1>18. CASE Shelf!Die(h)
  <2>1. /\ resumeWork' = [resumeWork EXCEPT ![h] = Shelf!Idle] /\ UNCHANGED <<rows, chosen, crossed, rivals>>
        /\ abandoned' = IF Shelf!Unfinished(h) THEN abandoned \cup {resumeWork[h].r} ELSE abandoned
    BY <1>18 DEF Shelf!Die, Shelf!Leave
  <2>2. resumeWork[h].at \in {"clear", "spread"} => Shelf!Unfinished(h) BY <1>a DEF Shelf!Unfinished, ShelfDoing
  <2>. QED BY <1>b, <2>1, <2>2, ShelfQuiet
<1>. QED
  BY <1>0, <1>1, <1>2, <1>3, <1>4, <1>5, <1>6, <1>7, <1>8, <1>9, <1>10, <1>11, <1>12, <1>13, <1>14, <1>15,
            <1>16, <1>17, <1>18 DEF Shelf!Request, Shelf!Work, Shelf!RequestStep, Shelf!ParseStep

LEMMA ShelfCardinality == \A S : Shelf!Cardinality(S) = Cardinality(S)
BY DEF Shelf!Cardinality, Cardinality

LEMMA ActiveOne == ASSUME ActiveInv PROVE Shelf!OneActive
<1>. DEFINE active == {r \in Resumes : Shelf!Live(r) /\ rows[r].active}
<1>1. SUFFICES ASSUME ~rivals, crossed = {}, abandoned = {}, \A h \in Shelf!Handlers : ~Shelf!At(h, "spread")
               PROVE  Cardinality(active) <= 1
  BY ShelfCardinality DEF Shelf!OneActive
<1>2. \A x, y \in active : x = y BY <1>1 DEF ActiveInv
<1>. HIDE DEF active
<1>3. CASE active = {} BY <1>3, FS_EmptySet
<1>4. CASE \E x : x \in active
  <2>1. PICK x : x \in active BY <1>4
  <2>2. active = {x} BY <1>2, <2>1
  <2>. QED BY <2>2, FS_Singleton
<1>. QED BY <1>3, <1>4

LEMMA ShelfAlways == Spec => []ShelfInv
<1>1. Shelf!ResumeBounds BY Bounds
<1>2. Init => ShelfInv BY <1>1, ShelfInit DEF Init
<1>3. ShelfInv /\ [Next]_vars => ShelfInv'
  <2>1. SUFFICES ASSUME ShelfInv, [Next]_vars PROVE ShelfInv' OBVIOUS
  <2>2. CASE UNCHANGED shelfVars
    BY <2>1, <2>2 DEF shelfVars, ShelfInv, ShelfTypes, Shelf!SelectedIsLive, ActiveInv, Shelf!Live, Shelf!At
  <2>3. CASE Shelf!Next BY <1>1, <2>1, <2>3, ShelfStep
  <2>. QED BY <2>1, <2>2, <2>3
     DEF Next, vars, MailFrame, TalkFrame, LimitFrame, TuneFrame, MatchFrame, PairFrame
<1>. QED BY <1>2, <1>3, PTL DEF Spec

\* Whatever goes on beside: a run is not left with a deleted resume, and a user has one active
\* resume at most, but for the known reasons.
THEOREM SelectionsStand == Spec => []SelectionsHold
<1>1. ShelfInv => SelectionsHold BY ActiveOne DEF ShelfInv, SelectionsHold, Shelf!SelectionsHold
<1>. QED BY <1>1, ShelfAlways, PTL

-----------------------------------------------------------------------------
\* The tuning shares its preference, so that its steps are followed one by one.
LEMMA TunesInit == ASSUME Init PROVE Tunes!Init
BY DEF Init, Tune!Init, Tunes!Init, Tune!Handlers, Tunes!Handlers, Tune!Idle, Tunes!Idle, Tune!Fresh,
   Tunes!Fresh,
       Tune!Kinds, Tunes!Kinds

LEMMA TunesFloored == \A old, new : Tune!Floored(old, new) = Tunes!Floored(old, new)
BY DEF Tune!Floored, Tunes!Floored, Tune!Down, Tunes!Down, Tune!Shown, Tunes!Shown, Tune!Lowered, Tunes!Lowered,
       Tune!Thresholds, Tunes!Thresholds, Tune!Cardinality, Tunes!Cardinality

\* Both instances act alike: the steps one by one.
LEMMA TunesSteps ==
  ASSUME NEW h \in Tunes!Handlers
  PROVE  /\ Tune!Touch(h) => Tunes!Touch(h)
         /\ Tune!Choose(h) => Tunes!Choose(h)
         /\ Tune!Poll(h) => Tunes!Poll(h)
         /\ Tune!Counts(h) => Tunes!Counts(h)
         /\ Tune!Lists(h) => Tunes!Lists(h)
         /\ Tune!Keeps(h) => Tunes!Keeps(h)
         /\ Tune!SkipsManual(h) => Tunes!SkipsManual(h)
         /\ Tune!Resets(h) => Tunes!Resets(h)
         /\ Tune!Moves(h) => Tunes!Moves(h)
         /\ Tune!RollsBack(h) => Tunes!RollsBack(h)
         /\ Tune!Stages(h) => Tunes!Stages(h)
         /\ Tune!Activates(h) => Tunes!Activates(h)
         /\ Tune!Settles(h) => Tunes!Settles(h)
         /\ Tune!Die(h) => Tunes!Die(h)
         /\ Tune!Touched(h) => Tunes!Touched(h)
         /\ Tune!Chooses(h) => Tunes!Chooses(h)
         /\ Tune!Pushes(h) => Tunes!Pushes(h)
         /\ Tune!PushFails(h) => Tunes!PushFails(h)
         /\ \A r \in Recs : Tune!Decide(h, r) => Tunes!Decide(h, r)
         /\ \A kind \in Tunes!Kinds : Tune!Take(h, kind) => Tunes!Take(h, kind)
<1>1. Tune!Touch(h) => Tunes!Touch(h)
  BY DEF Tune!Begin, Tunes!Begin, Tune!Event, Tunes!Event, Tune!Free, Tunes!Free, Tune!Fresh, Tunes!Fresh,
         Tune!Handlers, Tunes!Handlers, Tune!Idle, Tunes!Idle, Tune!Read, Tunes!Read, Tune!Touch,
         Tunes!Touch, Tune!history, Tunes!history
<1>2. Tune!Choose(h) => Tunes!Choose(h)
  BY DEF Tune!Begin, Tunes!Begin, Tune!Choices, Tunes!Choices, Tune!Automatic, Tunes!Automatic, Tune!Manual, Tunes!Manual, Tune!Choose, Tunes!Choose, Tune!Event,
         Tunes!Event, Tune!Free, Tunes!Free, Tune!Fresh, Tunes!Fresh, Tune!Handlers, Tunes!Handlers,
         Tune!Idle, Tunes!Idle, Tune!Read, Tunes!Read, Tune!history, Tunes!history
<1>3. Tune!Poll(h) => Tunes!Poll(h)
  BY DEF Tune!Begin, Tunes!Begin, Tune!Event, Tunes!Event, Tune!Free, Tunes!Free, Tune!Fresh, Tunes!Fresh,
         Tune!Handlers, Tunes!Handlers, Tune!Idle, Tunes!Idle, Tune!Poll, Tunes!Poll, Tune!history,
         Tunes!history
<1>4. Tune!Counts(h) => Tunes!Counts(h)
  BY DEF Tune!At, Tunes!At, Tune!Begin, Tunes!Begin, Tune!Counts, Tunes!Counts, Tune!Fresh, Tunes!Fresh,
         Tune!Idle, Tunes!Idle, Tune!Read, Tunes!Read, Tune!history, Tunes!history
<1>5. Tune!Lists(h) => Tunes!Lists(h)
  BY DEF Tune!At, Tunes!At, Tune!Cardinality, Tunes!Cardinality, Tune!Decided, Tunes!Decided, Tune!Due,
         Tunes!Due, Tune!Lists, Tunes!Lists, Tune!New, Tunes!New, Tune!history, Tunes!history
<1>6. Tune!Keeps(h) => Tunes!Keeps(h)
  BY DEF Tune!At, Tunes!At, Tune!Fresh, Tunes!Fresh, Tune!Idle, Tunes!Idle, Tune!Keeps, Tunes!Keeps,
         Tune!Leave, Tunes!Leave, Tune!Setting, Tunes!Setting, Tune!Undoes, Tunes!Undoes, Tune!Write,
         Tunes!Write
<1>7. Tune!SkipsManual(h) => Tunes!SkipsManual(h)
  BY DEF Tune!At, Tunes!At, Tune!Forced, Tunes!Forced, Tune!Fresh, Tunes!Fresh, Tune!Idle, Tunes!Idle,
         Tune!Leave, Tunes!Leave, Tune!Skips, Tunes!Skips, Tune!SkipsManual, Tunes!SkipsManual,
         Tune!history, Tunes!history
<1>8. Tune!Resets(h) => Tunes!Resets(h)
  BY DEF Tune!At, Tunes!At, Tune!Begin, Tunes!Begin, Tune!Forced, Tunes!Forced, Tune!Read, Tunes!Read,
         Tune!Resets, Tunes!Resets, Tune!Skips, Tunes!Skips, Tune!history, Tunes!history
<1>9. Tune!Moves(h) => Tunes!Moves(h)
  BY TunesFloored
     DEF Tune!At, Tunes!At, Tune!Begin, Tunes!Begin, Tune!Cardinality, Tunes!Cardinality, Tune!Decided,
         Tunes!Decided, Tune!Eligible, Tunes!Eligible, Tune!Forced, Tunes!Forced, Tune!Lowered,
         Tunes!Lowered, Tune!Moves, Tunes!Moves, Tune!Raised, Tunes!Raised, Tune!Read, Tunes!Read,
         Tune!Skips, Tunes!Skips, Tune!history, Tunes!history
<1>10. Tune!RollsBack(h) => Tunes!RollsBack(h)
  BY DEF Tune!At, Tunes!At, Tune!Begin, Tunes!Begin, Tune!Cardinality, Tunes!Cardinality, Tune!Decided,
         Tunes!Decided, Tune!Eligible, Tunes!Eligible, Tune!Forced, Tunes!Forced, Tune!Read, Tunes!Read,
         Tune!RollsBack, Tunes!RollsBack, Tune!Skips, Tunes!Skips, Tune!history, Tunes!history
<1>11. Tune!Stages(h) => Tunes!Stages(h)
  BY DEF Tune!At, Tunes!At, Tune!Forced, Tunes!Forced, Tune!Ordered, Tunes!Ordered, Tune!Setting,
         Tunes!Setting, Tune!Stages, Tunes!Stages, Tune!Undoes, Tunes!Undoes, Tune!Write, Tunes!Write,
         Tune!Written, Tunes!Written
<1>12. Tune!Activates(h) => Tunes!Activates(h)
  BY DEF Tune!Activates, Tunes!Activates, Tune!At, Tunes!At, Tune!Setting, Tunes!Setting, Tune!Undoes,
         Tunes!Undoes, Tune!Write, Tunes!Write, Tune!Written, Tunes!Written
<1>13. Tune!Settles(h) => Tunes!Settles(h)
  BY DEF Tune!At, Tunes!At, Tune!Forced, Tunes!Forced, Tune!Ordered, Tunes!Ordered, Tune!Setting,
         Tunes!Setting, Tune!Settles, Tunes!Settles, Tune!Undoes, Tunes!Undoes, Tune!Write, Tunes!Write,
         Tune!Written, Tunes!Written
<1>14. Tune!Die(h) => Tunes!Die(h)
  BY DEF Tune!Die, Tunes!Die, Tune!Event, Tunes!Event, Tune!Fresh, Tunes!Fresh, Tune!Idle, Tunes!Idle,
         Tune!Kinds, Tunes!Kinds, Tune!Leave, Tunes!Leave
<1>15. Tune!Touched(h) => Tunes!Touched(h)
  BY DEF Tune!At, Tunes!At, Tune!Fresh, Tunes!Fresh, Tune!Idle, Tunes!Idle, Tune!Leave, Tunes!Leave,
         Tune!Setting, Tunes!Setting, Tune!Touched, Tunes!Touched, Tune!Undoes, Tunes!Undoes, Tune!Write,
         Tunes!Write
<1>16. Tune!Chooses(h) => Tunes!Chooses(h)
  BY DEF Tune!At, Tunes!At, Tune!Chooses, Tunes!Chooses, Tune!Setting, Tunes!Setting, Tune!Undoes,
         Tunes!Undoes, Tune!Write, Tunes!Write, Tune!Written, Tunes!Written
<1>17. Tune!Pushes(h) => Tunes!Pushes(h)
  BY DEF Tune!At, Tunes!At, Tune!Fresh, Tunes!Fresh, Tune!Idle, Tunes!Idle, Tune!Leave, Tunes!Leave,
         Tune!Pushes, Tunes!Pushes
<1>18. Tune!PushFails(h) => Tunes!PushFails(h)
  BY DEF Tune!At, Tunes!At, Tune!Event, Tunes!Event, Tune!Fresh, Tunes!Fresh, Tune!Idle, Tunes!Idle,
         Tune!Leave, Tunes!Leave, Tune!PushFails, Tunes!PushFails
<1>19. \A r \in Recs : Tune!Decide(h, r) => Tunes!Decide(h, r)
  BY DEF Tune!Begin, Tunes!Begin, Tune!Decide, Tunes!Decide, Tune!Event, Tunes!Event, Tune!Free,
         Tunes!Free, Tune!Fresh, Tunes!Fresh, Tune!Handlers, Tunes!Handlers, Tune!Idle, Tunes!Idle,
         Tune!history, Tunes!history
<1>20. \A kind \in Tunes!Kinds : Tune!Take(h, kind) => Tunes!Take(h, kind)
  BY DEF Tune!Begin, Tunes!Begin, Tune!Free, Tunes!Free, Tune!Fresh, Tunes!Fresh, Tune!Handlers,
         Tunes!Handlers, Tune!Idle, Tunes!Idle, Tune!Take, Tunes!Take, Tune!history, Tunes!history
<1>. QED BY <1>1, <1>2, <1>3, <1>4, <1>5, <1>6, <1>7, <1>8, <1>9, <1>10, <1>11, <1>12, <1>13, <1>14, <1>15,
            <1>16, <1>17, <1>18, <1>19, <1>20

LEMMA TunesEvents == (Tune!Forget => Tunes!Forget) /\ \A kind \in Tunes!Kinds : Tune!Order(kind) =>
  Tunes!Order(kind)
BY DEF Tune!Event, Tune!Forget, Tune!Fresh, Tune!Order, Tune!Setting, Tune!history, Tunes!Event,
       Tunes!Forget, Tunes!Fresh, Tunes!Order, Tunes!Setting, Tunes!history

LEMMA TunesNext == ASSUME Tune!Next PROVE Tunes!Next
BY TunesSteps, TunesEvents DEF Tune!Next, Tunes!Next, Tune!Request, Tunes!Request, Tune!CountStep,
       Tunes!CountStep, Tune!TuneStep, Tunes!TuneStep, Tune!Handlers,
       Tunes!Handlers, Tune!Kinds, Tunes!Kinds

\* Somebody else sets the preference, or nothing.
LEMMA TunesFramed ==
  ASSUME Tunes!TuneInv, Tunes!FloorInv, UNCHANGED tuneOwn, apart' = (apart \/ prefs' # prefs)
  PROVE  Tunes!TuneInv' /\ Tunes!FloorInv'
<1>1. Tunes!WorkInv' /\ Tunes!ChoiceHolds' /\ Tunes!FloorInv'
  BY DEF tuneOwn, Tunes!TuneInv, Tunes!WorkInv, Tunes!ChoiceHolds, Tunes!FloorInv, Tunes!Levelled, Tunes!Staged,
         Tunes!Shown
<1>2. Tunes!PushInv' BY DEF tuneOwn, Tunes!TuneInv, Tunes!PushInv
<1>. QED BY <1>1, <1>2 DEF Tunes!TuneInv

\* Whatever goes on beside: the mode is the user's last choice, scoring follows the tuned
\* threshold, and a tuning stays within its bounds, but for the known reasons.
THEOREM TuningStands == Spec => []TuningHolds
<1>1. Tunes!TuningBounds BY Bounds DEF Tune!TuningBounds, Tunes!TuningBounds, Tune!Thresholds, Tunes!Thresholds
<1>2. Init => Tunes!TuneInv /\ Tunes!FloorInv BY <1>1, TunesInit, Tunes!TuneInit, Tunes!FloorInit
<1>3. Tunes!TuneInv /\ Tunes!FloorInv /\ [Next]_vars => Tunes!TuneInv' /\ Tunes!FloorInv'
  <2>1. SUFFICES ASSUME Tunes!TuneInv, Tunes!FloorInv, [Next]_vars PROVE Tunes!TuneInv' /\ Tunes!FloorInv'
    OBVIOUS
  <2>2. CASE UNCHANGED tuneOwn /\ apart' = (apart \/ prefs' # prefs) BY <2>1, <2>2, TunesFramed
  <2>3. CASE UNCHANGED <<tuneOwn, sharedVars>>
    <3>1. UNCHANGED tuneOwn /\ prefs' = prefs /\ apart' = apart BY <2>3 DEF sharedVars
    <3>2. Tunes!WorkInv' /\ Tunes!ChoiceHolds' /\ Tunes!FloorInv'
      BY <2>1, <3>1
         DEF tuneOwn, Tunes!TuneInv, Tunes!WorkInv, Tunes!ChoiceHolds, Tunes!FloorInv, Tunes!Levelled,
                        Tunes!Staged, Tunes!Shown
    <3>3. Tunes!PushInv' BY <2>1, <3>1 DEF tuneOwn, Tunes!TuneInv, Tunes!PushInv
    <3>. QED BY <3>2, <3>3 DEF Tunes!TuneInv
  <2>4. CASE Tune!Next
    <3>1. Tunes!Next BY <2>4, TunesNext
    <3>2. Tunes!TuneInv' BY <2>1, <3>1, Tunes!TuneStepKept
    <3>3. Tunes!FloorInv' BY <1>1, <2>1, <3>1, Tunes!FloorStep DEF Tunes!TuneInv
    <3>. QED BY <3>2, <3>3
  <2>. QED BY <2>1, <2>2, <2>3, <2>4
     DEF Next, vars, MailFrame, TalkFrame, LimitFrame, MatchFrame, ShelfFrame, PairFrame
<1>4. Tunes!TuneInv /\ Tunes!FloorInv => TuningHolds
  <2>1. SUFFICES ASSUME Tunes!TuneInv, Tunes!FloorInv PROVE TuningHolds OBVIOUS
  <2>2. Tune!ChoiceHolds BY <2>1 DEF Tunes!TuneInv, Tunes!ChoiceHolds, Tune!ChoiceHolds
  <2>3. Tune!ScoringAgrees
    BY <2>1 DEF Tunes!TuneInv, Tunes!PushInv, Tune!ScoringAgrees, Tune!Quiet, Tune!At, Tune!Handlers, Tunes!Handlers
  <2>4. Tune!FloorHolds
    BY <2>1 DEF Tunes!FloorInv, Tunes!Staged, Tune!FloorHolds, Tune!At, Tune!Handlers, Tunes!Handlers,
                Tune!Shown, Tunes!Shown, Tune!Lowered, Tunes!Lowered, Tune!Raised, Tunes!Raised,
                Tune!Cardinality, Tunes!Cardinality
  <2>. QED BY <2>2, <2>3, <2>4 DEF TuningHolds, Tune!TuningHolds
<1>. QED BY <1>2, <1>3, <1>4, PTL DEF Spec

\* Once the settings are quiet, the preference is the threshold that they show, whatever goes on
\* beside; and scoring uses that threshold once the tuning is quiet too: unless one of the known
\* reasons parted them.
THEOREM ThresholdStands == Spec => []ThresholdAgrees
<1>1. LimitInv => Limit!ThresholdAgrees
  BY DEF LimitInv, Limit!ThresholdAgrees, Limit!Quiet, OnItsWay, LimitCarries, LimitQueued, Limit!At
<1>2. Limit!ThresholdAgrees /\ TuningHolds => ThresholdAgrees
  <2>1. SUFFICES ASSUME Limit!ThresholdAgrees, TuningHolds, Limit!Quiet, Tune!Quiet, ~strayed
                 PROVE  Scored = settings.level \/ (apart /\ Overlay # 0)
    BY DEF ThresholdAgrees
  <2>2. prefs = settings.level BY <2>1 DEF Limit!ThresholdAgrees
  <2>3. prefs = params.level \/ apart BY <2>1 DEF TuningHolds, Tune!TuningHolds, Tune!ScoringAgrees
  <2>4. Scored = IF Overlay = 0 THEN prefs ELSE Overlay BY DEF Scored, Match!ThresholdUsed
  <2>5. Overlay \in {0, params.level} BY DEF Overlay
  <2>. QED BY <2>2, <2>3, <2>4, <2>5
<1>. QED BY <1>1, <1>2, LimitAlways, TuningStands, PTL

-----------------------------------------------------------------------------
\* Everything has its type. First the operation: who records has read a preference, and a
\* message that waits may be given out once more.
MatchNote == [state: {"none", "ready", "taken", "done", "dead"}, tries: 0 .. MaxDeliver]
MatchSpare(m) == m.state = "ready" => m.tries < MaxDeliver
MatchRead(job) == job.at = "record" => job.copy \in Levels
MatchFits ==
  /\ cut \in BOOLEAN /\ torn \in BOOLEAN /\ prefs \in Levels /\ asking \in Seq(Levels) /\ matchBudget \in Nat
  /\ msgs \in [Match!Pairs -> MatchNote] /\ \A i \in Match!Pairs : MatchSpare(msgs[i])
  /\ matchWork \in [Match!Workers -> Match!Job] /\ \A w \in Match!Workers : MatchRead(matchWork[w])

LEMMA MatchFitInit == ASSUME Match!MatchBounds, Match!Init PROVE MatchFits
<1>1. 1 \in Match!Pairs BY DEF Match!MatchBounds, Match!Pairs
<1>2. Match!Idle \in Match!Job /\ MatchRead(Match!Idle) BY <1>1 DEF Match!Idle, Match!Job, MatchRead
<1>3. [state |-> "none", tries |-> 0] \in MatchNote /\ MatchSpare([state |-> "none", tries |-> 0])
  BY DEF MatchNote, MatchSpare, Match!MatchBounds
<1>4. matchBudget \in Nat BY DEF Match!Init, Match!MatchBounds
<1>5. msgs \in [Match!Pairs -> MatchNote] /\ \A i \in Match!Pairs : MatchSpare(msgs[i]) BY <1>3 DEF Match!Init
<1>6. matchWork \in [Match!Workers -> Match!Job] /\ \A w \in Match!Workers : MatchRead(matchWork[w])
  BY <1>2 DEF Match!Init
<1>7. cut \in BOOLEAN /\ torn \in BOOLEAN /\ prefs \in Levels /\ asking = <<>> BY DEF Match!Init
<1>8. asking \in Seq(Levels) BY <1>7
<1>. QED BY <1>4, <1>5, <1>6, <1>7, <1>8 DEF MatchFits

LEMMA MatchFitStep == ASSUME Match!MatchBounds, MatchTypes, MatchFits, Match!Next PROVE MatchFits'
<1>. USE DEF Match!history
<1>a. /\ cut \in BOOLEAN /\ torn \in BOOLEAN /\ prefs \in Levels /\ asking \in Seq(Levels) /\ matchBudget \in Nat
      /\ msgs \in [Match!Pairs -> MatchNote] /\ (\A i \in Match!Pairs : MatchSpare(msgs[i]))
      /\ matchWork \in [Match!Workers -> Match!Job] /\ \A w \in Match!Workers : MatchRead(matchWork[w])
  BY DEF MatchFits
<1>b. Match!Event => matchBudget' \in Nat BY <1>a DEF Match!Event
<1>c. 1 \in Match!Pairs /\ MaxDeliver \in Nat \ {0} BY DEF Match!MatchBounds, Match!Pairs
<1>d. Match!Idle \in Match!Job /\ MatchRead(Match!Idle) BY <1>c DEF Match!Idle, Match!Job, MatchRead
<1>e. [state |-> "ready", tries |-> 0] \in MatchNote /\ MatchSpare([state |-> "ready", tries |-> 0])
  BY <1>c DEF MatchNote, MatchSpare
<1>f. \A i \in Match!Pairs : \A s \in {"taken", "done", "dead"} :
        [msgs[i] EXCEPT !.state = s] \in MatchNote /\ MatchSpare([msgs[i] EXCEPT !.state = s])
  BY <1>a DEF MatchNote, MatchSpare
<1>g. \A i \in Match!Pairs : msgs[i].tries < MaxDeliver =>
        [msgs[i] EXCEPT !.state = "ready"] \in MatchNote /\ MatchSpare([msgs[i] EXCEPT !.state = "ready"])
  BY <1>a DEF MatchNote, MatchSpare
<1>1. CASE Match!Request
  <2>1. asking' \in Seq(Levels) BY <1>1, <1>a DEF Match!Request
  <2>. QED BY <1>1, <1>a, <1>b, <2>1 DEF Match!Request, MatchFits
<1>2. CASE Match!Opens
  <2>1. prefs' \in Levels /\ asking' \in Seq(Levels) BY <1>2, <1>a DEF Match!Opens
  <2>. QED BY <1>2, <1>a, <2>1 DEF Match!Opens, MatchFits
<1>3. CASE Match!Enqueues
  <2>1. msgs' \in [Match!Pairs -> MatchNote] /\ \A i \in Match!Pairs : MatchSpare(msgs'[i])
    BY <1>3, <1>a, <1>e DEF Match!Enqueues
  <2>. QED BY <1>3, <1>a, <2>1 DEF Match!Enqueues, MatchFits
<1>4. CASE Match!EnqueueFails \/ Match!Cancel
  BY <1>4, <1>a, <1>b DEF Match!EnqueueFails, Match!Cancel, MatchFits
<1>5. ASSUME NEW i \in Match!Pairs, Match!Redeliver(i) PROVE MatchFits'
  <2>1. msgs' \in [Match!Pairs -> MatchNote] /\ \A j \in Match!Pairs : MatchSpare(msgs'[j])
    BY <1>5, <1>a, <1>g DEF Match!Redeliver
  <2>. QED BY <1>5, <1>a, <1>b, <2>1 DEF Match!Redeliver, MatchFits
<1>6. CASE Match!Restart
  <2>1. ASSUME NEW i \in Match!Pairs PROVE msgs'[i] \in MatchNote /\ MatchSpare(msgs'[i])
    <3>1. CASE msgs[i].state # "taken" BY <1>6, <1>a, <3>1 DEF Match!Restart
    <3>2. CASE msgs[i].state = "taken" /\ msgs[i].tries < MaxDeliver
      BY <1>6, <1>g, <3>2 DEF Match!Restart, Match!GiveBack
    <3>3. CASE msgs[i].state = "taken" /\ ~(msgs[i].tries < MaxDeliver)
      BY <1>6, <1>f, <3>3 DEF Match!Restart, Match!GiveBack
    <3>. QED BY <3>1, <3>2, <3>3
  <2>2. msgs' = [i \in Match!Pairs |-> msgs'[i]] BY <1>6 DEF Match!Restart
  <2>3. msgs' \in [Match!Pairs -> MatchNote] BY <2>1, <2>2
  <2>4. matchWork' \in [Match!Workers -> Match!Job] /\ \A w \in Match!Workers : MatchRead(matchWork'[w])
    BY <1>6, <1>d DEF Match!Restart
  <2>. QED BY <1>6, <1>a, <1>b, <2>1, <2>3, <2>4 DEF Match!Restart, MatchFits
<1>w. ASSUME NEW w \in Match!Workers, NEW job \in Match!Job, MatchRead(job), matchWork' = [matchWork EXCEPT ![w] = job]
      PROVE  matchWork' \in [Match!Workers -> Match!Job] /\ \A v \in Match!Workers : MatchRead(matchWork'[v])
  <2>1. \A v \in Match!Workers : matchWork'[v] = IF v = w THEN job ELSE matchWork[v] BY <1>a, <1>w
  <2>. QED BY <1>a, <1>w, <2>1
<1>7. ASSUME NEW w \in Match!Workers, NEW i \in Match!Pairs, Match!Take(w, i) PROVE MatchFits'
  <2>1. msgs[i].tries \in 0 .. MaxDeliver /\ msgs[i].tries < MaxDeliver
    BY <1>7, <1>a DEF Match!Take, MatchSpare, MatchNote
  <2>2. \A s \in {"done", "taken"} :
          LET m == [state |-> s, tries |-> msgs[i].tries + 1] IN m \in MatchNote /\ MatchSpare(m)
    BY <1>c, <2>1 DEF MatchNote, MatchSpare
  <2>3. PICK s \in {"done", "taken"} : msgs' = [msgs EXCEPT ![i] = [state |-> s, tries |-> msgs[i].tries + 1]]
    BY <1>7 DEF Match!Take
  <2>4. msgs' \in [Match!Pairs -> MatchNote] /\ \A j \in Match!Pairs : MatchSpare(msgs'[j]) BY <1>a, <2>2, <2>3
  <2>5. [Match!Idle EXCEPT !.at = "start", !.pair = i] \in Match!Job
        /\ MatchRead([Match!Idle EXCEPT !.at = "start", !.pair = i])
    BY <1>d DEF Match!Job, MatchRead
  <2>6. matchWork' \in [Match!Workers -> Match!Job] /\ \A v \in Match!Workers : MatchRead(matchWork'[v])
    <3>1. CASE Match!Dropped BY <1>7, <1>d, <1>w, <3>1 DEF Match!Take
    <3>2. CASE ~Match!Dropped BY <1>7, <1>w, <2>5, <3>2 DEF Match!Take
    <3>. QED BY <3>1, <3>2
  <2>. QED BY <1>7, <1>a, <2>4, <2>6 DEF Match!Take, MatchFits
<1>8. ASSUME NEW w \in Match!Workers, Match!Starts(w) \/ Match!Scores(w) \/ Match!Records(w) \/
             Match!RecordsError(w) \/ Match!Counts(w) \/ Match!Adds(w) \/ Match!Closes(w)
      PROVE  MatchFits'
  <2>a. matchWork[w] \in Match!Job /\ MatchRead(matchWork[w]) BY <1>a
  <2>b. ASSUME NEW where \in {"score", "count", "close"}, Match!Goto(w, where)
        PROVE  matchWork' \in [Match!Workers -> Match!Job] /\ \A v \in Match!Workers : MatchRead(matchWork'[v])
    <3>1. [matchWork[w] EXCEPT !.at = where] \in Match!Job /\ MatchRead([matchWork[w] EXCEPT !.at = where])
      BY <2>a DEF Match!Job, MatchRead
    <3>. QED BY <1>w, <2>b, <3>1 DEF Match!Goto
  <2>1. CASE Match!Starts(w) BY <2>1, <1>a, <2>b DEF Match!Starts, MatchFits
  <2>2. CASE Match!Scores(w)
    <3>. DEFINE job == [matchWork[w] EXCEPT !.at = "record", !.copy = prefs]
    <3>1. job \in Match!Job /\ MatchRead(job) BY <1>a, <2>a DEF Match!Job, MatchRead
    <3>2. matchWork' = [matchWork EXCEPT ![w] = job] BY <2>2 DEF Match!Scores
    <3>. HIDE DEF job
    <3>3. matchWork' \in [Match!Workers -> Match!Job] /\ \A v \in Match!Workers : MatchRead(matchWork'[v])
      BY <1>w, <3>1, <3>2
    <3>. QED BY <2>2, <1>a, <3>3 DEF Match!Scores, MatchFits
  <2>3. CASE Match!Records(w)
    <3>1. prefs' \in Levels BY <2>3, <2>a DEF Match!Records, Match!At, MatchRead
    <3>. QED BY <2>3, <1>a, <2>b, <3>1 DEF Match!Records, MatchFits
  <2>4. CASE Match!RecordsError(w) BY <2>4, <1>a, <2>b DEF Match!RecordsError, Match!Counting, MatchFits
  <2>5. CASE Match!Counts(w)
    <3>. DEFINE job == [matchWork[w] EXCEPT !.at = "add", !.n = op.processed]
    <3>1. op.processed \in Nat BY DEF MatchTypes
    <3>2. job \in Match!Job /\ MatchRead(job) BY <2>a, <3>1 DEF Match!Job, MatchRead
    <3>3. matchWork' = [matchWork EXCEPT ![w] = job] BY <2>5 DEF Match!Counts
    <3>. HIDE DEF job
    <3>4. matchWork' \in [Match!Workers -> Match!Job] /\ \A v \in Match!Workers : MatchRead(matchWork'[v])
      BY <1>w, <3>2, <3>3
    <3>. QED BY <2>5, <1>a, <3>4 DEF Match!Counts, MatchFits
  <2>6. CASE Match!Adds(w)
    <3>1. torn' \in BOOLEAN BY <2>6, <1>a DEF Match!Adds
    <3>. QED BY <2>6, <1>a, <2>b, <3>1 DEF Match!Adds, MatchFits
  <2>7. CASE Match!Closes(w)
    <3>1. matchWork' \in [Match!Workers -> Match!Job] /\ \A v \in Match!Workers : MatchRead(matchWork'[v])
      BY <2>7, <1>d, <1>w DEF Match!Closes
    <3>2. msgs' \in [Match!Pairs -> MatchNote] /\ \A j \in Match!Pairs : MatchSpare(msgs'[j])
      <4>. DEFINE i == matchWork[w].pair
      <4>1. i \in Match!Pairs BY <2>a DEF Match!Job
      <4>2. msgs' = [msgs EXCEPT ![i].state = IF msgs[i].state = "ready" THEN msgs[i].state ELSE "done"]
        BY <2>7 DEF Match!Closes
      <4>3. msgs' = msgs \/ msgs' = [msgs EXCEPT ![i].state = "done"]
        <5>1. CASE msgs[i].state = "ready" BY <1>a, <4>1, <4>2, <5>1 DEF MatchNote
        <5>2. CASE msgs[i].state # "ready" BY <4>2, <5>2
        <5>. QED BY <5>1, <5>2
      <4>. HIDE DEF i
      <4>. QED BY <1>a, <1>f, <4>1, <4>3
    <3>. QED BY <2>7, <1>a, <3>1, <3>2 DEF Match!Closes, MatchFits
  <2>. QED BY <1>8, <2>1, <2>2, <2>3, <2>4, <2>5, <2>6, <2>7
<1>. QED BY <1>1, <1>2, <1>3, <1>4, <1>5, <1>6, <1>7, <1>8 DEF Match!Next, Match!Work

\* Then the resumes.
ShelfMessage == [state: {"none", "ready", "taken", "dead"}, tries: 0 .. ParseDeliver]
ShelfSpare(m) == m.state = "ready" => m.tries < ParseDeliver
ShelfFits ==
  /\ resumeWork \in [Shelf!Handlers -> ShelfJob] /\ resumeBudget \in Nat
  /\ jobs \in [Shelf!Slots -> ShelfMessage] /\ \A s \in Shelf!Slots : ShelfSpare(jobs[s])
  /\ crossed \subseteq Resumes /\ abandoned \subseteq Resumes

LEMMA ShelfFitInit == ASSUME Shelf!ResumeBounds, Shelf!Init PROVE ShelfFits
<1>1. resumeWork \in [Shelf!Handlers -> ShelfJob] BY NoneActive DEF Shelf!Init, ShelfDoing
<1>2. \A state \in {"none", "ready"} : LET m == [state |-> state, tries |-> 0] IN m \in ShelfMessage /\ ShelfSpare(m)
  BY DEF ShelfMessage, ShelfSpare, Shelf!ResumeBounds
<1>3. PICK status \in {"none", "queued", "parsed"} :
        jobs = [s \in Shelf!Slots |-> [state |-> IF status = "queued" /\ s = <<Oldest, 1>> THEN "ready" ELSE "none",
                                       tries |-> 0]]
  BY DEF Shelf!Init
<1>4. \A s \in Shelf!Slots : jobs[s] \in ShelfMessage /\ ShelfSpare(jobs[s]) BY <1>2, <1>3
<1>5. jobs \in [Shelf!Slots -> ShelfMessage] BY <1>3, <1>4
<1>6. resumeBudget \in Nat BY DEF Shelf!Init, Shelf!ResumeBounds
<1>. QED BY <1>1, <1>4, <1>5, <1>6 DEF Shelf!Init, ShelfFits

LEMMA ShelfFitStep ==
  ASSUME Shelf!ResumeBounds, ShelfTypes, ShelfTypes', ShelfFits, Shelf!Next PROVE ShelfFits'
<1>. USE DEF Shelf!history
<1>1. PICK h \in Shelf!Handlers : Shelf!Request(h) \/ Shelf!Work(h) \/ Shelf!Die(h) BY DEF Shelf!Next
<1>a. /\ resumeWork \in [Shelf!Handlers -> ShelfJob] /\ resumeBudget \in Nat
      /\ jobs \in [Shelf!Slots -> ShelfMessage] /\ (\A s \in Shelf!Slots : ShelfSpare(jobs[s]))
      /\ crossed \subseteq Resumes /\ abandoned \subseteq Resumes
  BY DEF ShelfFits
<1>b. Shelf!Event => resumeBudget' \in Nat BY <1>a DEF Shelf!Event
\* The handlers: their work is of its type, and one of them has moved at most.
<1>c. (resumeWork' = resumeWork \/ \E job : resumeWork' = [resumeWork EXCEPT ![h] = job]) =>
        resumeWork' \in [Shelf!Handlers -> ShelfJob]
  <2>1. \A g \in Shelf!Handlers : resumeWork'[g] \in ShelfJob BY DEF ShelfTypes, ShelfDoing
  <2>2. ASSUME NEW job, resumeWork' = [resumeWork EXCEPT ![h] = job]
        PROVE  resumeWork' \in [Shelf!Handlers -> ShelfJob]
    <3>1. resumeWork' = [g \in Shelf!Handlers |-> resumeWork'[g]] BY <1>a, <2>2
    <3>. QED BY <2>1, <3>1
  <2>. QED BY <1>a, <2>2
<1>d. resumeWork[h].at # "idle" => resumeWork[h].r \in Resumes BY DEF ShelfTypes, ShelfDoing
<1>e. ASSUME NEW r \in Resumes, Shelf!Crosses(h, r) PROVE crossed' \subseteq Resumes
  BY <1>a, <1>e DEF Shelf!Crosses
<1>f. [state |-> "none", tries |-> 0] \in ShelfMessage /\ ShelfSpare([state |-> "none", tries |-> 0])
      /\ [state |-> "ready", tries |-> 0] \in ShelfMessage /\ ShelfSpare([state |-> "ready", tries |-> 0])
  BY DEF ShelfMessage, ShelfSpare, Shelf!ResumeBounds
<1>g. ASSUME NEW m \in ShelfMessage, ShelfSpare(m), NEW s, jobs' = [jobs EXCEPT ![s] = m]
      PROVE  jobs' \in [Shelf!Slots -> ShelfMessage] /\ \A t \in Shelf!Slots : ShelfSpare(jobs'[t])
  <2>1. \A t \in Shelf!Slots : jobs'[t] = IF t = s THEN m ELSE jobs[t] BY <1>a, <1>g
  <2>. QED BY <1>a, <1>g, <2>1
<1>h. Shelf!GiveBack(h) => jobs' \in [Shelf!Slots -> ShelfMessage] /\ \A t \in Shelf!Slots : ShelfSpare(jobs'[t])
  <2>1. CASE jobs' = jobs BY <1>a, <2>1
  <2>2. CASE jobs' = [jobs EXCEPT ![Shelf!Job(h)].state =
                                    IF jobs[Shelf!Job(h)].tries < ParseDeliver THEN "ready" ELSE "dead"]
    <3>1. ASSUME NEW t \in Shelf!Slots PROVE jobs'[t] \in ShelfMessage /\ ShelfSpare(jobs'[t])
      <4>1. CASE t # Shelf!Job(h) BY <1>a, <2>2, <4>1
      <4>2. CASE t = Shelf!Job(h) /\ jobs[t].tries < ParseDeliver
        BY <1>a, <2>2, <4>2 DEF ShelfMessage, ShelfSpare
      <4>3. CASE t = Shelf!Job(h) /\ ~(jobs[t].tries < ParseDeliver)
        BY <1>a, <2>2, <4>3 DEF ShelfMessage, ShelfSpare
      <4>. QED BY <4>1, <4>2, <4>3
    <3>2. jobs' = [t \in Shelf!Slots |-> jobs'[t]] BY <1>a, <2>2
    <3>. QED BY <3>1, <3>2
  <2>. QED BY <2>1, <2>2 DEF Shelf!GiveBack
<1>m. \E job : resumeWork' = [resumeWork EXCEPT ![h] = job] \/ resumeWork' = resumeWork
  <2>1. CASE Shelf!Request(h)
    BY <2>1 DEF Shelf!Request, Shelf!Upload, Shelf!Retry, Shelf!Patch, Shelf!Delete, Shelf!Activate, Shelf!Select, Shelf!Begin
  <2>2. CASE Shelf!Hydrates(h) \/ Shelf!Clears(h) \/ Shelf!Selects(h) \/ Shelf!Sends(h) \/ Shelf!Passes(h) \/
             Shelf!Die(h) \/ Shelf!Wins(h) \/ Shelf!Loses(h)
    BY <2>2 DEF Shelf!Hydrates, Shelf!Clears, Shelf!Selects, Shelf!Sends, Shelf!Passes, Shelf!Die, Shelf!Wins,
                Shelf!Loses, Shelf!Leave, Shelf!Finish
  <2>3. CASE Shelf!Creates(h) \/ Shelf!Queues(h) \/ Shelf!Edits(h) \/ Shelf!Drops(h) \/ Shelf!Marks(h) \/ Shelf!Parses(h) \/
             Shelf!ParseFails(h)
    BY <2>3 DEF Shelf!Creates, Shelf!Queues, Shelf!Edits, Shelf!Drops, Shelf!Marks, Shelf!Parses, Shelf!ParseFails,
                Shelf!Leave, Shelf!Goto
  <2>4. CASE Shelf!Spreads(h) BY <2>4 DEF Shelf!Spreads, Shelf!Leave
  <2>5. ASSUME NEW s \in Shelf!Slots, Shelf!Take(h, s) PROVE \E job : resumeWork' = [resumeWork EXCEPT ![h] = job] \/ resumeWork' = resumeWork
    BY <2>5 DEF Shelf!Take
  <2>. QED BY <1>1, <2>1, <2>2, <2>3, <2>4, <2>5 DEF Shelf!Work, Shelf!RequestStep, Shelf!ParseStep
<1>2. resumeWork' \in [Shelf!Handlers -> ShelfJob] BY <1>c, <1>m
\* The history and the budget.
<1>3. resumeBudget' \in Nat
  BY <1>1, <1>a, <1>b
  DEF Shelf!Work, Shelf!RequestStep, Shelf!ParseStep, Shelf!Request, Shelf!Upload, Shelf!Retry, Shelf!Patch, Shelf!Delete,
      Shelf!Activate, Shelf!Select, Shelf!Hydrates, Shelf!Clears, Shelf!Selects, Shelf!Sends, Shelf!Passes, Shelf!Die,
      Shelf!Wins, Shelf!Loses, Shelf!Creates, Shelf!Queues, Shelf!Edits, Shelf!Drops, Shelf!Marks, Shelf!Parses,
      Shelf!ParseFails, Shelf!Spreads, Shelf!Take
<1>4. abandoned' \subseteq Resumes
  <2>1. CASE Shelf!Die(h) BY <2>1, <1>a, <1>d DEF Shelf!Die
  <2>2. CASE ~Shelf!Die(h)
    BY <1>1, <1>a, <2>2
    DEF Shelf!Work, Shelf!RequestStep, Shelf!ParseStep, Shelf!Request, Shelf!Upload, Shelf!Retry, Shelf!Patch,
        Shelf!Delete, Shelf!Activate, Shelf!Select, Shelf!Hydrates, Shelf!Clears, Shelf!Selects, Shelf!Sends,
        Shelf!Passes, Shelf!Wins, Shelf!Loses, Shelf!Creates, Shelf!Queues, Shelf!Edits, Shelf!Drops, Shelf!Marks,
        Shelf!Parses, Shelf!ParseFails, Shelf!Spreads, Shelf!Take
  <2>. QED BY <2>1, <2>2
<1>5. crossed' \subseteq Resumes
  <2>1. CASE Shelf!Queues(h) \/ Shelf!Edits(h) \/ Shelf!Passes(h) \/ Shelf!Drops(h) \/ Shelf!Marks(h) \/ Shelf!Wins(h) \/
             Shelf!Loses(h) \/ Shelf!Selects(h)
    <3>1. Shelf!Crosses(h, resumeWork[h].r) /\ resumeWork[h].at # "idle"
      BY <2>1 DEF Shelf!Queues, Shelf!Edits, Shelf!Passes, Shelf!Drops, Shelf!Marks, Shelf!Wins, Shelf!Loses,
                  Shelf!Selects, Shelf!RecordStatus, Shelf!Persist, Shelf!Ready, Shelf!At
    <3>. QED BY <1>d, <1>e, <3>1
  <2>2. CASE Shelf!Spreads(h)
    <3>1. PICK x \in resumeWork[h].todo : Shelf!Crosses(h, x) BY <2>2 DEF Shelf!Spreads
    <3>2. x \in Resumes BY <1>a, <3>1 DEF ShelfJob
    <3>. QED BY <1>e, <3>1, <3>2
  <2>3. CASE crossed' = crossed BY <1>a, <2>3
  <2>. QED BY <1>1, <2>1, <2>2, <2>3
    DEF Shelf!Work, Shelf!RequestStep, Shelf!ParseStep, Shelf!Request, Shelf!Upload, Shelf!Retry, Shelf!Patch,
        Shelf!Delete, Shelf!Activate, Shelf!Select, Shelf!Hydrates, Shelf!Clears, Shelf!Sends, Shelf!Die,
        Shelf!Creates, Shelf!Parses, Shelf!ParseFails, Shelf!Take
\* The messages.
<1>6. jobs' \in [Shelf!Slots -> ShelfMessage] /\ \A t \in Shelf!Slots : ShelfSpare(jobs'[t])
  <2>1. CASE Shelf!Sends(h)
    <3>1. PICK i \in {1, 2} : jobs' = [jobs EXCEPT ![<<resumeWork[h].r, i>>] = [state |-> "ready", tries |-> 0]]
      BY <2>1 DEF Shelf!Sends
    <3>. QED BY <1>f, <1>g, <3>1
  <2>2. CASE Shelf!Wins(h) \/ Shelf!Loses(h)
    <3>1. jobs' = [jobs EXCEPT ![Shelf!Job(h)] = [state |-> "none", tries |-> 0]]
      BY <2>2 DEF Shelf!Wins, Shelf!Loses, Shelf!Finish
    <3>. QED BY <1>f, <1>g, <3>1
  <2>3. CASE Shelf!ParseFails(h) \/ Shelf!Die(h) BY <2>3, <1>a, <1>h DEF Shelf!ParseFails, Shelf!Die
  <2>4. ASSUME NEW s \in Shelf!Slots, Shelf!Take(h, s)
        PROVE  jobs' \in [Shelf!Slots -> ShelfMessage] /\ \A t \in Shelf!Slots : ShelfSpare(jobs'[t])
    <3>1. jobs[s].tries \in 0 .. ParseDeliver /\ jobs[s].tries < ParseDeliver
      BY <2>4, <1>a DEF Shelf!Take, ShelfSpare, ShelfMessage
    <3>2. [state |-> "taken", tries |-> jobs[s].tries + 1] \in ShelfMessage
          /\ ShelfSpare([state |-> "taken", tries |-> jobs[s].tries + 1])
      BY <3>1 DEF ShelfMessage, ShelfSpare, Shelf!ResumeBounds
    <3>3. \/ jobs' = [jobs EXCEPT ![s] = [state |-> "none", tries |-> 0]]
          \/ jobs' = [jobs EXCEPT ![s] = [state |-> "taken", tries |-> jobs[s].tries + 1]]
      BY <2>4 DEF Shelf!Take
    <3>. QED BY <1>f, <1>g, <3>2, <3>3
  <2>5. CASE jobs' = jobs BY <1>a, <2>5
  <2>. QED BY <1>1, <2>1, <2>2, <2>3, <2>4, <2>5
    DEF Shelf!Work, Shelf!RequestStep, Shelf!ParseStep, Shelf!Request, Shelf!Upload, Shelf!Retry, Shelf!Patch,
        Shelf!Delete, Shelf!Activate, Shelf!Select, Shelf!Hydrates, Shelf!Clears, Shelf!Selects, Shelf!Passes,
        Shelf!Creates, Shelf!Queues, Shelf!Edits, Shelf!Drops, Shelf!Marks, Shelf!Parses, Shelf!Spreads
<1>. QED BY <1>2, <1>3, <1>4, <1>5, <1>6 DEF ShelfFits

\* All together: the preference is a threshold whoever sets it.
LEMMA LimitSets == ASSUME LimitInv, prefs \in Levels, Limit!Next PROVE prefs' \in Levels
<1>1. PICK h \in Limit!Handlers :
    \/ Limit!View(h) \/ Limit!Viewed(h) \/ Limit!Got(h) \/ Limit!Updates(h) \/ Limit!Conflicts(h) \/
         Limit!Regets(h) \/ Limit!Puts(h)
    \/ Limit!Sends(h) \/ Limit!SendFails(h) \/ Limit!Applies(h) \/ Limit!ApplyFails(h) \/ Limit!Die(h)
    \/ \E level \in Tried : Limit!Patch(h, level)
    \/ \E i \in DOMAIN posts : Limit!Take(h, i)
  BY DEF Limit!Next
<1>2. CASE Limit!Applies(h)
  <2>1. prefs' = thresholdWork[h].row.level BY <1>2 DEF Limit!Applies, Limit!Prefer
  <2>2. thresholdWork[h] \in LimitJob BY DEF LimitInv
  <2>. QED BY <2>1, <2>2 DEF LimitJob, Limit!Row
<1>. QED BY <1>1, <1>2
  DEF Limit!View, Limit!Viewed, Limit!Got, Limit!Updates, Limit!Conflicts, Limit!Regets, Limit!Puts, Limit!Sends,
      Limit!SendFails, Limit!ApplyFails, Limit!Die, Limit!Patch, Limit!Take

LEMMA TuneSets == ASSUME Tunes!TuningBounds, Tunes!TypeInv, Tunes!Next PROVE prefs' = prefs \/ prefs' \in Tunes!Thresholds
<1>1. CASE Tunes!Forget \/ \E kind \in Tunes!Kinds : Tunes!Order(kind) BY <1>1 DEF Tunes!Forget, Tunes!Order
<1>2. ASSUME NEW h \in Tunes!Handlers, Tunes!Pushes(h) PROVE prefs' \in Tunes!Thresholds
  <2>1. tuneWork[h].row \in Tunes!Row BY <1>2 DEF Tunes!TypeInv, Tunes!Job
  <2>. QED BY <1>2, <2>1 DEF Tunes!Pushes, Tunes!Row
<1>3. ASSUME NEW h \in Tunes!Handlers,
             Tunes!Request(h) \/ Tunes!CountStep(h) \/ Tunes!TuneStep(h) \/ Tunes!Die(h)
             \/ Tunes!Touched(h) \/ Tunes!Chooses(h) \/ Tunes!PushFails(h)
      PROVE  prefs' = prefs
  BY <1>3 DEF Tunes!Request, Tunes!CountStep, Tunes!TuneStep, Tunes!Die, Tunes!Touched, Tunes!Chooses, Tunes!PushFails,
       Tunes!Touch, Tunes!Choose, Tunes!Poll, Tunes!Decide, Tunes!Counts, Tunes!Lists, Tunes!Keeps,
       Tunes!SkipsManual, Tunes!Resets, Tunes!Moves, Tunes!RollsBack, Tunes!Stages, Tunes!Activates, Tunes!Settles,
       Tunes!Take
<1>. QED BY <1>1, <1>2, <1>3 DEF Tunes!Next

\* What the components know of each other's types: the preference is the only place where they
\* meet.
SharedInv == Tunes!TypeInv /\ MatchFits /\ ShelfFits
LEMMA SharedInit == Init => SharedInv
<1>1. Tunes!TuningBounds BY Bounds DEF Tune!TuningBounds, Tunes!TuningBounds, Tune!Thresholds, Tunes!Thresholds
<1>2. Match!MatchBounds /\ Shelf!ResumeBounds BY Bounds
<1>. QED BY <1>1, <1>2, TunesInit, Tunes!TypeInit, MatchFitInit, ShelfFitInit DEF Init, SharedInv

LEMMA SharedStep ==
  ASSUME LimitInv, MatchTypes, ShelfTypes, ShelfTypes', SharedInv, [Next]_vars PROVE SharedInv'
<1>1. Tunes!TuningBounds BY Bounds DEF Tune!TuningBounds, Tunes!TuningBounds, Tune!Thresholds, Tunes!Thresholds
<1>2. Match!MatchBounds /\ Shelf!ResumeBounds /\ Tunes!Thresholds \subseteq Levels /\ Levels \subseteq Nat
  BY Bounds DEF Tune!Thresholds, Tunes!Thresholds, Match!MatchBounds
<1>3. Tunes!TypeInv /\ MatchFits /\ ShelfFits /\ prefs \in Levels BY DEF SharedInv, MatchFits
\* A component keeps its types while the others move, if they leave it a threshold.
<1>a. ASSUME UNCHANGED tuneOwn, prefs' \in Levels, apart' \in BOOLEAN PROVE Tunes!TypeInv'
  BY <1>2, <1>3, <1>a DEF tuneOwn, Tunes!TypeInv
<1>b. ASSUME UNCHANGED matchOwn, prefs' \in Levels PROVE MatchFits'
  BY <1>3, <1>b DEF matchOwn, MatchFits, MatchSpare, MatchRead
<1>c. UNCHANGED shelfVars => ShelfFits' BY <1>3 DEF shelfVars, ShelfFits, ShelfSpare
<1>d. apart \in BOOLEAN BY <1>3 DEF Tunes!TypeInv
<1>4. CASE Limit!Next /\ LimitFrame
  <2>1. prefs' \in Levels /\ apart' \in BOOLEAN BY <1>3, <1>4, <1>d, LimitSets DEF LimitFrame
  <2>. QED BY <1>4, <1>a, <1>b, <1>c, <2>1 DEF LimitFrame, SharedInv
<1>5. CASE Tune!Next /\ TuneFrame
  <2>1. Tunes!Next BY <1>5, TunesNext
  <2>2. Tunes!TypeInv' BY <1>1, <1>3, <2>1, Tunes!TypeStep
  <2>3. prefs' \in Levels BY <1>1, <1>2, <1>3, <2>1, TuneSets
  <2>. QED BY <1>5, <1>b, <1>c, <2>2, <2>3 DEF TuneFrame, SharedInv
<1>6. CASE Match!Next /\ MatchFrame
  <2>1. MatchFits' BY <1>2, <1>3, <1>6, MatchFitStep
  <2>2. prefs' \in Levels BY <2>1 DEF MatchFits
  <2>3. apart' \in BOOLEAN BY <1>6, <1>d DEF MatchFrame
  <2>. QED BY <1>6, <1>a, <1>c, <2>1, <2>2, <2>3 DEF MatchFrame, SharedInv
<1>7. CASE Shelf!Next /\ ShelfFrame
  <2>1. ShelfFits' BY <1>2, <1>3, <1>7, ShelfFitStep
  <2>2. UNCHANGED <<tuneOwn, matchOwn, prefs, apart>> BY <1>7 DEF ShelfFrame, sharedVars
  <2>3. prefs' \in Levels /\ apart' \in BOOLEAN BY <1>3, <1>d, <2>2
  <2>. QED BY <1>a, <1>b, <2>1, <2>2, <2>3 DEF SharedInv
<1>8. CASE UNCHANGED <<tuneOwn, sharedVars, matchOwn, shelfVars>>
  <2>1. UNCHANGED <<tuneOwn, matchOwn, shelfVars, prefs, apart>> BY <1>8 DEF sharedVars
  <2>2. prefs' \in Levels /\ apart' \in BOOLEAN BY <1>3, <1>d, <2>1
  <2>. QED BY <1>a, <1>b, <1>c, <2>1, <2>2 DEF SharedInv
<1>. QED BY <1>4, <1>5, <1>6, <1>7, <1>8 DEF Next, vars, MailFrame, TalkFrame, PairFrame

\* Everything in the workspace has its type, whatever goes on: the preference that three of its
\* parts write stays a threshold, and no message is given out more often than the host allows.
THEOREM TypeCorrect == Spec => []TypeInv
<1>1. Spec => []SharedInv
  <2>1. MatchInv => MatchTypes BY DEF MatchInv
  <2>2. ShelfInv => ShelfTypes BY DEF ShelfInv
  <2>. QED BY <2>1, <2>2, SharedInit, SharedStep, LimitAlways, MatchAlways, ShelfAlways, PTL DEF Spec
<1>2. Spec => []Inbox!TypeInv
  <2>1. Inbox!MailBounds BY Bounds DEF Mail!MailBounds, Inbox!MailBounds, Mail!IsFiniteSet, Inbox!IsFiniteSet
  <2>2. Inbox!Spec => []Inbox!TypeInv BY <2>1, Inbox!TypeCorrect
  <2>. QED BY <2>2, InboxSpec, PTL
<1>3. Spec => []Talks!TypeInv
  <2>1. Talks!Spec => []Talks!TypeInv BY TalksBounds, Talks!TypeCorrect
  <2>. QED BY <2>1, TalksSpec, PTL
<1>4. Spec => []Rows!TypeInv
  <2>1. Rows!PairingBounds BY Bounds DEF Pair!PairingBounds, Rows!PairingBounds
  <2>2. Rows!Spec => []Rows!TypeInv BY <2>1, Rows!TypeCorrect
  <2>. QED BY <2>2, RowsSpec, PTL
<1>5. Inbox!TypeInv => Mail!TypeInv
  BY DEF Inbox!TypeInv, Mail!TypeInv, Inbox!Handlers, Mail!Handlers, Inbox!Job, Mail!Job, Inbox!Status, Mail!Status
<1>6. Talks!TypeInv => Talk!TypeInv
  BY DEF Talks!TypeInv, Talk!TypeInv, Talks!Handlers, Talk!Handlers, Talks!Job, Talk!Job, Talks!Links, Talk!Links,
         Talks!Used, Talk!Used
<1>7. Rows!TypeInv => Pair!TypeInv
  BY DEF Rows!TypeInv, Pair!TypeInv, Rows!Handlers, Pair!Handlers, Rows!Job, Pair!Job, Rows!Row, Pair!Row,
         Rows!Ids, Pair!Ids, Rows!Sources, Pair!Sources, Rows!Aimed, Pair!Aimed
<1>8. Tunes!TypeInv => Tune!TypeInv
  BY DEF Tunes!TypeInv, Tune!TypeInv, Tunes!Handlers, Tune!Handlers, Tunes!Job, Tune!Job, Tunes!Row, Tune!Row,
         Tunes!Kinds, Tune!Kinds, Tunes!Thresholds, Tune!Thresholds
<1>9. ASSUME LimitInv, MatchFits PROVE Limit!TypeInv
  <2>1. /\ settings \in Limit!Row /\ posts \in Seq(LimitPost) /\ thresholdWork \in [Limit!Handlers -> LimitJob]
        /\ thresholdBudget \in Nat /\ strayed \in BOOLEAN /\ prefs \in Levels
    BY <1>9 DEF LimitInv, MatchFits
  <2>2. ASSUME NEW h \in Limit!Handlers
        PROVE  thresholdWork[h] \in
       [at: {"idle", "view", "get", "update", "put", "reget", "send", "apply"}, want: Levels,
        old: Levels, row: Limit!Row, base: Limit!Row, tries: 0 .. MaxTries, post: 0 .. Len(posts)]
    <3>1. thresholdWork[h] \in LimitJob /\ LimitServes(thresholdWork[h]) BY <1>9 DEF LimitInv
    <3>2. thresholdWork[h].post \in 0 .. Len(posts) BY <2>1, <3>1 DEF LimitServes, LimitJob
    <3>. QED BY <3>1, <3>2 DEF LimitJob
  <2>. QED BY <2>1, <2>2 DEF Limit!TypeInv, LimitPost
<1>10. ASSUME MatchInv, MatchFits PROVE Match!TypeInv
  <2>1. /\ answers \in BOOLEAN /\ slipped \in BOOLEAN /\ twice \in BOOLEAN /\ sent \in 0 .. Size
        /\ op \in [status: {"none", "queued", "running", "gone"} \cup Match!Ended, cancelled: BOOLEAN,
                   processed: Nat, results: [Match!Pairs -> {"none", "ok", "error"}]]
    BY <1>10 DEF MatchInv, MatchTypes
  <2>2. /\ cut \in BOOLEAN /\ torn \in BOOLEAN /\ prefs \in Levels /\ asking \in Seq(Levels) /\ matchBudget \in Nat
        /\ msgs \in [Match!Pairs -> MatchNote] /\ matchWork \in [Match!Workers -> Match!Job]
    BY <1>10 DEF MatchFits
  <2>. QED BY <2>1, <2>2 DEF Match!TypeInv, MatchNote
<1>11. ASSUME ShelfInv, ShelfFits PROVE Shelf!TypeInv
  <2>1. rows \in [Resumes -> Shelf!Row] /\ chosen \in [Runs -> Resumes \cup {Nobody}] /\ rivals \in BOOLEAN
    BY <1>11 DEF ShelfInv, ShelfTypes, RowsSound
  <2>. QED BY <1>11, <2>1 DEF ShelfFits, Shelf!TypeInv, ShelfMessage, ShelfJob, ShelfStages
<1>12. SharedInv /\ LimitInv /\ MatchInv /\ ShelfInv /\ Inbox!TypeInv /\ Talks!TypeInv /\ Rows!TypeInv => TypeInv
  BY <1>5, <1>6, <1>7, <1>8, <1>9, <1>10, <1>11 DEF SharedInv, TypeInv
<1>. QED BY <1>1, <1>2, <1>3, <1>4, <1>12, LimitAlways, MatchAlways, ShelfAlways, PTL
=============================================================================
