----------------------------- MODULE Workspace ------------------------------
(***************************************************************************)
(* What a user keeps beside the applications: the mailbox and one of its   *)
(* conversations, the resumes, the match threshold and its tuning, a match *)
(* operation and the rows that wait for review, served by one process. The *)
(* settings, the tuning and the operation share the preferences of         *)
(* backend/app/matching, which every store call of a scoring writes back;  *)
(* the others share the user's load only.                                  *)
(***************************************************************************)
EXTENDS Naturals, Sequences, FiniteSets

CONSTANTS
  Conns, Mails,                                                   \* Mailbox
  Keys, Postings, Unlinked,                                       \* Conversation
  Levels, Default, Tried, MaxTries,                               \* Threshold
  Lowest, Highest, Strict, Delta, MinSamples, TuneAfter, MinShown, Recs, Weeks, \* Tuning, with Default
  Size,                                                           \* MatchOps
  Resumes, Runs, Nobody, Oldest, MaxParses, ParseTries,           \* Resumes
  MaxRows,                                                        \* Pairings
  MaxDeliver, ParseDeliver,                                       \* maxDequeueCount of the host
  MaxHandlers,                                                    \* bound: handlers at a time
  MaxEvents,                                                      \* bound: events that a component meets
  Loads                                                           \* bound: how they may be shared out

LoadsAreCounts ==
  Loads \subseteq
    [{"mail", "talk", "threshold", "tuning", "match", "resumes", "review"} -> 0 .. MaxEvents]

VARIABLES
  load,                                                           \* bound: the events of each component
  conns, age, sessions, sub, cursor, junk, filed, thread, notes, mailWork,
  hooked, inbox, mailBudget, wanted, tainted, mailTorn,           \* Mailbox
  used, replies, link, talkWork, talkBudget, mails, pardoned, refused, picked, unseen, \* Conversation
  settings, prefs, posts, thresholdWork, thresholdBudget, strayed, \* Threshold
  params, decided, clock, week, tasks, tuneWork, tuneBudget, choice, undone, apart, \* Tuning, with prefs
  asking, op, sent, cut, msgs, matchWork, matchBudget, answers, slipped, torn, twice, \* MatchOps, with prefs
  rows, chosen, jobs, resumeWork, resumeBudget, crossed, abandoned, rivals, \* Resumes
  matches, reviewWork, reviewBudget, raced, overtaken, standing \* Pairings

Mail == INSTANCE Mailbox WITH work <- mailWork, budget <- mailBudget, torn <- mailTorn
Talk == INSTANCE Conversation WITH work <- talkWork, budget <- talkBudget, strayed <- unseen
Limit == INSTANCE Threshold WITH work <- thresholdWork, budget <- thresholdBudget
Tune == INSTANCE Tuning WITH
          work <- tuneWork, budget <- tuneBudget, chosen <- choice, crossed <- undone
\* _options and the stores of Learning meet here.
Overlay == IF params.source = "personalized" THEN params.level ELSE 0
Match == INSTANCE MatchOps WITH
           overlay <- Overlay, work <- matchWork, budget <- matchBudget, MaxWorkers <- MaxHandlers
Shelf == INSTANCE Resumes WITH
           work <- resumeWork, budget <- resumeBudget, MaxDeliver <- ParseDeliver
Pair == INSTANCE Pairings WITH work <- reviewWork, budget <- reviewBudget

ASSUME Bounds ==
  /\ LoadsAreCounts /\ Mail!MailBounds /\ Talk!ConversationBounds
  /\ Limit!ThresholdBounds /\ Tune!TuningBounds /\ Tune!Thresholds \subseteq Levels
  /\ Match!MatchBounds /\ Shelf!ResumeBounds /\ Pair!PairingBounds

mailVars == <<conns, age, sessions, sub, cursor, junk, filed, thread, notes, mailWork,
              hooked, inbox, mailBudget, wanted, tainted, mailTorn>>
matchOwn == <<asking, op, sent, cut, msgs, matchWork, matchBudget, answers, slipped, torn, twice>>
talkVars == <<used, replies, link, talkWork, talkBudget, mails, pardoned, refused, picked, unseen>>
limitOwn == <<settings, posts, thresholdWork, thresholdBudget>>
tuneOwn == <<params, decided, clock, week, tasks, tuneWork, tuneBudget, choice, undone>>
sharedVars == <<prefs, strayed, apart>>
shelfVars == <<rows, chosen, jobs, resumeWork, resumeBudget, crossed, abandoned, rivals>>
pairVars == <<matches, reviewWork, reviewBudget, raced, overtaken, standing>>

-----------------------------------------------------------------------------
\* A component without load starts empty.
Init ==
  /\ load \in Loads
  /\ mailBudget = load.mail /\ talkBudget = load.talk /\ thresholdBudget = load.threshold
  /\ tuneBudget = load.tuning /\ matchBudget = load.match /\ resumeBudget = load.resumes
  /\ reviewBudget = load.review
  /\ Mail!Init /\ Talk!Init /\ Limit!Init /\ Tune!Init /\ Match!Init /\ Shelf!Init /\ Pair!Init
  /\ mailBudget = 0 => Mail!Rows = {}
  /\ tuneBudget = 0 => Tune!Decided = {} /\ week = CHOOSE w \in Weeks : TRUE
  /\ resumeBudget = 0 => Shelf!Busy = {} /\ \A r \in Resumes : ~rows[r].active
  /\ reviewBudget = 0 => ~raced

MailFrame ==
  UNCHANGED <<talkVars, limitOwn, tuneOwn, sharedVars, matchOwn, shelfVars, pairVars>>
TalkFrame ==
  UNCHANGED <<mailVars, limitOwn, tuneOwn, sharedVars, matchOwn, shelfVars, pairVars>>
\* The settings and the tuning do not tell each other what they set the preference to.
LimitFrame ==
  /\ apart' = (apart \/ prefs' # prefs)
  /\ UNCHANGED <<mailVars, talkVars, tuneOwn, matchOwn, shelfVars, pairVars>>
TuneFrame ==
  /\ strayed' = (strayed \/ prefs' # prefs)
  /\ UNCHANGED <<mailVars, talkVars, limitOwn, matchOwn, shelfVars, pairVars>>
\* The preferences that a request or a scoring writes back may be older than an update.
MatchFrame ==
  /\ strayed' = (strayed \/ prefs' # prefs) /\ apart' = (apart \/ prefs' # prefs)
  /\ UNCHANGED <<mailVars, talkVars, limitOwn, tuneOwn, shelfVars, pairVars>>
ShelfFrame ==
  UNCHANGED <<mailVars, talkVars, limitOwn, tuneOwn, sharedVars, matchOwn, pairVars>>
PairFrame ==
  UNCHANGED <<mailVars, talkVars, limitOwn, tuneOwn, sharedVars, matchOwn, shelfVars>>
\* A component that starts empty and meets no event has nothing to do.
Loaded(part) == load[part] > 0 /\ UNCHANGED load
Next ==
  \/ Loaded("mail") /\ Mail!Next /\ MailFrame
  \/ Loaded("talk") /\ Talk!Next /\ TalkFrame
  \/ Loaded("threshold") /\ Limit!Next /\ LimitFrame
  \/ Loaded("tuning") /\ Tune!Next /\ TuneFrame
  \/ Loaded("match") /\ Match!Next /\ MatchFrame
  \/ Loaded("resumes") /\ Shelf!Next /\ ShelfFrame
  \/ Loaded("review") /\ Pair!Next /\ PairFrame

vars == <<load, mailVars, talkVars, limitOwn, tuneOwn, sharedVars, matchOwn, shelfVars, pairVars>>
Spec == Init /\ [][Next]_vars
\* The host works while there is something to do.
Serve ==
  \/ Loaded("mail") /\ MailFrame /\ \E h \in 1 .. MaxHandlers : Mail!Work(h)
  \/ Loaded("resumes") /\ ShelfFrame /\ \E h \in 1 .. MaxHandlers : Shelf!Work(h)
  \/ Loaded("review") /\ PairFrame /\ \E h \in 1 .. MaxHandlers : Pair!Work(h)
  \/ Loaded("match") /\ Match!Work /\ MatchFrame
FairSpec == Spec /\ WF_vars(Serve)

-----------------------------------------------------------------------------
TypeInv ==
  /\ Mail!TypeInv /\ Talk!TypeInv /\ Limit!TypeInv /\ Tune!TypeInv
  /\ Match!TypeInv /\ Shelf!TypeInv /\ Pair!TypeInv

\* The properties of the components, which hold whatever the others do.
DisconnectHolds == Mail!DisconnectHolds
OnlyTornMailIsLost == Mail!OnlyTornMailIsLost
MailArrives == Mail!MailArrives
OperationIsHonest == Match!CompletedIsWhole /\ Match!CancelHolds
OperationEnds == Match!OperationEnds
SelectionsHold == Shelf!SelectionsHold
ParseEnds == Shelf!ParseEnds
PairingHolds == Pair!PairingHolds

\* One idempotency key sends one mail, and a conversation stays with the posting of the user,
\* but for the known reasons.
RepliesHold == Talk!RepliesHold
LinkHolds == Talk!LinkHolds

\* The threshold of the settings and the preference agree once the settings are quiet, unless
\* one of the known reasons parted them: those of Threshold, a tuning, and a request or a
\* scoring that wrote preferences back which it had read before an update. If the tuning is
\* quiet too, scoring uses that threshold, unless the settings or a personalized threshold of
\* Learning parted from the preference.
Scored == Match!ThresholdUsed(prefs)
ThresholdAgrees ==
  /\ Limit!ThresholdAgrees
  /\ Limit!Quiet /\ Tune!Quiet => Scored = settings.level \/ strayed \/ (apart /\ Overlay # 0)

\* What docs/prd/matching-ranking.md:139 says: a scoring uses the preference. Once the settings
\* and the tuning are quiet and the preference is the threshold of the settings, it is the one
\* that scoring uses.
PreferenceGoverns ==
  Limit!Quiet /\ Tune!Quiet /\ prefs = settings.level => Scored = settings.level

\* The user's choice of a mode outlives every tuning, scoring follows the tuned threshold and
\* a tuning stays within its bounds, but for the known reasons.
TuningHolds == Tune!TuningHolds
=============================================================================
