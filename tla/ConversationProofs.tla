-------------------------- MODULE ConversationProofs ------------------------
(***************************************************************************)
(* What Conversation promises, for any number of keys, postings, handlers  *)
(* and events.                                                             *)
(***************************************************************************)
EXTENDS Conversation, FiniteSetTheorems, TLAPS

LEMMA JobsStart == Idle \in Job
BY DEF Idle, Job, Links, Used

LEMMA TypeInit == ASSUME ConversationBounds, Init PROVE TypeInv
<1>1. None \in [Keys -> Nat] BY DEF None
<1>2. used \in Used BY DEF Init, Used
<1>3. work \in [Handlers -> Job] BY JobsStart DEF Init
<1>4. budget \in Nat BY DEF Init, ConversationBounds
<1>5. {replies, mails, pardoned, refused} \subseteq [Keys -> Nat] BY <1>1 DEF Init
<1>. QED BY <1>2, <1>3, <1>4, <1>5 DEF Init, TypeInv, Links

\* A filing that has looked at the link of the conversation takes no other posting for it.
LEMMA Arrivals ==
  ASSUME NEW h, link \in Links, Arrive(h)
  PROVE  \E to \in Links, saw \in SUBSET Links :
           /\ Begin(h, Judged(to, saw))
           /\ to # Unlinked => \A seen \in saw : seen \in {Unlinked, to}
<1>1. CASE \E to \in Decisions(link) : Begin(h, Judged(to, {link}))
  <2>1. PICK to \in Decisions(link) : Begin(h, Judged(to, {link})) BY <1>1
  <2>2. to \in Links /\ (to # Unlinked => link \in {Unlinked, to}) BY DEF Decisions, Links
  <2>3. {link} \in SUBSET Links OBVIOUS
  <2>. QED BY <2>1, <2>2, <2>3
<1>2. CASE \E to \in Links : Begin(h, Judged(to, {}))
  <2>1. {} \in SUBSET Links OBVIOUS
  <2>. QED BY <1>2, <2>1
<1>. QED BY <1>1, <1>2 DEF Arrive

\* Types are kept by every step.
LEMMA TypeStep == ASSUME TypeInv, [Next]_conversationVars PROVE TypeInv'
<1>. USE DEF TypeInv, history
<1>1. CASE UNCHANGED conversationVars BY <1>1 DEF conversationVars
<1>2. CASE \E k \in Keys : Age(k)
  <2>1. PICK k \in Keys : Age(k) BY <1>2
  <2>2. pardoned' \in [Keys -> Nat] BY <2>1 DEF Age, More
  <2>3. used' \in Used /\ budget' \in Nat BY <2>1 DEF Age, Event, Used
  <2>. QED BY <2>1, <2>2, <2>3 DEF Age
<1>3. ASSUME NEW h \in Handlers,
             ReplyStep(h) \/ LinkStep(h) \/ Die(h) \/ Arrive(h) \/ Touch(h) \/ Touched(h)
             \/ (\E k \in Keys : Reply(h, k)) \/ (\E to \in Links : Pick(h, to))
      PROVE TypeInv'
  <2>a. work[h] \in Job /\ Idle \in Job BY JobsStart
  <2>b. \A job \in Job : work' = [work EXCEPT ![h] = job] => work' \in [Handlers -> Job] OBVIOUS
  <2>c. Leave(h) => work' \in [Handlers -> Job] BY <2>a, <2>b DEF Leave
  <2>d. \A at \in {"reply", "key", "mail"} : Goto(h, at) => work' \in [Handlers -> Job]
    <3>1. SUFFICES ASSUME NEW at \in {"reply", "key", "mail"}, Goto(h, at) PROVE work' \in [Handlers -> Job]
      OBVIOUS
    <3>2. [work[h] EXCEPT !.at = at] \in Job BY <2>a DEF Job
    <3>. QED BY <3>1, <3>2, <2>b DEF Goto
  <2>e. \A at \in {"replyPut", "keyPut", "linkPut", "attachPut", "mailPut"} :
          Hydrates(h, at) => work' \in [Handlers -> Job]
    <3>1. SUFFICES ASSUME NEW at \in {"replyPut", "keyPut", "linkPut", "attachPut", "mailPut"}, Hydrates(h, at)
                   PROVE  work' \in [Handlers -> Job]
      OBVIOUS
    <3>2. [work[h] EXCEPT !.at = at, !.link = link, !.used = used] \in Job BY <2>a DEF Job
    <3>3. work' = [work EXCEPT ![h] = [work[h] EXCEPT !.at = at, !.link = link, !.used = used]]
      BY <3>1 DEF Hydrates
    <3>. QED BY <3>2, <3>3, <2>b
  <2>f. \A counts \in [Keys -> Nat], keys \in SUBSET Keys : More(counts, keys) \in [Keys -> Nat] BY DEF More
  <2>g. work[h].key \in SUBSET Keys /\ work[h].used \in Used /\ work[h].link \in Links /\ work[h].want \in Links
    BY <2>a DEF Job
  <2>j. Undone(h) \in SUBSET Keys BY DEF Undone
  <2>l. Upserted(h) \in Used BY <2>g DEF Upserted, Used
  <2>h. PutBack(h) => used' \in Used /\ link' \in Links /\ pardoned' \in [Keys -> Nat] /\ strayed' \in BOOLEAN
    BY <2>f, <2>g, <2>j, <2>l DEF PutBack
  <2>i. Pardon(h) => pardoned' \in [Keys -> Nat] BY <2>f, <2>g DEF Pardon
  <2>k. Event => budget' \in Nat BY DEF Event
  <2>1. CASE \E k \in Keys : Reply(h, k)
    <3>1. PICK k \in Keys : Reply(h, k) BY <2>1
    <3>2. [Idle EXCEPT !.at = "post", !.key = {k}] \in Job BY <2>a DEF Job
    <3>. QED BY <3>1, <3>2, <2>b, <2>f, <2>k DEF Reply, Begin
  <2>2. CASE Posts(h) BY <2>2, <2>d, <2>f, <2>g DEF Posts
  <2>3. CASE PostRefused(h) BY <2>3, <2>d, <2>f, <2>g, <2>k DEF PostRefused
  <2>4. CASE PostRaises(h) BY <2>4, <2>c, <2>f, <2>g, <2>i, <2>k DEF PostRaises
  <2>5. CASE Storing(h) \/ Remembering(h) \/ Picking(h) \/ Attaching(h) \/ Filing(h)
    BY <2>5, <2>e DEF Storing, Remembering, Picking, Attaching, Filing
  <2>6. CASE Stores(h) BY <2>6, <2>d, <2>f, <2>g, <2>h DEF Stores
  <2>7. CASE Remembers(h)
    <3>1. used' \in Used BY <2>7, <2>l DEF Remembers, Used
    <3>2. pardoned' \in [Keys -> Nat] BY <2>7, <2>f, <2>j DEF Remembers
    <3>. QED BY <2>7, <3>1, <3>2, <2>c, <2>g DEF Remembers
  <2>8. CASE \E to \in Links : Pick(h, to)
    <3>1. PICK to \in Links : Pick(h, to) BY <2>8
    <3>2. [Idle EXCEPT !.at = "link", !.want = to] \in Job BY <2>a DEF Job
    <3>. QED BY <3>1, <3>2, <2>b, <2>k DEF Pick, Begin
  <2>9. CASE Picks(h) BY <2>9, <2>c, <2>f, <2>g, <2>j, <2>l DEF Picks
  <2>10. CASE Arrive(h)
    <3>1. PICK to \in Links, saw \in SUBSET Links : Begin(h, Judged(to, saw))
      BY <2>10, Arrivals DEF TypeInv
    <3>3. Judged(to, saw) \in Job BY <2>a DEF Judged, Job
    <3>. QED BY <2>10, <3>1, <3>3, <2>b, <2>k DEF Arrive, Begin
  <2>11. CASE Attaches(h) BY <2>11, <2>d, <2>f, <2>g, <2>j, <2>l DEF Attaches
  <2>12. CASE Files(h) \/ Touched(h) BY <2>12, <2>c, <2>h DEF Files, Touched
  <2>13. CASE Touch(h)
    <3>1. [Idle EXCEPT !.at = "touch", !.link = link, !.used = used] \in Job BY <2>a DEF Job
    <3>. QED BY <2>13, <3>1, <2>b, <2>k DEF Touch
  <2>14. CASE Die(h) BY <2>14, <2>c, <2>i, <2>k DEF Die
  <2>. QED BY <1>3, <2>1, <2>2, <2>3, <2>4, <2>5, <2>6, <2>7, <2>8, <2>9, <2>10, <2>11, <2>12, <2>13, <2>14
          DEF ReplyStep, LinkStep
<1>. QED BY <1>1, <1>2, <1>3 DEF Next

-----------------------------------------------------------------------------
\* A filing that is about to write the link saw no other posting.
Faithful ==
  \A h \in Handlers : At(h, "attach") \/ At(h, "attachPut") =>
    /\ work[h].want # Unlinked
    /\ \A seen \in work[h].saw : seen \in {Unlinked, work[h].want}
LinkInv == TypeInv /\ Faithful /\ LinkHolds

LEMMA LinkInit == ASSUME ConversationBounds, Init PROVE LinkInv
BY TypeInit DEF Init, LinkInv, Faithful, LinkHolds, At, Idle

LEMMA LinkStepKept == ASSUME LinkInv, [Next]_conversationVars PROVE LinkInv'
<1>. USE DEF history
<1>0. TypeInv /\ TypeInv' /\ Faithful /\ LinkHolds /\ work \in [Handlers -> Job] BY TypeStep DEF LinkInv, TypeInv
<1>1. CASE UNCHANGED conversationVars
  BY <1>0, <1>1 DEF conversationVars, LinkInv, Faithful, LinkHolds, At
<1>2. CASE \E k \in Keys : Age(k)
  BY <1>0, <1>2 DEF Age, LinkInv, Faithful, LinkHolds, At
<1>3. ASSUME NEW h \in Handlers,
             ReplyStep(h) \/ LinkStep(h) \/ Die(h) \/ Arrive(h) \/ Touch(h) \/ Touched(h)
             \/ (\E k \in Keys : Reply(h, k)) \/ (\E to \in Links : Pick(h, to))
      PROVE LinkInv'
  <2>a. ASSUME NEW job, work' = [work EXCEPT ![h] = job],
               job.at \in {"attach", "attachPut"} =>
                 job.want # Unlinked /\ \A seen \in job.saw : seen \in {Unlinked, job.want}
        PROVE Faithful'
    BY <1>0, <2>a DEF Faithful, At
  <2>b. Leave(h) => Faithful' BY <2>a DEF Leave, Idle
  <2>c. \A at \in {"reply", "key", "mail"} : Goto(h, at) => Faithful'
    <3>1. SUFFICES ASSUME NEW at \in {"reply", "key", "mail"}, Goto(h, at) PROVE Faithful' OBVIOUS
    <3>2. [work[h] EXCEPT !.at = at].at = at BY <1>0 DEF Job
    <3>. QED BY <3>1, <3>2, <2>a DEF Goto
  <2>d. PutBack(h) /\ UNCHANGED picked => LinkHolds' BY <1>0 DEF PutBack, LinkHolds
  <2>1. CASE \E k \in Keys : Reply(h, k)
    <3>1. PICK k \in Keys : Reply(h, k) BY <2>1
    <3>2. [Idle EXCEPT !.at = "post", !.key = {k}].at = "post" BY DEF Idle
    <3>. QED BY <1>0, <3>1, <3>2, <2>a DEF Reply, Begin, LinkInv, LinkHolds
  <2>2. CASE Posts(h) \/ PostRefused(h) BY <1>0, <2>2, <2>c DEF Posts, PostRefused, LinkInv, LinkHolds
  <2>3. CASE PostRaises(h) BY <1>0, <2>3, <2>b DEF PostRaises, Pardon, LinkInv, LinkHolds
  <2>4. CASE Storing(h) \/ Remembering(h) \/ Picking(h) \/ Attaching(h) \/ Filing(h)
    <3>1. PICK at \in {"replyPut", "keyPut", "linkPut", "attachPut", "mailPut"} :
            Hydrates(h, at) /\ (at = "attachPut" => At(h, "attach"))
      BY <2>4 DEF Storing, Remembering, Picking, Attaching, Filing
    <3>2. /\ [work[h] EXCEPT !.at = at, !.link = link, !.used = used].at = at
          /\ [work[h] EXCEPT !.at = at, !.link = link, !.used = used].want = work[h].want
          /\ [work[h] EXCEPT !.at = at, !.link = link, !.used = used].saw = work[h].saw
      BY <1>0 DEF Job
    <3>4. at = "attachPut" => work[h].want # Unlinked /\ \A seen \in work[h].saw : seen \in {Unlinked, work[h].want}
      BY <1>0, <3>1 DEF Faithful
    <3>3. Faithful' BY <3>1, <3>2, <3>4, <2>a DEF Hydrates
    <3>. QED BY <1>0, <2>4, <3>3 DEF Storing, Remembering, Picking, Attaching, Filing, LinkInv, LinkHolds
  <2>5. CASE Stores(h) BY <1>0, <2>5, <2>c, <2>d DEF Stores, LinkInv
  <2>6. CASE Remembers(h) BY <1>0, <2>6, <2>b DEF Remembers, LinkInv, LinkHolds
  <2>7. CASE \E to \in Links : Pick(h, to)
    <3>1. PICK to \in Links : Pick(h, to) BY <2>7
    <3>2. [Idle EXCEPT !.at = "link", !.want = to].at = "link" BY DEF Idle
    <3>. QED BY <1>0, <3>1, <3>2, <2>a DEF Pick, Begin, LinkInv, LinkHolds
  <2>8. CASE Picks(h) BY <1>0, <2>8, <2>b DEF Picks, LinkInv, LinkHolds
  <2>9. CASE Arrive(h)
    <3>1. PICK to \in Links, saw \in SUBSET Links :
            /\ Begin(h, Judged(to, saw))
            /\ to # Unlinked => \A seen \in saw : seen \in {Unlinked, to}
      BY <1>0, <2>9, Arrivals DEF TypeInv
    <3>. DEFINE job == Judged(to, saw)
    <3>3. job.at = (IF to = Unlinked THEN "mail" ELSE "attach") /\ job.want = to /\ job.saw = saw
      BY DEF Judged, Idle
    <3>4. work' = [work EXCEPT ![h] = job] BY <3>1 DEF Begin
    <3>. HIDE DEF job
    <3>5. Faithful' BY <3>1, <3>3, <3>4, <2>a
    <3>. QED BY <1>0, <2>9, <3>5 DEF Arrive, LinkInv, LinkHolds
  <2>10. CASE Attaches(h)
    <3>1. work[h].want # Unlinked /\ \A seen \in work[h].saw : seen \in {Unlinked, work[h].want}
      BY <1>0, <2>10 DEF Attaches, Faithful
    <3>2. LinkHolds' BY <1>0, <2>10, <3>1 DEF Attaches, LinkHolds
    <3>. QED BY <1>0, <2>10, <3>2, <2>c DEF Attaches, LinkInv
  <2>11. CASE Files(h) \/ Touched(h) BY <1>0, <2>11, <2>b, <2>d DEF Files, Touched, LinkInv
  <2>12. CASE Touch(h)
    <3>1. [Idle EXCEPT !.at = "touch", !.link = link, !.used = used].at = "touch" BY DEF Idle
    <3>. QED BY <1>0, <2>12, <3>1, <2>a DEF Touch, LinkInv, LinkHolds
  <2>13. CASE Die(h) BY <1>0, <2>13, <2>b DEF Die, Pardon, LinkInv, LinkHolds
  <2>. QED BY <1>3, <2>1, <2>2, <2>3, <2>4, <2>5, <2>6, <2>7, <2>8, <2>9, <2>10, <2>11, <2>12, <2>13
          DEF ReplyStep, LinkStep
<1>. QED BY <1>1, <1>2, <1>3 DEF Next

\* The conversation stays with the posting that the user linked, unless who had not seen that
\* link replaced it.
THEOREM LinksHold == ASSUME ConversationBounds PROVE Spec => []LinkHolds
<1>1. LinkInv => LinkHolds BY DEF LinkInv
<1>. QED BY LinkInit, LinkStepKept, <1>1, PTL DEF Spec

-----------------------------------------------------------------------------
\* The handlers that hold a key in one of some places, and how many they are.
Holding(k, places) == {h \in Handlers : k \in work[h].key /\ work[h].at \in places}
Posting(k) == Cardinality(Holding(k, {"post"}))
Unstored(k) == Cardinality(Holding(k, {"reply", "replyPut"}))
Replying == {"post", "reply", "replyPut", "key", "keyPut"}

\* Only a reply holds a key; a key is stored, or about to be, after its reply is.
KeysInv ==
  \A h \in Handlers :
    /\ work[h].key # {} => work[h].at \in Replying
    /\ \A k \in Keys : \/ work[h].used[k] # "none"
                       \/ k \in work[h].key /\ work[h].at \in {"key", "keyPut"}
                       => replies[k] > 0
\* Every mail but the first is pardoned, and one more while the key is free.
CountsInv ==
  \A k \in Keys :
    /\ used[k] # "none" => replies[k] > 0
    /\ replies[k] + Unstored(k) <= mails[k] + refused[k]
    /\ mails[k] + Posting(k) <= pardoned[k] + IF Taken(k) \/ TakenNow(k) THEN 1 ELSE 0
RepliesInv == TypeInv /\ KeysInv /\ CountsInv

LEMMA HoldingFinite ==
  ASSUME ConversationBounds, NEW k, NEW places
  PROVE  IsFiniteSet(Holding(k, places)) /\ Cardinality(Holding(k, places)) \in Nat
<1>1. IsFiniteSet(Handlers) BY FS_Interval DEF Handlers, ConversationBounds
<1>2. Holding(k, places) \subseteq Handlers BY DEF Holding
<1>. QED BY <1>1, <1>2, FS_Subset, FS_CardinalityType

\* What one handler's step does to the number of those that hold a key.
Bit(condition) == IF condition THEN 1 ELSE 0
LEMMA HoldingStep ==
  ASSUME ConversationBounds, NEW k, NEW places, NEW h \in Handlers, NEW job,
         work \in [Handlers -> Job], work' = [work EXCEPT ![h] = job]
  PROVE  /\ Cardinality(Holding(k, places)) \in Nat /\ Cardinality(Holding(k, places)') \in Nat
         /\ Cardinality(Holding(k, places)') + Bit(k \in work[h].key /\ work[h].at \in places)
            = Cardinality(Holding(k, places)) + Bit(k \in job.key /\ job.at \in places)
<1>. DEFINE Others == {g \in Handlers \ {h} : k \in work[g].key /\ work[g].at \in places}
<1>1. IsFiniteSet(Holding(k, places)) BY HoldingFinite
<1>2. Others \subseteq Holding(k, places) BY DEF Holding
<1>3. IsFiniteSet(Others) /\ Cardinality(Others) \in Nat BY <1>1, <1>2, FS_Subset, FS_CardinalityType
<1>4. h \notin Others OBVIOUS
<1>5. Cardinality(Others \cup {h}) = Cardinality(Others) + 1 BY <1>3, <1>4, FS_AddElement
<1>6. Cardinality(Holding(k, places)) = Cardinality(Others) + Bit(k \in work[h].key /\ work[h].at \in places)
  <2>1. CASE k \in work[h].key /\ work[h].at \in places
    <3>1. Holding(k, places) = Others \cup {h} BY <2>1 DEF Holding
    <3>. QED BY <2>1, <3>1, <1>5 DEF Bit
  <2>2. CASE ~(k \in work[h].key /\ work[h].at \in places)
    <3>1. Holding(k, places) = Others BY <2>2 DEF Holding
    <3>. QED BY <2>2, <3>1, <1>3 DEF Bit
  <2>. QED BY <2>1, <2>2
<1>7. work'[h] = job /\ \A g \in Handlers \ {h} : work'[g] = work[g] OBVIOUS
<1>8. Cardinality(Holding(k, places)') = Cardinality(Others) + Bit(k \in job.key /\ job.at \in places)
  <2>1. CASE k \in job.key /\ job.at \in places
    <3>1. Holding(k, places)' = Others \cup {h} BY <2>1, <1>7 DEF Holding
    <3>. QED BY <2>1, <3>1, <1>5 DEF Bit
  <2>2. CASE ~(k \in job.key /\ job.at \in places)
    <3>1. Holding(k, places)' = Others BY <2>2, <1>7 DEF Holding
    <3>. QED BY <2>2, <3>1, <1>3 DEF Bit
  <2>. QED BY <2>1, <2>2
<1>. QED BY <1>3, <1>6, <1>8 DEF Bit

LEMMA RepliesInit == ASSUME ConversationBounds, Init PROVE RepliesInv
<1>1. TypeInv BY TypeInit
<1>2. \A k \in Keys : \A places : Holding(k, places) = {} BY DEF Init, Holding, Idle
<1>3. \A k \in Keys : Posting(k) = 0 /\ Unstored(k) = 0 BY <1>2, FS_EmptySet DEF Posting, Unstored
<1>4. \A k \in Keys : /\ used[k] = "none" /\ replies[k] = 0
                     /\ mails[k] = 0 /\ pardoned[k] = 0 /\ refused[k] = 0
  BY DEF Init, None
<1>6. CountsInv
  <2>1. SUFFICES ASSUME NEW k \in Keys
                 PROVE  /\ used[k] # "none" => replies[k] > 0
                        /\ replies[k] + Unstored(k) <= mails[k] + refused[k]
                        /\ mails[k] + Posting(k) <= pardoned[k] + IF Taken(k) \/ TakenNow(k) THEN 1 ELSE 0
    BY DEF CountsInv
  <2>2. Posting(k) = 0 /\ Unstored(k) = 0 BY <1>3
  <2>. QED BY <1>4, <2>2
<1>5. KeysInv BY DEF KeysInv, Init, Idle
<1>. QED BY <1>1, <1>5, <1>6 DEF RepliesInv

\* What a step owes to the counts when it makes `job' the work of h.
Moved(h, job) ==
  /\ work' = [work EXCEPT ![h] = job]
  /\ job.key # {} => job.at \in Replying
  /\ \A k \in Keys :
       /\ replies'[k] >= replies[k]
       /\ \/ used'[k] # "none" \/ job.used[k] # "none"
          \/ k \in job.key /\ job.at \in {"key", "keyPut"}
          => replies'[k] > 0
       /\ replies'[k] + Bit(k \in job.key /\ job.at \in {"reply", "replyPut"}) + mails[k] + refused[k]
          <= replies[k] + Bit(k \in work[h].key /\ work[h].at \in {"reply", "replyPut"}) + mails'[k] + refused'[k]
       /\ LET other == \E g \in Handlers \ {h} : k \in work[g].key
          IN mails'[k] + Bit(k \in job.key /\ job.at \in {"post"})
               + pardoned[k] + Bit(used[k] = "live" \/ k \in work[h].key \/ other)
             <= mails[k] + Bit(k \in work[h].key /\ work[h].at \in {"post"})
               + pardoned'[k] + Bit(used'[k] = "live" \/ k \in job.key \/ other)

LEMMA MovedKeeps ==
  ASSUME ConversationBounds, RepliesInv, TypeInv', NEW h \in Handlers, NEW job, Moved(h, job)
  PROVE  RepliesInv'
<1>0. work \in [Handlers -> Job] BY DEF RepliesInv, TypeInv
<1>1. work' = [work EXCEPT ![h] = job] BY DEF Moved
<1>2. work'[h] = job /\ \A g \in Handlers \ {h} : work'[g] = work[g] BY <1>0, <1>1
<1>3. \A k \in Keys : replies[k] \in Nat /\ replies'[k] \in Nat BY DEF RepliesInv, TypeInv
<1>4. KeysInv' BY <1>2, <1>3 DEF Moved, RepliesInv, KeysInv
<1>5. CountsInv'
  <2>1. SUFFICES ASSUME NEW k \in Keys
                 PROVE  /\ used'[k] # "none" => replies'[k] > 0
                        /\ replies'[k] + Unstored(k)' <= mails'[k] + refused'[k]
                        /\ mails'[k] + Posting(k)' <= pardoned'[k] + IF Taken(k)' \/ TakenNow(k)' THEN 1 ELSE 0
    BY DEF CountsInv
  <2>2. /\ replies[k] \in Nat /\ mails[k] \in Nat /\ refused[k] \in Nat /\ pardoned[k] \in Nat
        /\ replies'[k] \in Nat /\ mails'[k] \in Nat /\ refused'[k] \in Nat /\ pardoned'[k] \in Nat
    BY DEF RepliesInv, TypeInv
  <2>3. /\ Unstored(k) \in Nat /\ Unstored(k)' \in Nat
        /\ Unstored(k)' + Bit(k \in work[h].key /\ work[h].at \in {"reply", "replyPut"})
           = Unstored(k) + Bit(k \in job.key /\ job.at \in {"reply", "replyPut"})
    BY <1>0, <1>1, HoldingStep DEF Unstored
  <2>4. /\ Posting(k) \in Nat /\ Posting(k)' \in Nat
        /\ Posting(k)' + Bit(k \in work[h].key /\ work[h].at \in {"post"})
           = Posting(k) + Bit(k \in job.key /\ job.at \in {"post"})
    BY <1>0, <1>1, HoldingStep DEF Posting
  <2>. DEFINE other == \E g \in Handlers \ {h} : k \in work[g].key
  <2>5. (TakenNow(k) <=> k \in work[h].key \/ other) /\ (TakenNow(k)' <=> k \in job.key \/ other)
    BY <1>2 DEF TakenNow
  <2>6. /\ Bit(k \in work[h].key /\ work[h].at \in {"reply", "replyPut"}) \in Nat
        /\ Bit(k \in job.key /\ job.at \in {"reply", "replyPut"}) \in Nat
        /\ Bit(k \in work[h].key /\ work[h].at \in {"post"}) \in Nat
        /\ Bit(k \in job.key /\ job.at \in {"post"}) \in Nat
        /\ Bit(used[k] = "live" \/ k \in work[h].key \/ other) \in Nat
        /\ Bit(used'[k] = "live" \/ k \in job.key \/ other) \in Nat
    BY DEF Bit
  <2>7. replies[k] + Unstored(k) <= mails[k] + refused[k] BY DEF RepliesInv, CountsInv
  <2>8. replies'[k] + Unstored(k)' <= mails'[k] + refused'[k] BY <2>2, <2>3, <2>6, <2>7 DEF Moved
  <2>9. mails[k] + Posting(k) <= pardoned[k] + Bit(used[k] = "live" \/ k \in work[h].key \/ other)
    BY <2>5 DEF RepliesInv, CountsInv, Taken, Bit
  <2>10. mails'[k] + Posting(k)' <= pardoned'[k] + Bit(used'[k] = "live" \/ k \in job.key \/ other)
    BY <2>2, <2>4, <2>6, <2>9 DEF Moved
  <2>. QED BY <2>5, <2>8, <2>10 DEF Moved, Taken, Bit
<1>. QED BY <1>4, <1>5 DEF RepliesInv

\* The replies stay accounted for, whatever a handler does.
LEMMA RepliesStep == ASSUME ConversationBounds, RepliesInv, [Next]_conversationVars PROVE RepliesInv'
<1>. USE DEF history
<1>0. /\ TypeInv /\ TypeInv' /\ KeysInv /\ CountsInv
      /\ work \in [Handlers -> Job] /\ work' \in [Handlers -> Job]
  BY TypeStep DEF RepliesInv, TypeInv
<1>t. \A k \in Keys : /\ replies[k] \in Nat /\ mails[k] \in Nat /\ refused[k] \in Nat /\ pardoned[k] \in Nat
                     /\ used[k] \in {"none", "live", "old"}
  BY <1>0 DEF TypeInv, Used
<1>m. \A counts \in [Keys -> Nat], keys \in SUBSET Keys, k \in Keys :
        More(counts, keys)[k] = counts[k] + Bit(k \in keys)
  BY DEF More, Bit
<1>n. {replies, mails, refused, pardoned} \subseteq [Keys -> Nat] BY <1>0 DEF TypeInv
<1>1. CASE UNCHANGED conversationVars
  <2>1. \A k \in Keys : /\ Posting(k)' = Posting(k) /\ Unstored(k)' = Unstored(k)
                       /\ Taken(k)' = Taken(k) /\ TakenNow(k)' = TakenNow(k)
    BY <1>1 DEF conversationVars, Posting, Unstored, Holding, Taken, TakenNow
  <2>2. CountsInv' BY <1>0, <1>1, <2>1 DEF CountsInv, conversationVars
  <2>3. KeysInv' BY <1>0, <1>1 DEF KeysInv, conversationVars
  <2>. QED BY <1>0, <2>2, <2>3 DEF RepliesInv
<1>2. CASE \E k \in Keys : Age(k)
  <2>1. PICK x \in Keys : Age(x) BY <1>2
  <2>2. \A k \in Keys : Posting(k)' = Posting(k) /\ Unstored(k)' = Unstored(k) /\ TakenNow(k)' = TakenNow(k)
    BY <2>1 DEF Age, Posting, Unstored, Holding, TakenNow
  <2>3. \A k \in Keys : pardoned'[k] = pardoned[k] + Bit(k \in {x}) BY <1>m, <1>n, <2>1 DEF Age
  <2>4. \A k \in Keys : used'[k] = (IF k = x THEN "old" ELSE used[k]) /\ used[x] = "live"
    BY <1>0, <2>1 DEF Age, TypeInv, Used
  <2>5. CountsInv'
    <3>1. SUFFICES ASSUME NEW k \in Keys
                   PROVE  /\ used'[k] # "none" => replies'[k] > 0
                          /\ replies'[k] + Unstored(k)' <= mails'[k] + refused'[k]
                          /\ mails'[k] + Posting(k)' <= pardoned'[k] + IF Taken(k)' \/ TakenNow(k)' THEN 1 ELSE 0
      BY DEF CountsInv
    <3>2. Posting(k) \in Nat /\ Unstored(k) \in Nat BY HoldingFinite DEF Posting, Unstored
    <3>3. /\ used[k] # "none" => replies[k] > 0
          /\ replies[k] + Unstored(k) <= mails[k] + refused[k]
          /\ mails[k] + Posting(k) <= pardoned[k] + IF Taken(k) \/ TakenNow(k) THEN 1 ELSE 0
      BY <1>0 DEF CountsInv
    <3>4. UNCHANGED <<replies, mails, refused>> BY <2>1 DEF Age
    <3>5. Taken(k)' => Taken(k) BY <2>4 DEF Taken
    <3>6. k # x => Taken(k)' = Taken(k) BY <2>4 DEF Taken
    <3>7. CASE k = x BY <1>t, <2>2, <2>3, <2>4, <3>2, <3>3, <3>4, <3>7 DEF Bit
    <3>8. CASE k # x BY <1>t, <2>2, <2>3, <2>4, <3>2, <3>3, <3>4, <3>6, <3>8 DEF Bit
    <3>. QED BY <3>7, <3>8
  <2>6. KeysInv' BY <1>0, <2>1 DEF Age, KeysInv
  <2>. QED BY <1>0, <2>5, <2>6 DEF RepliesInv
<1>3. ASSUME NEW h \in Handlers,
             ReplyStep(h) \/ LinkStep(h) \/ Die(h) \/ Arrive(h) \/ Touch(h) \/ Touched(h)
             \/ (\E k \in Keys : Reply(h, k)) \/ (\E to \in Links : Pick(h, to))
      PROVE RepliesInv'
  <2>a. ASSUME NEW job, Moved(h, job) PROVE RepliesInv' BY <1>0, <2>a, MovedKeeps
  <2>b. work[h] \in Job /\ work[h].key \subseteq Keys /\ work[h].used \in Used BY <1>0 DEF Job
  <2>c. /\ work[h].key # {} => work[h].at \in Replying
        /\ \A k \in Keys : \/ work[h].used[k] # "none"
                           \/ k \in work[h].key /\ work[h].at \in {"key", "keyPut"}
                           => replies[k] > 0
        /\ \A k \in Keys : used[k] # "none" => replies[k] > 0
    BY <1>0 DEF KeysInv, CountsInv
  <2>d. Idle.key = {} /\ Idle.at = "idle" /\ \A k \in Keys : Idle.used[k] = "none" BY DEF Idle
  <2>1. CASE Posts(h)
    <3>. DEFINE job == [work[h] EXCEPT !.at = "reply"]
    <3>1. job.at = "reply" /\ job.key = work[h].key /\ job.used = work[h].used BY <2>b DEF Job, Idle
    <3>2. work' = [work EXCEPT ![h] = job] BY <2>1 DEF Posts, Goto
    <3>. HIDE DEF job
    <3>3. \A k \in Keys : /\ UNCHANGED <<used, replies, pardoned, refused>> /\ work[h].at = "post"
                         /\ mails'[k] = mails[k] + Bit(k \in work[h].key)
      BY <1>m, <1>n, <2>1, <2>b DEF Posts, At
    <3>4. Moved(h, job) BY <1>t, <2>b, <2>c, <2>d, <3>1, <3>2, <3>3 DEF Moved, Replying, Bit
    <3>. QED BY <2>a, <3>4
  <2>2. CASE PostRefused(h)
    <3>. DEFINE job == [work[h] EXCEPT !.at = "reply"]
    <3>1. job.at = "reply" /\ job.key = work[h].key /\ job.used = work[h].used BY <2>b DEF Job, Idle
    <3>2. work' = [work EXCEPT ![h] = job] BY <2>2 DEF PostRefused, Goto
    <3>. HIDE DEF job
    <3>3. \A k \in Keys : /\ UNCHANGED <<used, replies, pardoned, mails>> /\ work[h].at = "post"
                         /\ refused'[k] = refused[k] + Bit(k \in work[h].key)
      BY <1>m, <1>n, <2>2, <2>b DEF PostRefused, At
    <3>4. Moved(h, job) BY <1>t, <2>b, <2>c, <2>d, <3>1, <3>2, <3>3 DEF Moved, Replying, Bit
    <3>. QED BY <2>a, <3>4
  <2>3. CASE PostRaises(h)
    <3>1. work' = [work EXCEPT ![h] = Idle] BY <2>3 DEF PostRaises, Leave
    <3>2. UNCHANGED <<used, replies, refused>> /\ work[h].at = "post" BY <2>3 DEF PostRaises, At
    <3>3. CASE UNCHANGED <<mails, pardoned>>
      <4>1. Moved(h, Idle) BY <1>t, <2>b, <2>c, <2>d, <3>1, <3>2, <3>3 DEF Moved, Replying, Bit
      <4>. QED BY <2>a, <4>1
    <3>4. CASE mails' = More(mails, work[h].key) /\ Pardon(h)
      <4>1. \A k \in Keys : /\ mails'[k] = mails[k] + Bit(k \in work[h].key)
                           /\ pardoned'[k] = pardoned[k] + Bit(k \in work[h].key)
        BY <1>m, <1>n, <2>b, <3>4 DEF Pardon
      <4>2. Moved(h, Idle) BY <1>t, <2>b, <2>c, <2>d, <3>1, <3>2, <4>1 DEF Moved, Replying, Bit
      <4>. QED BY <2>a, <4>2
    <3>. QED BY <2>3, <3>3, <3>4 DEF PostRaises
  <2>e. ASSUME NEW at, \/ at = "replyPut" /\ work[h].at = "reply"
                       \/ at = "keyPut" /\ work[h].at = "key"
                       \/ at \in {"linkPut", "attachPut", "mailPut"} /\ work[h].at \notin Replying,
               Hydrates(h, at), UNCHANGED <<used, replies, mails, history>>
        PROVE  RepliesInv'
    <3>. DEFINE job == [work[h] EXCEPT !.at = at, !.link = link, !.used = used]
    <3>1. job.at = at /\ job.key = work[h].key /\ job.used = used BY <2>b DEF Job
    <3>2. work' = [work EXCEPT ![h] = job] BY <2>e DEF Hydrates
    <3>. HIDE DEF job
    <3>3. Moved(h, job) BY <1>t, <2>b, <2>c, <2>e, <3>1, <3>2 DEF Moved, Replying, Bit
    <3>. QED BY <2>a, <3>3
  <2>4. CASE Storing(h) BY <2>4, <2>e DEF Storing, At
  <2>5. CASE Remembering(h) BY <2>5, <2>e DEF Remembering, At
  <2>6. CASE Picking(h) BY <2>6, <2>e DEF Picking, At, Replying
  <2>7. CASE Attaching(h) BY <2>7, <2>e DEF Attaching, At, Replying
  <2>8. CASE Filing(h) BY <2>8, <2>e DEF Filing, At, Replying
  <2>g. Undone(h) \subseteq Keys
        /\ \A k \in Keys : k \in Undone(h) <=> used[k] = "live" /\ Upserted(h)[k] # "live"
    BY DEF Undone
  <2>i. \A k \in Keys : Upserted(h)[k] = IF work[h].used[k] = "none" THEN used[k] ELSE work[h].used[k]
    BY DEF Upserted
  <2>f. PutBack(h) => \A k \in Keys :
          /\ used'[k] = Upserted(h)[k]
          /\ pardoned'[k] = pardoned[k] + Bit(used[k] = "live" /\ Upserted(h)[k] # "live")
    BY <1>m, <1>n, <2>g, <2>b DEF PutBack, Bit
  <2>9. CASE Stores(h)
    <3>f. PutBack(h) BY <2>9 DEF Stores
    <3>. DEFINE job == [work[h] EXCEPT !.at = "key"]
    <3>1. job.at = "key" /\ job.key = work[h].key /\ job.used = work[h].used BY <2>b DEF Job, Idle
    <3>2. work' = [work EXCEPT ![h] = job] BY <2>9 DEF Stores, Goto
    <3>. HIDE DEF job
    <3>3. \A k \in Keys : /\ UNCHANGED <<mails, refused>> /\ work[h].at = "replyPut"
                         /\ replies'[k] = replies[k] + Bit(k \in work[h].key)
      BY <1>m, <1>n, <2>9, <2>b DEF Stores, At
    <3>4. Moved(h, job) BY <1>t, <2>b, <2>c, <2>d, <3>1, <3>2, <3>3, <2>f, <2>i, <3>f DEF Moved, Replying, Bit
    <3>. QED BY <2>a, <3>4
  <2>10. CASE Remembers(h)
    <3>1. work' = [work EXCEPT ![h] = Idle] /\ UNCHANGED <<replies, mails, refused>> /\ work[h].at = "keyPut"
      BY <2>10 DEF Remembers, Leave, At
    <3>2. \A k \in Keys :
            /\ used'[k] = IF k \in work[h].key THEN "live" ELSE Upserted(h)[k]
            /\ pardoned'[k] = pardoned[k] + Bit(k \in Undone(h) \ work[h].key)
      BY <1>m, <1>n, <2>b, <2>g, <2>10 DEF Remembers
    <3>3. Moved(h, Idle) BY <1>t, <2>b, <2>c, <2>d, <2>g, <2>i, <3>1, <3>2 DEF Moved, Replying, Bit
    <3>. QED BY <2>a, <3>3
  <2>11. CASE Picks(h)
    <3>1. work' = [work EXCEPT ![h] = Idle] /\ UNCHANGED <<replies, mails, refused>> /\ work[h].at = "linkPut"
      BY <2>11 DEF Picks, Leave, At
    <3>2. \A k \in Keys :
            used'[k] = Upserted(h)[k] /\ pardoned'[k] = pardoned[k] + Bit(k \in Undone(h))
      BY <1>m, <1>n, <2>b, <2>g, <2>11 DEF Picks
    <3>3. Moved(h, Idle) BY <1>t, <2>b, <2>c, <2>d, <2>g, <2>i, <3>1, <3>2 DEF Moved, Replying, Bit
    <3>. QED BY <2>a, <3>3
  <2>12. CASE Attaches(h)
    <3>. DEFINE job == [work[h] EXCEPT !.at = "mail"]
    <3>1. job.at = "mail" /\ job.key = work[h].key /\ job.used = work[h].used BY <2>b DEF Job
    <3>2. work' = [work EXCEPT ![h] = job] /\ UNCHANGED <<replies, mails, refused>> /\ work[h].at = "attachPut"
      BY <2>12 DEF Attaches, Goto, At
    <3>. HIDE DEF job
    <3>3. \A k \in Keys :
            used'[k] = Upserted(h)[k] /\ pardoned'[k] = pardoned[k] + Bit(k \in Undone(h))
      BY <1>m, <1>n, <2>b, <2>g, <2>12 DEF Attaches
    <3>4. Moved(h, job) BY <1>t, <2>b, <2>c, <2>g, <2>i, <3>1, <3>2, <3>3 DEF Moved, Replying, Bit
    <3>. QED BY <2>a, <3>4
  <2>13. CASE Files(h) \/ Touched(h)
    <3>1. /\ work' = [work EXCEPT ![h] = Idle] /\ UNCHANGED <<replies, mails, refused>> /\ PutBack(h)
          /\ work[h].at \in {"mailPut", "touch"}
      BY <2>13 DEF Files, Touched, Leave, At
    <3>2. Moved(h, Idle) BY <1>t, <2>b, <2>c, <2>d, <2>f, <2>i, <3>1 DEF Moved, Replying, Bit
    <3>. QED BY <2>a, <3>2
  <2>14. CASE Die(h)
    <3>1. work' = [work EXCEPT ![h] = Idle] /\ UNCHANGED <<used, replies, mails, refused>>
      BY <2>14 DEF Die, Leave
    <3>2. \A k \in Keys : pardoned'[k] = pardoned[k] + Bit(k \in work[h].key /\ work[h].at # "post")
      BY <1>m, <1>n, <2>b, <2>14 DEF Die, At, Pardon, Bit
    <3>3. Moved(h, Idle) BY <1>t, <2>b, <2>c, <2>d, <3>1, <3>2 DEF Moved, Replying, Bit
    <3>. QED BY <2>a, <3>3
  <2>h. Free(h) => work[h].key = {} BY <2>c DEF Free, Replying
  <2>15. CASE \E to \in Links : Pick(h, to)
    <3>1. PICK to \in Links : Pick(h, to) BY <2>15
    <3>. DEFINE job == [Idle EXCEPT !.at = "link", !.want = to]
    <3>2. job.at = "link" /\ job.key = {} /\ job.used = Idle.used BY DEF Idle
    <3>3. /\ work' = [work EXCEPT ![h] = job] /\ work[h].key = {}
          /\ UNCHANGED <<used, replies, mails, refused, pardoned>>
      BY <2>h, <3>1 DEF Pick, Begin
    <3>. HIDE DEF job
    <3>4. Moved(h, job) BY <1>t, <2>c, <2>d, <3>2, <3>3 DEF Moved, Replying, Bit
    <3>. QED BY <2>a, <3>4
  <2>16. CASE Arrive(h)
    <3>1. PICK to \in Links, saw \in SUBSET Links : Begin(h, Judged(to, saw))
      BY <1>0, <2>16, Arrivals DEF TypeInv
    <3>. DEFINE job == Judged(to, saw)
    <3>2. job.at \in {"mail", "attach"} /\ job.key = {} /\ job.used = Idle.used BY DEF Judged, Idle
    <3>3. work' = [work EXCEPT ![h] = job] BY <3>1 DEF Begin
    <3>4. work[h].key = {} /\ UNCHANGED <<used, replies, mails, refused, pardoned>> BY <2>h, <2>16 DEF Arrive
    <3>. HIDE DEF job
    <3>5. Moved(h, job) BY <1>t, <2>c, <2>d, <3>2, <3>3, <3>4 DEF Moved, Replying, Bit
    <3>. QED BY <2>a, <3>5
  <2>17. CASE Touch(h)
    <3>. DEFINE job == [Idle EXCEPT !.at = "touch", !.link = link, !.used = used]
    <3>1. job.at = "touch" /\ job.key = {} /\ job.used = used BY DEF Idle
    <3>2. work' = [work EXCEPT ![h] = job] BY <2>17 DEF Touch
    <3>3. work[h].key = {} /\ UNCHANGED <<used, replies, mails, refused, pardoned>> BY <2>h, <2>17 DEF Touch
    <3>. HIDE DEF job
    <3>4. Moved(h, job) BY <1>t, <2>c, <3>1, <3>2, <3>3 DEF Moved, Replying, Bit
    <3>. QED BY <2>a, <3>4
  <2>18. CASE \E k \in Keys : Reply(h, k)
    <3>1. PICK x \in Keys : Reply(h, x) BY <2>18
    <3>. DEFINE job == [Idle EXCEPT !.at = "post", !.key = {x}]
    <3>2. job.at = "post" /\ job.key = {x} /\ job.used = Idle.used BY DEF Idle
    <3>3. /\ work' = [work EXCEPT ![h] = job] /\ work[h].key = {} /\ used[x] # "live"
          /\ UNCHANGED <<used, replies, mails, refused>>
      BY <2>h, <3>1 DEF Reply, Begin, Taken
    <3>. HIDE DEF job
    <3>4. \A k \in Keys : pardoned'[k] = pardoned[k] + Bit(k = x /\ TakenNow(x))
      <4>1. \A k \in Keys : pardoned'[k] = pardoned[k] + Bit(k \in {y \in {x} : TakenNow(y)})
        BY <1>m, <1>n, <3>1 DEF Reply
      <4>. QED BY <4>1 DEF Bit
    <3>5. TakenNow(x) <=> \E g \in Handlers \ {h} : x \in work[g].key BY <3>3 DEF TakenNow
    <3>6. Moved(h, job) BY <1>t, <2>c, <2>d, <3>2, <3>3, <3>4, <3>5 DEF Moved, Replying, Bit
    <3>. QED BY <2>a, <3>6
  <2>. QED BY <1>3, <2>1, <2>2, <2>3, <2>4, <2>5, <2>6, <2>7, <2>8, <2>9, <2>10, <2>11, <2>12, <2>13, <2>14,
              <2>15, <2>16, <2>17, <2>18
          DEF ReplyStep, LinkStep
<1>. QED BY <1>1, <1>2, <1>3 DEF Next

\* A key that is refused has its reply, the replies of the conversation were sent, and one key
\* sends one mail but for the known reasons, for any number of handlers and failures.
THEOREM RepliesStand == ASSUME ConversationBounds PROVE Spec => []RepliesHold
<1>1. RepliesInv => RepliesHold
  <2>1. SUFFICES ASSUME RepliesInv, NEW k \in Keys
                 PROVE  /\ used[k] # "none" => replies[k] > 0
                        /\ replies[k] <= mails[k] + refused[k]
                        /\ mails[k] <= 1 + pardoned[k]
    BY DEF RepliesHold
  <2>2. Posting(k) \in Nat /\ Unstored(k) \in Nat BY HoldingFinite DEF Posting, Unstored
  <2>3. replies[k] \in Nat /\ mails[k] \in Nat /\ refused[k] \in Nat /\ pardoned[k] \in Nat
    BY <2>1 DEF RepliesInv, TypeInv
  <2>. QED BY <2>1, <2>2, <2>3 DEF RepliesInv, CountsInv
<1>. QED BY RepliesInit, RepliesStep, <1>1, PTL DEF Spec

\* Every variable keeps the values it is declared with, whatever is repeated, late or dies.
THEOREM TypeCorrect == ASSUME ConversationBounds PROVE Spec => []TypeInv
BY TypeInit, TypeStep, PTL DEF Spec
=============================================================================
