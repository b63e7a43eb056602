----------------------------- MODULE Conversation ---------------------------
(***************************************************************************)
(* One conversation of a mailbox (backend/app/mail): the user's replies    *)
(* under an idempotency key, and the posting that the conversation is      *)
(* linked to, by the user or when a mail is filed.                         *)
(*                                                                         *)
(* A handler makes several store calls, and others come in between. A call *)
(* of the Cosmos store that writes reads every row, and later writes every *)
(* row back; the in-memory store behaves like that with nothing between.   *)
(***************************************************************************)
EXTENDS Naturals

CONSTANTS
  Keys,                   \* idempotency keys of replies
  Postings, Unlinked,     \* what the conversation may be linked to
  MaxHandlers, MaxEvents  \* bounds: handlers at work at a time; requests, mails, failures and deaths

\* What the composition assumes of the constants.
ConversationBounds == Unlinked \notin Postings /\ {MaxHandlers, MaxEvents} \subseteq Nat

VARIABLES
  used,     \* the idempotency rows; one is old after mail_reply_idempotency_hours
  replies,  \* email_messages: how many replies under each key are stored as sent
  link,     \* email_threads: job_posting_id
  work,     \* the handlers
  budget,   \* how many events are left
    \* external: Microsoft Graph
  mails,    \* how many mails it has sent out under each key
  pardoned, \* history: how many further mails the known reasons allow, see Pardon
  refused,  \* history: how many it refused that were stored all the same
  picked,   \* history: the posting that the user linked last
  strayed   \* history: a link was replaced by who had not seen it, see Attaches
history == <<pardoned, refused, picked, strayed>>
conversationVars == <<used, replies, link, work, budget, mails, history>>

Handlers == 1 .. MaxHandlers
Links == Postings \cup {Unlinked}
Used == [Keys -> {"none", "live", "old"}]
\* `saw': the link that a filing looked at, if it did; link, used: the copies of a store call.
Idle == [at |-> "idle", key |-> {}, want |-> Unlinked, saw |-> {},
         link |-> Unlinked, used |-> [k \in Keys |-> "none"]]

Job ==
  [at: {"idle", "post", "reply", "replyPut", "key", "keyPut", "link", "linkPut",
        "attach", "attachPut", "mail", "mailPut", "touch"},
   key: SUBSET Keys, want: Links, saw: SUBSET Links, link: Links, used: Used]

TypeInv ==
  /\ used \in Used /\ link \in Links
  /\ {replies, mails, pardoned, refused} \subseteq [Keys -> Nat]
  /\ work \in [Handlers -> Job]
  /\ budget \in Nat /\ picked \in Links /\ strayed \in BOOLEAN

None == [k \in Keys |-> 0]
Init ==
  /\ used = [k \in Keys |-> "none"] /\ replies = None /\ link = Unlinked
  /\ work = [h \in Handlers |-> Idle] /\ budget \in 0 .. MaxEvents
  /\ mails = None /\ pardoned = None /\ refused = None
  /\ picked = Unlinked /\ strayed = FALSE

-----------------------------------------------------------------------------
Event == budget > 0 /\ budget' = budget - 1
Free(h) == work[h].at = "idle" /\ \A g \in Handlers : g < h => work[g].at # "idle"
At(h, where) == work[h].at = where
Begin(h, job) == work' = [work EXCEPT ![h] = job]
Goto(h, where) == work' = [work EXCEPT ![h].at = where]
Leave(h) == work' = [work EXCEPT ![h] = Idle]

\* A store call that writes: _hydrate, and _persist_working with its own row changed, which
\* upserts the rows of its copy and deletes none: a key stored meanwhile stays, and only the
\* old row of a key can take the place of its renewed one.
Hydrates(h, where) == work' = [work EXCEPT ![h].at = where, ![h].link = link, ![h].used = used]
Upserted(h) == [k \in Keys |-> IF work[h].used[k] = "none" THEN used[k] ELSE work[h].used[k]]
Undone(h) == {k \in Keys : used[k] = "live" /\ Upserted(h)[k] # "live"}
More(counts, keys) == [k \in Keys |-> IF k \in keys THEN counts[k] + 1 ELSE counts[k]]
PutBack(h) ==
  /\ used' = Upserted(h) /\ link' = work[h].link
  /\ pardoned' = More(pardoned, Undone(h))
  /\ strayed' = (strayed \/ work[h].link # link)

-----------------------------------------------------------------------------
\* reply: a key that is live answers 409.
\* Mutant: only what a handler still works on does.
TakenNow(k) == \E h \in Handlers : k \in work[h].key
Taken(k) == used[k] = "live"
Reply(h, k) ==
  /\ Event /\ Free(h) /\ ~Taken(k)
  /\ Begin(h, [Idle EXCEPT !.at = "post", !.key = {k}])
  /\ pardoned' = More(pardoned, {x \in {k} : TakenNow(x)})
  /\ UNCHANGED <<used, replies, link, mails, refused, picked, strayed>>

\* A second mail under a key is no surprise when another reply is at work as it begins, when
\* the first handler never stored the key, when the key is old, and when a late write put the
\* old row of a renewed key back.
Pardon(h) == pardoned' = More(pardoned, work[h].key)
Posts(h) ==
  /\ At(h, "post")
  /\ mails' = More(mails, work[h].key)
  /\ Goto(h, "reply")
  /\ UNCHANGED <<used, replies, link, budget, history>>
\* send_reply does not look at the status of the answer.
PostRefused(h) ==
  /\ At(h, "post") /\ Event
  /\ refused' = More(refused, work[h].key)
  /\ Goto(h, "reply")
  /\ UNCHANGED <<used, replies, link, mails, pardoned, picked, strayed>>
\* There is no token, or no answer.
PostRaises(h) ==
  /\ At(h, "post") /\ Event
  /\ \/ mails' = More(mails, work[h].key) /\ Pardon(h)
     \/ UNCHANGED <<mails, pardoned>>
  /\ Leave(h)
  /\ UNCHANGED <<used, replies, link, refused, picked, strayed>>

\* upsert_message with ids that the service made up, and put_idempotency.
Storing(h) ==
  /\ At(h, "reply")
  /\ Hydrates(h, "replyPut")
  /\ UNCHANGED <<used, replies, link, budget, mails, history>>
Stores(h) ==
  /\ At(h, "replyPut")
  /\ PutBack(h)
  /\ replies' = More(replies, work[h].key)
  /\ Goto(h, "key")
  /\ UNCHANGED <<budget, mails, refused, picked>>
Remembering(h) ==
  /\ At(h, "key")
  /\ Hydrates(h, "keyPut")
  /\ UNCHANGED <<used, replies, link, budget, mails, history>>
Remembers(h) ==
  /\ At(h, "keyPut")
  /\ used' = [k \in Keys |-> IF k \in work[h].key THEN "live" ELSE Upserted(h)[k]]
  /\ link' = work[h].link
  /\ pardoned' = More(pardoned, Undone(h) \ work[h].key)
  /\ strayed' = (strayed \/ work[h].link # link)
  /\ Leave(h)
  /\ UNCHANGED <<replies, budget, mails, refused, picked>>
\* A day passes; no handler runs that long.
Age(k) ==
  /\ Event /\ used[k] = "live" /\ \A h \in Handlers : At(h, "idle")
  /\ used' = [used EXCEPT ![k] = "old"]
  /\ pardoned' = More(pardoned, {k})
  /\ UNCHANGED <<replies, link, work, mails, refused, picked, strayed>>

-----------------------------------------------------------------------------
\* link and unlink, by the user.
Pick(h, to) ==
  /\ Event /\ Free(h)
  /\ Begin(h, [Idle EXCEPT !.at = "link", !.want = to])
  /\ UNCHANGED <<used, replies, link, mails, history>>
Picking(h) ==
  /\ At(h, "link")
  /\ Hydrates(h, "linkPut")
  /\ UNCHANGED <<used, replies, link, budget, mails, history>>
Picks(h) ==
  /\ At(h, "linkPut")
  /\ used' = Upserted(h) /\ pardoned' = More(pardoned, Undone(h))
  /\ link' = work[h].want /\ picked' = work[h].want
  /\ Leave(h)
  /\ UNCHANGED <<replies, budget, mails, refused, strayed>>

\* _ingest_graph_message. A mail of the conversation is judged by decide_link on the thread
\* that was read, which stays with its posting while the feed has that. A mail with another
\* conversation id is judged by what it refers to or by its text, and is then filed here, its
\* link included, when its subject and its participants are those of the conversation.
\* Mutant: every mail is judged by its text.
JudgedByText(saw) == Links
Decisions(saw) == IF saw = Unlinked THEN Links ELSE {saw, Unlinked}
Judged(to, saw) ==
  [Idle EXCEPT !.at = IF to = Unlinked THEN "mail" ELSE "attach", !.want = to, !.saw = saw]
Arrive(h) ==
  /\ Event /\ Free(h)
  /\ \/ \E to \in Decisions(link) : Begin(h, Judged(to, {link}))
     \/ \E to \in Links : Begin(h, Judged(to, {}))
  /\ UNCHANGED <<used, replies, link, mails, history>>
Attaching(h) ==
  /\ At(h, "attach")
  /\ Hydrates(h, "attachPut")
  /\ UNCHANGED <<used, replies, link, budget, mails, history>>
Attaches(h) ==
  /\ At(h, "attachPut")
  /\ used' = Upserted(h) /\ pardoned' = More(pardoned, Undone(h))
  /\ link' = work[h].want
  /\ strayed' = (strayed \/ (work[h].saw # {link} /\ work[h].want # link))
  /\ Goto(h, "mail")
  /\ UNCHANGED <<replies, budget, mails, refused, picked>>
\* upsert_message, and what else is written about the mail.
Filing(h) ==
  /\ At(h, "mail")
  /\ Hydrates(h, "mailPut")
  /\ UNCHANGED <<used, replies, link, budget, mails, history>>
Files(h) ==
  /\ At(h, "mailPut")
  /\ PutBack(h) /\ Leave(h)
  /\ UNCHANGED <<replies, budget, mails, refused, picked>>

\* Any other store call that writes: read marks, the time of a poll, suggestions, audits.
Touch(h) ==
  /\ Event /\ Free(h)
  /\ work' = [work EXCEPT ![h] = [Idle EXCEPT !.at = "touch", !.link = link, !.used = used]]
  /\ UNCHANGED <<used, replies, link, mails, history>>
Touched(h) ==
  /\ At(h, "touch")
  /\ PutBack(h) /\ Leave(h)
  /\ UNCHANGED <<replies, budget, mails, refused, picked>>

\* A handler dies half-way.
Die(h) ==
  /\ work[h].at # "idle" /\ Event
  /\ IF At(h, "post") THEN UNCHANGED pardoned ELSE Pardon(h)
  /\ Leave(h)
  /\ UNCHANGED <<used, replies, link, mails, refused, picked, strayed>>

-----------------------------------------------------------------------------
ReplyStep(h) ==
  \/ Posts(h) \/ PostRefused(h) \/ PostRaises(h)
  \/ Storing(h) \/ Stores(h) \/ Remembering(h) \/ Remembers(h)
LinkStep(h) == Picking(h) \/ Picks(h) \/ Attaching(h) \/ Attaches(h) \/ Filing(h) \/ Files(h)
Next ==
  \/ \E h \in Handlers :
       \/ ReplyStep(h) \/ LinkStep(h) \/ Die(h)
       \/ Arrive(h) \/ Touch(h) \/ Touched(h)
       \/ \E k \in Keys : Reply(h, k)
       \/ \E to \in Links : Pick(h, to)
  \/ \E k \in Keys : Age(k)

Spec == Init /\ [][Next]_conversationVars

-----------------------------------------------------------------------------
\* A key that is refused has a reply in the conversation; every reply there was sent, but
\* for what Graph refused; and one key sends one mail, but for the known reasons.
RepliesHold ==
  \A k \in Keys :
    /\ used[k] # "none" => replies[k] > 0
    /\ replies[k] <= mails[k] + refused[k]
    /\ mails[k] <= 1 + pardoned[k]

\* The conversation stays with the posting that the user linked it to, however many of its
\* mails are filed, unless who had not seen the user's link replaced it: a late write, a filing
\* that had read the thread before, or that of a mail with another conversation id.
LinkHolds == picked = Unlinked \/ strayed \/ link = picked
=============================================================================
