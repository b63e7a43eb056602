------------------------------- MODULE Mailbox ------------------------------
(***************************************************************************)
(* A user's Microsoft 365 mailbox: connecting and disconnecting it         *)
(* (backend/app/settings), its change notifications, and filing the mail   *)
(* that arrives (backend/app/mail).                                        *)
(*                                                                         *)
(* A handler reads rows, calls Microsoft, and writes the rows it has read  *)
(* back; each of its store calls is one step, and others come in between.  *)
(* Several HTTP requests, the timers and the mail-ingest queue are at work *)
(* at once.                                                                *)
(***************************************************************************)
EXTENDS Naturals, Sequences, FiniteSets

CONSTANTS
  Conns,       \* bound: connection rows
  Mails,       \* the mails that may arrive, all of one conversation, numbered in that order
  MaxDeliver,  \* maxDequeueCount of the host
  MaxHandlers, \* bound: handlers at work at a time
  MaxEvents    \* bound: requests, due timers, arriving mails, failures and deaths

\* What the composition assumes of the constants.
MailBounds ==
  /\ {MaxHandlers, MaxEvents} \subseteq Nat /\ MaxDeliver \in Nat \ {0}
  /\ {1, 2} \subseteq Conns /\ IsFiniteSet(Conns) /\ Conns \cup Mails \subseteq Nat \ {0}

VARIABLES
  conns,    \* email_connections: the status of each row
  age,      \* updated_at of each row, by rank: 0 is the latest; a row that is not there comes after all
  sessions, \* _oauth: the rows that a consent page is open for
  sub,      \* graph_subscriptions has a row
  cursor,   \* graph_sync_cursor: the mails that delta has returned so far
  junk,     \* the cursor is a timestamp that Graph never issued
  filed,    \* email_messages
  thread,   \* email_threads has the conversation
  notes,    \* mail-ingest: the message for each mail
  work,     \* the handlers
    \* external: Microsoft Graph
  hooked,   \* there is a subscription
  inbox,    \* the mails in the inbox, as delta returns them
  budget,   \* how many events are left
  wanted,   \* history: a consent came after the last disconnect
  tainted,  \* history: a handler that overlapped the last disconnect has written since
  torn      \* history: mails that a poll held when it died or raised
access == <<conns, age, sessions>>
notices == <<sub, hooked>>
ingest == <<cursor, junk, filed, thread, inbox>>
history == <<wanted, tainted, torn>>
mailVars == <<access, notices, ingest, notes, work, budget, history>>

Handlers == 1 .. MaxHandlers
Idle == [at |-> "idle", row |-> 0, was |-> "none", since |-> 0, hold |-> <<>>,
         note |-> {}, knew |-> FALSE, late |-> FALSE]
Status == {"none", "pending", "active", "expired", "error", "revoked"}
Job == [at: {"idle", "insert", "exchange", "subscribe", "record", "store", "unhook", "restore",
             "revoke", "refresh", "delta", "fetch", "file", "write"},
        row: Conns \cup {0}, was: Status, since: Nat, hold: Seq(Mails), note: SUBSET Mails,
        knew: BOOLEAN, late: BOOLEAN]

TypeInv ==
  /\ conns \in [Conns -> Status]
  /\ age \in [Conns -> Nat] /\ \A c, d \in Conns : age[c] = age[d] => c = d
  /\ sessions \subseteq Conns
  /\ {sub, junk, thread, hooked, wanted, tainted} \subseteq BOOLEAN
  /\ cursor \in 0 .. Len(inbox) /\ inbox \in Seq(Mails)
  /\ filed \subseteq Mails /\ torn \subseteq Mails
  /\ notes \in [Mails -> [state: {"none", "ready", "taken", "done", "dead"}, tries: 0 .. MaxDeliver]]
  /\ work \in [Handlers -> Job]
  /\ budget \in Nat

\* A user who has never connected, or has two consent pages open, or whose mailbox is
\* connected and subscribed.
Init ==
  /\ \E start \in {"new", "asking", "connected"} :
       /\ conns = [c \in Conns |-> CASE start = "asking" /\ c = 1 -> "revoked"
                                     [] start = "asking" /\ c = 2 -> "pending"
                                     [] start = "connected" /\ c = 1 -> "active"
                                     [] OTHER -> "none"]
       /\ age = [c \in Conns |-> IF start = "asking" /\ c < 3 THEN 2 - c ELSE c - 1]
       /\ sessions = IF start = "asking" THEN {1, 2} ELSE {}
       /\ sub = (start = "connected") /\ hooked = (start = "connected") /\ wanted = (start = "connected")
  /\ cursor = 0 /\ junk = FALSE /\ filed = {} /\ thread = FALSE
  /\ notes = [m \in Mails |-> [state |-> "none", tries |-> 0]]
  /\ work = [h \in Handlers |-> Idle]
  /\ inbox = <<>> /\ budget \in 0 .. MaxEvents /\ tainted = FALSE /\ torn = {}

-----------------------------------------------------------------------------
Event == budget > 0 /\ budget' = budget - 1

\* Handlers are alike: the first that is free takes what comes.
Free(h) == work[h].at = "idle" /\ \A g \in Handlers : g < h => work[g].at # "idle"
At(h, where) == work[h].at = where
Goto(h, where) == work' = [work EXCEPT ![h].at = where]
Begin(h, job) == work' = [work EXCEPT ![h] = job]
Leave(h) == work' = [work EXCEPT ![h] = Idle]

Rows == {c \in Conns : conns[c] # "none"}
WithStatus(s) == {c \in Conns : conns[c] = s}
Newest(rows) == CHOOSE c \in rows : \A d \in rows : age[c] <= age[d]
\* graph_access_token and _graph_connection: an active row, or the one that expired last.
Usable == WithStatus("active") \cup WithStatus("expired")
Grantor == Newest(IF WithStatus("active") # {} THEN WithStatus("active") ELSE Usable)
\* Mutant: the others keep their places.
Stamped(rows) == [c \in Conns |-> IF c \in rows THEN 0 ELSE age[c]]
\* The rows are written one by one, beginning with the newest: who is written last is on top.
Updated(rows) ==
  [c \in Conns |-> Cardinality({d \in Conns \ {c} : IF c \in rows THEN d \in rows /\ age[d] > age[c]
                                                   ELSE d \in rows \/ age[d] < age[c]})]

\* upsert_connection: one active row per user; a second one raises.
Clash(c, status) == status = "active" /\ WithStatus("active") \ {c} # {}
Put(c, status) == conns' = [conns EXCEPT ![c] = status] /\ age' = Updated({c})
PutBack(h) ==
  LET w == work[h]
  IN IF Clash(w.row, w.was) THEN UNCHANGED <<conns, age, tainted>>
     ELSE Put(w.row, w.was) /\ tainted' = (tainted \/ w.late)

-----------------------------------------------------------------------------
\* Settings: connect, callback, disconnect, graph_access_token.

\* connect does nothing when a connection is active.
Connect(h) ==
  /\ Event /\ Free(h) /\ WithStatus("active") = {} /\ WithStatus("none") # {}
  /\ Goto(h, "insert")
  /\ UNCHANGED <<access, notices, ingest, notes, history>>
\* It revokes what is pending and inserts a row with a session of its own.
Inserts(h) ==
  /\ At(h, "insert") /\ WithStatus("none") # {}
  /\ LET c == CHOOSE x \in WithStatus("none") : \A y \in WithStatus("none") : x <= y
     IN /\ conns' = [x \in Conns |-> IF x = c THEN "pending"
                                     ELSE IF conns[x] = "pending" THEN "revoked" ELSE conns[x]]
        /\ age' = Updated({c} \cup WithStatus("pending"))
        /\ sessions' = sessions \cup {c}
  /\ Leave(h)
  /\ UNCHANGED <<notices, ingest, notes, budget, history>>

\* callback, while the session is known; nobody drops it when its row is revoked.
Consent(h, c) ==
  /\ Event /\ Free(h) /\ c \in sessions
  /\ Begin(h, [Idle EXCEPT !.at = "exchange", !.row = c, !.was = "active"])
  /\ UNCHANGED <<access, notices, ingest, notes, history>>
Exchanged(h) ==
  /\ At(h, "exchange") /\ ~Clash(work[h].row, "active")
  /\ Put(work[h].row, "active")
  /\ sessions' = sessions \ {work[h].row}
  /\ wanted' = TRUE
  /\ Goto(h, "subscribe")
  /\ UNCHANGED <<notices, ingest, notes, budget, tainted, torn>>
ExchangeClashes(h) ==
  /\ At(h, "exchange") /\ Clash(work[h].row, "active")
  /\ Leave(h)
  /\ UNCHANGED <<access, notices, ingest, notes, budget, history>>
\* Microsoft refuses the code: the row that was read is written with an error.
ExchangeFails(h) ==
  /\ At(h, "exchange") /\ Event
  /\ Put(work[h].row, "error")
  /\ Leave(h)
  /\ UNCHANGED <<sessions, notices, ingest, notes, history>>
\* The session is older than 600 s, or its process is gone.
SessionEnds(c) ==
  /\ Event /\ c \in sessions
  /\ sessions' = sessions \ {c}
  /\ UNCHANGED <<conns, age, notices, ingest, notes, work, history>>

\* disconnect: cancel_graph_subscription with the connection it reads, then every row.
Disconnect(h) ==
  /\ Event /\ Free(h)
  /\ Begin(h, IF Usable = {} THEN [Idle EXCEPT !.at = "unhook"]
              ELSE [Idle EXCEPT !.at = "unhook", !.row = Grantor, !.was = conns[Grantor]])
  /\ UNCHANGED <<access, notices, ingest, notes, history>>
\* The DELETE may fail, and is not tried without a token; nobody minds.
Unhooks(h) ==
  /\ At(h, "unhook")
  /\ sub' = FALSE
  /\ \/ Usable # {} /\ hooked' = FALSE /\ UNCHANGED budget
     \/ Usable = {} /\ UNCHANGED <<hooked, budget>>
     \/ Event /\ UNCHANGED hooked
  /\ Goto(h, IF work[h].row = 0 THEN "revoke" ELSE "restore")
  /\ UNCHANGED <<access, ingest, notes, history>>
\* The connection that was read is written back without its subscription.
Restores(h) ==
  /\ At(h, "restore")
  /\ PutBack(h)
  /\ Goto(h, "revoke")
  /\ UNCHANGED <<sessions, notices, ingest, notes, budget, wanted, torn>>
\* Mutant: only what is active is revoked.
ActiveOnly(c) == conns[c] = "active"
ToRevoke(c) == conns[c] \notin {"none", "revoked"}
Revokes(h) ==
  /\ At(h, "revoke")
  /\ conns' = [c \in Conns |-> IF ToRevoke(c) THEN "revoked" ELSE conns[c]]
  /\ age' = Updated({c \in Conns : ToRevoke(c)})
  /\ work' = [g \in Handlers |-> IF g = h THEN Idle
                                 ELSE [work[g] EXCEPT !.late = (work[g].at # "idle")]]
  /\ wanted' = FALSE /\ tainted' = FALSE
  /\ UNCHANGED <<sessions, notices, ingest, notes, budget, torn>>

\* _expire_due, when the access token's time is over and somebody reads the rows.
Expire(c) ==
  /\ Event /\ conns[c] = "active"
  /\ Put(c, "expired")
  /\ UNCHANGED <<sessions, notices, ingest, notes, work, history>>
\* graph_access_token near the end of a token: read, ask Microsoft, write.
Refresh(h) ==
  /\ Event /\ Free(h) /\ Usable # {}
  /\ Begin(h, [Idle EXCEPT !.at = "refresh", !.row = Grantor, !.was = "active"])
  /\ UNCHANGED <<access, notices, ingest, notes, history>>
Refreshes(h) ==
  /\ At(h, "refresh")
  /\ PutBack(h)
  /\ Leave(h)
  /\ UNCHANGED <<sessions, notices, ingest, notes, budget, wanted, torn>>
RefreshFails(h) ==
  /\ At(h, "refresh") /\ Event
  /\ Leave(h)
  /\ UNCHANGED <<access, notices, ingest, notes, history>>

-----------------------------------------------------------------------------
\* Mail: ensure_graph_subscription, from a callback or from renew_expiring_subscriptions.

Renew(h) ==
  /\ Event /\ Free(h) /\ (sub \/ Usable # {})
  /\ Begin(h, [Idle EXCEPT !.at = "subscribe"])
  /\ UNCHANGED <<access, notices, ingest, notes, history>>
Subscribes(h) ==
  /\ At(h, "subscribe") /\ Usable # {}
  /\ hooked' = TRUE
  /\ Goto(h, "record")
  /\ UNCHANGED <<access, sub, ingest, notes, budget, history>>
SubscribeFails(h) ==
  /\ At(h, "subscribe")
  /\ IF Usable = {} THEN UNCHANGED budget ELSE Event
  /\ Leave(h)
  /\ UNCHANGED <<access, notices, ingest, notes, history>>
\* upsert_subscription; then the connection updated last is read, and written back.
Records(h) ==
  /\ At(h, "record")
  /\ sub' = TRUE
  /\ work' = [work EXCEPT ![h].at = "store", ![h].row = Newest(Rows), ![h].was = conns[Newest(Rows)], ![h].late = FALSE]
  /\ UNCHANGED <<access, hooked, ingest, notes, budget, history>>
Stores(h) ==
  /\ At(h, "store")
  /\ PutBack(h)
  /\ Leave(h)
  /\ UNCHANGED <<sessions, notices, ingest, notes, budget, wanted, torn>>

-----------------------------------------------------------------------------
\* Mail: process_ingest.

\* external: a mail arrives, and Graph notifies whoever subscribed; the webhook enqueues that.
Arrive(m) ==
  /\ Event /\ m = Len(inbox) + 1
  /\ inbox' = Append(inbox, m)
  /\ UNCHANGED <<access, notices, cursor, junk, filed, thread, notes, work, history>>
Notify(m) ==
  /\ hooked /\ notes[m].state = "none" /\ \E i \in DOMAIN inbox : inbox[i] = m
  /\ notes' = [notes EXCEPT ![m].state = "ready"]
  /\ UNCHANGED <<access, notices, ingest, work, budget, history>>

\* Returned or raised: the queue message of a notification is deleted or given back.
Answered(h) == [m \in Mails |-> IF m \in work[h].note THEN [notes[m] EXCEPT !.state = "done"] ELSE notes[m]]
GivenBack(h) ==
  [m \in Mails |->
     IF m \notin work[h].note THEN notes[m]
     ELSE [notes[m] EXCEPT !.state = IF notes[m].tries < MaxDeliver THEN "ready" ELSE "dead"]]
Held(h) == {work[h].hold[i] : i \in DOMAIN work[h].hold}
\* What a poll holds is behind the cursor already.
Torn(h) == IF work[h].note = {} THEN torn \cup Held(h) ELSE torn
Raise(h) == notes' = GivenBack(h) /\ torn' = Torn(h) /\ Leave(h)

\* A poll, by the timer or POST /v1/email/refresh; one that finds nothing new is left out.
Poll(h) ==
  /\ Free(h) /\ Usable # {} /\ ~junk /\ cursor < Len(inbox)
  /\ Begin(h, [Idle EXCEPT !.at = "delta", !.since = cursor])
  /\ UNCHANGED <<access, notices, ingest, notes, budget, history>>
\* delta stops at the page it cannot read; the cursor is saved before the mails are filed.
\* Mutant: the page without its last mail.
PageButLast(since, n) == SubSeq(inbox, since + 1, n - 1)
Page(since, n) == SubSeq(inbox, since + 1, n)
Polled(h) ==
  /\ At(h, "delta") /\ Usable # {}
  /\ \E n \in work[h].since + 1 .. Len(inbox) :
       LET page == Page(work[h].since, n)
       IN /\ cursor' = n
          /\ work' = [work EXCEPT ![h] = IF page = <<>> THEN Idle ELSE [@ EXCEPT !.at = "file", !.hold = page]]
  /\ UNCHANGED <<access, notices, junk, filed, thread, inbox, notes, budget, history>>
\* The first page fails: no mail, and the old cursor again, or the time of day for want of one.
PollFails(h) ==
  /\ At(h, "delta") /\ Event /\ Usable # {}
  /\ cursor' = work[h].since /\ junk' = (work[h].since = 0)
  /\ Leave(h)
  /\ UNCHANGED <<access, notices, filed, thread, inbox, notes, history>>
PollRefused(h) ==
  /\ At(h, "delta") /\ Usable = {}
  /\ Leave(h)
  /\ UNCHANGED <<access, notices, ingest, notes, budget, history>>

\* The message of a notification: fetch_message, which takes any error for "not there".
Take(h, m) ==
  /\ Free(h) /\ notes[m].state = "ready"
  /\ notes' = [notes EXCEPT ![m] = [state |-> "taken", tries |-> @.tries + 1]]
  /\ Begin(h, [Idle EXCEPT !.at = "fetch", !.note = {m}])
  /\ UNCHANGED <<access, notices, ingest, budget, history>>
Fetched(h) ==
  /\ At(h, "fetch") /\ Usable # {}
  /\ \E m \in work[h].note : work' = [work EXCEPT ![h].at = "file", ![h].hold = <<m>>]
  /\ UNCHANGED <<access, notices, ingest, notes, budget, history>>
FetchFails(h) ==
  /\ At(h, "fetch") /\ Event /\ Usable # {}
  /\ notes' = Answered(h) /\ Leave(h)
  /\ UNCHANGED <<access, notices, ingest, history>>
FetchRefused(h) ==
  /\ At(h, "fetch") /\ Usable = {}
  /\ Raise(h)
  /\ UNCHANGED <<access, notices, ingest, budget, wanted, tainted>>

\* _ingest_graph_message: the checks, and the writes that trust them.
\* Mutant: a mail of a known conversation is known.
KnownThread(m) == thread
Known(m) == m \in filed
Drop(h) ==
  IF Len(work[h].hold) = 1 THEN notes' = Answered(h) /\ Leave(h)
  ELSE /\ work' = [work EXCEPT ![h].at = "file", ![h].hold = Tail(@)]
       /\ UNCHANGED notes
Skips(h) ==
  /\ At(h, "file") /\ Known(Head(work[h].hold))
  /\ Drop(h)
  /\ UNCHANGED <<access, notices, ingest, budget, history>>
Checks(h) ==
  /\ At(h, "file") /\ ~Known(Head(work[h].hold))
  /\ work' = [work EXCEPT ![h].at = "write", ![h].knew = thread]
  /\ UNCHANGED <<access, notices, ingest, notes, budget, history>>
\* upsert_thread and upsert_message refuse a conversation or a mail that came in between.
Beaten(h) == Head(work[h].hold) \in filed \/ (thread /\ ~work[h].knew)
Files(h) ==
  /\ At(h, "write") /\ ~Beaten(h)
  /\ filed' = filed \cup {Head(work[h].hold)} /\ thread' = TRUE
  /\ Drop(h)
  /\ UNCHANGED <<access, notices, cursor, junk, inbox, budget, history>>
FileClashes(h) ==
  /\ At(h, "write") /\ Beaten(h)
  /\ Raise(h)
  /\ UNCHANGED <<access, notices, ingest, budget, wanted, tainted>>

\* A handler dies half-way.
Die(h) ==
  /\ work[h].at # "idle" /\ Event
  /\ Raise(h)
  /\ UNCHANGED <<access, notices, ingest, wanted, tainted>>

-----------------------------------------------------------------------------
SettingsStep(h) ==
  \/ Inserts(h) \/ Exchanged(h) \/ ExchangeClashes(h) \/ ExchangeFails(h)
  \/ Unhooks(h) \/ Restores(h) \/ Revokes(h) \/ Refreshes(h) \/ RefreshFails(h)
SubscriptionStep(h) == Subscribes(h) \/ SubscribeFails(h) \/ Records(h) \/ Stores(h)
IngestStep(h) ==
  \/ Poll(h) \/ Polled(h) \/ PollFails(h) \/ PollRefused(h)
  \/ Fetched(h) \/ FetchFails(h) \/ FetchRefused(h)
  \/ Skips(h) \/ Checks(h) \/ Files(h) \/ FileClashes(h)
  \/ \E m \in Mails : Take(h, m)
Work(h) == SettingsStep(h) \/ SubscriptionStep(h) \/ IngestStep(h)
Request(h) == Connect(h) \/ Disconnect(h) \/ Refresh(h) \/ Renew(h) \/ \E c \in Conns : Consent(h, c)

Next ==
  \/ \E h \in Handlers : Request(h) \/ Work(h) \/ Die(h)
  \/ \E c \in Conns : Expire(c) \/ SessionEnds(c)
  \/ \E m \in Mails : Arrive(m) \/ Notify(m)

Spec == Init /\ [][Next]_mailVars
\* The host works while there is something to do, and the poll timer fires again and again.
FairSpec == Spec /\ WF_mailVars(\E h \in Handlers : Work(h))

-----------------------------------------------------------------------------
\* After disconnect the user has no token on file until the next consent, unless a handler
\* that had read the connection before disconnect revoked it has written it back since.
DisconnectHolds == (~wanted /\ ~tainted) => Usable = {}

\* Every mail behind the saved cursor is filed or in the hands of a handler, or was on the
\* page of a poll that died or met a conflict.
OnlyTornMailIsLost ==
  \A i \in 1 .. cursor :
    inbox[i] \in filed \cup torn \cup UNION {Held(h) : h \in Handlers}

\* When the user, the clock and Microsoft have done what they do, every mail is filed in the
\* end while the mailbox is connected, unless a poll dropped it or the very first poll failed,
\* which leaves a cursor that no later poll gets past.
MailSettled == junk \/ Usable = {} \/ \A i \in DOMAIN inbox : inbox[i] \in filed \cup torn
MailArrives == <>[]MailSettled
=============================================================================
