---------------------------- MODULE MailboxProofs ----------------------------
(***************************************************************************)
(* No mail behind the cursor is lost silently, and disconnect leaves no    *)
(* token behind, for any number of mails, connections, handlers and        *)
(* failures. The first proof is about polls and what they hold, the second *)
(* about who has read which connection.                                    *)
(***************************************************************************)
EXTENDS Mailbox, FiniteSetTheorems, WellFoundedInduction, TLAPS

\* What the proof needs of the work of a handler: what it holds is being filed.
IsJob(job) ==
  /\ DOMAIN job = {"at", "row", "was", "since", "hold", "note", "knew", "late"}
  /\ job.since \in 0 .. Len(inbox) /\ job.hold \in Seq(Mails) /\ job.note \subseteq Mails
  /\ job.at \in {"file", "write"} <=> job.hold # <<>>
  /\ job.at = "delta" => job.note = {}
Covered(m) ==
  m \in filed \/ m \in torn \/ \E h \in Handlers : work[h].note = {} /\ m \in Held(h)
\* Every mail that the cursor has passed, or that it had passed when a poll read it, is filed,
\* torn, or held by a poll: what only a notification holds may still be given back.
KeptInv ==
  /\ DOMAIN work = Handlers /\ inbox \in Seq(Mails)
  /\ \A h \in Handlers : IsJob(work[h])
  /\ \A h \in Handlers : At(h, "delta") => \A i \in 1 .. work[h].since : Covered(inbox[i])
  /\ cursor \in 0 .. Len(inbox) /\ \A i \in 1 .. cursor : Covered(inbox[i])

LEMMA KeptInit == ASSUME Init PROVE KeptInv
<1>1. inbox = <<>> /\ cursor = 0 /\ work = [h \in Handlers |-> Idle] BY DEF Init
<1>2. inbox \in Seq(Mails) /\ Len(inbox) = 0 BY <1>1
<1>3. IsJob(Idle) BY <1>2 DEF IsJob, Idle
<1>. QED BY <1>1, <1>2, <1>3 DEF KeptInv, At, Idle

-----------------------------------------------------------------------------
\* The mails of a sequence are its head and those of its tail.
LEMMA HeadAndTail ==
  ASSUME NEW hold \in Seq(Mails), hold # <<>>
  PROVE  /\ Tail(hold) \in Seq(Mails) /\ Len(hold) \in Nat /\ Len(hold) > 0
         /\ Len(hold) # 1 => Tail(hold) # <<>>
         /\ \A i \in DOMAIN hold :
              hold[i] = Head(hold) \/ (Len(hold) # 1 /\ \E j \in DOMAIN Tail(hold) : hold[i] = Tail(hold)[j])
<1>1. Len(hold) \in Nat /\ Len(hold) > 0 OBVIOUS
<1>2. Tail(hold) \in Seq(Mails) /\ Len(Tail(hold)) = Len(hold) - 1 OBVIOUS
<1>3. \A j \in 1 .. Len(hold) - 1 : Tail(hold)[j] = hold[j + 1] OBVIOUS
<1>4. Len(hold) # 1 => Tail(hold) # <<>>
  <2>. DEFINE tail == Tail(hold)
  <2>1. Len(tail) = Len(hold) - 1 BY <1>2
  <2>. HIDE DEF tail
  <2>2. tail = <<>> => Len(tail) = 0 OBVIOUS
  <2>3. Len(hold) # 1 => tail # <<>> BY <1>1, <2>1, <2>2
  <2>. QED BY <2>3 DEF tail
<1>5. ASSUME NEW i \in DOMAIN hold
      PROVE  hold[i] = Head(hold) \/ (Len(hold) # 1 /\ \E j \in DOMAIN Tail(hold) : hold[i] = Tail(hold)[j])
  <2>1. i \in 1 .. Len(hold) /\ DOMAIN Tail(hold) = 1 .. Len(hold) - 1 BY <1>2
  <2>2. CASE i = 1 BY <2>2
  <2>3. CASE i # 1
    <3>1. i - 1 \in 1 .. Len(hold) - 1 /\ hold[i] = Tail(hold)[i - 1] BY <1>1, <1>3, <2>1, <2>3
    <3>. QED BY <1>1, <2>1, <3>1
  <2>. QED BY <2>2, <2>3
<1>. QED BY <1>1, <1>2, <1>4, <1>5

\* A step that gives h other work keeps the mails if none that a poll held is dropped, unless it
\* is filed or torn by then.
Keeps(h, job) ==
  \A i \in DOMAIN work[h].hold : work[h].note = {} =>
    \/ work[h].hold[i] \in filed' \cup torn'
    \/ job.note = {} /\ \E j \in DOMAIN job.hold : work[h].hold[i] = job.hold[j]
LEMMA WorkKeeps ==
  ASSUME KeptInv, NEW h \in Handlers, NEW job, work' = [work EXCEPT ![h] = job], IsJob(job),
         UNCHANGED inbox, filed \subseteq filed', torn \subseteq torn', Keeps(h, job),
         job.at = "delta" => \A i \in 1 .. job.since : Covered(inbox[i]),
         cursor' \in 0 .. Len(inbox), \A i \in 1 .. cursor' : Covered(inbox[i]) \/ Covered(inbox[i])'
  PROVE  KeptInv'
<1>1. DOMAIN work' = Handlers /\ work'[h] = job /\ \A g \in Handlers \ {h} : work'[g] = work[g] BY DEF KeptInv
<1>2. \A m : Covered(m) => Covered(m)'
  <2>1. SUFFICES ASSUME NEW m, Covered(m) PROVE Covered(m)' OBVIOUS
  <2>2. CASE m \in filed \/ m \in torn BY <2>2 DEF Covered
  <2>3. CASE \E g \in Handlers : work[g].note = {} /\ m \in Held(g)
    <3>1. PICK g \in Handlers : work[g].note = {} /\ m \in Held(g) BY <2>3
    <3>2. CASE g = h BY <1>1, <3>1, <3>2 DEF Keeps, Covered, Held
    <3>3. CASE g # h BY <1>1, <3>1, <3>3 DEF Covered, Held
    <3>. QED BY <3>2, <3>3
  <2>. QED BY <2>1, <2>2, <2>3 DEF Covered
<1>3. \A g \in Handlers : IsJob(work[g])' BY <1>1 DEF KeptInv, IsJob
<1>4. \A g \in Handlers : At(g, "delta")' => \A i \in 1 .. work'[g].since : Covered(inbox[i])'
  BY <1>1, <1>2 DEF KeptInv, At
<1>5. cursor' \in 0 .. Len(inbox') /\ \A i \in 1 .. cursor' : Covered(inbox[i])' BY <1>2
<1>. QED BY <1>1, <1>3, <1>4, <1>5 DEF KeptInv

\* So do the steps of who holds nothing, before and after.
LEMMA EmptyHandsKeep ==
  ASSUME KeptInv, NEW h \in Handlers, NEW job, work' = [work EXCEPT ![h] = job], IsJob(job),
         work[h].hold = <<>>, UNCHANGED <<ingest, torn>>,
         job.at = "delta" => \A i \in 1 .. job.since : Covered(inbox[i])
  PROVE  KeptInv'
<1>1. Keeps(h, job) BY DEF Keeps
<1>2. UNCHANGED <<inbox, filed, torn, cursor>> BY DEF ingest
<1>3. cursor' \in 0 .. Len(inbox) /\ \A i \in 1 .. cursor' : Covered(inbox[i]) BY <1>2 DEF KeptInv
<1>. QED BY <1>1, <1>2, <1>3, WorkKeeps

LEMMA KeptStep == ASSUME KeptInv, [Next]_mailVars PROVE KeptInv'
<1>a. ASSUME UNCHANGED <<inbox, cursor, filed, torn, work>> PROVE KeptInv'
  <2>1. \A m : Covered(m)' = Covered(m) BY <1>a DEF Covered, Held
  <2>2. \A h \in Handlers : IsJob(work[h])' = IsJob(work[h]) BY <1>a DEF IsJob
  <2>. QED BY <1>a, <2>1, <2>2 DEF KeptInv, At
<1>1. CASE UNCHANGED mailVars BY <1>1, <1>a DEF mailVars, ingest, history
<1>2. CASE \E c \in Conns : Expire(c) \/ SessionEnds(c) BY <1>2, <1>a DEF Expire, SessionEnds, ingest, history
<1>3. CASE \E m \in Mails : Notify(m) BY <1>3, <1>a DEF Notify, ingest, history
<1>4. CASE \E m \in Mails : Arrive(m)
  <2>1. PICK m \in Mails : inbox' = Append(inbox, m) /\ UNCHANGED <<cursor, filed, torn, work>>
    BY <1>4 DEF Arrive, history
  <2>2. inbox \in Seq(Mails) /\ inbox' \in Seq(Mails) /\ Len(inbox') = Len(inbox) + 1 /\ Len(inbox) \in Nat
        /\ \A i \in 1 .. Len(inbox) : inbox'[i] = inbox[i]
    BY <2>1 DEF KeptInv
  <2>3. \A x : Covered(x)' = Covered(x) BY <2>1 DEF Covered, Held
  <2>4. \A h \in Handlers : IsJob(work[h])' BY <2>1, <2>2 DEF KeptInv, IsJob
  <2>5. \A h \in Handlers : work[h].since \in 0 .. Len(inbox) BY DEF KeptInv, IsJob
  <2>6. \A h \in Handlers : At(h, "delta")' => \A i \in 1 .. work'[h].since : Covered(inbox[i])'
    <3>1. SUFFICES ASSUME NEW h \in Handlers, At(h, "delta"), NEW i \in 1 .. work[h].since
                   PROVE  Covered(inbox'[i])
      BY <2>1, <2>3 DEF At
    <3>2. i \in 1 .. Len(inbox) BY <2>2, <2>5
    <3>. QED BY <2>2, <3>1, <3>2 DEF KeptInv
  <2>7. cursor' \in 0 .. Len(inbox') /\ \A i \in 1 .. cursor' : Covered(inbox[i])'
    <3>1. \A i \in 1 .. cursor : i \in 1 .. Len(inbox) BY <2>2 DEF KeptInv
    <3>. QED BY <2>1, <2>2, <2>3, <3>1 DEF KeptInv
  <2>. QED BY <2>1, <2>2, <2>4, <2>6, <2>7 DEF KeptInv
<1>5. ASSUME NEW h \in Handlers, Request(h) \/ Work(h) \/ Die(h) PROVE KeptInv'
  <2>a. /\ IsJob(work[h]) /\ inbox \in Seq(Mails) /\ cursor \in 0 .. Len(inbox)
        /\ \A i \in 1 .. cursor : Covered(inbox[i])
    BY DEF KeptInv
  <2>b. IsJob(Idle) /\ Idle.at = "idle" /\ Idle.hold = <<>> /\ Idle.note = {}
    <3>1. Len(inbox) \in Nat BY <2>a
    <3>. QED BY <3>1 DEF IsJob, Idle
  <2>u. UNCHANGED ingest => UNCHANGED <<inbox, cursor, filed>> BY DEF ingest
  <2>f. work[h].at \notin {"file", "write"} => work[h].hold = <<>> BY <2>a DEF IsJob
  <2>c. ASSUME NEW job, IsJob(job), job.hold = <<>>, work[h].hold = <<>>, UNCHANGED <<ingest, torn>>,
               NEW where, where \notin {"delta", "file", "write"},
               work' = [work EXCEPT ![h] = [job EXCEPT !.at = where]]
        PROVE  KeptInv'
    <3>. DEFINE new == [job EXCEPT !.at = where]
    <3>1. IsJob(new) /\ new.at = where BY <2>c DEF IsJob
    <3>2. work' = [work EXCEPT ![h] = new] BY <2>c
    <3>. HIDE DEF new
    <3>. QED BY <2>c, <3>1, <3>2, EmptyHandsKeep
  <2>d. Leave(h) /\ work[h].hold = <<>> /\ UNCHANGED <<ingest, torn>> => KeptInv'
    BY <2>b, EmptyHandsKeep DEF Leave
  <2>e. ASSUME Raise(h), UNCHANGED ingest PROVE KeptInv'
    <3>1. torn \subseteq torn' /\ \A i \in DOMAIN work[h].hold : work[h].note = {} => work[h].hold[i] \in torn'
      BY <2>e DEF Raise, Torn, Held
    <3>2. Keeps(h, Idle) BY <3>1 DEF Keeps
    <3>3. work' = [work EXCEPT ![h] = Idle] BY <2>e DEF Raise, Leave
    <3>. QED BY <2>a, <2>b, <2>e, <2>u, <3>1, <3>2, <3>3, WorkKeeps
  <2>1. CASE Inserts(h) \/ ExchangeClashes(h) \/ ExchangeFails(h) \/ Refreshes(h) \/ RefreshFails(h)
             \/ SubscribeFails(h) \/ Stores(h) \/ PollRefused(h) \/ FetchFails(h)
    BY <2>1, <2>d, <2>f DEF Inserts, ExchangeClashes, ExchangeFails, Refreshes, RefreshFails, SubscribeFails,
       Stores, PollRefused, FetchFails, At, history
  <2>2. CASE Exchanged(h) \/ Unhooks(h) \/ Restores(h) \/ Subscribes(h) \/ Connect(h)
    <3>1. PICK where \in {"subscribe", "restore", "revoke", "record", "insert"} : Goto(h, where)
      BY <2>2 DEF Exchanged, Unhooks, Restores, Subscribes, Connect
    <3>2. work[h].hold = <<>> /\ UNCHANGED <<ingest, torn>>
      BY <2>2, <2>f DEF Exchanged, Unhooks, Restores, Subscribes, Connect, At, Free, history
    <3>3. work' = [work EXCEPT ![h] = [work[h] EXCEPT !.at = where]] BY <3>1 DEF Goto
    <3>. QED BY <2>a, <2>c, <3>2, <3>3
  <2>3. CASE Revokes(h)
    <3>1. /\ work' = [g \in Handlers |-> IF g = h THEN Idle
                                        ELSE [work[g] EXCEPT !.late = (work[g].at # "idle")]]
          /\ UNCHANGED <<inbox, cursor, filed, torn>> /\ work[h].hold = <<>>
      BY <2>3, <2>f DEF Revokes, ingest, At
    <3>2. \A g \in Handlers \ {h} :
            /\ DOMAIN work'[g] = DOMAIN work[g] /\ work'[g].at = work[g].at /\ work'[g].since = work[g].since
            /\ work'[g].hold = work[g].hold /\ work'[g].note = work[g].note
      BY <3>1 DEF KeptInv, IsJob
    <3>3. work'[h] = Idle /\ DOMAIN work' = Handlers BY <3>1
    <3>4. \A m : Covered(m) => Covered(m)'
      BY <3>1, <3>2, <3>3 DEF Covered, Held
    <3>5. \A g \in Handlers : IsJob(work[g])'
      <4>1. IsJob(Idle)' BY <2>b, <3>1 DEF IsJob, Idle
      <4>. QED BY <4>1, <3>1, <3>2, <3>3 DEF KeptInv, IsJob
    <3>6. \A g \in Handlers : At(g, "delta")' => \A i \in 1 .. work'[g].since : Covered(inbox[i])'
      BY <2>b, <3>1, <3>2, <3>3, <3>4 DEF KeptInv, At
    <3>. QED BY <2>a, <3>1, <3>3, <3>4, <3>5, <3>6 DEF KeptInv
  <2>4. CASE Records(h)
    <3>. DEFINE new == [work[h] EXCEPT !.at = "store", !.row = Newest(Rows), !.was = conns[Newest(Rows)], !.late = FALSE]
    <3>1. work' = [work EXCEPT ![h] = new] BY <2>4 DEF Records
    <3>2. work[h].hold = <<>> /\ UNCHANGED <<ingest, torn>> BY <2>4, <2>f DEF Records, At, history
    <3>3. IsJob(new) /\ new.at = "store" BY <2>a, <3>2 DEF IsJob
    <3>. HIDE DEF new
    <3>. QED BY <3>1, <3>2, <3>3, EmptyHandsKeep
  <2>5. CASE Disconnect(h) \/ Refresh(h) \/ Renew(h) \/ \E c \in Conns : Consent(h, c)
    <3>1. work[h].hold = <<>> /\ UNCHANGED <<ingest, torn>>
      BY <2>5, <2>f DEF Disconnect, Refresh, Renew, Consent, Free, history
    <3>a. ASSUME NEW job, DOMAIN job = DOMAIN Idle, job.at \in {"unhook", "refresh", "exchange", "subscribe"},
                 job.since = Idle.since, job.hold = <<>>, job.note = {}, work' = [work EXCEPT ![h] = job]
          PROVE  KeptInv'
      <4>1. IsJob(job) BY <2>b, <3>a DEF IsJob
      <4>. QED BY <3>1, <3>a, <4>1, EmptyHandsKeep
    <3>2. CASE Disconnect(h) /\ Usable = {}
      <4>. DEFINE new == [Idle EXCEPT !.at = "unhook"]
      <4>1. DOMAIN new = DOMAIN Idle /\ new.at = "unhook" /\ new.since = Idle.since /\ new.hold = <<>> /\ new.note = {}
        BY DEF Idle
      <4>2. work' = [work EXCEPT ![h] = new] BY <3>2 DEF Disconnect, Begin
      <4>. HIDE DEF new
      <4>. QED BY <3>a, <4>1, <4>2
    <3>3. CASE Disconnect(h) /\ Usable # {}
      <4>. DEFINE new == [Idle EXCEPT !.at = "unhook", !.row = Grantor, !.was = conns[Grantor]]
      <4>1. DOMAIN new = DOMAIN Idle /\ new.at = "unhook" /\ new.since = Idle.since /\ new.hold = <<>> /\ new.note = {}
        BY DEF Idle
      <4>2. work' = [work EXCEPT ![h] = new] BY <3>3 DEF Disconnect, Begin
      <4>. HIDE DEF new
      <4>. QED BY <3>a, <4>1, <4>2
    <3>4. CASE Refresh(h)
      <4>. DEFINE new == [Idle EXCEPT !.at = "refresh", !.row = Grantor, !.was = "active"]
      <4>1. DOMAIN new = DOMAIN Idle /\ new.at = "refresh" /\ new.since = Idle.since /\ new.hold = <<>> /\ new.note = {}
        BY DEF Idle
      <4>2. work' = [work EXCEPT ![h] = new] BY <3>4 DEF Refresh, Begin
      <4>. HIDE DEF new
      <4>. QED BY <3>a, <4>1, <4>2
    <3>5. CASE Renew(h)
      <4>. DEFINE new == [Idle EXCEPT !.at = "subscribe"]
      <4>1. DOMAIN new = DOMAIN Idle /\ new.at = "subscribe" /\ new.since = Idle.since /\ new.hold = <<>> /\ new.note = {}
        BY DEF Idle
      <4>2. work' = [work EXCEPT ![h] = new] BY <3>5 DEF Renew, Begin
      <4>. HIDE DEF new
      <4>. QED BY <3>a, <4>1, <4>2
    <3>6. CASE \E c \in Conns : Consent(h, c)
      <4>1. PICK c \in Conns : Consent(h, c) BY <3>6
      <4>. DEFINE new == [Idle EXCEPT !.at = "exchange", !.row = c, !.was = "active"]
      <4>2. DOMAIN new = DOMAIN Idle /\ new.at = "exchange" /\ new.since = Idle.since /\ new.hold = <<>> /\ new.note = {}
        BY DEF Idle
      <4>3. work' = [work EXCEPT ![h] = new] BY <4>1 DEF Consent, Begin
      <4>. HIDE DEF new
      <4>. QED BY <3>a, <4>2, <4>3
    <3>. QED BY <2>5, <3>2, <3>3, <3>4, <3>5, <3>6
  <2>6. CASE Poll(h)
    <3>. DEFINE new == [Idle EXCEPT !.at = "delta", !.since = cursor]
    <3>1. work' = [work EXCEPT ![h] = new] /\ work[h].hold = <<>> /\ UNCHANGED <<ingest, torn>>
      BY <2>6, <2>f DEF Poll, Begin, Free, history
    <3>2. IsJob(new) /\ new.since = cursor BY <2>a, <2>b DEF IsJob, Idle
    <3>. HIDE DEF new
    <3>. QED BY <2>a, <3>1, <3>2, EmptyHandsKeep
  <2>7. CASE Polled(h)
    <3>1. PICK n \in work[h].since + 1 .. Len(inbox) :
            /\ cursor' = n
            /\ work' = [work EXCEPT ![h] = IF Page(work[h].since, n) = <<>> THEN Idle
                                           ELSE [@ EXCEPT !.at = "file", !.hold = Page(work[h].since, n)]]
      BY <2>7 DEF Polled
    <3>2. UNCHANGED <<inbox, filed, torn>> /\ At(h, "delta") /\ work[h].hold = <<>> /\ work[h].note = {}
      BY <2>7, <2>a, <2>f DEF Polled, history, At, IsJob
    <3>. DEFINE page == Page(work[h].since, n)
    <3>3. /\ page \in Seq(Mails) /\ page # <<>>
          /\ \A i \in work[h].since + 1 .. n : \E j \in DOMAIN page : page[j] = inbox[i]
      <4>1. work[h].since \in Nat /\ n \in Nat /\ work[h].since < n /\ n <= Len(inbox) BY <2>a, <3>1 DEF IsJob
      <4>2. page = SubSeq(inbox, work[h].since + 1, n) BY DEF Page
      <4>3. page \in Seq(Mails) /\ Len(page) = n - work[h].since BY <2>a, <4>1, <4>2
      <4>4. \A j \in 1 .. n - work[h].since : page[j] = inbox[work[h].since + j] BY <2>a, <4>1, <4>2
      <4>5. ASSUME NEW i \in work[h].since + 1 .. n PROVE \E j \in DOMAIN page : page[j] = inbox[i]
        <5>1. i - work[h].since \in 1 .. n - work[h].since /\ work[h].since + (i - work[h].since) = i BY <4>1
        <5>2. i - work[h].since \in DOMAIN page BY <4>3, <5>1
        <5>. QED BY <4>4, <5>1, <5>2
      <4>6. page # <<>>
        <5>1. work[h].since + 1 \in work[h].since + 1 .. n BY <4>1
        <5>. QED BY <4>5, <5>1
      <4>. QED BY <4>3, <4>5, <4>6
    <3>. HIDE DEF page
    <3>. DEFINE new == [work[h] EXCEPT !.at = "file", !.hold = page]
    <3>4. work' = [work EXCEPT ![h] = new] BY <3>1, <3>3 DEF page
    <3>5. IsJob(new) /\ new.at = "file" /\ new.hold = page /\ new.note = {} BY <2>a, <3>2, <3>3 DEF IsJob
    <3>. HIDE DEF new
    <3>6. cursor' \in 0 .. Len(inbox) BY <2>a, <3>1 DEF IsJob
    <3>7. \A i \in 1 .. cursor' : Covered(inbox[i]) \/ Covered(inbox[i])'
      <4>1. SUFFICES ASSUME NEW i \in 1 .. n PROVE Covered(inbox[i]) \/ Covered(inbox[i])' BY <3>1
      <4>2. work[h].since \in Nat /\ n \in Nat BY <2>a, <3>1 DEF IsJob
      <4>3. CASE i <= work[h].since
        <5>1. i \in 1 .. work[h].since BY <4>2, <4>3
        <5>. QED BY <3>2, <5>1 DEF KeptInv
      <4>4. CASE i > work[h].since
        <5>1. i \in work[h].since + 1 .. n BY <4>2, <4>4
        <5>2. PICK j \in DOMAIN page : page[j] = inbox[i] BY <3>3, <5>1
        <5>3. work'[h] = new BY <3>4 DEF KeptInv
        <5>. QED BY <3>2, <3>5, <5>2, <5>3 DEF Covered, Held
      <4>. QED BY <4>2, <4>3, <4>4
    <3>8. Keeps(h, new) BY <3>2 DEF Keeps
    <3>. QED BY <3>2, <3>4, <3>5, <3>6, <3>7, <3>8, WorkKeeps
  <2>8. CASE PollFails(h)
    <3>1. /\ work' = [work EXCEPT ![h] = Idle] /\ At(h, "delta") /\ work[h].hold = <<>>
          /\ cursor' = work[h].since /\ UNCHANGED <<inbox, filed, torn>>
      BY <2>8, <2>f DEF PollFails, Leave, At, history
    <3>2. cursor' \in 0 .. Len(inbox) /\ \A i \in 1 .. cursor' : Covered(inbox[i])
      BY <2>a, <3>1 DEF KeptInv, IsJob
    <3>3. Keeps(h, Idle) BY <3>1 DEF Keeps
    <3>. QED BY <2>b, <3>1, <3>2, <3>3, WorkKeeps
  <2>9. CASE \E m \in Mails : Take(h, m)
    <3>1. PICK m \in Mails : Take(h, m) BY <2>9
    <3>. DEFINE new == [Idle EXCEPT !.at = "fetch", !.note = {m}]
    <3>2. work' = [work EXCEPT ![h] = new] /\ work[h].hold = <<>> /\ UNCHANGED <<ingest, torn>>
      BY <2>f, <3>1 DEF Take, Begin, Free, history
    <3>3. IsJob(new) /\ new.at = "fetch" BY <2>b DEF IsJob, Idle
    <3>. HIDE DEF new
    <3>. QED BY <3>2, <3>3, EmptyHandsKeep
  <2>10. CASE Fetched(h)
    <3>1. PICK m \in work[h].note : work' = [work EXCEPT ![h].at = "file", ![h].hold = <<m>>]
      BY <2>10 DEF Fetched
    <3>. DEFINE new == [work[h] EXCEPT !.at = "file", !.hold = <<m>>]
    <3>2. work[h].hold = <<>> /\ UNCHANGED <<ingest, torn>> BY <2>10, <2>f DEF Fetched, At, history
    <3>3. work' = [work EXCEPT ![h] = new] BY <3>1 DEF KeptInv
    <3>4. m \in Mails /\ <<m>> \in Seq(Mails) /\ <<m>> # <<>> BY <2>a, <3>1 DEF IsJob
    <3>5. IsJob(new) /\ new.at = "file" BY <2>a, <3>4 DEF IsJob
    <3>. HIDE DEF new
    <3>. QED BY <3>2, <3>3, <3>5, EmptyHandsKeep
  <2>g. ASSUME Drop(h), At(h, "file") \/ At(h, "write"), Head(work[h].hold) \in filed', filed \subseteq filed',
               UNCHANGED <<inbox, cursor, torn>>
        PROVE  KeptInv'
    <3>1. work[h].hold \in Seq(Mails) /\ work[h].hold # <<>> BY <2>a, <2>g DEF IsJob, At
    <3>2. CASE Len(work[h].hold) = 1
      <4>1. work' = [work EXCEPT ![h] = Idle] BY <2>g, <3>2 DEF Drop, Leave
      <4>2. Keeps(h, Idle) BY <2>g, <3>1, <3>2, HeadAndTail DEF Keeps
      <4>. QED BY <2>a, <2>b, <2>g, <4>1, <4>2, WorkKeeps
    <3>3. CASE Len(work[h].hold) # 1
      <4>. DEFINE new == [work[h] EXCEPT !.at = "file", !.hold = Tail(work[h].hold)]
      <4>1. work' = [work EXCEPT ![h] = new] BY <2>g, <3>3 DEF Drop, KeptInv
      <4>2. Tail(work[h].hold) \in Seq(Mails) /\ Tail(work[h].hold) # <<>> BY <3>1, <3>3, HeadAndTail
      <4>3. IsJob(new) /\ new.at = "file" /\ new.hold = Tail(work[h].hold) /\ new.note = work[h].note
        BY <2>a, <4>2 DEF IsJob
      <4>. HIDE DEF new
      <4>4. Keeps(h, new) BY <2>g, <3>1, <4>3, HeadAndTail DEF Keeps
      <4>. QED BY <2>a, <2>g, <4>1, <4>3, <4>4, WorkKeeps
    <3>. QED BY <3>2, <3>3
  <2>11. CASE Skips(h) BY <2>11, <2>g, <2>u DEF Skips, Known, history
  <2>12. CASE Files(h) BY <2>12, <2>g DEF Files, history
  <2>13. CASE Checks(h)
    <3>. DEFINE new == [work[h] EXCEPT !.at = "write", !.knew = thread]
    <3>1. work' = [work EXCEPT ![h] = new] /\ UNCHANGED <<ingest, torn>> /\ work[h].at = "file"
      BY <2>13 DEF Checks, KeptInv, history, At
    <3>2. IsJob(new) /\ new.at = "write" /\ new.hold = work[h].hold /\ new.note = work[h].note
      BY <2>a, <3>1 DEF IsJob
    <3>. HIDE DEF new
    <3>3. Keeps(h, new) BY <3>2 DEF Keeps
    <3>. QED BY <2>a, <2>u, <3>1, <3>2, <3>3, WorkKeeps
  <2>14. CASE FetchRefused(h) \/ FileClashes(h) \/ Die(h) BY <2>14, <2>e DEF FetchRefused, FileClashes, Die
  <2>. QED BY <1>5, <2>1, <2>2, <2>3, <2>4, <2>5, <2>6, <2>7, <2>8, <2>9, <2>10, <2>11, <2>12, <2>13, <2>14
          DEF Request, Work, SettingsStep, SubscriptionStep, IngestStep
<1>. QED BY <1>1, <1>2, <1>3, <1>4, <1>5 DEF Next

\* Every mail behind the cursor is filed or in the hands of a handler, or was on the page of a
\* poll that died or met a conflict.
THEOREM MailsKept == Spec => []OnlyTornMailIsLost
<1>1. KeptInv => OnlyTornMailIsLost BY DEF KeptInv, Covered, OnlyTornMailIsLost
<1>. QED BY KeptInit, KeptStep, <1>1, PTL DEF Spec

-----------------------------------------------------------------------------
\* A set of numbers has a least one.
LEMMA Least == ASSUME NEW S, S \subseteq Nat, S # {} PROVE \E n \in S : \A m \in S : n <= m
<1>. DEFINE R == OpToRel(<, Nat)
<1>1. IsWellFoundedOn(R, Nat) BY NatLessThanWellFounded
<1>2. \A x, y \in Nat : y < x => <<y, x>> \in R BY DEF OpToRel
<1>. HIDE DEF R
<1>3. PICK n \in S : \A m \in S : ~ (<<m, n>> \in R) BY <1>1, WFMin
<1>4. \A m \in S : ~ (m < n) BY <1>2, <1>3
<1>. QED BY <1>3, <1>4

\* The row updated last is one of those that are asked for, and the ranks stay numbers.
LEMMA NewestIn ==
  ASSUME NEW S, S \subseteq Conns, S # {}, age \in [Conns -> Nat] PROVE Newest(S) \in S
<1>. DEFINE ages == {age[c] : c \in S}
<1>1. ages \subseteq Nat /\ ages # {} OBVIOUS
<1>2. PICK n \in ages : \A m \in ages : n <= m
  <2>. HIDE DEF ages
  <2>. QED BY <1>1, Least
<1>3. \E c \in S : \A d \in S : age[c] <= age[d] BY <1>2
<1>. QED BY <1>3 DEF Newest

LEMMA UpdatedRanks == ASSUME MailBounds, NEW S PROVE Updated(S) \in [Conns -> Nat]
<1>1. ASSUME NEW T, T \subseteq Conns PROVE Cardinality(T) \in Nat
  BY <1>1, FS_Subset, FS_CardinalityType DEF MailBounds
<1>. QED BY <1>1 DEF Updated

-----------------------------------------------------------------------------
\* Who will write back a row that he has read, and who may bring a token back.
Secret == {"active", "expired"}
WritesBack(job) == job.at \in {"restore", "refresh", "store"} \/ (job.at = "unhook" /\ job.row # 0)
Brings(job) == WritesBack(job) /\ job.was \in Secret
SafeJob(job) ==
  /\ DOMAIN job = {"at", "row", "was", "since", "hold", "note", "knew", "late"}
  /\ WritesBack(job) => job.was \in Status \ {"none"}
\* Between a disconnect and a consent, what brings a token back was read before the disconnect.
SafeInv ==
  /\ conns \in [Conns -> Status] /\ age \in [Conns -> Nat] /\ DOMAIN work = Handlers
  /\ \A h \in Handlers : SafeJob(work[h]) /\ (At(h, "record") => Rows # {})
  /\ ~wanted /\ ~tainted => Usable = {} /\ \A h \in Handlers : Brings(work[h]) => work[h].late

LEMMA SafeInit == ASSUME MailBounds, Init PROVE SafeInv
<1>1. conns \in [Conns -> Status] BY DEF Init, Status
<1>2. age \in [Conns -> Nat]
  <2>1. \A c \in Conns : c \in Nat \ {0} BY DEF MailBounds
  <2>2. \A c \in Conns : c - 1 \in Nat /\ (c < 3 => 2 - c \in Nat) BY <2>1
  <2>. QED BY <2>2 DEF Init
<1>3. work = [h \in Handlers |-> Idle] BY DEF Init
<1>4. SafeJob(Idle) /\ ~Brings(Idle) /\ Idle.at # "record" BY DEF SafeJob, Idle, Brings, WritesBack
<1>5. ~wanted => Usable = {} BY DEF Init, Usable, WithStatus
<1>. QED BY <1>1, <1>2, <1>3, <1>4, <1>5 DEF SafeInv, At

\* The step of one handler is safe if its new work is, the rows stay, and it brings no token.
LEMMA JobKeeps ==
  ASSUME SafeInv, NEW h \in Handlers, NEW job, work' = [work EXCEPT ![h] = job],
         conns' \in [Conns -> Status], age' \in [Conns -> Nat], Rows # {} => Rows' # {},
         SafeJob(job), job.at = "record" => Rows # {},
         ~wanted' /\ ~tainted' => ~wanted /\ ~tainted /\ Usable' = {} /\ (Brings(job) => job.late)
  PROVE  SafeInv'
<1>1. DOMAIN work' = Handlers /\ work'[h] = job /\ \A g \in Handlers \ {h} : work'[g] = work[g] BY DEF SafeInv
<1>2. \A g \in Handlers : SafeJob(work'[g]) /\ (work'[g].at = "record" => Rows' # {}) BY <1>1 DEF SafeInv, At
<1>3. ~wanted' /\ ~tainted' => \A g \in Handlers : Brings(work'[g]) => work'[g].late
  BY <1>1 DEF SafeInv
<1>. QED BY <1>1, <1>2, <1>3 DEF SafeInv, At

\* Neither the rows nor the history.
LEMMA QuietKeeps ==
  ASSUME SafeInv, NEW h \in Handlers, NEW job, work' = [work EXCEPT ![h] = job],
         UNCHANGED <<conns, age, wanted, tainted>>, SafeJob(job), job.at = "record" => Rows # {},
         ~wanted /\ ~tainted => (Brings(job) => job.late)
  PROVE  SafeInv'
<1>1. Rows' = Rows /\ Usable' = Usable BY DEF Rows, Usable, WithStatus
<1>. QED BY <1>1, JobKeeps DEF SafeInv

\* A row is written.
LEMMA PutKeepsRows ==
  ASSUME MailBounds, SafeInv, NEW c, NEW status \in Status \ {"none"}, Put(c, status)
  PROVE  /\ conns' \in [Conns -> Status] /\ age' \in [Conns -> Nat] /\ (Rows # {} => Rows' # {})
         /\ status \notin Secret /\ Usable = {} => Usable' = {}
<1>1. conns' = [conns EXCEPT ![c] = status] /\ age' = Updated({c}) BY DEF Put
<1>. QED BY <1>1, UpdatedRanks DEF SafeInv, Rows, Usable, WithStatus, Secret

LEMMA PutBackKeeps ==
  ASSUME MailBounds, SafeInv, NEW h \in Handlers, WritesBack(work[h]), PutBack(h), wanted' = wanted,
         NEW job, work' = [work EXCEPT ![h] = job], DOMAIN job = DOMAIN Idle, job.at \in {"idle", "revoke"}
  PROVE  SafeInv'
<1>1. SafeJob(job) /\ ~Brings(job) BY DEF SafeJob, Brings, WritesBack, Idle
<1>2. work[h].was \in Status \ {"none"} BY DEF SafeInv, SafeJob
<1>3. CASE UNCHANGED <<conns, age, tainted>>
  <2>. QED BY <1>1, <1>3, QuietKeeps
<1>4. CASE Put(work[h].row, work[h].was) /\ tainted' = (tainted \/ work[h].late)
  <2>1. /\ conns' \in [Conns -> Status] /\ age' \in [Conns -> Nat] /\ (Rows # {} => Rows' # {})
        /\ work[h].was \notin Secret /\ Usable = {} => Usable' = {}
    BY <1>2, <1>4, PutKeepsRows
  <2>2. ~wanted' /\ ~tainted' => ~wanted /\ ~tainted /\ Usable' = {}
    <3>1. SUFFICES ASSUME ~wanted, ~tainted' PROVE ~tainted /\ Usable' = {} OBVIOUS
    <3>2. ~tainted /\ ~work[h].late BY <1>4, <3>1
    <3>3. Usable = {} /\ work[h].was \notin Secret BY <3>1, <3>2 DEF SafeInv, Brings
    <3>. QED BY <2>1, <3>2, <3>3
  <2>. QED BY <1>1, <2>1, <2>2, JobKeeps
<1>. QED BY <1>3, <1>4 DEF PutBack

LEMMA SafeStep == ASSUME MailBounds, SafeInv, [Next]_mailVars PROVE SafeInv'
<1>a. ASSUME UNCHANGED <<conns, age, work, wanted, tainted>> PROVE SafeInv'
  <2>1. Rows' = Rows /\ Usable' = Usable BY <1>a DEF Rows, Usable, WithStatus
  <2>. QED BY <1>a, <2>1 DEF SafeInv, At
<1>1. CASE UNCHANGED mailVars BY <1>1, <1>a DEF mailVars, access, history
<1>2. CASE \E c \in Conns : SessionEnds(c) BY <1>2, <1>a DEF SessionEnds, history
<1>3. CASE \E m \in Mails : Arrive(m) \/ Notify(m) BY <1>3, <1>a DEF Arrive, Notify, access, history
<1>4. CASE \E c \in Conns : Expire(c)
  <2>1. PICK c \in Conns : conns[c] = "active" /\ Put(c, "expired") /\ UNCHANGED <<work, wanted, tainted>>
    BY <1>4 DEF Expire, history
  <2>2. conns' \in [Conns -> Status] /\ age' \in [Conns -> Nat] /\ (Rows # {} => Rows' # {})
    BY <2>1, PutKeepsRows DEF Status
  <2>3. ~(~wanted /\ ~tainted) BY <2>1 DEF SafeInv, Usable, WithStatus
  <2>. QED BY <2>1, <2>2, <2>3 DEF SafeInv, At
<1>5. ASSUME NEW h \in Handlers, Request(h) \/ Work(h) \/ Die(h) PROVE SafeInv'
  <2>a. SafeJob(Idle) /\ ~Brings(Idle) /\ Idle.at # "record" /\ DOMAIN Idle = DOMAIN work[h]
    BY DEF SafeJob, Idle, Brings, WritesBack, SafeInv
  <2>b. Leave(h) /\ UNCHANGED <<conns, age, wanted, tainted>> => SafeInv' BY <2>a, QuietKeeps DEF Leave
  <2>c. ASSUME NEW job, DOMAIN job = DOMAIN Idle,
               job.at \in {"insert", "exchange", "subscribe", "delta", "fetch", "file", "write", "revoke"},
               work' = [work EXCEPT ![h] = job], UNCHANGED <<conns, age, wanted, tainted>>
        PROVE  SafeInv'
    <3>1. SafeJob(job) /\ ~Brings(job) BY <2>c DEF SafeJob, Brings, WritesBack, Idle
    <3>. QED BY <2>c, <3>1, QuietKeeps
  <2>j. SafeJob(work[h]) /\ conns \in [Conns -> Status] /\ age \in [Conns -> Nat] BY DEF SafeInv
  <2>1. CASE ExchangeClashes(h) \/ RefreshFails(h) \/ SubscribeFails(h) \/ PollRefused(h) \/ FetchFails(h) \/ PollFails(h)
    BY <2>1, <2>b DEF ExchangeClashes, RefreshFails, SubscribeFails, PollRefused, FetchFails, PollFails, access, history
  <2>2. CASE FetchRefused(h) \/ FileClashes(h) \/ Die(h)
    BY <2>2, <2>b DEF FetchRefused, FileClashes, Die, Raise, access
  <2>3. CASE Refreshes(h) \/ Restores(h) \/ Stores(h)
    <3>1. PutBack(h) /\ wanted' = wanted /\ WritesBack(work[h])
      BY <2>3 DEF Refreshes, Restores, Stores, WritesBack, At
    <3>2. CASE Leave(h) BY <2>a, <3>1, <3>2, PutBackKeeps DEF Leave, Idle
    <3>3. CASE Goto(h, "revoke")
      <4>. DEFINE new == [work[h] EXCEPT !.at = "revoke"]
      <4>1. DOMAIN new = DOMAIN Idle /\ new.at = "revoke" /\ work' = [work EXCEPT ![h] = new]
        BY <2>a, <2>j, <3>3 DEF Goto, SafeJob
      <4>. HIDE DEF new
      <4>. QED BY <3>1, <4>1, PutBackKeeps
    <3>. QED BY <2>3, <3>2, <3>3 DEF Refreshes, Restores, Stores
  <2>4. CASE Inserts(h)
    <3>1. PICK c \in WithStatus("none") :
            /\ conns' = [x \in Conns |-> IF x = c THEN "pending" ELSE IF conns[x] = "pending" THEN "revoked" ELSE conns[x]]
            /\ age' = Updated({c} \cup WithStatus("pending"))
      <4>. DEFINE least == CHOOSE x \in WithStatus("none") : \A y \in WithStatus("none") : x <= y
      <4>1. WithStatus("none") \subseteq Nat /\ WithStatus("none") # {}
        BY <2>4 DEF Inserts, WithStatus, MailBounds
      <4>2. \E x \in WithStatus("none") : \A y \in WithStatus("none") : x <= y BY <4>1, Least
      <4>3. least \in WithStatus("none") BY <4>2
      <4>4. /\ conns' = [x \in Conns |-> IF x = least THEN "pending" ELSE IF conns[x] = "pending" THEN "revoked" ELSE conns[x]]
            /\ age' = Updated({least} \cup WithStatus("pending"))
        BY <2>4 DEF Inserts
      <4>. HIDE DEF least
      <4>. QED BY <4>3, <4>4
    <3>2. age' \in [Conns -> Nat] BY <3>1, UpdatedRanks
    <3>3. conns' \in [Conns -> Status] /\ Rows' # {} /\ (Usable = {} => Usable' = {})
      BY <2>j, <3>1 DEF Rows, Usable, WithStatus, Status
    <3>4. work' = [work EXCEPT ![h] = Idle] /\ UNCHANGED <<wanted, tainted>> BY <2>4 DEF Inserts, Leave, history
    <3>5. Idle.at # "record" BY DEF Idle
    <3>6. ~wanted /\ ~tainted => Usable = {} BY DEF SafeInv
    <3>. QED BY <2>a, <3>2, <3>3, <3>4, <3>5, <3>6, JobKeeps
  <2>5. CASE Exchanged(h)
    <3>. DEFINE new == [work[h] EXCEPT !.at = "subscribe"]
    <3>1. work' = [work EXCEPT ![h] = new] /\ wanted' /\ Put(work[h].row, "active")
      BY <2>5 DEF Exchanged, Goto
    <3>2. SafeJob(new) /\ new.at = "subscribe" BY <2>j DEF SafeJob, WritesBack
    <3>. HIDE DEF new
    <3>3. conns' \in [Conns -> Status] /\ age' \in [Conns -> Nat] /\ (Rows # {} => Rows' # {})
      BY <3>1, PutKeepsRows DEF Status
    <3>. QED BY <3>1, <3>2, <3>3, JobKeeps
  <2>6. CASE ExchangeFails(h)
    <3>1. Put(work[h].row, "error") /\ work' = [work EXCEPT ![h] = Idle] /\ UNCHANGED <<wanted, tainted>>
      BY <2>6 DEF ExchangeFails, Leave, history
    <3>2. /\ conns' \in [Conns -> Status] /\ age' \in [Conns -> Nat] /\ (Rows # {} => Rows' # {})
          /\ Usable = {} => Usable' = {}
      BY <3>1, PutKeepsRows DEF Status, Secret
    <3>3. Idle.at # "record" BY DEF Idle
    <3>4. ~wanted /\ ~tainted => Usable = {} BY DEF SafeInv
    <3>. QED BY <2>a, <3>1, <3>2, <3>3, <3>4, JobKeeps
  <2>7. CASE Unhooks(h)
    <3>. DEFINE where == IF work[h].row = 0 THEN "revoke" ELSE "restore"
                new == [work[h] EXCEPT !.at = where]
    <3>1. work' = [work EXCEPT ![h] = new] /\ UNCHANGED <<conns, age, wanted, tainted>> /\ work[h].at = "unhook"
      BY <2>7 DEF Unhooks, Goto, access, history, At
    <3>2. SafeJob(new) /\ (Brings(new) => Brings(work[h])) /\ new.late = work[h].late /\ new.at # "record"
      BY <2>j, <3>1 DEF SafeJob, Brings, WritesBack
    <3>. HIDE DEF new
    <3>3. ~wanted /\ ~tainted => (Brings(new) => new.late) BY <3>2 DEF SafeInv
    <3>. QED BY <3>1, <3>2, <3>3, QuietKeeps
  <2>8. CASE Revokes(h)
    <3>1. /\ conns' = [c \in Conns |-> IF ToRevoke(c) THEN "revoked" ELSE conns[c]]
          /\ age' = Updated({c \in Conns : ToRevoke(c)})
          /\ work' = [g \in Handlers |-> IF g = h THEN Idle ELSE [work[g] EXCEPT !.late = (work[g].at # "idle")]]
      BY <2>8 DEF Revokes
    <3>2. conns' \in [Conns -> Status] /\ Usable' = {} /\ (Rows # {} => Rows' # {})
      BY <2>j, <3>1 DEF Usable, WithStatus, Rows, ToRevoke, Status
    <3>3. age' \in [Conns -> Nat] BY <3>1, UpdatedRanks
    <3>4. ASSUME NEW g \in Handlers
          PROVE  /\ SafeJob(work'[g]) /\ (work'[g].at = "record" => Rows' # {})
                 /\ Brings(work'[g]) => work'[g].late
      <4>1. CASE g = h BY <2>a, <3>1, <4>1 DEF Idle
      <4>2. CASE g # h
        <5>. DEFINE new == [work[g] EXCEPT !.late = (work[g].at # "idle")]
        <5>1. work'[g] = new BY <3>1, <4>2
        <5>2. SafeJob(work[g]) /\ (work[g].at = "record" => Rows # {}) BY DEF SafeInv, At
        <5>3. new.at = work[g].at /\ new.was = work[g].was /\ new.row = work[g].row /\ DOMAIN new = DOMAIN work[g]
              /\ new.late = (work[g].at # "idle")
          BY <5>2 DEF SafeJob
        <5>. HIDE DEF new
        <5>4. SafeJob(new) /\ (Brings(new) => new.late) BY <5>2, <5>3 DEF SafeJob, Brings, WritesBack
        <5>. QED BY <3>2, <5>1, <5>2, <5>3, <5>4
      <4>. QED BY <4>1, <4>2
    <3>5. DOMAIN work' = Handlers BY <3>1
    <3>. QED BY <3>2, <3>3, <3>4, <3>5 DEF SafeInv, At
  <2>9. CASE Subscribes(h)
    <3>. DEFINE new == [work[h] EXCEPT !.at = "record"]
    <3>1. work' = [work EXCEPT ![h] = new] /\ UNCHANGED <<conns, age, wanted, tainted>> /\ Usable # {}
      BY <2>9 DEF Subscribes, Goto, access, history
    <3>2. Rows # {} BY <3>1 DEF Rows, Usable, WithStatus
    <3>3. SafeJob(new) /\ ~Brings(new) BY <2>j DEF SafeJob, Brings, WritesBack
    <3>. HIDE DEF new
    <3>. QED BY <3>1, <3>2, <3>3, QuietKeeps
  <2>10. CASE Records(h)
    <3>. DEFINE c == Newest(Rows)
                new == [work[h] EXCEPT !.at = "store", !.row = c, !.was = conns[c], !.late = FALSE]
    <3>1. work' = [work EXCEPT ![h] = new] /\ UNCHANGED <<conns, age, wanted, tainted>> /\ work[h].at = "record"
      BY <2>10 DEF Records, access, history, At
    <3>2. c \in Rows
      <4>1. Rows # {} /\ Rows \subseteq Conns BY <3>1 DEF SafeInv, At, Rows
      <4>. QED BY <2>j, <4>1, NewestIn
    <3>3. conns[c] \in Status \ {"none"} /\ (Usable = {} => conns[c] \notin Secret)
      BY <2>j, <3>2 DEF Rows, Usable, WithStatus, Secret
    <3>4. SafeJob(new) /\ new.at = "store" /\ (Usable = {} => ~Brings(new)) BY <2>j, <3>3 DEF SafeJob, Brings, WritesBack
    <3>. HIDE DEF new
    <3>5. ~wanted /\ ~tainted => Usable = {} BY DEF SafeInv
    <3>. QED BY <3>1, <3>4, <3>5, QuietKeeps
  <2>g. Usable # {} => Grantor \in Usable
    <3>1. SUFFICES ASSUME Usable # {} PROVE Grantor \in Usable OBVIOUS
    <3>2. WithStatus("active") \subseteq Conns /\ Usable \subseteq Conns BY DEF WithStatus, Usable
    <3>3. CASE WithStatus("active") # {} BY <2>j, <3>2, <3>3, NewestIn DEF Grantor, Usable
    <3>4. CASE WithStatus("active") = {} BY <2>j, <3>1, <3>2, <3>4, NewestIn DEF Grantor
    <3>. QED BY <3>3, <3>4
  <2>11. CASE Disconnect(h) /\ Usable = {}
    <3>. DEFINE new == [Idle EXCEPT !.at = "unhook"]
    <3>1. work' = [work EXCEPT ![h] = new] /\ UNCHANGED <<conns, age, wanted, tainted>>
      BY <2>11 DEF Disconnect, Begin, access, history
    <3>2. SafeJob(new) /\ ~Brings(new) /\ new.at = "unhook" BY DEF Idle, SafeJob, Brings, WritesBack
    <3>. HIDE DEF new
    <3>. QED BY <3>1, <3>2, QuietKeeps
  <2>12. CASE Disconnect(h) /\ Usable # {}
    <3>. DEFINE new == [Idle EXCEPT !.at = "unhook", !.row = Grantor, !.was = conns[Grantor]]
    <3>1. work' = [work EXCEPT ![h] = new] /\ UNCHANGED <<conns, age, wanted, tainted>>
      BY <2>12 DEF Disconnect, Begin, access, history
    <3>2. conns[Grantor] \in Secret BY <2>12, <2>g DEF Usable, WithStatus, Secret
    <3>3. SafeJob(new) /\ new.at = "unhook" BY <3>2 DEF Idle, SafeJob, WritesBack, Secret, Status
    <3>. HIDE DEF new
    <3>4. ~(~wanted /\ ~tainted) BY <2>12 DEF SafeInv
    <3>. QED BY <3>1, <3>3, <3>4, QuietKeeps
  <2>13. CASE Refresh(h)
    <3>. DEFINE new == [Idle EXCEPT !.at = "refresh", !.row = Grantor, !.was = "active"]
    <3>1. work' = [work EXCEPT ![h] = new] /\ UNCHANGED <<conns, age, wanted, tainted>> /\ Usable # {}
      BY <2>13 DEF Refresh, Begin, access, history
    <3>2. SafeJob(new) /\ new.at = "refresh" BY DEF Idle, SafeJob, WritesBack, Status
    <3>. HIDE DEF new
    <3>3. ~(~wanted /\ ~tainted) BY <3>1 DEF SafeInv
    <3>. QED BY <3>1, <3>2, <3>3, QuietKeeps
  <2>14. CASE Connect(h) \/ Renew(h) \/ Poll(h) \/ (\E c \in Conns : Consent(h, c)) \/ (\E m \in Mails : Take(h, m))
    <3>0. UNCHANGED <<conns, age, wanted, tainted>>
      BY <2>14 DEF Connect, Renew, Poll, Consent, Take, access, history
    <3>1. CASE Connect(h)
      <4>. DEFINE new == [work[h] EXCEPT !.at = "insert"]
      <4>1. DOMAIN new = DOMAIN Idle /\ new.at = "insert" BY <2>a, <2>j DEF SafeJob
      <4>2. work' = [work EXCEPT ![h] = new] BY <3>1 DEF Connect, Goto
      <4>. HIDE DEF new
      <4>. QED BY <2>c, <3>0, <4>1, <4>2
    <3>2. CASE Renew(h)
      <4>. DEFINE new == [Idle EXCEPT !.at = "subscribe"]
      <4>1. DOMAIN new = DOMAIN Idle /\ new.at = "subscribe" BY DEF Idle
      <4>2. work' = [work EXCEPT ![h] = new] BY <3>2 DEF Renew, Begin
      <4>. HIDE DEF new
      <4>. QED BY <2>c, <3>0, <4>1, <4>2
    <3>3. CASE Poll(h)
      <4>. DEFINE new == [Idle EXCEPT !.at = "delta", !.since = cursor]
      <4>1. DOMAIN new = DOMAIN Idle /\ new.at = "delta" BY DEF Idle
      <4>2. work' = [work EXCEPT ![h] = new] BY <3>3 DEF Poll, Begin
      <4>. HIDE DEF new
      <4>. QED BY <2>c, <3>0, <4>1, <4>2
    <3>4. CASE \E c \in Conns : Consent(h, c)
      <4>0. PICK c \in Conns : Consent(h, c) BY <3>4
      <4>. DEFINE new == [Idle EXCEPT !.at = "exchange", !.row = c, !.was = "active"]
      <4>1. DOMAIN new = DOMAIN Idle /\ new.at = "exchange" BY DEF Idle
      <4>2. work' = [work EXCEPT ![h] = new] BY <4>0 DEF Consent, Begin
      <4>. HIDE DEF new
      <4>. QED BY <2>c, <3>0, <4>1, <4>2
    <3>5. CASE \E m \in Mails : Take(h, m)
      <4>0. PICK m \in Mails : Take(h, m) BY <3>5
      <4>. DEFINE new == [Idle EXCEPT !.at = "fetch", !.note = {m}]
      <4>1. DOMAIN new = DOMAIN Idle /\ new.at = "fetch" BY DEF Idle
      <4>2. work' = [work EXCEPT ![h] = new] BY <4>0 DEF Take, Begin
      <4>. HIDE DEF new
      <4>. QED BY <2>c, <3>0, <4>1, <4>2
    <3>. QED BY <2>14, <3>1, <3>2, <3>3, <3>4, <3>5
  <2>15. CASE Polled(h)
    <3>0. UNCHANGED <<conns, age, wanted, tainted>> BY <2>15 DEF Polled, access, history
    <3>1. PICK n : work' = [work EXCEPT ![h] = IF Page(work[h].since, n) = <<>> THEN Idle
                                           ELSE [@ EXCEPT !.at = "file", !.hold = Page(work[h].since, n)]]
      BY <2>15 DEF Polled
    <3>. DEFINE page == Page(work[h].since, n)  new == [work[h] EXCEPT !.at = "file", !.hold = page]
    <3>2. CASE page = <<>> BY <2>b, <3>0, <3>1, <3>2 DEF Leave
    <3>3. CASE page # <<>>
      <4>1. DOMAIN new = DOMAIN Idle /\ new.at = "file" BY <2>a, <2>j DEF SafeJob
      <4>2. work' = [work EXCEPT ![h] = new] BY <3>1, <3>3 DEF SafeInv
      <4>. HIDE DEF new
      <4>. QED BY <2>c, <3>0, <4>1, <4>2
    <3>. QED BY <3>2, <3>3
  <2>16. CASE Fetched(h)
    <3>0. UNCHANGED <<conns, age, wanted, tainted>> BY <2>16 DEF Fetched, access, history
    <3>1. PICK m \in work[h].note : work' = [work EXCEPT ![h].at = "file", ![h].hold = <<m>>] BY <2>16 DEF Fetched
    <3>. DEFINE new == [work[h] EXCEPT !.at = "file", !.hold = <<m>>]
    <3>2. DOMAIN new = DOMAIN Idle /\ new.at = "file" BY <2>a, <2>j DEF SafeJob
    <3>3. work' = [work EXCEPT ![h] = new] BY <3>1 DEF SafeInv
    <3>. HIDE DEF new
    <3>. QED BY <2>c, <3>0, <3>2, <3>3
  <2>17. CASE Checks(h)
    <3>0. UNCHANGED <<conns, age, wanted, tainted>> BY <2>17 DEF Checks, access, history
    <3>. DEFINE new == [work[h] EXCEPT !.at = "write", !.knew = thread]
    <3>2. DOMAIN new = DOMAIN Idle /\ new.at = "write" BY <2>a, <2>j DEF SafeJob
    <3>3. work' = [work EXCEPT ![h] = new] BY <2>17 DEF Checks, SafeInv
    <3>. HIDE DEF new
    <3>. QED BY <2>c, <3>0, <3>2, <3>3
  <2>18. CASE Skips(h) \/ Files(h)
    <3>0. UNCHANGED <<conns, age, wanted, tainted>> /\ Drop(h) BY <2>18 DEF Skips, Files, access, history
    <3>1. CASE Leave(h) BY <2>b, <3>0, <3>1
    <3>2. CASE work' = [work EXCEPT ![h] = [work[h] EXCEPT !.at = "file", !.hold = Tail(work[h].hold)]]
      <4>. DEFINE new == [work[h] EXCEPT !.at = "file", !.hold = Tail(work[h].hold)]
      <4>1. DOMAIN new = DOMAIN Idle /\ new.at = "file" BY <2>a, <2>j DEF SafeJob
      <4>2. work' = [work EXCEPT ![h] = new] BY <3>2 DEF SafeInv
      <4>. HIDE DEF new
      <4>. QED BY <2>c, <3>0, <4>1, <4>2
    <3>. QED BY <3>0, <3>1, <3>2 DEF Drop, SafeInv
  <2>. QED BY <1>5, <2>1, <2>2, <2>3, <2>4, <2>5, <2>6, <2>7, <2>8, <2>9, <2>10, <2>11, <2>12, <2>13, <2>14, <2>15,
             <2>16, <2>17, <2>18
          DEF Request, Work, SettingsStep, SubscriptionStep, IngestStep
<1>. QED BY <1>1, <1>2, <1>3, <1>4, <1>5 DEF Next

\* After disconnect the user has no token on file until the next consent, unless a handler that
\* had read the connection before disconnect revoked it has written it back since.
THEOREM DisconnectStands == ASSUME MailBounds PROVE Spec => []DisconnectHolds
<1>1. SafeInv => DisconnectHolds BY DEF SafeInv, DisconnectHolds
<1>2. Init => SafeInv BY SafeInit
<1>3. SafeInv /\ [Next]_mailVars => SafeInv' BY SafeStep
<1>. QED BY <1>1, <1>2, <1>3, PTL DEF Spec
-----------------------------------------------------------------------------
\* The rows are in one order: who is written comes before who is not, and no two share a place.
LEMMA UpdatedOrder ==
  ASSUME MailBounds, NEW S, age \in [Conns -> Nat], \A c, d \in Conns : age[c] = age[d] => c = d,
         NEW c \in Conns, NEW d \in Conns, Updated(S)[c] = Updated(S)[d]
  PROVE  c = d
<1>. DEFINE Above(x) == {y \in Conns \ {x} : IF x \in S THEN y \in S /\ age[y] > age[x]
                                             ELSE y \in S \/ age[y] < age[x]}
<1>1. \A x \in Conns : Updated(S)[x] = Cardinality(Above(x)) BY DEF Updated
<1>2. ASSUME NEW x \in Conns, NEW y \in Conns, y \in Above(x), Cardinality(Above(x)) = Cardinality(Above(y))
      PROVE  FALSE
  <2>1. Above(y) \subseteq Above(x) /\ y \notin Above(y) BY <1>2
  <2>2. IsFiniteSet(Above(x)) BY FS_Subset DEF MailBounds
  <2>. HIDE DEF Above
  <2>. QED BY <1>2, <2>1, <2>2, FS_Subset
<1>3. c = d \/ c \in Above(d) \/ d \in Above(c) OBVIOUS
<1>. HIDE DEF Above
<1>. QED BY <1>1, <1>2, <1>3

\* Every step writes rows so, or none.
LEMMA AgeSteps ==
  ASSUME Next PROVE UNCHANGED age \/ \E S : age' = Updated(S)
<1>. USE DEF access
<1>1. ASSUME NEW h \in Handlers, SettingsStep(h) \/ Request(h) PROVE UNCHANGED age \/ \E S : age' = Updated(S)
  BY <1>1 DEF SettingsStep, Request, Inserts, Exchanged, ExchangeClashes, ExchangeFails, Unhooks, Restores, Revokes,
       Refreshes, RefreshFails, Connect, Disconnect, Refresh, Renew, Consent, Put, PutBack
<1>2. ASSUME NEW h \in Handlers, SubscriptionStep(h) \/ IngestStep(h) \/ Die(h)
      PROVE UNCHANGED age \/ \E S : age' = Updated(S)
  BY <1>2 DEF SubscriptionStep, IngestStep, Die, Subscribes, SubscribeFails, Records, Stores, Poll, Polled, PollFails,
       PollRefused, Fetched, FetchFails, FetchRefused, Skips, Checks, Files, FileClashes, Take, Put, PutBack
<1>3. ASSUME NEW c \in Conns, Expire(c) \/ SessionEnds(c) PROVE UNCHANGED age \/ \E S : age' = Updated(S)
  BY <1>3 DEF Expire, SessionEnds, Put
<1>4. ASSUME NEW m \in Mails, Arrive(m) \/ Notify(m) PROVE UNCHANGED age BY <1>4 DEF Arrive, Notify
<1>. QED BY <1>1, <1>2, <1>3, <1>4 DEF Next, Work

\* A handler has not read further than the inbox goes, and files what it holds; a message that
\* waits may be given out once more.
Fits(job) == job.since <= Len(inbox) /\ (job.at \in {"file", "write"} => job.hold # <<>>)
Spare(note) == note.state \in {"none", "ready"} => note.tries < MaxDeliver
Note == [state: {"none", "ready", "taken", "done", "dead"}, tries: 0 .. MaxDeliver]
FitInv ==
  /\ TypeInv /\ \A m \in Mails : Spare(notes[m])
  /\ \A h \in Handlers : Fits(work[h])

LEMMA IdleTyped == Idle \in Job
BY DEF Idle, Job, Status

LEMMA FitInit == ASSUME MailBounds, Init PROVE FitInv
<1>1. conns \in [Conns -> Status] /\ age \in [Conns -> Nat] BY SafeInit DEF SafeInv
<1>2. \A c, d \in Conns : age[c] = age[d] => c = d
  <2>1. \A c \in Conns : c \in Nat \ {0} BY DEF MailBounds
  <2>2. PICK start \in {"new", "asking", "connected"} :
          age = [c \in Conns |-> IF start = "asking" /\ c < 3 THEN 2 - c ELSE c - 1]
    BY DEF Init
  <2>3. \A c \in Conns : age[c] = IF start = "asking" /\ c < 3 THEN 2 - c ELSE c - 1 BY <2>2
  <2>4. ASSUME NEW c \in Conns, NEW d \in Conns, age[c] = age[d] PROVE c = d
    <3>1. c \in Nat \ {0} /\ d \in Nat \ {0} BY <2>1
    <3>. QED BY <2>3, <2>4, <3>1
  <2>. QED BY <2>4
<1>3. sessions \subseteq Conns /\ {sub, junk, thread, hooked, wanted, tainted} \subseteq BOOLEAN
  BY DEF Init, MailBounds
<1>4. inbox = <<>> /\ cursor = 0 /\ filed = {} /\ torn = {} /\ budget \in Nat BY DEF Init, MailBounds
<1>5. cursor \in 0 .. Len(inbox) /\ inbox \in Seq(Mails) BY <1>4
<1>6. notes \in [Mails -> Note] /\ \A m \in Mails : Spare(notes[m]) BY DEF Init, MailBounds, Note, Spare
<1>7. work \in [Handlers -> Job] /\ \A h \in Handlers : Fits(work[h])
  <2>1. work = [h \in Handlers |-> Idle] BY DEF Init
  <2>2. Fits(Idle) BY <1>4 DEF Fits, Idle
  <2>. QED BY <2>1, <2>2, IdleTyped
<1>. QED BY <1>1, <1>2, <1>3, <1>4, <1>5, <1>6, <1>7 DEF FitInv, TypeInv, Note

LEMMA FitStep == ASSUME MailBounds, SafeInv, SafeInv', FitInv, Next PROVE FitInv'
<1>. USE DEF access, notices, ingest, history
<1>a. /\ sessions \subseteq Conns /\ sub \in BOOLEAN /\ junk \in BOOLEAN /\ thread \in BOOLEAN
      /\ hooked \in BOOLEAN /\ wanted \in BOOLEAN /\ tainted \in BOOLEAN
      /\ cursor \in 0 .. Len(inbox) /\ inbox \in Seq(Mails) /\ filed \subseteq Mails /\ torn \subseteq Mails
      /\ notes \in [Mails -> Note] /\ (\A m \in Mails : Spare(notes[m])) /\ budget \in Nat
      /\ work \in [Handlers -> Job] /\ \A h \in Handlers : Fits(work[h])
  BY DEF FitInv, TypeInv, Note
<1>b. conns \in [Conns -> Status] /\ age \in [Conns -> Nat] /\ Rows \subseteq Conns /\ Usable \subseteq Conns
  BY DEF SafeInv, Rows, Usable, WithStatus
<1>c. Event => budget' \in Nat BY <1>a DEF Event
<1>d. \A c, d \in Conns : age'[c] = age'[d] => c = d
  BY <1>b, AgeSteps, UpdatedOrder DEF FitInv, TypeInv
<1>e. Idle \in Job /\ Fits(Idle) BY <1>a, IdleTyped DEF Idle, Fits
<1>f. ASSUME /\ sessions' \subseteq Conns /\ sub' \in BOOLEAN /\ junk' \in BOOLEAN /\ thread' \in BOOLEAN
             /\ hooked' \in BOOLEAN /\ wanted' \in BOOLEAN /\ tainted' \in BOOLEAN
             /\ cursor' \in 0 .. Len(inbox') /\ inbox' \in Seq(Mails) /\ filed' \subseteq Mails /\ torn' \subseteq Mails
             /\ notes' \in [Mails -> Note] /\ (\A m \in Mails : Spare(notes'[m])) /\ budget' \in Nat
             /\ work' \in [Handlers -> Job] /\ \A h \in Handlers : Fits(work[h])'
      PROVE  FitInv'
  <2>1. conns' \in [Conns -> Status] /\ age' \in [Conns -> Nat] BY DEF SafeInv
  <2>. QED BY <1>d, <1>f, <2>1 DEF FitInv, TypeInv, Note
<1>g. UNCHANGED <<work, inbox>> => work' \in [Handlers -> Job] /\ \A h \in Handlers : Fits(work[h])'
  BY <1>a DEF Fits
<1>1. ASSUME NEW c \in Conns, Expire(c) \/ SessionEnds(c) PROVE FitInv'
  BY <1>1, <1>a, <1>c, <1>f, <1>g DEF Expire, SessionEnds
<1>2. ASSUME NEW m \in Mails, Arrive(m) PROVE FitInv'
  <2>1. inbox' \in Seq(Mails) /\ Len(inbox') = Len(inbox) + 1 /\ Len(inbox) \in Nat BY <1>2, <1>a DEF Arrive
  <2>2. cursor' \in 0 .. Len(inbox') BY <1>2, <1>a, <2>1 DEF Arrive
  <2>3. \A h \in Handlers : work[h].since \in Nat BY <1>a DEF Job
  <2>4. \A h \in Handlers : Fits(work[h])' BY <1>2, <1>a, <2>1, <2>3 DEF Arrive, Fits
  <2>. QED BY <1>2, <1>a, <1>c, <1>f, <2>1, <2>2, <2>4 DEF Arrive
<1>3. ASSUME NEW m \in Mails, Notify(m) PROVE FitInv'
  <2>1. notes' \in [Mails -> Note] BY <1>3, <1>a DEF Notify, Note
  <2>2. \A n \in Mails : Spare(notes'[n]) BY <1>3, <1>a DEF Notify, Note, Spare
  <2>. QED BY <1>3, <1>a, <1>f, <1>g, <2>1, <2>2 DEF Notify
<1>4. ASSUME NEW h \in Handlers, Request(h) \/ Work(h) \/ Die(h) PROVE FitInv'
  <2>a. work[h] \in Job /\ Fits(work[h]) BY <1>a
  \* The handler has other work now.
  <2>b. ASSUME NEW job \in Job, Fits(job), work' = [work EXCEPT ![h] = job], inbox' = inbox
        PROVE  work' \in [Handlers -> Job] /\ \A g \in Handlers : Fits(work[g])'
    <3>1. \A g \in Handlers : work'[g] = IF g = h THEN job ELSE work[g] BY <1>a, <2>b
    <3>. QED BY <1>a, <2>b, <3>1 DEF Fits
  <2>c. ASSUME NEW where \in {"insert", "subscribe", "record", "restore", "revoke"},
               Goto(h, where), inbox' = inbox
        PROVE  work' \in [Handlers -> Job] /\ \A g \in Handlers : Fits(work[g])'
    <3>1. [work[h] EXCEPT !.at = where] \in Job /\ Fits([work[h] EXCEPT !.at = where]) BY <2>a DEF Job, Fits
    <3>. QED BY <2>b, <2>c, <3>1 DEF Goto
  <2>d. Leave(h) /\ inbox' = inbox => work' \in [Handlers -> Job] /\ \A g \in Handlers : Fits(work[g])'
    BY <1>e, <2>b DEF Leave
  <2>e. ASSUME NEW where \in {"exchange", "unhook", "refresh", "subscribe"}, NEW row \in Conns \cup {0}, NEW was \in Status,
               Begin(h, [Idle EXCEPT !.at = where, !.row = row, !.was = was]), inbox' = inbox
        PROVE  work' \in [Handlers -> Job] /\ \A g \in Handlers : Fits(work[g])'
    <3>. DEFINE job == [Idle EXCEPT !.at = where, !.row = row, !.was = was]
    <3>1. job \in Job /\ Fits(job) BY <1>e DEF Job, Fits
    <3>2. work' = [work EXCEPT ![h] = job] BY <2>e DEF Begin
    <3>. HIDE DEF job
    <3>. QED BY <2>b, <2>e, <3>1, <3>2
  <2>f. Usable # {} => Grantor \in Conns /\ conns[Grantor] \in Status
    <3>1. ASSUME Usable # {} PROVE Grantor \in Usable
      BY <1>b, <3>1, NewestIn DEF Grantor, Usable
    <3>. QED BY <1>b, <3>1
  <2>g. PutBack(h) => tainted' \in BOOLEAN BY <1>a, <2>a DEF PutBack, Job
  \* What becomes of the messages.
  <2>h. notes' \in {notes, Answered(h), GivenBack(h)} => notes' \in [Mails -> Note] /\ \A m \in Mails : Spare(notes'[m])
    <3>1. \A m \in Mails : /\ [notes[m] EXCEPT !.state = "done"] \in Note /\ Spare([notes[m] EXCEPT !.state = "done"])
                           /\ [notes[m] EXCEPT !.state = "dead"] \in Note /\ Spare([notes[m] EXCEPT !.state = "dead"])
      BY <1>a DEF Note, Spare
    <3>2. \A m \in Mails : notes[m].tries < MaxDeliver =>
            [notes[m] EXCEPT !.state = "ready"] \in Note /\ Spare([notes[m] EXCEPT !.state = "ready"])
      BY <1>a DEF Note, Spare
    <3>3. CASE notes' = notes BY <1>a, <3>3
    <3>4. CASE notes' = Answered(h) BY <1>a, <3>1, <3>4 DEF Answered
    <3>5. CASE notes' = GivenBack(h)
      <4>1. ASSUME NEW m \in Mails PROVE notes'[m] \in Note /\ Spare(notes'[m])
        <5>1. CASE m \notin work[h].note BY <1>a, <3>5, <5>1 DEF GivenBack
        <5>2. CASE m \in work[h].note /\ notes[m].tries < MaxDeliver BY <3>2, <3>5, <5>2 DEF GivenBack
        <5>3. CASE m \in work[h].note /\ ~(notes[m].tries < MaxDeliver) BY <3>1, <3>5, <5>3 DEF GivenBack
        <5>. QED BY <5>1, <5>2, <5>3
      <4>2. notes' = [m \in Mails |-> notes'[m]] BY <3>5 DEF GivenBack
      <4>. QED BY <4>1, <4>2
    <3>. QED BY <3>3, <3>4, <3>5
  <2>i. Torn(h) \subseteq Mails
    <3>1. Held(h) \subseteq Mails BY <2>a DEF Held, Job
    <3>. QED BY <1>a, <3>1 DEF Torn
  <2>j. Raise(h) /\ inbox' = inbox =>
          /\ notes' \in [Mails -> Note] /\ (\A m \in Mails : Spare(notes'[m])) /\ torn' \subseteq Mails
          /\ work' \in [Handlers -> Job] /\ \A g \in Handlers : Fits(work[g])'
    BY <2>d, <2>h, <2>i DEF Raise
  <2>1. CASE Connect(h) BY <2>1, <1>a, <1>c, <1>f, <2>c DEF Connect
  <2>2. CASE Inserts(h)
    <3>1. WithStatus("none") \subseteq Conns /\ WithStatus("none") # {} BY <2>2 DEF Inserts, WithStatus
    <3>2. \E c \in WithStatus("none") : \A y \in WithStatus("none") : c <= y
      <4>1. WithStatus("none") \subseteq Nat BY <3>1 DEF MailBounds
      <4>. QED BY <3>1, <4>1, Least
    <3>3. sessions' \subseteq Conns BY <2>2, <1>a, <3>1, <3>2 DEF Inserts
    <3>. QED BY <2>2, <1>a, <1>f, <2>d, <3>3 DEF Inserts
  <2>3. ASSUME NEW c \in Conns, Consent(h, c) PROVE FitInv'
    BY <2>3, <1>a, <1>c, <1>f, <2>e DEF Consent, Status
  <2>4. CASE Exchanged(h) BY <2>4, <1>a, <1>f, <2>c DEF Exchanged
  <2>5. CASE ExchangeClashes(h) \/ ExchangeFails(h) BY <2>5, <1>a, <1>c, <1>f, <2>d DEF ExchangeClashes, ExchangeFails
  <2>6. CASE Disconnect(h)
    <3>1. CASE Usable = {}
      <4>1. [Idle EXCEPT !.at = "unhook"] \in Job /\ Fits([Idle EXCEPT !.at = "unhook"]) BY <1>e DEF Job, Fits
      <4>. QED BY <2>6, <1>a, <1>c, <1>f, <2>b, <3>1, <4>1 DEF Disconnect, Begin
    <3>2. CASE Usable # {} BY <2>6, <1>a, <1>c, <1>f, <2>e, <2>f, <3>2 DEF Disconnect
    <3>. QED BY <3>1, <3>2
  <2>7. CASE Unhooks(h)
    <3>1. Goto(h, "revoke") \/ Goto(h, "restore") BY <2>7 DEF Unhooks
    <3>. QED BY <2>7, <1>a, <1>c, <1>f, <2>c, <3>1 DEF Unhooks
  <2>8. CASE Restores(h) BY <2>8, <1>a, <1>f, <2>c, <2>g DEF Restores
  <2>9. CASE Revokes(h)
    <3>1. \A g \in Handlers : LET job == [work[g] EXCEPT !.late = (work[g].at # "idle")] IN job \in Job /\ Fits(job)
      BY <1>a DEF Job, Fits
    <3>2. \A g \in Handlers : work'[g] \in Job /\ Fits(work'[g]) BY <2>9, <1>e, <3>1 DEF Revokes
    <3>3. work' = [g \in Handlers |-> work'[g]] /\ inbox' = inbox BY <2>9 DEF Revokes
    <3>4. work' \in [Handlers -> Job] /\ \A g \in Handlers : Fits(work[g])' BY <3>2, <3>3 DEF Fits
    <3>. QED BY <2>9, <1>a, <1>f, <3>4 DEF Revokes
  <2>10. CASE Refresh(h) BY <2>10, <1>a, <1>c, <1>f, <2>e, <2>f DEF Refresh, Status
  <2>11. CASE Refreshes(h) \/ Stores(h) BY <2>11, <1>a, <1>f, <2>d, <2>g DEF Refreshes, Stores
  <2>12. CASE RefreshFails(h) \/ SubscribeFails(h) BY <2>12, <1>a, <1>c, <1>f, <2>d DEF RefreshFails, SubscribeFails
  <2>13. CASE Renew(h)
    <3>1. [Idle EXCEPT !.at = "subscribe"] \in Job /\ Fits([Idle EXCEPT !.at = "subscribe"]) BY <1>e DEF Job, Fits
    <3>. QED BY <2>13, <1>a, <1>c, <1>f, <2>b, <3>1 DEF Renew, Begin
  <2>14. CASE Subscribes(h) BY <2>14, <1>a, <1>f, <2>c DEF Subscribes
  <2>15. CASE Records(h)
    <3>1. Rows # {} BY <2>15 DEF Records, SafeInv
    <3>2. Newest(Rows) \in Conns /\ conns[Newest(Rows)] \in Status BY <1>b, <3>1, NewestIn
    <3>. DEFINE job == [work[h] EXCEPT !.at = "store", !.row = Newest(Rows), !.was = conns[Newest(Rows)], !.late = FALSE]
    <3>3. job \in Job /\ Fits(job) BY <2>a, <3>2 DEF Job, Fits
    <3>4. work' = [work EXCEPT ![h] = job] /\ inbox' = inbox BY <2>15 DEF Records
    <3>. HIDE DEF job
    <3>5. work' \in [Handlers -> Job] /\ \A g \in Handlers : Fits(work[g])' BY <2>b, <3>3, <3>4
    <3>. QED BY <2>15, <1>a, <1>f, <3>5 DEF Records
  <2>16. CASE Poll(h)
    <3>. DEFINE job == [Idle EXCEPT !.at = "delta", !.since = cursor]
    <3>1. cursor \in Nat /\ cursor <= Len(inbox) BY <1>a
    <3>2. job \in Job /\ Fits(job) BY <1>e, <3>1 DEF Job, Fits
    <3>3. work' = [work EXCEPT ![h] = job] /\ inbox' = inbox BY <2>16 DEF Poll, Begin
    <3>. HIDE DEF job
    <3>4. work' \in [Handlers -> Job] /\ \A g \in Handlers : Fits(work[g])' BY <2>b, <3>2, <3>3
    <3>. QED BY <2>16, <1>a, <1>f, <3>4 DEF Poll
  <2>17. CASE Polled(h)
    <3>1. PICK n \in work[h].since + 1 .. Len(inbox) :
            LET page == Page(work[h].since, n)
            IN /\ cursor' = n
               /\ work' = [work EXCEPT ![h] = IF page = <<>> THEN Idle ELSE [@ EXCEPT !.at = "file", !.hold = page]]
      BY <2>17 DEF Polled
    <3>. DEFINE page == Page(work[h].since, n)
    <3>2. work[h].since \in Nat /\ Len(inbox) \in Nat BY <1>a, <2>a DEF Job
    <3>3. n \in 1 .. Len(inbox) /\ work[h].since + 1 \in 1 .. n BY <3>1, <3>2
    <3>4. page \in Seq(Mails)
      <4>1. \A i \in work[h].since + 1 .. n : inbox[i] \in Mails BY <1>a, <3>2, <3>3
      <4>. QED BY <4>1, <1>a, <3>2, <3>3 DEF Page
    <3>5. cursor' \in 0 .. Len(inbox) BY <3>1, <3>3
    <3>. HIDE DEF page
    <3>6. CASE page = <<>>
      <4>1. Leave(h) BY <3>1, <3>6 DEF Leave, page
      <4>. QED BY <2>17, <1>a, <1>f, <2>d, <3>5, <4>1 DEF Polled
    <3>7. CASE page # <<>>
      <4>. DEFINE job == [work[h] EXCEPT !.at = "file", !.hold = page]
      <4>1. job \in Job /\ Fits(job) BY <2>a, <3>4, <3>7 DEF Job, Fits
      <4>2. work' = [work EXCEPT ![h] = job] BY <3>1, <3>7 DEF page
      <4>. HIDE DEF job
      <4>3. inbox' = inbox BY <2>17 DEF Polled
      <4>4. work' \in [Handlers -> Job] /\ \A g \in Handlers : Fits(work[g])' BY <2>b, <4>1, <4>2, <4>3
      <4>. QED BY <2>17, <1>a, <1>f, <3>5, <4>3, <4>4 DEF Polled
    <3>. QED BY <3>6, <3>7
  <2>18. CASE PollFails(h)
    <3>1. work[h].since \in 0 .. Len(inbox) BY <1>a, <2>a DEF Job, Fits
    <3>. QED BY <2>18, <1>a, <1>c, <1>f, <2>d, <3>1 DEF PollFails
  <2>19. CASE PollRefused(h) BY <2>19, <1>a, <1>f, <2>d DEF PollRefused
  <2>20. ASSUME NEW m \in Mails, Take(h, m) PROVE FitInv'
    <3>. DEFINE job == [Idle EXCEPT !.at = "fetch", !.note = {m}]
    <3>1. job \in Job /\ Fits(job) BY <1>e DEF Job, Fits
    <3>2. work' = [work EXCEPT ![h] = job] /\ inbox' = inbox BY <2>20 DEF Take, Begin
    <3>. HIDE DEF job
    <3>3. work' \in [Handlers -> Job] /\ \A g \in Handlers : Fits(work[g])' BY <2>b, <3>1, <3>2
    <3>4. notes[m].tries \in 0 .. MaxDeliver /\ notes[m].tries < MaxDeliver BY <2>20, <1>a DEF Take, Spare, Note
    <3>5. notes' = [notes EXCEPT ![m] = [state |-> "taken", tries |-> notes[m].tries + 1]] BY <2>20 DEF Take
    <3>6. [state |-> "taken", tries |-> notes[m].tries + 1] \in Note BY <3>4 DEF Note, MailBounds
    <3>7. notes' \in [Mails -> Note] /\ \A x \in Mails : Spare(notes'[x]) BY <1>a, <3>5, <3>6 DEF Spare
    <3>. QED BY <2>20, <1>a, <1>f, <3>3, <3>7 DEF Take
  <2>21. CASE Fetched(h)
    <3>1. PICK m \in work[h].note : work' = [work EXCEPT ![h].at = "file", ![h].hold = <<m>>] BY <2>21 DEF Fetched
    <3>. DEFINE job == [work[h] EXCEPT !.at = "file", !.hold = <<m>>]
    <3>2. m \in Mails /\ <<m>> \in Seq(Mails) /\ <<m>> # <<>> BY <2>a, <3>1 DEF Job
    <3>3. job \in Job /\ Fits(job) BY <2>a, <3>2 DEF Job, Fits
    <3>4. work' = [work EXCEPT ![h] = job] /\ inbox' = inbox BY <2>21, <3>1 DEF Fetched
    <3>. HIDE DEF job
    <3>5. work' \in [Handlers -> Job] /\ \A g \in Handlers : Fits(work[g])' BY <2>b, <3>3, <3>4
    <3>. QED BY <2>21, <1>a, <1>f, <3>5 DEF Fetched
  <2>22. CASE FetchFails(h) BY <2>22, <1>a, <1>c, <1>f, <2>d, <2>h DEF FetchFails
  <2>23. CASE FetchRefused(h) \/ FileClashes(h) BY <2>23, <1>a, <1>f, <2>j DEF FetchRefused, FileClashes
  <2>24. CASE Die(h) BY <2>24, <1>a, <1>c, <1>f, <2>j DEF Die
  \* It drops the first of the mails that it holds.
  <2>k. ASSUME work[h].at \in {"file", "write"}, Drop(h), inbox' = inbox
        PROVE  /\ notes' \in [Mails -> Note] /\ (\A m \in Mails : Spare(notes'[m]))
               /\ work' \in [Handlers -> Job] /\ \A g \in Handlers : Fits(work[g])'
    <3>1. work[h].hold \in Seq(Mails) /\ work[h].hold # <<>> BY <2>a, <2>k DEF Job, Fits
    <3>2. CASE Len(work[h].hold) = 1 BY <2>d, <2>h, <2>k, <3>2 DEF Drop
    <3>3. CASE Len(work[h].hold) # 1
      <4>. DEFINE tail == Tail(work[h].hold)  job == [work[h] EXCEPT !.at = "file", !.hold = tail]
      <4>1. tail \in Seq(Mails) /\ tail # <<>> BY <3>1, <3>3, HeadAndTail
      <4>2. work' = [work EXCEPT ![h] = job] /\ notes' = notes BY <2>k, <3>3 DEF Drop
      <4>. HIDE DEF tail
      <4>3. job \in Job /\ Fits(job) BY <2>a, <4>1 DEF Job, Fits
      <4>. HIDE DEF job
      <4>. QED BY <1>a, <2>b, <2>k, <4>2, <4>3
    <3>. QED BY <3>2, <3>3
  <2>25. CASE Skips(h) BY <2>25, <1>a, <1>f, <2>k DEF Skips, At
  <2>26. CASE Files(h)
    <3>1. work[h].hold \in Seq(Mails) /\ work[h].hold # <<>> BY <2>a, <2>26 DEF Files, At, Job, Fits
    <3>2. Head(work[h].hold) \in Mails BY <3>1
    <3>. QED BY <2>26, <1>a, <1>f, <2>k, <3>2 DEF Files, At
  <2>27. CASE Checks(h)
    <3>. DEFINE job == [work[h] EXCEPT !.at = "write", !.knew = thread]
    <3>1. job \in Job /\ Fits(job) BY <1>a, <2>a, <2>27 DEF Checks, At, Job, Fits
    <3>2. work' = [work EXCEPT ![h] = job] /\ inbox' = inbox BY <2>27 DEF Checks
    <3>. HIDE DEF job
    <3>3. work' \in [Handlers -> Job] /\ \A g \in Handlers : Fits(work[g])' BY <2>b, <3>1, <3>2
    <3>. QED BY <2>27, <1>a, <1>f, <3>3 DEF Checks
  <2>. QED BY <1>4, <2>1, <2>2, <2>3, <2>4, <2>5, <2>6, <2>7, <2>8, <2>9, <2>10, <2>11, <2>12, <2>13, <2>14, <2>15, <2>16,
              <2>17, <2>18, <2>19, <2>20, <2>21, <2>22, <2>23, <2>24, <2>25, <2>26, <2>27
           DEF Request, Work, SettingsStep, SubscriptionStep, IngestStep
<1>. QED BY <1>1, <1>2, <1>3, <1>4 DEF Next

\* Everything has its type, and the rows stay in one order.
THEOREM TypeCorrect == ASSUME MailBounds PROVE Spec => []TypeInv
<1>1. Init => SafeInv /\ FitInv BY SafeInit, FitInit
<1>2. SafeInv /\ FitInv /\ [Next]_mailVars => SafeInv' /\ FitInv'
  <2>1. CASE UNCHANGED mailVars
    <3>1. SafeInv /\ FitInv => FitInv'
      BY <2>1 DEF mailVars, access, notices, ingest, history, FitInv, TypeInv, Fits
    <3>. QED BY <2>1, <3>1, SafeStep
  <2>. QED BY <2>1, SafeStep, FitStep
<1>3. FitInv => TypeInv BY DEF FitInv
<1>. QED BY <1>1, <1>2, <1>3, PTL DEF Spec
=============================================================================
