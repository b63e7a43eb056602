----------------------------- MODULE Threshold ------------------------------
(***************************************************************************)
(* A user's match threshold: the row of backend/app/settings that the user *)
(* edits, the preference of backend/app/matching, and the match-recalc     *)
(* queue between them. Scoring reads the preference until Learning has     *)
(* personalized the user's parameters: see ThresholdUsed of MatchOps.      *)
(*                                                                         *)
(* A store call of Cosmos reads the row and then writes it back, even when *)
(* it is only asked to read; the version that PATCH expects is compared    *)
(* with the copy. The in-memory store behaves like that with nothing       *)
(* between the read and the write.                                         *)
(***************************************************************************)
EXTENDS Naturals, Sequences

CONSTANTS
  Levels,      \* the thresholds there may be
  Tried,       \* bound: those that the user sets
  Default,     \* DEFAULT_MATCH_THRESHOLD and DEFAULT_THRESHOLD_PCT
  MaxTries,    \* attempts of _patch_with_retry
  MaxHandlers, \* bound: handlers at work at a time
  MaxEvents    \* bound: requests, failures and deaths

\* What the composition assumes of the constants.
ThresholdBounds ==
  {Default} \cup Tried \subseteq Levels /\ Levels \subseteq Nat /\ {MaxTries, MaxHandlers, MaxEvents} \subseteq Nat

VARIABLES
  settings, \* user_settings: the threshold and the version of the row
  prefs,    \* user_match_prefs: the preference
  posts,    \* match-recalc: the messages sent so far
  work,     \* the handlers
  budget,   \* how many events are left
  strayed   \* history: what could part the two, see Strays
thresholdVars == <<settings, prefs, posts, work, budget, strayed>>

Handlers == 1 .. MaxHandlers
Row == [level: Levels, version: Nat]
Idle == [at |-> "idle", want |-> Default, old |-> Default, row |-> [level |-> Default, version |-> 1],
         base |-> [level |-> Default, version |-> 1], tries |-> 0, post |-> 0]

TypeInv ==
  /\ strayed \in BOOLEAN
  /\ settings \in Row /\ prefs \in Levels
  /\ posts \in Seq([level: Levels, state: {"ready", "taken", "done"}])
  /\ work \in [Handlers ->
       [at: {"idle", "view", "get", "update", "put", "reget", "send", "apply"}, want: Levels,
        old: Levels, row: Row, base: Row, tries: 0 .. MaxTries, post: 0 .. Len(posts)]]
  /\ budget \in Nat

Init ==
  /\ settings = [level |-> Default, version |-> 1] /\ prefs = Default
  /\ posts = <<>> /\ work = [h \in Handlers |-> Idle]
  /\ budget \in 0 .. MaxEvents /\ strayed = FALSE

-----------------------------------------------------------------------------
Event == budget > 0 /\ budget' = budget - 1
Free(h) == work[h].at = "idle" /\ \A g \in Handlers : g < h => work[g].at # "idle"
At(h, where) == work[h].at = where
Begin(h, job) == work' = [work EXCEPT ![h] = job]
Leave(h) == work' = [work EXCEPT ![h] = Idle]

\* The settings and the preference part when a row is written over a newer one, when the
\* preference takes a threshold that is not the user's any more, and when a PATCH compares
\* its threshold with one that another PATCH has replaced.
Strays(why) == strayed' = (strayed \/ why)
Write(row) == settings' = row
Prefer(level) == prefs' = level /\ Strays(level # settings.level)

\* get_or_create_settings reads, and writes what it read.
Look(h, where, job) == Begin(h, [job EXCEPT !.at = where, !.row = settings, !.base = settings])
PutBack(h) == Write(work[h].row) /\ Strays(work[h].base # settings)

\* GET /v1/settings.
View(h) ==
  /\ Event /\ Free(h)
  /\ Look(h, "view", Idle)
  /\ UNCHANGED <<settings, prefs, posts, strayed>>
Viewed(h) ==
  /\ At(h, "view")
  /\ PutBack(h)
  /\ Leave(h)
  /\ UNCHANGED <<prefs, posts, budget>>

\* PATCH /v1/settings: the old threshold and the version are read once for all.
Patch(h, level) ==
  /\ Event /\ Free(h)
  /\ Look(h, "get", [Idle EXCEPT !.want = level, !.old = settings.level])
  /\ UNCHANGED <<settings, prefs, posts, strayed>>
Got(h) ==
  /\ At(h, "get")
  /\ PutBack(h)
  /\ IF work[h].tries < MaxTries THEN work' = [work EXCEPT ![h].at = "update"] ELSE Leave(h)
  /\ UNCHANGED <<prefs, posts, budget>>

\* update_settings, under _patch_with_retry, which reads the settings again after the last
\* conflict too.
Matches(h) == work[h].row.version = settings.version
Patched(h) ==
  IF settings.level = work[h].want THEN settings
  ELSE [level |-> work[h].want, version |-> settings.version + 1]
Updates(h) ==
  /\ At(h, "update") /\ Matches(h)
  /\ work' = [work EXCEPT ![h].at = "put", ![h].row = Patched(h), ![h].base = settings]
  /\ Strays(settings.level # work[h].old)
  /\ UNCHANGED <<settings, prefs, posts, budget>>
Conflicts(h) ==
  /\ At(h, "update") /\ ~Matches(h)
  /\ work' = [work EXCEPT ![h].at = "reget", ![h].tries = @ + 1]
  /\ UNCHANGED <<settings, prefs, posts, budget, strayed>>
Regets(h) ==
  /\ At(h, "reget")
  /\ Look(h, "get", work[h])
  /\ UNCHANGED <<settings, prefs, posts, budget, strayed>>

\* Mutant: only a threshold that rises is passed on.
Raised(h) == work[h].row.level > work[h].old
Changed(h) == work[h].row.level # work[h].old
Puts(h) ==
  /\ At(h, "put")
  /\ PutBack(h)
  /\ IF Changed(h) THEN work' = [work EXCEPT ![h].at = "send"] ELSE Leave(h)
  /\ UNCHANGED <<prefs, posts, budget>>
Sends(h) ==
  /\ At(h, "send")
  /\ posts' = Append(posts, [level |-> work[h].row.level, state |-> "ready"])
  /\ work' = [work EXCEPT ![h].at = "apply"]
  /\ UNCHANGED <<settings, prefs, budget, strayed>>
SendFails(h) ==
  /\ At(h, "send") /\ Event
  /\ Leave(h) /\ Strays(TRUE)
  /\ UNCHANGED <<settings, prefs, posts>>

-----------------------------------------------------------------------------
\* apply_match_recalc, which the request calls itself and the queue calls again. It passes
\* on nothing that goes wrong.
Done(h) == posts' = [i \in DOMAIN posts |-> IF i = work[h].post THEN [posts[i] EXCEPT !.state = "done"] ELSE posts[i]]
Take(h, i) ==
  /\ Free(h) /\ posts[i].state = "ready"
  /\ posts' = [posts EXCEPT ![i].state = "taken"]
  /\ Begin(h, [Idle EXCEPT !.at = "apply", !.row.level = posts[i].level, !.post = i])
  /\ UNCHANGED <<settings, prefs, budget, strayed>>
Applies(h) ==
  /\ At(h, "apply")
  /\ Prefer(work[h].row.level) /\ Leave(h) /\ Done(h)
  /\ UNCHANGED <<settings, budget>>
\* It raises inside: the preference stays, and the request or the message counts as done.
ApplyFails(h) ==
  /\ At(h, "apply") /\ Event
  /\ Leave(h) /\ Done(h) /\ Strays(TRUE)
  /\ UNCHANGED <<settings, prefs>>

\* A handler dies half-way; a message is given out again, a threshold that is stored is not
\* passed on.
Stored(h) == work[h].at \in {"send", "apply"}
Die(h) ==
  /\ work[h].at # "idle" /\ Event
  /\ Leave(h) /\ Strays(work[h].post = 0 /\ Stored(h))
  /\ posts' = [i \in DOMAIN posts |-> IF i = work[h].post THEN [posts[i] EXCEPT !.state = "ready"] ELSE posts[i]]
  /\ UNCHANGED <<settings, prefs>>

-----------------------------------------------------------------------------
Next ==
  \E h \in Handlers :
    \/ View(h) \/ Viewed(h) \/ Got(h) \/ Updates(h) \/ Conflicts(h) \/ Regets(h) \/ Puts(h)
    \/ Sends(h) \/ SendFails(h) \/ Applies(h) \/ ApplyFails(h) \/ Die(h)
    \/ \E level \in Tried : Patch(h, level)
    \/ \E i \in DOMAIN posts : Take(h, i)

Spec == Init /\ [][Next]_thresholdVars

-----------------------------------------------------------------------------
\* Once everything is done and every message is through, the preference is the threshold that
\* the settings show, unless something in Strays happened on the way: a patch that overlapped
\* another, a message that a newer patch overtook, or a failure.
Quiet == (\A h \in Handlers : At(h, "idle")) /\ \A i \in DOMAIN posts : posts[i].state = "done"
ThresholdAgrees == Quiet => prefs = settings.level \/ strayed
=============================================================================
