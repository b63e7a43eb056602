-------------------------------- MODULE Tuning ------------------------------
(***************************************************************************)
(* How Learning moves a user's match threshold (backend/app/learning): the *)
(* user's choice of a mode and a strictness, decisions that are counted    *)
(* until a tuning is due, the tuning-tasks queue, and the preference of    *)
(* backend/app/matching that every change is pushed to.                    *)
(*                                                                         *)
(* A handler reads the parameters of the user, and writes the row it has   *)
(* read back, changed or not; other store calls come in between. A store   *)
(* call of Cosmos does that to every row, whatever it is asked to write.   *)
(***************************************************************************)
EXTENDS Naturals, Sequences, FiniteSets

CONSTANTS
  Lowest, Highest, Default,  \* 0.10, 0.99 and DEFAULT_THRESHOLD, in percent like every threshold here
  Strict,                    \* STRICTNESS_THRESHOLDS
  Delta,                     \* learning_max_threshold_delta
  MinSamples, TuneAfter,     \* learning_min_samples, learning_tune_after
  MinShown,                  \* learning_min_shown_per_week
  Recs,                      \* the recommendations that the user may decide
  Weeks,                     \* bound: the scores that last week's recommendations may have
  MaxHandlers, MaxEvents     \* bounds: handlers at work at a time; requests, failures and deaths

Thresholds == Lowest .. Highest
\* What the composition assumes of the constants.
TuningBounds ==
  /\ {Lowest, Highest, Delta, MinSamples, TuneAfter, MinShown, MaxHandlers, MaxEvents} \subseteq Nat
  /\ Strict \cup {Default} \subseteq Thresholds /\ Delta <= Lowest
  /\ Weeks \subseteq Seq(Thresholds)

VARIABLES
  params,  \* model_params
  decided, \* decision_log: when the row of each recommendation was updated, 0 if there is none
  clock,   \* how many times that has happened
  week,    \* the scores of last week's recommendations
  tasks,   \* tuning-tasks: how many messages of each kind
  prefs,   \* user_match_prefs: the preference, see ThresholdUsed of MatchOps
  work,    \* the handlers
  budget,  \* how many events are left
  chosen,  \* history: the mode and the threshold that the user, or a forced tuning, set last
  crossed, \* history: a row was written that changed what it had not read
  apart    \* history: a change of the threshold was not pushed, or late, or by somebody else
history == <<chosen, crossed, apart>>
tuningVars == <<params, decided, clock, week, tasks, prefs, work, budget, history>>

Handlers == 1 .. MaxHandlers
Kinds == {"due", "forced"}
\* `before' is what a rollback restores, 0 before the first tuning; `at' is updated_at.
\* Scoring reads the threshold of a personalized row, and the preference otherwise.
Row == [mode: {"auto", "manual"}, source: {"global", "personalized"}, level: Thresholds,
        before: Thresholds \cup {0}, at: Nat]
Fresh == [mode |-> "auto", source |-> "global", level |-> Default, before |-> 0, at |-> clock]
Idle == [at |-> "idle", kind |-> "none", due |-> FALSE,
         row |-> [Fresh EXCEPT !.at = 0], base |-> [Fresh EXCEPT !.at = 0]]

Job == [at: {"idle", "count", "list", "keep", "choose", "tune", "stage", "activate", "settle",
             "push", "touch"},
        kind: Kinds \cup {"none"}, due: BOOLEAN, row: Row, base: Row]

\* Others may set the preference too, out of the bounds of a tuning.
TypeInv ==
  /\ params \in Row /\ decided \in [Recs -> 0 .. clock] /\ clock \in Nat
  /\ week \in Weeks /\ tasks \in [Kinds -> Nat] /\ prefs \in Nat
  /\ work \in [Handlers -> Job] /\ budget \in Nat
  /\ chosen \in [mode: {"auto", "manual"}, level: Thresholds] /\ {crossed, apart} \subseteq BOOLEAN

\* A user of some days, never tuned.
Init ==
  /\ \E had \in SUBSET Recs : decided = [r \in Recs |-> IF r \in had THEN 1 ELSE 0]
  /\ clock = 1 /\ params = Fresh /\ prefs = Default
  /\ week \in Weeks /\ tasks = [k \in Kinds |-> 0]
  /\ work = [h \in Handlers |-> Idle] /\ budget \in 0 .. MaxEvents
  /\ chosen = [mode |-> "auto", level |-> Default] /\ crossed = FALSE /\ apart = FALSE

-----------------------------------------------------------------------------
Event == budget > 0 /\ budget' = budget - 1
Free(h) == work[h].at = "idle" /\ \A g \in Handlers : g < h => work[g].at # "idle"
At(h, where) == work[h].at = where
Begin(h, job) == work' = [work EXCEPT ![h] = job]
Leave(h) == work' = [work EXCEPT ![h] = Idle]
Read(h, where, job, row) == Begin(h, [job EXCEPT !.at = where, !.row = row, !.base = params])

\* put_params, or the write-back of another call.
Setting(row) == [mode |-> row.mode, level |-> row.level]
Undoes(h) == work[h].base # params /\ Setting(work[h].row) # Setting(params)
Write(h) ==
  /\ params' = work[h].row
  /\ crossed' = (crossed \/ Undoes(h)) /\ apart' = (apart \/ Undoes(h))
Written(h, where) == work' = [work EXCEPT ![h].at = where, ![h].base = work[h].row]

\* Any store call but a plain read: metrics, recommendations, weight_config, events.
Touch(h) ==
  /\ Event /\ Free(h)
  /\ Read(h, "touch", Idle, params)
  /\ UNCHANGED <<params, decided, clock, week, tasks, prefs, history>>
Touched(h) ==
  /\ At(h, "touch")
  /\ Write(h) /\ Leave(h)
  /\ UNCHANGED <<decided, clock, week, tasks, prefs, budget, chosen>>

\* update_prefs: a strictness counts in manual mode only, and may be left out. Back in auto
\* mode the row is global as long as it was tuned on too few decisions.
Automatic == {[params EXCEPT !.mode = "auto", !.source = source, !.at = clock] : source \in {"global", params.source}}
Manual == {[params EXCEPT !.mode = "manual", !.source = "personalized", !.level = level, !.at = clock] : level \in Strict}
Choices == Automatic \cup Manual \cup {[params EXCEPT !.mode = "manual", !.at = clock]}
Choose(h) ==
  /\ Event /\ Free(h)
  /\ \E row \in Choices : Read(h, "choose", Idle, row)
  /\ UNCHANGED <<params, decided, clock, week, tasks, prefs, history>>
Chooses(h) ==
  /\ At(h, "choose")
  /\ Write(h) /\ chosen' = Setting(work[h].row)
  /\ Written(h, "push")
  /\ UNCHANGED <<decided, clock, week, tasks, prefs, budget>>

\* _push_matching swallows what goes wrong.
Pushes(h) ==
  /\ At(h, "push")
  /\ prefs' = work[h].row.level /\ apart' = (apart \/ work[h].row.level # params.level)
  /\ Leave(h)
  /\ UNCHANGED <<params, decided, clock, week, tasks, budget, chosen, crossed>>
PushFails(h) ==
  /\ At(h, "push") /\ Event
  /\ apart' = TRUE
  /\ Leave(h)
  /\ UNCHANGED <<params, decided, clock, week, tasks, prefs, chosen, crossed>>

-----------------------------------------------------------------------------
\* put_decision, from the user's request or an event of Review; then _maybe_enqueue_tune.
Decide(h, r) ==
  /\ Event /\ Free(h)
  /\ clock' = clock + 1 /\ decided' = [decided EXCEPT ![r] = clock + 1]
  /\ Begin(h, [Idle EXCEPT !.at = "count"])
  /\ UNCHANGED <<params, week, tasks, prefs, history>>
\* poll_all, the daily timer.
Poll(h) ==
  /\ Event /\ Free(h)
  /\ Begin(h, [Idle EXCEPT !.at = "count"])
  /\ UNCHANGED <<params, decided, clock, week, tasks, prefs, history>>
Counts(h) ==
  /\ At(h, "count")
  /\ Read(h, "list", Idle, params)
  /\ UNCHANGED <<params, decided, clock, week, tasks, prefs, budget, history>>
Decided == {r \in Recs : decided[r] > 0}
New(row) == {r \in Recs : decided[r] > row.at}
Due(row) ==
  /\ row.mode = "auto" /\ Cardinality(Decided) >= MinSamples
  /\ Cardinality(New(row)) >= TuneAfter \/ Cardinality(Decided) = MinSamples
Lists(h) ==
  /\ At(h, "list")
  /\ work' = [work EXCEPT ![h].at = "keep", ![h].due = Due(work[h].row)]
  /\ UNCHANGED <<params, decided, clock, week, tasks, prefs, budget, history>>
\* The row is written for its sample_size alone.
Keeps(h) ==
  /\ At(h, "keep")
  /\ Write(h) /\ Leave(h)
  /\ tasks' = [tasks EXCEPT !["due"] = IF work[h].due THEN @ + 1 ELSE @]
  /\ UNCHANGED <<decided, clock, week, prefs, budget, chosen>>

\* POST /v1/learning/tune, for admins.
Order(kind) ==
  /\ Event
  /\ tasks' = [tasks EXCEPT ![kind] = @ + 1]
  /\ UNCHANGED <<params, decided, clock, week, prefs, work, history>>

-----------------------------------------------------------------------------
\* _run_tune.
Take(h, kind) ==
  /\ Free(h) /\ tasks[kind] > 0
  /\ tasks' = [tasks EXCEPT ![kind] = @ - 1]
  /\ Begin(h, [Idle EXCEPT !.at = "tune", !.kind = kind])
  /\ UNCHANGED <<params, decided, clock, week, prefs, budget, history>>
Forced(h) == work[h].kind = "forced"
\* Mutant: the mode is not looked at.
SkipsNobody(h) == FALSE
Skips(h) == params.mode = "manual" /\ ~Forced(h)
SkipsManual(h) ==
  /\ At(h, "tune") /\ Skips(h)
  /\ Leave(h)
  /\ UNCHANGED <<params, decided, clock, week, tasks, prefs, budget, history>>
\* There are too few decisions, or they are too old: everything is as in the beginning.
Resets(h) ==
  /\ At(h, "tune") /\ ~Skips(h) /\ ~Forced(h)
  /\ Read(h, "settle", work[h], [params EXCEPT !.source = "global", !.level = Default, !.at = clock])
  /\ UNCHANGED <<params, decided, clock, week, tasks, prefs, budget, history>>

Eligible(h) == Forced(h) \/ Cardinality(Decided) >= MinSamples
\* Few approvals raise the threshold, many lower it.
Raised(old) == IF old + Delta <= Highest THEN old + Delta ELSE Highest
Lowered(old) == IF old - Delta >= Lowest THEN old - Delta ELSE Lowest
Shown(level) == Cardinality({i \in DOMAIN week : week[i] >= level})
\* _respect_shown_floor goes down by 0.01 while too little would be shown.
Down(least) ==
  LET down[level \in Thresholds] ==
        IF Shown(level) < MinShown /\ level > least THEN down[level - 1] ELSE level
  IN down
Floored(old, new) == IF week = <<>> THEN new ELSE Down(Lowered(old))[new]
Moves(h) ==
  /\ At(h, "tune") /\ ~Skips(h) /\ Eligible(h)
  /\ \E new \in {Raised(params.level), params.level, Lowered(params.level)} :
       Read(h, "stage", work[h], [params EXCEPT !.source = "personalized", !.level = Floored(params.level, new),
                                                !.before = params.level, !.at = clock])
  /\ UNCHANGED <<params, decided, clock, week, tasks, prefs, budget, history>>
\* The precision dropped: what was there before the last tuning is restored.
RollsBack(h) ==
  /\ At(h, "tune") /\ ~Skips(h) /\ Eligible(h)
  /\ Read(h, "settle", work[h], [params EXCEPT !.source = "global", !.at = clock,
                              !.level = IF params.before = 0 THEN Default ELSE params.before])
  /\ UNCHANGED <<params, decided, clock, week, tasks, prefs, budget, history>>

Ordered(h) == chosen' = IF Forced(h) THEN [chosen EXCEPT !.level = work[h].row.level] ELSE chosen
\* The row is written as staged, and once more as active.
Stages(h) ==
  /\ At(h, "stage")
  /\ Write(h) /\ Ordered(h)
  /\ Written(h, "activate")
  /\ UNCHANGED <<decided, clock, week, tasks, prefs, budget>>
Activates(h) ==
  /\ At(h, "activate")
  /\ Write(h) /\ Written(h, "push")
  /\ UNCHANGED <<decided, clock, week, tasks, prefs, budget, chosen>>
Settles(h) ==
  /\ At(h, "settle")
  /\ Write(h) /\ Ordered(h)
  /\ Written(h, "push")
  /\ UNCHANGED <<decided, clock, week, tasks, prefs, budget>>

\* delete_user_data takes the parameters and the decisions; the preference is Matching's.
Forget ==
  /\ Event
  /\ params' = Fresh /\ decided' = [r \in Recs |-> 0]
  /\ chosen' = Setting(Fresh) /\ apart' = (apart \/ params.level # Default)
  /\ UNCHANGED <<clock, week, tasks, prefs, work, crossed>>

\* A handler dies half-way; the message of a tuning is given out again.
Die(h) ==
  /\ work[h].at # "idle" /\ Event
  /\ tasks' = [k \in Kinds |-> IF k = work[h].kind THEN tasks[k] + 1 ELSE tasks[k]]
  /\ apart' = (apart \/ work[h].at \in {"activate", "push"})
  /\ Leave(h)
  /\ UNCHANGED <<params, decided, clock, week, prefs, chosen, crossed>>

-----------------------------------------------------------------------------
Request(h) == Touch(h) \/ Choose(h) \/ Poll(h) \/ \E r \in Recs : Decide(h, r)
CountStep(h) == Counts(h) \/ Lists(h) \/ Keeps(h)
TuneStep(h) ==
  \/ SkipsManual(h) \/ Resets(h) \/ Moves(h) \/ RollsBack(h) \/ Stages(h) \/ Activates(h) \/ Settles(h)
  \/ \E kind \in Kinds : Take(h, kind)
Next ==
  \/ \E h \in Handlers :
       \/ Request(h) \/ CountStep(h) \/ TuneStep(h) \/ Die(h)
       \/ Touched(h) \/ Chooses(h) \/ Pushes(h) \/ PushFails(h)
  \/ \E kind \in Kinds : Order(kind)
  \/ Forget

Spec == Init /\ [][Next]_tuningVars

-----------------------------------------------------------------------------
\* The mode is the one that the user chose last, and in manual mode so is the threshold,
\* whatever is decided, counted and tuned beside: unless a row was written that changed a
\* mode or a threshold that it had not read.
ChoiceHolds ==
  ~crossed => /\ params.mode = chosen.mode
              /\ params.mode = "manual" => params.level = chosen.level

\* When nobody is at work, the preference is the threshold of the parameters, so that scoring
\* uses it whether they are personalized or not: unless a push failed, came late or never, or
\* somebody else set the preference.
Quiet == \A h \in Handlers : At(h, "idle")
ScoringAgrees == Quiet => prefs = params.level \/ apart

\* A tuning stays within the bounds and the step, and it leaves enough to be shown, or
\* has gone down as far as it may.
FloorHolds ==
  \A h \in Handlers : At(h, "stage") =>
    LET new == work[h].row.level  old == work[h].base.level
    IN /\ new \in Lowered(old) .. Raised(old)
       /\ week = <<>> \/ Shown(new) >= MinShown \/ new = Lowered(old)
TuningHolds == ChoiceHolds /\ ScoringAgrees /\ FloorHolds
=============================================================================
