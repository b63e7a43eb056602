----------------------------- MODULE TuningProofs ----------------------------
(***************************************************************************)
(* What Tuning promises the user, for any number of handlers, decisions    *)
(* and failures, and any thresholds. The choice and the pushes know the    *)
(* rows by their shape alone; the floor knows that they hold thresholds,   *)
(* and how far the walk of _respect_shown_floor goes.                      *)
(***************************************************************************)
EXTENDS Tuning, FiniteSetTheorems, WellFoundedInduction, TLAPS

\* A row is a record of the five fields, and so is a job.
IsRow(row) == DOMAIN row = {"mode", "source", "level", "before", "at"}
IsJob(job) ==
  DOMAIN job = {"at", "kind", "due", "row", "base"} /\ IsRow(job.row) /\ IsRow(job.base)

\* What a handler is about to write: as it was read, or a tuning that kept the mode, and
\* left a manual threshold alone unless it is forced.
Honest(job) ==
  /\ job.at \in {"list", "keep", "activate", "touch"} => job.row = job.base
  /\ job.at \in {"stage", "settle"} =>
       job.row.mode = job.base.mode /\ (job.row.mode = "manual" => job.kind = "forced")
WorkInv ==
  /\ IsRow(params) /\ DOMAIN chosen = {"mode", "level"}
  /\ DOMAIN work = Handlers
  /\ \A h \in Handlers : IsJob(work[h]) /\ Honest(work[h])
\* A threshold that scoring does not have yet is being pushed, or the reason is known.
PushInv == apart \/ prefs = params.level \/ \E h \in Handlers : work[h].at \in {"activate", "push"}
TuneInv == WorkInv /\ ChoiceHolds /\ PushInv

LEMMA TuneInit == ASSUME Init PROVE TuneInv
<1>1. IsRow(Fresh) /\ IsRow([Fresh EXCEPT !.at = 0]) BY DEF IsRow, Fresh
<1>2. IsJob(Idle) /\ Honest(Idle) BY <1>1 DEF IsJob, Honest, Idle
<1>3. WorkInv BY <1>1, <1>2 DEF Init, WorkInv
<1>. QED BY <1>3 DEF Init, TuneInv, ChoiceHolds, PushInv, Fresh

\* A step of one handler that writes nothing keeps everything, if its new work is honest
\* and it was not the one that had to push.
LEMMA QuietKeeps ==
  ASSUME TuneInv, NEW h \in Handlers, NEW job, work' = [work EXCEPT ![h] = job],
         IsJob(job), Honest(job), apart' \/ work[h].at \notin {"activate", "push"},
         UNCHANGED <<params, prefs, chosen, crossed>>, apart => apart'
  PROVE  TuneInv'
<1>1. DOMAIN work' = Handlers /\ work'[h] = job /\ \A g \in Handlers \ {h} : work'[g] = work[g]
  BY DEF TuneInv, WorkInv
<1>2. WorkInv' BY <1>1 DEF TuneInv, WorkInv
<1>3. ChoiceHolds' BY DEF TuneInv, ChoiceHolds
<1>4. PushInv' BY <1>1 DEF TuneInv, PushInv
<1>. QED BY <1>2, <1>3, <1>4 DEF TuneInv

\* So does a step that writes a row, when the user's choice follows.
LEMMA WriteKeeps ==
  ASSUME TuneInv, NEW h \in Handlers, NEW job, work' = [work EXCEPT ![h] = job],
         IsJob(job), Honest(job), Write(h), prefs' = prefs,
         \/ job.at \in {"activate", "push"}
         \/ work[h].row = work[h].base /\ work[h].at \notin {"activate", "push"},
         \/ chosen' = Setting(work[h].row)
         \/ work[h].row = work[h].base /\ chosen' = chosen
         \/ /\ work[h].row.mode = work[h].base.mode
            /\ work[h].row.mode = "manual" => work[h].kind = "forced"
            /\ Ordered(h)
  PROVE  TuneInv'
<1>1. DOMAIN work' = Handlers /\ work'[h] = job /\ \A g \in Handlers \ {h} : work'[g] = work[g]
  BY DEF TuneInv, WorkInv
<1>2. IsRow(params) /\ IsJob(work[h]) /\ DOMAIN chosen = {"mode", "level"}
  BY DEF TuneInv, WorkInv
<1>3. DOMAIN chosen' = {"mode", "level"}
  <2>1. CASE chosen' = Setting(work[h].row) BY <2>1 DEF Setting
  <2>2. CASE chosen' = chosen BY <1>2, <2>2
  <2>3. CASE Ordered(h) BY <1>2, <2>3 DEF Ordered
  <2>. QED BY <2>1, <2>2, <2>3
<1>4. IsRow(params') BY <1>2 DEF Write, IsJob
<1>5. WorkInv' BY <1>1, <1>3, <1>4 DEF TuneInv, WorkInv
<1>. DEFINE Same == work[h].row.mode = params.mode /\ work[h].row.level = params.level
<1>a. Setting(work[h].row) = Setting(params) => Same BY DEF Setting
<1>b. ~Undoes(h) => work[h].base = params \/ Same BY <1>a DEF Undoes
<1>6. ~crossed' => ~crossed /\ (work[h].base = params \/ Same) BY <1>b DEF Write
<1>7. ~apart' => ~apart /\ (work[h].base = params \/ Same) BY <1>b DEF Write
<1>8. params' = work[h].row BY DEF Write
<1>9. ChoiceHolds'
  <2>1. CASE chosen' = Setting(work[h].row) BY <1>8, <2>1 DEF Setting, ChoiceHolds
  <2>2. CASE work[h].row = work[h].base /\ chosen' = chosen BY <1>6, <1>8, <2>2 DEF TuneInv, ChoiceHolds
  <2>3. CASE /\ work[h].row.mode = work[h].base.mode
             /\ work[h].row.mode = "manual" => work[h].kind = "forced"
             /\ Ordered(h)
    <3>1. chosen'.mode = chosen.mode /\ (work[h].kind = "forced" => chosen'.level = work[h].row.level)
      BY <1>2, <2>3 DEF Ordered, Forced
    <3>. QED BY <1>6, <1>8, <2>3, <3>1 DEF TuneInv, ChoiceHolds
  <2>. QED BY <2>1, <2>2, <2>3
<1>10. PushInv'
  <2>1. CASE job.at \in {"activate", "push"} BY <1>1, <2>1 DEF PushInv
  <2>2. CASE work[h].row = work[h].base /\ work[h].at \notin {"activate", "push"}
    BY <1>1, <1>7, <1>8, <2>2 DEF TuneInv, PushInv
  <2>. QED BY <2>1, <2>2
<1>. QED BY <1>5, <1>9, <1>10 DEF TuneInv

LEMMA TuneStepKept == ASSUME TuneInv, [Next]_tuningVars PROVE TuneInv'
<1>. USE DEF history
<1>1. CASE UNCHANGED tuningVars
  BY <1>1 DEF tuningVars, TuneInv, WorkInv, ChoiceHolds, PushInv
<1>2. CASE \E kind \in Kinds : Order(kind)
  BY <1>2 DEF Order, TuneInv, WorkInv, ChoiceHolds, PushInv
<1>3. CASE Forget
  <2>1. IsRow(params') /\ params'.mode = "auto" /\ params'.level = Default BY <1>3 DEF Forget, Fresh, IsRow
  <2>2. chosen' = [mode |-> "auto", level |-> Default] BY <1>3 DEF Forget, Fresh, Setting
  <2>3. WorkInv' BY <1>3, <2>1, <2>2 DEF Forget, TuneInv, WorkInv
  <2>4. PushInv' BY <1>3, <2>1 DEF Forget, TuneInv, PushInv
  <2>. QED BY <2>1, <2>2, <2>3, <2>4 DEF TuneInv, ChoiceHolds
<1>4. ASSUME NEW h \in Handlers,
             Request(h) \/ CountStep(h) \/ TuneStep(h) \/ Die(h)
             \/ Touched(h) \/ Chooses(h) \/ Pushes(h) \/ PushFails(h)
      PROVE TuneInv'
  <2>a. IsRow(params) /\ IsJob(work[h]) /\ Honest(work[h]) BY DEF TuneInv, WorkInv
  <2>b. IsJob(Idle) /\ Honest(Idle) /\ Idle.at = "idle"
    BY DEF IsJob, IsRow, Honest, Idle, Fresh
  <2>c. ASSUME NEW job, NEW where, NEW row, IsJob(job), IsRow(row), Read(h, where, job, row),
               work[h].at \notin {"activate", "push"},
               UNCHANGED <<params, prefs, chosen, crossed, apart>>,
               where \in {"list", "keep", "activate", "touch"} => row = params,
               where \in {"stage", "settle"} =>
                 row.mode = params.mode /\ (row.mode = "manual" => job.kind = "forced")
        PROVE  TuneInv'
    <3>. DEFINE new == [job EXCEPT !.at = where, !.row = row, !.base = params]
    <3>1. /\ DOMAIN new = DOMAIN job
          /\ new.at = where /\ new.kind = job.kind /\ new.row = row /\ new.base = params
      BY <2>c DEF IsJob
    <3>2. IsJob(new) /\ Honest(new) BY <2>a, <2>c, <3>1 DEF IsJob, Honest
    <3>3. work' = [work EXCEPT ![h] = new] BY <2>c DEF Read, Begin
    <3>. HIDE DEF new
    <3>. QED BY <2>c, <3>2, <3>3, QuietKeeps
  <2>d. ASSUME NEW where, where \notin {"list", "keep", "activate", "touch", "stage", "settle"},
               Begin(h, [Idle EXCEPT !.at = where]), Free(h), UNCHANGED <<params, prefs, history>>
        PROVE  TuneInv'
    <3>1. IsJob([Idle EXCEPT !.at = where]) /\ Honest([Idle EXCEPT !.at = where])
      BY <2>b, <2>d DEF IsJob, Honest
    <3>. QED BY <2>d, <3>1, QuietKeeps DEF Begin, Free
  <2>1. CASE Touch(h)
    BY <2>1, <2>a, <2>b, <2>c DEF Touch, Free
  <2>2. CASE Choose(h)
    <3>1. PICK row \in Choices : Read(h, "choose", Idle, row) BY <2>2 DEF Choose
    <3>2. IsRow(row) BY <2>a DEF Choices, Automatic, Manual, IsRow
    <3>. QED BY <2>2, <2>b, <2>c, <3>1, <3>2 DEF Choose, Free
  <2>3. CASE Poll(h) BY <2>3, <2>d DEF Poll
  <2>4. CASE \E r \in Recs : Decide(h, r) BY <2>4, <2>d DEF Decide
  <2>5. CASE Counts(h) BY <2>5, <2>a, <2>b, <2>c DEF Counts, At
  <2>6. CASE Lists(h)
    <3>. DEFINE new == [work[h] EXCEPT !.at = "keep", !.due = Due(work[h].row)]
    <3>1. /\ DOMAIN new = DOMAIN work[h]
          /\ new.at = "keep" /\ new.row = work[h].row /\ new.base = work[h].base
      BY <2>a DEF IsJob
    <3>2. IsJob(new) /\ Honest(new) BY <2>6, <2>a, <3>1 DEF IsJob, Honest, Lists, At
    <3>3. work' = [work EXCEPT ![h] = new] BY <2>6 DEF Lists
    <3>. HIDE DEF new
    <3>. QED BY <2>6, <3>2, <3>3, QuietKeeps DEF Lists, At
  <2>7. CASE SkipsManual(h) BY <2>7, <2>b, QuietKeeps DEF SkipsManual, Leave, At
  <2>8. CASE Resets(h)
    <3>1. IsRow([params EXCEPT !.source = "global", !.level = Default, !.at = clock])
          /\ [params EXCEPT !.source = "global", !.level = Default, !.at = clock].mode = params.mode BY <2>a DEF IsRow
    <3>2. params.mode # "manual" BY <2>8 DEF Resets, Skips
    <3>. QED BY <2>8, <2>a, <2>c, <3>1, <3>2 DEF Resets, At
  <2>f. At(h, "tune") /\ ~Skips(h) => (params.mode = "manual" => work[h].kind = "forced") BY DEF Skips, Forced
  <2>9. CASE Moves(h) \/ RollsBack(h)
    <3>1. CASE Moves(h)
      <4>1. PICK new : Read(h, "stage", work[h], [params EXCEPT !.source = "personalized", !.level = Floored(params.level, new),
                                                !.before = params.level, !.at = clock])
        BY <3>1 DEF Moves
      <4>. DEFINE row == [params EXCEPT !.source = "personalized", !.level = Floored(params.level, new),
                                                !.before = params.level, !.at = clock]
      <4>2. IsRow(row) /\ row.mode = params.mode BY <2>a DEF IsRow
      <4>3. Read(h, "stage", work[h], row) BY <4>1
      <4>. HIDE DEF row
      <4>. QED BY <3>1, <2>a, <2>c, <2>f, <4>2, <4>3 DEF Moves, At
    <3>2. CASE RollsBack(h)
      <4>. DEFINE row == [params EXCEPT !.source = "global", !.at = clock,
                                   !.level = IF params.before = 0 THEN Default ELSE params.before]
      <4>1. IsRow(row) /\ row.mode = params.mode BY <2>a DEF IsRow
      <4>2. Read(h, "settle", work[h], row) BY <3>2 DEF RollsBack
      <4>. HIDE DEF row
      <4>. QED BY <3>2, <2>a, <2>c, <2>f, <4>1, <4>2 DEF RollsBack, At
    <3>. QED BY <2>9, <3>1, <3>2
  <2>10. CASE \E kind \in Kinds : Take(h, kind)
    <3>1. PICK kind \in Kinds : Take(h, kind) BY <2>10
    <3>2. IsJob([Idle EXCEPT !.at = "tune", !.kind = kind]) /\
            Honest([Idle EXCEPT !.at = "tune", !.kind = kind])
      BY <2>b DEF IsJob, Honest
    <3>. QED BY <3>1, <3>2, QuietKeeps DEF Take, Begin, Free
  <2>e. ASSUME NEW where \in {"activate", "push"}, Written(h, where)
        PROVE  \E job : /\ work' = [work EXCEPT ![h] = job] /\ job.at = where
                        /\ IsJob(job) /\ Honest(job)
    <3>. DEFINE new == [work[h] EXCEPT !.at = where, !.base = work[h].row]
    <3>1. /\ DOMAIN new = DOMAIN work[h]
          /\ new.at = where /\ new.row = work[h].row /\ new.base = work[h].row
      BY <2>a DEF IsJob
    <3>2. IsJob(new) /\ Honest(new) BY <2>a, <3>1 DEF IsJob, Honest
    <3>3. work' = [work EXCEPT ![h] = new] BY <2>e DEF Written
    <3>. QED BY <3>1, <3>2, <3>3
  <2>11. CASE Keeps(h) \/ Touched(h)
    <3>1. work[h].row = work[h].base /\ work[h].at \notin {"activate", "push"}
      BY <2>11, <2>a DEF Keeps, Touched, At, Honest
    <3>2. work' = [work EXCEPT ![h] = Idle] /\ Write(h) /\ UNCHANGED <<prefs, chosen>>
      BY <2>11 DEF Keeps, Touched, Leave
    <3>. QED BY <2>b, <3>1, <3>2, WriteKeeps
  <2>12. CASE Chooses(h)
    <3>1. Write(h) /\ chosen' = Setting(work[h].row) /\ Written(h, "push") /\ prefs' = prefs
      BY <2>12 DEF Chooses
    <3>. QED BY <2>e, <3>1, WriteKeeps
  <2>13. CASE Stages(h) \/ Settles(h)
    <3>1. PICK where \in {"activate", "push"} : Written(h, where) BY <2>13 DEF Stages, Settles
    <3>2. Write(h) /\ Ordered(h) /\ prefs' = prefs /\ work[h].at \in {"stage", "settle"}
      BY <2>13 DEF Stages, Settles, At
    <3>3. work[h].row.mode = work[h].base.mode /\ (work[h].row.mode = "manual" => work[h].kind = "forced")
      BY <2>a, <3>2 DEF Honest
    <3>. QED BY <2>e, <3>1, <3>2, <3>3, WriteKeeps
  <2>14. CASE Activates(h)
    <3>1. Write(h) /\ Written(h, "push") /\ UNCHANGED <<prefs, chosen>> /\ work[h].row = work[h].base
      BY <2>14, <2>a DEF Activates, At, Honest
    <3>. QED BY <2>e, <3>1, WriteKeeps
  <2>15. CASE Die(h) \/ PushFails(h)
    BY <2>15, <2>b, QuietKeeps DEF Die, PushFails, Leave, At
  <2>16. CASE Pushes(h)
    <3>1. /\ work' = [work EXCEPT ![h] = Idle] /\ UNCHANGED <<params, chosen, crossed>>
          /\ prefs' = work[h].row.level /\ apart' = (apart \/ work[h].row.level # params.level)
      BY <2>16 DEF Pushes, Leave
    <3>2. WorkInv' BY <2>b, <3>1 DEF TuneInv, WorkInv
    <3>3. PushInv' BY <3>1 DEF PushInv
    <3>. QED BY <3>1, <3>2, <3>3 DEF TuneInv, ChoiceHolds
  <2>. QED BY <1>4, <2>1, <2>2, <2>3, <2>4, <2>5, <2>6, <2>7, <2>8, <2>9, <2>10, <2>11, <2>12, <2>13, <2>14,
              <2>15, <2>16
          DEF Request, CountStep, TuneStep
<1>. QED BY <1>1, <1>2, <1>3, <1>4 DEF Next

-----------------------------------------------------------------------------
\* A set of numbers has a least one.
LEMMA LeastOf == ASSUME NEW S, S \subseteq Nat, S # {} PROVE \E n \in S : \A m \in S : n <= m
<1>. DEFINE R == OpToRel(<, Nat)
<1>1. IsWellFoundedOn(R, Nat) BY NatLessThanWellFounded
<1>2. \A x, y \in Nat : y < x => <<y, x>> \in R BY DEF OpToRel
<1>. HIDE DEF R
<1>3. PICK n \in S : \A m \in S : ~ (<<m, n>> \in R) BY <1>1, WFMin
<1>4. \A m \in S : ~ (m < n) BY <1>2, <1>3
<1>. QED BY <1>3, <1>4

LEMMA ShownCounts == ASSUME week \in Seq(Thresholds), NEW level PROVE Shown(level) \in Nat
<1>. DEFINE over == {i \in DOMAIN week : week[i] >= level}
<1>1. Len(week) \in Nat /\ over \subseteq 1 .. Len(week) OBVIOUS
<1>2. IsFiniteSet(1 .. Len(week)) BY <1>1, FS_Interval
<1>. HIDE DEF over
<1>3. Cardinality(over) \in Nat BY <1>1, <1>2, FS_Subset, FS_CardinalityType
<1>. QED BY <1>3 DEF Shown, over

\* The walk ends at every threshold, so that it is what its recursion says: from where it goes
\* on, as from the threshold below.
Stops(m, least) == ~ (Shown(m) < MinShown /\ m > least)
Steps(f, least) == [level \in Thresholds |-> IF ~Stops(level, least) THEN f[level - 1] ELSE level]
LEMMA DownSteps ==
  ASSUME TuningBounds, NEW least \in Thresholds PROVE Down(least) = Steps(Down(least), least)
<1>. DEFINE Ends(level, m) ==
       /\ m \in Thresholds /\ m <= level /\ Stops(m, least)
       /\ \A k \in Thresholds : m < k /\ k <= level => ~Stops(k, least)
     g == [level \in Thresholds |-> CHOOSE m : Ends(level, m)]
<1>1. /\ Thresholds \subseteq Nat /\ least \in Nat
      /\ \A level \in Thresholds : level > least => level - 1 \in Thresholds
  BY DEF TuningBounds, Thresholds
<1>2. \A level \in Thresholds : ~Stops(level, least) => level > least BY DEF Stops
<1>3. \A level \in Thresholds : \A m :
        ~Stops(level, least) /\ Ends(level - 1, m) => Ends(level, m)
  BY <1>1, <1>2
<1>4. \A level \in Thresholds : Stops(level, least) => Ends(level, level) BY <1>1
<1>5. \A level \in Thresholds : \E m : Ends(level, m)
  <2>. DEFINE S == {level \in Thresholds : ~ \E m : Ends(level, m)}
  <2>. HIDE DEF Ends
  <2>1. SUFFICES ASSUME S # {} PROVE FALSE OBVIOUS
  <2>2. PICK n \in S : \A k \in S : n <= k
    <3>1. S \subseteq Nat BY <1>1
    <3>. HIDE DEF S
    <3>. QED BY <2>1, <3>1, LeastOf
  <2>3. n \in Thresholds /\ ~Stops(n, least) BY <1>4
  <2>4. n - 1 \in Thresholds /\ n - 1 \notin S BY <1>1, <1>2, <2>2, <2>3
  <2>. QED BY <1>3, <2>3, <2>4
<1>6. \A level \in Thresholds : \A m, k : Ends(level, m) /\ Ends(level, k) => m = k BY <1>1
<1>7. \A level \in Thresholds : Ends(level, g[level])
  <2>. HIDE DEF Ends
  <2>. QED BY <1>5
<1>8. g = Steps(g, least)
  <2>. HIDE DEF Ends
  <2>1. \A level \in Thresholds : g[level] = IF ~Stops(level, least) THEN g[level - 1] ELSE level
    <3>. HIDE DEF g
    <3>. QED BY <1>1, <1>2, <1>3, <1>4, <1>6, <1>7
  <2>. QED BY <2>1 DEF Steps
<1>. DEFINE f == CHOOSE f : f = Steps(f, least)
<1>9. f = Steps(f, least)
  <2>. HIDE DEF g
  <2>. QED BY <1>8
<1>10. Down(least) = f BY DEF Down, Steps, Stops
<1>. QED BY <1>9, <1>10

\* It goes no further than it may, and stops where enough is shown.
LEMMA DownStays ==
  ASSUME TuningBounds, week \in Seq(Thresholds), NEW least \in Thresholds, NEW new \in least .. Highest
  PROVE  /\ Down(least)[new] \in least .. new
         /\ Shown(Down(least)[new]) >= MinShown \/ Down(least)[new] = least
<1>. DEFINE down == Down(least)
            Good(n) == down[n] \in least .. n /\ (Shown(down[n]) >= MinShown \/ down[n] = least)
            S == {n \in least .. Highest : ~Good(n)}
<1>1. Lowest \in Nat /\ Highest \in Nat /\ MinShown \in Nat /\ least \in Lowest .. Highest
  BY DEF TuningBounds, Thresholds
<1>2. \A n \in least .. Highest : down[n] = IF ~Stops(n, least) THEN down[n - 1] ELSE n
  <2>. HIDE DEF down
  <2>1. down = Steps(down, least) BY DownSteps DEF down
  <2>. QED BY <1>1, <2>1 DEF Steps, Thresholds
<1>3. \A n : Shown(n) \in Nat BY ShownCounts
<1>. HIDE DEF down
<1>4. SUFFICES ASSUME S # {} PROVE FALSE BY DEF down
<1>5. PICK n \in S : \A k \in S : n <= k
  <2>1. S \subseteq Nat BY <1>1
  <2>. HIDE DEF S
  <2>. QED BY <1>4, <2>1, LeastOf
<1>6. n \in least .. Highest /\ ~Good(n) OBVIOUS
<1>7. CASE Stops(n, least) BY <1>1, <1>2, <1>3, <1>6, <1>7 DEF Stops
<1>8. CASE ~Stops(n, least)
  <2>1. n > least /\ n - 1 \in least .. Highest BY <1>1, <1>6, <1>8 DEF Stops
  <2>2. Good(n - 1) BY <1>1, <1>5, <1>6, <2>1
  <2>. QED BY <1>1, <1>2, <1>6, <1>8, <2>1, <2>2
<1>. QED BY <1>7, <1>8

LEMMA FlooredIn ==
  ASSUME TuningBounds, week \in Seq(Thresholds), NEW old \in Thresholds,
         NEW new \in {Raised(old), old, Lowered(old)}
  PROVE  /\ Floored(old, new) \in Thresholds /\ Floored(old, new) \in Lowered(old) .. Raised(old)
         /\ week = <<>> \/ Shown(Floored(old, new)) >= MinShown \/ Floored(old, new) = Lowered(old)
<1>1. /\ Lowest \in Nat /\ Highest \in Nat /\ old \in Lowest .. Highest
      /\ Lowered(old) \in Lowest .. old /\ Raised(old) \in old .. Highest
  BY DEF TuningBounds, Thresholds, Lowered, Raised
<1>2. Lowered(old) \in Thresholds /\ new \in Lowered(old) .. Highest /\ new \in Lowered(old) .. Raised(old)
  BY <1>1 DEF Thresholds
<1>3. CASE week = <<>> BY <1>1, <1>2, <1>3 DEF Floored, Thresholds
<1>4. CASE week # <<>>
  <2>. DEFINE found == Down(Lowered(old))[new]
  <2>1. found \in Lowered(old) .. new /\ (Shown(found) >= MinShown \/ found = Lowered(old))
    BY <1>2, DownStays
  <2>2. Floored(old, new) = found BY <1>4 DEF Floored
  <2>. HIDE DEF found
  <2>. QED BY <1>1, <1>2, <2>1, <2>2 DEF Thresholds
<1>. QED BY <1>3, <1>4

-----------------------------------------------------------------------------
\* The rows hold thresholds, and a tuning that is about to be staged stays within its bounds.
Levelled(row) == row.level \in Thresholds /\ row.before \in Thresholds \cup {0}
Staged(job) ==
  job.at = "stage" =>
    /\ job.row.level \in Lowered(job.base.level) .. Raised(job.base.level)
    /\ week = <<>> \/ Shown(job.row.level) >= MinShown \/ job.row.level = Lowered(job.base.level)
FloorInv ==
  /\ week \in Seq(Thresholds) /\ Levelled(params)
  /\ \A h \in Handlers : Levelled(work[h].row) /\ Levelled(work[h].base) /\ Staged(work[h])

LEMMA FloorKept ==
  ASSUME WorkInv, FloorInv, week' = week, NEW h \in Handlers, NEW job, work' = [work EXCEPT ![h] = job],
         Levelled(job.row), Levelled(job.base), Staged(job), Levelled(params')
  PROVE  FloorInv'
<1>1. work'[h] = job /\ \A g \in Handlers \ {h} : work'[g] = work[g] BY DEF WorkInv
<1>2. ASSUME NEW g \in Handlers PROVE Levelled(work'[g].row) /\ Levelled(work'[g].base) /\ Staged(work'[g])
  BY <1>1 DEF FloorInv
<1>3. \A g \in Handlers : Staged(work[g])' BY <1>2 DEF Staged, Shown
<1>. QED BY <1>2, <1>3 DEF FloorInv

LEMMA FloorInit == ASSUME TuningBounds, Init PROVE FloorInv
<1>1. Levelled(Fresh) /\ Levelled(Idle.row) /\ Levelled(Idle.base) /\ Staged(Idle)
  BY DEF TuningBounds, Levelled, Staged, Fresh, Idle
<1>. QED BY <1>1 DEF Init, FloorInv, TuningBounds

LEMMA FloorStep == ASSUME TuningBounds, WorkInv, FloorInv, Next PROVE FloorInv'
<1>a. Levelled(Idle.row) /\ Levelled(Idle.base) /\ Staged(Idle) /\ IsJob(Idle)
  BY DEF TuningBounds, Levelled, Staged, Fresh, Idle, IsJob, IsRow
<1>b. IsRow(params) /\ Levelled(params) /\ week \in Seq(Thresholds) BY DEF WorkInv, FloorInv
<1>1. CASE \E kind \in Kinds : Order(kind)
  BY <1>1 DEF Order, FloorInv, Levelled, Staged, Shown
<1>2. CASE Forget
  <2>1. params' = Fresh /\ UNCHANGED <<week, work>> BY <1>2 DEF Forget
  <2>2. Levelled(params') BY <2>1 DEF Fresh, Levelled, TuningBounds
  <2>. QED BY <2>1, <2>2 DEF FloorInv, Staged, Shown
<1>3. ASSUME NEW h \in Handlers,
             Request(h) \/ CountStep(h) \/ TuneStep(h) \/ Die(h)
             \/ Touched(h) \/ Chooses(h) \/ Pushes(h) \/ PushFails(h)
      PROVE FloorInv'
  <2>a. IsJob(work[h]) /\ Levelled(work[h].row) /\ Levelled(work[h].base) BY DEF WorkInv, FloorInv
  \* A handler begins with what it has read.
  <2>b. ASSUME NEW job, NEW where, NEW row, IsJob(job), Levelled(row), Read(h, where, job, row),
               UNCHANGED <<params, week>>,
               where = "stage" =>
                 /\ row.level \in Lowered(params.level) .. Raised(params.level)
                 /\ week = <<>> \/ Shown(row.level) >= MinShown \/ row.level = Lowered(params.level)
        PROVE  FloorInv'
    <3>. DEFINE new == [job EXCEPT !.at = where, !.row = row, !.base = params]
    <3>1. new.at = where /\ new.row = row /\ new.base = params BY <2>b DEF IsJob
    <3>2. Staged(new) BY <2>b, <3>1 DEF Staged
    <3>3. work' = [work EXCEPT ![h] = new] BY <2>b DEF Read, Begin
    <3>. HIDE DEF new
    <3>. QED BY <1>b, <2>b, <3>1, <3>2, <3>3, FloorKept
  \* Or it goes on with what it has, writes it, or is done.
  <2>c. ASSUME NEW job, work' = [work EXCEPT ![h] = job], week' = week, job.at # "stage",
               job.row \in {work[h].row, Idle.row}, job.base \in {work[h].row, work[h].base, Idle.base},
               params' \in {params, work[h].row}
        PROVE  FloorInv'
    <3>1. Levelled(job.row) /\ Levelled(job.base) /\ Levelled(params') /\ Staged(job)
      BY <1>a, <1>b, <2>a, <2>c DEF Staged
    <3>. QED BY <2>c, <3>1, FloorKept
  <2>d. ASSUME Leave(h), week' = week, params' \in {params, work[h].row} PROVE FloorInv'
    <3>1. Idle.at # "stage" BY DEF Idle
    <3>. QED BY <2>c, <2>d, <3>1 DEF Leave
  <2>e. ASSUME NEW where \in {"activate", "push"}, Written(h, where), week' = week,
               params' \in {params, work[h].row}
        PROVE  FloorInv'
    <3>. DEFINE new == [work[h] EXCEPT !.at = where, !.base = work[h].row]
    <3>1. new.at = where /\ new.row = work[h].row /\ new.base = work[h].row BY <2>a DEF IsJob
    <3>2. work' = [work EXCEPT ![h] = new] BY <2>e DEF Written
    <3>. HIDE DEF new
    <3>. QED BY <2>c, <2>e, <3>1, <3>2
  <2>1. CASE Touch(h) BY <1>a, <1>b, <2>b, <2>1 DEF Touch
  <2>2. CASE Choose(h)
    <3>1. PICK row \in Choices : Read(h, "choose", Idle, row) BY <2>2 DEF Choose
    <3>2. Levelled(row) BY <1>b DEF Choices, Automatic, Manual, Levelled, IsRow, TuningBounds
    <3>. QED BY <1>a, <2>2, <2>b, <3>1, <3>2 DEF Choose
  <2>3. CASE Poll(h) \/ \E r \in Recs : Decide(h, r)
    <3>. DEFINE new == [Idle EXCEPT !.at = "count"]
    <3>1. work' = [work EXCEPT ![h] = new] /\ UNCHANGED <<params, week>> BY <2>3 DEF Poll, Decide, Begin
    <3>2. new.at = "count" /\ new.row = Idle.row /\ new.base = Idle.base BY DEF Idle
    <3>. HIDE DEF new
    <3>. QED BY <2>c, <3>1, <3>2
  <2>4. CASE Counts(h) BY <1>a, <1>b, <2>b, <2>4 DEF Counts
  <2>5. CASE Lists(h)
    <3>. DEFINE new == [work[h] EXCEPT !.at = "keep", !.due = Due(work[h].row)]
    <3>1. work' = [work EXCEPT ![h] = new] /\ UNCHANGED <<params, week>> BY <2>5 DEF Lists
    <3>2. new.at = "keep" /\ new.row = work[h].row /\ new.base = work[h].base BY <2>a DEF IsJob
    <3>. HIDE DEF new
    <3>. QED BY <2>c, <3>1, <3>2
  <2>6. CASE Keeps(h) \/ Touched(h) BY <2>d, <2>6 DEF Keeps, Touched, Write
  <2>7. CASE SkipsManual(h) \/ Die(h) \/ PushFails(h) \/ Pushes(h)
    BY <2>d, <2>7 DEF SkipsManual, Die, PushFails, Pushes
  <2>8. CASE Resets(h)
    <3>. DEFINE row == [params EXCEPT !.source = "global", !.level = Default, !.at = clock]
    <3>1. Levelled(row) BY <1>b DEF Levelled, IsRow, TuningBounds
    <3>2. Read(h, "settle", work[h], row) /\ UNCHANGED <<params, week>> BY <2>8 DEF Resets
    <3>. HIDE DEF row
    <3>. QED BY <2>a, <2>b, <3>1, <3>2
  <2>9. CASE Moves(h)
    <3>1. PICK new \in {Raised(params.level), params.level, Lowered(params.level)} :
            Read(h, "stage", work[h], [params EXCEPT !.source = "personalized", !.level = Floored(params.level, new),
                                                !.before = params.level, !.at = clock])
      BY <2>9 DEF Moves
    <3>. DEFINE level == Floored(params.level, new)
                row == [params EXCEPT !.source = "personalized", !.level = level, !.before = params.level, !.at = clock]
    <3>2. params.level \in Thresholds BY <1>b DEF Levelled
    <3>3. /\ level \in Thresholds /\ level \in Lowered(params.level) .. Raised(params.level)
          /\ week = <<>> \/ Shown(level) >= MinShown \/ level = Lowered(params.level)
      BY <1>b, <3>2, FlooredIn
    <3>4. row.level = level /\ row.before = params.level BY <1>b DEF IsRow
    <3>5. Read(h, "stage", work[h], row) /\ UNCHANGED <<params, week>> BY <2>9, <3>1 DEF Moves
    <3>. HIDE DEF row, level
    <3>6. Levelled(row) BY <3>2, <3>3, <3>4 DEF Levelled
    <3>. QED BY <2>a, <2>b, <3>3, <3>4, <3>5, <3>6
  <2>10. CASE RollsBack(h)
    <3>. DEFINE row == [params EXCEPT !.source = "global", !.at = clock,
                                   !.level = IF params.before = 0 THEN Default ELSE params.before]
    <3>1. Levelled(row) BY <1>b DEF Levelled, IsRow, TuningBounds
    <3>2. Read(h, "settle", work[h], row) /\ UNCHANGED <<params, week>> BY <2>10 DEF RollsBack
    <3>. HIDE DEF row
    <3>. QED BY <2>a, <2>b, <3>1, <3>2
  <2>11. CASE \E kind \in Kinds : Take(h, kind)
    <3>1. PICK kind \in Kinds : Take(h, kind) BY <2>11
    <3>. DEFINE new == [Idle EXCEPT !.at = "tune", !.kind = kind]
    <3>2. work' = [work EXCEPT ![h] = new] /\ UNCHANGED <<params, week>> BY <3>1 DEF Take, Begin
    <3>3. new.at = "tune" /\ new.row = Idle.row /\ new.base = Idle.base BY DEF Idle
    <3>. HIDE DEF new
    <3>. QED BY <2>c, <3>2, <3>3
  <2>12. CASE Chooses(h) \/ Activates(h) \/ Stages(h) \/ Settles(h)
    BY <2>12, <2>e DEF Chooses, Activates, Stages, Settles, Write
  <2>. QED BY <1>3, <2>1, <2>2, <2>3, <2>4, <2>5, <2>6, <2>7, <2>8, <2>9, <2>10, <2>11, <2>12
          DEF Request, CountStep, TuneStep
<1>. QED BY <1>1, <1>2, <1>3 DEF Next

-----------------------------------------------------------------------------
\* Everything has its type: a tuned threshold is one of those that there may be.
LEMMA IdleTyped == ASSUME TuningBounds PROVE Idle \in Job /\ Default \in Thresholds /\ Thresholds \subseteq Nat
<1>1. Default \in Thresholds /\ Thresholds \subseteq Nat BY DEF TuningBounds, Thresholds
<1>. QED BY <1>1 DEF Idle, Job, Fresh, Row, Kinds

LEMMA TypeInit == ASSUME TuningBounds, Init PROVE TypeInv
<1>1. clock = 1 /\ decided \in [Recs -> 0 .. clock] BY DEF Init
<1>2. Fresh \in Row BY <1>1, IdleTyped DEF Fresh, Row
<1>3. params \in Row /\ prefs \in Nat /\ chosen \in [mode: {"auto", "manual"}, level: Thresholds]
  BY <1>2, IdleTyped DEF Init
<1>4. tasks \in [Kinds -> Nat] /\ work \in [Handlers -> Job] BY IdleTyped DEF Init
<1>5. budget \in Nat BY DEF Init, TuningBounds
<1>6. {crossed, apart} \subseteq BOOLEAN BY DEF Init
<1>. QED BY <1>1, <1>3, <1>4, <1>5, <1>6 DEF Init, TypeInv

LEMMA TypeStep == ASSUME TuningBounds, TypeInv, Next PROVE TypeInv'
<1>a. /\ params \in Row /\ decided \in [Recs -> 0 .. clock] /\ clock \in Nat
      /\ week \in Weeks /\ tasks \in [Kinds -> Nat] /\ prefs \in Nat
      /\ work \in [Handlers -> Job] /\ budget \in Nat
      /\ chosen \in [mode: {"auto", "manual"}, level: Thresholds] /\ crossed \in BOOLEAN /\ apart \in BOOLEAN
  BY DEF TypeInv
<1>b. Idle \in Job /\ Default \in Thresholds /\ Thresholds \subseteq Nat BY IdleTyped
<1>c. Event => budget' \in Nat BY <1>a DEF Event
<1>d. Fresh \in Row BY <1>a, <1>b DEF Fresh, Row
<1>e. \A row \in Row : Setting(row) \in [mode: {"auto", "manual"}, level: Thresholds] BY DEF Setting, Row
<1>f. ASSUME /\ params' \in Row /\ decided' \in [Recs -> 0 .. clock'] /\ clock' \in Nat
             /\ week' = week /\ tasks' \in [Kinds -> Nat] /\ prefs' \in Nat
             /\ work' \in [Handlers -> Job] /\ budget' \in Nat
             /\ chosen' \in [mode: {"auto", "manual"}, level: Thresholds] /\ crossed' \in BOOLEAN /\ apart' \in BOOLEAN
      PROVE  TypeInv'
  BY <1>a, <1>f DEF TypeInv
<1>1. CASE \E kind \in Kinds : Order(kind)
  BY <1>1, <1>a, <1>c, <1>f DEF Order, history
<1>2. CASE Forget
  <2>1. decided' \in [Recs -> 0 .. clock] BY <1>2, <1>a DEF Forget
  <2>. QED BY <1>2, <1>a, <1>c, <1>d, <1>e, <1>f, <2>1 DEF Forget
<1>3. ASSUME NEW h \in Handlers,
             Request(h) \/ CountStep(h) \/ TuneStep(h) \/ Die(h)
             \/ Touched(h) \/ Chooses(h) \/ Pushes(h) \/ PushFails(h)
      PROVE TypeInv'
  <2>a. work[h] \in Job /\ work[h].row \in Row /\ work[h].base \in Row BY <1>a DEF Job
  \* What becomes of a handler: it leaves, begins, reads, or goes on after a write.
  <2>b. Leave(h) => work' \in [Handlers -> Job] BY <1>a, <1>b DEF Leave
  <2>c. ASSUME NEW job \in Job, NEW where \in {"list", "choose", "stage", "settle", "touch"}, NEW row \in Row,
               Read(h, where, job, row)
        PROVE  work' \in [Handlers -> Job]
    <3>1. [job EXCEPT !.at = where, !.row = row, !.base = params] \in Job BY <1>a, <2>c DEF Job
    <3>. QED BY <1>a, <2>c, <3>1 DEF Read, Begin
  <2>d. ASSUME NEW where \in {"activate", "push"}, Written(h, where) PROVE work' \in [Handlers -> Job]
    <3>1. [work[h] EXCEPT !.at = where, !.base = work[h].row] \in Job BY <2>a, <2>d DEF Job
    <3>. QED BY <1>a, <2>d, <3>1 DEF Written
  <2>e. Write(h) => params' \in Row /\ crossed' \in BOOLEAN /\ apart' \in BOOLEAN BY <1>a, <2>a DEF Write, Undoes
  <2>1. CASE Touch(h) BY <2>1, <1>a, <1>b, <1>c, <1>f, <2>c DEF Touch, history
  <2>2. CASE Choose(h)
    <3>1. PICK row \in Choices : Read(h, "choose", Idle, row) BY <2>2 DEF Choose
    <3>2. row \in Row
      <4>1. \A source \in {"global", params.source} :
              [params EXCEPT !.mode = "auto", !.source = source, !.at = clock] \in Row
        BY <1>a DEF Row
      <4>2. params.level \in Thresholds /\ Strict \subseteq Thresholds BY <1>a DEF Row, TuningBounds
      <4>3. \A level \in Strict :
              [params EXCEPT !.mode = "manual", !.source = "personalized", !.level = level, !.at = clock] \in Row
        BY <1>a, <4>2 DEF Row
      <4>4. [params EXCEPT !.mode = "manual", !.at = clock] \in Row BY <1>a DEF Row
      <4>. QED BY <4>1, <4>3, <4>4 DEF Choices, Automatic, Manual
    <3>. QED BY <2>2, <1>a, <1>b, <1>c, <1>f, <2>c, <3>1, <3>2 DEF Choose, history
  <2>3. CASE Poll(h) \/ \E r \in Recs : Decide(h, r)
    <3>1. [Idle EXCEPT !.at = "count"] \in Job BY <1>b DEF Job
    <3>2. work' \in [Handlers -> Job] BY <2>3, <1>a, <3>1 DEF Poll, Decide, Begin
    <3>3. clock' \in Nat /\ decided' \in [Recs -> 0 .. clock'] BY <2>3, <1>a DEF Poll, Decide
    <3>. QED BY <2>3, <1>a, <1>c, <1>f, <3>2, <3>3 DEF Poll, Decide, history
  <2>4. CASE Counts(h) BY <2>4, <1>a, <1>b, <1>f, <2>c DEF Counts, history
  <2>5. CASE Lists(h)
    <3>1. Due(work[h].row) \in BOOLEAN BY DEF Due
    <3>2. [work[h] EXCEPT !.at = "keep", !.due = Due(work[h].row)] \in Job BY <2>a, <3>1 DEF Job
    <3>. QED BY <2>5, <1>a, <1>f, <3>2 DEF Lists, history
  <2>6. CASE Keeps(h)
    <3>1. "due" \in Kinds /\ tasks["due"] \in Nat /\ tasks["due"] + 1 \in Nat BY <1>a DEF Kinds
    <3>2. tasks' \in [Kinds -> Nat]
      <4>1. CASE work[h].due BY <2>6, <1>a, <3>1, <4>1 DEF Keeps
      <4>2. CASE ~work[h].due BY <2>6, <1>a, <3>1, <4>2 DEF Keeps
      <4>. QED BY <4>1, <4>2
    <3>. QED BY <2>6, <1>a, <1>f, <2>b, <2>e, <3>2 DEF Keeps
  <2>7. CASE Touched(h) BY <2>7, <1>a, <1>f, <2>b, <2>e DEF Touched
  <2>8. CASE SkipsManual(h) BY <2>8, <1>a, <1>f, <2>b DEF SkipsManual, history
  <2>9. CASE Resets(h)
    <3>1. [params EXCEPT !.source = "global", !.level = Default, !.at = clock] \in Row BY <1>a, <1>b DEF Row
    <3>. QED BY <2>9, <1>a, <1>f, <2>a, <2>c, <3>1 DEF Resets, history
  <2>10. CASE Moves(h)
    <3>1. PICK new \in {Raised(params.level), params.level, Lowered(params.level)} :
            Read(h, "stage", work[h], [params EXCEPT !.source = "personalized", !.level = Floored(params.level, new),
                                                !.before = params.level, !.at = clock])
      BY <2>10 DEF Moves
    <3>2. week \in Seq(Thresholds) /\ params.level \in Thresholds BY <1>a DEF TuningBounds, Row
    <3>3. Floored(params.level, new) \in Thresholds BY <3>2, FlooredIn
    <3>4. [params EXCEPT !.source = "personalized", !.level = Floored(params.level, new),
                                                !.before = params.level, !.at = clock] \in Row
      BY <1>a, <3>2, <3>3 DEF Row
    <3>. QED BY <2>10, <1>a, <1>f, <2>a, <2>c, <3>1, <3>4 DEF Moves, history
  <2>11. CASE RollsBack(h)
    <3>1. [params EXCEPT !.source = "global", !.at = clock,
                                   !.level = IF params.before = 0 THEN Default ELSE params.before] \in Row
      BY <1>a, <1>b DEF Row
    <3>. QED BY <2>11, <1>a, <1>f, <2>a, <2>c, <3>1 DEF RollsBack, history
  <2>12. CASE \E kind \in Kinds : Take(h, kind)
    <3>1. PICK kind \in Kinds : Take(h, kind) BY <2>12
    <3>2. [Idle EXCEPT !.at = "tune", !.kind = kind] \in Job BY <1>b DEF Job
    <3>3. tasks' \in [Kinds -> Nat] BY <1>a, <3>1 DEF Take
    <3>. QED BY <1>a, <1>f, <3>1, <3>2, <3>3 DEF Take, Begin, history
  <2>13. CASE Die(h)
    <3>1. tasks' \in [Kinds -> Nat] BY <2>13, <1>a DEF Die
    <3>2. apart' \in BOOLEAN BY <2>13, <1>a DEF Die
    <3>. QED BY <2>13, <1>a, <1>c, <1>f, <2>b, <3>1, <3>2 DEF Die
  <2>14. CASE Chooses(h) BY <2>14, <1>a, <1>e, <1>f, <2>a, <2>d, <2>e DEF Chooses
  <2>15. CASE Stages(h) \/ Settles(h)
    <3>1. chosen' \in [mode: {"auto", "manual"}, level: Thresholds] BY <2>15, <1>a, <2>a DEF Stages, Settles, Ordered, Row
    <3>. QED BY <2>15, <1>a, <1>f, <2>d, <2>e, <3>1 DEF Stages, Settles
  <2>16. CASE Activates(h) BY <2>16, <1>a, <1>f, <2>d, <2>e DEF Activates
  <2>17. CASE Pushes(h)
    <3>1. prefs' \in Nat /\ apart' \in BOOLEAN BY <2>17, <1>a, <1>b, <2>a DEF Pushes, Row
    <3>. QED BY <2>17, <1>a, <1>f, <2>b, <3>1 DEF Pushes
  <2>18. CASE PushFails(h) BY <2>18, <1>a, <1>c, <1>f, <2>b DEF PushFails
  <2>. QED BY <1>3, <2>1, <2>2, <2>3, <2>4, <2>5, <2>6, <2>7, <2>8, <2>9, <2>10, <2>11, <2>12, <2>13, <2>14,
              <2>15, <2>16, <2>17, <2>18 DEF Request, CountStep, TuneStep
<1>. QED BY <1>1, <1>2, <1>3 DEF Next

\* Everything of the tuning has its type: what is stored, and what a rollback would restore, stays
\* within the bounds, whichever copy is written back and whoever else sets the preference.
THEOREM TypeCorrect == ASSUME TuningBounds PROVE Spec => []TypeInv
<1>1. TypeInv /\ [Next]_tuningVars => TypeInv'
  <2>1. CASE UNCHANGED tuningVars BY <2>1 DEF tuningVars, history, TypeInv
  <2>. QED BY <2>1, TypeStep
<1>. QED BY <1>1, TypeInit, PTL DEF Spec

\* The mode is the user's last choice, and in manual mode so is the threshold, unless a row
\* was written that changed what it had not read.
THEOREM ChoiceStands == Spec => []ChoiceHolds
<1>1. TuneInv => ChoiceHolds BY DEF TuneInv
<1>. QED BY TuneInit, TuneStepKept, <1>1, PTL DEF Spec

\* With nobody at work the preference is the threshold of the parameters, but for the known reasons.
THEOREM ScoringFollows == Spec => []ScoringAgrees
<1>1. TuneInv => ScoringAgrees BY DEF TuneInv, PushInv, ScoringAgrees, Quiet, At
<1>. QED BY TuneInit, TuneStepKept, <1>1, PTL DEF Spec

\* A tuning stays within the bounds and the step, and leaves enough to be shown or has gone down
\* as far as it may.
THEOREM FloorStands == ASSUME TuningBounds PROVE Spec => []FloorHolds
<1>1. Init => WorkInv /\ FloorInv BY TuneInit, FloorInit DEF TuneInv
<1>2. TuneInv /\ FloorInv /\ [Next]_tuningVars => FloorInv'
  <2>1. CASE UNCHANGED tuningVars BY <2>1 DEF tuningVars, FloorInv, Levelled, Staged, Shown
  <2>. QED BY <2>1, FloorStep DEF TuneInv
<1>3. FloorInv => FloorHolds BY DEF FloorInv, FloorHolds, Staged, At
<1>. QED BY <1>1, <1>2, <1>3, TuneInit, TuneStepKept, PTL DEF Spec
=============================================================================
