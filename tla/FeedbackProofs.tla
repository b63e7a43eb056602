---------------------------- MODULE FeedbackProofs ----------------------------
(***************************************************************************)
(* Review and Learning where store calls do not overlap, for any number of *)
(* matches, decisions, keys, users and workers: the trail of decisions,    *)
(* what a decision replaces, what Learning holds, and when the two agree.  *)
(***************************************************************************)
EXTENDS Feedback, FiniteSetTheorems, NaturalsInduction, WellFoundedInduction, TLAPS

\* The memory stores, a call of which is one step, or Cosmos stores whose calls happen not to overlap.
Sequential == Deployments \subseteq {"memory"} \/ Overlaps \subseteq {FALSE}
Current == (deployment = "memory" \/ ~overlap) /\ \A t \in Threads : hydrated[t] = None

-----------------------------------------------------------------------------
(* The trail of decisions, whoever writes it.                              *)

ReviewInv ==
  /\ rev \in Reviews
  /\ \A d \in Decisions : rev.dec[d].match = None => rev.dec[d] = NoDecision
  /\ LatestFits /\ TrailIsALine

Decides(m, d, choice, key) ==
  /\ rev.match[m].etag < MaxEtag /\ rev.dec[d].match = None
  /\ rev' = Decided(rev, m, d, choice, key)
Reopens(m) == rev.match[m].etag < MaxEtag /\ rev' = Reopened(rev, m)
Rescores(m) == rev.match[m].etag < MaxEtag /\ CanRescore(rev, m) /\ rev' = Rescored(rev, m)
Ages(d) == rev.dec[d].match # None /\ rev' = [rev EXCEPT !.dec[d].old = TRUE]
\* All that happens to the Review store.
ReviewChange ==
  \/ \E m \in Matches, d \in Decisions, choice \in Choices, key \in Keys \cup {None} : Decides(m, d, choice, key)
  \/ \E m \in Matches : Reopens(m) \/ Rescores(m)
  \/ \E d \in Decisions : Ages(d)

\* What is left as it is by every change: the decisions that there are, and which of them
\* are not current any more.
Lasting ==
  /\ \A d \in Decisions : rev.dec[d].match # None =>
       /\ rev'.dec[d].match = rev.dec[d].match /\ rev'.dec[d].choice = rev.dec[d].choice
       /\ rev'.dec[d].version = rev.dec[d].version /\ rev'.dec[d].key = rev.dec[d].key
       /\ rev.dec[d].old => rev'.dec[d].old
  /\ \A m \in Matches : rev'.match[m].latest \in {rev.match[m].latest, None} \cup
                                               {d \in Decisions : rev.dec[d].match = None}

LEMMA SmallTrail ==
  ASSUME ReviewInv, NEW m \in Matches
  PROVE  /\ IsFiniteSet(History(rev, m)) /\ Cardinality(History(rev, m)) \in 0 .. Cardinality(Decisions)
         /\ History(rev, m) \subseteq Decisions
         /\ \A d \in Decisions : d \notin History(rev, m) => Cardinality(History(rev, m)) < Cardinality(Decisions)
<1>. DEFINE H == History(rev, m)
<1>1. IsFiniteSet(Decisions) /\ H \subseteq Decisions BY ReviewBounds DEF History
<1>2. /\ IsFiniteSet(H) /\ Cardinality(H) \in Nat /\ Cardinality(Decisions) \in Nat
      /\ Cardinality(H) <= Cardinality(Decisions)
  BY <1>1, FS_Subset, FS_CardinalityType
<1>3. \A d \in Decisions : d \notin H => Cardinality(H) < Cardinality(Decisions)
  <2>1. SUFFICES ASSUME NEW d \in Decisions, d \notin H PROVE Cardinality(H) < Cardinality(Decisions) OBVIOUS
  <2>2. Cardinality(H) # Cardinality(Decisions)
    BY <1>1, <2>1, FS_Subset
  <2>. QED BY <1>2, <2>2
<1>. QED BY <1>1, <1>2, <1>3

LEMMA NewestIs ==
  ASSUME ReviewInv, NEW m \in Matches, History(rev, m) # {}
  PROVE  /\ Newest(rev, History(rev, m)) \in History(rev, m)
         /\ rev.dec[Newest(rev, History(rev, m))].version = Cardinality(History(rev, m))
<1>. DEFINE H == History(rev, m)  n == Cardinality(H)  new == Newest(rev, H)
<1>1. n \in Nat /\ H \subseteq Decisions BY SmallTrail
<1>2. {rev.dec[d].version : d \in H} = 1 .. n BY DEF ReviewInv, TrailIsALine
<1>3. n \in 1 .. n
  <2>1. PICK d \in H : TRUE OBVIOUS
  <2>2. rev.dec[d].version \in 1 .. n BY <1>2
  <2>. QED BY <1>1, <2>2
<1>4. PICK d \in H : rev.dec[d].version = n BY <1>2, <1>3
<1>5. \A e \in H : rev.dec[e].version \in 1 .. n BY <1>2
<1>6. \A e \in H : rev.dec[e].version <= rev.dec[d].version BY <1>1, <1>4, <1>5
<1>7. new \in H /\ \A e \in H : rev.dec[e].version <= rev.dec[new].version BY <1>6 DEF Newest
<1>8. rev.dec[new].version = n BY <1>1, <1>4, <1>5, <1>7
<1>. QED BY <1>7, <1>8

\* The next version is the number of decisions so far, and one.
LEMMA NextIsNext ==
  ASSUME ReviewInv, NEW m \in Matches PROVE NextVersion(rev, m) = Cardinality(History(rev, m)) + 1
<1>1. CASE History(rev, m) = {} BY <1>1, FS_EmptySet DEF NextVersion
<1>2. CASE History(rev, m) # {} BY <1>2, NewestIs DEF NextVersion
<1>. QED BY <1>1, <1>2

LEMMA DecidedRows ==
  ASSUME ReviewInv, NEW m \in Matches, NEW d \in Decisions, NEW choice \in Choices, NEW key \in Keys \cup {None},
         rev.match[m].etag < MaxEtag, rev.dec[d].match = None, NEW w, w = Decided(rev, m, d, choice, key)
  PROVE  /\ w \in Reviews
         /\ w.match[m] = [status |-> StatusFor(choice), latest |-> d, etag |-> rev.match[m].etag + 1]
         /\ \A x \in Matches \ {m} : w.match[x] = rev.match[x]
         /\ w.dec[d] = [match |-> m, choice |-> choice, version |-> Cardinality(History(rev, m)) + 1,
                        supersedes |-> IF rev.match[m].status \in Terminal THEN rev.match[m].latest ELSE None,
                        key |-> key, old |-> FALSE]
         /\ \A x \in Decisions \ {d} : w.dec[x] = rev.dec[x]
<1>. DEFINE n == Cardinality(History(rev, m))
            sup == IF rev.match[m].status \in Terminal THEN rev.match[m].latest ELSE None
            new == [match |-> m, choice |-> choice, version |-> n + 1, supersedes |-> sup, key |-> key, old |-> FALSE]
            row == [status |-> StatusFor(choice), latest |-> d, etag |-> rev.match[m].etag + 1]
<1>1. rev \in Reviews /\ rev.match[m] \in MatchRow /\ None \notin Matches
  BY ReviewNone DEF ReviewInv, Reviews
<1>2. n \in Nat /\ n < Cardinality(Decisions) /\ Cardinality(Decisions) \in Nat
  <2>1. d \notin History(rev, m) BY <1>1 DEF History
  <2>. QED BY <2>1, SmallTrail, ReviewBounds, FS_CardinalityType
<1>3. sup \in Decisions \cup {None} BY <1>1 DEF MatchRow
<1>4. new \in DecisionRow BY <1>2, <1>3 DEF DecisionRow
<1>5. row \in MatchRow BY <1>1, ReviewBounds DEF MatchRow, StatusFor, Terminal
<1>6. w = [match |-> [rev.match EXCEPT ![m] = row], dec |-> [rev.dec EXCEPT ![d] = new]]
  BY NextIsNext DEF Decided
<1>. HIDE DEF new, row
<1>7. w \in Reviews BY <1>1, <1>4, <1>5, <1>6 DEF Reviews
<1>8. /\ w.match[m] = row /\ \A x \in Matches \ {m} : w.match[x] = rev.match[x]
      /\ w.dec[d] = new /\ \A x \in Decisions \ {d} : w.dec[x] = rev.dec[x]
  BY <1>1, <1>6 DEF Reviews
<1>. QED BY <1>7, <1>8 DEF new, row

LEMMA DecidedKeeps ==
  ASSUME ReviewInv, NEW m \in Matches, NEW d \in Decisions, NEW choice \in Choices, NEW key \in Keys \cup {None},
         Decides(m, d, choice, key)
  PROVE  ReviewInv' /\ Lasting
<1>. DEFINE H == History(rev, m)  n == Cardinality(H)
            sup == IF rev.match[m].status \in Terminal THEN rev.match[m].latest ELSE None
            new == [match |-> m, choice |-> choice, version |-> n + 1, supersedes |-> sup, key |-> key, old |-> FALSE]
            row == [status |-> StatusFor(choice), latest |-> d, etag |-> rev.match[m].etag + 1]
<1>1. /\ rev \in Reviews /\ rev.match[m] \in MatchRow /\ rev.match[m].etag < MaxEtag
      /\ rev.dec[d] = NoDecision /\ rev.dec[d].match = None /\ None \notin Matches
  BY ReviewNone DEF ReviewInv, Decides, Reviews
<1>2. IsFiniteSet(H) /\ n \in Nat /\ n < Cardinality(Decisions) /\ Cardinality(Decisions) \in Nat /\ d \notin H
  <2>1. d \notin H BY <1>1 DEF History
  <2>. QED BY <2>1, SmallTrail, ReviewBounds, FS_CardinalityType
<1>7. /\ rev'.match[m] = row /\ \A x \in Matches \ {m} : rev'.match[x] = rev.match[x]
      /\ rev'.dec[d] = new /\ \A x \in Decisions \ {d} : rev'.dec[x] = rev.dec[x]
  BY DecidedRows DEF Decides
<1>8. rev' \in Reviews BY DecidedRows DEF Decides
<1>9. Lasting
  <2>1. \A x \in Decisions : rev.dec[x].match # None => x # d BY <1>1
  <2>2. rev'.match[m].latest = d BY <1>7
  <2>. QED BY <1>1, <1>7, <2>1, <2>2 DEF Lasting
<1>10. \A x \in Decisions : rev'.dec[x].match = None => rev'.dec[x] = NoDecision BY <1>1, <1>7 DEF ReviewInv
<1>11. History(rev', m) = H \cup {d} /\ \A x \in Matches \ {m} : History(rev', x) = History(rev, x)
  <2>1. rev'.dec[d].match = m /\ d \notin H BY <1>2, <1>7
  <2>2. \A x \in Decisions \ {d} : rev'.dec[x].match = rev.dec[x].match BY <1>7
  <2>. HIDE DEF new
  <2>. QED BY <1>1, <2>1, <2>2 DEF History
<1>12. \A x \in H : rev'.dec[x] = rev.dec[x] /\ rev.dec[x].version \in 1 .. n
  <2>1. \A x \in H : x \in Decisions \ {d} BY <1>2 DEF History
  <2>2. {rev.dec[x].version : x \in H} = 1 .. n BY DEF ReviewInv, TrailIsALine
  <2>. QED BY <1>7, <2>1, <2>2
<1>13. LatestFits'
  <2>1. SUFFICES ASSUME NEW x \in Matches
                 PROVE IF rev'.match[x].status = "PENDING" THEN rev'.match[x].latest = None
                       ELSE /\ rev'.match[x].latest \in History(rev', x)
                            /\ \A e \in History(rev', x) : rev'.dec[e].version <= rev'.dec[rev'.match[x].latest].version
                            /\ rev'.match[x].status = StatusFor(rev'.dec[rev'.match[x].latest].choice)
    BY DEF LatestFits
  <2>2. CASE x = m
    <3>1. rev'.match[m].latest = d /\ rev'.match[m].status = StatusFor(choice) /\ StatusFor(choice) # "PENDING"
      BY <1>7 DEF StatusFor
    <3>2. \A e \in H \cup {d} : rev'.dec[e].version <= n + 1 BY <1>2, <1>7, <1>12
    <3>. QED BY <1>7, <1>11, <2>2, <3>1, <3>2
  <2>3. CASE x # m
    <3>1. d \notin History(rev, x) BY <1>1 DEF History
    <3>2. \A e \in History(rev, x) : rev'.dec[e] = rev.dec[e] BY <1>7, <3>1 DEF History
    <3>. QED BY <1>7, <1>11, <2>3, <3>2 DEF ReviewInv, LatestFits
  <2>. QED BY <2>2, <2>3
<1>14. TrailIsALine'
  <2>1. SUFFICES ASSUME NEW x \in Matches
                 PROVE /\ {rev'.dec[e].version : e \in History(rev', x)} = 1 .. Cardinality(History(rev', x))
                       /\ \A e \in History(rev', x) : rev'.dec[e].supersedes # None =>
                            /\ rev'.dec[e].supersedes \in History(rev', x)
                            /\ rev'.dec[rev'.dec[e].supersedes].version = rev'.dec[e].version - 1
    BY DEF TrailIsALine
  <2>2. CASE x = m
    <3>1. Cardinality(H \cup {d}) = n + 1 BY <1>2, FS_AddElement
    <3>2. {rev'.dec[e].version : e \in H \cup {d}} = (1 .. n) \cup {n + 1}
      <4>1. {rev.dec[e].version : e \in H} = 1 .. n BY DEF ReviewInv, TrailIsALine
      <4>2. {rev'.dec[e].version : e \in H \cup {d}} = {rev'.dec[e].version : e \in H} \cup {rev'.dec[d].version}
        OBVIOUS
      <4>3. {rev'.dec[e].version : e \in H} = {rev.dec[e].version : e \in H} BY <1>12
      <4>. QED BY <1>7, <4>1, <4>2, <4>3
    <3>3. \A e \in H : rev.dec[e].supersedes # None => rev.dec[e].supersedes \in H /\
            rev.dec[rev.dec[e].supersedes].version = rev.dec[e].version - 1
      BY DEF ReviewInv, TrailIsALine
    <3>4. sup # None => sup \in H /\ rev.dec[sup].version = n
      <4>1. SUFFICES ASSUME sup # None PROVE sup \in H /\ rev.dec[sup].version = n OBVIOUS
      <4>2. rev.match[m].status # "PENDING" /\ sup = rev.match[m].latest BY <4>1 DEF Terminal
      <4>3. sup \in H /\ \A e \in H : rev.dec[e].version <= rev.dec[sup].version
        BY <4>2 DEF ReviewInv, LatestFits
      <4>4. n \in {rev.dec[e].version : e \in H}
        BY <1>2, <4>3, <1>12 DEF ReviewInv, TrailIsALine
      <4>5. rev.dec[sup].version \in 1 .. n BY <1>12, <4>3
      <4>. QED BY <1>2, <4>3, <4>4, <4>5
    <3>5. (1 .. n) \cup {n + 1} = 1 .. (n + 1) BY <1>2
    <3>6. rev'.dec[d].supersedes = sup /\ rev'.dec[d].version = n + 1 BY <1>7
    <3>7. sup # None => rev'.dec[sup].version = rev'.dec[d].version - 1 BY <1>2, <1>12, <3>4, <3>6
    <3>8. \A e \in H : rev'.dec[e].supersedes # None => rev'.dec[e].supersedes \in H /\
            rev'.dec[rev'.dec[e].supersedes].version = rev'.dec[e].version - 1
      BY <1>12, <3>3
    <3>. QED BY <1>11, <2>2, <3>1, <3>2, <3>4, <3>5, <3>6, <3>7, <3>8
  <2>3. CASE x # m
    <3>1. d \notin History(rev, x) BY <1>1 DEF History
    <3>2. \A e \in History(rev, x) : rev'.dec[e] = rev.dec[e] BY <1>7, <3>1 DEF History
    <3>3. {rev'.dec[e].version : e \in History(rev, x)} = {rev.dec[e].version : e \in History(rev, x)} BY <3>2
    <3>. QED BY <1>11, <2>3, <3>2, <3>3 DEF ReviewInv, TrailIsALine
  <2>. QED BY <2>2, <2>3
<1>. QED BY <1>8, <1>9, <1>10, <1>13, <1>14 DEF ReviewInv

LEMMA DecidedFields ==
  ASSUME ReviewInv, NEW m \in Matches, NEW d \in Decisions, NEW choice \in Choices, NEW key \in Keys \cup {None},
         rev.match[m].etag < MaxEtag, rev.dec[d].match = None, NEW w, w = Decided(rev, m, d, choice, key)
  PROVE  /\ w \in Reviews
         /\ w.match[m].status = StatusFor(choice) /\ w.match[m].latest = d
         /\ w.match[m].etag = rev.match[m].etag + 1
         /\ \A x \in Matches \ {m} : w.match[x] = rev.match[x]
         /\ w.dec[d].match = m /\ w.dec[d].choice = choice /\ ~w.dec[d].old
         /\ w.dec[d].supersedes = IF rev.match[m].status \in Terminal THEN rev.match[m].latest ELSE None
         /\ \A x \in Decisions \ {d} : w.dec[x] = rev.dec[x]
<1>. DEFINE sup == IF rev.match[m].status \in Terminal THEN rev.match[m].latest ELSE None
            new == [match |-> m, choice |-> choice, version |-> Cardinality(History(rev, m)) + 1, supersedes |-> sup,
                    key |-> key, old |-> FALSE]
            row == [status |-> StatusFor(choice), latest |-> d, etag |-> rev.match[m].etag + 1]
<1>1. /\ w \in Reviews /\ w.match[m] = row
      /\ \A x \in Matches \ {m} : w.match[x] = rev.match[x]
      /\ w.dec[d] = new
      /\ \A x \in Decisions \ {d} : w.dec[x] = rev.dec[x]
  BY DecidedRows
<1>2. /\ new.match = m /\ new.choice = choice /\ new.supersedes = sup /\ ~new.old
      /\ row.status = StatusFor(choice) /\ row.latest = d /\ row.etag = rev.match[m].etag + 1
  OBVIOUS
<1>. HIDE DEF new, row
<1>. QED BY <1>1, <1>2

\* Only the row of a match changes, or the age of a decision.
LEMMA RowsKeep ==
  ASSUME ReviewInv, rev' \in Reviews,
         \A d \in Decisions : rev'.dec[d] \in {rev.dec[d], [rev.dec[d] EXCEPT !.old = TRUE]} /\
           (rev.dec[d].match = None => rev'.dec[d] = rev.dec[d]),
         \A m \in Matches :
           \/ rev'.match[m].status = "PENDING" /\ rev'.match[m].latest = None
           \/ rev'.match[m].status = rev.match[m].status /\ rev'.match[m].latest = rev.match[m].latest
  PROVE  ReviewInv' /\ Lasting
<1>1. \A d \in Decisions :
        /\ rev'.dec[d].match = rev.dec[d].match /\ rev'.dec[d].choice = rev.dec[d].choice
        /\ rev'.dec[d].version = rev.dec[d].version /\ rev'.dec[d].key = rev.dec[d].key
        /\ rev'.dec[d].supersedes = rev.dec[d].supersedes
        /\ rev.dec[d].old => rev'.dec[d].old
  <2>1. \A d \in Decisions : rev.dec[d] \in DecisionRow BY DEF ReviewInv, Reviews
  <2>. QED BY <2>1 DEF DecisionRow
<1>2. \A m \in Matches : History(rev', m) = History(rev, m) BY <1>1 DEF History
<1>3. \A m \in Matches : {rev'.dec[d].version : d \in History(rev, m)} = {rev.dec[d].version : d \in History(rev, m)}
  BY <1>1 DEF History
<1>4. LatestFits' BY <1>1, <1>2 DEF ReviewInv, LatestFits, History
<1>5. TrailIsALine'
  <2>1. \A m \in Matches : History(rev, m) \subseteq Decisions BY DEF History
  <2>. QED BY <1>1, <1>2, <1>3, <2>1 DEF ReviewInv, TrailIsALine
<1>6. \A d \in Decisions : rev'.dec[d].match = None => rev'.dec[d] = NoDecision BY <1>1 DEF ReviewInv
<1>7. Lasting BY <1>1 DEF Lasting
<1>. QED BY <1>4, <1>5, <1>6, <1>7 DEF ReviewInv

LEMMA ChangeKeeps == ASSUME ReviewInv, ReviewChange \/ rev' = rev PROVE ReviewInv' /\ Lasting
<1>1. rev \in Reviews BY DEF ReviewInv
<1>2. CASE rev' = rev BY <1>1, <1>2, RowsKeep
<1>3. ASSUME NEW m \in Matches, Reopens(m) PROVE ReviewInv' /\ Lasting
  <2>1. rev' = [rev EXCEPT !.match[m] = ReopenedRow(@)] BY <1>3 DEF Reopens, Reopened
  <2>2. ReopenedRow(rev.match[m]) \in MatchRow
    BY <1>1, <1>3, ReviewBounds DEF Reopens, ReopenedRow, Reviews, MatchRow
  <2>3. rev' \in Reviews /\ rev'.dec = rev.dec /\ rev'.match = [rev.match EXCEPT ![m] = ReopenedRow(rev.match[m])]
    BY <1>1, <2>1, <2>2 DEF Reviews
  <2>4. \A x \in Matches : x # m => rev'.match[x] = rev.match[x] BY <1>1, <2>3 DEF Reviews
  <2>5. rev'.match[m].status = "PENDING" /\ rev'.match[m].latest = None BY <1>1, <2>3 DEF Reviews, ReopenedRow
  <2>. QED BY <2>3, <2>4, <2>5, RowsKeep
<1>4. ASSUME NEW m \in Matches, Rescores(m) PROVE ReviewInv' /\ Lasting
  <2>1. rev' = [rev EXCEPT !.match[m].etag = @ + 1] BY <1>4 DEF Rescores, Rescored
  <2>2. rev.match[m].etag + 1 \in 1 .. MaxEtag BY <1>1, <1>4, ReviewBounds DEF Rescores, Reviews, MatchRow
  <2>3. [rev.match[m] EXCEPT !.etag = @ + 1] \in MatchRow BY <1>1, <2>2 DEF Reviews, MatchRow
  <2>4. rev'.dec = rev.dec /\ rev'.match = [rev.match EXCEPT ![m] = [rev.match[m] EXCEPT !.etag = @ + 1]]
    BY <1>1, <2>1 DEF Reviews
  <2>5. rev' \in Reviews
    <3>1. rev'.match \in [Matches -> MatchRow] BY <1>1, <2>3, <2>4 DEF Reviews
    <3>2. rev' = [rev EXCEPT !.match = rev'.match] BY <1>1, <2>1 DEF Reviews
    <3>. QED BY <1>1, <3>1, <3>2 DEF Reviews
  <2>6. \A x \in Matches : rev'.match[x].status = rev.match[x].status /\ rev'.match[x].latest = rev.match[x].latest
    BY <1>1, <2>4 DEF Reviews, MatchRow
  <2>. QED BY <2>4, <2>5, <2>6, RowsKeep
<1>5. ASSUME NEW d \in Decisions, Ages(d) PROVE ReviewInv' /\ Lasting
  <2>1. rev' = [rev EXCEPT !.dec = [rev.dec EXCEPT ![d] = [rev.dec[d] EXCEPT !.old = TRUE]]]
    BY <1>1, <1>5 DEF Ages, Reviews
  <2>2. [rev.dec[d] EXCEPT !.old = TRUE] \in DecisionRow BY <1>1 DEF Reviews, DecisionRow
  <2>3. rev'.match = rev.match /\ rev'.dec = [rev.dec EXCEPT ![d] = [rev.dec[d] EXCEPT !.old = TRUE]]
    BY <1>1, <2>1 DEF Reviews
  <2>4. rev' \in Reviews
    <3>1. rev'.dec \in [Decisions -> DecisionRow] BY <1>1, <2>2, <2>3 DEF Reviews
    <3>2. rev' = [rev EXCEPT !.dec = rev'.dec] BY <1>1, <2>1 DEF Reviews
    <3>. QED BY <1>1, <3>1, <3>2 DEF Reviews
  <2>5. \A x \in Decisions : rev'.dec[x] \in {rev.dec[x], [rev.dec[x] EXCEPT !.old = TRUE]} /\
          (rev.dec[x].match = None => rev'.dec[x] = rev.dec[x])
    BY <1>1, <1>5, <2>3 DEF Reviews, Ages
  <2>. QED BY <2>3, <2>4, <2>5, RowsKeep
<1>. QED BY <1>2, <1>3, <1>4, <1>5, DecidedKeeps DEF ReviewChange

-----------------------------------------------------------------------------
(* Handlers, the room they have and the messages they hold.                *)

Passing == {"send"} \cup Ingesting
\* The event is about a decision that there is, and an undo about one that is not current any more.
Backed(v, e) ==
  /\ e \in Events /\ v.dec[e[1]].match \in Matches
  /\ e[2] = "undo" => v.match[v.dec[e[1]].match].latest # e[1]
Fits(v, job) ==
  /\ job.pc # "idle" => job.m \in Matches
  /\ job.pc \in {"reopen"} \cup Passing => job.ev \in Events /\ v.dec[job.ev[1]].match = job.m
  /\ job.pc \in Passing => Backed(v, job.ev)
  /\ job.pc = "rlist" => History(v, job.m) # {}
Busy == {t \in Threads : Serving(t)}
HandlerInv ==
  /\ th \in [Threads -> Handler]
  /\ \A t \in Threads : Fits(rev, th[t])
  /\ \A t \in Workers : th[t].pc \in {"idle"} \cup Ingesting
  /\ IsFiniteSet(Busy)

\* Who may still write a match: the bounds leave an etag for each.
Before == Deciding \cup Reopening
Writers == {u \in Users : th[u].pc \in Before}
RoomInv == \A m \in Matches : rev.match[m].etag + Cardinality(Writers) <= MaxEtag

\* A worker holds a copy of its event.
Holders(e) == {u \in Workers : Serving(u) /\ th[u].ev = e}
QueueInv ==
  /\ queue \in [Events -> Nat]
  /\ \A e \in Events : Cardinality(Holders(e)) <= queue[e] /\ (queue[e] > 0 => Backed(rev, e))

LEMMA StaysBacked ==
  ASSUME ReviewInv, Lasting, NEW e, Backed(rev, e) PROVE Backed(rev', e)
<1>. DEFINE d == e[1]  m == rev.dec[d].match
<1>1. d \in Decisions /\ m \in Matches /\ m # None /\ d # None BY ReviewNone DEF Backed, Events
<1>2. rev'.dec[d].match = m BY <1>1 DEF Lasting
<1>3. rev'.match[m].latest = d => rev.match[m].latest = d BY <1>1 DEF Lasting
<1>. QED BY <1>1, <1>2, <1>3 DEF Backed

LEMMA StaysFit ==
  ASSUME ReviewInv, Lasting, NEW job, Fits(rev, job) PROVE Fits(rev', job)
<1>1. \A m \in Matches : History(rev, m) # {} => History(rev', m) # {}
  BY ReviewNone DEF Lasting, History
<1>2. job.pc \in {"reopen"} \cup Passing => rev'.dec[job.ev[1]].match = job.m
  <2>1. SUFFICES ASSUME job.pc \in {"reopen"} \cup Passing PROVE rev'.dec[job.ev[1]].match = job.m OBVIOUS
  <2>2. job.m \in Matches /\ job.ev[1] \in Decisions /\ rev.dec[job.ev[1]].match = job.m
    BY <2>1 DEF Fits, Events, Passing, Ingesting
  <2>. QED BY <2>2, ReviewNone DEF Lasting
<1>. QED BY <1>1, <1>2, StaysBacked DEF Fits

LEMMA HandlerKeeps ==
  ASSUME ReviewInv, HandlerInv, Lasting, NEW t \in Threads, NEW job \in Handler, th' = [th EXCEPT ![t] = job],
         Fits(rev', job), t \in Workers => job.pc \in {"idle"} \cup Ingesting
  PROVE  HandlerInv'
<1>1. th' \in [Threads -> Handler] /\ th'[t] = job /\ \A u \in Threads \ {t} : th'[u] = th[u] BY DEF HandlerInv
<1>2. \A u \in Threads : Fits(rev', th'[u]) BY <1>1, StaysFit DEF HandlerInv
<1>3. \A u \in Workers : th'[u].pc \in {"idle"} \cup Ingesting BY <1>1 DEF HandlerInv, Threads
<1>4. IsFiniteSet(Busy')
  <2>1. Busy' \subseteq Busy \cup {t} BY <1>1 DEF Busy, Serving
  <2>2. IsFiniteSet(Busy \cup {t}) BY FS_AddElement DEF HandlerInv
  <2>. QED BY <2>1, <2>2, FS_Subset
<1>. QED BY <1>1, <1>2, <1>3, <1>4 DEF HandlerInv

LEMMA WritersFinite ==
  ASSUME HandlerInv
  PROVE  /\ IsFiniteSet(Writers) /\ Cardinality(Writers) \in Nat
         /\ IsFiniteSet({u \in Users : Serving(u)}) /\ Cardinality({u \in Users : Serving(u)}) \in Nat
         /\ Cardinality(Writers) <= Cardinality({u \in Users : Serving(u)})
<1>1. Writers \subseteq {u \in Users : Serving(u)} BY DEF Writers, Serving, Before, Deciding, Reopening
<1>2. {u \in Users : Serving(u)} \subseteq Busy BY DEF Busy, Threads
<1>3. IsFiniteSet({u \in Users : Serving(u)}) BY <1>2, FS_Subset DEF HandlerInv
<1>. QED BY <1>1, <1>3, FS_Subset, FS_CardinalityType

\* A handler goes on, or ends, and writes nothing.
LEMMA RoomStays ==
  ASSUME ReviewInv, HandlerInv, RoomInv, NEW t \in Threads, NEW job, th' = [th EXCEPT ![t] = job],
         \A m \in Matches : rev'.match[m].etag = rev.match[m].etag,
         job.pc \in Before => th[t].pc \in Before
  PROVE  RoomInv'
<1>1. th'[t] = job /\ \A u \in Threads \ {t} : th'[u] = th[u] BY DEF HandlerInv
<1>2. Writers' \subseteq Writers BY <1>1 DEF Writers, Threads
<1>3. Cardinality(Writers') <= Cardinality(Writers) /\ Cardinality(Writers') \in Nat /\ Cardinality(Writers) \in Nat
  BY <1>2, WritersFinite, FS_Subset, FS_CardinalityType
<1>4. \A m \in Matches : rev.match[m].etag \in Nat /\ MaxEtag \in Nat
  BY ReviewBounds DEF ReviewInv, Reviews, MatchRow
<1>. QED BY <1>3, <1>4 DEF RoomInv

\* A handler of a user writes, for the last time.
LEMMA RoomIsUsed ==
  ASSUME ReviewInv, HandlerInv, RoomInv, NEW t \in Threads, NEW job, th' = [th EXCEPT ![t] = job],
         th[t].pc \in Before, job.pc \notin Before,
         \A m \in Matches : rev'.match[m].etag \in {rev.match[m].etag, rev.match[m].etag + 1}
  PROVE  RoomInv' /\ \A m \in Matches : rev.match[m].etag < MaxEtag
<1>1. th'[t] = job /\ \A u \in Threads \ {t} : th'[u] = th[u] BY DEF HandlerInv
<1>2. t \in Users BY DEF HandlerInv, Threads, Before, Deciding, Reopening, Ingesting
<1>3. t \in Writers /\ Writers' = Writers \ {t} BY <1>1, <1>2 DEF Writers, Threads
<1>4. Cardinality(Writers') = Cardinality(Writers) - 1 /\ Cardinality(Writers') \in Nat /\ Cardinality(Writers) \in Nat
  BY <1>3, WritersFinite, FS_RemoveElement, FS_CardinalityType
<1>5. \A m \in Matches : rev.match[m].etag \in Nat /\ MaxEtag \in Nat
  BY ReviewBounds DEF ReviewInv, Reviews, MatchRow
<1>6. \A m \in Matches : rev.match[m].etag + Cardinality(Writers) <= MaxEtag BY DEF RoomInv
<1>. QED BY <1>4, <1>5, <1>6 DEF RoomInv

\* A request comes when there is room for it.
LEMMA RoomIsTaken ==
  ASSUME ReviewInv, HandlerInv, NEW t \in Users, NEW job, th' = [th EXCEPT ![t] = job], rev' = rev, Room
  PROVE  RoomInv'
<1>. DEFINE busy == {u \in Users : Serving(u)}
<1>1. th'[t] = job /\ \A u \in Threads \ {t} : th'[u] = th[u] BY DEF HandlerInv, Threads
<1>2. Writers' \subseteq busy \cup {t}
  BY <1>1 DEF Writers, Threads, Serving, Before, Deciding, Reopening
<1>3. IsFiniteSet(busy) /\ Cardinality(busy) \in Nat BY WritersFinite
<1>4. IsFiniteSet(busy \cup {t}) /\ Cardinality(busy \cup {t}) \in {Cardinality(busy), Cardinality(busy) + 1}
  BY <1>3, FS_AddElement
<1>5. Cardinality(Writers') <= Cardinality(busy \cup {t}) /\ Cardinality(Writers') \in Nat
  BY <1>2, <1>4, FS_Subset, FS_CardinalityType
<1>6. \A m \in Matches : rev.match[m].etag \in Nat /\ MaxEtag \in Nat
  BY ReviewBounds DEF ReviewInv, Reviews, MatchRow
<1>7. \A m \in Matches : rev.match[m].etag + Cardinality(busy) < MaxEtag BY DEF Room
<1>. QED BY <1>3, <1>4, <1>5, <1>6, <1>7 DEF RoomInv

LEMMA HoldersFinite ==
  ASSUME HandlerInv, NEW e PROVE IsFiniteSet(Holders(e)) /\ Cardinality(Holders(e)) \in Nat
<1>1. Holders(e) \subseteq Busy BY DEF Holders, Busy, Threads
<1>. QED BY <1>1, FS_Subset, FS_CardinalityType DEF HandlerInv

\* A handler goes on with its event or ends; messages may be sent meanwhile.
LEMMA QueueStays ==
  ASSUME ReviewInv, HandlerInv, QueueInv, Lasting, NEW t \in Threads, NEW job, th' = [th EXCEPT ![t] = job],
         t \in Workers => job.pc = "idle" \/ (Serving(t) /\ job.ev = th[t].ev),
         queue' \in [Events -> Nat],
         \A e \in Events : queue'[e] = queue[e] \/ (queue'[e] >= queue[e] /\ Backed(rev', e))
  PROVE  QueueInv'
<1>1. th'[t] = job /\ \A u \in Threads \ {t} : th'[u] = th[u] BY DEF HandlerInv
<1>2. SUFFICES ASSUME NEW e \in Events
               PROVE Cardinality(Holders(e)') <= queue'[e] /\ (queue'[e] > 0 => Backed(rev', e))
  BY DEF QueueInv
<1>3. Holders(e)' \subseteq Holders(e) BY <1>1 DEF Holders, Serving, Threads
<1>4. /\ Cardinality(Holders(e)') <= Cardinality(Holders(e))
      /\ Cardinality(Holders(e)') \in Nat /\ Cardinality(Holders(e)) \in Nat
  BY <1>3, HoldersFinite, FS_Subset, FS_CardinalityType
<1>5. Cardinality(Holders(e)) <= queue[e] /\ queue[e] \in Nat /\ queue'[e] \in Nat /\ queue'[e] >= queue[e]
  BY DEF QueueInv
<1>6. queue[e] > 0 => Backed(rev', e) BY StaysBacked DEF QueueInv
<1>. QED BY <1>4, <1>5, <1>6

\* A worker takes a copy that nobody holds.
LEMMA QueueGives ==
  ASSUME ReviewInv, HandlerInv, QueueInv, NEW t \in Workers, NEW job, th' = [th EXCEPT ![t] = job], ~Serving(t),
         NEW e \in Events, job.ev = e, queue[e] > Cardinality(Holders(e)), queue' = queue, rev' = rev
  PROVE  QueueInv'
<1>1. th'[t] = job /\ \A u \in Threads \ {t} : th'[u] = th[u] BY DEF HandlerInv, Threads
<1>2. \A f \in Events \ {e} : Holders(f)' \subseteq Holders(f) BY <1>1 DEF Holders, Serving, Threads
<1>3. \A f \in Events \ {e} : Cardinality(Holders(f)') <= Cardinality(Holders(f)) /\ Cardinality(Holders(f)') \in Nat
  BY <1>2, HoldersFinite, FS_Subset, FS_CardinalityType
<1>4. Holders(e)' \subseteq Holders(e) \cup {t} BY <1>1 DEF Holders, Serving, Threads
<1>5. IsFiniteSet(Holders(e) \cup {t}) /\ Cardinality(Holders(e) \cup {t}) \in
        {Cardinality(Holders(e)), Cardinality(Holders(e)) + 1}
  BY HoldersFinite, FS_AddElement
<1>6. Cardinality(Holders(e)') <= Cardinality(Holders(e) \cup {t}) /\ Cardinality(Holders(e)') \in Nat
  BY <1>4, <1>5, FS_Subset, FS_CardinalityType
<1>7. \A f \in Events : queue[f] \in Nat /\ Cardinality(Holders(f)) \in Nat /\ Cardinality(Holders(f)) <= queue[f]
  BY HoldersFinite DEF QueueInv
<1>8. \A f \in Events \ {e} : Cardinality(Holders(f)') <= queue'[f] BY <1>3, <1>7
<1>9. Cardinality(Holders(e)') <= queue'[e] BY <1>5, <1>6, <1>7
<1>. QED BY <1>8, <1>9 DEF QueueInv

\* A worker returns, and its message is gone.
LEMMA QueueLoses ==
  ASSUME ReviewInv, HandlerInv, QueueInv, Lasting, NEW t \in Workers, NEW job, th' = [th EXCEPT ![t] = job],
         Serving(t), job.pc = "idle", queue' = [queue EXCEPT ![th[t].ev] = @ - 1]
  PROVE  QueueInv'
<1>1. th'[t] = job /\ \A u \in Threads \ {t} : th'[u] = th[u] BY DEF HandlerInv, Threads
<1>2. th[t].pc \in Ingesting /\ Fits(rev, th[t]) BY DEF HandlerInv, Serving, Threads
<1>3. PICK e \in Events : e = th[t].ev BY <1>2 DEF Fits, Passing
<1>4. t \in Holders(e) /\ Holders(e)' = Holders(e) \ {t} BY <1>1, <1>3 DEF Holders, Serving, Threads
<1>5. Cardinality(Holders(e)') = Cardinality(Holders(e)) - 1 /\ Cardinality(Holders(e)') \in Nat
  BY <1>4, HoldersFinite, FS_RemoveElement, FS_CardinalityType
<1>6. \A f \in Events \ {e} : Holders(f)' = Holders(f)
  BY <1>1, <1>3 DEF Holders, Serving, Threads
<1>7. \A f \in Events : queue[f] \in Nat /\ Cardinality(Holders(f)) \in Nat /\ Cardinality(Holders(f)) <= queue[f]
  BY HoldersFinite DEF QueueInv
<1>8. queue'[e] = queue[e] - 1 /\ queue' \in [Events -> Nat] /\ \A f \in Events \ {e} : queue'[f] = queue[f]
  <2>1. queue[e] - 1 \in Nat BY <1>3, <1>5, <1>7
  <2>. QED BY <1>3, <2>1 DEF QueueInv
<1>9. \A f \in Events : Cardinality(Holders(f)') <= queue'[f] BY <1>3, <1>5, <1>6, <1>7, <1>8
<1>10. \A f \in Events : queue'[f] > 0 => Backed(rev', f)
  <2>1. \A f \in Events : queue'[f] > 0 => queue[f] > 0 BY <1>3, <1>7, <1>8
  <2>. QED BY <2>1, StaysBacked DEF QueueInv
<1>. QED BY <1>8, <1>9, <1>10 DEF QueueInv

-----------------------------------------------------------------------------
(* What Learning holds.                                                    *)

\* What an event makes of the decision that it is about.
Told(v, e) == IF e[2] = "undo" THEN "skip" ELSE v.dec[e[1]].choice
LearntFits(v, l) ==
  /\ l \in Learnt
  /\ \A e \in l.known : Backed(v, e)
  /\ \A m \in Matches : l.log[m] = NoLog \/
       /\ l.log[m].key \in l.known /\ v.dec[l.log[m].key[1]].match = m
       /\ l.log[m].choice = Told(v, l.log[m].key)
LearntInv == LearntFits(rev, learn)

LEMMA LearntStays == ASSUME ReviewInv, Lasting, LearntInv PROVE LearntFits(rev', learn)
<1>1. \A e \in learn.known : Backed(rev', e) BY StaysBacked DEF LearntInv, LearntFits
<1>2. \A e \in learn.known : rev'.dec[e[1]].match = rev.dec[e[1]].match /\ Told(rev', e) = Told(rev, e)
  <2>1. SUFFICES ASSUME NEW e \in learn.known
                 PROVE rev'.dec[e[1]].match = rev.dec[e[1]].match /\ Told(rev', e) = Told(rev, e)
    OBVIOUS
  <2>2. e[1] \in Decisions /\ rev.dec[e[1]].match # None
    BY ReviewNone DEF LearntInv, LearntFits, Backed, Events
  <2>. QED BY <2>2 DEF Lasting, Told
<1>. QED BY <1>1, <1>2 DEF LearntInv, LearntFits

LEMMA RecommendedFits ==
  ASSUME NEW v, NEW l, LearntFits(v, l), NEW m \in Matches, NEW status \in {"pending", "decided"}
  PROVE  LET w == Recommended(l, m, status) IN
         /\ LearntFits(v, w) /\ PersistedLearnt(l, w) = w
         /\ w.rec[m] = status /\ w.log = l.log /\ w.known = l.known
         /\ \A x \in Matches \ {m} : w.rec[x] = l.rec[x]
<1>. DEFINE w == Recommended(l, m, status)
<1>1. l \in Learnt /\ w = [l EXCEPT !.rec[m] = status] BY DEF LearntFits, Recommended
<1>2. w \in Learnt /\ w.log = l.log /\ w.known = l.known /\ w.rec = [l.rec EXCEPT ![m] = status]
  BY <1>1 DEF Learnt
<1>3. w.rec[m] = status /\ \A x \in Matches \ {m} : w.rec[x] = l.rec[x] BY <1>1, <1>2 DEF Learnt
<1>4. PersistedLearnt(l, w) = w
  <2>1. \A x \in Matches : (IF w.rec[x] = "none" THEN l.rec[x] ELSE w.rec[x]) = w.rec[x] BY <1>3
  <2>2. [x \in Matches |-> IF w.rec[x] = "none" THEN l.rec[x] ELSE w.rec[x]] = w.rec
    <3>. HIDE DEF w
    <3>. QED BY <1>2, <2>1 DEF Learnt
  <2>3. [x \in Matches |-> IF w.log[x] = NoLog THEN l.log[x] ELSE w.log[x]] = w.log
    <3>. HIDE DEF w
    <3>. QED BY <1>2 DEF Learnt
  <2>4. l.known \cup w.known = w.known BY <1>2
  <2>5. w = [log |-> w.log, rec |-> w.rec, known |-> w.known]
    <3>. HIDE DEF w
    <3>. QED BY <1>2 DEF Learnt
  <2>. QED BY <2>2, <2>3, <2>4, <2>5 DEF PersistedLearnt
<1>5. LearntFits(v, w)
  <2>. HIDE DEF w
  <2>. QED BY <1>2 DEF LearntFits
<1>. QED BY <1>2, <1>3, <1>4, <1>5

LEMMA LogPutFits ==
  ASSUME NEW v, NEW l, LearntFits(v, l), NEW m \in Matches, NEW e, Backed(v, e), v.dec[e[1]].match = m,
         NEW choice \in Outcomes, choice = Told(v, e)
  PROVE  LET w == LogPut(l, m, e, choice) IN
         /\ LearntFits(v, w) /\ PersistedLearnt(l, w) = w
         /\ w.log[m].choice = choice /\ \A x \in Matches \ {m} : w.log[x] = l.log[x] /\ w.rec[x] = l.rec[x]
<1>. DEFINE w == LogPut(l, m, e, choice)
            row == [choice |-> choice, key |-> e]
<1>1. l \in Learnt /\ e \in Events BY DEF LearntFits, Backed
<1>2. row \in LogRow BY <1>1 DEF LogRow
<1>3. w.log = [l.log EXCEPT ![m] = row] /\ w.rec = [l.rec EXCEPT ![m] = "decided"] /\ w.known = l.known \cup {e}
      /\ w = [log |-> w.log, rec |-> w.rec, known |-> w.known]
  BY <1>1 DEF LogPut
<1>4. w \in Learnt
  <2>. HIDE DEF w, row
  <2>1. w.log \in [Matches -> LogRow] /\ w.rec \in [Matches -> {"none", "pending", "decided"}] /\ w.known \subseteq Events
    BY <1>1, <1>2, <1>3 DEF Learnt
  <2>. QED BY <1>3, <2>1 DEF Learnt
<1>5. /\ w.log[m] = row /\ w.rec[m] = "decided"
      /\ \A x \in Matches \ {m} : w.log[x] = l.log[x] /\ w.rec[x] = l.rec[x]
  BY <1>1, <1>3 DEF Learnt
<1>6. row # NoLog BY DEF NoLog, Outcomes
<1>7. PersistedLearnt(l, w) = w
  <2>. HIDE DEF w, row
  <2>1. \A x \in Matches : (IF w.rec[x] = "none" THEN l.rec[x] ELSE w.rec[x]) = w.rec[x]
      /\ (IF w.log[x] = NoLog THEN l.log[x] ELSE w.log[x]) = w.log[x]
    BY <1>5, <1>6
  <2>2. [x \in Matches |-> IF w.rec[x] = "none" THEN l.rec[x] ELSE w.rec[x]] = w.rec BY <1>4, <2>1 DEF Learnt
  <2>3. [x \in Matches |-> IF w.log[x] = NoLog THEN l.log[x] ELSE w.log[x]] = w.log BY <1>4, <2>1 DEF Learnt
  <2>4. l.known \cup w.known = w.known BY <1>3
  <2>. QED BY <1>3, <2>2, <2>3, <2>4 DEF PersistedLearnt
<1>8. LearntFits(v, w)
  <2>1. \A f \in w.known : Backed(v, f) BY <1>3 DEF LearntFits
  <2>2. row.key \in w.known /\ v.dec[row.key[1]].match = m /\ row.choice = Told(v, row.key) BY <1>3
  <2>. HIDE DEF w, row
  <2>. QED BY <1>3, <1>4, <1>5, <2>1, <2>2 DEF LearntFits
<1>. QED BY <1>5, <1>7, <1>8

\* A call of the Review store writes back what it has read, so that the write is its result.
LEMMA PersistedIs ==
  ASSUME NEW w, rev \in Reviews, w \in Reviews,
         \A d \in Decisions : (w.dec[d].match = None => rev.dec[d] = w.dec[d]) /\ (rev.dec[d].old => w.dec[d].old)
  PROVE  Persisted(rev, w) = w
<1>1. \A d \in Decisions : w.dec[d] \in DecisionRow /\ rev.dec[d] \in DecisionRow BY DEF Reviews
<1>2. \A d \in Decisions : [w.dec[d] EXCEPT !.old = w.dec[d].old \/ rev.dec[d].old] = w.dec[d]
  <2>1. SUFFICES ASSUME NEW d \in Decisions PROVE [w.dec[d] EXCEPT !.old = w.dec[d].old \/ rev.dec[d].old] = w.dec[d]
    OBVIOUS
  <2>2. (w.dec[d].old \/ rev.dec[d].old) = w.dec[d].old BY <1>1 DEF DecisionRow
  <2>. QED BY <1>1, <2>2 DEF DecisionRow
<1>3. \A d \in Decisions : (IF w.dec[d].match = None THEN rev.dec[d]
                            ELSE [w.dec[d] EXCEPT !.old = w.dec[d].old \/ rev.dec[d].old]) = w.dec[d]
  BY <1>2
<1>4. [d \in Decisions |-> IF w.dec[d].match = None THEN rev.dec[d]
                           ELSE [w.dec[d] EXCEPT !.old = w.dec[d].old \/ rev.dec[d].old]] = w.dec
  BY <1>3 DEF Reviews
<1>5. w = [match |-> w.match, dec |-> w.dec] BY DEF Reviews
<1>. QED BY <1>4, <1>5 DEF Persisted

-----------------------------------------------------------------------------
(* The invariant of both stores, and the handlers between.                 *)

Inv == Current /\ ReviewInv /\ HandlerInv /\ RoomInv /\ QueueInv /\ LearntInv

LEMMA CurrentStays == ASSUME Current, UNCHANGED mode, Finish PROVE Current'
BY DEF Current, mode, Finish

LEMMA UnchangedKeeps == ASSUME ReviewInv, rev' = rev PROVE ReviewInv' /\ Lasting
BY ChangeKeeps

\* A handler goes on or ends without a write; it may have sent messages.
LEMMA QuietTurn ==
  ASSUME Inv, NEW t \in Threads, NEW job \in Handler, th' = [th EXCEPT ![t] = job], UNCHANGED <<rev, learn, mode>>, Finish,
         Fits(rev, job), job.pc \in Before => th[t].pc \in Before,
         t \in Workers => job.pc = "idle" \/ (Serving(t) /\ job.pc \in Ingesting /\ job.ev = th[t].ev),
         queue' \in [Events -> Nat],
         \A e \in Events : queue'[e] = queue[e] \/ (queue'[e] >= queue[e] /\ Backed(rev, e))
  PROVE  Inv'
<1>1. ReviewInv' /\ Lasting BY UnchangedKeeps DEF Inv
<1>2. Current' BY CurrentStays DEF Inv
<1>3. HandlerInv' BY <1>1, HandlerKeeps DEF Inv
<1>4. RoomInv' BY RoomStays DEF Inv
<1>5. QueueInv' BY <1>1, QueueStays DEF Inv
<1>6. LearntInv' BY DEF Inv, LearntInv
<1>. QED BY <1>1, <1>2, <1>3, <1>4, <1>5, <1>6 DEF Inv

LEMMA IdleFits == Idle \in Handler /\ Idle.pc = "idle" /\ \A v : Fits(v, Idle)
<1>1. Idle \in Handler BY ReviewBounds DEF Idle, Handler, Pcs, Choices
<1>. QED BY <1>1 DEF Idle, Fits, Passing, Ingesting

LEMMA Answers ==
  ASSUME Inv, NEW t \in Threads, Answer(t), UNCHANGED <<rev, learn, queue, mode>>, Finish PROVE Inv'
<1>1. queue' \in [Events -> Nat] BY DEF Inv, QueueInv
<1>. QED BY <1>1, IdleFits, QuietTurn DEF Answer, Before, Deciding, Reopening

\* Who the handler works for, and with what.
LEMMA Serves ==
  ASSUME Inv, NEW t \in Threads
  PROVE  /\ th[t] \in Handler /\ Fits(rev, th[t]) /\ ReviewsOf(t) = rev /\ LearntOf(t) = learn
         /\ th[t].pc \in Before \cup {"send"} => t \in Users /\ t \notin Workers
         /\ th[t].pc # "idle" => th[t].m \in Matches /\ Row(t) \in MatchRow
         /\ rev \in Reviews /\ learn \in Learnt /\ queue \in [Events -> Nat]
<1>1. th[t] \in Handler /\ Fits(rev, th[t]) /\ rev \in Reviews /\ learn \in Learnt /\ queue \in [Events -> Nat]
  BY DEF Inv, HandlerInv, ReviewInv, LearntInv, LearntFits, QueueInv
<1>2. ReviewsOf(t) = rev /\ LearntOf(t) = learn BY DEF Inv, Current, ReviewsOf, LearntOf
<1>3. th[t].pc \in Before \cup {"send"} => t \notin Workers
  BY DEF Inv, HandlerInv, Before, Deciding, Reopening, Ingesting
<1>4. th[t].pc # "idle" => th[t].m \in Matches /\ Row(t) \in MatchRow BY <1>1 DEF Fits, Reviews, Row
<1>. QED BY <1>1, <1>2, <1>3, <1>4 DEF Threads

\* The steps of decide and reopen that only read.
LEMMA LooksKeep ==
  ASSUME Inv, NEW t \in Threads,
         GetMatch(t) \/ Replay(t) \/ Expire(t) \/ ReopenGet(t) \/ ReopenList(t)
  PROVE  Inv'
<1>0. UNCHANGED <<rev, learn, queue, mode>> /\ Finish
  BY DEF GetMatch, Replay, Expire, ReopenGet, ReopenList, Calm
<1>1. /\ th[t] \in Handler /\ Fits(rev, th[t]) /\ queue' \in [Events -> Nat] /\ rev \in Reviews
      /\ th \in [Threads -> Handler]
  BY <1>0, Serves DEF Inv, HandlerInv
<1>2. ASSUME NEW job \in Handler, th' = [th EXCEPT ![t] = job], Fits(rev, job), th[t].pc \in Before PROVE Inv'
  <2>1. t \notin Workers BY <1>2, Serves
  <2>. QED BY <1>0, <1>1, <1>2, <2>1, QuietTurn
<1>3. CASE GetMatch(t)
  <2>. DEFINE job == [th[t] EXCEPT !.pc = "replay", !.seen = Row(t).status,
                                   !.fresh = Row(t).latest # None => ~rev.dec[Row(t).latest].old]
  <2>1. th' = [th EXCEPT ![t] = job] /\ th[t].pc = "get" BY <1>1, <1>3 DEF GetMatch, At
  <2>2. th[t].m \in Matches /\ Row(t) \in MatchRow BY <2>1, Serves
  <2>3. (Row(t).latest # None => ~rev.dec[Row(t).latest].old) \in BOOLEAN OBVIOUS
  <2>4. job \in Handler BY <1>1, <2>2, <2>3 DEF Handler, Pcs, Deciding, MatchRow
  <2>5. job.pc = "replay" /\ job.m = th[t].m BY <1>1 DEF Handler
  <2>6. Fits(rev, job) BY <2>2, <2>5 DEF Fits, Passing, Ingesting
  <2>. QED BY <1>2, <2>1, <2>4, <2>6 DEF Before, Deciding
<1>4. CASE Replay(t)
  <2>1. CASE Answer(t) BY <1>0, <2>1, Answers
  <2>2. CASE ~Answer(t)
    <3>. DEFINE job == [th[t] EXCEPT !.pc = "expire", !.seen = "PENDING", !.fresh = TRUE]
    <3>1. th' = [th EXCEPT ![t] = job] /\ th[t].pc = "replay" BY <1>1, <1>4, <2>2 DEF Replay, At
    <3>2. job \in Handler BY <1>1 DEF Handler, Pcs, Deciding
    <3>3. job.pc = "expire" /\ job.m = th[t].m BY <1>1 DEF Handler
    <3>4. Fits(rev, job) BY <1>1, <3>1, <3>3 DEF Fits, Passing, Ingesting
    <3>. QED BY <1>2, <3>1, <3>2, <3>4 DEF Before, Deciding
  <2>. QED BY <2>1, <2>2
<1>5. CASE Expire(t)
  <2>1. PICK key \in {None, th[t].key} : th' = [th EXCEPT ![t] = [th[t] EXCEPT !.pc = "decide", !.key = key]]
    BY <1>1, <1>5 DEF Expire
  <2>. DEFINE job == [th[t] EXCEPT !.pc = "decide", !.key = key]
  <2>2. job \in Handler BY <1>1 DEF Handler, Pcs, Deciding
  <2>3. job.pc = "decide" /\ job.m = th[t].m /\ th[t].pc = "expire" BY <1>1, <1>5 DEF Handler, Expire, At
  <2>4. Fits(rev, job) BY <1>1, <2>3 DEF Fits, Passing, Ingesting
  <2>. QED BY <1>2, <2>1, <2>2, <2>3, <2>4 DEF Before, Deciding
<1>6. CASE ReopenGet(t)
  <2>1. CASE Answer(t) BY <1>0, <2>1, Answers
  <2>2. CASE ~Answer(t)
    <3>. DEFINE job == [th[t] EXCEPT !.pc = "rlist"]
    <3>1. th' = [th EXCEPT ![t] = job] /\ th[t].pc = "rget" /\ Row(t).status # "PENDING"
      BY <1>1, <1>6, <2>2 DEF ReopenGet, At, Goto
    <3>2. job \in Handler BY <1>1 DEF Handler, Pcs, Reopening
    <3>3. job.pc = "rlist" /\ job.m = th[t].m BY <1>1 DEF Handler
    <3>4. th[t].m \in Matches BY <3>1, Serves
    <3>5. History(rev, th[t].m) # {} BY <3>1, <3>4 DEF Inv, ReviewInv, LatestFits, Row
    <3>6. Fits(rev, job) BY <3>3, <3>4, <3>5 DEF Fits, Passing, Ingesting
    <3>. QED BY <1>2, <3>1, <3>2, <3>6 DEF Before, Reopening
  <2>. QED BY <2>1, <2>2
<1>7. CASE ReopenList(t)
  <2>. DEFINE d == Newest(rev, History(rev, th[t].m))
              job == [th[t] EXCEPT !.pc = "reopen", !.ev = <<d, "undo">>]
  <2>1. th' = [th EXCEPT ![t] = job] /\ th[t].pc = "rlist" BY <1>1, <1>7 DEF ReopenList, At
  <2>2. th[t].m \in Matches /\ History(rev, th[t].m) # {} BY <1>1, <2>1, Serves DEF Fits
  <2>3. d \in History(rev, th[t].m) BY <2>2, NewestIs DEF Inv
  <2>4. <<d, "undo">> \in Events /\ rev.dec[d].match = th[t].m BY <2>3 DEF Events, History
  <2>5. job \in Handler
    <3>. HIDE DEF d
    <3>. QED BY <1>1, <2>4 DEF Handler, Pcs, Reopening
  <2>6. job.pc = "reopen" /\ job.m = th[t].m /\ job.ev = <<d, "undo">> BY <1>1 DEF Handler
  <2>7. Fits(rev, job)
    <3>. HIDE DEF d, job
    <3>. QED BY <2>2, <2>4, <2>6 DEF Fits, Passing, Ingesting
  <2>. QED BY <1>2, <2>1, <2>5, <2>7 DEF Before, Reopening
<1>. QED BY <1>3, <1>4, <1>5, <1>6, <1>7

LEMMA DecideWrites ==
  ASSUME Inv, NEW t \in Threads, Decide(t)
  PROVE  \/ Answer(t) /\ rev' = rev
         \/ /\ KnownKey(rev, th[t].m, th[t].key) /\ rev' = rev
            /\ \E d \in Keyed(rev, th[t].m, th[t].key) : Log(t, <<d, "log">>)
         \/ \E d \in Decisions : /\ Decides(th[t].m, d, th[t].choice, th[t].key) /\ Log(t, <<d, "log">>)
                                 /\ SameEtag(rev, th[t].m, th[t].etag)
<1>1. /\ At(t, "decide") /\ ReviewsOf(t) = rev /\ th[t] \in Handler /\ th[t].m \in Matches /\ ReviewInv
      /\ th \in [Threads -> Handler]
  BY Serves DEF Decide, At, Inv, HandlerInv
<1>2. \A m \in Matches : rev.match[m].etag < MaxEtag
  <2>1. th[t].pc \in Before BY <1>1 DEF At, Before, Deciding
  <2>2. t \in Writers BY <2>1, Serves DEF Writers
  <2>3. Cardinality(Writers) \in Nat /\ Cardinality(Writers) # 0 BY <2>2, WritersFinite, FS_EmptySet DEF Inv
  <2>4. \A m \in Matches : rev.match[m].etag \in Nat /\ MaxEtag \in Nat
    BY <1>1, ReviewBounds DEF ReviewInv, Reviews, MatchRow
  <2>. QED BY <2>3, <2>4 DEF Inv, RoomInv
<1>3. ASSUME NEW d \in Decisions, rev.dec[d].match = None,
             rev' = Persisted(rev, Decided(rev, th[t].m, d, th[t].choice, th[t].key))
      PROVE  Decides(th[t].m, d, th[t].choice, th[t].key)
  <2>. DEFINE m == th[t].m  w == Decided(rev, m, d, th[t].choice, th[t].key)
  <2>1. th[t].choice \in Choices /\ th[t].key \in Keys \cup {None} BY <1>1 DEF Handler
  <2>2. rev \in Reviews /\ w \in Reviews /\ w.dec[d].match = m /\ \A x \in Decisions \ {d} : w.dec[x] = rev.dec[x]
    <3>1. m \in Matches /\ rev.match[m].etag < MaxEtag BY <1>1, <1>2
    <3>2. PICK x \in Matches, choice \in Choices, key \in Keys \cup {None} :
            x = m /\ choice = th[t].choice /\ key = th[t].key
      BY <2>1, <3>1
    <3>3. w = Decided(rev, x, d, choice, key) /\ rev.match[x].etag < MaxEtag /\ rev.dec[d].match = None
      BY <1>3, <3>1, <3>2
    <3>. HIDE DEF m, w
    <3>4. w \in Reviews /\ w.dec[d].match = x /\ \A y \in Decisions \ {d} : w.dec[y] = rev.dec[y]
      BY <1>1, <1>3, <3>2, <3>3, DecidedFields
    <3>. QED BY <1>1, <3>2, <3>4 DEF ReviewInv
  <2>3. m # None BY <1>1, ReviewNone
  <2>4. ~rev.dec[d].old BY <1>1, <1>3 DEF ReviewInv, NoDecision
  <2>. HIDE DEF w
  <2>5. Persisted(rev, w) = w BY <2>2, <2>3, <2>4, PersistedIs
  <2>. QED BY <1>1, <1>2, <1>3, <2>5 DEF Decides, w
<1>. QED BY <1>1, <1>3 DEF Decide, SaveReviews

LEMMA Logs ==
  ASSUME NEW t \in Threads, th[t].m \in Matches, NEW d \in Decisions
  PROVE  LET job == [Idle EXCEPT !.pc = "send", !.m = th[t].m, !.ev = <<d, "log">>] IN
         /\ job \in Handler /\ job.pc = "send" /\ job.m = th[t].m /\ job.ev = <<d, "log">>
         /\ \A v : v.dec[d].match = th[t].m => Fits(v, job)
<1>. DEFINE job == [Idle EXCEPT !.pc = "send", !.m = th[t].m, !.ev = <<d, "log">>]
<1>1. <<d, "log">> \in Events BY DEF Events
<1>2. job \in Handler
  <2>1. Idle \in Handler BY IdleFits
  <2>. QED BY <1>1, <2>1 DEF Handler, Pcs
<1>3. job.pc = "send" /\ job.m = th[t].m /\ job.ev = <<d, "log">> BY DEF Idle
<1>4. \A v : v.dec[d].match = th[t].m => Fits(v, job)
  <2>. HIDE DEF job
  <2>. QED BY <1>1, <1>3 DEF Fits, Backed, Passing
<1>. QED BY <1>2, <1>3, <1>4

LEMMA DecideKeeps == ASSUME Inv, NEW t \in Threads, Decide(t) PROVE Inv'
<1>1. /\ UNCHANGED <<learn, queue, mode>> /\ Finish /\ th[t].pc = "decide" /\ th[t].m \in Matches
      /\ t \notin Workers /\ th[t] \in Handler /\ queue \in [Events -> Nat] /\ ReviewInv
  BY Serves DEF Decide, Calm, At, Before, Deciding, Inv
<1>2. CASE Answer(t) /\ rev' = rev BY <1>1, <1>2, Answers
<1>3. ASSUME rev' = rev, NEW d \in Keyed(rev, th[t].m, th[t].key), Log(t, <<d, "log">>) PROVE Inv'
  <2>. DEFINE job == [Idle EXCEPT !.pc = "send", !.m = th[t].m, !.ev = <<d, "log">>]
  <2>1. d \in Decisions /\ rev.dec[d].match = th[t].m BY DEF Keyed, History
  <2>2. job \in Handler /\ job.pc = "send" /\ Fits(rev, job) /\ th' = [th EXCEPT ![t] = job]
    BY <1>1, <1>3, <2>1, Logs DEF Log
  <2>. HIDE DEF job
  <2>. QED BY <1>1, <1>3, <2>2, QuietTurn DEF Before, Deciding, Reopening
<1>4. ASSUME NEW d \in Decisions, Decides(th[t].m, d, th[t].choice, th[t].key), Log(t, <<d, "log">>) PROVE Inv'
  <2>. DEFINE job == [Idle EXCEPT !.pc = "send", !.m = th[t].m, !.ev = <<d, "log">>]
  <2>1. th[t].choice \in Choices /\ th[t].key \in Keys \cup {None} BY <1>1 DEF Handler
  <2>2. ReviewInv' /\ Lasting BY <1>1, <1>4, <2>1, DecidedKeeps
  <2>3. /\ rev'.dec[d].match = th[t].m
        /\ \A m \in Matches : rev'.match[m].etag \in {rev.match[m].etag, rev.match[m].etag + 1}
    <3>1. PICK x \in Matches, choice \in Choices, key \in Keys \cup {None} :
            x = th[t].m /\ choice = th[t].choice /\ key = th[t].key
      BY <1>1, <2>1
    <3>2. rev' = Decided(rev, x, d, choice, key) /\ rev.match[x].etag < MaxEtag /\ rev.dec[d].match = None
      BY <1>4, <3>1 DEF Decides
    <3>3. rev'.dec[d].match = x /\ rev'.match[x].etag = rev.match[x].etag + 1 /\
            \A m \in Matches \ {x} : rev'.match[m] = rev.match[m]
      BY <1>1, <1>4, <3>1, <3>2, DecidedFields
    <3>. QED BY <3>1, <3>3
  <2>4. job \in Handler /\ job.pc = "send" /\ Fits(rev', job) /\ th' = [th EXCEPT ![t] = job]
    BY <1>1, <1>4, <2>3, Logs DEF Log
  <2>. HIDE DEF job
  <2>5. HandlerInv' BY <1>1, <2>2, <2>4, HandlerKeeps DEF Inv
  <2>6. RoomInv' BY <1>1, <2>3, <2>4, RoomIsUsed DEF Inv, Before, Deciding, Reopening
  <2>7. QueueInv' BY <1>1, <2>2, <2>4, QueueStays DEF Inv
  <2>8. LearntInv' BY <1>1, <2>2, LearntStays DEF Inv, LearntInv
  <2>. QED BY <1>1, <2>2, <2>5, <2>6, <2>7, <2>8, CurrentStays DEF Inv
<1>. QED BY <1>2, <1>3, <1>4, DecideWrites

LEMMA ReopenWrites ==
  ASSUME Inv, NEW t \in Threads, Reopen(t)
  PROVE  /\ Reopens(th[t].m) /\ rev'.dec = rev.dec
         /\ rev'.match[th[t].m] = ReopenedRow(rev.match[th[t].m])
         /\ \A x \in Matches \ {th[t].m} : rev'.match[x] = rev.match[x]
<1>. DEFINE m == th[t].m  w == Reopened(rev, m)
<1>1. /\ th[t].pc = "reopen" /\ ReviewsOf(t) = rev /\ m \in Matches /\ ReviewInv /\ rev \in Reviews
      /\ rev.match[m] \in MatchRow
  BY Serves DEF Reopen, At, Inv, Row
<1>2. rev.match[m].etag < MaxEtag
  <2>1. th[t].pc \in Before BY <1>1 DEF Before, Reopening
  <2>2. t \in Writers BY <2>1, Serves DEF Writers
  <2>3. Cardinality(Writers) \in Nat /\ Cardinality(Writers) # 0 BY <2>2, WritersFinite, FS_EmptySet DEF Inv
  <2>4. rev.match[m].etag \in Nat /\ MaxEtag \in Nat BY <1>1, ReviewBounds DEF MatchRow
  <2>. QED BY <1>1, <2>3, <2>4 DEF Inv, RoomInv
<1>3. ReopenedRow(rev.match[m]) \in MatchRow BY <1>1, <1>2, ReviewBounds DEF ReopenedRow, MatchRow
<1>4. w.dec = rev.dec /\ w.match = [rev.match EXCEPT ![m] = ReopenedRow(rev.match[m])] /\ w \in Reviews
  BY <1>1, <1>3 DEF Reopened, Reviews
<1>. HIDE DEF w
<1>5. \A d \in Decisions : rev.dec[d].match = None => rev.dec[d] = NoDecision BY <1>1 DEF ReviewInv
<1>6. Persisted(rev, w) = w BY <1>1, <1>4, PersistedIs
<1>7. rev' = w BY <1>1, <1>6 DEF Reopen, SaveReviews, w
<1>8. rev'.match[m] = ReopenedRow(rev.match[m]) /\ \A x \in Matches \ {m} : rev'.match[x] = rev.match[x]
  BY <1>1, <1>4, <1>7 DEF Reviews
<1>. QED BY <1>2, <1>4, <1>7, <1>8 DEF Reopens, w

LEMMA ReopenKeeps == ASSUME Inv, NEW t \in Threads, Reopen(t) PROVE Inv'
<1>. DEFINE m == th[t].m  job == [th[t] EXCEPT !.pc = "send"]
<1>1. /\ UNCHANGED <<learn, queue, mode>> /\ Finish /\ th[t].pc = "reopen" /\ m \in Matches
      /\ t \notin Workers /\ th[t] \in Handler /\ queue \in [Events -> Nat] /\ ReviewInv
      /\ th \in [Threads -> Handler] /\ Fits(rev, th[t])
  BY Serves DEF Reopen, Calm, At, Before, Reopening, Inv, HandlerInv
<1>2. /\ Reopens(m) /\ rev'.dec = rev.dec /\ rev'.match[m] = ReopenedRow(rev.match[m])
      /\ \A x \in Matches \ {m} : rev'.match[x] = rev.match[x]
  BY ReopenWrites
<1>3. ReviewInv' /\ Lasting BY <1>1, <1>2, ChangeKeeps DEF ReviewChange
<1>4. \A x \in Matches : rev'.match[x].etag \in {rev.match[x].etag, rev.match[x].etag + 1}
  BY <1>2 DEF ReopenedRow
<1>5. job \in Handler /\ job.pc = "send" /\ job.m = m /\ job.ev = th[t].ev /\ th' = [th EXCEPT ![t] = job]
  BY <1>1 DEF Handler, Pcs, Reopen, Goto
<1>6. Fits(rev', job)
  <2>1. th[t].ev \in Events /\ rev'.dec[th[t].ev[1]].match = m BY <1>1, <1>2 DEF Fits
  <2>2. rev'.match[m].latest = None BY <1>2 DEF ReopenedRow
  <2>3. th[t].ev[1] # None BY <2>1, ReviewNone DEF Events
  <2>4. Backed(rev', th[t].ev) BY <1>1, <2>1, <2>2, <2>3 DEF Backed
  <2>. HIDE DEF job
  <2>. QED BY <1>1, <1>5, <2>1, <2>4 DEF Fits
<1>. HIDE DEF job
<1>7. HandlerInv' BY <1>1, <1>3, <1>5, <1>6, HandlerKeeps DEF Inv
<1>8. RoomInv' BY <1>1, <1>4, <1>5, RoomIsUsed DEF Inv, Before, Deciding, Reopening
<1>9. QueueInv' BY <1>1, <1>3, <1>5, QueueStays DEF Inv
<1>10. LearntInv' BY <1>1, <1>3, LearntStays DEF Inv, LearntInv
<1>. QED BY <1>1, <1>3, <1>7, <1>8, <1>9, <1>10, CurrentStays DEF Inv

\* Requests and deliveries.
LEMMA ArrivalKeeps == ASSUME Inv, NEW t \in Users, Arrival(t) PROVE Inv'
<1>1. /\ UNCHANGED <<rev, learn, queue, mode>> /\ Finish /\ Room /\ t \in Threads /\ t \notin Workers
      /\ rev \in Reviews /\ queue \in [Events -> Nat]
  BY ThreadsAssumption, Serves DEF Arrival, Request, RequestReopen, Calm, Threads, At
<1>2. ASSUME NEW job \in Handler, th' = [th EXCEPT ![t] = job], job.pc \in {"get", "rget"}, job.m \in Matches PROVE Inv'
  <2>1. Fits(rev, job) BY <1>2 DEF Fits, Passing, Ingesting
  <2>2. ReviewInv' /\ Lasting BY <1>1, UnchangedKeeps DEF Inv
  <2>3. HandlerInv' BY <1>1, <1>2, <2>1, <2>2, HandlerKeeps DEF Inv
  <2>4. RoomInv' BY <1>1, <1>2, RoomIsTaken DEF Inv
  <2>5. QueueInv' BY <1>1, <1>2, <2>2, QueueStays DEF Inv
  <2>6. LearntInv' BY <1>1 DEF Inv, LearntInv
  <2>. QED BY <1>1, <2>2, <2>3, <2>4, <2>5, <2>6, CurrentStays DEF Inv
<1>3. CASE Request(t)
  <2>0. PICK m \in Matches, choice \in Choices, over \in BOOLEAN, key \in Keys :
          \E etag \in 1 .. rev.match[m].etag :
            th' = [th EXCEPT ![t] = [Idle EXCEPT !.pc = "get", !.m = m, !.etag = etag,
                                                 !.choice = choice, !.over = over, !.key = key]]
    BY <1>3 DEF Request
  <2>1. PICK etag \in 1 .. rev.match[m].etag :
          th' = [th EXCEPT ![t] = [Idle EXCEPT !.pc = "get", !.m = m, !.etag = etag,
                                               !.choice = choice, !.over = over, !.key = key]]
    BY <2>0
  <2>. DEFINE job == [Idle EXCEPT !.pc = "get", !.m = m, !.etag = etag, !.choice = choice, !.over = over, !.key = key]
  <2>2. etag \in 0 .. MaxEtag BY <1>1, <2>1, ReviewBounds DEF Reviews, MatchRow
  <2>3. job \in Handler
    <3>1. Idle \in Handler BY IdleFits
    <3>. QED BY <2>2, <3>1 DEF Handler, Pcs, Deciding
  <2>4. job.pc = "get" /\ job.m = m BY DEF Idle
  <2>. HIDE DEF job
  <2>. QED BY <1>2, <2>1, <2>3, <2>4 DEF job
<1>4. CASE RequestReopen(t)
  <2>1. PICK m \in Matches : th' = [th EXCEPT ![t] = [Idle EXCEPT !.pc = "rget", !.m = m]]
    BY <1>4 DEF RequestReopen
  <2>. DEFINE job == [Idle EXCEPT !.pc = "rget", !.m = m]
  <2>2. job \in Handler
    <3>1. Idle \in Handler BY IdleFits
    <3>. QED BY <3>1 DEF Handler, Pcs, Reopening
  <2>3. job.pc = "rget" /\ job.m = m BY DEF Idle
  <2>. QED BY <1>2, <2>1, <2>2, <2>3
<1>. QED BY <1>3, <1>4 DEF Arrival

LEMMA DeliverKeeps == ASSUME Inv, NEW t \in Workers, Deliver(t) PROVE Inv'
<1>1. /\ UNCHANGED <<rev, learn, queue, mode>> /\ Finish /\ ~Serving(t) /\ t \in Threads
  BY DEF Deliver, Calm, Threads, At, Serving
<1>2. PICK e \in Events :
        /\ queue[e] > Cardinality(Holders(e))
        /\ th' = [th EXCEPT ![t] = [Idle EXCEPT !.pc = "rec", !.m = rev.dec[e[1]].match, !.ev = e]]
  BY DEF Deliver, Holders
<1>. DEFINE job == [Idle EXCEPT !.pc = "rec", !.m = rev.dec[e[1]].match, !.ev = e]
<1>3. Cardinality(Holders(e)) \in Nat /\ queue[e] \in Nat BY HoldersFinite DEF Inv, QueueInv
<1>4. Backed(rev, e) /\ rev.dec[e[1]].match \in Matches BY <1>2, <1>3 DEF Inv, QueueInv, Backed
<1>5. job \in Handler
  <2>1. Idle \in Handler BY IdleFits
  <2>. QED BY <1>4, <2>1 DEF Handler, Pcs, Ingesting
<1>6. job.pc = "rec" /\ job.m = rev.dec[e[1]].match /\ job.ev = e BY DEF Idle
<1>. HIDE DEF job
<1>7. Fits(rev, job) BY <1>4, <1>6 DEF Fits, Ingesting
<1>8. ReviewInv' /\ Lasting BY <1>1, UnchangedKeeps DEF Inv
<1>9. HandlerInv' BY <1>1, <1>2, <1>5, <1>6, <1>7, <1>8, HandlerKeeps DEF Inv, Ingesting, job
<1>10. RoomInv' BY <1>1, <1>2, <1>6, RoomStays DEF Inv, Before, Deciding, Reopening, job
<1>11. QueueInv' BY <1>1, <1>2, <1>6, QueueGives DEF Inv, job
<1>12. LearntInv' BY <1>1 DEF Inv, LearntInv
<1>. QED BY <1>1, <1>8, <1>9, <1>10, <1>11, <1>12, CurrentStays DEF Inv

LEMMA SendKeeps == ASSUME Inv, NEW t \in Threads, Send(t) PROVE Inv'
<1>. DEFINE job == [th[t] EXCEPT !.pc = "rec"]
<1>1. /\ UNCHANGED <<rev, learn, mode>> /\ Finish /\ th[t].pc = "send" /\ th[t].m \in Matches /\ t \notin Workers
      /\ th[t] \in Handler /\ Fits(rev, th[t]) /\ queue \in [Events -> Nat] /\ th' = [th EXCEPT ![t] = job]
  BY Serves DEF Send, Calm, At, Goto
<1>2. th[t].ev \in Events /\ Backed(rev, th[t].ev) BY <1>1 DEF Fits, Passing
<1>3. \/ queue' = queue
      \/ \E n \in 1 .. 2 : queue' = [queue EXCEPT ![th[t].ev] = @ + n]
  BY DEF Send
<1>4. /\ queue' \in [Events -> Nat]
      /\ \A e \in Events : queue'[e] = queue[e] \/ (queue'[e] >= queue[e] /\ Backed(rev, e))
  BY <1>1, <1>2, <1>3
<1>5. job \in Handler /\ job.pc = "rec" /\ job.m = th[t].m /\ job.ev = th[t].ev
  BY <1>1 DEF Handler, Pcs, Ingesting
<1>. HIDE DEF job
<1>6. Fits(rev, job) BY <1>1, <1>2, <1>5 DEF Fits, Passing, Ingesting
<1>. QED BY <1>1, <1>4, <1>5, <1>6, QuietTurn DEF Before, Deciding, Reopening

\* A step of ingest_event, given what it leaves in Learning.
LEMMA IngestTurn ==
  ASSUME Inv, NEW t \in Threads, th[t].pc \in Ingesting, NEW pc \in Ingesting, Goto(t, pc),
         UNCHANGED <<rev, queue, mode>>, Finish, LearntFits(rev, learn')
  PROVE  Inv'
<1>. DEFINE job == [th[t] EXCEPT !.pc = pc]
<1>1. /\ th[t] \in Handler /\ Fits(rev, th[t]) /\ th' = [th EXCEPT ![t] = job] /\ Serving(t)
      /\ queue \in [Events -> Nat]
  BY Serves DEF Goto, Serving, Ingesting
<1>2. job \in Handler /\ job.pc = pc /\ job.m = th[t].m /\ job.ev = th[t].ev
  BY <1>1 DEF Handler, Pcs
<1>. HIDE DEF job
<1>3. Fits(rev, job) BY <1>1, <1>2 DEF Fits, Passing, Ingesting
<1>4. ReviewInv' /\ Lasting BY UnchangedKeeps DEF Inv
<1>5. HandlerInv' BY <1>1, <1>2, <1>3, <1>4, HandlerKeeps DEF Inv
<1>6. RoomInv' BY <1>1, <1>2, RoomStays DEF Inv, Before, Deciding, Reopening, Ingesting
<1>7. QueueInv' BY <1>1, <1>2, <1>4, QueueStays DEF Inv
<1>8. LearntInv' BY DEF LearntInv
<1>. QED BY <1>4, <1>5, <1>6, <1>7, <1>8, CurrentStays DEF Inv

LEMMA ReturnKeeps ==
  ASSUME Inv, NEW t \in Threads, th[t].pc \in Ingesting, Return(t), UNCHANGED <<rev, mode>>, Finish,
         LearntFits(rev, learn')
  PROVE  Inv'
<1>1. th' = [th EXCEPT ![t] = Idle] /\ Serving(t) /\ queue \in [Events -> Nat]
  BY Serves DEF Return, Answer, Serving, Ingesting
<1>2. ReviewInv' /\ Lasting BY UnchangedKeeps DEF Inv
<1>3. HandlerInv' BY <1>1, <1>2, IdleFits, HandlerKeeps DEF Inv
<1>4. RoomInv' BY <1>1, IdleFits, RoomStays DEF Inv, Before, Deciding, Reopening
<1>5. QueueInv'
  <2>1. CASE t \in Workers
    <3>1. queue' = [queue EXCEPT ![th[t].ev] = @ - 1] BY <2>1 DEF Return
    <3>. QED BY <1>1, <1>2, <2>1, <3>1, IdleFits, QueueLoses DEF Inv
  <2>2. CASE t \notin Workers
    <3>1. queue' = queue BY <2>2 DEF Return
    <3>. QED BY <1>1, <1>2, <2>2, <3>1, QueueStays DEF Inv
  <2>. QED BY <2>1, <2>2
<1>6. LearntInv' BY DEF LearntInv
<1>. QED BY <1>2, <1>3, <1>4, <1>5, <1>6, CurrentStays DEF Inv

\* What the store calls of ingest_event make of Learning.
LEMMA IngestWrites ==
  ASSUME Inv, NEW t \in Threads
  PROVE  /\ Recommend(t) => learn' = Recommended(learn, th[t].m, "pending") /\ LearntFits(rev, learn')
         /\ PutLog(t) => learn' = LogPut(learn, th[t].m, th[t].ev, Told(rev, th[t].ev)) /\ LearntFits(rev, learn')
         /\ Mark(t) => /\ learn' = Recommended(learn, th[t].m, IF th[t].ev[2] = "undo" THEN "pending" ELSE "decided")
                       /\ LearntFits(rev, learn')
<1>1. LearntOf(t) = learn /\ LearntFits(rev, learn) BY Serves DEF Inv, LearntInv
<1>2. th[t].pc \in Ingesting => /\ th[t].m \in Matches /\ Backed(rev, th[t].ev)
                                /\ rev.dec[th[t].ev[1]].match = th[t].m
  BY Serves DEF Fits, Passing, Ingesting
<1>3. ASSUME NEW m \in Matches, NEW status \in {"pending", "decided"},
             learn' = PersistedLearnt(learn, Recommended(learn, m, status))
      PROVE  learn' = Recommended(learn, m, status) /\ LearntFits(rev, learn')
  <2>1. LearntFits(rev, Recommended(learn, m, status)) /\
          PersistedLearnt(learn, Recommended(learn, m, status)) = Recommended(learn, m, status)
    BY <1>1, RecommendedFits
  <2>. QED BY <1>3, <2>1
<1>4. Recommend(t) => learn' = Recommended(learn, th[t].m, "pending") /\ LearntFits(rev, learn')
  BY <1>1, <1>2, <1>3 DEF Recommend, SaveLearnt, At, Ingesting
<1>5. Mark(t) => /\ learn' = Recommended(learn, th[t].m, IF th[t].ev[2] = "undo" THEN "pending" ELSE "decided")
                 /\ LearntFits(rev, learn')
  BY <1>1, <1>2, <1>3 DEF Mark, SaveLearnt, At, Ingesting
<1>6. ASSUME PutLog(t)
      PROVE  learn' = LogPut(learn, th[t].m, th[t].ev, Told(rev, th[t].ev)) /\ LearntFits(rev, learn')
  <2>1. th[t].m \in Matches /\ Backed(rev, th[t].ev) /\ rev.dec[th[t].ev[1]].match = th[t].m
    BY <1>2, <1>6 DEF PutLog, At, Ingesting
  <2>2. PICK m \in Matches, e \in Events : m = th[t].m /\ e = th[t].ev BY <2>1 DEF Backed
  <2>3. Told(rev, e) \in Outcomes
    <3>1. rev.dec[e[1]].choice \in Choices
      BY Serves DEF Events, Reviews, DecisionRow
    <3>. QED BY <3>1 DEF Told, Outcomes, Choices
  <2>4. PICK choice \in Outcomes : choice = Told(rev, e) BY <2>3
  <2>5. learn' = PersistedLearnt(learn, LogPut(learn, m, e, choice))
    BY <1>1, <1>6, <2>2, <2>4 DEF PutLog, SaveLearnt, Told
  <2>6. LearntFits(rev, LogPut(learn, m, e, choice)) /\
          PersistedLearnt(learn, LogPut(learn, m, e, choice)) = LogPut(learn, m, e, choice)
    BY <1>1, <2>1, <2>2, <2>4, LogPutFits
  <2>. QED BY <2>2, <2>4, <2>5, <2>6
<1>. QED BY <1>4, <1>5, <1>6

LEMMA LearningKeeps == ASSUME Inv, NEW t \in Threads, LearningStep(t) PROVE Inv'
<1>0. UNCHANGED <<rev, mode>> /\ Finish /\ th[t].pc \in Ingesting
  BY DEF LearningStep, Recommend, Duplicate, Find, PutLog, Mark, Calm, At, Ingesting
<1>1. CASE Recommend(t)
  <2>1. Goto(t, "dup") /\ queue' = queue BY <1>1 DEF Recommend
  <2>. QED BY <1>0, <1>1, <2>1, IngestWrites, IngestTurn DEF Ingesting
<1>2. CASE PutLog(t)
  <2>1. Goto(t, "mark") /\ queue' = queue BY <1>2 DEF PutLog
  <2>. QED BY <1>0, <1>2, <2>1, IngestWrites, IngestTurn DEF Ingesting
<1>3. CASE Mark(t) BY <1>0, <1>3, IngestWrites, ReturnKeeps DEF Mark
<1>4. CASE Duplicate(t) \/ Find(t)
  <2>1. learn' = learn /\ LearntFits(rev, learn') BY <1>4 DEF Duplicate, Find, Inv, LearntInv
  <2>2. Return(t) \/ \E pc \in {"find", "put"} : Goto(t, pc) /\ queue' = queue BY <1>4 DEF Duplicate, Find
  <2>. QED BY <1>0, <2>1, <2>2, ReturnKeeps, IngestTurn DEF Ingesting
<1>. QED BY <1>1, <1>2, <1>3, <1>4 DEF LearningStep

LEMMA DieKeeps == ASSUME Inv, NEW t \in Threads, Die(t) PROVE Inv'
BY Answers DEF Die

LEMMA AgeKeeps == ASSUME Inv, NEW d \in Decisions, Age(d) PROVE Inv' /\ Ages(d)
<1>1. UNCHANGED <<learn, th, queue, mode>> /\ Finish /\ Ages(d) BY DEF Age, Calm, Ages
<1>2. rev' = [rev EXCEPT !.dec[d].old = TRUE] BY DEF Age
<1>3. ReviewInv' /\ Lasting BY <1>1, ChangeKeeps DEF ReviewChange, Inv
<1>4. rev'.match = rev.match BY <1>2 DEF Inv, ReviewInv, Reviews
<1>5. HandlerInv' BY <1>1, <1>3, StaysFit DEF Inv, HandlerInv, Busy, Serving
<1>6. RoomInv' BY <1>1, <1>4 DEF Inv, RoomInv, Writers
<1>7. QueueInv' BY <1>1, <1>3, StaysBacked DEF Inv, QueueInv, Holders, Serving
<1>8. LearntInv' BY <1>1, <1>3, LearntStays DEF Inv, LearntInv
<1>. QED BY <1>1, <1>3, <1>5, <1>6, <1>7, <1>8, CurrentStays DEF Inv

LEMMA RescoreKeeps == ASSUME Inv, NEW m \in Matches, Rescore(m) PROVE Inv' /\ Rescores(m)
<1>1. UNCHANGED <<learn, th, queue, mode>> /\ Finish /\ CanRescore(rev, m) /\ rev' = Rescored(rev, m) /\ Room
  BY DEF Rescore, Calm
<1>2. rev'.dec = rev.dec /\ \A x \in Matches : rev'.match[x].etag \in {rev.match[x].etag, rev.match[x].etag + 1}
  <2>1. \A x \in Matches : rev.match[x] \in MatchRow BY DEF Inv, ReviewInv, Reviews
  <2>. QED BY <1>1, <2>1 DEF Rescored, Inv, ReviewInv, Reviews, MatchRow
<1>3. \A x \in Matches : /\ rev.match[x].etag + Cardinality(Writers) < MaxEtag /\ rev.match[x].etag < MaxEtag
                         /\ rev.match[x].etag \in Nat
  <2>1. \A x \in Matches : rev.match[x].etag \in Nat /\ MaxEtag \in Nat
    BY ReviewBounds DEF Inv, ReviewInv, Reviews, MatchRow
  <2>2. \A x \in Matches : rev.match[x].etag + Cardinality({u \in Users : Serving(u)}) < MaxEtag
    BY <1>1 DEF Room
  <2>. QED BY <2>1, <2>2, WritersFinite DEF Inv
<1>4. Rescores(m) BY <1>1, <1>3 DEF Rescores
<1>5. ReviewInv' /\ Lasting BY <1>4, ChangeKeeps DEF ReviewChange, Inv
<1>6. HandlerInv' BY <1>1, <1>5, StaysFit DEF Inv, HandlerInv, Busy, Serving
<1>7. RoomInv'
  <2>1. Writers' = Writers BY <1>1 DEF Writers
  <2>2. Cardinality(Writers) \in Nat BY WritersFinite DEF Inv
  <2>. QED BY <1>2, <1>3, <2>1, <2>2, ReviewBounds DEF RoomInv
<1>8. QueueInv' BY <1>1, <1>5, StaysBacked DEF Inv, QueueInv, Holders, Serving
<1>9. LearntInv' BY <1>1, <1>5, LearntStays DEF Inv, LearntInv
<1>. QED BY <1>1, <1>4, <1>5, <1>6, <1>7, <1>8, <1>9, CurrentStays DEF Inv

-----------------------------------------------------------------------------
(* The whole system.                                                       *)

ShownInv ==
  /\ shown \in [Matches -> [1 .. MaxEtag -> Decisions \cup {None}]]
  /\ \A m \in Matches : shown[m][rev.match[m].etag] = rev.match[m].latest
Basics ==
  /\ deployment \in Deployments /\ overlap \in Overlaps /\ serial \in Serials
  /\ deaths \in 0 .. MaxDeaths /\ lost \in BOOLEAN
FeedbackInv == Inv /\ Basics /\ ShownInv

LEMMA InvInit == ASSUME Sequential, Init PROVE FeedbackInv
<1>1. Current BY DEF Sequential, Init, Current
<1>2. /\ rev = EmptyReviews /\ th = [t \in Threads |-> Idle] /\ learn = NothingLearnt
      /\ queue = [e \in Events |-> 0] /\ shown = [m \in Matches |-> [n \in 1 .. MaxEtag |-> None]]
  BY DEF Init
<1>3. \A m \in Matches : rev.match[m] = NewMatch BY <1>2 DEF EmptyReviews
<1>4. \A d \in Decisions : rev.dec[d] = NoDecision /\ rev.dec[d].match = None
  BY <1>2 DEF EmptyReviews, NoDecision
<1>5. NewMatch \in MatchRow /\ NewMatch.latest = None /\ NewMatch.status = "PENDING" /\ NewMatch.etag = 1
  BY ReviewBounds DEF NewMatch, MatchRow
<1>6. Cardinality(Decisions) \in Nat BY ReviewBounds, FS_CardinalityType
<1>7. NoDecision \in DecisionRow BY <1>6 DEF NoDecision, DecisionRow, Choices
<1>8. rev \in Reviews BY <1>2, <1>5, <1>7 DEF EmptyReviews, Reviews
<1>9. \A m \in Matches : History(rev, m) = {} BY <1>4, ReviewNone DEF History
<1>10. ReviewInv
  <2>1. LatestFits BY <1>3, <1>5 DEF LatestFits
  <2>2. TrailIsALine
    <3>1. Cardinality({}) = 0 BY FS_EmptySet
    <3>. QED BY <1>9, <3>1 DEF TrailIsALine
  <2>. QED BY <1>4, <1>8, <2>1, <2>2 DEF ReviewInv
<1>11. \A t \in Threads : th[t] = Idle /\ ~Serving(t) BY <1>2, IdleFits DEF Serving
<1>12. HandlerInv
  <2>1. Busy = {} BY <1>11 DEF Busy
  <2>. QED BY <1>2, <1>11, <2>1, IdleFits, FS_EmptySet DEF HandlerInv, Threads
<1>13. RoomInv
  <2>1. Writers = {} BY <1>11, IdleFits DEF Writers, Threads, Before, Deciding, Reopening
  <2>. QED BY <1>3, <1>5, <2>1, FS_EmptySet, ReviewBounds DEF RoomInv
<1>14. QueueInv
  <2>1. \A e \in Events : Holders(e) = {} BY <1>11 DEF Holders, Threads
  <2>2. Cardinality({}) = 0 BY FS_EmptySet
  <2>3. \A e \in Events : queue[e] = 0 BY <1>2
  <2>4. queue \in [Events -> Nat] BY <1>2
  <2>5. \A e \in Events : Cardinality(Holders(e)) <= queue[e] /\ ~(queue[e] > 0) BY <2>1, <2>2, <2>3
  <2>. QED BY <2>4, <2>5 DEF QueueInv
<1>15. LearntInv
  <2>1. learn \in Learnt BY <1>2 DEF NothingLearnt, Learnt, NoLog, LogRow
  <2>. QED BY <1>2, <2>1 DEF LearntInv, LearntFits, NothingLearnt
<1>16. Basics
  <2>1. MaxDeaths \in Nat BY FeedbackBounds
  <2>2. deaths = 0 /\ lost = FALSE BY DEF Init
  <2>3. deaths \in 0 .. MaxDeaths BY <2>1, <2>2
  <2>4. lost \in BOOLEAN BY <2>2
  <2>. QED BY <2>3, <2>4 DEF Init, Basics
<1>17. ShownInv BY <1>2, <1>3, <1>5, ReviewBounds DEF ShownInv
<1>. QED BY <1>1, <1>10, <1>12, <1>13, <1>14, <1>15, <1>16, <1>17 DEF FeedbackInv, Inv

LEMMA InvNext == ASSUME Inv, Next PROVE Inv'
<1>1. ASSUME NEW t \in Threads, Hydrate(t) PROVE FALSE BY <1>1 DEF Hydrate, Inv, Current
<1>2. ASSUME NEW t \in Threads, ReviewStep(t) PROVE Inv'
  BY <1>2, LooksKeep, DecideKeeps, ReopenKeeps, SendKeeps DEF ReviewStep
<1>. QED BY <1>1, <1>2, ArrivalKeeps, DeliverKeeps, LearningKeeps, DieKeeps, AgeKeeps, RescoreKeeps DEF Next

LEMMA StutterKeeps == ASSUME FeedbackInv, UNCHANGED vars PROVE FeedbackInv'
<1>1. UNCHANGED <<mode, deployment, overlap, serial, rev, learn, th, hydrated, queue, deaths, lost, shown>>
  BY DEF vars, mode
<1>2. Current' BY <1>1 DEF FeedbackInv, Inv, Current
<1>3. ReviewInv' BY <1>1, UnchangedKeeps DEF FeedbackInv, Inv
<1>4. HandlerInv' /\ RoomInv' BY <1>1 DEF FeedbackInv, Inv, HandlerInv, Busy, Serving, RoomInv, Writers
<1>5. QueueInv' BY <1>1 DEF FeedbackInv, Inv, QueueInv, Holders, Serving
<1>6. LearntInv' /\ Basics' /\ ShownInv' BY <1>1 DEF FeedbackInv, Inv, LearntInv, Basics, ShownInv
<1>. QED BY <1>2, <1>3, <1>4, <1>5, <1>6 DEF FeedbackInv, Inv

LEMMA FeedbackNext == ASSUME FeedbackInv, [Next]_vars PROVE FeedbackInv'
<1>1. CASE UNCHANGED vars BY <1>1, StutterKeeps
<1>2. CASE Next
  <2>1. Inv' BY <1>2, InvNext DEF FeedbackInv
  <2>2. Finish /\ UNCHANGED mode /\ (UNCHANGED <<deaths, lost>> \/ \E t \in Threads : Die(t))
    <3>1. \A t \in Threads : ~Hydrate(t) BY DEF Hydrate, FeedbackInv, Inv, Current
    <3>. QED BY <1>2, <3>1
      DEF Next, Arrival, Request, RequestReopen, Deliver, ReviewStep, GetMatch, Replay, Expire, Decide, ReopenGet,
          ReopenList, Reopen, Send, LearningStep, Recommend, Duplicate, Find, PutLog, Mark, Die, Age, Rescore, Calm
  <2>3. Basics'
    <3>1. UNCHANGED <<deployment, overlap, serial>> BY <2>2 DEF mode
    <3>2. MaxDeaths \in Nat /\ deaths \in 0 .. MaxDeaths /\ lost \in BOOLEAN
      BY FeedbackBounds DEF FeedbackInv, Basics
    <3>3. deaths' = deaths \/ (deaths < MaxDeaths /\ deaths' = deaths + 1) BY <2>2 DEF Die
    <3>4. deaths' \in 0 .. MaxDeaths BY <3>2, <3>3
    <3>5. lost' \in BOOLEAN
      <4>1. CASE UNCHANGED <<deaths, lost>> BY <3>2, <4>1
      <4>2. CASE \E t \in Threads : Die(t) BY <4>2, Zenon DEF Die
      <4>. QED BY <2>2, <4>1, <4>2
    <3>. QED BY <3>1, <3>4, <3>5 DEF FeedbackInv, Basics
  <2>4. ShownInv'
    <3>1. shown' = [m \in Matches |-> [shown[m] EXCEPT ![rev'.match[m].etag] = rev'.match[m].latest]]
      BY <2>2 DEF Finish, Remember
    <3>2. \A m \in Matches : /\ rev'.match[m].etag \in 1 .. MaxEtag /\ rev'.match[m].latest \in Decisions \cup {None}
                             /\ shown[m] \in [1 .. MaxEtag -> Decisions \cup {None}]
      BY <2>1 DEF Inv, ReviewInv, Reviews, MatchRow, FeedbackInv, ShownInv
    <3>. QED BY <3>1, <3>2 DEF ShownInv
  <2>. QED BY <2>1, <2>3, <2>4 DEF FeedbackInv
<1>. QED BY <1>1, <1>2

LEMMA FeedbackHolds == ASSUME Sequential PROVE Spec => []FeedbackInv
<1>1. Init => FeedbackInv BY InvInit
<1>2. FeedbackInv /\ [Next]_vars => FeedbackInv' BY FeedbackNext
<1>. QED BY <1>1, <1>2, PTL DEF Spec

\* If store calls do not overlap, every variable keeps its type, a handler carries what fits the
\* point it is at, and every message of the queue is about a decision that there is.
THEOREM TypeCorrect == ASSUME Sequential PROVE Spec => []TypeInv
<1>1. ASSUME FeedbackInv PROVE TypeInv
  <2>1. TypeOK
    BY <1>1 DEF FeedbackInv, Inv, Basics, ShownInv, Current, ReviewInv, HandlerInv, QueueInv, LearntInv,
                           LearntFits, TypeOK
  <2>2. \A t \in Threads : HandlerFits(t) BY <1>1 DEF FeedbackInv, Inv, HandlerInv, Fits, HandlerFits, Passing
  <2>3. \A e \in Events : queue[e] > 0 => rev.dec[e[1]].match \in Matches
    BY <1>1 DEF FeedbackInv, Inv, QueueInv, Backed
  <2>. QED BY <2>1, <2>2, <2>3 DEF TypeInv
<1>. QED BY <1>1, FeedbackHolds, PTL

\* If store calls do not overlap, the row of a match names its newest decision and says what that
\* one says, and the trail of its decisions is a line without a gap.
THEOREM TrailStands == ASSUME Sequential PROVE Spec => []TrailFits
<1>1. FeedbackInv => TrailFits BY DEF FeedbackInv, Inv, ReviewInv, TrailFits
<1>. QED BY <1>1, FeedbackHolds, PTL

\* If store calls do not overlap, what Learning holds is backed by a decision of Review, or by one
\* that was taken back, in whatever order the copies of an event arrive.
THEOREM LearntStands == ASSUME Sequential PROVE Spec => []LearntFromReview
<1>1. ASSUME FeedbackInv PROVE LearntFromReview
  <2>1. SUFFICES ASSUME NEW m \in Matches, learn.log[m].choice # "none"
                 PROVE  /\ learn.log[m].key[1] \in History(rev, m)
                        /\ IF learn.log[m].key[2] = "undo"
                           THEN learn.log[m].choice = "skip" /\ rev.match[m].latest # learn.log[m].key[1]
                           ELSE learn.log[m].choice = rev.dec[learn.log[m].key[1]].choice
    BY DEF LearntFromReview
  <2>2. learn.log[m] # NoLog BY <2>1 DEF NoLog
  <2>3. /\ learn.log[m].key \in learn.known /\ rev.dec[learn.log[m].key[1]].match = m
        /\ learn.log[m].choice = Told(rev, learn.log[m].key) /\ Backed(rev, learn.log[m].key)
    BY <1>1, <2>2 DEF FeedbackInv, Inv, LearntInv, LearntFits
  <2>. QED BY <2>3 DEF Backed, Events, History, Told
<1>. QED BY <1>1, FeedbackHolds, PTL

\* If store calls do not overlap, a decision that goes through replaces the one its user had on
\* the screen, and that one is still current when the row is written.
THEOREM ReplacesStands == ASSUME Sequential PROVE Spec => ReplacesWhatWasSeen
<1>1. ASSUME FeedbackInv, Next, NEW t \in Users, NEW d \in Decisions,
             th[t].pc = "decide", th'[t].pc = "send", rev.dec[d].match = None, rev'.dec[d].match # None
      PROVE  /\ rev'.dec[d].supersedes = shown[th[t].m][th[t].etag]
             /\ rev'.dec[d].supersedes = rev.match[th[t].m].latest
  <2>0. t \in Threads /\ th \in [Threads -> Handler] /\ Inv BY <1>1 DEF Threads, FeedbackInv, Inv, HandlerInv
  <2>1. Decide(t)
    <3>1. \A u \in Threads : ReviewStep(u) \/ LearningStep(u) \/ Die(u) => u = t
      BY <1>1, <2>0
      DEF ReviewStep, GetMatch, Replay, Expire, Decide, ReopenGet, ReopenList, Reopen, Send, LearningStep, Recommend,
          Duplicate, Find, PutLog, Mark, Die, Answer, Goto, Log, Return
    <3>2. \A u \in Users : ~Arrival(u) BY <1>1, <2>0 DEF Arrival, Request, RequestReopen
    <3>3. \A u \in Workers : ~Deliver(u) BY <1>1, <2>0 DEF Deliver
    <3>4. \A u \in Threads : ~Hydrate(u) BY <2>0 DEF Hydrate, Inv, Current
    <3>5. (\A x \in Decisions : ~Age(x)) /\ \A m \in Matches : ~Rescore(m) BY <1>1 DEF Age, Rescore
    <3>6. ReviewStep(t) \/ LearningStep(t) \/ Die(t) BY <1>1, <3>1, <3>2, <3>3, <3>4, <3>5 DEF Next
    <3>7. ~Die(t) BY <1>1, <2>0, IdleFits DEF Die, Answer
    <3>. QED BY <1>1, <3>6, <3>7
      DEF ReviewStep, GetMatch, Replay, Expire, ReopenGet, ReopenList, Reopen, Send, LearningStep, Recommend,
          Duplicate, Find, PutLog, Mark, At
  <2>2. PICK x \in Decisions : Decides(th[t].m, x, th[t].choice, th[t].key) /\ SameEtag(rev, th[t].m, th[t].etag)
    BY <1>1, <2>0, <2>1, DecideWrites
  <2>3. PICK m \in Matches, choice \in Choices, key \in Keys \cup {None} :
          m = th[t].m /\ choice = th[t].choice /\ key = th[t].key
    BY <1>1, <2>0, Serves DEF Handler
  <2>4. /\ rev' = Decided(rev, m, x, choice, key) /\ rev.match[m].etag < MaxEtag /\ rev.dec[x].match = None
        /\ th[t].etag = rev.match[m].etag
    BY <2>2, <2>3 DEF Decides, SameEtag
  <2>5. /\ \A y \in Decisions \ {x} : rev'.dec[y] = rev.dec[y]
        /\ rev'.dec[x].supersedes = IF rev.match[m].status \in Terminal THEN rev.match[m].latest ELSE None
    BY <2>0, <2>2, <2>4, DecidedFields DEF Inv
  <2>6. x = d BY <1>1, <2>5
  <2>7. rev.match[m].status \in Terminal \/ rev.match[m].latest = None
    BY <2>0 DEF Inv, ReviewInv, Reviews, MatchRow, LatestFits
  <2>8. shown[m][rev.match[m].etag] = rev.match[m].latest BY <1>1 DEF FeedbackInv, ShownInv
  <2>. QED BY <2>3, <2>4, <2>5, <2>6, <2>7, <2>8
<1>2. FeedbackInv /\ [Next]_vars => [\A t \in Users, d \in Decisions :
       (th[t].pc = "decide" /\ th'[t].pc = "send" /\ rev.dec[d].match = None /\ rev'.dec[d].match # None)
         => /\ rev'.dec[d].supersedes = shown[th[t].m][th[t].etag]
            /\ rev'.dec[d].supersedes = rev.match[th[t].m].latest]_vars
  BY <1>1
<1>. QED BY <1>2, FeedbackHolds, PTL DEF Spec, ReplacesWhatWasSeen


-----------------------------------------------------------------------------
(* A user who waits for each answer, where the direct call is the only one. *)

Direct == serial /\ deployment # "azure"
AgreesIn(v, l, m) ==
  IF v.match[m].status \in Terminal
  THEN l.log[m].choice = v.dec[v.match[m].latest].choice /\ l.rec[m] = "decided"
  ELSE l.log[m].choice \in {"none", "skip"} /\ l.rec[m] \in {"none", "pending"}
\* What the one handler knows that runs: which decision it is about to take back or to report,
\* and that nobody has reported it yet.
Steady(v, l, job) ==
  /\ job.pc = "expire" => \/ Keyed(v, job.m, job.key) = {}
                          \/ v.dec[Newest(v, Keyed(v, job.m, job.key))].old
  /\ job.pc = "decide" => ~KnownKey(v, job.m, job.key)
  /\ job.pc \in {"rlist", "reopen"} => v.match[job.m].status \in Terminal
  /\ job.pc = "reopen" => job.ev = <<v.match[job.m].latest, "undo">>
  /\ job.pc \in Passing => v.match[job.m].latest = IF job.ev[2] = "undo" THEN None ELSE job.ev[1]
  /\ job.pc \in {"send", "rec", "dup"} => job.ev \notin l.known
  /\ job.pc \in {"dup", "find"} => l.rec[job.m] = "pending"
  /\ job.pc = "find" => job.ev[2] = "undo"
  /\ job.pc = "mark" => l.log[job.m].choice = Told(v, job.ev)
DirectInv ==
  /\ \A e \in Events : queue[e] = 0
  /\ \A t \in Workers : ~Serving(t)
  /\ \A t, u \in Users : Serving(t) /\ Serving(u) => t = u
  /\ \A t \in Users : Steady(rev, learn, th[t])
  /\ ~lost => \A m \in Matches : AgreesIn(rev, learn, m) \/ \E t \in Users : th[t].pc \in Passing /\ th[t].m = m

\* No two decisions of a match have one version.
LEMMA OneVersion ==
  ASSUME ReviewInv, NEW m \in Matches, NEW x \in History(rev, m), NEW y \in History(rev, m),
         rev.dec[x].version = rev.dec[y].version
  PROVE  x = y
<1>. DEFINE H == History(rev, m)  n == Cardinality(H)  f == [e \in H |-> rev.dec[e].version]
<1>1. IsFiniteSet(H) /\ n \in Nat BY SmallTrail
<1>2. {rev.dec[e].version : e \in H} = 1 .. n BY DEF ReviewInv, TrailIsALine
<1>3. f \in Surjection(H, 1 .. n)
  <2>1. f \in [H -> 1 .. n] BY <1>2
  <2>2. \A i \in 1 .. n : \E e \in H : f[e] = i BY <1>2
  <2>. QED BY <2>1, <2>2 DEF Surjection
<1>4. Cardinality(1 .. n) = n BY <1>1, FS_Interval
<1>5. f \in Injection(H, 1 .. n) BY <1>1, <1>3, <1>4, FS_SurjSameCardinalityImpliesInj
<1>. QED BY <1>5 DEF Injection, IsInjective

\* The decision that the row of a match names is the only newest one.
LEMMA LatestIsNewest ==
  ASSUME ReviewInv, NEW m \in Matches, rev.match[m].status # "PENDING"
  PROVE  Newest(rev, History(rev, m)) = rev.match[m].latest /\ rev.match[m].latest \in History(rev, m)
<1>. DEFINE H == History(rev, m)  n == Cardinality(H)  d == rev.match[m].latest
<1>1. d \in H /\ \A e \in H : rev.dec[e].version <= rev.dec[d].version BY DEF ReviewInv, LatestFits
<1>2. n \in Nat BY SmallTrail
<1>3. {rev.dec[e].version : e \in H} = 1 .. n BY DEF ReviewInv, TrailIsALine
<1>4. Newest(rev, H) \in H /\ rev.dec[Newest(rev, H)].version = n BY <1>1, NewestIs
<1>5. rev.dec[d].version \in 1 .. n BY <1>1, <1>3
<1>6. rev.dec[Newest(rev, H)].version <= rev.dec[d].version BY <1>1, <1>4
<1>7. rev.dec[d].version = n BY <1>2, <1>4, <1>5, <1>6
<1>. QED BY <1>1, <1>4, <1>7, OneVersion

LEMMA PendingIsOpen ==
  ASSUME ReviewInv, NEW m \in Matches
  PROVE  /\ rev.match[m].status \in {"PENDING"} \cup Terminal
         /\ (rev.match[m].status = "PENDING") = (rev.match[m].latest = None)
         /\ rev.match[m].status # "PENDING" => rev.match[m].latest \in Decisions
<1>1. rev.match[m].status \in {"PENDING"} \cup Terminal BY DEF ReviewInv, Reviews, MatchRow
<1>2. rev.match[m].status = "PENDING" => rev.match[m].latest = None BY DEF ReviewInv, LatestFits
<1>3. rev.match[m].status # "PENDING" => rev.match[m].latest \in Decisions BY DEF ReviewInv, LatestFits, History
<1>. QED BY <1>1, <1>2, <1>3, ReviewNone

\* The one handler goes on or ends.
LEMMA DirectTurn ==
  ASSUME Inv, DirectInv, NEW t \in Users, NEW job, th' = [th EXCEPT ![t] = job], queue' = queue,
         \A u \in Users \ {t} : ~Serving(u), Steady(rev', learn', job), lost => lost',
         ~lost' => \A m \in Matches : AgreesIn(rev', learn', m) \/ (job.pc \in Passing /\ job.m = m)
  PROVE  DirectInv'
<1>1. t \in Threads /\ th'[t] = job /\ \A u \in Threads \ {t} : th'[u] = th[u] BY DEF Threads, Inv, HandlerInv
<1>2. \A e \in Events : queue'[e] = 0 BY DEF DirectInv
<1>3. \A u \in Workers : th'[u].pc = "idle"
  BY <1>1, ThreadsAssumption DEF DirectInv, Serving, Threads
<1>4. \A u \in Users \ {t} : th'[u].pc = "idle" BY <1>1 DEF Serving, Threads
<1>5. \A u \in Users : Steady(rev', learn', th'[u])
  BY <1>1, <1>4 DEF Steady, Passing, Ingesting
<1>6. ~lost' => \A m \in Matches : AgreesIn(rev', learn', m) \/ \E u \in Users : th'[u].pc \in Passing /\ th'[u].m = m
  BY <1>1
<1>. QED BY <1>2, <1>3, <1>4, <1>5, <1>6 DEF DirectInv, Serving

\* If it ends, then there is nothing left to say.
LEMMA IdleIsSteady == \A v, l : Steady(v, l, Idle)
BY DEF Steady, Idle, Passing, Ingesting

\* Nobody reports anything: both stores agree.
LEMMA OneServes ==
  ASSUME Inv, DirectInv, NEW t \in Threads, Serving(t)
  PROVE  /\ t \in Users /\ t \notin Workers /\ \A u \in Users \ {t} : ~Serving(u)
         /\ Steady(rev, learn, th[t]) /\ th[t] \in Handler /\ th[t].m \in Matches
         /\ ~lost => \A m \in Matches : AgreesIn(rev, learn, m) \/ (th[t].pc \in Passing /\ th[t].m = m)
<1>1. t \notin Workers /\ t \in Users BY DEF DirectInv, Threads
<1>2. \A u \in Users \ {t} : ~Serving(u) BY <1>1 DEF DirectInv
<1>3. \A u \in Users : th[u].pc \in Passing => u = t BY <1>2 DEF Serving, Passing, Ingesting
<1>4. th[t] \in Handler /\ th[t].m \in Matches BY Serves DEF Serving
<1>. QED BY <1>1, <1>2, <1>3, <1>4 DEF DirectInv

\* A request comes when nobody serves.
LEMMA DirectArrives == ASSUME Inv, Direct, DirectInv, NEW t \in Users, Arrival(t) PROVE DirectInv'
<1>1. /\ UNCHANGED <<rev, learn, queue, lost>> /\ t \in Threads /\ \A u \in Users : ~Serving(u)
  BY DEF Arrival, Request, RequestReopen, Calm, Threads, MaySend, Direct
<1>2. ~lost => \A m \in Matches : AgreesIn(rev, learn, m) BY <1>1 DEF DirectInv, Serving, Passing, Ingesting
<1>3. ASSUME NEW job, th' = [th EXCEPT ![t] = job], job.pc \in {"get", "rget"} PROVE DirectInv'
  <2>1. Steady(rev', learn', job) BY <1>3 DEF Steady, Passing, Ingesting
  <2>2. ~lost' => \A m \in Matches : AgreesIn(rev', learn', m) BY <1>1, <1>2
  <2>. QED BY <1>1, <1>3, <2>1, <2>2, DirectTurn
<1>4. CASE Request(t)
  <2>1. PICK m \in Matches, choice \in Choices, over \in BOOLEAN, key \in Keys :
          \E etag \in 1 .. rev.match[m].etag :
            th' = [th EXCEPT ![t] = [Idle EXCEPT !.pc = "get", !.m = m, !.etag = etag,
                                                 !.choice = choice, !.over = over, !.key = key]]
    BY <1>4 DEF Request
  <2>2. PICK etag \in 1 .. rev.match[m].etag :
          th' = [th EXCEPT ![t] = [Idle EXCEPT !.pc = "get", !.m = m, !.etag = etag,
                                               !.choice = choice, !.over = over, !.key = key]]
    BY <2>1
  <2>. DEFINE job == [Idle EXCEPT !.pc = "get", !.m = m, !.etag = etag,
                                  !.choice = choice, !.over = over, !.key = key]
  <2>3. job.pc = "get" BY DEF Idle
  <2>. HIDE DEF job
  <2>. QED BY <1>3, <2>2, <2>3 DEF job
<1>5. CASE RequestReopen(t)
  <2>1. PICK m \in Matches : th' = [th EXCEPT ![t] = [Idle EXCEPT !.pc = "rget", !.m = m]]
    BY <1>5 DEF RequestReopen
  <2>2. [Idle EXCEPT !.pc = "rget", !.m = m].pc = "rget" BY DEF Idle
  <2>. QED BY <1>3, <2>1, <2>2
<1>. QED BY <1>4, <1>5 DEF Arrival

\* The handler goes on, without a write.
LEMMA DirectLooks ==
  ASSUME Inv, DirectInv, NEW t \in Threads, Serving(t), UNCHANGED <<rev, learn, queue, lost>>,
         NEW job, th' = [th EXCEPT ![t] = job], Steady(rev, learn, job),
         th[t].pc \in Passing => job.pc \in Passing /\ job.m = th[t].m
  PROVE  DirectInv'
<1>1. /\ t \in Users /\ \A u \in Users \ {t} : ~Serving(u)
      /\ ~lost => \A m \in Matches : AgreesIn(rev, learn, m) \/ (th[t].pc \in Passing /\ th[t].m = m)
  BY OneServes
<1>2. Steady(rev', learn', job) OBVIOUS
<1>3. ~lost' => \A m \in Matches : AgreesIn(rev', learn', m) \/ (job.pc \in Passing /\ job.m = m) BY <1>1
<1>. QED BY <1>1, <1>2, <1>3, DirectTurn

LEMMA DirectReads ==
  ASSUME Inv, DirectInv, NEW t \in Threads,
         GetMatch(t) \/ Replay(t) \/ Expire(t) \/ ReopenGet(t) \/ ReopenList(t)
  PROVE  DirectInv'
<1>0. /\ UNCHANGED <<rev, learn, queue, lost>> /\ th[t].pc \notin Passing /\ Serving(t)
  BY DEF GetMatch, Replay, Expire, ReopenGet, ReopenList, Calm, At, Serving, Passing, Ingesting
<1>1. th[t] \in Handler /\ th[t].m \in Matches /\ Steady(rev, learn, th[t]) /\ rev.match[th[t].m] = Row(t) /\ ReviewInv
  BY <1>0, OneServes DEF Row, Inv
<1>2. ASSUME NEW job, th' = [th EXCEPT ![t] = job], Steady(rev, learn, job) PROVE DirectInv'
  BY <1>0, <1>2, DirectLooks
<1>3. CASE Answer(t) BY <1>2, <1>3, IdleIsSteady DEF Answer
<1>4. CASE GetMatch(t)
  <2>. DEFINE job == [th[t] EXCEPT !.pc = "replay", !.seen = Row(t).status,
                                   !.fresh = Row(t).latest # None => ~rev.dec[Row(t).latest].old]
  <2>1. th' = [th EXCEPT ![t] = job] /\ job.pc = "replay" BY <1>1, <1>4 DEF GetMatch, Handler
  <2>2. Steady(rev, learn, job) BY <2>1 DEF Steady, Passing, Ingesting
  <2>. QED BY <1>2, <2>1, <2>2
<1>5. CASE Replay(t) /\ ~Answer(t)
  <2>. DEFINE job == [th[t] EXCEPT !.pc = "expire", !.seen = "PENDING", !.fresh = TRUE]
              same == Keyed(rev, th[t].m, th[t].key)
  <2>1. th' = [th EXCEPT ![t] = job] /\ (same = {} \/ rev.dec[Newest(rev, same)].old) BY <1>5 DEF Replay
  <2>2. job.pc = "expire" /\ job.m = th[t].m /\ job.key = th[t].key BY <1>1 DEF Handler
  <2>. HIDE DEF job
  <2>3. Steady(rev, learn, job) BY <2>1, <2>2 DEF Steady, Passing, Ingesting
  <2>. QED BY <1>2, <2>1, <2>3 DEF job
<1>6. CASE Expire(t)
  <2>. DEFINE same == Keyed(rev, th[t].m, th[t].key)
  <2>1. PICK key \in {None, th[t].key} : /\ th' = [th EXCEPT ![t] = [th[t] EXCEPT !.pc = "decide", !.key = key]]
                                         /\ key = IF same # {} /\ rev.dec[Newest(rev, same)].old THEN None ELSE th[t].key
    <3>1. th' = [th EXCEPT ![t].pc = "decide",
                           ![t].key = IF same # {} /\ rev.dec[Newest(rev, same)].old THEN None ELSE @]
      BY <1>6 DEF Expire
    <3>. HIDE DEF same
    <3>. QED BY <1>1, <3>1
  <2>. DEFINE job == [th[t] EXCEPT !.pc = "decide", !.key = key]
  <2>2. job.pc = "decide" /\ job.m = th[t].m /\ job.key = key BY <1>1 DEF Handler
  <2>3. same = {} \/ rev.dec[Newest(rev, same)].old BY <1>1, <1>6 DEF Steady, Expire, At
  <2>4. ~KnownKey(rev, th[t].m, key) BY <2>1, <2>3 DEF KnownKey
  <2>. HIDE DEF job
  <2>5. Steady(rev, learn, job) BY <2>2, <2>4 DEF Steady, Passing, Ingesting
  <2>. QED BY <1>2, <2>1, <2>5 DEF job
<1>7. CASE ReopenGet(t) /\ ~Answer(t)
  <2>. DEFINE job == [th[t] EXCEPT !.pc = "rlist"]
  <2>1. th' = [th EXCEPT ![t] = job] /\ Row(t).status # "PENDING" BY <1>7 DEF ReopenGet, Goto
  <2>2. job.pc = "rlist" /\ job.m = th[t].m BY <1>1 DEF Handler
  <2>3. rev.match[job.m].status \in Terminal BY <1>1, <2>1, <2>2, PendingIsOpen
  <2>. HIDE DEF job
  <2>4. Steady(rev, learn, job) BY <2>2, <2>3 DEF Steady, Passing, Ingesting
  <2>. QED BY <1>2, <2>1, <2>4 DEF job
<1>8. CASE ReopenList(t)
  <2>. DEFINE d == Newest(rev, History(rev, th[t].m))
              job == [th[t] EXCEPT !.pc = "reopen", !.ev = <<d, "undo">>]
  <2>1. th' = [th EXCEPT ![t] = job] /\ th[t].pc = "rlist" BY <1>8 DEF ReopenList, At
  <2>2. job.pc = "reopen" /\ job.m = th[t].m /\ job.ev = <<d, "undo">> BY <1>1 DEF Handler
  <2>3. rev.match[th[t].m].status \in Terminal BY <1>1, <2>1 DEF Steady
  <2>4. d = rev.match[th[t].m].latest BY <1>1, <2>3, LatestIsNewest DEF Terminal
  <2>. HIDE DEF job, d
  <2>5. Steady(rev, learn, job) BY <2>2, <2>3, <2>4 DEF Steady, Passing, Ingesting
  <2>. QED BY <1>2, <2>1, <2>5 DEF job
<1>. QED BY <1>3, <1>4, <1>5, <1>6, <1>7, <1>8

LEMMA DirectSends == ASSUME Inv, Direct, DirectInv, NEW t \in Threads, Send(t) PROVE DirectInv'
<1>. DEFINE job == [th[t] EXCEPT !.pc = "rec"]
<1>1. /\ UNCHANGED <<rev, learn, queue, lost>> /\ th[t].pc = "send" /\ Serving(t) /\ th' = [th EXCEPT ![t] = job]
  BY DEF Send, Calm, At, Serving, Goto, Direct
<1>2. th[t] \in Handler /\ Steady(rev, learn, th[t]) BY <1>1, OneServes
<1>3. job.pc = "rec" /\ job.m = th[t].m /\ job.ev = th[t].ev BY <1>2 DEF Handler
<1>. HIDE DEF job
<1>4. Steady(rev, learn, job) BY <1>1, <1>2, <1>3 DEF Steady, Passing, Ingesting
<1>. QED BY <1>1, <1>3, <1>4, DirectLooks DEF Passing, Ingesting, job

LEMMA DirectDecides == ASSUME Inv, DirectInv, NEW t \in Threads, Decide(t) PROVE DirectInv'
<1>1. /\ UNCHANGED <<learn, queue, lost>> /\ th[t].pc = "decide" /\ Serving(t)
  BY DEF Decide, Calm, At, Serving
<1>2. /\ t \in Users /\ \A u \in Users \ {t} : ~Serving(u)
      /\ th[t] \in Handler /\ th[t].m \in Matches /\ Steady(rev, learn, th[t]) /\ ReviewInv
      /\ ~lost => \A x \in Matches : AgreesIn(rev, learn, x)
  BY <1>1, OneServes DEF Passing, Ingesting, Inv
<1>3. CASE Answer(t) /\ rev' = rev
  BY <1>1, <1>2, <1>3, IdleIsSteady, DirectTurn DEF Answer
<1>4. ~KnownKey(rev, th[t].m, th[t].key) BY <1>1, <1>2 DEF Steady
<1>5. ASSUME NEW d \in Decisions, Decides(th[t].m, d, th[t].choice, th[t].key), Log(t, <<d, "log">>) PROVE DirectInv'
  <2>1. PICK m \in Matches, choice \in Choices, key \in Keys \cup {None} :
          m = th[t].m /\ choice = th[t].choice /\ key = th[t].key
    BY <1>2 DEF Handler
  <2>2. /\ rev' = Decided(rev, m, d, choice, key) /\ rev.match[m].etag < MaxEtag /\ rev.dec[d].match = None
    BY <1>5, <2>1 DEF Decides
  <2>3. /\ rev'.match[m].latest = d /\ \A x \in Matches \ {m} : rev'.match[x] = rev.match[x]
        /\ \A x \in Decisions \ {d} : rev'.dec[x] = rev.dec[x]
    BY <1>2, <2>2, DecidedFields
  <2>. DEFINE job == [Idle EXCEPT !.pc = "send", !.m = m, !.ev = <<d, "log">>]
  <2>4. th' = [th EXCEPT ![t] = job] BY <1>5, <2>1 DEF Log
  <2>5. job.pc = "send" /\ job.m = m /\ job.ev = <<d, "log">> BY DEF Idle
  <2>. HIDE DEF job
  <2>6. <<d, "log">> \notin learn.known
    <3>1. ~Backed(rev, <<d, "log">>) BY <2>2, ReviewNone DEF Backed
    <3>. QED BY <3>1 DEF Inv, LearntInv, LearntFits
  <2>7. Steady(rev', learn', job) BY <1>1, <2>3, <2>5, <2>6 DEF Steady, Passing, Ingesting
  <2>8. ASSUME ~lost, NEW x \in Matches \ {m} PROVE AgreesIn(rev', learn', x)
    <3>1. rev'.match[x] = rev.match[x] BY <2>3
    <3>2. rev.match[x].status \in Terminal => rev.match[x].latest \in History(rev, x)
      BY <1>2 DEF ReviewInv, LatestFits, Terminal
    <3>3. rev.match[x].status \in Terminal => rev'.dec[rev.match[x].latest] = rev.dec[rev.match[x].latest]
      BY <2>2, <2>3, <3>2, ReviewNone DEF History
    <3>4. AgreesIn(rev, learn, x) BY <1>2, <2>8
    <3>. QED BY <1>1, <3>1, <3>3, <3>4 DEF AgreesIn
  <2>9. ~lost' => \A x \in Matches : AgreesIn(rev', learn', x) \/ (job.pc \in Passing /\ job.m = x)
    BY <1>1, <2>5, <2>8 DEF Passing
  <2>. QED BY <1>1, <1>2, <2>4, <2>7, <2>9, DirectTurn
<1>. QED BY <1>3, <1>4, <1>5, DecideWrites

LEMMA DirectReopens == ASSUME Inv, DirectInv, NEW t \in Threads, Reopen(t) PROVE DirectInv'
<1>1. /\ UNCHANGED <<learn, queue, lost>> /\ th[t].pc = "reopen" /\ Serving(t)
  BY DEF Reopen, Calm, At, Serving
<1>2. /\ t \in Users /\ \A u \in Users \ {t} : ~Serving(u)
      /\ th[t] \in Handler /\ th[t].m \in Matches /\ Steady(rev, learn, th[t]) /\ ReviewInv
      /\ ~lost => \A x \in Matches : AgreesIn(rev, learn, x)
  BY <1>1, OneServes DEF Passing, Ingesting, Inv
<1>3. PICK m \in Matches : m = th[t].m BY <1>2
<1>4. /\ rev'.dec = rev.dec /\ rev'.match[m] = ReopenedRow(rev.match[m])
      /\ \A x \in Matches \ {m} : rev'.match[x] = rev.match[x]
  BY <1>3, ReopenWrites
<1>. DEFINE job == [th[t] EXCEPT !.pc = "send"]
<1>5. th' = [th EXCEPT ![t] = job] BY DEF Reopen, Goto
<1>6. job.pc = "send" /\ job.m = m /\ job.ev = th[t].ev BY <1>2, <1>3 DEF Handler
<1>. HIDE DEF job
<1>7. th[t].ev = <<rev.match[m].latest, "undo">> /\ rev.match[m].status \in Terminal
  BY <1>1, <1>2, <1>3 DEF Steady
<1>8. th[t].ev \notin learn.known
  <2>1. rev.match[m].latest \in History(rev, m) BY <1>2, <1>7, LatestIsNewest DEF Terminal
  <2>2. ~Backed(rev, th[t].ev) BY <1>7, <2>1 DEF Backed, History
  <2>. QED BY <2>2 DEF Inv, LearntInv, LearntFits
<1>9. rev'.match[m].latest = None BY <1>4 DEF ReopenedRow
<1>10. Steady(rev', learn', job) BY <1>1, <1>6, <1>7, <1>8, <1>9 DEF Steady, Passing, Ingesting
<1>11. ~lost => \A x \in Matches \ {m} : AgreesIn(rev', learn', x) BY <1>1, <1>2, <1>4 DEF AgreesIn
<1>12. ~lost' => \A x \in Matches : AgreesIn(rev', learn', x) \/ (job.pc \in Passing /\ job.m = x)
  BY <1>1, <1>6, <1>11 DEF Passing
<1>. QED BY <1>1, <1>2, <1>5, <1>10, <1>12, DirectTurn

\* ingest_event, called directly: it knows nothing of the event, applies it, and both agree.
LEMMA DirectIngests == ASSUME Inv, DirectInv, NEW t \in Threads, LearningStep(t) PROVE DirectInv'
<1>1. /\ UNCHANGED <<rev, lost>> /\ th[t].pc \in Ingesting /\ th[t].pc \in Passing /\ Serving(t)
  BY DEF LearningStep, Recommend, Duplicate, Find, PutLog, Mark, Calm, At, Serving, Passing, Ingesting
<1>2. /\ t \in Users /\ t \notin Workers /\ \A u \in Users \ {t} : ~Serving(u)
      /\ th[t] \in Handler /\ th[t].m \in Matches /\ Steady(rev, learn, th[t]) /\ ReviewInv
      /\ ~lost => \A x \in Matches : AgreesIn(rev, learn, x) \/ th[t].m = x
      /\ LearntFits(rev, learn) /\ Backed(rev, th[t].ev) /\ rev.dec[th[t].ev[1]].match = th[t].m
  BY <1>1, OneServes, Serves DEF Inv, LearntInv, Fits
<1>3. PICK m \in Matches, e \in Events : m = th[t].m /\ e = th[t].ev BY <1>2 DEF Backed
<1>4. /\ rev.match[m].latest = (IF e[2] = "undo" THEN None ELSE e[1]) /\ e[1] \in Decisions /\ e[2] \in {"log", "undo"}
      /\ rev.match[m].status \in Terminal <=> e[2] # "undo"
  <2>1. rev.match[m].latest = IF e[2] = "undo" THEN None ELSE e[1] BY <1>1, <1>2, <1>3 DEF Steady
  <2>2. e[1] \in Decisions /\ e[2] \in {"log", "undo"} BY <1>3 DEF Events
  <2>3. /\ (rev.match[m].status = "PENDING") = (rev.match[m].latest = None)
        /\ rev.match[m].status \in {"PENDING"} \cup Terminal
    BY <1>2, PendingIsOpen
  <2>4. rev.match[m].status = "PENDING" <=> e[2] = "undo" BY <2>1, <2>2, <2>3, ReviewNone
  <2>. QED BY <2>1, <2>2, <2>3, <2>4 DEF Terminal
\* It goes on.
<1>5. ASSUME NEW pc \in Ingesting, Goto(t, pc), queue' = queue,
             pc = "dup" => e \notin learn'.known, pc \in {"dup", "find"} => learn'.rec[m] = "pending",
             pc = "find" => e[2] = "undo", pc = "mark" => learn'.log[m].choice = Told(rev, e), pc # "rec",
             \A x \in Matches \ {m} : learn'.log[x] = learn.log[x] /\ learn'.rec[x] = learn.rec[x]
      PROVE  DirectInv'
  <2>. DEFINE job == [th[t] EXCEPT !.pc = pc]
  <2>1. th' = [th EXCEPT ![t] = job] BY <1>5 DEF Goto
  <2>2. job.pc = pc /\ job.m = m /\ job.ev = e BY <1>2, <1>3 DEF Handler
  <2>. HIDE DEF job
  <2>3. Steady(rev', learn', job) BY <1>1, <1>4, <1>5, <2>2 DEF Steady, Ingesting
  <2>4. ~lost => \A x \in Matches \ {m} : AgreesIn(rev', learn', x) BY <1>1, <1>2, <1>3, <1>5 DEF AgreesIn
  <2>5. ~lost' => \A x \in Matches : AgreesIn(rev', learn', x) \/ (job.pc \in Passing /\ job.m = x)
    BY <1>1, <1>5, <2>2, <2>4 DEF Passing
  <2>. QED BY <1>1, <1>2, <1>5, <2>1, <2>3, <2>5, DirectTurn
\* It is done.
<1>6. ASSUME Return(t), AgreesIn(rev, learn', m),
             \A x \in Matches \ {m} : learn'.log[x] = learn.log[x] /\ learn'.rec[x] = learn.rec[x]
      PROVE  DirectInv'
  <2>1. th' = [th EXCEPT ![t] = Idle] /\ queue' = queue BY <1>2, <1>6 DEF Return, Answer
  <2>2. ~lost => \A x \in Matches \ {m} : AgreesIn(rev', learn', x) BY <1>1, <1>2, <1>3, <1>6 DEF AgreesIn
  <2>3. ~lost' => \A x \in Matches : AgreesIn(rev', learn', x) BY <1>1, <1>6, <2>2
  <2>. QED BY <1>1, <1>2, <2>1, <2>3, IdleIsSteady, DirectTurn
<1>7. CASE Recommend(t)
  <2>1. learn' = Recommended(learn, m, "pending") BY <1>3, <1>7, IngestWrites
  <2>2. /\ learn'.rec[m] = "pending" /\ learn'.log = learn.log /\ learn'.known = learn.known
        /\ \A x \in Matches \ {m} : learn'.rec[x] = learn.rec[x]
    <3>1. LET w == Recommended(learn, m, "pending") IN
          /\ LearntFits(rev, w) /\ PersistedLearnt(learn, w) = w
          /\ w.rec[m] = "pending" /\ w.log = learn.log /\ w.known = learn.known
          /\ \A x \in Matches \ {m} : w.rec[x] = learn.rec[x]
      BY <1>2, RecommendedFits
    <3>. QED BY <2>1, <3>1
  <2>3. Goto(t, "dup") /\ queue' = queue /\ th[t].pc = "rec" BY <1>7 DEF Recommend, At
  <2>4. e \notin learn.known BY <1>2, <1>3, <2>3 DEF Steady
  <2>. QED BY <1>5, <2>2, <2>3, <2>4 DEF Ingesting
<1>8. CASE Duplicate(t)
  <2>1. th[t].pc = "dup" /\ learn' = learn BY <1>8 DEF Duplicate, At
  <2>2. e \notin learn.known /\ learn.rec[m] = "pending" BY <1>2, <1>3, <2>1 DEF Steady
  <2>3. ~Knows(learn, deployment # "memory", m, e)
    <3>1. learn.log[m] = NoLog \/ learn.log[m].key \in learn.known BY <1>2 DEF LearntFits
    <3>2. learn.log[m].key # e BY <2>2, <3>1, LearningNone DEF NoLog
    <3>. QED BY <2>2, <3>2 DEF Knows
  <2>4. Goto(t, IF e[2] = "undo" THEN "find" ELSE "put") /\ queue' = queue BY <1>3, <1>8, <2>3 DEF Duplicate
  <2>5. CASE e[2] = "undo" BY <1>5, <2>1, <2>2, <2>4, <2>5 DEF Ingesting
  <2>6. CASE e[2] # "undo" BY <1>5, <2>1, <2>2, <2>4, <2>6 DEF Ingesting
  <2>. QED BY <2>5, <2>6
<1>9. CASE Find(t)
  <2>1. th[t].pc = "find" /\ learn' = learn BY <1>9 DEF Find, At
  <2>2. e[2] = "undo" /\ learn.rec[m] = "pending" BY <1>2, <1>3, <2>1 DEF Steady
  <2>3. CASE learn.log[m].choice = "none"
    <3>1. AgreesIn(rev, learn', m) BY <1>4, <2>1, <2>2, <2>3 DEF AgreesIn
    <3>2. Return(t) BY <1>3, <1>9, <2>3 DEF Find
    <3>. QED BY <1>6, <2>1, <3>1, <3>2
  <2>4. CASE learn.log[m].choice # "none"
    <3>1. Goto(t, "put") /\ queue' = queue BY <1>3, <1>9, <2>4 DEF Find
    <3>. QED BY <1>5, <2>1, <3>1 DEF Ingesting
  <2>. QED BY <2>3, <2>4
<1>10. CASE PutLog(t)
  <2>1. learn' = LogPut(learn, m, e, Told(rev, e)) BY <1>3, <1>10, IngestWrites
  <2>2. Told(rev, e) \in Outcomes
    <3>1. rev.dec[e[1]].choice \in Choices BY <1>2, <1>4 DEF ReviewInv, Reviews, DecisionRow
    <3>. QED BY <3>1 DEF Told, Outcomes, Choices
  <2>3. /\ learn'.log[m].choice = Told(rev, e)
        /\ \A x \in Matches \ {m} : learn'.log[x] = learn.log[x] /\ learn'.rec[x] = learn.rec[x]
    <3>1. PICK choice \in Outcomes : choice = Told(rev, e) BY <2>2
    <3>. QED BY <1>2, <1>3, <2>1, <3>1, LogPutFits
  <2>4. Goto(t, "mark") /\ queue' = queue BY <1>10 DEF PutLog
  <2>. QED BY <1>5, <2>3, <2>4 DEF Ingesting
<1>11. CASE Mark(t)
  <2>. DEFINE status == IF e[2] = "undo" THEN "pending" ELSE "decided"
  <2>1. learn' = Recommended(learn, m, status) BY <1>3, <1>11, IngestWrites
  <2>2. /\ learn'.rec[m] = status /\ learn'.log = learn.log
        /\ \A x \in Matches \ {m} : learn'.rec[x] = learn.rec[x]
    <3>1. learn \in Learnt BY <1>2 DEF LearntFits
    <3>2. status \in {"pending", "decided"} OBVIOUS
    <3>. HIDE DEF status
    <3>3. learn' = [learn EXCEPT !.rec[m] = status] BY <2>1 DEF Recommended
    <3>. QED BY <3>1, <3>2, <3>3 DEF Learnt
  <2>3. Return(t) /\ th[t].pc = "mark" BY <1>11 DEF Mark, At
  <2>4. learn.log[m].choice = Told(rev, e) BY <1>2, <1>3, <2>3 DEF Steady
  <2>5. AgreesIn(rev, learn', m) BY <1>4, <2>1, <2>2, <2>4 DEF AgreesIn, Told
  <2>. QED BY <1>6, <2>2, <2>3, <2>5
<1>. QED BY <1>7, <1>8, <1>9, <1>10, <1>11 DEF LearningStep

\* What dies with something to say leaves a trace.
LEMMA DirectDies == ASSUME Inv, Direct, DirectInv, NEW t \in Threads, Die(t) PROVE DirectInv'
<1>1. UNCHANGED <<rev, learn, queue>> /\ Serving(t) /\ th' = [th EXCEPT ![t] = Idle] BY DEF Die, Answer
<1>2. /\ t \in Users /\ \A u \in Users \ {t} : ~Serving(u)
      /\ ~lost => \A x \in Matches : AgreesIn(rev, learn, x) \/ (th[t].pc \in Passing /\ th[t].m = x)
  BY <1>1, OneServes
<1>3. lost => lost' BY Zenon DEF Die
<1>4. th[t].pc \in Passing => lost'
  <2>1. th[t].pc \in Passing => At(t, "send") \/ (th[t].pc \in Ingesting /\ deployment # "azure")
    BY DEF Passing, Direct, At
  <2>. QED BY <1>2, <2>1, Zenon DEF Die
<1>5. ~lost' => \A x \in Matches : AgreesIn(rev', learn', x) BY <1>1, <1>2, <1>3, <1>4
<1>. QED BY <1>1, <1>2, <1>3, <1>5, IdleIsSteady, DirectTurn

\* A set of numbers has a least one.
LEMMA Least == ASSUME NEW S, S \subseteq Nat, S # {} PROVE \E n \in S : \A m \in S : n <= m
<1>. DEFINE R == OpToRel(<, Nat)
<1>1. IsWellFoundedOn(R, Nat) BY NatLessThanWellFounded
<1>2. \A x, y \in Nat : y < x => <<y, x>> \in R BY DEF OpToRel
<1>. HIDE DEF R
<1>3. PICK n \in S : \A m \in S : ~ (<<m, n>> \in R) BY <1>1, WFMin
<1>4. \A m \in S : ~ (m < n) BY <1>2, <1>3
<1>. QED BY <1>3, <1>4

LEMMA NewestKeyed ==
  ASSUME ReviewInv, NEW m \in Matches, NEW key, Keyed(rev, m, key) # {}
  PROVE  /\ Newest(rev, Keyed(rev, m, key)) \in Keyed(rev, m, key)
         /\ \A e \in Keyed(rev, m, key) : rev.dec[e].version \in Nat
                                        /\ rev.dec[e].version <= rev.dec[Newest(rev, Keyed(rev, m, key))].version
<1>. DEFINE S == Keyed(rev, m, key)  n == Cardinality(Decisions)  D == {n - rev.dec[d].version : d \in S}
<1>1. n \in Nat /\ \A d \in S : rev.dec[d].version \in 0 .. n
  BY ReviewBounds, FS_CardinalityType DEF Keyed, History, ReviewInv, Reviews, DecisionRow
<1>. HIDE DEF n
<1>2. D \subseteq Nat /\ D # {} BY <1>1
<1>3. PICK i \in D : \A j \in D : i <= j
  <2>. HIDE DEF D
  <2>. QED BY <1>2, Least
<1>4. PICK d \in S : i = n - rev.dec[d].version BY <1>3
<1>5. ASSUME NEW e \in S PROVE rev.dec[e].version <= rev.dec[d].version
  <2>1. n - rev.dec[e].version \in D OBVIOUS
  <2>2. i <= n - rev.dec[e].version
    <3>. HIDE DEF D
    <3>. QED BY <1>3, <2>1
  <2>3. n \in Nat /\ rev.dec[e].version \in 0 .. n /\ rev.dec[d].version \in 0 .. n BY <1>1, <1>4
  <2>. QED BY <1>4, <2>2, <2>3
<1>. QED BY <1>1, <1>4, <1>5 DEF Newest

\* What happens to the Review store while the handler waits: time passes, and scores change.
LEMMA DirectStays ==
  ASSUME Inv, Inv', DirectInv, UNCHANGED <<learn, th, queue, lost>>,
         \A d \in Decisions : /\ rev'.dec[d].match = rev.dec[d].match /\ rev'.dec[d].choice = rev.dec[d].choice
                              /\ rev'.dec[d].version = rev.dec[d].version /\ rev'.dec[d].key = rev.dec[d].key
                              /\ rev.dec[d].old => rev'.dec[d].old,
         \A m \in Matches : rev'.match[m].status = rev.match[m].status /\ rev'.match[m].latest = rev.match[m].latest
  PROVE  DirectInv'
<1>1. \A m, key : Keyed(rev', m, key) = Keyed(rev, m, key) /\ Keyed(rev, m, key) \subseteq Decisions
  BY DEF Keyed, History
<1>2. ASSUME NEW m \in Matches, NEW key, Keyed(rev, m, key) # {}
      PROVE  /\ Newest(rev', Keyed(rev', m, key)) = Newest(rev, Keyed(rev, m, key))
             /\ Newest(rev, Keyed(rev, m, key)) \in Decisions
  <2>. DEFINE S == Keyed(rev, m, key)
  <2>1. PICK x : /\ x = Newest(rev, S) /\ x \in S
                 /\ \A e \in S : rev.dec[e].version \in Nat /\ rev.dec[e].version <= rev.dec[x].version
    BY <1>2, NewestKeyed DEF Inv
  <2>2. S \subseteq Decisions /\ Keyed(rev', m, key) = S BY <1>1
  <2>3. \A e \in S : rev'.dec[e].version <= rev'.dec[x].version BY <2>1, <2>2
  <2>4. PICK y : y = Newest(rev', S) /\ y \in S /\ \A e \in S : rev'.dec[e].version <= rev'.dec[y].version
    BY <2>1, <2>3 DEF Newest
  <2>5. rev.dec[x].version = rev.dec[y].version
    <3>1. rev.dec[x].version <= rev.dec[y].version BY <2>1, <2>2, <2>4
    <3>. QED BY <2>1, <2>4, <3>1
  <2>6. x \in History(rev, m) /\ y \in History(rev, m) BY <2>1, <2>4 DEF Keyed
  <2>7. x = y BY <2>5, <2>6, OneVersion DEF Inv
  <2>. QED BY <2>1, <2>2, <2>4, <2>7
<1>3. ASSUME NEW t \in Users, Steady(rev, learn, th[t]) PROVE Steady(rev', learn, th[t])
  <2>1. th[t].pc # "idle" => th[t].m \in Matches BY Serves DEF Threads
  <2>2. th[t].pc \in Passing => th[t].ev \in Events /\ Told(rev', th[t].ev) = Told(rev, th[t].ev)
    <3>1. th[t].pc \in Passing => th[t].ev \in Events BY Serves DEF Threads, Fits
    <3>2. \A e \in Events : Told(rev', e) = Told(rev, e) BY DEF Told, Events
    <3>. QED BY <3>1, <3>2
  <2>3. th[t].pc = "expire" => \/ Keyed(rev', th[t].m, th[t].key) = {}
                               \/ rev'.dec[Newest(rev', Keyed(rev', th[t].m, th[t].key))].old
    <3>. DEFINE S == Keyed(rev, th[t].m, th[t].key)
    <3>1. SUFFICES ASSUME th[t].pc = "expire", S # {}
                   PROVE  rev'.dec[Newest(rev', Keyed(rev', th[t].m, th[t].key))].old
      BY <1>1
    <3>2. rev.dec[Newest(rev, S)].old BY <1>3, <3>1 DEF Steady
    <3>3. Newest(rev', Keyed(rev', th[t].m, th[t].key)) = Newest(rev, S) /\ Newest(rev, S) \in Decisions
      BY <1>2, <2>1, <3>1
    <3>. QED BY <3>2, <3>3
  <2>4. th[t].pc = "decide" => ~KnownKey(rev', th[t].m, th[t].key) BY <1>1, <1>3 DEF Steady, KnownKey
  <2>5. /\ th[t].pc \in {"rlist", "reopen"} => rev'.match[th[t].m].status \in Terminal
        /\ th[t].pc = "reopen" => th[t].ev = <<rev'.match[th[t].m].latest, "undo">>
        /\ th[t].pc \in Passing => rev'.match[th[t].m].latest = IF th[t].ev[2] = "undo" THEN None ELSE th[t].ev[1]
    BY <1>3, <2>1 DEF Steady, Passing, Ingesting
  <2>6. th[t].pc = "mark" => learn.log[th[t].m].choice = Told(rev', th[t].ev)
    BY <1>3, <2>2 DEF Steady, Passing, Ingesting
  <2>. QED BY <1>3, <2>3, <2>4, <2>5, <2>6 DEF Steady
<1>4. ASSUME NEW m \in Matches, AgreesIn(rev, learn, m) PROVE AgreesIn(rev', learn, m)
  <2>1. rev.match[m].status \in Terminal => rev.match[m].latest \in Decisions
    BY DEF Inv, ReviewInv, LatestFits, Terminal, History
  <2>. QED BY <1>4, <2>1 DEF AgreesIn
<1>. QED BY <1>3, <1>4 DEF DirectInv, Serving

LEMMA ModeStays == ASSUME Inv, Next PROVE UNCHANGED mode
<1>1. \A t \in Threads : ~Hydrate(t) BY DEF Hydrate, Inv, Current
<1>. QED BY <1>1
  DEF Next, Arrival, Request, RequestReopen, Deliver, ReviewStep, GetMatch, Replay, Expire, Decide, ReopenGet,
      ReopenList, Reopen, Send, LearningStep, Recommend, Duplicate, Find, PutLog, Mark, Die, Age, Rescore, Calm

LEMMA DirectNext == ASSUME Inv, Inv', Direct, DirectInv, Next PROVE DirectInv'
<1>1. ASSUME NEW t \in Workers, Deliver(t) PROVE FALSE
  <2>1. PICK e \in Events : queue[e] > Cardinality(Holders(e)) BY <1>1 DEF Deliver, Holders
  <2>2. Cardinality(Holders(e)) \in Nat BY HoldersFinite DEF Inv
  <2>. QED BY <2>1, <2>2 DEF DirectInv
<1>2. ASSUME NEW t \in Threads, Hydrate(t) PROVE FALSE BY <1>2 DEF Hydrate, Inv, Current
<1>3. ASSUME NEW t \in Threads, ReviewStep(t) PROVE DirectInv'
  BY <1>3, DirectReads, DirectDecides, DirectReopens, DirectSends DEF ReviewStep
<1>4. ASSUME NEW d \in Decisions, Age(d) PROVE DirectInv'
  <2>1. UNCHANGED <<learn, th, queue, lost>> /\ rev' = [rev EXCEPT !.dec[d].old = TRUE] /\ rev \in Reviews
    BY <1>4 DEF Age, Calm, Inv, ReviewInv
  <2>2. rev'.match = rev.match /\ rev'.dec = [rev.dec EXCEPT ![d] = [rev.dec[d] EXCEPT !.old = TRUE]]
    BY <2>1 DEF Reviews
  <2>3. \A x \in Decisions : rev.dec[x] \in DecisionRow /\ rev'.dec[x] \in {rev.dec[x], [rev.dec[x] EXCEPT !.old = TRUE]}
    BY <2>1, <2>2 DEF Reviews
  <2>4. \A x \in Decisions : /\ rev'.dec[x].match = rev.dec[x].match /\ rev'.dec[x].choice = rev.dec[x].choice
                             /\ rev'.dec[x].version = rev.dec[x].version /\ rev'.dec[x].key = rev.dec[x].key
                             /\ rev.dec[x].old => rev'.dec[x].old
    BY <2>3 DEF DecisionRow
  <2>. QED BY <2>1, <2>2, <2>4, DirectStays
<1>5. ASSUME NEW m \in Matches, Rescore(m) PROVE DirectInv'
  <2>1. UNCHANGED <<learn, th, queue, lost>> /\ rev' = Rescored(rev, m) /\ rev \in Reviews
    BY <1>5 DEF Rescore, Calm, Inv, ReviewInv
  <2>2. rev'.dec = rev.dec /\ rev'.match = [rev.match EXCEPT ![m] = [rev.match[m] EXCEPT !.etag = rev.match[m].etag + 1]]
    BY <2>1 DEF Rescored, Reviews
  <2>3. \A x \in Matches : rev'.match[x].status = rev.match[x].status /\ rev'.match[x].latest = rev.match[x].latest
    BY <2>1, <2>2 DEF Reviews, MatchRow
  <2>. QED BY <2>1, <2>2, <2>3, DirectStays
<1>. QED BY <1>1, <1>2, <1>3, <1>4, <1>5, DirectArrives, DirectIngests, DirectDies DEF Next

AgreeInv == Direct => DirectInv
LEMMA AgreeInit == ASSUME Inv, Init PROVE AgreeInv
<1>1. \A t \in Threads : th[t] = Idle /\ ~Serving(t) BY IdleFits DEF Init, Serving
<1>2. \A t \in Users : Steady(rev, learn, th[t]) BY <1>1, IdleIsSteady DEF Threads
<1>3. \A m \in Matches : AgreesIn(rev, learn, m)
  <2>1. \A m \in Matches : rev.match[m] = NewMatch /\ learn.log[m] = NoLog /\ learn.rec[m] = "none"
    BY DEF Init, EmptyReviews, NothingLearnt
  <2>2. NewMatch.status = "PENDING" /\ NoLog.choice = "none" BY DEF NewMatch, NoLog
  <2>. QED BY <2>1, <2>2 DEF AgreesIn, Terminal
<1>4. \A e \in Events : queue[e] = 0 BY DEF Init
<1>. QED BY <1>1, <1>2, <1>3, <1>4 DEF AgreeInv, DirectInv, Threads

LEMMA AgreeStays == ASSUME Inv, UNCHANGED vars, AgreeInv PROVE AgreeInv'
BY DEF vars, mode, AgreeInv, Direct, DirectInv, Serving

\* If store calls do not overlap, a user waits for each answer and nobody consumes the queue, then
\* Learning agrees with Review whenever all is quiet, unless a handler died half-way.
THEOREM AgreesStands == ASSUME Sequential PROVE Spec => []FeedbackAgrees
<1>1. Init => FeedbackInv /\ AgreeInv BY InvInit, AgreeInit DEF FeedbackInv
<1>2. ASSUME FeedbackInv, AgreeInv, [Next]_vars PROVE FeedbackInv' /\ AgreeInv'
  <2>1. FeedbackInv' BY <1>2, FeedbackNext
  <2>2. CASE UNCHANGED vars BY <1>2, <2>1, <2>2, AgreeStays DEF FeedbackInv
  <2>3. CASE Next
    <3>1. UNCHANGED mode BY <1>2, <2>3, ModeStays DEF FeedbackInv
    <3>2. Direct' = Direct BY <3>1 DEF mode, Direct
    <3>. QED BY <1>2, <2>1, <2>3, <3>2, DirectNext DEF AgreeInv, FeedbackInv
  <2>. QED BY <1>2, <2>2, <2>3
<1>3. ASSUME FeedbackInv, AgreeInv PROVE FeedbackAgrees
  <2>1. SUFFICES ASSUME serial, deployment # "azure", ~lost, Quiet, NEW m \in Matches PROVE Agrees(m)
    BY DEF FeedbackAgrees
  <2>2. DirectInv BY <1>3, <2>1 DEF AgreeInv, Direct
  <2>3. \A t \in Users : th[t].pc \notin Passing BY <2>1 DEF Quiet, Serving, Threads, Passing, Ingesting
  <2>4. AgreesIn(rev, learn, m) BY <2>1, <2>2, <2>3 DEF DirectInv
  <2>. QED BY <2>4 DEF AgreesIn, Agrees
<1>. QED BY <1>1, <1>2, <1>3, PTL DEF Spec
=============================================================================
