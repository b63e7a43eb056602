------------------------------ MODULE JobFeed -------------------------------
(***************************************************************************)
(* What crawling promises the Job Feed (backend/app/job_sources/feed.py),  *)
(* without runs, queues, retries or threads: postings of a connected board *)
(* come and go, and a board that was removed shows none, ever again.       *)
(***************************************************************************)
CONSTANTS Tenants, Postings

VARIABLES board, shown
feedVars == <<board, shown>>

FeedTypeInv ==
  /\ board \in [Tenants -> {"new", "live", "gone"}]
  /\ shown \subseteq Tenants \X Postings

FeedInit ==
  /\ board \in [Tenants -> {"new", "live", "gone"}]
  /\ shown \subseteq {t \in Tenants : board[t] = "live"} \X Postings

ConnectBoard(t) ==
  /\ board[t] = "new"
  /\ board' = [board EXCEPT ![t] = "live"] /\ UNCHANGED shown
File(t, p) ==
  /\ board[t] = "live"
  /\ shown' = shown \cup {<<t, p>>} /\ UNCHANGED board
Retire(t, p) ==
  /\ board[t] = "live"
  /\ shown' = shown \ {<<t, p>>} /\ UNCHANGED board
RemoveBoard(t) ==
  /\ board[t] = "live"
  /\ board' = [board EXCEPT ![t] = "gone"]
  /\ shown' = {s \in shown : s[1] # t}

FeedNext ==
  \E t \in Tenants :
    \/ ConnectBoard(t) \/ RemoveBoard(t)
    \/ \E p \in Postings : File(t, p) \/ Retire(t, p)

FeedSpec == FeedInit /\ [][FeedNext]_feedVars

-----------------------------------------------------------------------------
\* Only a connected board has postings in the feed: a worker that was fetching a posting
\* when the board was deleted does not bring it back.
OnlyLiveShow == \A s \in shown : board[s[1]] = "live"
=============================================================================
