---------------------------- MODULE MCJobCrawl -----------------------------
(* Small instances of JobCrawl for TLC. *)
EXTENDS JobCrawl, TLC

CONSTANTS p1, p2, gh, lv
MCPageOf == (p1 :> 1) @@ (p2 :> 2)
MCRefiled == {{p1}}
MCNotRefiled == {{}}
=============================================================================
