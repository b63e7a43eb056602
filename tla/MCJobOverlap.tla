--------------------------- MODULE MCJobOverlap ----------------------------
(* Small instances of JobOverlap for TLC. *)
EXTENDS JobOverlap, TLC

CONSTANTS p1, p2, gh
MCPageOf == (p1 :> 1) @@ (p2 :> 1)
MCRefiled == {{}}
MCAlike == Permutations(Postings)
=============================================================================
