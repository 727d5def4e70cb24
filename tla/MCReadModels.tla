---------------------------- MODULE MCReadModels ----------------------------
(***************************************************************************)
(* One or two of everything; a page is one comment or one row.             *)
(***************************************************************************)
EXTENDS IssuePages, TLC

CONSTANTS x, y, z, v, w, h1, h2, b1

MCIdsOf == [t \in Topics |-> IF t = "prs" THEN {z} ELSE {x, y}]
MCClean == {<<h1, b1>>}
MCMaxLog == [t \in Topics |-> CASE t = "users" -> 3 [] t = "repos" -> 3
                                [] t = "issues" -> 3 [] t = "prs" -> 5]
Symmetry == Permutations({x, y}) \cup Permutations({v, w})
=============================================================================
