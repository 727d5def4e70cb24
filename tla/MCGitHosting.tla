---------------------------- MODULE MCGitHosting ----------------------------
(***************************************************************************)
(* Two branches, pushes of a commit with a chunked blob, alone and with    *)
(* the deletion of the other branch, a deletion, and a merge that makes a  *)
(* tree.                                                                   *)
(***************************************************************************)
EXTENDS GitHosting, TLC

CONSTANTS s1, s2, main, dev, c0, c1, c2, blob, mc, tree

MCNeeds == c0 :> {c0} @@ c1 :> {c0, c1} @@ c2 :> {c0, c2, blob} @@ mc :> {c0, c1, mc, tree}
MCChunks == [o \in Objects |-> IF o = blob THEN 2 ELSE 1]
MCBorn == [r \in Refs |-> IF r = main THEN c0 ELSE c1]
MCPushes == {main :> c2, main :> None, main :> c2 @@ dev :> None}
MCMaxRequests == [k \in Kinds |-> IF k = "push" THEN 2 ELSE 1]
Symmetry == Permutations(Slots)
=============================================================================
