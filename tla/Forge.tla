------------------------------- MODULE Forge --------------------------------
(***************************************************************************)
(* What the command service promises its callers, with no processes, no    *)
(* broker and no failures: one catalog of claims, one map of references    *)
(* and the history of their moves, on which every request takes effect at  *)
(* most once, in one indivisible step, and only if its precondition holds  *)
(* of the state it takes effect on.  Requests that are refused, or that    *)
(* die with the process serving them before they commit, do not appear.    *)
(***************************************************************************)
EXTENDS ForgeTypes

VARIABLES
  catalog,   \* who holds each name, and the next issue number per repository
  refs,      \* where every reference points
  reflog,    \* every reference move, in the order they took effect
  served     \* the requests that have taken effect

vars == <<catalog, refs, reflog, served>>

Init ==
  /\ catalog = [k \in Keys |-> None]
  /\ refs = [f \in RefKeys |-> None]
  /\ reflog = <<>>
  /\ served = {}

Serve(q) == q \notin served /\ served' = served \cup {q}

(***************************************************************************)
(* A user or a repository takes a name nobody holds.                       *)
(***************************************************************************)
TakeName(q, k) ==
  /\ Serve(q)
  /\ catalog[k] = None
  /\ catalog' = [catalog EXCEPT ![k] = q]
  /\ UNCHANGED <<refs, reflog>>

(***************************************************************************)
(* An issue or a pull request takes the repository's next number.          *)
(***************************************************************************)
TakeNumber(q, r) ==
  /\ Serve(q)
  /\ catalog' = [catalog EXCEPT ![issue_counter_key(r)] = next_issue_number(catalog, r) + 1]
  /\ UNCHANGED <<refs, reflog>>

(***************************************************************************)
(* A push or a merge moves references: history grows by some moves, every  *)
(* one of them from where its reference points now.                        *)
(***************************************************************************)
Added(new, old) == [k \in 1..(Len(new) - Len(old)) |-> new[Len(old) + k]]

MoveRefs(q) ==
  /\ Serve(q)
  /\ LET moves == Added(reflog', reflog)
     IN  /\ moves # <<>>
         /\ reflog' = reflog \o moves
         /\ \A k \in DOMAIN moves : moves[k].old = refs[moves[k].ref]
         /\ refs' = ApplyMoves(refs, moves)
  /\ UNCHANGED catalog

(***************************************************************************)
(* A command that only appends to history: a comment, a review, a close.   *)
(***************************************************************************)
Remark(q) == Serve(q) /\ UNCHANGED <<catalog, refs, reflog>>

Next ==
  \E q \in Requests :
    \/ \E k \in NameKeys : TakeName(q, k)
    \/ \E r \in Repos : TakeNumber(q, r)
    \/ MoveRefs(q)
    \/ Remark(q)

Spec == Init /\ [][Next]_vars
=============================================================================
