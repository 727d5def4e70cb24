----------------------------- MODULE ForgeTypes -----------------------------
(***************************************************************************)
(* The vocabulary shared by the abstract forge (Forge) and the command     *)
(* service that implements it (CommandService): the keys of the compacted  *)
(* topics, the values they hold, and what one transaction does to them.    *)
(*                                                                         *)
(* A compacted topic is represented by the map it folds to: the latest     *)
(* value of every key, None for a key that has none or a tombstone.  That  *)
(* is what Catalog::apply and RefMap::apply rebuild from it at boot.       *)
(***************************************************************************)
EXTENDS Naturals, Sequences

CONSTANTS
  Requests,       \* client requests; each one is served at most once
  Usernames,      \* lower-cased user names a request may ask for
  RepoNames,      \* lower-cased owner/name pairs a request may ask for
  Repos,          \* repository ids that issue, pull and push requests address
  RefNames,       \* reference names a push may mention
  ValidRefNames,  \* the ones is_valid_ref_name accepts
  Oids,           \* object ids
  None            \* Rust's None, and the absence of a key

ASSUME ValidRefNamesAssumption == ValidRefNames \subseteq RefNames

(***************************************************************************)
(* Record keys.  Namespaced, so users and repositories cannot collide.     *)
(***************************************************************************)
user_key(n)          == <<"user", n>>
repo_key(n)          == <<"repo", n>>
issue_counter_key(r) == <<"issuenum", r>>
ref_key(r, n)        == <<r, n>>

NameKeys    == ({"user"} \X Usernames) \cup ({"repo"} \X RepoNames)
CounterKeys == {"issuenum"} \X Repos
Keys        == NameKeys \cup CounterKeys
RefKeys     == Repos \X RefNames

ASSUME NoneAssumption == None \notin Requests \cup Oids \cup Nat \cup Keys

(***************************************************************************)
(* A claim is the id of the aggregate that holds the name, or the next     *)
(* issue number.  An id (a fresh UUIDv7) is represented by the request     *)
(* that minted it.                                                         *)
(***************************************************************************)
Claims == Requests \cup Nat

Catalogs ==
  {cat \in [Keys -> Claims \cup {None}] : \A k \in CounterKeys : cat[k] \in Nat \cup {None}}

RefMaps  == [RefKeys -> Oids \cup {None}]

(***************************************************************************)
(* One RefUpdated event, and the compacted record written with it.         *)
(***************************************************************************)
Move == [ref : RefKeys, old : Oids \cup {None}, new : Oids \cup {None}]

(***************************************************************************)
(* What one transaction carries: the events of a command, with the number  *)
(* of an opened issue or pull request, at most one catalog record, and the *)
(* reference moves.                                                        *)
(***************************************************************************)
NameOps  == {"register_user", "create_repo"}
OpenOps  == {"open_issue", "open_pull"}
RefOps   == {"update_refs", "merge_pull"}
EventOps == {"event"}
Ops      == NameOps \cup OpenOps \cup RefOps \cup EventOps

Tx ==
  {t \in [req : Requests, op : Ops, number : Nat,
          key : Keys \cup {None}, claim : Claims \cup {None}, moves : Seq(Move)] :
     /\ t.key # None => t.claim # None
     /\ t.key \in CounterKeys => t.claim \in Nat}

(***************************************************************************)
(* Catalog::apply: the record's value replaces the key's claim.            *)
(***************************************************************************)
ApplyClaim(cat, t) ==
  IF t.key = None THEN cat ELSE [cat EXCEPT ![t.key] = t.claim]

(***************************************************************************)
(* RefMap::set for every update of a push, in order: the last one that     *)
(* names a reference decides where it points.                              *)
(***************************************************************************)
Touching(moves, f) == {k \in DOMAIN moves : moves[k].ref = f}

LastTouch(moves, f) ==
  CHOOSE k \in Touching(moves, f) : \A j \in Touching(moves, f) : j <= k

ApplyMoves(rf, moves) ==
  [f \in RefKeys |-> IF Touching(moves, f) = {} THEN rf[f]
                                                ELSE moves[LastTouch(moves, f)].new]

(***************************************************************************)
(* Catalog::next_issue_number: starts at one.                              *)
(***************************************************************************)
next_issue_number(cat, r) ==
  IF cat[issue_counter_key(r)] = None THEN 1 ELSE cat[issue_counter_key(r)]

(***************************************************************************)
(* A faulty variant: the compare half of compare-and-swap is missing.      *)
(***************************************************************************)
check_NoCompare(rf, m) ==
  /\ m.ref[2] \in ValidRefNames
  /\ ~(m.new = None /\ rf[m.ref] = None)

(***************************************************************************)
(* RefMap::check, for one update of a push.                                *)
(***************************************************************************)
check(rf, m) ==
  /\ m.ref[2] \in ValidRefNames
  /\ rf[m.ref] = m.old
  /\ ~(m.new = None /\ rf[m.ref] = None)
=============================================================================
