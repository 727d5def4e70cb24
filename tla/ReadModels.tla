----------------------------- MODULE ReadModels -----------------------------
(***************************************************************************)
(* The tables a reader sees, and the events they are made of.              *)
(*                                                                         *)
(* Commands append events to a topic; a projector turns each event into    *)
(* rows; pages are made of rows, and what a page shows decides what is     *)
(* appended next.  Rows lag behind the log, a trial merge lags behind both *)
(* branches, and the tables can be made again from offset zero, over the   *)
(* old rows or after dropping them, while all of this goes on.             *)
(*                                                                         *)
(* The projectors share no table, so a behaviour follows one topic.        *)
(* Applying one event is one step: Projector shows that a batch takes      *)
(* effect once.  Comment and review ids are positions in the log, as their *)
(* UUIDs are ordered by time.                                              *)
(***************************************************************************)
EXTENDS Integers, Sequences, FiniteSetsExt

CONSTANTS
  IdsOf,       \* the ids each topic can be about
  Values,      \* names, titles, profiles and settings
  Fields,      \* what a repository event can change, besides name and deletion
  Heads,       \* commits a source branch can be at
  Bases,       \* commits a target branch can be at
  None,        \* a column without a value
  Clean,       \* the pairs of commits git merges without conflict
  PageMax,     \* rows in the largest page
  ListMax,     \* rows on a list page
  MaxLog,      \* bound: events in each topic
  MaxReplays   \* bound: how often the tables are made again

ASSUME CleanAssumption == Clean \subseteq Heads \X Bases
ASSUME PageAssumption == PageMax \in Nat \ {0} /\ ListMax \in 1..PageMax
ASSUME BoundsAssumption == MaxReplays \in Nat

VARIABLES
  topic,     \* the topic this behaviour follows
  log,       \* its events
  applied,   \* its projector's cursor
  db,        \* the tables
  trials,    \* trial merges under way: the row each was started from
  forms,     \* issue forms whose comment is posted and whose state change is not
  seen,      \* the furthest the cursor has been
  replays    \* how often it was set back

vars == <<topic, log, applied, db, trials, forms, seen, replays>>

Topics == {"users", "repos", "issues", "prs"}
Ids == UNION {IdsOf[t] : t \in Topics}

Empty == [users |-> <<>>, repos |-> <<>>, issues |-> <<>>, comments |-> <<>>,
          counters |-> [open |-> 0, closed |-> 0], pulls |-> <<>>, reviews |-> <<>>]

Users == [name : Values, profile : Values \cup {None}, state : {"active", "deactivated"}]
Repos == [name : Values, settings : [Fields -> Values \cup {None}], deleted : BOOLEAN]
Issues == [title : Values, state : {"open", "closed"}, closed_at : Nat, comment_count : Nat]
Checks == [head : Heads, base : Bases, verdict : {"clean", "conflict"}]
Pulls == [state : {"open", "closed", "merged"}, head : Heads, base : Bases,
          check : Checks \cup {None}, merged_at : Nat, closed_at : Nat]

(***************************************************************************)
(* The events of each aggregate, and records that are none.                *)
(***************************************************************************)
UserEvents ==
  [type : {"registered", "profile_updated"}, id : Ids, value : Values]
    \cup [type : {"deactivated"}, id : Ids]
RepoEvents ==
  [type : {"created", "renamed"}, id : Ids, value : Values]
    \cup [type : {"changed"}, id : Ids, field : Fields, value : Values]
    \cup [type : {"deleted", "collaborator"}, id : Ids]
IssueEvents ==
  [type : {"opened", "title_changed"}, id : Ids, value : Values]
    \cup [type : {"commented", "closed", "reopened"}, id : Ids]
PrEvents ==
  [type : {"opened", "synchronized"}, id : Ids, head : Heads, base : Bases]
    \cup [type : {"mergeability_computed"}, id : Ids, check : Checks]
    \cup [type : {"reviewed", "merged", "closed", "reopened"}, id : Ids]

EventsOf(t) ==
  [type : {"unknown"}, id : Ids] \cup
    CASE t = "users" -> UserEvents [] t = "repos" -> RepoEvents
      [] t = "issues" -> IssueEvents [] t = "prs" -> PrEvents

(***************************************************************************)
(* A table has rows for some of its keys.                                  *)
(***************************************************************************)
IsTable(f, keys, rows) == DOMAIN f \subseteq keys /\ f \in [DOMAIN f -> rows]

DbOK(d, n) ==
  /\ DOMAIN d = DOMAIN Empty /\ d = [t \in DOMAIN d |-> d[t]]
  /\ IsTable(d.users, Ids, Users) /\ IsTable(d.repos, Ids, Repos)
  /\ IsTable(d.issues, Ids, Issues) /\ IsTable(d.comments, 1..n, Ids)
  /\ d.counters \in [open : Nat, closed : Nat]
  /\ IsTable(d.pulls, Ids, Pulls) /\ IsTable(d.reviews, 1..n, Ids)

TypeOK ==
  /\ topic \in Topics
  /\ log \in Seq(EventsOf(topic))
  /\ applied \in 0..Len(log) /\ seen \in applied..Len(log)
  /\ DbOK(db, Len(log))
  /\ trials \subseteq [id : Ids, head : Heads, base : Bases]
  /\ forms \subseteq [id : Ids, open : BOOLEAN]
  /\ replays \in 0..MaxReplays

Init ==
  /\ topic \in Topics
  /\ log = <<>> /\ applied = 0 /\ seen = 0
  /\ db = Empty
  /\ trials = {} /\ forms = {}
  /\ replays = 0
-----------------------------------------------------------------------------
(***************************************************************************)
(* Turning events into rows                                                *)
(***************************************************************************)

(***************************************************************************)
(* INSERT ... ON CONFLICT DO UPDATE.                                       *)
(***************************************************************************)
Upsert(table, id, row) ==
  [x \in DOMAIN table \cup {id} |-> IF x = id THEN row ELSE table[x]]

(***************************************************************************)
(* INSERT ... ON CONFLICT DO NOTHING.                                      *)
(***************************************************************************)
InsertOnce(table, id, row) ==
  IF id \in DOMAIN table THEN table ELSE Upsert(table, id, row)

(***************************************************************************)
(* update_repo, update_issue, update_pull: read, change, write; an event   *)
(* about an unknown row is passed over.                                    *)
(***************************************************************************)
Update(table, id, Mutate(_)) ==
  IF id \in DOMAIN table THEN [table EXCEPT ![id] = Mutate(@)] ELSE table

NewUser(name) == [name |-> name, profile |-> None, state |-> "active"]
NewRepo(name) == [name |-> name, settings |-> [f \in Fields |-> None], deleted |-> FALSE]

ApplyUserEvent(d, e) ==
  [d EXCEPT !.users =
     CASE e.type = "registered" -> Upsert(@, e.id, NewUser(e.value))
       [] e.type = "profile_updated" ->
            Update(@, e.id, LAMBDA row : [row EXCEPT !.profile = e.value])
       [] e.type = "deactivated" ->
            Update(@, e.id, LAMBDA row : [row EXCEPT !.state = "deactivated"])]

ApplyRepoEvent(d, e) ==
  [d EXCEPT !.repos =
     CASE e.type = "created" -> Upsert(@, e.id, NewRepo(e.value))
       [] e.type = "renamed" ->
            Update(@, e.id, LAMBDA row : [row EXCEPT !.name = e.value])
       [] e.type = "changed" ->
            Update(@, e.id, LAMBDA row : [row EXCEPT !.settings[e.field] = e.value])
       [] e.type = "deleted" ->
            Update(@, e.id, LAMBDA row : [row EXCEPT !.deleted = TRUE])
       [] e.type = "collaborator" -> @]

(***************************************************************************)
(* refresh_counters: counted again, never incremented.                     *)
(***************************************************************************)
RefreshCounters_Never(d) == d

RefreshCounters(d) ==
  LET In(state) == Cardinality({i \in DOMAIN d.issues : d.issues[i].state = state})
  IN  [d EXCEPT !.counters = [open |-> In("open"), closed |-> In("closed")]]

(***************************************************************************)
(* comments: the oldest page of a conversation.                            *)
(***************************************************************************)
Comments(d, i) ==
  LET of == {c \in DOMAIN d.comments : d.comments[c] = i}
  IN  {c \in of : Cardinality({b \in of : b < c}) < PageMax}

ApplyCommented(d, e, at) ==
  LET with == [d EXCEPT !.comments = InsertOnce(@, at, e.id)]
  IN  [with EXCEPT !.issues =
         Update(@, e.id, LAMBDA row :
                  [row EXCEPT !.comment_count = Cardinality(Comments(with, e.id))])]

ApplyIssueEvent(d, e, at) ==
  CASE e.type = "opened" ->
         RefreshCounters([d EXCEPT !.issues =
           Upsert(@, e.id, [title |-> e.value, state |-> "open", closed_at |-> 0,
                            comment_count |-> 0])])
    [] e.type = "commented" -> ApplyCommented(d, e, at)
    [] e.type = "title_changed" ->
         [d EXCEPT !.issues = Update(@, e.id, LAMBDA row : [row EXCEPT !.title = e.value])]
    [] e.type = "closed" ->
         RefreshCounters([d EXCEPT !.issues =
           Update(@, e.id, LAMBDA row : [row EXCEPT !.state = "closed", !.closed_at = at])])
    [] e.type = "reopened" ->
         RefreshCounters([d EXCEPT !.issues =
           Update(@, e.id, LAMBDA row : [row EXCEPT !.state = "open", !.closed_at = 0])])

(***************************************************************************)
(* record_check: one UPDATE, whose WHERE names the commits of the verdict. *)
(***************************************************************************)
RecordCheck(table, id, check) ==
  IF id \in DOMAIN table /\ table[id].head = check.head /\ table[id].base = check.base
  THEN [table EXCEPT ![id].check = check]
  ELSE table

ReopenPull_EvenMerged(row) == [row EXCEPT !.state = "open", !.closed_at = 0, !.check = None]
ReopenPull_KeepsCheck(row) ==
  IF row.state # "merged" THEN [row EXCEPT !.state = "open", !.closed_at = 0] ELSE row

ReopenPull(row) ==
  IF row.state # "merged"
  THEN [row EXCEPT !.state = "open", !.closed_at = 0, !.check = None]
  ELSE row

ApplyPrEvent(d, e, at) ==
  CASE e.type = "opened" ->
         [d EXCEPT !.pulls =
            Upsert(@, e.id, [state |-> "open", head |-> e.head, base |-> e.base,
                             check |-> None, merged_at |-> 0, closed_at |-> 0])]
    [] e.type = "synchronized" ->
         [d EXCEPT !.pulls =
            Update(@, e.id, LAMBDA row : [row EXCEPT !.head = e.head, !.base = e.base])]
    [] e.type = "mergeability_computed" ->
         [d EXCEPT !.pulls = RecordCheck(@, e.id, e.check)]
    [] e.type = "reviewed" ->
         [d EXCEPT !.reviews = InsertOnce(@, at, e.id)]
    [] e.type = "merged" ->
         [d EXCEPT !.pulls =
            Update(@, e.id, LAMBDA row : [row EXCEPT !.state = "merged", !.merged_at = at,
                                                     !.closed_at = at])]
    [] e.type = "closed" ->
         [d EXCEPT !.pulls =
            Update(@, e.id, LAMBDA row : IF row.state # "merged"
                                         THEN [row EXCEPT !.state = "closed", !.closed_at = at]
                                         ELSE row)]
    [] e.type = "reopened" -> [d EXCEPT !.pulls = Update(@, e.id, ReopenPull)]

(***************************************************************************)
(* apply_decoded: by topic.  A record that does not decode, or is of a     *)
(* kind this build does not know, is passed over.                          *)
(***************************************************************************)
ApplyDecoded(d, at) ==
  LET e == log[at]
  IN  IF e.type = "unknown" THEN d
      ELSE CASE topic = "users"  -> ApplyUserEvent(d, e)
             [] topic = "repos"  -> ApplyRepoEvent(d, e)
             [] topic = "issues" -> ApplyIssueEvent(d, e, at)
             [] topic = "prs"    -> ApplyPrEvent(d, e, at)

(***************************************************************************)
(* A faulty variant: a table without the index.                            *)
(***************************************************************************)
NamesAreUnique_Unchecked(d) == TRUE

(***************************************************************************)
(* The unique index on full_name_lower, which deletion does not free.  An  *)
(* event that would break it fails, and its projector with it.             *)
(***************************************************************************)
NamesAreUnique(d) ==
  \A r, s \in DOMAIN d.repos : r # s => d.repos[r].name # d.repos[s].name

Project ==
  /\ applied < Len(log)
  /\ LET after == ApplyDecoded(db, applied + 1)
     IN  /\ NamesAreUnique(after)
         /\ db' = after
  /\ applied' = applied + 1
  /\ seen' = IF applied' > seen THEN applied' ELSE seen
  /\ UNCHANGED <<topic, log, trials, forms, replays>>

(***************************************************************************)
(* The cursor goes back to zero, over the rows or after dropping them: the *)
(* disaster-recovery procedure.                                            *)
(***************************************************************************)
Replay ==
  /\ replays < MaxReplays
  /\ applied' = 0
  /\ replays' = replays + 1
  /\ db' \in {db, Empty}
  /\ UNCHANGED <<topic, log, trials, forms, seen>>
-----------------------------------------------------------------------------
(***************************************************************************)
(* What pages show                                                         *)
(***************************************************************************)

(***************************************************************************)
(* mergeability: the stored verdict, if it is about the commits of the row.*)
(***************************************************************************)
Mergeability_OfAnyCommits(row) == IF row.check # None THEN row.check.verdict ELSE "unknown"

Mergeability(row) ==
  IF row.check # None /\ row.check.head = row.head /\ row.check.base = row.base
  THEN row.check.verdict
  ELSE "unknown"

(***************************************************************************)
(* A user or a repository by name: for the owner of all of them, so that   *)
(* nothing is hidden for being private.                                    *)
(***************************************************************************)
GetUser(name) == {u \in DOMAIN db.users : db.users[u].name = name}

ByFullName(name) == {r \in DOMAIN db.repos : db.repos[r].name = name}

OpenRepo(name) == {r \in ByFullName(name) : ~db.repos[r].deleted}

(***************************************************************************)
(* for_owner: the newest repositories; ids are ordered by time.            *)
(***************************************************************************)
CreatedAt(r) == Min({k \in DOMAIN log : log[k].id = r /\ log[k].type = "created"})

ForOwner(limit) ==
  LET live == {r \in DOMAIN db.repos : ~db.repos[r].deleted}
  IN  {r \in live : Cardinality({s \in live : CreatedAt(s) > CreatedAt(r)}) < limit}

ProfilePage == {[repo |-> r, link |-> db.repos[r].name] : r \in ForOwner(ListMax)}

CanMerge(row) == row.state = "open" /\ Mergeability(row) = "clean"

(***************************************************************************)
(* A page of a table: the newest rows of those that qualify.               *)
(***************************************************************************)
Page(rows, size) == IF Cardinality(rows) < size THEN Cardinality(rows) ELSE size

PullDetailPage(p) ==
  LET row == db.pulls[p]
  IN  [label |-> row.state,
       head |-> row.head, base |-> row.base,
       mergeable |-> Mergeability(row) = "clean",
       conflicted |-> Mergeability(row) = "conflict",
       reviews |-> {r \in DOMAIN db.reviews : db.reviews[r] = p}]
-----------------------------------------------------------------------------
(***************************************************************************)
(* Commands: what is appended, and when                                    *)
(***************************************************************************)
Emit(t, e) ==
  /\ topic = t /\ Len(log) < MaxLog[t]
  /\ log' = Append(log, e)

OnlyLog == UNCHANGED <<topic, applied, db, trials, forms, seen, replays>>

Mentioned == {log[k].id : k \in DOMAIN log}

(***************************************************************************)
(* A record of a newer build, or one that is not an event.                 *)
(***************************************************************************)
Unknown(id) == \E t \in Topics : Emit(t, [type |-> "unknown", id |-> id]) /\ OnlyLog

(***************************************************************************)
(* A new account or repository takes a fresh id, and a name the catalog    *)
(* has free.                                                               *)
(***************************************************************************)
NameOf(r) ==
  log[Max({k \in DOMAIN log : log[k].id = r /\ log[k].type \in {"created", "renamed"}})].value

Named == {log[k].id : k \in {j \in DOMAIN log : log[j].type = "created"}}

RegisterUser(u, name) ==
  /\ u \notin Mentioned
  /\ \A k \in DOMAIN log : log[k].type = "registered" => log[k].value # name
  /\ Emit("users", [type |-> "registered", id |-> u, value |-> name])
  /\ OnlyLog

CreateRepo(r, name) ==
  /\ r \notin Mentioned
  /\ \A s \in Named : NameOf(s) # name
  /\ Emit("repos", [type |-> "created", id |-> r, value |-> name])
  /\ OnlyLog

(***************************************************************************)
(* Events the projector knows and no command of this build writes.         *)
(***************************************************************************)
ChangeUser(u, value) ==
  /\ \/ Emit("users", [type |-> "profile_updated", id |-> u, value |-> value])
     \/ Emit("users", [type |-> "deactivated", id |-> u])
  /\ OnlyLog

ChangeRepo(r, value) ==
  /\ \/ /\ r \in Named
        /\ \A s \in Named : NameOf(s) # value
        /\ Emit("repos", [type |-> "renamed", id |-> r, value |-> value])
     \/ \E f \in Fields :
          Emit("repos", [type |-> "changed", id |-> r, field |-> f, value |-> value])
     \/ Emit("repos", [type |-> "deleted", id |-> r])
     \/ Emit("repos", [type |-> "collaborator", id |-> r])
  /\ OnlyLog

OpenIssue(i, title) ==
  /\ i \notin Mentioned
  /\ Emit("issues", [type |-> "opened", id |-> i, value |-> title])
  /\ OnlyLog

ChangeTitle(i, title) ==
  /\ Emit("issues", [type |-> "title_changed", id |-> i, value |-> title])
  /\ OnlyLog

(***************************************************************************)
(* The form under an issue: a comment if there is text, then, as a command *)
(* of its own, the change of state.                                        *)
(***************************************************************************)
PostForm(i, text, action) ==
  /\ i \in DOMAIN db.issues
  /\ text \/ action # "comment"
  /\ IF text
     THEN Emit("issues", [type |-> "commented", id |-> i])
     ELSE UNCHANGED log
  /\ forms' = IF action = "comment" THEN forms
              ELSE forms \cup {[id |-> i, open |-> action = "reopen"]}
  /\ UNCHANGED <<topic, applied, db, trials, seen, replays>>

SetIssueState(form) ==
  /\ form \in forms
  /\ Emit("issues", [type |-> IF form.open THEN "reopened" ELSE "closed", id |-> form.id])
  /\ forms' = forms \ {form}
  /\ UNCHANGED <<topic, applied, db, trials, seen, replays>>

(***************************************************************************)
(* The process dies, or a command fails: the rest of the form is lost, as  *)
(* are the trial merges.                                                   *)
(***************************************************************************)
Abandon ==
  /\ forms \cup trials # {}
  /\ forms' = {} /\ trials' = {}
  /\ UNCHANGED <<topic, log, applied, db, seen, replays>>

OpenPull(p, h, b) ==
  /\ p \notin Mentioned
  /\ Emit("prs", [type |-> "opened", id |-> p, head |-> h, base |-> b])
  /\ OnlyLog

SynchronizePull(p, h, b) ==
  /\ p \in DOMAIN db.pulls
  /\ Emit("prs", [type |-> "synchronized", id |-> p, head |-> h, base |-> b])
  /\ OnlyLog

ReviewPull(p) ==
  /\ p \in DOMAIN db.pulls
  /\ Emit("prs", [type |-> "reviewed", id |-> p])
  /\ OnlyLog

SetPullState(p, open) ==
  /\ p \in DOMAIN db.pulls
  /\ Emit("prs", [type |-> IF open THEN "reopened" ELSE "closed", id |-> p])
  /\ OnlyLog

(***************************************************************************)
(* The merge itself is in GitHosting; here, that it takes an open row.     *)
(***************************************************************************)
MergePull(p) ==
  /\ p \in DOMAIN db.pulls /\ db.pulls[p].state = "open"
  /\ Emit("prs", [type |-> "merged", id |-> p])
  /\ OnlyLog

(***************************************************************************)
(* refresh_mergeability: the commits come from a row read before the trial *)
(* merge, the verdict is appended after it.                                *)
(***************************************************************************)
TryMerge(h, b) == IF <<h, b>> \in Clean THEN "clean" ELSE "conflict"

StartTrial(p) ==
  /\ p \in DOMAIN db.pulls
  /\ trials' = trials \cup {[id |-> p, head |-> db.pulls[p].head, base |-> db.pulls[p].base]}
  /\ UNCHANGED <<topic, log, applied, db, forms, seen, replays>>

RecordMergeability(t) ==
  /\ t \in trials
  /\ Emit("prs", [type |-> "mergeability_computed", id |-> t.id,
                  check |-> [head |-> t.head, base |-> t.base,
                             verdict |-> TryMerge(t.head, t.base)]])
  /\ trials' = trials \ {t}
  /\ UNCHANGED <<topic, applied, db, forms, seen, replays>>

Command ==
  \E id \in IdsOf[topic] :
    \/ Unknown(id)
    \/ \E v \in Values : RegisterUser(id, v) \/ ChangeUser(id, v)
    \/ \E v \in Values : CreateRepo(id, v) \/ ChangeRepo(id, v)
    \/ \E v \in Values : OpenIssue(id, v) \/ ChangeTitle(id, v)
    \/ \E text \in BOOLEAN, action \in {"comment", "close", "reopen"} : PostForm(id, text, action)
    \/ \E h \in Heads, b \in Bases : OpenPull(id, h, b) \/ SynchronizePull(id, h, b)
    \/ ReviewPull(id)
    \/ \E open \in BOOLEAN : SetPullState(id, open)
    \/ MergePull(id)
    \/ StartTrial(id)

Next ==
  \/ Project
  \/ Replay
  \/ Command
  \/ \E form \in forms : SetIssueState(form)
  \/ \E t \in trials : RecordMergeability(t)
  \/ Abandon

Spec == Init /\ [][Next]_vars
-----------------------------------------------------------------------------
(***************************************************************************)
(* Properties                                                              *)
(***************************************************************************)

(***************************************************************************)
(* What the log alone says, read with hindsight: of the events about one   *)
(* id up to n, the last of some kinds, 0 if there is none.                 *)
(***************************************************************************)
Last(n, id, types) == Max({0} \cup {k \in 1..n : log[k].id = id /\ log[k].type \in types})

UserSays(n, u) ==
  LET p == Last(n, u, {"profile_updated"})
      r == Last(n, u, {"registered"})
  IN  [name |-> log[r].value, profile |-> IF p > r THEN log[p].value ELSE None,
       state |-> IF Last(n, u, {"deactivated"}) > r THEN "deactivated" ELSE "active"]

RepoSays(n, r) ==
  LET c == Last(n, r, {"created"})
      Set(f) == {k \in c..n : log[k].id = r /\ log[k].type = "changed" /\ log[k].field = f}
  IN  [name |-> log[Last(n, r, {"created", "renamed"})].value,
       settings |-> [f \in Fields |-> IF Set(f) = {} THEN None ELSE log[Max(Set(f))].value],
       deleted |-> Last(n, r, {"deleted"}) > c]

IssueSays(n, i) ==
  LET o == Last(n, i, {"opened"})
      t == Last(n, i, {"title_changed"})
      s == Last(n, i, {"opened", "closed", "reopened"})
  IN  [title |-> IF t > o THEN log[t].value ELSE log[o].value,
       state |-> IF log[s].type = "closed" THEN "closed" ELSE "open",
       closed_at |-> IF log[s].type = "closed" THEN s ELSE 0,
       comment_count |-> Page({k \in 1..n : log[k].id = i /\ log[k].type = "commented"}, PageMax)]

PullSays(n, p) ==
  LET s == Last(n, p, {"opened", "synchronized"})
      m == Last(n, p, {"merged"})
      c == Last(n, p, {"opened", "closed", "reopened"})
      FirstMerge == Min({n + 1} \cup {k \in 1..n : log[k].id = p /\ log[k].type = "merged"})
      Reopening == Last(FirstMerge - 1, p, {"reopened"})
      Heard == {k \in Reopening + 1..n :
                  /\ log[k].id = p /\ log[k].type = "mergeability_computed"
                  /\ LET at == log[Last(k, p, {"opened", "synchronized"})]
                     IN  at.head = log[k].check.head /\ at.base = log[k].check.base}
  IN  [state |-> IF m > 0 THEN "merged" ELSE IF log[c].type = "closed" THEN "closed" ELSE "open",
       head |-> log[s].head, base |-> log[s].base,
       check |-> IF Heard = {} THEN None ELSE log[Max(Heard)].check,
       merged_at |-> m,
       closed_at |-> IF m > 0 THEN m ELSE IF log[c].type = "closed" THEN c ELSE 0]

Born(types) == {log[k].id : k \in {j \in 1..applied : log[j].type \in types}}
Posted(type) == {j \in 1..applied : log[j].type = type /\ log[j].id \in Born({"opened"})}

(***************************************************************************)
(* When the projector has reached the end of its topic, every row is what  *)
(* the events say, in whatever order trial merges, late forms and state    *)
(* changes were appended, and also after the tables were made again from   *)
(* offset zero, over the old rows or without them ("not a theoretical      *)
(* property, it is the disaster-recovery procedure").  A count of comments *)
(* is right up to a page.  And wherever the projector is, an event that is *)
(* delivered once more leaves the tables as they are.                      *)
(***************************************************************************)
Converges ==
  /\ applied = Len(log) =>
       /\ topic = "users"  => db.users  = [u \in Born({"registered"}) |-> UserSays(applied, u)]
       /\ topic = "repos"  => db.repos  = [r \in Born({"created"}) |-> RepoSays(applied, r)]
       /\ topic = "issues" => /\ db.issues = [i \in Born({"opened"}) |-> IssueSays(applied, i)]
                              /\ DOMAIN db.comments = Posted("commented")
       /\ topic = "prs"    => /\ db.pulls = [p \in Born({"opened"}) |-> PullSays(applied, p)]
                              /\ DOMAIN db.reviews = Posted("reviewed")
  /\ applied > 0 => ApplyDecoded(db, applied) = db

(***************************************************************************)
(* A pull request never shows a verdict that is not what git says of the   *)
(* two commits it shows, however long the trial merge took and wherever    *)
(* the branches went meanwhile, and a merge is offered only on a clean one.*)
(***************************************************************************)
VerdictsAreCurrent ==
  \A p \in DOMAIN db.pulls :
    LET page == PullDetailPage(p)
    IN  /\ page.mergeable => TryMerge(page.head, page.base) = "clean"
        /\ page.conflicted => TryMerge(page.head, page.base) = "conflict"
        /\ CanMerge(db.pulls[p]) => page.label = "open" /\ page.mergeable

(***************************************************************************)
(* The stored counts are those of the rows they describe: a repository's   *)
(* counters in every state, a replay's included, since every commit that   *)
(* changes the state of an issue counts again; and an issue's number of    *)
(* comments, up to a page of them, whenever no replay is going on, however *)
(* often the tables were made again before.  What a page that reads them   *)
(* one after the other may say is in IssuePages.                           *)
(***************************************************************************)
CountersTrue ==
  /\ db.counters =
       LET In(state) == Cardinality({i \in DOMAIN db.issues : db.issues[i].state = state})
       IN  [open |-> In("open"), closed |-> In("closed")]
  /\ applied = seen =>
       \A i \in DOMAIN db.issues :
         db.issues[i].comment_count = Cardinality(Comments(db, i))

(***************************************************************************)
(* A name leads to one account or repository, and every link of a list to  *)
(* the row it was listed for.  A replay over the old rows takes renames    *)
(* back for a while, onto names that others have taken since: it may stop  *)
(* there, but the pages never mix the two up.                              *)
(***************************************************************************)
LinksLead ==
  /\ \A u \in DOMAIN db.users : GetUser(db.users[u].name) = {u}
  /\ \A entry \in ProfilePage : OpenRepo(entry.link) = {entry.repo}

(***************************************************************************)
(* Merged is for good: no event that is new to the tables, a late close or *)
(* reopening included, takes it back.  A replay does, and shows merged     *)
(* pull requests as open until it reaches their merge.                     *)
(***************************************************************************)
MergedForGood ==
  [][\A p \in DOMAIN db.pulls :
       db.pulls[p].state = "merged" /\ seen' > seen => db'.pulls[p].state = "merged"]_vars
=============================================================================
