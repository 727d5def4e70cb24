-------------------------- MODULE ReadModelsProofs --------------------------
(***************************************************************************)
(* Proofs about the read models, for any ids, values and commits, any size *)
(* of pages, any length of the topics and any number of replays.           *)
(***************************************************************************)
EXTENDS IssuePages, FiniteSetTheorems, TLAPS

-----------------------------------------------------------------------------
(***************************************************************************)
(* The inductive invariant                                                 *)
(***************************************************************************)
Births == {"registered", "created", "opened"}

\* The event that makes a row is the first to mention its id.
FirstMention ==
  \A j, k \in DOMAIN log :
    log[k].type \in Births /\ log[j].id = log[k].id => k <= j

\* Every row of an account, an issue or a pull request was made by an event the
\* projector has seen; and no two accounts were registered under one name.
RowsAreBorn ==
  /\ \A u \in DOMAIN db.users : \E k \in 1..seen :
       log[k].type = "registered" /\ log[k].id = u /\ log[k].value = db.users[u].name
  /\ \A j, k \in DOMAIN log :
       /\ log[j].type = "registered" /\ log[k].type = "registered"
       /\ log[j].value = log[k].value
       => j = k
  /\ \A i \in DOMAIN db.issues : \E k \in 1..seen : log[k].type = "opened" /\ log[k].id = i
  /\ \A p \in DOMAIN db.pulls : \E k \in 1..seen : log[k].type = "opened" /\ log[k].id = p

\* Verdicts say what git says, in the log and in the table.
Truthful(check) == check.verdict = TryMerge(check.head, check.base)

ChecksTruthful ==
  /\ \A k \in DOMAIN log : log[k].type = "mergeability_computed" => Truthful(log[k].check)
  /\ \A p \in DOMAIN db.pulls : db.pulls[p].check # None => Truthful(db.pulls[p].check)

\* The counters count the rows, of which there are finitely many.
In(state) == {i \in DOMAIN db.issues : db.issues[i].state = state}

Counted ==
  /\ IsFiniteSet(DOMAIN db.issues)
  /\ db.counters = [open |-> Cardinality(In("open")), closed |-> Cardinality(In("closed"))]

\* Comments are events the projector has seen; and where an issue's count is not
\* that of its comments, a comment will be applied again that corrects it.
Recounted(i) == db.issues[i].comment_count = Cardinality(Comments(db, i))

CommentsCounted ==
  /\ \A c \in DOMAIN db.comments :
       c <= seen /\ log[c].type = "commented" /\ log[c].id = db.comments[c]
  /\ \A i \in DOMAIN db.issues :
       Recounted(i) \/ \E k \in applied + 1..seen : log[k].type = "commented" /\ log[k].id = i

IInv ==
  /\ TypeOK /\ FirstMention /\ RowsAreBorn /\ ChecksTruthful /\ Counted /\ CommentsCounted
  /\ NamesAreUnique(db)

-----------------------------------------------------------------------------
(***************************************************************************)
(* Tables                                                                  *)
(***************************************************************************)

\* A table after an event about one of its rows: the row's new value, if there
\* is one, and the others as they were.
Inserted(t, t2, id, row) ==
  DOMAIN t2 = DOMAIN t \cup {id} /\ t2[id] = row /\ \A x \in DOMAIN t \ {id} : t2[x] = t[x]
Changed(t, t2, id, row) ==
  DOMAIN t2 = DOMAIN t /\ (id \in DOMAIN t => t2[id] = row) /\ \A x \in DOMAIN t \ {id} : t2[x] = t[x]

\* A row is inserted or replaced.
LEMMA UpsertTable ==
  ASSUME NEW t, NEW keys, NEW rows, IsTable(t, keys, rows), NEW id \in keys, NEW row \in rows,
         NEW t2, t2 = Upsert(t, id, row)
  PROVE  IsTable(t2, keys, rows) /\ Inserted(t, t2, id, row)
BY DEF IsTable, Upsert, Inserted

\* A row is changed, if there is one.
LEMMA ExceptTable ==
  ASSUME NEW t, NEW keys, NEW rows, IsTable(t, keys, rows), NEW id, NEW row,
         id \in DOMAIN t => row \in rows,
         NEW t2, t2 = IF id \in DOMAIN t THEN [t EXCEPT ![id] = row] ELSE t
  PROVE  IsTable(t2, keys, rows) /\ Changed(t, t2, id, row)
BY DEF IsTable, Changed

\* One table is written and the others are not.
LEMMA WriteUsers ==
  ASSUME NEW d, NEW n \in Nat, DbOK(d, n), NEW t, IsTable(t, Ids, Users),
         NEW d2, d2 = [d EXCEPT !.users = t]
  PROVE  DbOK(d2, n) /\ d2.users = t /\ \A x \in DOMAIN d \ {"users"} : d2[x] = d[x]
BY DEF DbOK, Empty

LEMMA WriteRepos ==
  ASSUME NEW d, NEW n \in Nat, DbOK(d, n), NEW t, IsTable(t, Ids, Repos),
         NEW d2, d2 = [d EXCEPT !.repos = t]
  PROVE  DbOK(d2, n) /\ d2.repos = t /\ \A x \in DOMAIN d \ {"repos"} : d2[x] = d[x]
BY DEF DbOK, Empty

LEMMA WriteIssues ==
  ASSUME NEW d, NEW n \in Nat, DbOK(d, n), NEW t, IsTable(t, Ids, Issues),
         NEW d2, d2 = [d EXCEPT !.issues = t]
  PROVE  DbOK(d2, n) /\ d2.issues = t /\ \A x \in DOMAIN d \ {"issues"} : d2[x] = d[x]
BY DEF DbOK, Empty

LEMMA WritePulls ==
  ASSUME NEW d, NEW n \in Nat, DbOK(d, n), NEW t, IsTable(t, Ids, Pulls),
         NEW d2, d2 = [d EXCEPT !.pulls = t]
  PROVE  DbOK(d2, n) /\ d2.pulls = t /\ \A x \in DOMAIN d \ {"pulls"} : d2[x] = d[x]
BY DEF DbOK, Empty

LEMMA WriteComments ==
  ASSUME NEW d, NEW n \in Nat, DbOK(d, n), NEW t, IsTable(t, 1..n, Ids),
         NEW d2, d2 = [d EXCEPT !.comments = t]
  PROVE  DbOK(d2, n) /\ d2.comments = t /\ \A x \in DOMAIN d \ {"comments"} : d2[x] = d[x]
BY DEF DbOK, Empty

LEMMA WriteReviews ==
  ASSUME NEW d, NEW n \in Nat, DbOK(d, n), NEW t, IsTable(t, 1..n, Ids),
         NEW d2, d2 = [d EXCEPT !.reviews = t]
  PROVE  DbOK(d2, n) /\ d2.reviews = t /\ \A x \in DOMAIN d \ {"reviews"} : d2[x] = d[x]
BY DEF DbOK, Empty

-----------------------------------------------------------------------------
(***************************************************************************)
(* What each event does to the rows                                        *)
(***************************************************************************)

\* Changed rows are rows.
LEMMA UserRowTypes ==
  /\ \A v \in Values : NewUser(v) \in Users /\ NewUser(v).name = v
  /\ \A row \in Users, v \in Values :
       /\ [row EXCEPT !.profile = v] \in Users
       /\ [row EXCEPT !.profile = v].name = row.name
  /\ \A row \in Users :
       /\ [row EXCEPT !.state = "deactivated"] \in Users
       /\ [row EXCEPT !.state = "deactivated"].name = row.name
BY DEF Users, NewUser

LEMMA RepoRowTypes ==
  /\ \A v \in Values : NewRepo(v) \in Repos
  /\ \A row \in Repos, v \in Values : [row EXCEPT !.name = v] \in Repos
  /\ \A row \in Repos, f \in Fields, v \in Values : [row EXCEPT !.settings[f] = v] \in Repos
  /\ \A row \in Repos : [row EXCEPT !.deleted = TRUE] \in Repos
<1>1. \A v \in Values : NewRepo(v) \in Repos
  BY DEF Repos, NewRepo
<1>2. \A row \in Repos, v \in Values : [row EXCEPT !.name = v] \in Repos
  BY DEF Repos
<1>3. ASSUME NEW row \in Repos, NEW f \in Fields, NEW v \in Values
      PROVE  [row EXCEPT !.settings[f] = v] \in Repos
  <2>1. [row.settings EXCEPT ![f] = v] \in [Fields -> Values \cup {None}]
    BY DEF Repos
  <2> DEFINE s == [row.settings EXCEPT ![f] = v]
  <2>2. [row EXCEPT !.settings[f] = v] = [row EXCEPT !.settings = s]
    OBVIOUS
  <2>3. s \in [Fields -> Values \cup {None}]
    BY <2>1
  <2> HIDE DEF s
  <2>4. [row EXCEPT !.settings = s] \in Repos
    BY <2>3 DEF Repos
  <2> QED BY <2>2, <2>4
<1>4. \A row \in Repos : [row EXCEPT !.deleted = TRUE] \in Repos
  BY DEF Repos
<1> QED BY <1>1, <1>2, <1>3, <1>4

IssueRow(v) == [title |-> v, state |-> "open", closed_at |-> 0, comment_count |-> 0]

ClosedIssue(row, n) == [row EXCEPT !.state = "closed", !.closed_at = n]
ReopenedIssue(row) == [row EXCEPT !.state = "open", !.closed_at = 0]

LEMMA IssueRowTypes ==
  /\ \A v \in Values : IssueRow(v) \in Issues
  /\ \A row \in Issues, v \in Values :
       /\ [row EXCEPT !.title = v] \in Issues
       /\ [row EXCEPT !.title = v].state = row.state
       /\ [row EXCEPT !.title = v].comment_count = row.comment_count
  /\ \A row \in Issues, n \in Nat :
       /\ [row EXCEPT !.comment_count = n] \in Issues
       /\ [row EXCEPT !.comment_count = n].state = row.state
       /\ [row EXCEPT !.comment_count = n].comment_count = n
  /\ \A row \in Issues, n \in Nat :
       /\ ClosedIssue(row, n) \in Issues
       /\ ClosedIssue(row, n).comment_count = row.comment_count
  /\ \A row \in Issues :
       /\ ReopenedIssue(row) \in Issues
       /\ ReopenedIssue(row).comment_count = row.comment_count
BY DEF Issues, IssueRow, ClosedIssue, ReopenedIssue

PullRow(h, b) == [state |-> "open", head |-> h, base |-> b,
                  check |-> None, merged_at |-> 0, closed_at |-> 0]
ClosePull(row, n) ==
  IF row.state # "merged" THEN [row EXCEPT !.state = "closed", !.closed_at = n] ELSE row
SyncedPull(row, h, b) == [row EXCEPT !.head = h, !.base = b]
MergedPull(row, n) == [row EXCEPT !.state = "merged", !.merged_at = n, !.closed_at = n]

LEMMA PullRowTypes ==
  /\ \A h \in Heads, b \in Bases : PullRow(h, b) \in Pulls
  /\ \A row \in Pulls, h \in Heads, b \in Bases :
       /\ SyncedPull(row, h, b) \in Pulls
       /\ SyncedPull(row, h, b).check = row.check
       /\ SyncedPull(row, h, b).state = row.state
  /\ \A row \in Pulls, check \in Checks :
       /\ [row EXCEPT !.check = check] \in Pulls
       /\ [row EXCEPT !.check = check].check = check
       /\ [row EXCEPT !.check = check].state = row.state
  /\ \A row \in Pulls, n \in Nat :
       /\ MergedPull(row, n) \in Pulls /\ MergedPull(row, n).check = row.check
       /\ MergedPull(row, n).state = "merged"
  /\ \A row \in Pulls, n \in Nat :
       /\ ClosePull(row, n) \in Pulls /\ ClosePull(row, n).check = row.check
       /\ row.state = "merged" => ClosePull(row, n).state = "merged"
  /\ \A row \in Pulls :
       /\ ReopenPull(row) \in Pulls /\ ReopenPull(row).check \in {None, row.check}
       /\ row.state = "merged" => ReopenPull(row).state = "merged"
<1> USE DEF Pulls
<1>1. \A h \in Heads, b \in Bases : PullRow(h, b) \in Pulls
  BY DEF PullRow
<1>2. \A row \in Pulls, h \in Heads, b \in Bases :
       /\ SyncedPull(row, h, b) \in Pulls
       /\ SyncedPull(row, h, b).check = row.check
       /\ SyncedPull(row, h, b).state = row.state
  BY DEF SyncedPull
<1>3. \A row \in Pulls, check \in Checks :
       /\ [row EXCEPT !.check = check] \in Pulls
       /\ [row EXCEPT !.check = check].check = check
       /\ [row EXCEPT !.check = check].state = row.state
  OBVIOUS
<1>4. \A row \in Pulls, n \in Nat :
       /\ MergedPull(row, n) \in Pulls /\ MergedPull(row, n).check = row.check
       /\ MergedPull(row, n).state = "merged"
  BY DEF MergedPull
<1>5. \A row \in Pulls, n \in Nat :
       /\ ClosePull(row, n) \in Pulls /\ ClosePull(row, n).check = row.check
       /\ row.state = "merged" => ClosePull(row, n).state = "merged"
  BY DEF ClosePull
<1>6. \A row \in Pulls :
       /\ ReopenPull(row) \in Pulls /\ ReopenPull(row).check \in {None, row.check}
       /\ row.state = "merged" => ReopenPull(row).state = "merged"
  BY DEF ReopenPull
<1> QED BY <1>1, <1>2, <1>3, <1>4, <1>5, <1>6

\* Accounts.
LEMMA UserEffect ==
  ASSUME NEW d, NEW n \in Nat, DbOK(d, n), NEW e, e.id \in Ids
  PROVE  LET d2 == ApplyUserEvent(d, e)
         IN  /\ e.type = "registered" /\ e.value \in Values =>
                  /\ DbOK(d2, n) /\ \A x \in DOMAIN d \ {"users"} : d2[x] = d[x]
                  /\ Inserted(d.users, d2.users, e.id, NewUser(e.value))
             /\ e.type = "profile_updated" /\ e.value \in Values =>
                  /\ DbOK(d2, n) /\ \A x \in DOMAIN d \ {"users"} : d2[x] = d[x]
                  /\ Changed(d.users, d2.users, e.id, [d.users[e.id] EXCEPT !.profile = e.value])
             /\ e.type = "deactivated" =>
                  /\ DbOK(d2, n) /\ \A x \in DOMAIN d \ {"users"} : d2[x] = d[x]
                  /\ Changed(d.users, d2.users, e.id, [d.users[e.id] EXCEPT !.state = "deactivated"])
<1>0. IsTable(d.users, Ids, Users) /\ \A x \in DOMAIN d.users : d.users[x] \in Users
  BY DEF DbOK, IsTable
<1>1. CASE e.type = "registered" /\ e.value \in Values
  <2> DEFINE row == NewUser(e.value)
             t == Upsert(d.users, e.id, row)
  <2>1. ApplyUserEvent(d, e) = [d EXCEPT !.users = t]
    BY <1>1 DEF ApplyUserEvent
  <2>2. row \in Users
    BY <1>1, UserRowTypes
  <2>3. IsTable(t, Ids, Users) /\ Inserted(d.users, t, e.id, row)
    <3> HIDE DEF row
    <3> QED BY <1>0, <2>2, UpsertTable
  <2> HIDE DEF t, row
  <2>4. DbOK(ApplyUserEvent(d, e), n) /\ ApplyUserEvent(d, e).users = t
        /\ \A x \in DOMAIN d \ {"users"} : ApplyUserEvent(d, e)[x] = d[x]
    BY <2>1, <2>3, WriteUsers
  <2> QED BY <1>1, <2>3, <2>4 DEF row
<1>2. CASE e.type = "profile_updated" /\ e.value \in Values
  <2> DEFINE row == [d.users[e.id] EXCEPT !.profile = e.value]
             t == IF e.id \in DOMAIN d.users THEN [d.users EXCEPT ![e.id] = row] ELSE d.users
  <2>1. ApplyUserEvent(d, e) = [d EXCEPT !.users = t]
    BY <1>2 DEF ApplyUserEvent, Update
  <2>2. e.id \in DOMAIN d.users => row \in Users
    BY <1>0, <1>2, UserRowTypes
  <2>3. IsTable(t, Ids, Users) /\ Changed(d.users, t, e.id, row)
    <3> HIDE DEF row
    <3> QED BY <1>0, <2>2, ExceptTable
  <2> HIDE DEF t, row
  <2>4. DbOK(ApplyUserEvent(d, e), n) /\ ApplyUserEvent(d, e).users = t
        /\ \A x \in DOMAIN d \ {"users"} : ApplyUserEvent(d, e)[x] = d[x]
    BY <2>1, <2>3, WriteUsers
  <2> QED BY <1>2, <2>3, <2>4 DEF row
<1>3. CASE e.type = "deactivated"
  <2> DEFINE row == [d.users[e.id] EXCEPT !.state = "deactivated"]
             t == IF e.id \in DOMAIN d.users THEN [d.users EXCEPT ![e.id] = row] ELSE d.users
  <2>1. ApplyUserEvent(d, e) = [d EXCEPT !.users = t]
    BY <1>3 DEF ApplyUserEvent, Update
  <2>2. e.id \in DOMAIN d.users => row \in Users
    BY <1>0, <1>3, UserRowTypes
  <2>3. IsTable(t, Ids, Users) /\ Changed(d.users, t, e.id, row)
    <3> HIDE DEF row
    <3> QED BY <1>0, <2>2, ExceptTable
  <2> HIDE DEF t, row
  <2>4. DbOK(ApplyUserEvent(d, e), n) /\ ApplyUserEvent(d, e).users = t
        /\ \A x \in DOMAIN d \ {"users"} : ApplyUserEvent(d, e)[x] = d[x]
    BY <2>1, <2>3, WriteUsers
  <2> QED BY <1>3, <2>3, <2>4 DEF row
<1> QED BY <1>1, <1>2, <1>3

\* Repositories.
LEMMA RepoEffect ==
  ASSUME NEW d, NEW n \in Nat, DbOK(d, n), NEW e, e.id \in Ids
  PROVE  LET d2 == ApplyRepoEvent(d, e)
         IN  /\ e.type = "created" /\ e.value \in Values =>
                  /\ DbOK(d2, n) /\ \A x \in DOMAIN d \ {"repos"} : d2[x] = d[x]
                  /\ Inserted(d.repos, d2.repos, e.id, NewRepo(e.value))
             /\ e.type = "renamed" /\ e.value \in Values =>
                  /\ DbOK(d2, n) /\ \A x \in DOMAIN d \ {"repos"} : d2[x] = d[x]
                  /\ Changed(d.repos, d2.repos, e.id, [d.repos[e.id] EXCEPT !.name = e.value])
             /\ e.type = "changed" /\ e.value \in Values /\ e.field \in Fields =>
                  /\ DbOK(d2, n) /\ \A x \in DOMAIN d \ {"repos"} : d2[x] = d[x]
                  /\ Changed(d.repos, d2.repos, e.id, [d.repos[e.id] EXCEPT !.settings[e.field] = e.value])
             /\ e.type = "deleted" =>
                  /\ DbOK(d2, n) /\ \A x \in DOMAIN d \ {"repos"} : d2[x] = d[x]
                  /\ Changed(d.repos, d2.repos, e.id, [d.repos[e.id] EXCEPT !.deleted = TRUE])
<1>0. IsTable(d.repos, Ids, Repos) /\ \A x \in DOMAIN d.repos : d.repos[x] \in Repos
  BY DEF DbOK, IsTable
<1>1. CASE e.type = "created" /\ e.value \in Values
  <2> DEFINE row == NewRepo(e.value)
             t == Upsert(d.repos, e.id, row)
  <2>1. ApplyRepoEvent(d, e) = [d EXCEPT !.repos = t]
    BY <1>1 DEF ApplyRepoEvent
  <2>2. row \in Repos
    BY <1>1, RepoRowTypes
  <2>3. IsTable(t, Ids, Repos) /\ Inserted(d.repos, t, e.id, row)
    <3> HIDE DEF row
    <3> QED BY <1>0, <2>2, UpsertTable
  <2> HIDE DEF t, row
  <2>4. DbOK(ApplyRepoEvent(d, e), n) /\ ApplyRepoEvent(d, e).repos = t
        /\ \A x \in DOMAIN d \ {"repos"} : ApplyRepoEvent(d, e)[x] = d[x]
    BY <2>1, <2>3, WriteRepos
  <2> QED BY <1>1, <2>3, <2>4 DEF row
<1>2. CASE e.type = "renamed" /\ e.value \in Values
  <2> DEFINE row == [d.repos[e.id] EXCEPT !.name = e.value]
             t == IF e.id \in DOMAIN d.repos THEN [d.repos EXCEPT ![e.id] = row] ELSE d.repos
  <2>1. ApplyRepoEvent(d, e) = [d EXCEPT !.repos = t]
    BY <1>2 DEF ApplyRepoEvent, Update
  <2>2. e.id \in DOMAIN d.repos => row \in Repos
    BY <1>0, <1>2, RepoRowTypes
  <2>3. IsTable(t, Ids, Repos) /\ Changed(d.repos, t, e.id, row)
    <3> HIDE DEF row
    <3> QED BY <1>0, <2>2, ExceptTable
  <2> HIDE DEF t, row
  <2>4. DbOK(ApplyRepoEvent(d, e), n) /\ ApplyRepoEvent(d, e).repos = t
        /\ \A x \in DOMAIN d \ {"repos"} : ApplyRepoEvent(d, e)[x] = d[x]
    BY <2>1, <2>3, WriteRepos
  <2> QED BY <1>2, <2>3, <2>4 DEF row
<1>3. CASE e.type = "changed" /\ e.value \in Values /\ e.field \in Fields
  <2> DEFINE row == [d.repos[e.id] EXCEPT !.settings[e.field] = e.value]
             t == IF e.id \in DOMAIN d.repos THEN [d.repos EXCEPT ![e.id] = row] ELSE d.repos
  <2>1. ApplyRepoEvent(d, e) = [d EXCEPT !.repos = t]
    BY <1>3 DEF ApplyRepoEvent, Update
  <2>2. e.id \in DOMAIN d.repos => row \in Repos
    BY <1>0, <1>3, RepoRowTypes
  <2>3. IsTable(t, Ids, Repos) /\ Changed(d.repos, t, e.id, row)
    <3> HIDE DEF row
    <3> QED BY <1>0, <2>2, ExceptTable
  <2> HIDE DEF t, row
  <2>4. DbOK(ApplyRepoEvent(d, e), n) /\ ApplyRepoEvent(d, e).repos = t
        /\ \A x \in DOMAIN d \ {"repos"} : ApplyRepoEvent(d, e)[x] = d[x]
    BY <2>1, <2>3, WriteRepos
  <2> QED BY <1>3, <2>3, <2>4 DEF row
<1>4. CASE e.type = "deleted"
  <2> DEFINE row == [d.repos[e.id] EXCEPT !.deleted = TRUE]
             t == IF e.id \in DOMAIN d.repos THEN [d.repos EXCEPT ![e.id] = row] ELSE d.repos
  <2>1. ApplyRepoEvent(d, e) = [d EXCEPT !.repos = t]
    BY <1>4 DEF ApplyRepoEvent, Update
  <2>2. e.id \in DOMAIN d.repos => row \in Repos
    BY <1>0, <1>4, RepoRowTypes
  <2>3. IsTable(t, Ids, Repos) /\ Changed(d.repos, t, e.id, row)
    <3> HIDE DEF row
    <3> QED BY <1>0, <2>2, ExceptTable
  <2> HIDE DEF t, row
  <2>4. DbOK(ApplyRepoEvent(d, e), n) /\ ApplyRepoEvent(d, e).repos = t
        /\ \A x \in DOMAIN d \ {"repos"} : ApplyRepoEvent(d, e)[x] = d[x]
    BY <2>1, <2>3, WriteRepos
  <2> QED BY <1>4, <2>3, <2>4 DEF row
<1> QED BY <1>1, <1>2, <1>3, <1>4

\* Pull requests.
LEMMA PullRowEffect ==
  ASSUME NEW d, NEW n \in Nat, DbOK(d, n), NEW e, e.id \in Ids, NEW at \in Nat
  PROVE  LET d2 == ApplyPrEvent(d, e, at)
         IN  /\ e.type = "opened" /\ e.head \in Heads /\ e.base \in Bases =>
                  /\ DbOK(d2, n) /\ \A x \in DOMAIN d \ {"pulls"} : d2[x] = d[x]
                  /\ Inserted(d.pulls, d2.pulls, e.id, PullRow(e.head, e.base))
             /\ e.type = "synchronized" /\ e.head \in Heads /\ e.base \in Bases =>
                  /\ DbOK(d2, n) /\ \A x \in DOMAIN d \ {"pulls"} : d2[x] = d[x]
                  /\ Changed(d.pulls, d2.pulls, e.id, SyncedPull(d.pulls[e.id], e.head, e.base))
             /\ e.type = "merged" =>
                  /\ DbOK(d2, n) /\ \A x \in DOMAIN d \ {"pulls"} : d2[x] = d[x]
                  /\ Changed(d.pulls, d2.pulls, e.id, MergedPull(d.pulls[e.id], at))
             /\ e.type = "closed" =>
                  /\ DbOK(d2, n) /\ \A x \in DOMAIN d \ {"pulls"} : d2[x] = d[x]
                  /\ Changed(d.pulls, d2.pulls, e.id, ClosePull(d.pulls[e.id], at))
             /\ e.type = "reopened" =>
                  /\ DbOK(d2, n) /\ \A x \in DOMAIN d \ {"pulls"} : d2[x] = d[x]
                  /\ Changed(d.pulls, d2.pulls, e.id, ReopenPull(d.pulls[e.id]))
<1>0. IsTable(d.pulls, Ids, Pulls) /\ \A x \in DOMAIN d.pulls : d.pulls[x] \in Pulls
  BY DEF DbOK, IsTable
<1>1. CASE e.type = "opened" /\ e.head \in Heads /\ e.base \in Bases
  <2> DEFINE row == PullRow(e.head, e.base)
             t == Upsert(d.pulls, e.id, row)
  <2>1. ApplyPrEvent(d, e, at) = [d EXCEPT !.pulls = t]
    BY <1>1 DEF ApplyPrEvent, PullRow, SyncedPull, MergedPull, ClosePull
  <2>2. row \in Pulls
    BY <1>1, PullRowTypes
  <2>3. IsTable(t, Ids, Pulls) /\ Inserted(d.pulls, t, e.id, row)
    <3> HIDE DEF row
    <3> QED BY <1>0, <2>2, UpsertTable
  <2> HIDE DEF t, row
  <2>4. DbOK(ApplyPrEvent(d, e, at), n) /\ ApplyPrEvent(d, e, at).pulls = t
        /\ \A x \in DOMAIN d \ {"pulls"} : ApplyPrEvent(d, e, at)[x] = d[x]
    BY <2>1, <2>3, WritePulls
  <2> QED BY <1>1, <2>3, <2>4 DEF row
<1>2. CASE e.type = "synchronized" /\ e.head \in Heads /\ e.base \in Bases
  <2> DEFINE row == SyncedPull(d.pulls[e.id], e.head, e.base)
             t == IF e.id \in DOMAIN d.pulls THEN [d.pulls EXCEPT ![e.id] = row] ELSE d.pulls
  <2>1. ApplyPrEvent(d, e, at) = [d EXCEPT !.pulls = t]
    BY <1>2 DEF ApplyPrEvent, Update, PullRow, SyncedPull, MergedPull, ClosePull
  <2>2. e.id \in DOMAIN d.pulls => row \in Pulls
    BY <1>0, <1>2, PullRowTypes
  <2>3. IsTable(t, Ids, Pulls) /\ Changed(d.pulls, t, e.id, row)
    <3> HIDE DEF row
    <3> QED BY <1>0, <2>2, ExceptTable
  <2> HIDE DEF t, row
  <2>4. DbOK(ApplyPrEvent(d, e, at), n) /\ ApplyPrEvent(d, e, at).pulls = t
        /\ \A x \in DOMAIN d \ {"pulls"} : ApplyPrEvent(d, e, at)[x] = d[x]
    BY <2>1, <2>3, WritePulls
  <2> QED BY <1>2, <2>3, <2>4 DEF row
<1>3. CASE e.type = "merged"
  <2> DEFINE row == MergedPull(d.pulls[e.id], at)
             t == IF e.id \in DOMAIN d.pulls THEN [d.pulls EXCEPT ![e.id] = row] ELSE d.pulls
  <2>1. ApplyPrEvent(d, e, at) = [d EXCEPT !.pulls = t]
    BY <1>3 DEF ApplyPrEvent, Update, PullRow, SyncedPull, MergedPull, ClosePull
  <2>2. e.id \in DOMAIN d.pulls => row \in Pulls
    BY <1>0, <1>3, PullRowTypes
  <2>3. IsTable(t, Ids, Pulls) /\ Changed(d.pulls, t, e.id, row)
    <3> HIDE DEF row
    <3> QED BY <1>0, <2>2, ExceptTable
  <2> HIDE DEF t, row
  <2>4. DbOK(ApplyPrEvent(d, e, at), n) /\ ApplyPrEvent(d, e, at).pulls = t
        /\ \A x \in DOMAIN d \ {"pulls"} : ApplyPrEvent(d, e, at)[x] = d[x]
    BY <2>1, <2>3, WritePulls
  <2> QED BY <1>3, <2>3, <2>4 DEF row
<1>4. CASE e.type = "closed"
  <2> DEFINE row == ClosePull(d.pulls[e.id], at)
             t == IF e.id \in DOMAIN d.pulls THEN [d.pulls EXCEPT ![e.id] = row] ELSE d.pulls
  <2>1. ApplyPrEvent(d, e, at) = [d EXCEPT !.pulls = t]
    BY <1>4 DEF ApplyPrEvent, Update, PullRow, SyncedPull, MergedPull, ClosePull
  <2>2. e.id \in DOMAIN d.pulls => row \in Pulls
    BY <1>0, <1>4, PullRowTypes
  <2>3. IsTable(t, Ids, Pulls) /\ Changed(d.pulls, t, e.id, row)
    <3> HIDE DEF row
    <3> QED BY <1>0, <2>2, ExceptTable
  <2> HIDE DEF t, row
  <2>4. DbOK(ApplyPrEvent(d, e, at), n) /\ ApplyPrEvent(d, e, at).pulls = t
        /\ \A x \in DOMAIN d \ {"pulls"} : ApplyPrEvent(d, e, at)[x] = d[x]
    BY <2>1, <2>3, WritePulls
  <2> QED BY <1>4, <2>3, <2>4 DEF row
<1>5. CASE e.type = "reopened"
  <2> DEFINE row == ReopenPull(d.pulls[e.id])
             t == IF e.id \in DOMAIN d.pulls THEN [d.pulls EXCEPT ![e.id] = row] ELSE d.pulls
  <2>1. ApplyPrEvent(d, e, at) = [d EXCEPT !.pulls = t]
    BY <1>5 DEF ApplyPrEvent, Update, PullRow, SyncedPull, MergedPull, ClosePull
  <2>2. e.id \in DOMAIN d.pulls => row \in Pulls
    BY <1>0, <1>5, PullRowTypes
  <2>3. IsTable(t, Ids, Pulls) /\ Changed(d.pulls, t, e.id, row)
    <3> HIDE DEF row
    <3> QED BY <1>0, <2>2, ExceptTable
  <2> HIDE DEF t, row
  <2>4. DbOK(ApplyPrEvent(d, e, at), n) /\ ApplyPrEvent(d, e, at).pulls = t
        /\ \A x \in DOMAIN d \ {"pulls"} : ApplyPrEvent(d, e, at)[x] = d[x]
    BY <2>1, <2>3, WritePulls
  <2> QED BY <1>5, <2>3, <2>4 DEF row
<1> QED BY <1>1, <1>2, <1>3, <1>4, <1>5

Checked(row, check) ==
  IF row.head = check.head /\ row.base = check.base THEN [row EXCEPT !.check = check] ELSE row

LEMMA PullCheckEffect ==
  ASSUME NEW d, NEW n \in Nat, DbOK(d, n), NEW e, e.id \in Ids, NEW at \in Nat,
         e.type = "mergeability_computed", e.check \in Checks
  PROVE  LET d2 == ApplyPrEvent(d, e, at)
         IN  /\ DbOK(d2, n) /\ \A x \in DOMAIN d \ {"pulls"} : d2[x] = d[x]
             /\ Changed(d.pulls, d2.pulls, e.id, Checked(d.pulls[e.id], e.check))
<1> DEFINE row == Checked(d.pulls[e.id], e.check)
           t == IF e.id \in DOMAIN d.pulls THEN [d.pulls EXCEPT ![e.id] = row] ELSE d.pulls
<1>0. IsTable(d.pulls, Ids, Pulls) /\ \A x \in DOMAIN d.pulls : d.pulls[x] \in Pulls
  BY DEF DbOK, IsTable
<1>1. t = RecordCheck(d.pulls, e.id, e.check)
  <2>1. CASE e.id \in DOMAIN d.pulls /\ d.pulls[e.id].head = e.check.head
             /\ d.pulls[e.id].base = e.check.base
    <3>1. row = [d.pulls[e.id] EXCEPT !.check = e.check]
      BY <2>1 DEF Checked
    <3>2. RecordCheck(d.pulls, e.id, e.check) = [d.pulls EXCEPT ![e.id].check = e.check]
      BY <2>1 DEF RecordCheck
    <3>3. [d.pulls EXCEPT ![e.id].check = e.check]
            = [d.pulls EXCEPT ![e.id] = [d.pulls[e.id] EXCEPT !.check = e.check]]
      OBVIOUS
    <3> QED BY <2>1, <3>1, <3>2, <3>3
  <2>2. CASE e.id \in DOMAIN d.pulls /\ ~(d.pulls[e.id].head = e.check.head
             /\ d.pulls[e.id].base = e.check.base)
    <3>1. row = d.pulls[e.id]
      BY <2>2 DEF Checked
    <3>2. [d.pulls EXCEPT ![e.id] = d.pulls[e.id]] = d.pulls
      BY <1>0 DEF IsTable
    <3> QED BY <2>2, <3>1, <3>2 DEF RecordCheck
  <2>3. CASE e.id \notin DOMAIN d.pulls
    BY <2>3 DEF RecordCheck
  <2> QED BY <2>1, <2>2, <2>3
<1>2. ApplyPrEvent(d, e, at) = [d EXCEPT !.pulls = t]
  BY <1>1 DEF ApplyPrEvent
<1>3. e.id \in DOMAIN d.pulls => row \in Pulls
  BY <1>0, PullRowTypes DEF Checked
<1>4. IsTable(t, Ids, Pulls) /\ Changed(d.pulls, t, e.id, row)
  <2> HIDE DEF row
  <2> QED BY <1>0, <1>3, ExceptTable
<1> HIDE DEF t, row
<1>5. DbOK(ApplyPrEvent(d, e, at), n) /\ ApplyPrEvent(d, e, at).pulls = t
      /\ \A x \in DOMAIN d \ {"pulls"} : ApplyPrEvent(d, e, at)[x] = d[x]
  BY <1>2, <1>4, WritePulls
<1> QED BY <1>4, <1>5 DEF row

\* A comment or a review under its position in the log.
LEMMA InsertOnceTable ==
  ASSUME NEW t, NEW n \in Nat, IsTable(t, 1..n, Ids), NEW at \in 1..n, NEW id \in Ids
  PROVE  LET t2 == InsertOnce(t, at, id)
         IN  /\ IsTable(t2, 1..n, Ids) /\ DOMAIN t2 = DOMAIN t \cup {at}
             /\ \A x \in DOMAIN t : t2[x] = t[x]
             /\ at \notin DOMAIN t => t2[at] = id
<1>1. CASE at \in DOMAIN t
  BY <1>1 DEF InsertOnce
<1>2. CASE at \notin DOMAIN t
  <2>1. InsertOnce(t, at, id) = Upsert(t, at, id)
    BY <1>2 DEF InsertOnce
  <2>2. IsTable(InsertOnce(t, at, id), 1..n, Ids) /\ Inserted(t, InsertOnce(t, at, id), at, id)
    BY <2>1, UpsertTable
  <2> QED BY <1>2, <2>2 DEF Inserted
<1> QED BY <1>1, <1>2

LEMMA ReviewEffect ==
  ASSUME NEW d, NEW n \in Nat, DbOK(d, n), NEW e, e.id \in Ids, NEW at \in 1..n,
         e.type = "reviewed"
  PROVE  LET d2 == ApplyPrEvent(d, e, at)
         IN  /\ DbOK(d2, n) /\ \A x \in DOMAIN d \ {"reviews"} : d2[x] = d[x]
             /\ d2.reviews = InsertOnce(d.reviews, at, e.id)
<1>1. ApplyPrEvent(d, e, at) = [d EXCEPT !.reviews = InsertOnce(d.reviews, at, e.id)]
  BY DEF ApplyPrEvent
<1>2. IsTable(InsertOnce(d.reviews, at, e.id), 1..n, Ids)
  BY InsertOnceTable DEF DbOK
<1> QED BY <1>1, <1>2, WriteReviews

\* Counting again.
Counts(d) ==
  [open |-> Cardinality({i \in DOMAIN d.issues : d.issues[i].state = "open"}),
   closed |-> Cardinality({i \in DOMAIN d.issues : d.issues[i].state = "closed"})]

LEMMA CountsTypes ==
  ASSUME NEW d, IsFiniteSet(DOMAIN d.issues)
  PROVE  Counts(d) \in [open : Nat, closed : Nat]
<1>1. ASSUME NEW s PROVE Cardinality({i \in DOMAIN d.issues : d.issues[i].state = s}) \in Nat
  BY FS_Subset, FS_CardinalityType, {i \in DOMAIN d.issues : d.issues[i].state = s} \subseteq DOMAIN d.issues
<1> QED BY <1>1 DEF Counts

LEMMA RefreshEffect ==
  ASSUME NEW d, NEW n \in Nat, DbOK(d, n), IsFiniteSet(DOMAIN d.issues)
  PROVE  LET d2 == RefreshCounters(d)
         IN  /\ DbOK(d2, n) /\ \A x \in DOMAIN d \ {"counters"} : d2[x] = d[x]
             /\ d2.counters = Counts(d2)
<1>1. RefreshCounters(d) = [d EXCEPT !.counters = Counts(d)]
  BY DEF RefreshCounters, Counts
<1>2. Counts(d) \in [open : Nat, closed : Nat]
  BY CountsTypes
<1> HIDE DEF Counts
<1>3. DbOK([d EXCEPT !.counters = Counts(d)], n)
  BY <1>2 DEF DbOK, Empty
<1>4. /\ [d EXCEPT !.counters = Counts(d)].counters = Counts(d)
      /\ \A x \in DOMAIN d \ {"counters"} : [d EXCEPT !.counters = Counts(d)][x] = d[x]
  BY DEF DbOK, Empty
<1>5. RefreshCounters(d).issues = d.issues
  BY <1>1, <1>4 DEF DbOK, Empty
<1>6. Counts(RefreshCounters(d)) = Counts(d)
  BY <1>5 DEF Counts
<1> QED BY <1>1, <1>3, <1>4, <1>6

\* Issues: the events after which the counters are counted again.
LEMMA IssueOpened ==
  ASSUME NEW d, NEW n \in Nat, DbOK(d, n), IsFiniteSet(DOMAIN d.issues),
         NEW e, e.id \in Ids, NEW at \in Nat, e.type = "opened", e.value \in Values
  PROVE  LET d2 == ApplyIssueEvent(d, e, at)
         IN  /\ DbOK(d2, n) /\ \A x \in DOMAIN d \ {"issues", "counters"} : d2[x] = d[x]
             /\ IsFiniteSet(DOMAIN d2.issues) /\ d2.counters = Counts(d2)
             /\ Inserted(d.issues, d2.issues, e.id, IssueRow(e.value))
<1> DEFINE row == IssueRow(e.value)
           t == Upsert(d.issues, e.id, row)
           d1 == [d EXCEPT !.issues = t]
           d2 == ApplyIssueEvent(d, e, at)
<1>0. IsTable(d.issues, Ids, Issues) /\ \A x \in DOMAIN d.issues : d.issues[x] \in Issues
  BY DEF DbOK, IsTable
<1>1. d2 = RefreshCounters(d1)
  BY DEF ApplyIssueEvent, IssueRow
<1>2. row \in Issues
  BY <1>0, IssueRowTypes
<1>3. IsTable(t, Ids, Issues) /\ Inserted(d.issues, t, e.id, row)
  <2> HIDE DEF row
  <2> QED BY <1>0, <1>2, UpsertTable
<1> HIDE DEF t, row
<1>4. DbOK(d1, n) /\ d1.issues = t /\ \A x \in DOMAIN d \ {"issues"} : d1[x] = d[x]
  BY <1>3, WriteIssues
<1>5. IsFiniteSet(DOMAIN d1.issues)
  BY <1>3, <1>4, FS_AddElement DEF Inserted
<1> HIDE DEF d1
<1>6. /\ DbOK(RefreshCounters(d1), n)
      /\ \A x \in DOMAIN d1 \ {"counters"} : RefreshCounters(d1)[x] = d1[x]
      /\ RefreshCounters(d1).counters = Counts(RefreshCounters(d1))
  BY <1>4, <1>5, RefreshEffect
<1>7. DOMAIN d1 = DOMAIN d /\ "issues" \in DOMAIN d
  BY <1>4 DEF DbOK, Empty
<1>8. d2.issues = t
  BY <1>1, <1>4, <1>6, <1>7
<1> HIDE DEF d2
<1>9. /\ DbOK(d2, n) /\ \A x \in DOMAIN d \ {"issues", "counters"} : d2[x] = d[x]
      /\ IsFiniteSet(DOMAIN d2.issues) /\ d2.counters = Counts(d2)
  BY <1>1, <1>4, <1>5, <1>6, <1>7, <1>8
<1> QED BY <1>3, <1>8, <1>9 DEF row, d2

LEMMA IssueClosed ==
  ASSUME NEW d, NEW n \in Nat, DbOK(d, n), IsFiniteSet(DOMAIN d.issues),
         NEW e, e.id \in Ids, NEW at \in Nat, e.type = "closed"
  PROVE  LET d2 == ApplyIssueEvent(d, e, at)
         IN  /\ DbOK(d2, n) /\ \A x \in DOMAIN d \ {"issues", "counters"} : d2[x] = d[x]
             /\ IsFiniteSet(DOMAIN d2.issues) /\ d2.counters = Counts(d2)
             /\ Changed(d.issues, d2.issues, e.id, ClosedIssue(d.issues[e.id], at))
<1> DEFINE row == ClosedIssue(d.issues[e.id], at)
           t == IF e.id \in DOMAIN d.issues THEN [d.issues EXCEPT ![e.id] = row] ELSE d.issues
           d1 == [d EXCEPT !.issues = t]
           d2 == ApplyIssueEvent(d, e, at)
<1>0. IsTable(d.issues, Ids, Issues) /\ \A x \in DOMAIN d.issues : d.issues[x] \in Issues
  BY DEF DbOK, IsTable
<1>1. d2 = RefreshCounters(d1)
  BY DEF ApplyIssueEvent, Update, ClosedIssue, ReopenedIssue
<1>2. e.id \in DOMAIN d.issues => row \in Issues
  BY <1>0, IssueRowTypes
<1>3. IsTable(t, Ids, Issues) /\ Changed(d.issues, t, e.id, row)
  <2> HIDE DEF row
  <2> QED BY <1>0, <1>2, ExceptTable
<1> HIDE DEF t, row
<1>4. DbOK(d1, n) /\ d1.issues = t /\ \A x \in DOMAIN d \ {"issues"} : d1[x] = d[x]
  BY <1>3, WriteIssues
<1>5. IsFiniteSet(DOMAIN d1.issues)
  BY <1>3, <1>4, FS_AddElement DEF Changed
<1> HIDE DEF d1
<1>6. /\ DbOK(RefreshCounters(d1), n)
      /\ \A x \in DOMAIN d1 \ {"counters"} : RefreshCounters(d1)[x] = d1[x]
      /\ RefreshCounters(d1).counters = Counts(RefreshCounters(d1))
  BY <1>4, <1>5, RefreshEffect
<1>7. DOMAIN d1 = DOMAIN d /\ "issues" \in DOMAIN d
  BY <1>4 DEF DbOK, Empty
<1>8. d2.issues = t
  BY <1>1, <1>4, <1>6, <1>7
<1> HIDE DEF d2
<1>9. /\ DbOK(d2, n) /\ \A x \in DOMAIN d \ {"issues", "counters"} : d2[x] = d[x]
      /\ IsFiniteSet(DOMAIN d2.issues) /\ d2.counters = Counts(d2)
  BY <1>1, <1>4, <1>5, <1>6, <1>7, <1>8
<1> QED BY <1>3, <1>8, <1>9 DEF row, d2

LEMMA IssueReopened ==
  ASSUME NEW d, NEW n \in Nat, DbOK(d, n), IsFiniteSet(DOMAIN d.issues),
         NEW e, e.id \in Ids, NEW at \in Nat, e.type = "reopened"
  PROVE  LET d2 == ApplyIssueEvent(d, e, at)
         IN  /\ DbOK(d2, n) /\ \A x \in DOMAIN d \ {"issues", "counters"} : d2[x] = d[x]
             /\ IsFiniteSet(DOMAIN d2.issues) /\ d2.counters = Counts(d2)
             /\ Changed(d.issues, d2.issues, e.id, ReopenedIssue(d.issues[e.id]))
<1> DEFINE row == ReopenedIssue(d.issues[e.id])
           t == IF e.id \in DOMAIN d.issues THEN [d.issues EXCEPT ![e.id] = row] ELSE d.issues
           d1 == [d EXCEPT !.issues = t]
           d2 == ApplyIssueEvent(d, e, at)
<1>0. IsTable(d.issues, Ids, Issues) /\ \A x \in DOMAIN d.issues : d.issues[x] \in Issues
  BY DEF DbOK, IsTable
<1>1. d2 = RefreshCounters(d1)
  BY DEF ApplyIssueEvent, Update, ClosedIssue, ReopenedIssue
<1>2. e.id \in DOMAIN d.issues => row \in Issues
  BY <1>0, IssueRowTypes
<1>3. IsTable(t, Ids, Issues) /\ Changed(d.issues, t, e.id, row)
  <2> HIDE DEF row
  <2> QED BY <1>0, <1>2, ExceptTable
<1> HIDE DEF t, row
<1>4. DbOK(d1, n) /\ d1.issues = t /\ \A x \in DOMAIN d \ {"issues"} : d1[x] = d[x]
  BY <1>3, WriteIssues
<1>5. IsFiniteSet(DOMAIN d1.issues)
  BY <1>3, <1>4, FS_AddElement DEF Changed
<1> HIDE DEF d1
<1>6. /\ DbOK(RefreshCounters(d1), n)
      /\ \A x \in DOMAIN d1 \ {"counters"} : RefreshCounters(d1)[x] = d1[x]
      /\ RefreshCounters(d1).counters = Counts(RefreshCounters(d1))
  BY <1>4, <1>5, RefreshEffect
<1>7. DOMAIN d1 = DOMAIN d /\ "issues" \in DOMAIN d
  BY <1>4 DEF DbOK, Empty
<1>8. d2.issues = t
  BY <1>1, <1>4, <1>6, <1>7
<1> HIDE DEF d2
<1>9. /\ DbOK(d2, n) /\ \A x \in DOMAIN d \ {"issues", "counters"} : d2[x] = d[x]
      /\ IsFiniteSet(DOMAIN d2.issues) /\ d2.counters = Counts(d2)
  BY <1>1, <1>4, <1>5, <1>6, <1>7, <1>8
<1> QED BY <1>3, <1>8, <1>9 DEF row, d2

\* And those after which they are not.
LEMMA IssueTitled ==
  ASSUME NEW d, NEW n \in Nat, DbOK(d, n), NEW e, e.id \in Ids, NEW at \in Nat,
         e.type = "title_changed", e.value \in Values
  PROVE  LET d2 == ApplyIssueEvent(d, e, at)
         IN  /\ DbOK(d2, n) /\ \A x \in DOMAIN d \ {"issues"} : d2[x] = d[x]
             /\ Changed(d.issues, d2.issues, e.id, [d.issues[e.id] EXCEPT !.title = e.value])
<1> DEFINE row == [d.issues[e.id] EXCEPT !.title = e.value]
           t == IF e.id \in DOMAIN d.issues THEN [d.issues EXCEPT ![e.id] = row] ELSE d.issues
<1>0. IsTable(d.issues, Ids, Issues) /\ \A x \in DOMAIN d.issues : d.issues[x] \in Issues
  BY DEF DbOK, IsTable
<1>1. ApplyIssueEvent(d, e, at) = [d EXCEPT !.issues = t]
  BY DEF ApplyIssueEvent, Update
<1>2. e.id \in DOMAIN d.issues => row \in Issues
  BY <1>0, IssueRowTypes
<1>3. IsTable(t, Ids, Issues) /\ Changed(d.issues, t, e.id, row)
  <2> HIDE DEF row
  <2> QED BY <1>0, <1>2, ExceptTable
<1> HIDE DEF t, row
<1>4. DbOK(ApplyIssueEvent(d, e, at), n) /\ ApplyIssueEvent(d, e, at).issues = t
      /\ \A x \in DOMAIN d \ {"issues"} : ApplyIssueEvent(d, e, at)[x] = d[x]
  BY <1>1, <1>3, WriteIssues
<1> QED BY <1>3, <1>4 DEF row

LEMMA IssueCommented ==
  ASSUME NEW d, NEW n \in Nat, DbOK(d, n), NEW e, e.id \in Ids, NEW at \in 1..n,
         e.type = "commented"
  PROVE  LET d2 == ApplyIssueEvent(d, e, at)
         IN  /\ DbOK(d2, n) /\ \A x \in DOMAIN d \ {"issues", "comments"} : d2[x] = d[x]
             /\ d2.comments = InsertOnce(d.comments, at, e.id)
             /\ Changed(d.issues, d2.issues, e.id,
                  [d.issues[e.id] EXCEPT !.comment_count = Cardinality(Comments(d2, e.id))])
<1> DEFINE d1 == [d EXCEPT !.comments = InsertOnce(d.comments, at, e.id)]
           count == Cardinality(Comments(d1, e.id))
           row == [d.issues[e.id] EXCEPT !.comment_count = count]
           t == IF e.id \in DOMAIN d.issues THEN [d.issues EXCEPT ![e.id] = row] ELSE d.issues
           d2 == ApplyIssueEvent(d, e, at)
<1>0. IsTable(d.issues, Ids, Issues) /\ \A x \in DOMAIN d.issues : d.issues[x] \in Issues
  BY DEF DbOK, IsTable
<1>1. IsTable(InsertOnce(d.comments, at, e.id), 1..n, Ids)
  BY InsertOnceTable DEF DbOK
<1>2. /\ DbOK(d1, n) /\ d1.comments = InsertOnce(d.comments, at, e.id)
      /\ \A x \in DOMAIN d \ {"comments"} : d1[x] = d[x]
  BY <1>1, WriteComments
<1>3. d1.issues = d.issues /\ DOMAIN d1 = DOMAIN d
  BY <1>2 DEF DbOK, Empty
<1>4. d2 = [d1 EXCEPT !.issues = t]
  <2>1. d2 = ApplyCommented(d, e, at)
    BY DEF ApplyIssueEvent
  <2>2. ApplyCommented(d, e, at) =
          [d1 EXCEPT !.issues = IF e.id \in DOMAIN d1.issues
                                THEN [d1.issues EXCEPT ![e.id] = [d1.issues[e.id] EXCEPT !.comment_count = count]]
                                ELSE d1.issues]
    BY DEF ApplyCommented, Update
  <2> HIDE DEF d1, count, d2
  <2> QED BY <1>3, <2>1, <2>2
<1>5. count \in Nat
  <2>1. Comments(d1, e.id) \subseteq 1..n
    BY <1>2 DEF Comments, DbOK, IsTable
  <2>2. IsFiniteSet(1..n)
    BY FS_Interval
  <2>3. IsFiniteSet(Comments(d1, e.id))
    BY <2>1, <2>2, FS_Subset
  <2> QED BY <2>3, FS_CardinalityType
<1> HIDE DEF count, d1, d2
<1>6. e.id \in DOMAIN d.issues => row \in Issues
  BY <1>0, <1>5, IssueRowTypes
<1>7. IsTable(t, Ids, Issues) /\ Changed(d.issues, t, e.id, row)
  <2> HIDE DEF row
  <2> QED BY <1>0, <1>6, ExceptTable
<1> HIDE DEF t, row
<1>8. DbOK(d2, n) /\ d2.issues = t /\ \A x \in DOMAIN d1 \ {"issues"} : d2[x] = d1[x]
  BY <1>2, <1>4, <1>7, WriteIssues
<1>9. d2.comments = d1.comments /\ d2.comments = InsertOnce(d.comments, at, e.id)
  BY <1>2, <1>3, <1>8 DEF DbOK, Empty
<1>10. Comments(d2, e.id) = Comments(d1, e.id)
  BY <1>9 DEF Comments
<1>11. \A x \in DOMAIN d \ {"issues", "comments"} : d2[x] = d[x]
  BY <1>2, <1>3, <1>8
<1>12. row = [d.issues[e.id] EXCEPT !.comment_count = Cardinality(Comments(d2, e.id))]
  BY <1>10 DEF row, count
<1> QED BY <1>7, <1>8, <1>9, <1>11, <1>12 DEF d2

-----------------------------------------------------------------------------
(***************************************************************************)
(* One projected event                                                     *)
(***************************************************************************)
Same(d, d2, written) == \A x \in DOMAIN Empty \ written : d2[x] = d[x]

UserStep(d, d2, e) ==
  /\ topic = "users" /\ Same(d, d2, {"users"})
  /\ \/ /\ e.type = "registered" /\ e.value \in Values
        /\ Inserted(d.users, d2.users, e.id, NewUser(e.value))
     \/ /\ e.type = "profile_updated" /\ e.value \in Values
        /\ Changed(d.users, d2.users, e.id, [d.users[e.id] EXCEPT !.profile = e.value])
     \/ /\ e.type = "deactivated"
        /\ Changed(d.users, d2.users, e.id, [d.users[e.id] EXCEPT !.state = "deactivated"])

RepoStep(d, d2, e) ==
  /\ topic = "repos" /\ Same(d, d2, {"repos"})
  /\ \/ /\ e.type = "created" /\ e.value \in Values
        /\ Inserted(d.repos, d2.repos, e.id, NewRepo(e.value))
     \/ /\ e.type = "renamed" /\ e.value \in Values
        /\ Changed(d.repos, d2.repos, e.id, [d.repos[e.id] EXCEPT !.name = e.value])
     \/ /\ e.type = "changed" /\ e.value \in Values /\ e.field \in Fields
        /\ Changed(d.repos, d2.repos, e.id, [d.repos[e.id] EXCEPT !.settings[e.field] = e.value])
     \/ /\ e.type = "deleted"
        /\ Changed(d.repos, d2.repos, e.id, [d.repos[e.id] EXCEPT !.deleted = TRUE])

IssueStep(d, d2, e, at) ==
  /\ topic = "issues" /\ IsFiniteSet(DOMAIN d2.issues)
  /\ \/ /\ Same(d, d2, {"issues", "counters"}) /\ d2.counters = Counts(d2)
        /\ \/ /\ e.type = "opened" /\ e.value \in Values
              /\ Inserted(d.issues, d2.issues, e.id, IssueRow(e.value))
           \/ /\ e.type = "closed"
              /\ Changed(d.issues, d2.issues, e.id,
                         ClosedIssue(d.issues[e.id], at))
           \/ /\ e.type = "reopened"
              /\ Changed(d.issues, d2.issues, e.id,
                         ReopenedIssue(d.issues[e.id]))
     \/ /\ e.type = "title_changed" /\ e.value \in Values /\ Same(d, d2, {"issues"})
        /\ Changed(d.issues, d2.issues, e.id, [d.issues[e.id] EXCEPT !.title = e.value])
     \/ /\ e.type = "commented" /\ Same(d, d2, {"issues", "comments"})
        /\ d2.comments = InsertOnce(d.comments, at, e.id)
        /\ Changed(d.issues, d2.issues, e.id,
                   [d.issues[e.id] EXCEPT !.comment_count = Cardinality(Comments(d2, e.id))])

PullStep(d, d2, e, at) ==
  /\ topic = "prs"
  /\ \/ /\ e.type = "opened" /\ e.head \in Heads /\ e.base \in Bases /\ Same(d, d2, {"pulls"})
        /\ Inserted(d.pulls, d2.pulls, e.id, PullRow(e.head, e.base))
     \/ /\ e.type = "synchronized" /\ e.head \in Heads /\ e.base \in Bases
        /\ Same(d, d2, {"pulls"})
        /\ Changed(d.pulls, d2.pulls, e.id,
                   SyncedPull(d.pulls[e.id], e.head, e.base))
     \/ /\ e.type = "mergeability_computed" /\ e.check \in Checks /\ Same(d, d2, {"pulls"})
        /\ Changed(d.pulls, d2.pulls, e.id, Checked(d.pulls[e.id], e.check))
     \/ /\ e.type = "reviewed" /\ Same(d, d2, {"reviews"})
        /\ d2.reviews = InsertOnce(d.reviews, at, e.id)
     \/ /\ e.type = "merged" /\ Same(d, d2, {"pulls"})
        /\ Changed(d.pulls, d2.pulls, e.id, MergedPull(d.pulls[e.id], at))
     \/ /\ e.type = "closed" /\ Same(d, d2, {"pulls"})
        /\ Changed(d.pulls, d2.pulls, e.id, ClosePull(d.pulls[e.id], at))
     \/ /\ e.type = "reopened" /\ Same(d, d2, {"pulls"})
        /\ Changed(d.pulls, d2.pulls, e.id, ReopenPull(d.pulls[e.id]))

Effect(d, d2, e, at) ==
  \/ d2 = d /\ e.type \in {"unknown", "collaborator"}
  \/ UserStep(d, d2, e)
  \/ RepoStep(d, d2, e)
  \/ IssueStep(d, d2, e, at)
  \/ PullStep(d, d2, e, at)

\* The fields of each kind of event.
LEMMA EventFields ==
  ASSUME NEW t \in Topics, NEW e \in EventsOf(t)
  PROVE  /\ e.id \in Ids
         /\ \/ e.type = "unknown"
            \/ /\ t = "users"
               /\ \/ e.type \in {"registered", "profile_updated"} /\ e.value \in Values
                  \/ e.type = "deactivated"
            \/ /\ t = "repos"
               /\ \/ e.type \in {"created", "renamed"} /\ e.value \in Values
                  \/ e.type = "changed" /\ e.field \in Fields /\ e.value \in Values
                  \/ e.type \in {"deleted", "collaborator"}
            \/ /\ t = "issues"
               /\ \/ e.type \in {"opened", "title_changed"} /\ e.value \in Values
                  \/ e.type \in {"commented", "closed", "reopened"}
            \/ /\ t = "prs"
               /\ \/ e.type \in {"opened", "synchronized"} /\ e.head \in Heads /\ e.base \in Bases
                  \/ e.type = "mergeability_computed" /\ e.check \in Checks
                  \/ e.type \in {"reviewed", "merged", "closed", "reopened"}
<1>1. CASE t = "users"
  BY <1>1 DEF EventsOf, UserEvents
<1>2. CASE t = "repos"
  BY <1>2 DEF EventsOf, RepoEvents
<1>3. CASE t = "issues"
  BY <1>3 DEF EventsOf, IssueEvents
<1>4. CASE t = "prs"
  BY <1>4 DEF EventsOf, PrEvents
<1> QED BY <1>1, <1>2, <1>3, <1>4 DEF Topics

\* apply_decoded is one of those effects.
LEMMA ApplyEffect ==
  ASSUME topic \in Topics, log \in Seq(EventsOf(topic)), NEW d, DbOK(d, Len(log)),
         IsFiniteSet(DOMAIN d.issues), NEW at \in 1..Len(log)
  PROVE  /\ DbOK(ApplyDecoded(d, at), Len(log))
         /\ Effect(d, ApplyDecoded(d, at), log[at], at)
<1> DEFINE e == log[at]
           n == Len(log)
           d2 == ApplyDecoded(d, at)
<1> SUFFICES DbOK(d2, n) /\ Effect(d, d2, e, at)
  OBVIOUS
<1>0. /\ e \in EventsOf(topic) /\ n \in Nat /\ at \in 1..n /\ at \in Nat
      /\ DbOK(d, n) /\ DOMAIN d = DOMAIN Empty
  BY DEF DbOK
<1> HIDE DEF e, n, d2
<1>1. e.id \in Ids
  BY <1>0, EventFields
<1>2. CASE e.type = "unknown"
  <2>1. d2 = d
    BY <1>2 DEF ApplyDecoded, d2, e
  <2> QED BY <1>0, <1>2, <2>1 DEF Effect
<1>3. CASE e.type # "unknown" /\ topic = "users"
  <2>1. d2 = ApplyUserEvent(d, e)
    BY <1>3 DEF ApplyDecoded, d2, e
  <2>2. \/ e.type \in {"registered", "profile_updated"} /\ e.value \in Values
        \/ e.type = "deactivated"
    BY <1>0, <1>3, EventFields
  <2> QED BY <1>0, <1>1, <1>3, <2>1, <2>2, UserEffect DEF Effect, UserStep, Same
<1>4. CASE e.type # "unknown" /\ topic = "repos"
  <2>1. d2 = ApplyRepoEvent(d, e)
    BY <1>4 DEF ApplyDecoded, d2, e
  <2>2. \/ e.type \in {"created", "renamed"} /\ e.value \in Values
        \/ e.type = "changed" /\ e.field \in Fields /\ e.value \in Values
        \/ e.type \in {"deleted", "collaborator"}
    BY <1>0, <1>4, EventFields
  <2>3. CASE e.type = "collaborator"
    <3>1. d2 = [d EXCEPT !.repos = d.repos]
      BY <2>1, <2>3 DEF ApplyRepoEvent
    <3>2. d2 = d
      BY <3>1 DEF DbOK, Empty
    <3> QED BY <1>0, <2>3, <3>2 DEF Effect
  <2>4. CASE e.type # "collaborator"
    BY <1>0, <1>1, <1>4, <2>1, <2>2, <2>4, RepoEffect DEF Effect, RepoStep, Same
  <2> QED BY <2>3, <2>4
<1>5. CASE e.type # "unknown" /\ topic = "issues"
  <2>1. d2 = ApplyIssueEvent(d, e, at)
    BY <1>5 DEF ApplyDecoded, d2, e
  <2>2. \/ e.type \in {"opened", "title_changed"} /\ e.value \in Values
        \/ e.type \in {"commented", "closed", "reopened"}
    BY <1>0, <1>5, EventFields
  <2>3. CASE e.type = "opened"
    <3>1. /\ DbOK(d2, n) /\ \A x \in DOMAIN d \ {"issues", "counters"} : d2[x] = d[x]
          /\ IsFiniteSet(DOMAIN d2.issues) /\ d2.counters = Counts(d2)
          /\ Inserted(d.issues, d2.issues, e.id, IssueRow(e.value))
      BY <1>0, <1>1, <2>1, <2>2, <2>3, IssueOpened
    <3> QED BY <1>0, <1>5, <2>2, <2>3, <3>1 DEF Effect, IssueStep, Same
  <2>4. CASE e.type = "closed"
    <3>1. /\ DbOK(d2, n) /\ \A x \in DOMAIN d \ {"issues", "counters"} : d2[x] = d[x]
          /\ IsFiniteSet(DOMAIN d2.issues) /\ d2.counters = Counts(d2)
          /\ Changed(d.issues, d2.issues, e.id, ClosedIssue(d.issues[e.id], at))
      BY <1>0, <1>1, <2>1, <2>2, <2>4, IssueClosed, SMTT(30)
    <3> QED BY <1>0, <1>5, <2>2, <2>4, <3>1 DEF Effect, IssueStep, Same
  <2>5. CASE e.type = "reopened"
    <3>1. /\ DbOK(d2, n) /\ \A x \in DOMAIN d \ {"issues", "counters"} : d2[x] = d[x]
          /\ IsFiniteSet(DOMAIN d2.issues) /\ d2.counters = Counts(d2)
          /\ Changed(d.issues, d2.issues, e.id, ReopenedIssue(d.issues[e.id]))
      BY <1>0, <1>1, <2>1, <2>2, <2>5, IssueReopened, SMTT(30)
    <3> QED BY <1>0, <1>5, <2>2, <2>5, <3>1 DEF Effect, IssueStep, Same
  <2>6. CASE e.type = "title_changed"
    BY <1>0, <1>1, <1>5, <2>1, <2>2, <2>6, IssueTitled DEF Effect, IssueStep, Same, Changed
  <2>7. CASE e.type = "commented"
    BY <1>0, <1>1, <1>5, <2>1, <2>7, IssueCommented DEF Effect, IssueStep, Same, Changed
  <2> QED BY <2>2, <2>3, <2>4, <2>5, <2>6, <2>7
<1>6. CASE e.type # "unknown" /\ topic = "prs"
  <2>1. d2 = ApplyPrEvent(d, e, at)
    BY <1>6 DEF ApplyDecoded, d2, e
  <2>2. \/ e.type \in {"opened", "synchronized"} /\ e.head \in Heads /\ e.base \in Bases
        \/ e.type = "mergeability_computed" /\ e.check \in Checks
        \/ e.type \in {"reviewed", "merged", "closed", "reopened"}
    BY <1>0, <1>6, EventFields
  <2>3. CASE e.type = "mergeability_computed"
    BY <1>0, <1>1, <1>6, <2>1, <2>2, <2>3, PullCheckEffect DEF Effect, PullStep, Same
  <2>4. CASE e.type = "reviewed"
    BY <1>0, <1>1, <1>6, <2>1, <2>4, ReviewEffect DEF Effect, PullStep, Same
  <2>5. CASE e.type \in {"opened", "synchronized", "merged", "closed", "reopened"}
    <3>1. CASE e.type = "opened"
      <4>1. /\ DbOK(d2, n) /\ \A x \in DOMAIN d \ {"pulls"} : d2[x] = d[x]
            /\ Inserted(d.pulls, d2.pulls, e.id, PullRow(e.head, e.base))
        BY <1>0, <1>1, <2>1, <2>2, <3>1, PullRowEffect
      <4> QED BY <1>0, <1>6, <2>2, <3>1, <4>1 DEF Effect, PullStep, Same
    <3>2. CASE e.type = "synchronized"
      <4>1. /\ DbOK(d2, n) /\ \A x \in DOMAIN d \ {"pulls"} : d2[x] = d[x]
            /\ Changed(d.pulls, d2.pulls, e.id, SyncedPull(d.pulls[e.id], e.head, e.base))
        BY <1>0, <1>1, <2>1, <2>2, <3>2, PullRowEffect
      <4> QED BY <1>0, <1>6, <2>2, <3>2, <4>1 DEF Effect, PullStep, Same
    <3>3. CASE e.type = "merged"
      <4>1. /\ DbOK(d2, n) /\ \A x \in DOMAIN d \ {"pulls"} : d2[x] = d[x]
            /\ Changed(d.pulls, d2.pulls, e.id, MergedPull(d.pulls[e.id], at))
        BY <1>0, <1>1, <2>1, <2>2, <3>3, PullRowEffect
      <4> QED BY <1>0, <1>6, <2>2, <3>3, <4>1 DEF Effect, PullStep, Same
    <3>4. CASE e.type = "closed"
      <4>1. /\ DbOK(d2, n) /\ \A x \in DOMAIN d \ {"pulls"} : d2[x] = d[x]
            /\ Changed(d.pulls, d2.pulls, e.id, ClosePull(d.pulls[e.id], at))
        BY <1>0, <1>1, <2>1, <2>2, <3>4, PullRowEffect
      <4> QED BY <1>0, <1>6, <2>2, <3>4, <4>1 DEF Effect, PullStep, Same
    <3>5. CASE e.type = "reopened"
      <4>1. /\ DbOK(d2, n) /\ \A x \in DOMAIN d \ {"pulls"} : d2[x] = d[x]
            /\ Changed(d.pulls, d2.pulls, e.id, ReopenPull(d.pulls[e.id]))
        BY <1>0, <1>1, <2>1, <2>2, <3>5, PullRowEffect
      <4> QED BY <1>0, <1>6, <2>2, <3>5, <4>1 DEF Effect, PullStep, Same
    <3> QED BY <2>5, <3>1, <3>2, <3>3, <3>4, <3>5
  <2> QED BY <2>2, <2>3, <2>4, <2>5
<1> QED BY <1>2, <1>3, <1>4, <1>5, <1>6 DEF Topics

-----------------------------------------------------------------------------
(***************************************************************************)
(* What commands append                                                    *)
(***************************************************************************)

\* An event of the topic that keeps what the log is trusted for.
MayFollow(e) ==
  /\ e \in EventsOf(topic)
  /\ e.type \in Births => e.id \notin Mentioned
  /\ e.type = "registered" =>
       \A k \in DOMAIN log : log[k].type = "registered" => log[k].value # e.value
  /\ e.type = "mergeability_computed" => Truthful(e.check)
  /\ e.type = "commented" => e.id \in DOMAIN db.issues
  /\ e.type = "reviewed" => e.id \in DOMAIN db.pulls

Appends == \E e : MayFollow(e) /\ log' = Append(log, e)

OnlyCommands == UNCHANGED <<topic, applied, db, seen, replays>>

\* The events a command can make are events of its topic.
LEMMA EventTypes ==
  /\ \A t \in Topics, i \in Ids : [type |-> "unknown", id |-> i] \in EventsOf(t)
  /\ \A i \in Ids, v \in Values :
       /\ [type |-> "registered", id |-> i, value |-> v] \in EventsOf("users")
       /\ [type |-> "profile_updated", id |-> i, value |-> v] \in EventsOf("users")
       /\ [type |-> "created", id |-> i, value |-> v] \in EventsOf("repos")
       /\ [type |-> "renamed", id |-> i, value |-> v] \in EventsOf("repos")
       /\ [type |-> "opened", id |-> i, value |-> v] \in EventsOf("issues")
       /\ [type |-> "title_changed", id |-> i, value |-> v] \in EventsOf("issues")
  /\ \A i \in Ids, v \in Values, f \in Fields :
       [type |-> "changed", id |-> i, field |-> f, value |-> v] \in EventsOf("repos")
  /\ \A i \in Ids : [type |-> "deactivated", id |-> i] \in EventsOf("users")
  /\ \A i \in Ids, t \in {"deleted", "collaborator"} : [type |-> t, id |-> i] \in EventsOf("repos")
  /\ \A i \in Ids, t \in {"commented", "closed", "reopened"} :
       [type |-> t, id |-> i] \in EventsOf("issues")
  /\ \A i \in Ids, t \in {"reviewed", "merged", "closed", "reopened"} :
       [type |-> t, id |-> i] \in EventsOf("prs")
  /\ \A i \in Ids, h \in Heads, b \in Bases, t \in {"opened", "synchronized"} :
       [type |-> t, id |-> i, head |-> h, base |-> b] \in EventsOf("prs")
  /\ \A i \in Ids, c \in Checks :
       [type |-> "mergeability_computed", id |-> i, check |-> c] \in EventsOf("prs")
<1>1. \A t \in Topics, i \in Ids : [type |-> "unknown", id |-> i] \in EventsOf(t)
  BY DEF EventsOf
<1>2. \A i \in Ids, v \in Values :
       /\ [type |-> "registered", id |-> i, value |-> v] \in EventsOf("users")
       /\ [type |-> "profile_updated", id |-> i, value |-> v] \in EventsOf("users")
  BY DEF EventsOf, UserEvents
<1>3. \A i \in Ids, v \in Values :
       /\ [type |-> "created", id |-> i, value |-> v] \in EventsOf("repos")
       /\ [type |-> "renamed", id |-> i, value |-> v] \in EventsOf("repos")
  BY DEF EventsOf, RepoEvents
<1>4. \A i \in Ids, v \in Values :
       /\ [type |-> "opened", id |-> i, value |-> v] \in EventsOf("issues")
       /\ [type |-> "title_changed", id |-> i, value |-> v] \in EventsOf("issues")
  BY DEF EventsOf, IssueEvents
<1>5. \A i \in Ids, v \in Values, f \in Fields :
       [type |-> "changed", id |-> i, field |-> f, value |-> v] \in EventsOf("repos")
  BY DEF EventsOf, RepoEvents
<1>6. \A i \in Ids : [type |-> "deactivated", id |-> i] \in EventsOf("users")
  BY DEF EventsOf, UserEvents
<1>7. \A i \in Ids, t \in {"deleted", "collaborator"} : [type |-> t, id |-> i] \in EventsOf("repos")
  BY DEF EventsOf, RepoEvents
<1>8. \A i \in Ids, t \in {"commented", "closed", "reopened"} :
       [type |-> t, id |-> i] \in EventsOf("issues")
  BY DEF EventsOf, IssueEvents
<1>9. \A i \in Ids, t \in {"reviewed", "merged", "closed", "reopened"} :
       [type |-> t, id |-> i] \in EventsOf("prs")
  BY DEF EventsOf, PrEvents
<1>10. \A i \in Ids, h \in Heads, b \in Bases, t \in {"opened", "synchronized"} :
       [type |-> t, id |-> i, head |-> h, base |-> b] \in EventsOf("prs")
  BY DEF EventsOf, PrEvents
<1>11. \A i \in Ids, c \in Checks :
       [type |-> "mergeability_computed", id |-> i, check |-> c] \in EventsOf("prs")
  BY DEF EventsOf, PrEvents
<1> QED BY <1>1, <1>2, <1>3, <1>4, <1>5, <1>6, <1>7, <1>8, <1>9, <1>10, <1>11

\* An event whose kind the log need not be trusted for may always follow.
Trusted == Births \cup {"mergeability_computed", "commented", "reviewed"}

LEMMA PlainFollows ==
  ASSUME NEW e \in EventsOf(topic), e.type \notin Trusted
  PROVE  MayFollow(e)
BY DEF MayFollow, Trusted, Births

\* Each command appends nothing or such an event, and leaves the tables alone.
LEMMA CommandAppends ==
  ASSUME TypeOK, Command
  PROVE  /\ OnlyCommands
         /\ UNCHANGED log \/ Appends
         /\ trials' \subseteq [id : Ids, head : Heads, base : Bases]
         /\ forms' \subseteq [id : Ids, open : BOOLEAN]
<1> DEFINE Goal == /\ OnlyCommands
                   /\ UNCHANGED log \/ Appends
                   /\ trials' \subseteq [id : Ids, head : Heads, base : Bases]
                   /\ forms' \subseteq [id : Ids, open : BOOLEAN]
<1> SUFFICES Goal
  OBVIOUS
<1>0. IdsOf[topic] \subseteq Ids
  BY DEF TypeOK, Ids
<1>a. /\ trials \subseteq [id : Ids, head : Heads, base : Bases]
      /\ forms \subseteq [id : Ids, open : BOOLEAN]
      /\ \A p \in DOMAIN db.pulls : db.pulls[p].head \in Heads /\ db.pulls[p].base \in Bases
  BY DEF TypeOK, DbOK, IsTable, Pulls
<1>b. ASSUME NEW t, NEW e \in EventsOf(t), e.type \notin Trusted,
             Emit(t, e), OnlyLog
      PROVE  Goal
  BY <1>a, <1>b, PlainFollows DEF Emit, OnlyLog, OnlyCommands, Appends
<1>c. ASSUME NEW t, NEW e \in EventsOf(t), e.type \in Births, e.id \notin Mentioned,
             e.type # "registered", Emit(t, e), OnlyLog
      PROVE  Goal
  <2>1. MayFollow(e)
    BY <1>c DEF MayFollow, Births, Emit
  <2> QED BY <1>a, <1>c, <2>1 DEF Emit, OnlyLog, OnlyCommands, Appends
<1> HIDE DEF Goal
<1> USE EventTypes DEF Births, Trusted
<1>1. ASSUME NEW id \in IdsOf[topic], Unknown(id) PROVE Goal
  <2>1. PICK t \in Topics : Emit(t, [type |-> "unknown", id |-> id]) /\ OnlyLog
    BY <1>1 DEF Unknown
  <2> QED BY <1>0, <1>b, <2>1
<1>2. ASSUME NEW id \in IdsOf[topic], NEW v \in Values, RegisterUser(id, v) PROVE Goal
  <2> DEFINE e == [type |-> "registered", id |-> id, value |-> v]
  <2>1. e \in EventsOf("users") /\ e.type = "registered" /\ e.id = id /\ e.value = v
    BY <1>0
  <2> HIDE DEF e
  <2>2. Emit("users", e) /\ OnlyLog /\ id \notin Mentioned
        /\ \A k \in DOMAIN log : log[k].type = "registered" => log[k].value # v
    BY <1>2 DEF RegisterUser, e
  <2>3. MayFollow(e)
    BY <2>1, <2>2 DEF MayFollow, Emit
  <2> QED BY <1>a, <2>2, <2>3 DEF Emit, OnlyLog, OnlyCommands, Appends, Goal
<1>3. ASSUME NEW id \in IdsOf[topic], NEW v \in Values, ChangeUser(id, v) PROVE Goal
  BY <1>0, <1>3, <1>b DEF ChangeUser
<1>4. ASSUME NEW id \in IdsOf[topic], NEW v \in Values, CreateRepo(id, v) PROVE Goal
  BY <1>0, <1>4, <1>c DEF CreateRepo
<1>5. ASSUME NEW id \in IdsOf[topic], NEW v \in Values, ChangeRepo(id, v) PROVE Goal
  <2>1. CASE Emit("repos", [type |-> "renamed", id |-> id, value |-> v])
    BY <1>0, <1>5, <1>b, <2>1 DEF ChangeRepo
  <2>2. CASE \E f \in Fields : Emit("repos", [type |-> "changed", id |-> id, field |-> f, value |-> v])
    BY <1>0, <1>5, <1>b, <2>2 DEF ChangeRepo
  <2>3. CASE \/ Emit("repos", [type |-> "deleted", id |-> id])
             \/ Emit("repos", [type |-> "collaborator", id |-> id])
    BY <1>0, <1>5, <1>b, <2>3 DEF ChangeRepo
  <2> QED BY <1>5, <2>1, <2>2, <2>3 DEF ChangeRepo
<1>6. ASSUME NEW id \in IdsOf[topic], NEW v \in Values, OpenIssue(id, v) PROVE Goal
  BY <1>0, <1>6, <1>c DEF OpenIssue
<1>7. ASSUME NEW id \in IdsOf[topic], NEW v \in Values, ChangeTitle(id, v) PROVE Goal
  BY <1>0, <1>7, <1>b DEF ChangeTitle
<1>8. ASSUME NEW id \in IdsOf[topic], NEW text \in BOOLEAN,
             NEW action \in {"comment", "close", "reopen"}, PostForm(id, text, action)
      PROVE  Goal
  <2> DEFINE e == [type |-> "commented", id |-> id]
  <2>1. e \in EventsOf("issues") /\ e.type = "commented" /\ e.id = id
    BY <1>0
  <2> HIDE DEF e
  <2>2. id \in DOMAIN db.issues /\ (UNCHANGED log \/ Emit("issues", e))
    BY <1>8 DEF PostForm, e
  <2>3. UNCHANGED log \/ Appends
    BY <2>1, <2>2 DEF Emit, Appends, MayFollow
  <2>4. [id |-> id, open |-> action = "reopen"] \in [id : Ids, open : BOOLEAN]
    <3>1. (action = "reopen") \in BOOLEAN
      OBVIOUS
    <3> QED BY <1>0, <3>1
  <2>5. forms' = forms \/ forms' = forms \cup {[id |-> id, open |-> action = "reopen"]}
    BY <1>8 DEF PostForm
  <2>6. forms' \subseteq [id : Ids, open : BOOLEAN]
    BY <1>a, <2>4, <2>5
  <2> QED BY <1>8, <1>a, <2>3, <2>6 DEF PostForm, OnlyCommands, Goal
<1>9. ASSUME NEW id \in IdsOf[topic], NEW h \in Heads, NEW b \in Bases, OpenPull(id, h, b)
      PROVE  Goal
  BY <1>0, <1>9, <1>c DEF OpenPull
<1>10. ASSUME NEW id \in IdsOf[topic], NEW h \in Heads, NEW b \in Bases, SynchronizePull(id, h, b)
       PROVE  Goal
  BY <1>0, <1>10, <1>b DEF SynchronizePull
<1>11. ASSUME NEW id \in IdsOf[topic], ReviewPull(id) PROVE Goal
  <2> DEFINE e == [type |-> "reviewed", id |-> id]
  <2>1. e \in EventsOf("prs") /\ e.type = "reviewed" /\ e.id = id
    BY <1>0
  <2> HIDE DEF e
  <2>2. id \in DOMAIN db.pulls /\ Emit("prs", e) /\ OnlyLog
    BY <1>11 DEF ReviewPull, e
  <2>3. MayFollow(e)
    BY <2>1, <2>2 DEF MayFollow, Emit
  <2> QED BY <1>a, <2>2, <2>3 DEF Emit, OnlyLog, OnlyCommands, Appends, Goal
<1>12. ASSUME NEW id \in IdsOf[topic], NEW open \in BOOLEAN, SetPullState(id, open) PROVE Goal
  <2> DEFINE e == [type |-> IF open THEN "reopened" ELSE "closed", id |-> id]
  <2>1. e \in EventsOf("prs") /\ e.type \in {"reopened", "closed"}
    BY <1>0
  <2> HIDE DEF e
  <2>2. Emit("prs", e) /\ OnlyLog
    BY <1>12 DEF SetPullState, e
  <2> QED BY <1>b, <2>1, <2>2
<1>13. ASSUME NEW id \in IdsOf[topic], MergePull(id) PROVE Goal
  BY <1>0, <1>13, <1>b DEF MergePull
<1>14. ASSUME NEW id \in IdsOf[topic], StartTrial(id) PROVE Goal
  <2>1. [id |-> id, head |-> db.pulls[id].head, base |-> db.pulls[id].base]
          \in [id : Ids, head : Heads, base : Bases]
    BY <1>0, <1>a, <1>14 DEF StartTrial
  <2> QED BY <1>14, <1>a, <2>1 DEF StartTrial, OnlyCommands, Goal
<1> QED
  BY <1>1, <1>2, <1>3, <1>4, <1>5, <1>6, <1>7, <1>8, <1>9, <1>10, <1>11, <1>12, <1>13, <1>14
  DEF Command

\* So do the rest of a form and the end of a trial merge.
LEMMA LateAppends ==
  ASSUME TypeOK,
         \/ \E form \in forms : SetIssueState(form)
         \/ \E t \in trials : RecordMergeability(t)
         \/ Abandon
  PROVE  /\ OnlyCommands
         /\ UNCHANGED log \/ Appends
         /\ trials' \subseteq trials /\ forms' \subseteq forms
<1>1. ASSUME NEW form \in forms, SetIssueState(form)
      PROVE  OnlyCommands /\ Appends /\ trials' = trials /\ forms' = forms \ {form}
  <2> DEFINE e == [type |-> IF form.open THEN "reopened" ELSE "closed", id |-> form.id]
  <2>1. form.id \in Ids
    BY DEF TypeOK
  <2>2. e \in EventsOf("issues") /\ e.type \in {"reopened", "closed"}
    BY <2>1, EventTypes
  <2>3. Emit("issues", e)
    BY <1>1 DEF SetIssueState
  <2> HIDE DEF e
  <2>4. MayFollow(e)
    BY <2>2, <2>3, PlainFollows DEF Emit, Births, Trusted
  <2> QED BY <1>1, <2>3, <2>4 DEF SetIssueState, OnlyCommands, Appends, Emit
<1>2. ASSUME NEW t \in trials, RecordMergeability(t)
      PROVE  OnlyCommands /\ Appends /\ forms' = forms /\ trials' = trials \ {t}
  <2> DEFINE c == [head |-> t.head, base |-> t.base, verdict |-> TryMerge(t.head, t.base)]
             e == [type |-> "mergeability_computed", id |-> t.id, check |-> c]
  <2>1. t.id \in Ids /\ t.head \in Heads /\ t.base \in Bases
    BY DEF TypeOK
  <2>2. c \in Checks /\ Truthful(c)
    BY <2>1 DEF Checks, Truthful, TryMerge
  <2>3. Emit("prs", e)
    BY <1>2 DEF RecordMergeability
  <2> HIDE DEF c
  <2>4. e \in EventsOf("prs") /\ e.type = "mergeability_computed" /\ e.check = c
    BY <2>1, <2>2, EventTypes
  <2> HIDE DEF e
  <2>5. MayFollow(e)
    BY <2>2, <2>3, <2>4 DEF MayFollow, Emit, Births
  <2> QED BY <1>2, <2>3, <2>5 DEF RecordMergeability, OnlyCommands, Appends, Emit
<1>3. CASE Abandon
  BY <1>3 DEF Abandon, OnlyCommands
<1> QED BY <1>1, <1>2, <1>3

-----------------------------------------------------------------------------
(***************************************************************************)
(* The invariant is inductive                                              *)
(***************************************************************************)
Commands == OnlyCommands /\ (UNCHANGED log \/ Appends)

\* A step projects an event, replays, or is a command's.
LEMMA StepKinds ==
  ASSUME TypeOK, [Next]_vars
  PROVE  /\ Project \/ Replay \/ Commands
         /\ trials' \subseteq [id : Ids, head : Heads, base : Bases]
         /\ forms' \subseteq [id : Ids, open : BOOLEAN]
<1>0. /\ trials \subseteq [id : Ids, head : Heads, base : Bases]
      /\ forms \subseteq [id : Ids, open : BOOLEAN]
  BY DEF TypeOK
<1>1. CASE Project
  BY <1>0, <1>1 DEF Project
<1>2. CASE Replay
  BY <1>0, <1>2 DEF Replay
<1>3. CASE Command
  BY <1>3, CommandAppends DEF Commands
<1>4. CASE \/ \E form \in forms : SetIssueState(form)
           \/ \E t \in trials : RecordMergeability(t)
           \/ Abandon
  BY <1>0, <1>4, LateAppends DEF Commands
<1>5. CASE UNCHANGED vars
  BY <1>0, <1>5 DEF vars, Commands, OnlyCommands
<1> QED BY <1>1, <1>2, <1>3, <1>4, <1>5 DEF Next

\* What a commands' step does to the log.
LEMMA LogGrows ==
  ASSUME TypeOK, Commands
  PROVE  /\ log' \in Seq(EventsOf(topic)) /\ Len(log') \in Nat /\ Len(log) <= Len(log')
         /\ \A k \in 1..Len(log) : log'[k] = log[k]
         /\ \A k \in 1..Len(log') : k > Len(log) =>
              k = Len(log) + 1 /\ k = Len(log') /\ MayFollow(log'[k])
<1>1. CASE UNCHANGED log
  BY <1>1 DEF TypeOK
<1>2. CASE Appends
  <2>1. PICK e : MayFollow(e) /\ log' = Append(log, e)
    BY <1>2 DEF Appends
  <2>2. e \in EventsOf(topic)
    BY <2>1 DEF MayFollow
  <2> QED BY <2>1, <2>2 DEF TypeOK
<1> QED BY <1>1, <1>2 DEF Commands

\* What projecting does to the tables.
LEMMA Projects ==
  ASSUME TypeOK, Counted, Project
  PROVE  /\ applied + 1 \in 1..Len(log) /\ applied' = applied + 1
         /\ seen' \in {seen, applied + 1} /\ seen' >= seen /\ seen' >= applied'
         /\ DbOK(db', Len(log)) /\ Effect(db, db', log[applied + 1], applied + 1)
         /\ NamesAreUnique(db')
         /\ log' = log /\ topic' = topic /\ trials' = trials /\ forms' = forms
         /\ replays' = replays
         /\ log[applied + 1].id \in Ids
<1>1. applied + 1 \in 1..Len(log)
  BY DEF TypeOK, Project
<1>2. db' = ApplyDecoded(db, applied + 1) /\ NamesAreUnique(db')
  BY DEF Project
<1>3. DbOK(db', Len(log)) /\ Effect(db, db', log[applied + 1], applied + 1)
  BY <1>1, <1>2, ApplyEffect DEF TypeOK, Counted
<1>4. log[applied + 1].id \in Ids
  BY <1>1, EventFields DEF TypeOK
<1> QED BY <1>1, <1>2, <1>3, <1>4 DEF Project, TypeOK

\* Empty tables.
LEMMA EmptyTables ==
  /\ \A n \in Nat : DbOK(Empty, n)
  /\ DOMAIN Empty.users = {} /\ DOMAIN Empty.repos = {} /\ DOMAIN Empty.issues = {}
  /\ DOMAIN Empty.comments = {} /\ DOMAIN Empty.pulls = {} /\ DOMAIN Empty.reviews = {}
  /\ Empty.counters = [open |-> 0, closed |-> 0]
BY DEF DbOK, IsTable, Empty

LEMMA TypeStep ==
  ASSUME TypeOK, Counted, [Next]_vars
  PROVE  TypeOK'
<1>1. CASE Project
  <2>1. applied' \in 0..Len(log') /\ seen' \in applied'..Len(log')
    BY <1>1, Projects DEF TypeOK
  <2> QED BY <1>1, <2>1, Projects DEF TypeOK
<1>2. CASE Replay
  <2>1. DbOK(db', Len(log'))
    BY <1>2, EmptyTables DEF Replay, TypeOK
  <2>2. replays' \in 0..MaxReplays
    BY <1>2, BoundsAssumption DEF Replay, TypeOK
  <2>3. applied' \in 0..Len(log') /\ seen' \in applied'..Len(log')
    BY <1>2 DEF Replay, TypeOK
  <2> QED BY <1>2, <2>1, <2>2, <2>3 DEF Replay, TypeOK
<1>3. CASE Commands
  <2>1. DbOK(db', Len(log'))
    <3>1. \A S : IsTable(db.comments, 1..Len(log), S) => IsTable(db.comments, 1..Len(log'), S)
      BY <1>3, LogGrows DEF TypeOK, IsTable
    <3>2. \A S : IsTable(db.reviews, 1..Len(log), S) => IsTable(db.reviews, 1..Len(log'), S)
      BY <1>3, LogGrows DEF TypeOK, IsTable
    <3> QED BY <1>3, <3>1, <3>2 DEF TypeOK, DbOK, Commands, OnlyCommands
  <2> QED BY <1>3, <2>1, LogGrows, StepKinds DEF TypeOK, Commands, OnlyCommands
<1> QED BY <1>1, <1>2, <1>3, StepKinds

LEMMA FirstMentionStep ==
  ASSUME TypeOK, FirstMention, Counted, [Next]_vars
  PROVE  FirstMention'
<1>1. CASE Project \/ Replay
  <2>1. log' = log
    BY <1>1 DEF Project, Replay
  <2> QED BY <2>1 DEF FirstMention
<1>2. CASE Commands
  <2> SUFFICES ASSUME NEW j \in DOMAIN log', NEW k \in DOMAIN log',
                      log'[k].type \in Births, log'[j].id = log'[k].id, j < k
               PROVE  FALSE
    BY <1>2, LogGrows DEF FirstMention
  <2>0. /\ log \in Seq(EventsOf(topic)) /\ DOMAIN log = 1..Len(log) /\ Len(log) \in Nat
        /\ log' \in Seq(EventsOf(topic)) /\ DOMAIN log' = 1..Len(log') /\ Len(log') \in Nat
        /\ Len(log) <= Len(log')
    BY <1>2, LogGrows DEF TypeOK
  <2>1. CASE k \in 1..Len(log)
    <3>0. j \in 1..Len(log) /\ k \in 1..Len(log)
      BY <2>0, <2>1, SMTT(30)
    <3>1. log'[j] = log[j] /\ log'[k] = log[k] /\ j \in DOMAIN log /\ k \in DOMAIN log
      BY <1>2, <2>0, <3>0, LogGrows
    <3> QED BY <2>0, <3>1 DEF FirstMention
  <2>2. CASE k > Len(log)
    <3>1. MayFollow(log'[k]) /\ k = Len(log) + 1
      BY <1>2, <2>0, <2>2, LogGrows
    <3>2. j \in 1..Len(log)
      BY <2>0, <3>1, SMTT(30)
    <3>3. j \in DOMAIN log /\ log'[j] = log[j]
      BY <1>2, <2>0, <3>2, LogGrows
    <3> QED BY <3>1, <3>3, SMTT(30) DEF MayFollow, Mentioned
  <2> QED BY <2>0, <2>1, <2>2
<1> QED BY <1>1, <1>2, StepKinds

\* What of the log the projector has seen stays as it was.
LEMMA SeenStays ==
  ASSUME TypeOK, Counted, [Next]_vars
  PROVE  /\ seen \in Nat /\ seen' \in Nat /\ seen <= seen' /\ seen <= Len(log) /\ Len(log) \in Nat
         /\ \A k \in 1..seen : log'[k] = log[k]
<1>1. seen \in Nat /\ seen <= Len(log) /\ Len(log) \in Nat
  BY DEF TypeOK
<1>2. CASE Project \/ Replay
  BY <1>1, <1>2, Projects DEF Replay, TypeOK
<1>3. CASE Commands
  <2>1. seen' = seen
    BY <1>3 DEF Commands, OnlyCommands
  <2> QED BY <1>1, <1>3, <2>1, LogGrows
<1> QED BY <1>2, <1>3, StepKinds

\* What each kind of effect leaves alone, and how it treats the rows it writes.
LEMMA Untouched ==
  ASSUME NEW d, NEW d2, NEW e, NEW at
  PROVE  /\ UserStep(d, d2, e) =>
              /\ d2.repos = d.repos /\ d2.issues = d.issues /\ d2.comments = d.comments
              /\ d2.counters = d.counters /\ d2.pulls = d.pulls
         /\ RepoStep(d, d2, e) =>
              /\ d2.users = d.users /\ d2.issues = d.issues /\ d2.comments = d.comments
              /\ d2.counters = d.counters /\ d2.pulls = d.pulls
         /\ IssueStep(d, d2, e, at) =>
              /\ d2.users = d.users /\ d2.repos = d.repos /\ d2.pulls = d.pulls
              /\ \/ e.type = "opened" /\ Inserted(d.issues, d2.issues, e.id, IssueRow(e.value))
                 \/ \E row : Changed(d.issues, d2.issues, e.id, row)
         /\ PullStep(d, d2, e, at) =>
              /\ d2.users = d.users /\ d2.repos = d.repos /\ d2.issues = d.issues
              /\ d2.comments = d.comments /\ d2.counters = d.counters
              /\ \/ d2.pulls = d.pulls
                 \/ e.type = "opened" /\ Inserted(d.pulls, d2.pulls, e.id, PullRow(e.head, e.base))
                 \/ \E row : Changed(d.pulls, d2.pulls, e.id, row)
<1>0. DOMAIN Empty = {"users", "repos", "issues", "comments", "counters", "pulls", "reviews"}
  BY DEF Empty
<1>s. ASSUME NEW w, Same(d, d2, w)
      PROVE  /\ "users" \notin w => d2.users = d.users
             /\ "repos" \notin w => d2.repos = d.repos
             /\ "issues" \notin w => d2.issues = d.issues
             /\ "comments" \notin w => d2.comments = d.comments
             /\ "counters" \notin w => d2.counters = d.counters
             /\ "pulls" \notin w => d2.pulls = d.pulls
  BY <1>0, <1>s DEF Same
<1>1. ASSUME UserStep(d, d2, e)
      PROVE  /\ d2.repos = d.repos /\ d2.issues = d.issues /\ d2.comments = d.comments
             /\ d2.counters = d.counters /\ d2.pulls = d.pulls
  BY <1>s, <1>1 DEF UserStep
<1>2. ASSUME RepoStep(d, d2, e)
      PROVE  /\ d2.users = d.users /\ d2.issues = d.issues /\ d2.comments = d.comments
             /\ d2.counters = d.counters /\ d2.pulls = d.pulls
  BY <1>s, <1>2 DEF RepoStep
<1>3. ASSUME IssueStep(d, d2, e, at)
      PROVE  /\ d2.users = d.users /\ d2.repos = d.repos /\ d2.pulls = d.pulls
             /\ \/ e.type = "opened" /\ Inserted(d.issues, d2.issues, e.id, IssueRow(e.value))
                \/ \E row : Changed(d.issues, d2.issues, e.id, row)
  <2>1. \E w \in {{"issues", "counters"}, {"issues"}, {"issues", "comments"}} : Same(d, d2, w)
    BY <1>3 DEF IssueStep
  <2>2. \/ e.type = "opened" /\ Inserted(d.issues, d2.issues, e.id, IssueRow(e.value))
        \/ \E row : Changed(d.issues, d2.issues, e.id, row)
    BY <1>3, Zenon DEF IssueStep
  <2> QED BY <1>s, <2>1, <2>2
<1>4. ASSUME PullStep(d, d2, e, at)
      PROVE  /\ d2.users = d.users /\ d2.repos = d.repos /\ d2.issues = d.issues
             /\ d2.comments = d.comments /\ d2.counters = d.counters
             /\ \/ d2.pulls = d.pulls
                \/ e.type = "opened" /\ Inserted(d.pulls, d2.pulls, e.id, PullRow(e.head, e.base))
                \/ \E row : Changed(d.pulls, d2.pulls, e.id, row)
  <2>1. \/ Same(d, d2, {"pulls"})
        \/ Same(d, d2, {"reviews"})
    BY <1>4 DEF PullStep
  <2>2. \/ Same(d, d2, {"reviews"})
        \/ e.type = "opened" /\ Inserted(d.pulls, d2.pulls, e.id, PullRow(e.head, e.base))
        \/ \E row : Changed(d.pulls, d2.pulls, e.id, row)
    BY <1>4, Zenon DEF PullStep
  <2> QED BY <1>s, <2>1, <2>2
<1> QED BY <1>1, <1>2, <1>3, <1>4

\* Which rows a projected event can add.
LEMMA RowsAdded ==
  ASSUME TypeOK, Counted, Project
  PROVE  LET e == log[applied + 1]
         IN  /\ \A u \in DOMAIN db'.users :
                  \/ u \in DOMAIN db.users /\ db'.users[u].name = db.users[u].name
                  \/ u = e.id /\ e.type = "registered" /\ e.value = db'.users[u].name
             /\ \A i \in DOMAIN db'.issues : i \in DOMAIN db.issues \/ (i = e.id /\ e.type = "opened")
             /\ \A p \in DOMAIN db'.pulls : p \in DOMAIN db.pulls \/ (p = e.id /\ e.type = "opened")
<1> DEFINE e == log[applied + 1]
<1>0. Effect(db, db', e, applied + 1)
  BY Projects
<1>a. \A u \in DOMAIN db.users : db.users[u] \in Users
  BY DEF TypeOK, DbOK, IsTable
<1> HIDE DEF e
<1>1. \A u \in DOMAIN db'.users :
        \/ u \in DOMAIN db.users /\ db'.users[u].name = db.users[u].name
        \/ u = e.id /\ e.type = "registered" /\ e.value = db'.users[u].name
  <2>1. CASE UserStep(db, db', e)
    <3>1. CASE e.type = "registered" /\ e.value \in Values
               /\ Inserted(db.users, db'.users, e.id, NewUser(e.value))
      <4>1. NewUser(e.value).name = e.value
        BY <3>1, UserRowTypes
      <4> QED BY <3>1, <4>1 DEF Inserted
    <3>2. CASE e.type = "profile_updated" /\ e.value \in Values
               /\ Changed(db.users, db'.users, e.id, [db.users[e.id] EXCEPT !.profile = e.value])
      <4>1. e.id \in DOMAIN db.users =>
              [db.users[e.id] EXCEPT !.profile = e.value].name = db.users[e.id].name
        BY <1>a, <3>2, UserRowTypes
      <4> QED BY <3>2, <4>1 DEF Changed
    <3>3. CASE e.type = "deactivated"
               /\ Changed(db.users, db'.users, e.id, [db.users[e.id] EXCEPT !.state = "deactivated"])
      <4>1. e.id \in DOMAIN db.users =>
              [db.users[e.id] EXCEPT !.state = "deactivated"].name = db.users[e.id].name
        BY <1>a, <3>3, UserRowTypes
      <4> QED BY <3>3, <4>1 DEF Changed
    <3> QED BY <2>1, <3>1, <3>2, <3>3 DEF UserStep
  <2>2. CASE db' = db \/ RepoStep(db, db', e) \/ IssueStep(db, db', e, applied + 1)
             \/ PullStep(db, db', e, applied + 1)
    BY <2>2, Untouched
  <2> QED BY <1>0, <2>1, <2>2 DEF Effect
<1>2. \A i \in DOMAIN db'.issues : i \in DOMAIN db.issues \/ (i = e.id /\ e.type = "opened")
  <2>1. CASE IssueStep(db, db', e, applied + 1)
    BY <2>1, Untouched DEF Inserted, Changed
  <2>2. CASE db' = db \/ RepoStep(db, db', e) \/ UserStep(db, db', e)
             \/ PullStep(db, db', e, applied + 1)
    BY <2>2, Untouched
  <2> QED BY <1>0, <2>1, <2>2 DEF Effect
<1>3. \A p \in DOMAIN db'.pulls : p \in DOMAIN db.pulls \/ (p = e.id /\ e.type = "opened")
  <2>1. CASE PullStep(db, db', e, applied + 1)
    BY <2>1, Untouched DEF Inserted, Changed
  <2>2. CASE db' = db \/ RepoStep(db, db', e) \/ UserStep(db, db', e)
             \/ IssueStep(db, db', e, applied + 1)
    BY <2>2, Untouched
  <2> QED BY <1>0, <2>1, <2>2 DEF Effect
<1> QED BY <1>1, <1>2, <1>3 DEF e

LEMMA RowsAreBornStep ==
  ASSUME TypeOK, RowsAreBorn, Counted, [Next]_vars
  PROVE  RowsAreBorn'
<1>0. /\ seen \in Nat /\ seen' \in Nat /\ seen <= seen'
      /\ \A k \in 1..seen : log'[k] = log[k]
  BY SeenStays
<1>1. \A j, k \in DOMAIN log' :
        log'[j].type = "registered" /\ log'[k].type = "registered" /\ log'[j].value = log'[k].value
        => j = k
  <2>1. CASE log' = log
    BY <2>1 DEF RowsAreBorn
  <2>2. CASE Commands
    <3> SUFFICES ASSUME NEW j \in DOMAIN log', NEW k \in DOMAIN log',
                        log'[j].type = "registered", log'[k].type = "registered",
                        log'[j].value = log'[k].value, j < k
                 PROVE  FALSE
      BY <2>2, LogGrows
    <3>0. /\ log \in Seq(EventsOf(topic)) /\ DOMAIN log = 1..Len(log) /\ Len(log) \in Nat
          /\ log' \in Seq(EventsOf(topic)) /\ DOMAIN log' = 1..Len(log') /\ Len(log') \in Nat
      BY <2>2, LogGrows DEF TypeOK
    <3>1. CASE k \in 1..Len(log)
      <4>0. j \in 1..Len(log) /\ k \in 1..Len(log)
        BY <3>0, <3>1
      <4>1. log'[j] = log[j] /\ log'[k] = log[k] /\ j \in DOMAIN log /\ k \in DOMAIN log
        BY <2>2, <3>0, <4>0, LogGrows
      <4> QED BY <3>0, <4>1 DEF RowsAreBorn
    <3>2. CASE k > Len(log)
      <4>1. MayFollow(log'[k]) /\ k = Len(log) + 1
        BY <2>2, <3>0, <3>2, LogGrows
      <4>2. j \in 1..Len(log)
        BY <3>0, <4>1, SMTT(30)
      <4>3. j \in DOMAIN log /\ log'[j] = log[j]
        BY <2>2, <3>0, <4>2, LogGrows
      <4> QED BY <4>1, <4>3, SMTT(30) DEF MayFollow
    <3> QED BY <3>0, <3>1, <3>2
  <2> QED BY <2>1, <2>2, StepKinds DEF Project, Replay
<1>2. CASE Project
  <2> DEFINE e == log[applied + 1]
  <2>1. log' = log /\ applied + 1 \in 1..seen'
    BY <1>2, Projects DEF TypeOK
  <2>2. \A u \in DOMAIN db'.users : \E k \in 1..seen' :
          log'[k].type = "registered" /\ log'[k].id = u /\ log'[k].value = db'.users[u].name
    <3> TAKE u \in DOMAIN db'.users
    <3>1. CASE u \in DOMAIN db.users /\ db'.users[u].name = db.users[u].name
      BY <1>0, <3>1 DEF RowsAreBorn
    <3>2. CASE u = e.id /\ e.type = "registered" /\ e.value = db'.users[u].name
      BY <2>1, <3>2
    <3> QED BY <1>2, <3>1, <3>2, RowsAdded
  <2>3. \A i \in DOMAIN db'.issues : \E k \in 1..seen' : log'[k].type = "opened" /\ log'[k].id = i
    <3> TAKE i \in DOMAIN db'.issues
    <3>1. CASE i \in DOMAIN db.issues
      BY <1>0, <3>1 DEF RowsAreBorn
    <3>2. CASE i = e.id /\ e.type = "opened"
      BY <2>1, <3>2
    <3> QED BY <1>2, <3>1, <3>2, RowsAdded
  <2>4. \A p \in DOMAIN db'.pulls : \E k \in 1..seen' : log'[k].type = "opened" /\ log'[k].id = p
    <3> TAKE p \in DOMAIN db'.pulls
    <3>1. CASE p \in DOMAIN db.pulls
      BY <1>0, <3>1 DEF RowsAreBorn
    <3>2. CASE p = e.id /\ e.type = "opened"
      BY <2>1, <3>2
    <3> QED BY <1>2, <3>1, <3>2, RowsAdded
  <2> QED BY <1>1, <2>2, <2>3, <2>4 DEF RowsAreBorn
<1>3. CASE Replay \/ Commands
  <2>1. (db' = db \/ db' = Empty) /\ seen' = seen
    BY <1>3 DEF Replay, Commands, OnlyCommands
  <2> QED BY <1>0, <1>1, <2>1, EmptyTables DEF RowsAreBorn
<1> QED BY <1>2, <1>3, StepKinds

\* What a projected event leaves of a verdict.
LEMMA VerdictsKept ==
  ASSUME TypeOK, Counted, Project
  PROVE  LET e == log[applied + 1]
         IN  \A p \in DOMAIN db'.pulls : db'.pulls[p].check # None =>
               \/ p \in DOMAIN db.pulls /\ db'.pulls[p].check = db.pulls[p].check
               \/ e.type = "mergeability_computed" /\ db'.pulls[p].check = e.check
<1> DEFINE e == log[applied + 1]
           at == applied + 1
<1>0. Effect(db, db', e, at) /\ at \in Nat
  BY Projects DEF TypeOK
<1>a. \A p \in DOMAIN db.pulls : db.pulls[p] \in Pulls
  BY DEF TypeOK, DbOK, IsTable
<1> HIDE DEF e, at
<1> SUFFICES ASSUME NEW p \in DOMAIN db'.pulls, db'.pulls[p].check # None
             PROVE  \/ p \in DOMAIN db.pulls /\ db'.pulls[p].check = db.pulls[p].check
                    \/ e.type = "mergeability_computed" /\ db'.pulls[p].check = e.check
  BY DEF e
<1>b. ASSUME NEW row, Changed(db.pulls, db'.pulls, e.id, row),
             e.id \in DOMAIN db.pulls => row.check \in {None, db.pulls[e.id].check}
      PROVE  p \in DOMAIN db.pulls /\ db'.pulls[p].check = db.pulls[p].check
  BY <1>b DEF Changed
<1>1. CASE PullStep(db, db', e, at)
  <2>1. CASE e.head \in Heads /\ e.base \in Bases
             /\ Inserted(db.pulls, db'.pulls, e.id, PullRow(e.head, e.base))
    <3>1. PullRow(e.head, e.base).check = None
      BY DEF PullRow
    <3> QED BY <2>1, <3>1 DEF Inserted
  <2>2. CASE e.head \in Heads /\ e.base \in Bases
             /\ Changed(db.pulls, db'.pulls, e.id, SyncedPull(db.pulls[e.id], e.head, e.base))
    BY <1>a, <1>b, <2>2, PullRowTypes
  <2>3. CASE e.type = "mergeability_computed" /\ e.check \in Checks
             /\ Changed(db.pulls, db'.pulls, e.id, Checked(db.pulls[e.id], e.check))
    <3>1. e.id \in DOMAIN db.pulls =>
            Checked(db.pulls[e.id], e.check).check \in {db.pulls[e.id].check, e.check}
      BY <1>a, <2>3, PullRowTypes DEF Checked
    <3> QED BY <2>3, <3>1 DEF Changed
  <2>4. CASE Same(db, db', {"reviews"})
    <3>1. db'.pulls = db.pulls
      BY <2>4 DEF Same, Empty
    <3> QED BY <3>1
  <2>5. CASE Changed(db.pulls, db'.pulls, e.id, MergedPull(db.pulls[e.id], at))
    BY <1>0, <1>a, <1>b, <2>5, PullRowTypes
  <2>6. CASE Changed(db.pulls, db'.pulls, e.id, ClosePull(db.pulls[e.id], at))
    BY <1>0, <1>a, <1>b, <2>6, PullRowTypes
  <2>7. CASE Changed(db.pulls, db'.pulls, e.id, ReopenPull(db.pulls[e.id]))
    BY <1>a, <1>b, <2>7, PullRowTypes
  <2> QED BY <1>1, <2>1, <2>2, <2>3, <2>4, <2>5, <2>6, <2>7 DEF PullStep
<1>2. CASE db' = db \/ UserStep(db, db', e) \/ RepoStep(db, db', e) \/ IssueStep(db, db', e, at)
  BY <1>2, Untouched
<1> QED BY <1>0, <1>1, <1>2 DEF Effect

LEMMA ChecksTruthfulStep ==
  ASSUME TypeOK, ChecksTruthful, Counted, [Next]_vars
  PROVE  ChecksTruthful'
<1>1. CASE Project
  <2>1. log' = log /\ applied + 1 \in DOMAIN log
    BY <1>1, Projects DEF TypeOK
  <2>2. ASSUME NEW p \in DOMAIN db'.pulls, db'.pulls[p].check # None
        PROVE  Truthful(db'.pulls[p].check)
    BY <1>1, <2>1, <2>2, VerdictsKept DEF ChecksTruthful
  <2> QED BY <2>1, <2>2 DEF ChecksTruthful, Truthful, TryMerge
<1>2. CASE Replay \/ Commands
  <2>1. db' = db \/ db' = Empty
    BY <1>2 DEF Replay, Commands, OnlyCommands
  <2>2. ASSUME NEW k \in DOMAIN log', log'[k].type = "mergeability_computed"
        PROVE  Truthful(log'[k].check)
    <3>1. CASE Replay
      BY <2>2, <3>1 DEF Replay, ChecksTruthful
    <3>2. CASE Commands
      <4>0. /\ DOMAIN log' = 1..Len(log') /\ DOMAIN log = 1..Len(log) /\ Len(log) \in Nat
            /\ k \in 1..Len(log') /\ k \in Nat
        BY <3>2, LogGrows DEF TypeOK
      <4>1. CASE k <= Len(log)
        <5>1. k \in 1..Len(log)
          BY <4>0, <4>1
        <5>2. log'[k] = log[k]
          BY <3>2, <5>1, LogGrows, SMTT(30)
        <5> QED BY <2>2, <4>0, <5>1, <5>2 DEF ChecksTruthful
      <4>2. CASE k > Len(log)
        BY <2>2, <3>2, <4>0, <4>2, LogGrows DEF MayFollow
      <4> QED BY <4>0, <4>1, <4>2
    <3> QED BY <1>2, <3>1, <3>2
  <2> QED BY <2>1, <2>2, EmptyTables DEF ChecksTruthful, Truthful, TryMerge
<1> QED BY <1>1, <1>2, StepKinds

LEMMA CountedStep ==
  ASSUME TypeOK, Counted, [Next]_vars
  PROVE  Counted'
<1>c. Counted = (IsFiniteSet(DOMAIN db.issues) /\ db.counters = Counts(db))
  BY DEF Counted, In, Counts
<1>d. Counted' = (IsFiniteSet(DOMAIN db'.issues) /\ db'.counters = Counts(db'))
  BY DEF Counted, In, Counts
<1>a. \A i \in DOMAIN db.issues : db.issues[i] \in Issues
  BY DEF TypeOK, DbOK, IsTable
<1>k. ASSUME DOMAIN db'.issues = DOMAIN db.issues,
             \A i \in DOMAIN db.issues : db'.issues[i].state = db.issues[i].state
      PROVE  Counts(db') = Counts(db)
  <2>1. \A s : {i \in DOMAIN db'.issues : db'.issues[i].state = s}
                 = {i \in DOMAIN db.issues : db.issues[i].state = s}
    BY <1>k
  <2> QED BY <2>1 DEF Counts
<1>1. CASE Project
  <2> DEFINE e == log[applied + 1]
             at == applied + 1
  <2>0. Effect(db, db', e, at) /\ at \in Nat /\ DbOK(db', Len(log)) /\ Len(log) \in Nat
    BY <1>1, Projects DEF TypeOK
  <2> HIDE DEF e, at
  <2>1. CASE IssueStep(db, db', e, at)
    <3>1. IsFiniteSet(DOMAIN db'.issues)
      BY <2>1 DEF IssueStep
    <3>2. CASE db'.counters = Counts(db')
      BY <1>d, <3>1, <3>2
    <3>3. CASE Same(db, db', {"issues"}) /\ e.value \in Values
               /\ Changed(db.issues, db'.issues, e.id, [db.issues[e.id] EXCEPT !.title = e.value])
      <4>1. db'.counters = db.counters
        BY <3>3 DEF Same, Empty
      <4>2. e.id \in DOMAIN db.issues =>
              [db.issues[e.id] EXCEPT !.title = e.value].state = db.issues[e.id].state
        BY <1>a, <3>3, IssueRowTypes
      <4>3. Counts(db') = Counts(db)
        BY <1>k, <3>3, <4>2 DEF Changed
      <4> QED BY <1>c, <1>d, <3>1, <4>1, <4>3
    <3>4. CASE Same(db, db', {"issues", "comments"})
               /\ Changed(db.issues, db'.issues, e.id,
                    [db.issues[e.id] EXCEPT !.comment_count = Cardinality(Comments(db', e.id))])
      <4>1. db'.counters = db.counters
        BY <3>4 DEF Same, Empty
      <4>2. \A n : \A row \in Issues : [row EXCEPT !.comment_count = n].state = row.state
        BY DEF Issues
      <4>3. e.id \in DOMAIN db.issues =>
              [db.issues[e.id] EXCEPT !.comment_count = Cardinality(Comments(db', e.id))].state
                = db.issues[e.id].state
        BY <1>a, <4>2
      <4>4. Counts(db') = Counts(db)
        BY <1>k, <3>4, <4>3 DEF Changed
      <4> QED BY <1>c, <1>d, <3>1, <4>1, <4>4
    <3> QED BY <2>1, <3>2, <3>3, <3>4 DEF IssueStep
  <2>2. CASE db' = db
    BY <1>c, <1>d, <2>2
  <2>3. CASE UserStep(db, db', e) \/ RepoStep(db, db', e) \/ PullStep(db, db', e, at)
    <3>1. db'.issues = db.issues /\ db'.counters = db.counters
      BY <2>3, Untouched
    <3> QED BY <1>c, <1>d, <1>k, <3>1
  <2> QED BY <2>0, <2>1, <2>2, <2>3 DEF Effect
<1>2. CASE Replay \/ Commands
  <2>1. CASE db' = db
    BY <2>1 DEF Counted, In
  <2>2. CASE db' = Empty
    <3>1. DOMAIN db'.issues = {} /\ db'.counters = [open |-> 0, closed |-> 0]
      BY <2>2, EmptyTables
    <3>2. \A s : {i \in DOMAIN db'.issues : db'.issues[i].state = s} = {}
      BY <3>1
    <3> QED BY <1>d, <3>1, <3>2, FS_EmptySet DEF Counts
  <2> QED BY <1>2, <2>1, <2>2 DEF Replay, Commands, OnlyCommands
<1> QED BY <1>1, <1>2, StepKinds

LEMMA NamesStep ==
  ASSUME TypeOK, Counted, NamesAreUnique(db), [Next]_vars
  PROVE  NamesAreUnique(db')
<1>1. CASE Project
  BY <1>1, Projects
<1>2. CASE db' = db \/ db' = Empty
  BY <1>2, EmptyTables DEF NamesAreUnique
<1> QED BY <1>1, <1>2, StepKinds DEF Replay, Commands, OnlyCommands

\* An issue's comments, while no comment on it is added.
LEMMA SameComments ==
  ASSUME NEW d, NEW d2, NEW i, DOMAIN d.comments \subseteq DOMAIN d2.comments,
         \A c \in DOMAIN d.comments : d2.comments[c] = d.comments[c],
         \A c \in DOMAIN d2.comments \ DOMAIN d.comments : d2.comments[c] # i
  PROVE  Comments(d2, i) = Comments(d, i)
<1>1. {c \in DOMAIN d2.comments : d2.comments[c] = i} = {c \in DOMAIN d.comments : d.comments[c] = i}
  OBVIOUS
<1> QED BY <1>1 DEF Comments

\* What a projected event does to comments and to their number.
LEMMA CommentsProjected ==
  ASSUME TypeOK, FirstMention, CommentsCounted, Counted, Project
  PROVE  CommentsCounted'
<1> DEFINE e == log[applied + 1]
           at == applied + 1
           Later(i) == \E k \in applied' + 1..seen' : log[k].type = "commented" /\ log[k].id = i
<1>0. /\ Effect(db, db', e, at) /\ at \in 1..Len(log) /\ DOMAIN log = 1..Len(log)
      /\ applied \in Nat /\ seen \in Nat /\ seen' \in Nat /\ seen <= seen' /\ at <= seen'
      /\ applied' = at /\ log' = log /\ e.id \in Ids /\ Len(log) \in Nat
      /\ seen' <= Len(log)
  BY Projects DEF TypeOK
<1>n. at \in Nat
  BY <1>0
<1>a. /\ \A i \in DOMAIN db.issues : db.issues[i] \in Issues
      /\ IsTable(db.comments, 1..Len(log), Ids)
  BY DEF TypeOK, DbOK, IsTable
<1>b. \A c \in DOMAIN db.comments :
        c \in 1..Len(log) /\ c <= seen' /\ log[c].type = "commented" /\ log[c].id = db.comments[c]
  BY <1>0, <1>a DEF CommentsCounted, IsTable
<1>l. ASSUME NEW i \in DOMAIN db.issues, ~Recounted(i), ~(e.type = "commented" /\ e.id = i)
      PROVE  Later(i)
  <2>1. PICK k \in applied + 1..seen : log[k].type = "commented" /\ log[k].id = i
    BY <1>l DEF CommentsCounted
  <2>2. k # applied + 1
    BY <1>l, <2>1
  <2>3. k \in applied' + 1..seen'
    BY <1>0, <2>1, <2>2
  <2> QED BY <2>1, <2>3
<1> HIDE DEF e, at
<1> DEFINE First == \A c \in DOMAIN db'.comments :
             c <= seen' /\ log[c].type = "commented" /\ log[c].id = db'.comments[c]
           Count(i) == db'.issues[i].comment_count = Cardinality(Comments(db', i)) \/ Later(i)
<1> SUFFICES First /\ \A i \in DOMAIN db'.issues : Count(i)
  BY <1>0 DEF CommentsCounted, Recounted
<1>1. ASSUME db'.comments = db.comments, DOMAIN db'.issues = DOMAIN db.issues, e.type # "commented",
             \A i \in DOMAIN db.issues : db'.issues[i].comment_count = db.issues[i].comment_count
      PROVE  First /\ \A i \in DOMAIN db'.issues : Count(i)
  <2>1. \A i : Comments(db', i) = Comments(db, i)
    BY <1>1 DEF Comments
  <2>2. ASSUME NEW i \in DOMAIN db'.issues
        PROVE  Count(i)
    <3>1. CASE Recounted(i)
      BY <1>1, <2>1, <3>1 DEF Recounted
    <3>2. CASE ~Recounted(i)
      BY <1>1, <1>l, <3>2
    <3> QED BY <3>1, <3>2
  <2> HIDE DEF Later
  <2> QED BY <1>1, <1>b, <2>2
<1>2. CASE IssueStep(db, db', e, at)
  <2>0. "comments" \in DOMAIN Empty
    BY DEF Empty
  <2>1. ASSUME Same(db, db', {"issues", "counters"}) \/ Same(db, db', {"issues"}),
               e.type # "commented", NEW row,
               Changed(db.issues, db'.issues, e.id, row),
               e.id \in DOMAIN db.issues => row.comment_count = db.issues[e.id].comment_count
        PROVE  First /\ \A i \in DOMAIN db'.issues : Count(i)
    <3>1. db'.comments = db.comments
      BY <2>0, <2>1 DEF Same
    <3>2. DOMAIN db'.issues = DOMAIN db.issues
      BY <2>1 DEF Changed
    <3>3. \A i \in DOMAIN db.issues : db'.issues[i].comment_count = db.issues[i].comment_count
      BY <2>1 DEF Changed
    <3> HIDE DEF First, Count
    <3> QED BY <1>1, <2>1, <3>1, <3>2, <3>3
  <2>2. CASE /\ Same(db, db', {"issues", "counters"})
             /\ e.type = "opened" /\ e.value \in Values
             /\ Inserted(db.issues, db'.issues, e.id, IssueRow(e.value))
    <3>1. db'.comments = db.comments
      BY <2>0, <2>2 DEF Same
    <3>2. \A i : Comments(db', i) = Comments(db, i)
      BY <3>1 DEF Comments
    <3>3. ASSUME NEW i \in DOMAIN db.issues, i # e.id
          PROVE  Count(i)
      <4>1. db'.issues[i] = db.issues[i]
        BY <2>2, <3>3 DEF Inserted
      <4>2. CASE Recounted(i)
        BY <3>2, <4>1, <4>2 DEF Recounted
      <4>3. CASE ~Recounted(i)
        BY <1>l, <3>3, <4>3
      <4> QED BY <4>2, <4>3
    <3>4. Count(e.id)
      <4>1. CASE Comments(db, e.id) = {}
        <5>1. db'.issues[e.id].comment_count = 0
          BY <2>2 DEF Inserted, IssueRow
        <5> QED BY <3>2, <4>1, <5>1, FS_EmptySet
      <4>2. CASE Comments(db, e.id) # {}
        <5>1. PICK c \in DOMAIN db.comments : db.comments[c] = e.id
          BY <4>2 DEF Comments
        <5>2. c \in 1..Len(log) /\ c <= seen' /\ log[c].type = "commented" /\ log[c].id = e.id
          BY <1>b, <5>1
        <5>3. at <= c /\ at # c
          BY <1>0, <2>2, <5>2 DEF FirstMention, Births, e, at
        <5>4. c \in applied' + 1..seen'
          BY <1>0, <5>2, <5>3
        <5> QED BY <5>2, <5>4
      <4> QED BY <4>1, <4>2
    <3>5. DOMAIN db'.issues = DOMAIN db.issues \cup {e.id}
      BY <2>2 DEF Inserted
    <3> HIDE DEF Count
    <3> QED BY <1>b, <3>1, <3>3, <3>4, <3>5
  <2>3. CASE Same(db, db', {"issues", "counters"}) /\ e.type = "closed"
             /\ Changed(db.issues, db'.issues, e.id, ClosedIssue(db.issues[e.id], at))
    <3>1. e.id \in DOMAIN db.issues =>
            ClosedIssue(db.issues[e.id], at).comment_count = db.issues[e.id].comment_count
      BY <1>n, <1>a, IssueRowTypes
    <3> HIDE DEF First, Count
    <3> QED BY <2>1, <2>3, <3>1
  <2>4. CASE Same(db, db', {"issues", "counters"}) /\ e.type = "reopened"
             /\ Changed(db.issues, db'.issues, e.id, ReopenedIssue(db.issues[e.id]))
    <3>1. e.id \in DOMAIN db.issues =>
            ReopenedIssue(db.issues[e.id]).comment_count = db.issues[e.id].comment_count
      BY <1>n, <1>a, IssueRowTypes
    <3> HIDE DEF First, Count
    <3> QED BY <2>1, <2>4, <3>1
  <2>5. CASE e.type = "title_changed" /\ e.value \in Values /\ Same(db, db', {"issues"})
             /\ Changed(db.issues, db'.issues, e.id, [db.issues[e.id] EXCEPT !.title = e.value])
    <3>1. e.id \in DOMAIN db.issues =>
            [db.issues[e.id] EXCEPT !.title = e.value].comment_count
              = db.issues[e.id].comment_count
      BY <1>a, <2>5, IssueRowTypes
    <3> HIDE DEF First, Count
    <3> QED BY <2>1, <2>5, <3>1
  <2>6. CASE /\ e.type = "commented" /\ Same(db, db', {"issues", "comments"})
             /\ db'.comments = InsertOnce(db.comments, at, e.id)
             /\ Changed(db.issues, db'.issues, e.id,
                  [db.issues[e.id] EXCEPT !.comment_count = Cardinality(Comments(db', e.id))])
    <3>1. /\ DOMAIN db'.comments = DOMAIN db.comments \cup {at}
          /\ \A c \in DOMAIN db.comments : db'.comments[c] = db.comments[c]
          /\ at \notin DOMAIN db.comments => db'.comments[at] = e.id
      <4>1. IsTable(db.comments, 1..Len(log), Ids) /\ at \in 1..Len(log) /\ e.id \in Ids
            /\ Len(log) \in Nat
        BY <1>0, <1>a
      <4>a. ASSUME NEW t, NEW n \in Nat, IsTable(t, 1..n, Ids), NEW k \in 1..n, NEW id \in Ids
            PROVE  /\ DOMAIN InsertOnce(t, k, id) = DOMAIN t \cup {k}
                   /\ \A c \in DOMAIN t : InsertOnce(t, k, id)[c] = t[c]
                   /\ k \notin DOMAIN t => InsertOnce(t, k, id)[k] = id
        BY <4>a, InsertOnceTable
      <4> DEFINE t2 == InsertOnce(db.comments, at, e.id)
      <4>2. /\ DOMAIN t2 = DOMAIN db.comments \cup {at}
            /\ \A c \in DOMAIN db.comments : t2[c] = db.comments[c]
            /\ at \notin DOMAIN db.comments => t2[at] = e.id
        BY <4>1, <4>a
      <4> HIDE DEF t2
      <4>3. db'.comments = t2
        BY <2>6 DEF t2
      <4> QED BY <4>2, <4>3
    <3>2. First
      BY <1>0, <1>b, <2>6, <3>1 DEF e, at
    <3>3. ASSUME NEW i \in DOMAIN db.issues, i # e.id
          PROVE  Count(i)
      <4>1. db'.issues[i] = db.issues[i]
        BY <2>6, <3>3 DEF Changed
      <4>2. Comments(db', i) = Comments(db, i)
        BY <3>1, <3>3, SameComments
      <4>3. CASE Recounted(i)
        BY <4>1, <4>2, <4>3 DEF Recounted
      <4>4. CASE ~Recounted(i)
        BY <1>l, <3>3, <4>4
      <4> QED BY <4>3, <4>4
    <3>4. ASSUME e.id \in DOMAIN db.issues
          PROVE  Count(e.id)
      <4> DEFINE n == Cardinality(Comments(db', e.id))
      <4>1. db'.issues[e.id] = [db.issues[e.id] EXCEPT !.comment_count = n]
        BY <2>6, <3>4 DEF Changed
      <4>2. db.issues[e.id] \in Issues
        BY <1>a, <3>4
      <4> HIDE DEF n
      <4>3. db'.issues[e.id].comment_count = n
        BY <4>1, <4>2 DEF Issues
      <4> QED BY <4>3 DEF n
    <3>5. DOMAIN db'.issues = DOMAIN db.issues
      BY <2>6 DEF Changed
    <3> HIDE DEF First, Count
    <3> QED BY <3>2, <3>3, <3>4, <3>5
  <2> HIDE DEF First, Count
  <2> QED BY <1>2, <2>2, <2>3, <2>4, <2>5, <2>6 DEF IssueStep
<1>3. CASE (db' = db /\ e.type \in {"unknown", "collaborator"}) \/ UserStep(db, db', e)
             \/ RepoStep(db, db', e) \/ PullStep(db, db', e, at)
  <2>1. db'.comments = db.comments /\ db'.issues = db.issues
    BY <1>3, Untouched
  <2>2. e.type # "commented"
    BY <1>3 DEF UserStep, RepoStep, PullStep
  <2> HIDE DEF First, Count
  <2> QED BY <1>1, <2>1, <2>2
<1> HIDE DEF First, Count
<1> QED BY <1>0, <1>2, <1>3 DEF Effect

LEMMA CommentsCountedStep ==
  ASSUME TypeOK, FirstMention, CommentsCounted, Counted, [Next]_vars
  PROVE  CommentsCounted'
<1>1. CASE Project
  BY <1>1, CommentsProjected
<1>2. CASE Replay \/ Commands
  <2>0. /\ seen' = seen /\ (db' = db \/ db' = Empty)
        /\ applied' \in {0, applied} /\ applied \in Nat /\ seen \in Nat
    BY <1>2 DEF Replay, Commands, OnlyCommands, TypeOK
  <2>1. \A k \in 1..seen : log'[k] = log[k]
    BY SeenStays
  <2>2. CASE db' = Empty
    BY <2>2, EmptyTables DEF CommentsCounted
  <2>3. CASE db' = db
    <3>1. \A c \in DOMAIN db.comments : c \in 1..seen
      <4>1. \A c \in DOMAIN db.comments : c \in 1..Len(log)
        BY DEF TypeOK, DbOK, IsTable
      <4> QED BY <2>0, <4>1 DEF CommentsCounted, TypeOK
    <3>2. \A c \in DOMAIN db'.comments :
            c <= seen' /\ log'[c].type = "commented" /\ log'[c].id = db'.comments[c]
      BY <2>0, <2>1, <2>3, <3>1 DEF CommentsCounted
    <3>3. ASSUME NEW i \in DOMAIN db'.issues
          PROVE  Recounted(i)' \/ \E k \in applied' + 1..seen' :
                                    log'[k].type = "commented" /\ log'[k].id = i
      <4>1. CASE Recounted(i)
        BY <2>3, <4>1 DEF Recounted, Comments
      <4>2. CASE ~Recounted(i)
        <5>1. PICK k \in applied + 1..seen : log[k].type = "commented" /\ log[k].id = i
          BY <2>3, <3>3, <4>2 DEF CommentsCounted
        <5>2. k \in applied' + 1..seen' /\ k \in 1..seen
          BY <2>0, <5>1
        <5> QED BY <2>1, <5>1, <5>2
      <4> QED BY <4>1, <4>2
    <3> QED BY <3>2, <3>3 DEF CommentsCounted
  <2> QED BY <2>0, <2>2, <2>3
<1> QED BY <1>1, <1>2, StepKinds

LEMMA InitInvariant ==
  ASSUME Init
  PROVE  IInv
<1>0. /\ topic \in Topics /\ log = <<>> /\ applied = 0 /\ seen = 0 /\ db = Empty /\ trials = {}
      /\ forms = {} /\ replays = 0
  BY DEF Init
<1>1. TypeOK
  <2>1. log \in Seq(EventsOf(topic)) /\ Len(log) = 0
    BY <1>0
  <2> QED BY <1>0, <2>1, EmptyTables, BoundsAssumption DEF TypeOK
<1>2. DOMAIN log = {}
  BY <1>0
<1>3. FirstMention
  BY <1>2 DEF FirstMention
<1>4. RowsAreBorn
  BY <1>0, <1>2, EmptyTables DEF RowsAreBorn
<1>5. ChecksTruthful
  BY <1>0, <1>2, EmptyTables DEF ChecksTruthful
<1>6. Counted
  <2>1. \A s : In(s) = {}
    BY <1>0, EmptyTables DEF In
  <2> QED BY <1>0, <2>1, EmptyTables, FS_EmptySet DEF Counted
<1>7. CommentsCounted
  BY <1>0, EmptyTables DEF CommentsCounted
<1>8. NamesAreUnique(db)
  BY <1>0, EmptyTables DEF NamesAreUnique
<1> QED BY <1>1, <1>3, <1>4, <1>5, <1>6, <1>7, <1>8 DEF IInv

LEMMA StepInvariant ==
  ASSUME IInv, [Next]_vars
  PROVE  IInv'
<1> USE DEF IInv
<1>1. TypeOK' /\ Counted'
  BY TypeStep, CountedStep
<1>2. FirstMention' /\ RowsAreBorn'
  BY FirstMentionStep, RowsAreBornStep
<1>3. ChecksTruthful' /\ CommentsCounted'
  BY ChecksTruthfulStep, CommentsCountedStep
<1>4. NamesAreUnique(db')
  BY NamesStep
<1>5. NamesAreUnique(db)'
  BY <1>4 DEF NamesAreUnique
<1> QED BY <1>1, <1>2, <1>3, <1>5

-----------------------------------------------------------------------------
(***************************************************************************)
(* Theorems                                                                *)
(***************************************************************************)

\* The inductive invariant holds in every state.
THEOREM Invariant == Spec => []IInv
<1>1. Init => IInv
  BY InitInvariant
<1>2. IInv /\ [Next]_vars => IInv'
  BY StepInvariant
<1> QED BY <1>1, <1>2, PTL DEF Spec

\* Topics hold events of their kind, every table the rows its schema declares, and
\* the cursor stays inside its topic, through any replays.
THEOREM TypeCorrect == Spec => []TypeOK
<1>1. IInv => TypeOK
  BY DEF IInv
<1> QED BY <1>1, Invariant, PTL

\* A pull request never shows, or offers a merge on, a verdict git did not give
\* for the two commits it shows.
THEOREM VerdictsStayCurrent == Spec => []VerdictsAreCurrent
<1>1. ASSUME IInv
      PROVE  VerdictsAreCurrent
  <2> SUFFICES ASSUME NEW p \in DOMAIN db.pulls
               PROVE  LET pull == PullDetailPage(p)
                      IN  /\ pull.mergeable => TryMerge(pull.head, pull.base) = "clean"
                          /\ pull.conflicted => TryMerge(pull.head, pull.base) = "conflict"
                          /\ CanMerge(db.pulls[p]) => pull.label = "open" /\ pull.mergeable
    BY DEF VerdictsAreCurrent
  <2> DEFINE row == db.pulls[p]
             pull == PullDetailPage(p)
  <2>1. /\ pull.label = row.state /\ pull.head = row.head /\ pull.base = row.base
        /\ pull.mergeable = (Mergeability(row) = "clean")
        /\ pull.conflicted = (Mergeability(row) = "conflict")
    BY DEF PullDetailPage
  <2>2. row.check # None => row.check.verdict = TryMerge(row.check.head, row.check.base)
    BY <1>1 DEF IInv, ChecksTruthful, Truthful
  <2>3. Mergeability(row) # "unknown" => Mergeability(row) = TryMerge(row.head, row.base)
    BY <2>2 DEF Mergeability
  <2> HIDE DEF row, pull
  <2>4. CanMerge(row) => row.state = "open" /\ Mergeability(row) = "clean"
    BY DEF CanMerge
  <2> QED BY <2>1, <2>3, <2>4 DEF row, pull
<1> QED BY <1>1, Invariant, PTL

\* The counters are those of the rows in every state, and comment counts those of
\* the comments, up to a page, whenever no replay is going on.
THEOREM CountersStayTrue == Spec => []CountersTrue
<1>1. ASSUME IInv
      PROVE  CountersTrue
  <2>1. /\ db.counters.open = Cardinality(In("open"))
        /\ db.counters.closed = Cardinality(In("closed"))
        /\ db.counters = [open |-> Cardinality(In("open")), closed |-> Cardinality(In("closed"))]
    BY <1>1 DEF IInv, Counted
  <2>2. ASSUME applied = seen, NEW i \in DOMAIN db.issues
        PROVE  db.issues[i].comment_count = Cardinality(Comments(db, i))
    <3>1. applied + 1..seen = {}
      BY <1>1, <2>2 DEF IInv, TypeOK
    <3>2. Recounted(i)
      BY <1>1, <2>2, <3>1 DEF IInv, CommentsCounted
    <3> QED BY <3>2 DEF Recounted
  <2> QED BY <2>1, <2>2 DEF CountersTrue, In
<1> QED BY <1>1, Invariant, PTL

\* A name leads to one account, and a link of a list to the repository it was
\* listed for, during a replay over old rows too.
THEOREM LinksAlwaysLead == Spec => []LinksLead
<1>1. ASSUME IInv
      PROVE  LinksLead
  <2>1. ASSUME NEW u \in DOMAIN db.users
        PROVE  GetUser(db.users[u].name) = {u}
    <3>1. ASSUME NEW s \in DOMAIN db.users, db.users[s].name = db.users[u].name
          PROVE  s = u
      <4>0. 1..seen \subseteq DOMAIN log
        BY <1>1 DEF IInv, TypeOK
      <4>1. PICK k \in 1..seen :
              log[k].type = "registered" /\ log[k].id = u /\ log[k].value = db.users[u].name
        BY <1>1 DEF IInv, RowsAreBorn
      <4>2. PICK j \in 1..seen :
              log[j].type = "registered" /\ log[j].id = s /\ log[j].value = db.users[s].name
        BY <1>1 DEF IInv, RowsAreBorn
      <4>3. j = k
        BY <1>1, <3>1, <4>0, <4>1, <4>2 DEF IInv, RowsAreBorn
      <4> QED BY <4>1, <4>2, <4>3
    <3> QED BY <3>1 DEF GetUser
  <2>2. ASSUME NEW entry \in ProfilePage
        PROVE  OpenRepo(entry.link) = {entry.repo}
    <3>1. PICK r \in ForOwner(ListMax) : entry = [repo |-> r, link |-> db.repos[r].name]
      BY <2>2 DEF ProfilePage
    <3>2. r \in DOMAIN db.repos /\ ~db.repos[r].deleted
      BY DEF ForOwner
    <3>3. \A s \in DOMAIN db.repos : db.repos[s].name = db.repos[r].name => s = r
      BY <1>1, <3>2 DEF IInv, NamesAreUnique
    <3> QED BY <3>1, <3>2, <3>3 DEF OpenRepo, ByFullName
  <2> QED BY <2>1, <2>2 DEF LinksLead
<1> QED BY <1>1, Invariant, PTL

\* No event that is new to the tables takes a merge back.
LEMMA MergeStands ==
  ASSUME IInv, [Next]_vars, NEW p \in DOMAIN db.pulls, db.pulls[p].state = "merged", seen' > seen
  PROVE  db'.pulls[p].state = "merged"
<1> DEFINE e == log[applied + 1]
           at == applied + 1
<1>0. TypeOK /\ Counted
  BY DEF IInv
<1>1. Project
  <2>1. ~Replay /\ ~Commands
    BY <1>0 DEF TypeOK, Replay, Commands, OnlyCommands
  <2> QED BY <1>0, <2>1, StepKinds
<1>2. Effect(db, db', e, at) /\ at \in 1..Len(log) /\ seen' = at /\ seen \in Nat /\ DOMAIN log = 1..Len(log)
      /\ at \in Nat /\ Len(log) \in Nat
  BY <1>0, <1>1, Projects DEF TypeOK
<1>n. at \in Nat
  BY <1>2
<1>3. db.pulls[p] \in Pulls
  BY <1>0 DEF TypeOK, DbOK, IsTable
<1>4. ~(e.type = "opened" /\ e.id = p)
  <2>1. PICK k \in 1..seen : log[k].type = "opened" /\ log[k].id = p
    BY DEF IInv, RowsAreBorn
  <2>2. k \in DOMAIN log /\ k < at
    BY <1>0, <1>2, <2>1 DEF TypeOK
  <2> QED BY <1>2, <2>1, <2>2 DEF IInv, FirstMention, Births
<1> HIDE DEF e, at
<1>c. ASSUME NEW row, Changed(db.pulls, db'.pulls, e.id, row), e.id = p => row.state = "merged"
      PROVE  db'.pulls[p].state = "merged"
  BY <1>c DEF Changed
<1>5. CASE PullStep(db, db', e, at)
  <2>1. CASE e.type = "opened" /\ Inserted(db.pulls, db'.pulls, e.id, PullRow(e.head, e.base))
    BY <1>4, <2>1 DEF Inserted
  <2>2. CASE e.head \in Heads /\ e.base \in Bases
             /\ Changed(db.pulls, db'.pulls, e.id, SyncedPull(db.pulls[e.id], e.head, e.base))
    BY <1>3, <1>c, <2>2, PullRowTypes
  <2>3. CASE e.check \in Checks
             /\ Changed(db.pulls, db'.pulls, e.id, Checked(db.pulls[e.id], e.check))
    <3>1. e.id = p => Checked(db.pulls[e.id], e.check).state = "merged"
      BY <1>3, <2>3, PullRowTypes DEF Checked
    <3> QED BY <1>c, <2>3, <3>1
  <2>4. CASE Same(db, db', {"reviews"})
    BY <2>4 DEF Same, Empty
  <2>5. CASE Changed(db.pulls, db'.pulls, e.id, MergedPull(db.pulls[e.id], at))
    BY <1>n, <1>3, <1>c, <2>5, PullRowTypes
  <2>6. CASE Changed(db.pulls, db'.pulls, e.id, ClosePull(db.pulls[e.id], at))
    BY <1>n, <1>3, <1>c, <2>6, PullRowTypes
  <2>7. CASE Changed(db.pulls, db'.pulls, e.id, ReopenPull(db.pulls[e.id]))
    BY <1>3, <1>c, <2>7, PullRowTypes
  <2> QED BY <1>5, <2>1, <2>2, <2>3, <2>4, <2>5, <2>6, <2>7 DEF PullStep
<1>6. CASE db' = db \/ UserStep(db, db', e) \/ RepoStep(db, db', e) \/ IssueStep(db, db', e, at)
  BY <1>6, Untouched
<1> QED BY <1>2, <1>5, <1>6 DEF Effect

\* Merged is for good, whatever is closed or reopened late.
THEOREM MergesStand == Spec => MergedForGood
<1>1. IInv /\ [Next]_vars =>
        [\A p \in DOMAIN db.pulls :
           db.pulls[p].state = "merged" /\ seen' > seen => db'.pulls[p].state = "merged"]_vars
  BY MergeStands
<1> QED BY <1>1, Invariant, PTL DEF Spec, MergedForGood

-----------------------------------------------------------------------------
(***************************************************************************)
(* Pages made of several queries                                           *)
(***************************************************************************)

\* Of any number of comments, the oldest page is as many as fit on it: each
\* number of earlier comments belongs to one comment.
LEMMA FirstPage ==
  ASSUME NEW S \in SUBSET Nat, IsFiniteSet(S), NEW P \in Nat
  PROVE  Cardinality({c \in S : Cardinality({b \in S : b < c}) < P}) = Page(S, P)
<1> DEFINE Below(c) == {b \in S : b < c}
           N == Cardinality(S)
           M == IF N < P THEN N ELSE P
           F == {c \in S : Cardinality(Below(c)) < P}
           rank == [c \in S |-> Cardinality(Below(c))]
           rankF == [c \in F |-> Cardinality(Below(c))]
<1>0. N \in Nat /\ M \in Nat /\ M <= N /\ M <= P
  BY FS_CardinalityType
<1>1. ASSUME NEW c \in S
      PROVE  IsFiniteSet(Below(c)) /\ Cardinality(Below(c)) \in 0..(N - 1)
  <2>1. Below(c) \in SUBSET S /\ Below(c) # S
    <3>1. c \notin Below(c)
      OBVIOUS
    <3> QED BY <1>1, <3>1
  <2> HIDE DEF Below
  <2>2. IsFiniteSet(Below(c)) /\ Cardinality(Below(c)) <= N /\ Cardinality(Below(c)) # N
    BY <2>1, FS_Subset
  <2>3. Cardinality(Below(c)) \in Nat
    BY <2>2, FS_CardinalityType
  <2> HIDE DEF N
  <2> QED BY <1>0, <2>2, <2>3
<1>2. ASSUME NEW b \in S, NEW c \in S, b < c
      PROVE  Cardinality(Below(b)) # Cardinality(Below(c))
  <2>0. \A x, y, z \in S : (x < y /\ y < z => x < z) /\ ~ (x < x)
    OBVIOUS
  <2>a. \A x \in Below(b) : x \in Below(c)
    BY <1>2, <2>0
  <2>1. Below(b) \in SUBSET Below(c) /\ b \in Below(c) /\ b \notin Below(b)
    BY <1>2, <2>0, <2>a
  <2>2. IsFiniteSet(Below(c))
    BY <1>1
  <2> HIDE DEF Below
  <2> QED BY <2>1, <2>2, FS_Subset
<1>3. ASSUME NEW b \in S, NEW c \in S, Cardinality(Below(b)) = Cardinality(Below(c))
      PROVE  b = c
  <2>1. b \in Nat /\ c \in Nat /\ ~ (b < c) /\ ~ (c < b)
    BY <1>2, <1>3
  <2> QED BY <2>1
<1> HIDE DEF Below
<1>4. /\ IsFiniteSet(0..(N - 1)) /\ Cardinality(0..(N - 1)) = N
      /\ IsFiniteSet(0..(M - 1)) /\ Cardinality(0..(M - 1)) = M
  <2>1. ASSUME NEW k \in Nat
        PROVE  IsFiniteSet(0..(k - 1)) /\ Cardinality(0..(k - 1)) = k
    <3>1. 0 \in Int /\ k - 1 \in Int
      OBVIOUS
    <3>2. /\ IsFiniteSet(0..(k - 1))
          /\ Cardinality(0..(k - 1)) = IF 0 > k - 1 THEN 0 ELSE k - 1 - 0 + 1
      BY <3>1, FS_Interval
    <3> QED BY <3>2
  <2> HIDE DEF N, M
  <2> QED BY <1>0, <2>1
<1>5. rank \in Injection(S, 0..(N - 1))
  BY <1>1, <1>3 DEF Injection, IsInjective
<1>6. rank \in Surjection(S, 0..(N - 1))
  <2> HIDE DEF rank
  <2> QED BY <1>4, <1>5, FS_Injection
<1>7. F \in SUBSET S /\ rankF \in Surjection(F, 0..(M - 1)) /\ rankF \in Injection(F, 0..(M - 1))
  <2>1. \A c \in F : Cardinality(Below(c)) \in 0..(M - 1)
    BY <1>0, <1>1
  <2>2. ASSUME NEW k \in 0..(M - 1)
        PROVE  \E c \in F : rankF[c] = k
    <3>1. k \in 0..(N - 1) /\ k < P
      BY <1>0
    <3>2. PICK c \in S : rank[c] = k
      BY <1>6, <3>1 DEF Surjection
    <3>3. c \in F
      BY <3>1, <3>2
    <3> QED BY <3>2, <3>3
  <2>3. rankF \in [F -> 0..(M - 1)]
    BY <2>1
  <2>4. rankF \in Injection(F, 0..(M - 1))
    BY <1>3, <2>3 DEF Injection, IsInjective
  <2>5. rankF \in Surjection(F, 0..(M - 1))
    BY <2>2, <2>3 DEF Surjection
  <2> QED BY <2>4, <2>5
<1>8. Cardinality(F) = M
  <2> HIDE DEF F, M, rankF
  <2>1. Cardinality(F) = Cardinality(0..(M - 1))
    BY <1>4, <1>7, FS_Injection
  <2> QED BY <1>4, <2>1
<1> QED BY <1>8 DEF Page, Below

\* A conversation only grows, and with it its first page.
LEMMA CommentsGrow ==
  ASSUME NEW d, NEW d2, NEW n \in Nat,
         IsTable(d.comments, 1..n, Ids), IsTable(d2.comments, 1..n, Ids),
         DOMAIN d.comments \subseteq DOMAIN d2.comments,
         \A c \in DOMAIN d.comments : d2.comments[c] = d.comments[c],
         NEW i
  PROVE  /\ Cardinality(Comments(d, i)) \in Nat /\ Cardinality(Comments(d2, i)) \in Nat
         /\ Cardinality(Comments(d, i)) <= Cardinality(Comments(d2, i))
<1> DEFINE S == {c \in DOMAIN d.comments : d.comments[c] = i}
           T == {c \in DOMAIN d2.comments : d2.comments[c] = i}
<1>1. T \in SUBSET (1..n) /\ S \in SUBSET T /\ IsFiniteSet(1..n)
  BY FS_Interval DEF IsTable
<1> HIDE DEF S, T
<1>2. /\ IsFiniteSet(S) /\ IsFiniteSet(T) /\ Cardinality(S) <= Cardinality(T)
      /\ S \in SUBSET Nat /\ T \in SUBSET Nat
  <2>1. IsFiniteSet(T)
    BY <1>1, FS_Subset
  <2>2. IsFiniteSet(S) /\ Cardinality(S) <= Cardinality(T)
    BY <1>1, <2>1, FS_Subset
  <2>3. \A k \in 1..n : k \in Nat
    OBVIOUS
  <2> QED BY <1>1, <2>1, <2>2, <2>3
<1>3. Cardinality(S) \in Nat /\ Cardinality(T) \in Nat /\ PageMax \in Nat
  BY <1>2, FS_CardinalityType, PageAssumption
<1>4. Cardinality(Comments(d, i)) = Page(S, PageMax)
  BY <1>2, <1>3, FirstPage DEF Comments, S
<1>5. Cardinality(Comments(d2, i)) = Page(T, PageMax)
  BY <1>2, <1>3, FirstPage DEF Comments, T
<1> QED BY <1>2, <1>3, <1>4, <1>5 DEF Page

\* What a step does to the comments, and a projected event to their numbers.
LEMMA CommentsKept ==
  ASSUME TypeOK, Counted, Project
  PROVE  /\ DOMAIN db.comments \subseteq DOMAIN db'.comments
         /\ \A c \in DOMAIN db.comments : db'.comments[c] = db.comments[c]
         /\ \A i \in DOMAIN db'.issues :
              \/ i \in DOMAIN db.issues /\ db'.issues[i].comment_count = db.issues[i].comment_count
              \/ db'.issues[i].comment_count = 0
              \/ db'.issues[i].comment_count = Cardinality(Comments(db', i))
<1> DEFINE e == log[applied + 1]
           at == applied + 1
           Grows == /\ DOMAIN db.comments \subseteq DOMAIN db'.comments
                    /\ \A c \in DOMAIN db.comments : db'.comments[c] = db.comments[c]
           Count(i) ==
             \/ i \in DOMAIN db.issues /\ db'.issues[i].comment_count = db.issues[i].comment_count
             \/ db'.issues[i].comment_count = 0
             \/ db'.issues[i].comment_count = Cardinality(Comments(db', i))
<1>0. Effect(db, db', e, at) /\ at \in 1..Len(log) /\ at \in Nat /\ e.id \in Ids /\ Len(log) \in Nat
  BY Projects DEF TypeOK
<1>a. /\ \A i \in DOMAIN db.issues : db.issues[i] \in Issues
      /\ IsTable(db.comments, 1..Len(log), Ids)
  BY DEF TypeOK, DbOK, IsTable
<1>c. "comments" \in DOMAIN Empty
  BY DEF Empty
<1> HIDE DEF e, at
<1> SUFFICES Grows /\ \A i \in DOMAIN db'.issues : Count(i)
  OBVIOUS
<1>1. ASSUME db'.comments = db.comments, NEW row,
             \/ Changed(db.issues, db'.issues, e.id, row)
             \/ Inserted(db.issues, db'.issues, e.id, row) /\ row.comment_count = 0,
             \/ e.id \in DOMAIN db.issues => row.comment_count = db.issues[e.id].comment_count
             \/ row.comment_count = 0
      PROVE  Grows /\ \A i \in DOMAIN db'.issues : Count(i)
  <2>1. Grows
    BY <1>1
  <2>2. ASSUME NEW i \in DOMAIN db'.issues
        PROVE  Count(i)
    BY <1>1, <2>2 DEF Changed, Inserted
  <2> HIDE DEF Grows, Count
  <2> QED BY <2>1, <2>2
<1>2. CASE IssueStep(db, db', e, at)
  <2>1. CASE /\ Same(db, db', {"issues", "counters"})
             /\ e.type = "opened" /\ e.value \in Values
             /\ Inserted(db.issues, db'.issues, e.id, IssueRow(e.value))
    <3>1. db'.comments = db.comments
      BY <1>c, <2>1 DEF Same
    <3>2. IssueRow(e.value).comment_count = 0
      BY DEF IssueRow
    <3> HIDE DEF Grows, Count
    <3> QED BY <1>1, <2>1, <3>1, <3>2
  <2>2. CASE Same(db, db', {"issues", "counters"}) /\ e.type = "closed"
             /\ Changed(db.issues, db'.issues, e.id, ClosedIssue(db.issues[e.id], at))
    <3>1. e.id \in DOMAIN db.issues =>
            ClosedIssue(db.issues[e.id], at).comment_count = db.issues[e.id].comment_count
      BY <1>0, <1>a, IssueRowTypes
    <3>2. db'.comments = db.comments
      BY <1>c, <2>2 DEF Same
    <3> HIDE DEF Grows, Count
    <3> QED BY <1>1, <2>2, <3>1, <3>2
  <2>3. CASE Same(db, db', {"issues", "counters"}) /\ e.type = "reopened"
             /\ Changed(db.issues, db'.issues, e.id, ReopenedIssue(db.issues[e.id]))
    <3>1. e.id \in DOMAIN db.issues =>
            ReopenedIssue(db.issues[e.id]).comment_count = db.issues[e.id].comment_count
      BY <1>0, <1>a, IssueRowTypes
    <3>2. db'.comments = db.comments
      BY <1>c, <2>3 DEF Same
    <3> HIDE DEF Grows, Count
    <3> QED BY <1>1, <2>3, <3>1, <3>2
  <2>4. CASE e.type = "title_changed" /\ e.value \in Values /\ Same(db, db', {"issues"})
             /\ Changed(db.issues, db'.issues, e.id, [db.issues[e.id] EXCEPT !.title = e.value])
    <3>1. e.id \in DOMAIN db.issues =>
            [db.issues[e.id] EXCEPT !.title = e.value].comment_count
              = db.issues[e.id].comment_count
      BY <1>a, <2>4, IssueRowTypes
    <3>2. db'.comments = db.comments
      BY <1>c, <2>4 DEF Same
    <3> HIDE DEF Grows, Count
    <3> QED BY <1>1, <2>4, <3>1, <3>2
  <2>5. CASE /\ e.type = "commented" /\ Same(db, db', {"issues", "comments"})
             /\ db'.comments = InsertOnce(db.comments, at, e.id)
             /\ Changed(db.issues, db'.issues, e.id,
                  [db.issues[e.id] EXCEPT !.comment_count = Cardinality(Comments(db', e.id))])
    <3> DEFINE n == Cardinality(Comments(db', e.id))
    <3>1. \A row \in Issues : [row EXCEPT !.comment_count = n].comment_count = n
      <4> HIDE DEF n
      <4> QED BY DEF Issues
    <3>2. ASSUME NEW i \in DOMAIN db'.issues
          PROVE  Count(i)
      <4>1. CASE i = e.id
        <5>1. e.id \in DOMAIN db.issues
          BY <2>5, <3>2, <4>1 DEF Changed
        <5>2. db'.issues[i] = [db.issues[e.id] EXCEPT !.comment_count = n]
          BY <2>5, <4>1, <5>1 DEF Changed
        <5>3. db.issues[e.id] \in Issues
          BY <1>a, <5>1
        <5>4. db'.issues[i].comment_count = n
          <6> HIDE DEF n
          <6> QED BY <3>1, <5>2, <5>3
        <5> QED BY <4>1, <5>4
      <4>2. CASE i # e.id
        BY <2>5, <3>2, <4>2 DEF Changed
      <4> QED BY <4>1, <4>2
    <3>3. Grows
      <4>a. ASSUME NEW t, NEW n1 \in Nat, IsTable(t, 1..n1, Ids), NEW k \in 1..n1, NEW id \in Ids
            PROVE  /\ DOMAIN InsertOnce(t, k, id) = DOMAIN t \cup {k}
                   /\ \A c \in DOMAIN t : InsertOnce(t, k, id)[c] = t[c]
        BY <4>a, InsertOnceTable
      <4> DEFINE t2 == InsertOnce(db.comments, at, e.id)
      <4>1. /\ DOMAIN t2 = DOMAIN db.comments \cup {at}
            /\ \A c \in DOMAIN db.comments : t2[c] = db.comments[c]
        BY <1>0, <1>a, <4>a
      <4> HIDE DEF t2
      <4>2. db'.comments = t2
        BY <2>5 DEF t2
      <4> QED BY <4>1, <4>2
    <3> HIDE DEF Grows, Count
    <3> QED BY <3>2, <3>3
  <2> HIDE DEF Grows, Count
  <2> QED BY <1>2, <2>1, <2>2, <2>3, <2>4, <2>5 DEF IssueStep
<1>3. CASE (db' = db /\ e.type \in {"unknown", "collaborator"}) \/ UserStep(db, db', e)
             \/ RepoStep(db, db', e) \/ PullStep(db, db', e, at)
  <2>1. db'.comments = db.comments /\ db'.issues = db.issues
    BY <1>3, Untouched
  <2> QED BY <2>1
<1> HIDE DEF Grows, Count
<1> QED BY <1>0, <1>2, <1>3 DEF Effect

\* No row counts more comments than there are on a page.
CountsShown(d) ==
  \A i \in DOMAIN d.issues : d.issues[i].comment_count <= Cardinality(Comments(d, i))

\* A step leaves the tables, drops them, or adds to them.
LEMMA TablesGrow ==
  ASSUME IInv, [Next]_vars
  PROVE  /\ CountsShown(db) => CountsShown(db')
         /\ \/ db' = db
            \/ db' = Empty
            \/ \A i : /\ Cardinality(Comments(db, i)) \in Nat
                      /\ Cardinality(Comments(db', i)) \in Nat
                      /\ Cardinality(Comments(db, i)) <= Cardinality(Comments(db', i))
<1>1. CASE Project
  <2>1. TypeOK /\ Counted /\ Len(log) \in Nat
    BY DEF IInv, TypeOK
  <2>2. IsTable(db.comments, 1..Len(log), Ids) /\ IsTable(db'.comments, 1..Len(log), Ids)
    BY <1>1, <2>1, Projects DEF TypeOK, DbOK
  <2>3. ASSUME NEW i
        PROVE  /\ Cardinality(Comments(db, i)) \in Nat /\ Cardinality(Comments(db', i)) \in Nat
               /\ Cardinality(Comments(db, i)) <= Cardinality(Comments(db', i))
    BY <1>1, <2>1, <2>2, CommentsKept, CommentsGrow
  <2>4. ASSUME CountsShown(db), NEW i \in DOMAIN db'.issues
        PROVE  db'.issues[i].comment_count <= Cardinality(Comments(db', i))
    <3>1. \A j \in DOMAIN db.issues : db.issues[j].comment_count \in Nat
      BY <2>1 DEF TypeOK, DbOK, IsTable, Issues
    <3>2. CASE i \in DOMAIN db.issues /\ db'.issues[i].comment_count = db.issues[i].comment_count
      <4>1. db.issues[i].comment_count <= Cardinality(Comments(db, i))
        BY <2>4, <3>2 DEF CountsShown
      <4> QED BY <2>3, <3>1, <3>2, <4>1
    <3>3. CASE db'.issues[i].comment_count = 0 \/ db'.issues[i].comment_count = Cardinality(Comments(db', i))
      BY <2>3, <3>3
    <3> QED BY <1>1, <2>1, <2>4, <3>2, <3>3, CommentsKept
  <2> QED BY <2>3, <2>4 DEF CountsShown
<1>2. CASE db' = db \/ db' = Empty
  BY <1>2, EmptyTables DEF CountsShown
<1> QED BY <1>1, <1>2, StepKinds DEF IInv, Replay, Commands, OnlyCommands

\* What a page on its way, and one that is finished, has to do with the tables.
InTable(d, open) ==
  LET state == IF open THEN "open" ELSE "closed"
  IN  {i \in DOMAIN d.issues : d.issues[i].state = state}

Pages ==
  [stage : {"none", "list: counters", "list", "detail: comments", "detail: counters", "detail"},
   issue : Ids \cup {None}, open : BOOLEAN, count : Nat, shown : Nat, badge : Nat,
   since : {"still", "moved", "dropped"}]

PageFollows(d, p) ==
  /\ p \in Pages
  /\ p.since = "still" =>
       /\ p.stage = "list: counters" => p.count = Page(InTable(d, p.open), ListMax)
       /\ p.stage = "list" => p.count = IF p.badge < ListMax THEN p.badge ELSE ListMax
       /\ p.stage \in {"detail: comments", "detail: counters"} /\ p.open =>
            p.issue \in InTable(d, TRUE)
       /\ p.stage = "detail" /\ p.open => p.badge > 0
  /\ p.since # "dropped" =>
       /\ p.stage = "detail: comments" => p.count <= Cardinality(Comments(d, p.issue))
       /\ p.stage \in {"detail: counters", "detail"} => p.count <= p.shown

PInv == IInv /\ CountsShown(db) /\ PageFollows(db, page)
\* What the queries read, from tables the invariant speaks of.
LEMMA QueriesRead ==
  ASSUME IInv
  PROVE  /\ \A open \in BOOLEAN :
              /\ Listed(open) = InTable(db, open) /\ IsFiniteSet(Listed(open))
              /\ Badge(open) = Cardinality(Listed(open)) /\ Badge(open) \in Nat
         /\ \A i \in DOMAIN db.issues : i \in Ids /\ db.issues[i] \in Issues
         /\ \A i : Cardinality(Comments(db, i)) \in Nat
<1>1. IsTable(db.issues, Ids, Issues) /\ IsTable(db.comments, 1..Len(log), Ids) /\ Len(log) \in Nat
  BY DEF IInv, TypeOK, DbOK
<1>2. ASSUME NEW open \in BOOLEAN
      PROVE  /\ Listed(open) = InTable(db, open) /\ IsFiniteSet(Listed(open))
             /\ Badge(open) = Cardinality(Listed(open)) /\ Badge(open) \in Nat
  <2>1. Listed(open) = InTable(db, open)
    BY DEF Listed, InTable
  <2>2. Listed(open) = IF open THEN In("open") ELSE In("closed")
    BY DEF Listed, In
  <2>3. IsFiniteSet(Listed(open))
    <3>1. Listed(open) \in SUBSET DOMAIN db.issues
      BY DEF Listed
    <3> QED BY <3>1, FS_Subset DEF IInv, Counted
  <2>4. Badge(open) = Cardinality(Listed(open))
    BY <2>2 DEF Badge, IInv, Counted
  <2> QED BY <2>1, <2>3, <2>4, FS_CardinalityType
<1>3. ASSUME NEW i
      PROVE  Cardinality(Comments(db, i)) \in Nat
  BY <1>1, CommentsGrow
<1> QED BY <1>1, <1>2, <1>3 DEF IsTable

LEMMA Numbers ==
  /\ \A k, m, n \in Nat : k <= m /\ m <= n => k <= n
  /\ \A k \in Nat : k # 0 => k > 0
OBVIOUS

\* While a page is read the tables may grow or be dropped.
LEMMA PageWatches ==
  ASSUME PInv, [Next]_vars, page' = [page EXCEPT !.since = Watched]
  PROVE  PageFollows(db', page')
<1>1. page \in Pages
  BY DEF PInv, PageFollows
<1>2. Watched \in {"still", "moved", "dropped"}
  BY <1>1 DEF Watched, Pages
<1>3. /\ page' \in Pages /\ page'.since = Watched
      /\ page'.stage = page.stage /\ page'.issue = page.issue /\ page'.open = page.open
      /\ page'.count = page.count /\ page'.shown = page.shown /\ page'.badge = page.badge
  <2> DEFINE w == Watched
  <2>1. w \in {"still", "moved", "dropped"} /\ page' = [page EXCEPT !.since = w]
    BY <1>2
  <2> HIDE DEF w
  <2>2. /\ page' \in Pages /\ page'.since = w
        /\ page'.stage = page.stage /\ page'.issue = page.issue /\ page'.open = page.open
        /\ page'.count = page.count /\ page'.shown = page.shown /\ page'.badge = page.badge
    BY <1>1, <2>1 DEF Pages
  <2> QED BY <2>2 DEF w
<1>4. CASE page.stage \in {"none", "list", "detail"}
  BY <1>3, <1>4 DEF PInv, PageFollows, Watched
<1>5. CASE db' = db
  BY <1>3, <1>5 DEF PInv, PageFollows, Watched
<1>6. CASE page.stage \notin {"none", "list", "detail"} /\ db' # db
  <2>1. Watched # "still" /\ (db' = Empty => Watched = "dropped")
        /\ (page.since = "dropped" => Watched = "dropped")
    BY <1>6 DEF Watched
  <2>2. CASE db' = Empty \/ page.since = "dropped"
    BY <1>3, <2>1, <2>2 DEF PageFollows
  <2>3. CASE db' # Empty /\ page.since # "dropped"
    <3>1. /\ Cardinality(Comments(db, page.issue)) \in Nat
          /\ Cardinality(Comments(db', page.issue)) \in Nat
          /\ Cardinality(Comments(db, page.issue)) <= Cardinality(Comments(db', page.issue))
      BY <1>6, <2>3, TablesGrow DEF PInv
    <3>2. /\ page.stage = "detail: comments" => page.count <= Cardinality(Comments(db, page.issue))
          /\ page.stage \in {"detail: counters", "detail"} => page.count <= page.shown
      BY <2>3 DEF PInv, PageFollows
    <3>3. page.count \in Nat
      BY <1>1 DEF Pages
    <3>4. page.stage = "detail: comments" => page.count <= Cardinality(Comments(db', page.issue))
      BY <3>1, <3>2, <3>3, Numbers, Zenon
    <3> QED BY <1>3, <2>1, <3>2, <3>4, Zenon DEF PageFollows
  <2> QED BY <2>2, <2>3
<1> QED BY <1>4, <1>5, <1>6

\* What a query adds to the page.
LEMMA PageReads ==
  ASSUME PInv, Read
  PROVE  PageFollows(db, page')
<1>0. PageFollows(db, page) /\ page \in Pages
  BY DEF PInv, PageFollows
<1>n. NoPage \in Pages /\ NoPage.since = "still" /\ PageFollows(db, NoPage)
  BY DEF NoPage, Pages, PageFollows
<1>q. /\ \A open \in BOOLEAN :
           /\ Listed(open) = InTable(db, open) /\ IsFiniteSet(Listed(open))
           /\ Badge(open) = Cardinality(Listed(open)) /\ Badge(open) \in Nat
      /\ \A i \in DOMAIN db.issues : i \in Ids /\ db.issues[i] \in Issues
      /\ \A i : Cardinality(Comments(db, i)) \in Nat
  BY QueriesRead DEF PInv
<1>l. ListMax \in Nat
  BY PageAssumption
<1>1. ASSUME NEW open \in BOOLEAN, ListIssues(open)
      PROVE  PageFollows(db, page')
  <2> DEFINE n == Page(Listed(open), ListMax)
  <2>1. n \in Nat /\ n = Page(InTable(db, open), ListMax)
    BY <1>l, <1>q DEF Page
  <2>2. page' = [NoPage EXCEPT !.stage = "list: counters", !.open = open, !.count = n]
    BY <1>1 DEF ListIssues
  <2> HIDE DEF n
  <2>3. /\ page' \in Pages /\ page'.stage = "list: counters" /\ page'.open = open
        /\ page'.count = n
    BY <2>1, <2>2 DEF NoPage, Pages
  <2> QED BY <2>1, <2>3 DEF PageFollows
<1>2. CASE ListCounters
  <2> DEFINE b == Badge(page.open)
  <2>1. page.open \in BOOLEAN
    BY <1>0 DEF Pages
  <2>2. b \in Nat /\ b = Cardinality(InTable(db, page.open))
    BY <1>q, <2>1
  <2>3. page.stage = "list: counters" /\ page' = [page EXCEPT !.stage = "list", !.badge = b]
    BY <1>2 DEF ListCounters
  <2> HIDE DEF b
  <2>4. /\ page' \in Pages /\ page'.stage = "list" /\ page'.since = page.since
        /\ page'.count = page.count /\ page'.badge = b
    BY <1>0, <2>2, <2>3 DEF Pages
  <2>5. page.since = "still" => page.count = IF b < ListMax THEN b ELSE ListMax
    BY <1>0, <2>2, <2>3 DEF PageFollows, Page
  <2> QED BY <2>4, <2>5 DEF PageFollows
<1>3. ASSUME NEW i \in DOMAIN db.issues, DetailIssue(i)
      PROVE  PageFollows(db, page')
  <2> DEFINE o == db.issues[i].state = "open"
             n == db.issues[i].comment_count
  <2>1. n \in Nat /\ o \in BOOLEAN /\ i \in Ids
    BY <1>q DEF Issues
  <2>2. page' = [NoPage EXCEPT !.stage = "detail: comments", !.issue = i, !.open = o, !.count = n]
    BY <1>3 DEF DetailIssue
  <2>3. n <= Cardinality(Comments(db, i)) /\ (o => i \in InTable(db, TRUE))
    BY DEF PInv, CountsShown, InTable
  <2> HIDE DEF o, n
  <2>4. /\ page' \in Pages /\ page'.stage = "detail: comments" /\ page'.issue = i
        /\ page'.open = o /\ page'.count = n
    BY <2>1, <2>2 DEF NoPage, Pages
  <2> QED BY <2>3, <2>4 DEF PageFollows
<1>4. CASE DetailComments
  <2> DEFINE n == Cardinality(Comments(db, page.issue))
  <2>1. n \in Nat
    BY <1>q
  <2>2. page.stage = "detail: comments"
        /\ page' = [page EXCEPT !.stage = "detail: counters", !.shown = n]
    BY <1>4 DEF DetailComments
  <2>3. page.since # "dropped" => page.count <= n
    BY <1>0, <2>2 DEF PageFollows
  <2> HIDE DEF n
  <2>4. /\ page' \in Pages /\ page'.stage = "detail: counters" /\ page'.issue = page.issue
        /\ page'.open = page.open /\ page'.count = page.count /\ page'.shown = n
        /\ page'.since = page.since
    BY <1>0, <2>1, <2>2 DEF Pages
  <2> QED BY <1>0, <2>2, <2>3, <2>4 DEF PageFollows
<1>5. CASE DetailCounters
  <2> DEFINE b == Badge(TRUE)
  <2>1. b \in Nat /\ b = Cardinality(InTable(db, TRUE)) /\ IsFiniteSet(InTable(db, TRUE))
    BY <1>q
  <2>2. page.stage = "detail: counters" /\ page' = [page EXCEPT !.stage = "detail", !.badge = b]
    BY <1>5 DEF DetailCounters
  <2>3. ASSUME page.since = "still", page.open
        PROVE  b > 0
    <3>1. page.issue \in InTable(db, TRUE)
      BY <1>0, <2>2, <2>3 DEF PageFollows
    <3>2. b # 0
      BY <2>1, <3>1, FS_EmptySet
    <3> HIDE DEF b
    <3> QED BY <2>1, <3>2, Numbers, Zenon
  <2> HIDE DEF b
  <2>4. /\ page' \in Pages /\ page'.stage = "detail" /\ page'.open = page.open
        /\ page'.count = page.count /\ page'.shown = page.shown /\ page'.badge = b
        /\ page'.since = page.since
    BY <1>0, <2>1, <2>2 DEF Pages
  <2> QED BY <1>0, <2>2, <2>3, <2>4 DEF PageFollows
<1>6. CASE Serve
  BY <1>6, <1>n DEF Serve
<1> QED BY <1>1, <1>2, <1>3, <1>4, <1>5, <1>6 DEF Read

\* Queries write nothing, so the tables beside a page behave as without it: what
\* is proved of them above holds here.
THEOREM PagesOnlyRead == PagesSpec => Spec
<1>1. PagesInit => Init
  BY DEF PagesInit
<1>2. [PagesNext]_allVars => [Next]_vars
  BY DEF PagesNext, allVars
<1> QED BY <1>1, <1>2, PTL DEF PagesSpec, Spec

\* A finished page contradicts itself only where a commit came between its queries,
\* and claims no more comments than it shows unless the tables were dropped.
THEOREM PagesStayHonest == PagesSpec => []PagesHonest
<1>1. PagesInit => PInv
  <2>1. ASSUME PagesInit
        PROVE  PInv
    <3>1. IInv /\ db = Empty /\ page = NoPage
      BY <2>1, InitInvariant DEF PagesInit, Init
    <3>2. CountsShown(db)
      BY <3>1, EmptyTables DEF CountsShown
    <3>3. PageFollows(db, NoPage)
      BY DEF NoPage, Pages, PageFollows
    <3> QED BY <3>1, <3>2, <3>3 DEF PInv
  <2> QED BY <2>1
<1>2. PInv /\ [PagesNext]_allVars => PInv'
  <2> SUFFICES ASSUME PInv, [PagesNext]_allVars
               PROVE  PInv'
    OBVIOUS
  <2>1. [Next]_vars
    BY DEF PagesNext, allVars
  <2>2. IInv' /\ CountsShown(db')
    BY <2>1, StepInvariant, TablesGrow DEF PInv
  <2>3. PageFollows(db', page')
    <3>1. CASE Next /\ page' = [page EXCEPT !.since = Watched]
      BY <2>1, <3>1, PageWatches
    <3>2. CASE Read /\ UNCHANGED vars
      <4>1. db' = db /\ PageFollows(db, page')
        BY <3>2, PageReads DEF vars
      <4> QED BY <4>1
    <3>3. CASE UNCHANGED allVars
      <4>1. db' = db /\ page' = page
        BY <3>3 DEF allVars, vars
      <4> QED BY <4>1 DEF PInv
    <3> QED BY <3>1, <3>2, <3>3 DEF PagesNext
  <2>4. CountsShown(db)' /\ PageFollows(db, page)'
    BY <2>2, <2>3 DEF CountsShown, PageFollows, InTable, Comments
  <2> QED BY <2>2, <2>4 DEF PInv
<1>3. PInv => PagesHonest
  BY DEF PInv, PageFollows, PagesHonest
<1> QED BY <1>1, <1>2, <1>3, PTL DEF PagesSpec

=============================================================================
