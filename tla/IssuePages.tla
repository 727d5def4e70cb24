----------------------------- MODULE IssuePages -----------------------------
(***************************************************************************)
(* The two pages of a repository's issues, made from several queries.      *)
(*                                                                         *)
(* A handler asks the store one question after another, outside of any     *)
(* transaction, and the projector commits in between: what a page says in  *)
(* one place may be older than what it says in another.  One request runs  *)
(* beside the tables of ReadModels, which it only reads.                   *)
(***************************************************************************)
EXTENDS ReadModels

VARIABLE page   \* the page being made

allVars == <<vars, page>>

(***************************************************************************)
(* A page has a number of rows or of comments it claims, the comments it   *)
(* shows, and the badge of a state.  A stage is the query to come; "since" *)
(* says what the projector did to the tables after the first one.          *)
(***************************************************************************)
NoPage == [stage |-> "none", issue |-> None, open |-> TRUE, count |-> 0, shown |-> 0,
           badge |-> 0, since |-> "still"]

PagesInit == Init /\ page = NoPage

Badge(open) == IF open THEN db.counters.open ELSE db.counters.closed

(***************************************************************************)
(* The list of a state's issues, then the counters for the badges above.   *)
(***************************************************************************)
Listed(open) ==
  LET state == IF open THEN "open" ELSE "closed"
  IN  {i \in DOMAIN db.issues : db.issues[i].state = state}

ListIssues(open) ==
  /\ topic = "issues" /\ page = NoPage
  /\ page' = [NoPage EXCEPT !.stage = "list: counters", !.open = open,
                            !.count = Page(Listed(open), ListMax)]

ListCounters ==
  /\ page.stage = "list: counters"
  /\ page' = [page EXCEPT !.stage = "list", !.badge = Badge(page.open)]

(***************************************************************************)
(* One issue: its row, then its conversation, then the counters.           *)
(***************************************************************************)
DetailIssue(i) ==
  /\ topic = "issues" /\ page = NoPage
  /\ i \in DOMAIN db.issues
  /\ page' = [NoPage EXCEPT !.stage = "detail: comments", !.issue = i,
                            !.open = db.issues[i].state = "open",
                            !.count = db.issues[i].comment_count]

DetailComments ==
  /\ page.stage = "detail: comments"
  /\ page' = [page EXCEPT !.stage = "detail: counters",
                          !.shown = Cardinality(Comments(db, page.issue))]

(***************************************************************************)
(* A faulty variant: the row is read after the conversation it counts.     *)
(***************************************************************************)
DetailCounters_CountsLate ==
  /\ page.stage = "detail: counters"
  /\ page' = [page EXCEPT !.stage = "detail", !.badge = Badge(TRUE),
                          !.count = IF page.issue \in DOMAIN db.issues
                                    THEN db.issues[page.issue].comment_count ELSE @]

DetailCounters ==
  /\ page.stage = "detail: counters"
  /\ page' = [page EXCEPT !.stage = "detail", !.badge = Badge(TRUE)]

Serve ==
  /\ page.stage \in {"list", "detail"}
  /\ page' = NoPage

Read ==
  \/ \E open \in BOOLEAN : ListIssues(open)
  \/ ListCounters
  \/ \E i \in DOMAIN db.issues : DetailIssue(i)
  \/ DetailComments
  \/ DetailCounters
  \/ Serve

(***************************************************************************)
(* What a step of the tables means to a page on its way.                   *)
(***************************************************************************)
Watched ==
  IF db' = db \/ page.stage \in {"none", "list", "detail"} THEN page.since
  ELSE IF db' = Empty \/ page.since = "dropped" THEN "dropped"
  ELSE "moved"

PagesNext ==
  \/ Next /\ page' = [page EXCEPT !.since = Watched]
  \/ Read /\ UNCHANGED vars

PagesSpec == PagesInit /\ [][PagesNext]_allVars
-----------------------------------------------------------------------------
(***************************************************************************)
(* What a finished page says is consistent as far as its queries allow:    *)
(*   - if no commit came between them, the list is as long as its badge    *)
(*     says, up to a page of rows, and an issue shown as open is one of    *)
(*     those the badge counts;                                             *)
(*   - an issue's page never claims more comments than it shows, through   *)
(*     commits and a replay over the old rows, because it reads the number *)
(*     before the conversation; only tables dropped in between make it.    *)
(* It may show comments it does not count, and a badge that the list under *)
(* it contradicts, if a commit came between.                               *)
(***************************************************************************)
PagesHonest ==
  /\ page.stage = "list" /\ page.since = "still" =>
       page.count = IF page.badge < ListMax THEN page.badge ELSE ListMax
  /\ page.stage = "detail" =>
       /\ page.since = "still" /\ page.open => page.badge > 0
       /\ page.since # "dropped" => page.count <= page.shown
=============================================================================
