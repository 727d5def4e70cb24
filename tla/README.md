# Crabforge, specified

TLA+ modules for the parts of crabforge that decide, store and forward: the
command service and its fenced writer, the projectors and the read models they
keep, webhook delivery, Crab Actions from a push to the verdict on its jobs and
the sandboxes they run in, and git hosting over a disposable cache. Each module
is written from the Rust code under `src/crates/`; `PROJECT.json` maps every
definition to the lines it stands for.

Crabforge is a git forge whose system of record is a Kafka-compatible log. One
server process (deployed with `strategy: Recreate`) holds all of the parts
below; restarts overlap only as far as a dying process may still be running
while its successor boots.

    HTTP handler --> command service --> fenced writer --> event topics,
                       (memory)                            compacted topics
                                                              |
          read models <-- projectors <------------------------+
          webhook queue <-- matchers <------------------------+
             workers --> receivers, history, dead letters     |
          CI jobs <-- orchestrator <-- pushes ----------------+
             runners --> CI events
    git client --> receive-pack --> object topic, then update_refs

## Inventory

| Part | State | Operations | What is hard | What makes it correct |
|---|---|---|---|---|
| Command service (`forge-command`) | catalog and references in memory under one mutex, rebuilt from compacted topics | register, create repository, open issue or pull request, comment and review, push, merge | the decision is on memory, the commit is at the broker; crash, fencing, lost answers and disconnects in between | names unique, numbers dense, reflog a chain, memory equal to the log, replies true, every commit atomic |
| Fenced writer (`forge-bus/writer.rs`) | producer epoch, fenced latch | connect, transact | an old process that does not know it is fenced; an unknown outcome aborts the process | at most one process can commit |
| Tailer (`forge-bus/tailer.rs`) | offset in memory | open at, next batch, replay to end | records nobody sees; the offset moves when a batch is fetched, not when it is done | progress, nothing skipped |
| Projector (`forge-projector/lib.rs`) | rows and cursor in the database, watch channel | open, drain, run, wait for offset | failure and crash inside a batch; handlers that read their own write | each event has its effect once; gate opens only on applied writes |
| Read models (`apply.rs`, `forge-store`) | tables | one handler per event | replay, stale mergeability verdicts, pages cut off at a limit and read in several queries | rows end as the log says, applying twice changes nothing, a verdict is shown only for its commits, a page contradicts itself only where a commit came between its queries |
| Webhooks (`forge-hooks`) | matcher and worker cursors, queue, history, dead letters | match, fan out, send, record, park | replays, failed steps, receivers that are down | at least once, in order, history truthful |
| Crab Actions (`forge-ci`) | run and job rows, share-group queue with leases | plan, announce, queue, claim, run, report | redelivery, a projection behind the queue, a runner that dies | a job runs at most once, a check shows what the jobs reported |
| Sandboxes (`forge-ci`: `runner`, `sandbox`, `docker`, `kubernetes`) | processes, pipes, containers, pods with a deadline | start, run a step, read its output, time out, clean up | two pipes and a bounded channel, processes left behind, a client that dies before its container, a runner that goes at any point | complete logs, one budget for all steps, an end to every job and pod, no failure taken for a success |
| Git storage (`forge-git`, `forge-githttp`) | object topics, cache directories with a cursor | hydrate, sync references, accept push, merge | objects and references are written separately; requests share a cache without a lock | a reference never names an object the log lacks, the cache only holds what the log gave it, clients are told the truth of each reference |
| Topics (`forge-topics`) | broker topics | ensure | not part of a transaction | a repository has its topic |
| Web pages (`forge-web`), API (`forge-server/api.rs`) | none of their own | lists, details, forms of two commands | a page decides on rows that lag | modelled with the read models |
| Authentication (`forge-auth`), names (`forge-types`) | sessions and tokens in tables | scope and name checks | little | not modelled |
| Rendering, metrics, CLI | none of their own | | | not modelled |

## Modules

| Module | Stands for |
|---|---|
| `ForgeTypes` | keys, claims, transactions, `Catalog::apply`, `RefMap::check` and `set` as operators |
| `Forge` | abstract: what the command service promises, with no processes and no failures |
| `CommandService` | the service, its writer and the broker they talk to; implements `Forge` |
| `CommandServiceProofs` | theorems about `CommandService` |
| `Projector` | one projector, its process's boot, and the handlers that wait for it |
| `ProjectorProofs` | theorems about `Projector` |
| `Webhooks` | one matcher, the delivery queue, a worker per partition, the receivers |
| `WebhooksProofs` | theorems about `Webhooks` |
| `ReadModels` | the rows of users, repositories, issues and pull requests, the events they are made of, and the commands those lead to |
| `IssuePages` | the pages of a repository's issues, made query by query beside `ReadModels` |
| `ReadModelsProofs` | theorems about `ReadModels` |
| `ConvergenceProofs` | the theorem that its rows converge |
| `CiPipeline` | orchestrator, job queue, runners, and the rows of runs and jobs |
| `CiPipelineProofs` | theorems about `CiPipeline` |
| `JobSandbox` | one job in its sandbox: process, container or pod |
| `JobSandboxProofs` | theorems about `JobSandbox` |
| `GitHosting` | object log, references, the cache directory, and the requests on it |
| `GitHostingProofs` | theorems about `GitHosting` |
| `MC...` | constants for TLC |

**CommandService.** Processes boot in the code's order: connect (which takes the
epoch), replay the catalog, replay the references, serve. A request goes through
the code's await points: decided (for a new repository first `topic`, the
creation of its object topic), `begun` (`Begin`: the producer is taken and the
latch was not set), `open` (`Send`: the broker has taken the records),
`committed` (the broker has committed and the answer is on its way), done. A
takeover can fall between any two of them. A push is a sequence of updates, all
checked against the map as it was before the push and committed in one
transaction; it may name a reference twice, which the code does not check. Every
command that writes a claim holds the mutex from its decision to its end,
`HoldsLock`; those that only append an event do not. `TransactFenced`,
`TransactFails` and `RecoveryRequired` are the three arms of
`FencedWriter::classify`; the last one aborts the process, whether or not the
broker had committed. A request id stands for the uuid the command mints. The
broker is external: epochs, atomic commit over several topics, read-committed
replay.

The constant `DropDuringCommit` says whether a handler can be dropped (its
client disconnects) while it awaits the answer to a commit. It can in the code;
the run `command_dropped` shows what follows. The theorems that depend on it
say so.

**Projector.** The effect of an event is its offset in `rows`, so that effects
applied twice or out of order are visible. `next` and the tailer's offset bound
what is left of the batch, `staged` is the open transaction; `CommitRows` makes
rows and cursor durable together. An error during the boot drain ends the
process, later it ends the task and the process goes on without it. Records are
events, records the projector skips, and records no reader sees.

**Webhooks.** The tailers in memory and the durable cursors are separate, as in
the code: a failed step keeps the first and leaves the second. `heard` is what a
receiver that deduplicates by delivery id has processed. `matched` is the only
history variable. A failed transaction may latch the shared writer, after which
every transaction fails until a restart. Several matchers (one per domain topic)
share nothing but the queue and the writer, so one is modelled. Failed fetches
change nothing and are left out.

**ReadModels.** A behaviour follows one of the four topics, as the projectors
share no table. `ApplyUserEvent` to `ApplyPrEvent` are the arms of `apply.rs`,
each a function from tables to tables, and `Project` applies one event
(`Projector` shows that batches take effect once). Commands append what the code
would, decided on rows that lag: an issue form is two commands of which the second
may never come, a trial merge is started from a row and reported later, a merge
takes a row that is open. Events that the projector knows and no command of this
build writes (renames, settings, deletions, title changes) can be appended too.
`Replay` sets the cursor to zero, over the rows or after dropping them. What the
log says of a row is defined by itself (`UserSays` to `PullSays`), by looking for
the last event of a kind rather than by folding.

**IssuePages** extends it by one request for a page of issues. A handler asks for
the list and then for the badge counters, or for the issue, its comments and the
counters, each query on the tables as they are by then; `since` records what the
projector did to the tables in between.

**CiPipeline.** A run is the position of its announcement, a job its run and its
place in it. The orchestrator keeps tailer and cursor apart like the matcher; a
run is announced, then its jobs are queued. The share group hands a job to one
runner at a time until its lock runs out, and counts deliveries. A runner claims
the row, reports the start, runs, ends the log, reports the verdict, settles.
`ProjectsCi` says whether a projector follows the CI topic: in the server as it
is started none does, which the run `ci_unprojected` is about; the run `ci` checks
the pipeline with the projector that `apply_ci_event` was written for.
No code appends `RunFinished`, so its arm in `apply.rs` is left out.

**JobSandbox.** Output goes from the command through a pipe per stream and a
pump per pipe into one bounded channel, and from there to the log. A step is over
when the channel is drained and the child has been waited for, or when its share
of the budget is used up. Time is counted in ticks. Processes the command leaves
behind keep the pipes open. `kind` selects the sandbox: for a container the kill
goes to the client and then to the container by name, for a pod the start is
steps of its own, deletion is attempted when the sandbox is dropped and its
failure ignored, and `activeDeadlineSeconds` is the backstop. Nobody kills a
`kubectl apply` that the timeout left: a pod is `asked` for and may appear after
the job is over (`PodCreated`). After a timed-out start the runner asks why the pod
is not running, in a query without a timeout (`ask`, `WhyNotRunning`).

**GitHosting.** Requests run in parallel on one cache directory. Each goes
through the code's file operations one at a time: read the cursor, replay the
log, write each missing object through its temporary file, write the cursor,
read the canonical references, update the cache's one by one, run git. A push
continues in the hook: objects to the log in batches, then the compare-and-swap
(one step here, `CommandService` has its detail), then git's own migration of the
quarantine and update of the cache's references. A push is a function from
references to new values, with the old ones the client saw. `update_refs` accepts
all of them or none, so no push is committed in part; but git then updates each
reference of the cache by itself, and may find one that another request has
mirrored meanwhile: the client is told of each reference, and can be told of a
failure of what is committed. The log is a sequence of transactions,
each the set of the records one produce call wrote: a chunk is found by its
object and number wherever it is, and the code relies on the order of
transactions only. What is still to be written is a set too, as git lists objects
in no order that matters. `was` and `told` are history variables: the values the
log gave each reference, and what clients were told.

## Runs

Passing runs, with the bounds that make the interesting cases happen:

| Run | Bounds | Shows |
|---|---|---|
| `command_races` | 3 requests of any kind, 2 processes, 2 epochs, one user name, one repository name, one counter, pushes of nothing, of one reference, of one and an invalid name, and of one reference twice, merges | `TypeOK`, `Authoritative`, `UniqueNames`, `NumbersDense`, `ReflogLinear`, and `AtomicSpec`, the refinement of `Forge`: three requests are enough for one to commit while another is decided at a fenced process and a third follows at the successor |
| `command_live` | 2 requests, 2 processes, 3 epochs, handlers dropped anywhere | `TruthfulReplies`, `RepoHasTopic`, and `Concludes` under fairness |
| `projector` | 4 records of 3 kinds, batches up to 2, 2 crashes, 1 failed call, a handler; with fairness | `ExactlyOnce`, `ReadYourWrites`, `ServesCaughtUp`, `NeverGoesBack`, `CatchesUp`, `GateAnswers` |
| `webhook_faults` | 1 webhook, 2 events, 2 attempts, a restart, a failed call, an edit | `HistoryIsOneLadder`, `DeadLettersOnce`, `RestartsLoseNothing`, `InOrder`: the matcher's replay puts a request into the queue twice, the worker's replay meets its own rows |
| `webhook_live` | 2 webhooks in one partition, 2 events, no faults, receivers of any behaviour | `EventuallySettled` |
| `read_models` | 2 users, 2 repositories, 2 issues, 1 pull request with 2 heads; 3 events a topic, 5 of pull requests; pages of 1 comment, lists of 1 row, a page of issues at a time; 1 replay | `Converges`, `VerdictsAreCurrent`, `CountersTrue` (of the tables), `LinksLead`, `PagesHonest`, `MergedForGood`: three events are enough for a name to be given up and taken by another, and for a comment beyond the page, five for a verdict that arrives after its branch moved on a pull request that is reopened |
| `ci` | 1 push of 3 kinds of commit (two workflows, broken files, none), 2 jobs, 2 runners, 2 deliveries, 1 fault | `RunsOnce`, `ChecksAreTrue`, `RunNumbersDense`, `VerdictsStand`: two runs of one push race for a number, two runners for a job whose lock has run out |
| `git` | 2 requests at a time out of 1 fetch, 2 pushes (a commit with an object of two chunks, alone or together with the deletion of the other branch, or a deletion) and 1 merge; batches of 2; 1 fault (failed write, crash, or a destroyed cache) | `RefsResolvable`, `CursorSafe`, `CacheFollowsLog`, `TruthfulPush` |
| `sandbox` | 2 steps, a budget of 3 ticks, slack of 1, a channel of 1 line, 3 lines, each kind of sandbox; with fairness | `LogComplete`, `WithinBudget`, `HonestVerdict`, `ContainerStops`, and `JobEnds`, `PodsGo` under fairness. `HonestVerdict` says that verdicts follow from the exit codes and the clock, and that what docker itself did wrong is not called a failed build; of a lost pod it is (see below) |

`TypeOK` of the other modules documents the variables. It is not spent a run on,
as it is proved (see below; of `CiPipeline`, all but the type of a plan).

The runs switch deadlock checking off: requests, records, restarts and failures
are bounded, so a bounded behaviour ends.

Runs that find the code at odds with what the repository says of it:

| Run | What happens |
|---|---|
| `command_dropped` | A client disconnects while its commit is being answered. The claim is in the log and not in memory, and the next registration of the name commits as well. |
| `ci_unprojected` | No projector follows the CI topic (`forge-server/src/main.rs:143`). No job has a row, so no claim takes; runners settle every job unrun, and none of a push is ever started. |
| `git_torn` | Two requests of one process hydrate one cache. They share an object's temporary file, and one renames it into place when the other has just emptied it: a reader sees a partial object until it is filled again, and for good if the process dies first. |

Other places where the code and its comments part, met while modelling. The
models do what the code does; no run is spent on them.

- `forge-command/src/lib.rs:426`, "atomically and with compare-and-swap on each
  one": a push that lists one reference twice has both entries checked against
  the map before the push; both are accepted, and the reflog has two moves from one
  value. The run `command_races` has such a push, and `ReflogLinear` says what is
  left: every move of a push starts where the push before it left the reference, and
  the compacted references are what the reflog ends with.
- `forge-ci/src/sandbox.rs:68`, a failure of the sandbox is distinct from a failed
  build, and `forge-ci/src/kubernetes.rs:548`, a pod killed by its deadline would be
  reported as infrastructure: when a pod is evicted or deleted during a step, `kubectl exec`
  ends with an exit code, which `kubernetes.rs:418` takes for the build's. `PodEnds`
  does so, and `HonestVerdict` promises nothing of the pod; only docker's own exit
  code is told apart.
- `forge-web/src/pages.rs:189`, "every comment on the issue" and not capped at a
  page: the projector counts the comments it reads back in one page of a hundred
  (`forge-projector/src/apply.rs:237`), so the number is capped too.
- `forge-web/src/routes/issues.rs:57` and `:192`: list and badge, and an issue, its
  comments and the badge, are read in separate queries. With a commit of the
  projector in between a page contradicts itself: a list without the issue its badge
  counts, comments beyond the number claimed. `PagesHonest` says what is left.
- `forge-command/src/lib.rs:271`: the topic a failed `create_repo` leaves is not
  reused, as every attempt mints a new id.
- `forge-projector/src/lib.rs:138`: a batch that failed is not retried on the next
  pass; the projector's task ends, and only a restart of the process applies it.
- `forge-hooks/src/matcher.rs:117` and `forge-ci/src/orchestrate.rs:112`: after a
  failed step the tailer is past the batch, the next batch moves the durable
  cursor over it, and its events are not looked at again. `orchestrate.rs:171`: a
  push whose cache cannot be hydrated is passed over, cursor and all.
- `forge-hooks/src/queue.rs:6`: a restart replays a delivery whose first attempt
  is recorded; recording it again violates the primary key, the step fails, and
  the worker goes on without the delivery.
- `forge-store/src/ci.rs:183`: the orchestrator is alone, but the table it reads
  lags behind its own announcements, so two runs can be announced with one
  number. The unique constraint then stops the projector.
- `forge-server/src/main.rs:395`: the job of a runner that died is delivered again
  but not run again, as its row says running.
- `forge-projector/src/apply.rs:568`: a run is marked running by a start that
  takes the claim, which the runner has taken in the database before; so a run
  goes from queued to its conclusion.
- `forge-events/src/domain.rs:605`, "Anything that is not a success fails the
  run": a cancelled job next to a successful one gives a success. Nothing cancels
  a job yet.
- `forge-store/src/pulls.rs:268`, "Used when that branch moves": it is not, nor
  are `synchronize_pull`, `refresh_mergeability`, `open_pull` and
  `set_pull_state` called outside tests. `ReadModels` has them as the commands
  they are.
- A replay over the old rows stops at a name that was given up by one repository
  and taken by another, and until it is through it shows merged pull requests as
  open. Comments beyond the first hundred of an issue are never shown.
- `forge-githttp/src/service.rs:139`: requests that mirror references at the same
  time can leave an older value advertised until the next request, and the last
  deleted branch stays (line 145). A reference of a push that is
  committed can be reported as failed when another request mirrors it first.
- `forge-ci/src/sandbox.rs:234`, "nothing is left behind": the shell is killed,
  not what it started.

## Fairness

- `CommandService`: weak fairness, for each request, of the steps its handler takes
  once it is decided (`Answered`): the runtime polls every future, and the broker
  answers or its client library reports an error. Nothing is assumed of arrivals,
  boots, crashes or disconnects.
- `Projector`: weak fairness of the projector's loop, of a handler's wait (it has
  a timer), and of starting a process that is down (the deployment restarts it).
  Nobody restarts a process that is up.
- `Webhooks`: weak fairness of the matcher and of each worker. HTTP calls have a
  timeout and backoffs end. Nothing is assumed of receivers.
- `JobSandbox`: weak fairness of the runner's own steps (take the next step, spawn,
  time out, clean up), of the clock, and of the cluster's deadline. Nothing is
  assumed of the command, of its output, of what it leaves behind, or of the
  cluster's scheduler: a job ends whatever they do. Two calls have no timeout in the
  code and are taken to return, with success or failure: `docker kill` after a
  timeout (`docker.rs:189`) and `kubectl get` after a pod that did not start
  (`kubernetes.rs:355`). If one hangs, the job does. The clocks of runner and cluster
  tick together, so a drift between them is not tested beyond the slack; and `PodsGo`
  is about the deadline of running pods, as nothing removes a pod that never runs
  when its deletion fails.
- `CiPipeline`: weak fairness of orchestrator, projector, runners and the expiry of
  locks. The run that uses it is a violation without faults.

## Proofs

`CommandServiceProofs` holds for all processes, requests, names, references,
batches and numbers of takeovers. It rests on the named assumptions of
`ForgeTypes` and `CommandService` (the kinds of keys are disjoint, `None` is
none of the values, batches are sequences of reference keys).

`BaseInv` is inductive without any proviso. From it follow `TypeCorrect`,
`RepliesTruthful` and `RepositoriesHaveTopics`. A reply is true because of what
`ReplyInv` tells apart: a committed request is either still waiting for its
answer or answered, and only the answer to a commit can say "ok".

`IInv` adds what the memory is worth, and needs `DropDuringCommit = FALSE`. Uniqueness
alone is not inductive: a commit keeps it because the transaction fits the log's
state, which is so because it was decided on a memory (`DecisionInv`) that equals
that state (`MemoryInv`), which in turn holds because one process owns the epoch
(`EpochInv`) and one handler of it the mutex and the producer (`ExclusionInv`).
`LogInv` ties the compacted catalog to the log. From `IInv` follow
`MemoryAuthoritative`, `NamesUnique`, `NumbersAreDense` and `Refinement`: every
commit is a step of `Forge`, every other step a stutter. The proof of each
conjunct has a lemma of its own, by cases on the shape of a step (`NextShape`).

`ProjectorProofs` holds for topics and batches of any length, any number of
handlers, crashes and failed calls; it uses no assumption but the types of the
constants. `ExactlyOnce` alone is not inductive: that a commit keeps it depends on what
the open transaction holds when it commits. `Projector!IInv` adds that. `TailInv`
says that while no batch is open there is no event between cursor and tailer, so
that a fetch may start a batch at the tailer although the cursor is behind it
(the long poll leaves it behind over records nobody sees); and that nothing is
published before it is durable. `BatchInv` says that the transaction holds the
events from the cursor to the record to apply next, in order. `GateInv` says that
a handler waits for an event of the log, which is then below the cursor when the
gate opens. From `IInv` follow `TypeCorrect`, `EffectExactlyOnce`, `GateIsSound`
and, as an action property, `BootsCaughtUp`.

`ReflogIsAChain` proves `ReflogLinear` for any push, of a reference named twice too,
under the same proviso. `ReflogInv` adds to `IInv` that the references are what the
reflog ends with; a commit then appends moves that start where the references
point, and `RefMap::set` leaves them where the last of these moves does.

`ProgressStays` is the projector's other action property, from the same `IInv`: a
commit appends the staged effects, the cursor is never set back, and `applied`
starts again only with the process.

**Webhooks** (any finite number of webhooks, any partitions, attempts, events,
edits, restarts and failures). The parts of `IInv`:

- `Following`, `Working`: what is left of a batch are the records up to the tailer,
  so that `Ahead` and `At` say how far the matcher and a worker are.
- `Routed`: a webhook's requests are in its partition, so one worker has to do with
  a delivery. Without it two workers could write rungs of one ladder.
- `NothingSkipped`: as long as no call has failed, every event below the cursor or the
  tailer's unfinished part is matched (`RestartsLoseNothing`).
- `Ladder`, `Climbing`, `DeadLettersOnce`: the rows of a delivery are its attempts
  from the first on, and where its worker is says which are written. A replayed
  request meets the primary key and so can neither restart the ladder nor bury twice.
- `Ordered`: without restarts the queue holds a webhook's requests in the order of
  their events, and a receiver has heard nothing later than what is left to send
  (`InOrder`).

**ReadModels** (any ids, values, commits, page sizes, topic lengths, replays).

- `FirstMention`: the event that makes a row is the first about its id. A second
  creation would reset the row.
- `RowsAreBorn`: every row was made by an event below the high-water mark `seen`,
  also while a replay is under way; no name is registered twice (`LinksLead`, with
  the unique index `NamesAreUnique`).
- `ChecksTruthful`: verdicts in the log and in the table are git's. That they are
  shown for the commits they are about is `Mergeability` (`VerdictsAreCurrent`).
- `Counted`: counters are the cardinalities of the rows (`CountersStayTrue`).
- `CommentsCounted`: where a count is not that of the comments, which happens when a
  replay resets it, a comment is left between cursor and `seen` that corrects it.

`MergesStand` proves the action property `MergedForGood` from it. `FirstPage` shows
that the first page of a conversation is full, by numbering its comments by their
rank. `PagesStayHonest` proves `PagesHonest` of pages made beside the tables:
`PagesOnlyRead` says that they are the tables of `ReadModels`, and the page that a
handler is at remembers, while no commit has come, what the tables say, and, while
they are not dropped, an issue whose comments have only become more.

`RowsConverge`, in `ConvergenceProofs`, proves `Converges` with a second invariant,
`Convergent`, beside that one:

- `UsersTold`, `ReposTold`, `IssuesTold`, `PullsTold`: at every position of the cursor
  the rows of the ids born so far are what the events up to there say (`UserSays` to
  `PullSays`), whatever stood in those rows before. That makes it hold in the middle
  of a replay too, over tables that still hold the future. Every event changes what
  the prefix says as it changes the row: that is what the lemmas `...Next` show, down to
  `LastNext`, and `...Stays` that a longer log leaves the prefix alone. For a pull
  request this needs `FirstMention`: a second opening would leave an earlier merge in
  the row.
- `TalkTold`, `ReviewsHeard`, `TalkFollows`: comments and reviews are those of the log,
  and about what was opened before them.
- `ReposBorn`: every repository in the table was made by an event below `seen`.
- `Settled`: the last event applied would change nothing if it came again
  (`EffectTwice`).

The count of an issue's comments is not part of `IssuesTold`, as a replay counts over
comments that are still in the table; when the cursor is at the end, `CommentsCounted`
says that it is right.

**CiPipeline** (any commits, workflows, runners, outcomes, deliveries, faults).

- `AnnouncedFirst`, `RowsOfRuns`: a job is queued after its run is announced, and the
  tables hold the runs projected so far with all of their jobs.
- `Owned`: a runner past its claim owns the row, alone, and nothing has been told of
  the job beyond where the runner is. `RunsOnce` is not inductive without it, as a
  lock that runs out gives the job to a second runner while the first goes on.
- `ToldOnce`, `RowsSayTrue`: each job is started and finished at most once, by the
  attempt in its row, after its log; and what a row or run shows some event has said
  (`ChecksAreTrue`, and the action property `VerdictsStand`).
- `Numbered`: announced numbers are at most one more than there are projected runs
  (`RunNumbersDense`).

**JobSandbox** (any steps, budget, slack, capacity and lines; each sandbox).

- `Conserved`: every line printed is in a pipe, the channel or the log; `Flushed`: a
  runner that stops draining has received everything (`LogComplete`).
- `OnTime`: the timeout of every step is due when the budget of the job is used up,
  and a pod is no older than the job (`WithinBudget`).
- `SoFar`: before the end there is no verdict and every step so far exited with zero
  (`HonestVerdict`).
- `Blamed`: while a job goes on, a sandbox that broke is a pod, or docker's, which
  said so with its own exit code (`HonestVerdict`).
- `Held`: a container outlives its client only where the runner cleans up, is lost,
  or docker failed (`ContainerStops`).

**GitHosting** (any requests at a time, references, commits, chunks; a finite set
of objects).

- `LogInv`: no transaction cuts an object in two.
- `DiskInv`: a torn or temporary file is of an object the log has.
- `HistoryInv`: every value a reference ever had was stored with all it needs before
  (`RefsResolvable`), and clients were told such values (`TruthfulPush`).
- `SlotInv`, by where a request is: a hydration still has to write what the cache
  lacks below the end it will set the cursor to (`HydratingInv`, for `CursorSafe`); a
  push still has to store what its new values need (`StoringInv`, for `HistoryInv`);
  what git is about to give references the log gave them before (`MirrorInv`, for
  `CacheFollowsLog`).

Each of these modules proves `Invariant`, `Spec => []IInv`, by one lemma per conjunct
or action, then the listed theorems from it; `TypeCorrect` is among them except for
`CiPipeline`. The assumptions are the named ones of each module: what the constants
are (`BudgetAssumption`, `PageAssumption`, `HomeAssumption`, ...), and that the sets
`Hooks` and `Objects` are finite.

Only model-checked:

- every liveness property (`Concludes`, `CatchesUp`, `GateAnswers`,
  `EventuallySettled`, `JobEnds`, `PodsGo`): fairness and ENABLED are beyond this
  prover;
- `TypeOK` of `CiPipeline`: a plan is made with `SelectSeq`, which the provers do not
  know. `Typed` has everything else.

## Plan

The models of the first plan are written, and of the safety properties that runs
check all are theorems but `TypeOK` of `CiPipeline`. What is left:

1. A lemma about `NameOf` that an event can break the unique index only during a
   replay. The lemmas `...Next` and `LastNext` serve it.
2. Refinement beyond the command service: an abstract read model, a function of the
   log, which `Convergent` shows `ReadModels` to implement when it has caught up.

## Not modelled

Rendering, metrics, the command line and the test kit keep no state that another
part relies on; browsing a repository reads the cache and changes nothing.
Templates, routing and JSON are presentation; pages are modelled by what they
take from the tables. Cryptography (password hashes, tokens, signatures), sessions
and DNS checks are represented by their outcomes. Serialisation of events is
left out: a record is readable or it is not. The YAML of workflows is
represented by what discovery and planning tell apart. Retention and compaction
of topics are represented by their effect (the last value per key); the delivery
queue's retention of seven days is longer than any behaviour here. git, docker,
kubectl and the share group are external.
