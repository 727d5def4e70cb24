----------------------------- MODULE CiPipeline -----------------------------
(***************************************************************************)
(* Crab Actions: from a push to the verdict on its jobs, in one repository.*)
(*                                                                         *)
(* The orchestrator follows the pushes, reads the workflows at the pushed  *)
(* commit, announces a run on the CI event topic and then puts its jobs on *)
(* a share-group queue.  A runner leases a job, claims its row in the      *)
(* database, runs it, and says how it went on the event topic.  A          *)
(* projector turns those events into the rows that the claim is made on,   *)
(* that run numbers are read from, and that a pull request shows.          *)
(*                                                                         *)
(* A run is the position of its announcement in the event topic, a job is  *)
(* its run and its place in it.  Applying one event is one step here:      *)
(* Projector shows that a batch has its effect once, whatever fails.  The  *)
(* share group and the sandbox are external.                               *)
(***************************************************************************)
EXTENDS Integers, Sequences, FiniteSets

CONSTANTS
  Commits,        \* commits that can be pushed
  Dir,            \* the workflow directory of each, in path order
  Runners,        \* runners in the share group
  ProjectsCi,     \* a projector follows the CI event topic
  MaxDeliveries,  \* the share group's max_delivery_attempts
  MaxPushes,      \* bound: reference updates
  Outcomes,       \* how a sandbox can end
  MaxJobs,        \* bound: jobs announced
  MaxFaults       \* bound: how often a call fails or a process dies

(***************************************************************************)
(* A directory entry: a workflow that wants to hear of pushes or not, with *)
(* so many jobs, or something discover does not take for a workflow.       *)
(***************************************************************************)
Files == [kind : {"workflow", "invalid", "unreadable", "other"}, push : BOOLEAN, jobs : Nat \ {0}]

ASSUME DirAssumption == Dir \in [Commits -> Seq(Files)]
ASSUME ProjectsCiAssumption == ProjectsCi \in BOOLEAN
ASSUME OutcomesAssumption == Outcomes \subseteq {"success", "failed", "timed_out", "infra_failed"}
ASSUME MaxDeliveriesAssumption == MaxDeliveries \in Nat \ {0}

VARIABLES
  refs,     \* forge.events.git-refs: the commits pushed
  events,   \* forge.events.ci
  queue,    \* forge.ci.jobs in the share group: state and deliveries of a job
  logs,     \* jobs whose log on forge.ci.logs has its end marker
  runs,     \* the ci_runs table
  rows,     \* the ci_jobs table
  applied,  \* the CI projector's cursor
  cursor,   \* the orchestrator's durable cursor
  orch,     \* the orchestrator: where it is, its tailer, batch and plan
  runner,   \* each runner: where it is, and the job it has
  held,     \* the records each has acquired and not looked at
  faults    \* how often something has failed

logVars    == <<refs, events, queue, logs>>
tableVars  == <<runs, rows, applied>>
orchVars   == <<orch, cursor>>
runnerVars == <<runner, held>>
vars == <<logVars, tableVars, orchVars, runnerVars, faults>>

Conclusions == {"success", "failed", "timed_out", "infra_failed"}
JobStates   == {"queued", "running"} \cup Conclusions
RunStates   == {"queued", "running", "success", "failed"}

Jobs == Nat \X Nat
Events ==
  [type : {"run_queued"}, number : Nat, jobs : Nat]
    \cup [type : {"job_started"}, job : Jobs, attempt : Nat]
    \cup [type : {"job_finished"}, job : Jobs, attempt : Nat, conclusion : Conclusions]

Leases == [job : Jobs, attempt : Nat]
NoJob  == <<0, 0>>

TypeOK ==
  /\ refs \in Seq(Commits)
  /\ events \in Seq(Events)
  /\ DOMAIN queue \subseteq Jobs
  /\ \A j \in DOMAIN queue :
       queue[j] \in [holder : Runners \cup {"nobody", "done"}, count : 0..MaxDeliveries]
  /\ logs \subseteq Jobs
  /\ DOMAIN runs \subseteq Nat
  /\ \A n \in DOMAIN runs : runs[n] \in [number : Nat, status : RunStates]
  /\ DOMAIN rows \subseteq Jobs
  /\ \A j \in DOMAIN rows : rows[j] \in [status : JobStates, attempt : 0..MaxDeliveries]
  /\ applied \in 0..Len(events)
  /\ cursor \in 0..Len(refs)
  /\ orch \in [pc : {"fetch", "plan", "announce", "enqueue"}, offset : 0..Len(refs),
               todo : Seq(Commits), plan : Seq(Nat), run : Nat]
  /\ runner \in [Runners -> [pc : {"idle", "start", "run", "finish", "settle"},
                             lease : Leases]]
  /\ held \in [Runners -> SUBSET Leases]
  /\ faults \in Nat

Resting == [pc |-> "idle", lease |-> [job |-> NoJob, attempt |-> 0]]

AtFetch(offset) ==
  [pc |-> "fetch", offset |-> offset, todo |-> <<>>, plan |-> <<>>, run |-> 0]

Init ==
  /\ refs = <<>> /\ events = <<>>
  /\ queue = <<>> /\ logs = {}
  /\ runs = <<>> /\ rows = <<>>
  /\ applied = 0 /\ cursor = 0
  /\ orch = AtFetch(0)
  /\ runner = [r \in Runners |-> Resting]
  /\ held = [r \in Runners |-> {}]
  /\ faults = 0

Fault == faults < MaxFaults /\ faults' = faults + 1
-----------------------------------------------------------------------------
(***************************************************************************)
(* The orchestrator                                                        *)
(***************************************************************************)

(***************************************************************************)
(* discover: the valid workflows of a commit, by path; broken ones are     *)
(* reported, everything else is passed over.                               *)
(***************************************************************************)
Discover(c) == SelectSeq(Dir[c], LAMBDA file : file.kind = "workflow")

(***************************************************************************)
(* plan_push: one run for every workflow that wants to hear of a push, as  *)
(* the number of its jobs.                                                 *)
(***************************************************************************)
PlanPush(c) ==
  LET triggered == SelectSeq(Discover(c), LAMBDA file : file.push)
  IN  [i \in 1..Len(triggered) |-> triggered[i].jobs]

(***************************************************************************)
(* A reference moves; a deletion is a commit without workflows here.       *)
(***************************************************************************)
Push(c) ==
  /\ Len(refs) < MaxPushes
  /\ refs' = Append(refs, c)
  /\ UNCHANGED <<events, queue, logs, tableVars, orchVars, runnerVars, faults>>

(***************************************************************************)
(* next_batch moves the tailer, not the cursor.                            *)
(***************************************************************************)
Fetch ==
  /\ orch.pc = "fetch"
  /\ \E n \in (orch.offset + 1)..Len(refs) :
       orch' = [orch EXCEPT !.pc = "plan", !.offset = n,
                            !.todo = SubSeq(refs, orch.offset + 1, n)]
  /\ UNCHANGED <<logVars, tableVars, cursor, runnerVars, faults>>

(***************************************************************************)
(* The next record of the batch is planned.                                *)
(***************************************************************************)
Plan ==
  /\ orch.pc = "plan" /\ orch.todo # <<>>
  /\ LET plan == PlanPush(Head(orch.todo))
     IN  orch' = [orch EXCEPT !.todo = Tail(@), !.plan = plan,
                              !.pc = IF plan = <<>> THEN "plan" ELSE "announce"]
  /\ UNCHANGED <<logVars, tableVars, cursor, runnerVars, faults>>

(***************************************************************************)
(* The cache cannot be hydrated: the push is passed over.                  *)
(***************************************************************************)
HydrateFails ==
  /\ orch.pc = "plan" /\ orch.todo # <<>>
  /\ Fault
  /\ orch' = [orch EXCEPT !.todo = Tail(@)]
  /\ UNCHANGED <<logVars, tableVars, cursor, runnerVars>>

(***************************************************************************)
(* next_run_number: one more than the highest number in the table.         *)
(***************************************************************************)
NextRunNumber ==
  LET taken == {runs[n].number : n \in DOMAIN runs}
  IN  1 + (CHOOSE m \in taken \cup {0} : \A k \in taken : k <= m)

(***************************************************************************)
(* A run's jobs.                                                           *)
(***************************************************************************)
JobsOf(run, n) == {<<run, i>> : i \in 1..n}

Announced == UNION {JobsOf(n, events[n].jobs) :
                      n \in {m \in DOMAIN events : events[m].type = "run_queued"}}

(***************************************************************************)
(* The run is numbered and RunQueued goes to the log ...  Nobody else      *)
(* announces runs, so reading the number earlier, from a table that lags   *)
(* more, is a projector that lags more here.                               *)
(***************************************************************************)
Announce ==
  /\ orch.pc = "announce"
  /\ Cardinality(Announced) + Head(orch.plan) <= MaxJobs
  /\ events' = Append(events, [type |-> "run_queued", number |-> NextRunNumber,
                               jobs |-> Head(orch.plan)])
  /\ orch' = [orch EXCEPT !.pc = "enqueue", !.run = Len(events) + 1]
  /\ UNCHANGED <<refs, queue, logs, tableVars, cursor, runnerVars, faults>>

(***************************************************************************)
(* ... and only then do its jobs go on the queue.                          *)
(***************************************************************************)
Enqueue ==
  /\ orch.pc = "enqueue"
  /\ LET jobs == JobsOf(orch.run, Head(orch.plan))
     IN  queue' = [j \in jobs \cup DOMAIN queue |->
                     IF j \in jobs THEN [holder |-> "nobody", count |-> 0] ELSE queue[j]]
  /\ orch' = [orch EXCEPT !.plan = Tail(@),
                          !.pc = IF Tail(orch.plan) = <<>> THEN "plan" ELSE "announce"]
  /\ UNCHANGED <<refs, events, logs, tableVars, cursor, runnerVars, faults>>

(***************************************************************************)
(* The end of step: the cursor follows the tailer.                         *)
(***************************************************************************)
SetAppliedOffset ==
  /\ orch.pc = "plan" /\ orch.todo = <<>>
  /\ cursor' = orch.offset
  /\ orch' = AtFetch(orch.offset)
  /\ UNCHANGED <<logVars, tableVars, runnerVars, faults>>

(***************************************************************************)
(* A call of step fails: run logs it and fetches where the tailer stands.  *)
(***************************************************************************)
OrchestratorFails ==
  /\ orch.pc # "fetch"
  /\ Fault
  /\ orch' = AtFetch(orch.offset)
  /\ UNCHANGED <<logVars, tableVars, cursor, runnerVars>>

OrchestratorRestarts ==
  /\ Fault
  /\ orch' = AtFetch(cursor)
  /\ UNCHANGED <<logVars, tableVars, cursor, runnerVars>>
-----------------------------------------------------------------------------
(***************************************************************************)
(* The share group                                                         *)
(***************************************************************************)

(***************************************************************************)
(* A poll locks records to the runner; each acquisition is a delivery.     *)
(***************************************************************************)
Poll(r) ==
  /\ runner[r].pc = "idle" /\ held[r] = {}
  /\ \E got \in SUBSET {j \in DOMAIN queue : queue[j].holder = "nobody"} \ {{}} :
       /\ queue' = [j \in DOMAIN queue |->
                      IF j \in got THEN [holder |-> r, count |-> queue[j].count + 1]
                                   ELSE queue[j]]
       /\ held' = [held EXCEPT ![r] = {[job |-> j, attempt |-> queue[j].count + 1] : j \in got}]
  /\ UNCHANGED <<refs, events, logs, tableVars, orchVars, runner, faults>>

(***************************************************************************)
(* The lock times out, whatever its holder is doing; a record delivered    *)
(* too often is archived.                                                  *)
(***************************************************************************)
LockExpires(j) ==
  /\ queue[j].holder \in Runners
  /\ queue' = [queue EXCEPT ![j].holder = IF queue[j].count < MaxDeliveries THEN "nobody" ELSE "done"]
  /\ UNCHANGED <<refs, events, logs, tableVars, orchVars, runnerVars, faults>>
-----------------------------------------------------------------------------
(***************************************************************************)
(* A runner: RunnerService::step and execute                               *)
(***************************************************************************)
Goes(r, pc) == runner' = [runner EXCEPT ![r].pc = pc]

(***************************************************************************)
(* A faulty variant: the claim does not look at the row's status.          *)
(***************************************************************************)
Claims_AnyStatus(j) == j \in DOMAIN rows

(***************************************************************************)
(* claim_job: its WHERE clause.                                            *)
(***************************************************************************)
Claims(j) == j \in DOMAIN rows /\ rows[j].status = "queued"

(***************************************************************************)
(* The next lease is handed out and claimed, a compare-and-swap on the     *)
(* row.  The loser drops the job.                                          *)
(***************************************************************************)
Claim(r) ==
  /\ runner[r].pc = "idle"
  /\ \E lease \in held[r] :
       /\ held' = [held EXCEPT ![r] = @ \ {lease}]
       /\ \/ /\ Claims(lease.job)
             /\ rows' = [rows EXCEPT ![lease.job] = [status |-> "running", attempt |-> lease.attempt]]
             /\ runner' = [runner EXCEPT ![r] = [@ EXCEPT !.pc = "start", !.lease = lease]]
          \/ /\ ~Claims(lease.job)
             /\ runner' = [runner EXCEPT ![r] = [@ EXCEPT !.pc = "settle", !.lease = lease]]
             /\ UNCHANGED rows
  /\ UNCHANGED <<logVars, runs, applied, orchVars, faults>>

(***************************************************************************)
(* The claim fails: the lease is gone without having been settled.         *)
(***************************************************************************)
ClaimFails(r) ==
  /\ runner[r].pc = "idle"
  /\ Fault
  /\ \E lease \in held[r] : held' = [held EXCEPT ![r] = @ \ {lease}]
  /\ UNCHANGED <<logVars, tableVars, orchVars, runner>>

ReportStarted(r) ==
  /\ runner[r].pc = "start"
  /\ events' = Append(events, [type |-> "job_started", job |-> runner[r].lease.job,
                               attempt |-> runner[r].lease.attempt])
  /\ Goes(r, "run")
  /\ UNCHANGED <<refs, queue, logs, tableVars, orchVars, held, faults>>

(***************************************************************************)
(* TopicLog: what is left of the log goes out, its end marker with it.     *)
(***************************************************************************)
FlushFinal(j) == logs' = logs \cup {j}

(***************************************************************************)
(* The sandbox is prepared, run_job runs the steps in it, and the log is   *)
(* flushed with its end marker.  How it went is chosen where it is told.   *)
(***************************************************************************)
RunJob(r) ==
  /\ runner[r].pc = "run"
  /\ Goes(r, "finish")
  /\ FlushFinal(runner[r].lease.job)
  /\ UNCHANGED <<refs, events, queue, tableVars, orchVars, held, faults>>

ReportFinished(r) ==
  /\ runner[r].pc = "finish"
  /\ \E outcome \in Outcomes :
       events' = Append(events, [type |-> "job_finished", job |-> runner[r].lease.job,
                                 attempt |-> runner[r].lease.attempt, conclusion |-> outcome])
  /\ Goes(r, "settle")
  /\ UNCHANGED <<refs, queue, logs, tableVars, orchVars, held, faults>>

(***************************************************************************)
(* The record is accepted, unless its lock has gone to somebody else: then *)
(* the acknowledgement is refused and the step fails.                      *)
(***************************************************************************)
Settle(r) ==
  LET lease == runner[r].lease
      mine  == queue[lease.job] = [holder |-> r, count |-> lease.attempt]
  IN  /\ runner[r].pc = "settle"
      /\ queue' = IF mine THEN [queue EXCEPT ![lease.job].holder = "done"] ELSE queue
      /\ runner' = [runner EXCEPT ![r] = Resting]
      /\ UNCHANGED <<refs, events, logs, tableVars, orchVars, held, faults>>

(***************************************************************************)
(* A call of step fails: the lease is dropped, neither settled nor         *)
(* released, and the runner goes on.                                       *)
(***************************************************************************)
RunnerFails(r) ==
  /\ runner[r].pc # "idle"
  /\ Fault
  /\ runner' = [runner EXCEPT ![r] = Resting]
  /\ UNCHANGED <<logVars, tableVars, orchVars, held>>

(***************************************************************************)
(* The runner's process dies, or its shutdown drops the step at hand;      *)
(* another takes its place.                                                *)
(***************************************************************************)
RunnerDies(r) ==
  /\ Fault
  /\ runner' = [runner EXCEPT ![r] = Resting]
  /\ held' = [held EXCEPT ![r] = {}]
  /\ UNCHANGED <<logVars, tableVars, orchVars>>
-----------------------------------------------------------------------------
(***************************************************************************)
(* The projector: apply_ci_event                                           *)
(***************************************************************************)
IsOver(status) == status \in Conclusions

(***************************************************************************)
(* A faulty variant: the constraint on the table is not there.             *)
(***************************************************************************)
NumberTaken_Never(number) == FALSE

(***************************************************************************)
(* The rows of RunQueued.  The table holds a number once.                  *)
(***************************************************************************)
NumberTaken(number) == \E n \in DOMAIN runs : runs[n].number = number

UpsertRun(n, number) ==
  [m \in DOMAIN runs \cup {n} |-> IF m = n THEN [number |-> number, status |-> "queued"] ELSE runs[m]]

UpsertJobs(jobs) ==
  [j \in jobs \cup DOMAIN rows |-> IF j \in jobs THEN [status |-> "queued", attempt |-> 0] ELSE rows[j]]

ApplyRunQueued(n, e) ==
  /\ ~NumberTaken(e.number)
  /\ runs' = UpsertRun(n, e.number)
  /\ rows' = UpsertJobs(JobsOf(n, e.jobs))

(***************************************************************************)
(* A start is another claim, and only a claim that takes marks the run.    *)
(***************************************************************************)
MarkRunRunning(run) ==
  IF runs[run].status = "queued" THEN [runs EXCEPT ![run].status = "running"] ELSE runs

ApplyJobStarted(e) ==
  IF Claims(e.job)
  THEN /\ rows' = [rows EXCEPT ![e.job] = [status |-> "running", attempt |-> e.attempt]]
       /\ runs' = MarkRunRunning(e.job[1])
  ELSE UNCHANGED <<rows, runs>>

(***************************************************************************)
(* A faulty variant: one success is enough.                                *)
(***************************************************************************)
FromJobs_AnySuccess(verdicts) == IF "success" \in verdicts THEN "success" ELSE "failed"

(***************************************************************************)
(* RunConclusion::from_jobs; nothing in this build cancels a job.          *)
(***************************************************************************)
FromJobs(verdicts) == IF verdicts = {"success"} THEN "success" ELSE "failed"

(***************************************************************************)
(* run_conclusion: nothing to say of a run until all its rows are over.    *)
(***************************************************************************)
RunConclusion(statuses) ==
  IF \A status \in statuses : IsOver(status) THEN {FromJobs(statuses)} ELSE {}

(***************************************************************************)
(* finish_job: its WHERE clause.                                           *)
(***************************************************************************)
Finishes(e) == e.job \in DOMAIN rows /\ rows[e.job].attempt = e.attempt

(***************************************************************************)
(* The verdict counts if its attempt owns the row; the last one of a run   *)
(* concludes it.                                                           *)
(***************************************************************************)
ApplyJobFinished(e) ==
  LET run      == e.job[1]
      statuses == {rows'[j].status : j \in {k \in DOMAIN rows : k[1] = run}}
  IN  /\ rows' = IF Finishes(e) THEN [rows EXCEPT ![e.job].status = e.conclusion] ELSE rows
      /\ IF Finishes(e) /\ RunConclusion(statuses) # {} /\ ~IsOver(runs[run].status)
         THEN \E status \in RunConclusion(statuses) : runs' = [runs EXCEPT ![run].status = status]
         ELSE runs' = runs

Apply(n, e) ==
  \/ e.type = "run_queued"   /\ ApplyRunQueued(n, e)
  \/ e.type = "job_started"  /\ ApplyJobStarted(e)
  \/ e.type = "job_finished" /\ ApplyJobFinished(e)

Project ==
  /\ ProjectsCi
  /\ applied < Len(events)
  /\ Apply(applied + 1, events[applied + 1])
  /\ applied' = applied + 1
  /\ UNCHANGED <<logVars, orchVars, runnerVars, faults>>
-----------------------------------------------------------------------------
Orchestrate ==
  \/ Fetch
  \/ Plan
  \/ Announce
  \/ Enqueue
  \/ SetAppliedOffset

Work(r) ==
  \/ Poll(r)
  \/ Claim(r)
  \/ ReportStarted(r)
  \/ RunJob(r)
  \/ ReportFinished(r)
  \/ Settle(r)

Next ==
  \/ \E c \in Commits : Push(c)
  \/ Orchestrate
  \/ HydrateFails
  \/ OrchestratorFails
  \/ OrchestratorRestarts
  \/ \E j \in DOMAIN queue : LockExpires(j)
  \/ \E r \in Runners : Work(r) \/ ClaimFails(r) \/ RunnerFails(r) \/ RunnerDies(r)
  \/ Project

Spec == Init /\ [][Next]_vars

(***************************************************************************)
(* The tasks are polled, steps and sandboxes have timeouts, locks run out. *)
(***************************************************************************)
Fairness ==
  /\ WF_vars(Orchestrate)
  /\ WF_vars(Project)
  /\ \A r \in Runners : WF_vars(Work(r))
  /\ WF_vars(\E j \in DOMAIN queue : LockExpires(j))

LiveSpec == Spec /\ Fairness
-----------------------------------------------------------------------------
(***************************************************************************)
(* Properties                                                              *)
(***************************************************************************)
About(type, j) == {n \in DOMAIN events : events[n].type = type /\ events[n].job = j}

(***************************************************************************)
(* "Two runners can be handed the same job, and exactly one of them gets   *)
(* to run it": however leases expire and are delivered again, a job is     *)
(* started at most once, and its verdict, if any, is of that attempt.  No  *)
(* job is on the queue that nobody announced.                              *)
(***************************************************************************)
RunsOnce ==
  /\ DOMAIN queue \subseteq Announced
  /\ \A j \in DOMAIN queue :
       \A m \in About("job_started", j) \cup About("job_finished", j) :
         /\ \A n \in About(events[m].type, j) : m = n
         /\ events[m].attempt = rows[j].attempt

(***************************************************************************)
(* The check on a pull request tells the truth: a run shown as a success   *)
(* has a verdict of success on the log for every one of its jobs, and one  *)
(* shown as a failure has a verdict that is none; and nobody reports a     *)
(* verdict whose log has no end, for which a reader would wait for ever.   *)
(***************************************************************************)
ChecksAreTrue ==
  /\ \A n \in DOMAIN events : events[n].type = "job_finished" => events[n].job \in logs
  /\ \A n \in DOMAIN runs :
       LET verdicts == {events[m].conclusion : m \in
                          UNION {About("job_finished", j) : j \in JobsOf(n, events[n].jobs)}}
           reported == {j \in JobsOf(n, events[n].jobs) : About("job_finished", j) # {}}
       IN  /\ runs[n].status = "success" => /\ verdicts = {"success"}
                                            /\ reported = JobsOf(n, events[n].jobs)
           /\ runs[n].status = "failed" => verdicts \ {"success"} # {}

(***************************************************************************)
(* The runs a repository shows are numbered 1, 2, 3, ... without gap or    *)
(* repetition, although their numbers are read from a table that lags.     *)
(***************************************************************************)
RunNumbersDense ==
  /\ {runs[n].number : n \in DOMAIN runs} = 1..Cardinality(DOMAIN runs)
  /\ \A m, n \in DOMAIN runs : m < n => runs[m].number < runs[n].number

(***************************************************************************)
(* What a pull request has shown as over stays as it was: no late or       *)
(* repeated report changes a verdict.                                      *)
(***************************************************************************)
VerdictsStand ==
  [][ /\ \A j \in DOMAIN rows : IsOver(rows[j].status) => rows'[j] = rows[j]
      /\ \A n \in DOMAIN runs : IsOver(runs[n].status) => runs'[n] = runs[n] ]_vars

(***************************************************************************)
(* What the README says of Crab Actions: "Commit a workflow and pushing    *)
(* runs it".  A job on the queue is started, if nothing fails.             *)
(***************************************************************************)
PushingRuns ==
  \A j \in (1..3 * MaxJobs) \X (1..MaxJobs) :
    j \in DOMAIN queue ~> About("job_started", j) # {} \/ faults > 0
=============================================================================
