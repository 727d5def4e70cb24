-------------------------- MODULE CiPipelineProofs --------------------------
(***************************************************************************)
(* Proofs about Crab Actions, for any commits, workflows, runners and      *)
(* outcomes, any number of deliveries and of faults.                       *)
(***************************************************************************)
EXTENDS CiPipeline, FiniteSetTheorems, TLAPS

-----------------------------------------------------------------------------
(***************************************************************************)
(* The inductive invariant                                                 *)
(***************************************************************************)
IsSeq(s) == \E S : s \in Seq(S)

Queued(e)   == e.type = "run_queued" /\ e.number \in Nat
Started(e)  == e.type = "job_started" /\ e.job \in Jobs /\ e.attempt \in Nat
Finished(e) == /\ e.type = "job_finished" /\ e.job \in Jobs /\ e.attempt \in Nat
               /\ e.conclusion \in Outcomes

\* Types, of all but the orchestrator's plan: how many jobs a workflow has is
\* whatever the workflow says.
Typed ==
  /\ IsSeq(events)
  /\ \A n \in DOMAIN events : Queued(events[n]) \/ Started(events[n]) \/ Finished(events[n])
  /\ applied \in 0..Len(events)
  /\ DOMAIN queue \subseteq Jobs
  /\ \A j \in DOMAIN queue :
       queue[j] \in [holder : Runners \cup {"nobody", "done"}, count : Nat]
  /\ DOMAIN runs \subseteq 1..applied
  /\ \A n \in DOMAIN runs : runs[n] \in [number : Nat, status : RunStates]
  /\ DOMAIN rows \subseteq Jobs
  /\ \A j \in DOMAIN rows : rows[j] \in [status : JobStates, attempt : Nat]
  /\ DOMAIN orch = {"pc", "offset", "todo", "plan", "run"}
  /\ runner \in [Runners -> [pc : {"idle", "start", "run", "finish", "settle"}, lease : Leases]]
  /\ held \in [Runners -> SUBSET Leases]

\* Jobs go on the queue after their run is announced.
AnnouncedFirst ==
  /\ DOMAIN queue \subseteq Announced
  /\ orch.pc = "enqueue" =>
       /\ orch.run \in DOMAIN events /\ events[orch.run].type = "run_queued"
       /\ events[orch.run].jobs = Head(orch.plan)

\* The tables hold the runs projected so far, and all of their jobs.
RowsOfRuns ==
  /\ DOMAIN runs = {n \in 1..applied : events[n].type = "run_queued"}
  /\ \A j \in Jobs : j \in DOMAIN rows <=> j[1] \in DOMAIN runs /\ j \in JobsOf(j[1], events[j[1]].jobs)

\* A runner that has won a claim owns the row until it has told its verdict, and
\* nobody has told anything of the job that comes later than where the runner is.
Busy(r) == runner[r].pc \in {"start", "run", "finish"}

Silent(type, j) == \A n \in DOMAIN events : events[n].type = type => events[n].job # j

Owns(r) ==
  LET lease == runner[r].lease
  IN  /\ lease.job \in DOMAIN rows
      /\ rows[lease.job] = [status |-> "running", attempt |-> lease.attempt]
      /\ Silent("job_finished", lease.job)
      /\ runner[r].pc = "start" => Silent("job_started", lease.job)
      /\ runner[r].pc = "finish" => lease.job \in logs

Owned ==
  /\ \A r \in Runners : Busy(r) => Owns(r)
  /\ \A r, s \in Runners : Busy(r) /\ Busy(s) /\ runner[r].lease.job = runner[s].lease.job => r = s

\* What is told of a job is told once, by the attempt that claimed its row, and a
\* verdict after its log.
ToldOnce ==
  \A n \in DOMAIN events : events[n].type \in {"job_started", "job_finished"} =>
    LET e == events[n]
    IN  /\ e.job \in DOMAIN rows /\ rows[e.job].status # "queued" /\ rows[e.job].attempt = e.attempt
        /\ \A m \in DOMAIN events : events[m].type = e.type /\ events[m].job = e.job => m = n
        /\ e.type = "job_finished" => e.job \in logs

\* A row that is over says what an event has said; a run that is over, what its
\* rows say.
RowsSayTrue ==
  /\ \A j \in DOMAIN rows : IsOver(rows[j].status) =>
       \E m \in 1..applied : /\ events[m].type = "job_finished" /\ events[m].job = j
                            /\ events[m].conclusion = rows[j].status
  /\ \A n \in DOMAIN runs :
       LET mine == {j \in DOMAIN rows : j[1] = n}
       IN  /\ runs[n].status = "success" => mine # {} /\ \A j \in mine : rows[j].status = "success"
           /\ runs[n].status = "failed" =>
                \E j \in mine : IsOver(rows[j].status) /\ rows[j].status # "success"

\* Numbers are read from a table that lags, so that announced runs may share the
\* next one; but never one that is further.
Numbered ==
  /\ IsFiniteSet(DOMAIN runs)
  /\ RunNumbersDense
  /\ \A n \in DOMAIN events :
       events[n].type = "run_queued" => events[n].number \in 1..Cardinality(DOMAIN runs) + 1

IInv == Typed /\ AnnouncedFirst /\ RowsOfRuns /\ Owned /\ ToldOnce /\ RowsSayTrue /\ Numbered

-----------------------------------------------------------------------------
(***************************************************************************)
(* The event topic                                                         *)
(***************************************************************************)

\* What appending does to a sequence.
LEMMA Appended ==
  ASSUME NEW s, IsSeq(s), NEW e, NEW t, t = Append(s, e)
  PROVE  /\ IsSeq(t) /\ Len(s) \in Nat /\ Len(t) = Len(s) + 1
         /\ DOMAIN s = 1..Len(s) /\ DOMAIN t = 1..Len(s) + 1
         /\ \A n \in DOMAIN s : t[n] = s[n]
         /\ t[Len(s) + 1] = e
<1>1. PICK S : s \in Seq(S)
  BY DEF IsSeq
<1>2. t \in Seq(S \cup {e})
  BY <1>1
<1> QED BY <1>1, <1>2 DEF IsSeq

\* Jobs have a run and a place in it.
LEMMA JobsArePairs ==
  ASSUME NEW run \in Nat, NEW n
  PROVE  /\ JobsOf(run, n) \subseteq Jobs
         /\ \A j \in JobsOf(run, n) : j[1] = run
BY DEF JobsOf, Jobs

-----------------------------------------------------------------------------
(***************************************************************************)
(* The tables and the events are kept by steps that touch neither          *)
(***************************************************************************)
Told == <<events, logs, runs, rows, applied>>

\* A runner stays where it is or drops what it does.
Idles == \A r \in Runners : runner'[r] = runner[r] \/ ~Busy(r)'

LEMMA QuietStep ==
  ASSUME IInv, UNCHANGED Told, Idles
  PROVE  RowsOfRuns' /\ Owned' /\ ToldOnce' /\ RowsSayTrue' /\ Numbered'
<1> USE DEF Told, IInv
<1>1. RowsOfRuns'
  BY DEF RowsOfRuns
<1>2. Owned'
  <2>1. \A r \in Runners : Busy(r)' => Busy(r) /\ runner'[r] = runner[r]
    BY DEF Idles, Busy
  <2>2. \A type, j : Silent(type, j)' = Silent(type, j)
    BY DEF Silent
  <2> QED BY <2>1, <2>2 DEF Owned, Owns
<1>3. ToldOnce'
  BY DEF ToldOnce
<1>4. RowsSayTrue'
  BY DEF RowsSayTrue
<1>5. Numbered'
  BY DEF Numbered, RunNumbersDense
<1> QED BY <1>1, <1>2, <1>3, <1>4, <1>5

-----------------------------------------------------------------------------
(***************************************************************************)
(* Announcing a run                                                        *)
(***************************************************************************)

\* The number read from the table is the one after its runs.
LEMMA NextNumber ==
  ASSUME Numbered
  PROVE  NextRunNumber = Cardinality(DOMAIN runs) + 1
<1> DEFINE c == Cardinality(DOMAIN runs)
           taken == {runs[n].number : n \in DOMAIN runs}
           top == CHOOSE m \in taken \cup {0} : \A k \in taken : k <= m
<1>1. c \in Nat
  BY FS_CardinalityType DEF Numbered
<1>2. taken = 1..c
  BY DEF Numbered, RunNumbersDense
<1> HIDE DEF taken, c
<1>3. c \in taken \cup {0} /\ \A k \in taken : k <= c
  BY <1>1, <1>2
<1>4. top \in taken \cup {0} /\ \A k \in taken : k <= top
  BY <1>3
<1>5. top = c
  BY <1>1, <1>2, <1>3, <1>4
<1>6. NextRunNumber = 1 + top
  BY Zenon DEF NextRunNumber, taken
<1> HIDE DEF top
<1> QED BY <1>1, <1>5, <1>6 DEF c

LEMMA AnnounceStep ==
  ASSUME IInv, Announce
  PROVE  RowsOfRuns' /\ Owned' /\ ToldOnce' /\ RowsSayTrue' /\ Numbered'
<1> DEFINE e == [type |-> "run_queued", number |-> NextRunNumber, jobs |-> Head(orch.plan)]
<1>0. /\ events' = Append(events, e) /\ logs' = logs /\ runs' = runs /\ rows' = rows
      /\ applied' = applied /\ runner' = runner
  BY DEF Announce, tableVars, runnerVars
<1>1. /\ Len(events) \in Nat /\ DOMAIN events = 1..Len(events)
      /\ DOMAIN events' = DOMAIN events \cup {Len(events) + 1}
      /\ \A n \in DOMAIN events : events'[n] = events[n]
      /\ events'[Len(events) + 1] = e
  BY <1>0, Appended DEF IInv, Typed
<1>2. applied \in Nat /\ 1..applied \subseteq DOMAIN events
  BY <1>1 DEF IInv, Typed
<1>3. e.type = "run_queued" /\ e.number = Cardinality(DOMAIN runs) + 1
  BY NextNumber DEF IInv
<1> HIDE DEF e
<1>4. \A type \in {"job_started", "job_finished"} : \A j : Silent(type, j)' = Silent(type, j)
  BY <1>1, <1>3 DEF Silent
<1>5. RowsOfRuns'
  BY <1>0, <1>1, <1>2 DEF IInv, RowsOfRuns
<1>6. Owned'
  <2>1. \A r \in Runners : Busy(r)' = Busy(r)
    BY <1>0 DEF Busy
  <2> QED BY <1>0, <1>4, <2>1 DEF IInv, Owned, Owns
<1>7. ToldOnce'
  BY <1>0, <1>1, <1>3 DEF IInv, ToldOnce
<1>8. RowsSayTrue'
  BY <1>0, <1>1, <1>2 DEF IInv, RowsSayTrue
<1>9. Numbered'
  <2>1. Cardinality(DOMAIN runs) \in Nat
    BY FS_CardinalityType DEF IInv, Numbered
  <2>2. \A n \in DOMAIN events' : events'[n].type = "run_queued" =>
          events'[n].number \in 1..Cardinality(DOMAIN runs) + 1
    BY <1>1, <1>3, <2>1 DEF IInv, Numbered
  <2> QED BY <1>0, <2>2 DEF IInv, Numbered, RunNumbersDense
<1> QED BY <1>5, <1>6, <1>7, <1>8, <1>9

-----------------------------------------------------------------------------
(***************************************************************************)
(* A runner's steps                                                        *)
(***************************************************************************)

\* The claim that takes.
Claimed(r, lease) ==
  /\ runner[r].pc = "idle" /\ lease \in held[r] /\ Claims(lease.job)
  /\ rows' = [rows EXCEPT ![lease.job] = [status |-> "running", attempt |-> lease.attempt]]
  /\ runner' = [runner EXCEPT ![r] = [@ EXCEPT !.pc = "start", !.lease = lease]]
  /\ UNCHANGED <<events, logs, runs, applied>>

LEMMA ClaimStep ==
  ASSUME IInv, NEW r \in Runners, NEW lease, Claimed(r, lease)
  PROVE  RowsOfRuns' /\ Owned' /\ ToldOnce' /\ RowsSayTrue' /\ Numbered'
<1> DEFINE job == lease.job
           row == [status |-> "running", attempt |-> lease.attempt]
<1>0. /\ job \in DOMAIN rows /\ rows[job].status = "queued"
      /\ DOMAIN rows' = DOMAIN rows /\ rows'[job] = row
      /\ \A j \in DOMAIN rows \ {job} : rows'[j] = rows[j]
      /\ events' = events /\ logs' = logs /\ runs' = runs /\ applied' = applied
  BY DEF Claimed, Claims
<1>1. runner'[r].pc = "start" /\ runner'[r].lease = lease
      /\ \A s \in Runners \ {r} : runner'[s] = runner[s]
  BY DEF Claimed, IInv, Typed
<1>2. \A type, j : Silent(type, j)' = Silent(type, j)
  BY <1>0 DEF Silent
<1>3. Silent("job_started", job) /\ Silent("job_finished", job)
  BY <1>0 DEF IInv, ToldOnce, Silent
<1>4. \A s \in Runners : Busy(s) => runner[s].lease.job # job
  <2> SUFFICES ASSUME NEW s \in Runners, Busy(s), runner[s].lease.job = job
               PROVE  FALSE
    OBVIOUS
  <2>1. rows[job] = [status |-> "running", attempt |-> runner[s].lease.attempt]
    BY DEF IInv, Owned, Owns
  <2> QED BY <1>0, <2>1
<1>5. \A s \in Runners \ {r} : Busy(s)' = Busy(s)
  BY <1>1 DEF Busy
<1>r. row.status = "running" /\ row.attempt = lease.attempt
  OBVIOUS
<1>6. RowsOfRuns'
  BY <1>0 DEF IInv, RowsOfRuns
<1>7. Owned'
  <2>1. ASSUME NEW s \in Runners \ {r}, Busy(s)'
        PROVE  Owns(s)' /\ runner'[s].lease.job # job
    <3>1. Busy(s) /\ Owns(s) /\ runner[s].lease.job # job /\ runner'[s] = runner[s]
      BY <1>1, <1>4, <1>5, <2>1 DEF IInv, Owned
    <3>2. rows'[runner[s].lease.job] = rows[runner[s].lease.job]
      BY <1>0, <3>1 DEF Owns
    <3> HIDE DEF job, row
    <3> QED BY <1>0, <1>2, <3>1, <3>2 DEF Owns
  <2>2. \A s, t \in Runners \ {r} :
          Busy(s)' /\ Busy(t)' /\ runner'[s].lease.job = runner'[t].lease.job => s = t
    BY <1>1, <1>5 DEF IInv, Owned
  <2>3. Owns(r)'
    BY <1>0, <1>1, <1>2, <1>3 DEF Owns
  <2> QED BY <1>1, <2>1, <2>2, <2>3 DEF Owned
<1> HIDE DEF row
<1>8. ToldOnce'
  BY <1>0, <1>3, <1>r DEF IInv, ToldOnce, Silent
<1>9. RowsSayTrue'
  <2>1. ~IsOver("running") /\ ~IsOver("queued") /\ "queued" # "success"
    BY DEF IsOver, Conclusions
  <2>2. \A j \in DOMAIN rows' : IsOver(rows'[j].status) =>
          \E m \in 1..applied' : /\ events'[m].type = "job_finished" /\ events'[m].job = j
                                /\ events'[m].conclusion = rows'[j].status
    BY <1>0, <1>r, <2>1 DEF IInv, RowsSayTrue
  <2>3. ASSUME NEW n \in DOMAIN runs'
        PROVE  LET mine == {j \in DOMAIN rows' : j[1] = n}
               IN  /\ runs'[n].status = "success" =>
                        mine # {} /\ \A j \in mine : rows'[j].status = "success"
                   /\ runs'[n].status = "failed" =>
                        \E j \in mine : IsOver(rows'[j].status) /\ rows'[j].status # "success"
    <3> DEFINE mine == {j \in DOMAIN rows : j[1] = n}
    <3>1. runs[n].status = "success" => mine # {} /\ \A j \in mine : rows[j].status = "success"
      BY <1>0, <2>3 DEF IInv, RowsSayTrue
    <3>2. runs[n].status = "failed" =>
            \E j \in mine : IsOver(rows[j].status) /\ rows[j].status # "success"
      BY <1>0, <2>3 DEF IInv, RowsSayTrue
    <3>3. mine = {j \in DOMAIN rows' : j[1] = n}
      BY <1>0
    <3>4. runs[n].status = "success" => job \notin mine
      BY <1>0, <3>1
    <3> QED BY <1>0, <2>1, <3>1, <3>2, <3>3, <3>4
  <2> QED BY <2>2, <2>3 DEF RowsSayTrue
<1>10. Numbered'
  BY <1>0 DEF IInv, Numbered, RunNumbersDense
<1> QED BY <1>6, <1>7, <1>8, <1>9, <1>10

LEMMA RunJobStep ==
  ASSUME IInv, NEW r \in Runners, RunJob(r)
  PROVE  RowsOfRuns' /\ Owned' /\ ToldOnce' /\ RowsSayTrue' /\ Numbered'
<1>0. /\ events' = events /\ runs' = runs /\ rows' = rows /\ applied' = applied
      /\ logs' = logs \cup {runner[r].lease.job}
  BY DEF RunJob, FlushFinal, tableVars
<1>1. /\ runner[r].pc = "run" /\ runner'[r].pc = "finish" /\ runner'[r].lease = runner[r].lease
      /\ \A s \in Runners \ {r} : runner'[s] = runner[s]
  BY DEF RunJob, Goes, IInv, Typed
<1>2. \A s \in Runners : Busy(s)' = Busy(s) /\ runner'[s].lease = runner[s].lease
  BY <1>1 DEF Busy
<1>3. \A type, j : Silent(type, j)' = Silent(type, j)
  BY <1>0 DEF Silent
<1>4. RowsOfRuns'
  BY <1>0 DEF IInv, RowsOfRuns
<1>5. Owned'
  <2>1. ASSUME NEW s \in Runners, Busy(s)'
        PROVE  Owns(s)'
    <3>1. Owns(s)
      BY <1>2, <2>1 DEF IInv, Owned
    <3> QED BY <1>0, <1>1, <1>2, <1>3, <3>1 DEF Owns
  <2> QED BY <1>2, <2>1 DEF IInv, Owned
<1>6. ToldOnce'
  BY <1>0 DEF IInv, ToldOnce
<1>7. RowsSayTrue'
  BY <1>0 DEF IInv, RowsSayTrue
<1>8. Numbered'
  BY <1>0 DEF IInv, Numbered, RunNumbersDense
<1> QED BY <1>4, <1>5, <1>6, <1>7, <1>8

\* A report: an event of a busy runner about the job it owns.
Reports(r, e) ==
  /\ Busy(r)
  /\ e.job = runner[r].lease.job /\ e.attempt = runner[r].lease.attempt
  /\ \/ /\ e.type = "job_started" /\ runner[r].pc = "start" /\ runner'[r].pc = "run"
     \/ e.type = "job_finished" /\ runner[r].pc = "finish" /\ runner'[r].pc = "settle"
  /\ runner'[r].lease = runner[r].lease
  /\ \A s \in Runners \ {r} : runner'[s] = runner[s]
  /\ events' = Append(events, e)
  /\ UNCHANGED <<logs, runs, rows, applied>>

LEMMA ReportStep ==
  ASSUME IInv, NEW r \in Runners, NEW e, Reports(r, e)
  PROVE  RowsOfRuns' /\ Owned' /\ ToldOnce' /\ RowsSayTrue' /\ Numbered'
<1> DEFINE at == Len(events) + 1
           job == runner[r].lease.job
<1>0. /\ logs' = logs /\ runs' = runs /\ rows' = rows /\ applied' = applied
      /\ e.job = job /\ e.type \in {"job_started", "job_finished"} /\ Busy(r)
      /\ e.attempt = runner[r].lease.attempt
  BY DEF Reports
<1>1. /\ Len(events) \in Nat /\ DOMAIN events = 1..Len(events)
      /\ DOMAIN events' = DOMAIN events \cup {at} /\ at \notin DOMAIN events
      /\ \A n \in DOMAIN events : events'[n] = events[n]
      /\ events'[at] = e
  BY Appended DEF Reports, IInv, Typed
<1>2. applied \in Nat /\ 1..applied \subseteq DOMAIN events
  BY <1>1 DEF IInv, Typed
<1> HIDE DEF at
<1>3. \A s \in Runners : Busy(s)' => Busy(s) /\ runner'[s].lease = runner[s].lease
  BY DEF Reports, Busy
<1>4. /\ job \in DOMAIN rows /\ rows[job] = [status |-> "running", attempt |-> runner[r].lease.attempt]
      /\ Silent(e.type, job) /\ (e.type = "job_finished" => job \in logs)
  BY <1>0 DEF IInv, Owned, Owns, Reports
<1>5. \A type, j : Silent(type, j)' = (Silent(type, j) /\ (e.type = type => e.job # j))
  BY <1>1 DEF Silent
<1>6. RowsOfRuns'
  BY <1>0, <1>1, <1>2 DEF IInv, RowsOfRuns
<1>7. Owned'
  <2>1. ASSUME NEW s \in Runners, Busy(s)', s # r
        PROVE  Owns(s)'
    <3>1. Owns(s) /\ runner[s].lease.job # job /\ runner'[s] = runner[s]
      BY <1>0, <1>3, <2>1 DEF IInv, Owned, Reports
    <3> QED BY <1>0, <1>5, <3>1 DEF Owns
  <2>2. ASSUME Busy(r)'
        PROVE  Owns(r)'
    <3>1. e.type = "job_started" /\ runner'[r].pc = "run"
      BY <2>2 DEF Reports, Busy
    <3>2. Owns(r)
      BY <1>0 DEF IInv, Owned
    <3> QED BY <1>0, <1>3, <1>5, <2>2, <3>1, <3>2 DEF Owns
  <2> QED BY <1>3, <2>1, <2>2 DEF IInv, Owned
<1>8. ToldOnce'
  <2>1. rows[job].status # "queued" /\ rows[job].attempt = e.attempt
    BY <1>0, <1>4
  <2>2. ASSUME NEW n \in DOMAIN events', events'[n].type \in {"job_started", "job_finished"}
        PROVE  LET x == events'[n]
               IN  /\ x.job \in DOMAIN rows' /\ rows'[x.job].status # "queued"
                   /\ rows'[x.job].attempt = x.attempt
                   /\ x.type = "job_finished" => x.job \in logs'
    <3>1. CASE n = at
      BY <1>0, <1>1, <1>4, <2>1, <3>1
    <3>2. CASE n \in DOMAIN events
      BY <1>0, <1>1, <2>2, <3>2 DEF IInv, ToldOnce
    <3> QED BY <1>1, <3>1, <3>2
  <2>3. ASSUME NEW n \in DOMAIN events', events'[n].type \in {"job_started", "job_finished"},
               NEW m \in DOMAIN events', events'[m].type = events'[n].type,
               events'[m].job = events'[n].job
        PROVE  m = n
    <3>1. CASE n = at /\ m \in DOMAIN events
      BY <1>0, <1>1, <1>4, <2>3, <3>1 DEF Silent
    <3>2. CASE m = at /\ n \in DOMAIN events
      BY <1>0, <1>1, <1>4, <2>3, <3>2 DEF Silent
    <3>3. CASE n \in DOMAIN events /\ m \in DOMAIN events
      BY <1>1, <2>3, <3>3 DEF IInv, ToldOnce
    <3> QED BY <1>1, <3>1, <3>2, <3>3
  <2> HIDE DEF job
  <2> QED BY <2>2, <2>3 DEF ToldOnce
<1>9. RowsSayTrue'
  BY <1>0, <1>1, <1>2 DEF IInv, RowsSayTrue
<1>10. Numbered'
  <2>1. \A n \in DOMAIN events' : events'[n].type = "run_queued" =>
          events'[n].number \in 1..Cardinality(DOMAIN runs) + 1
    BY <1>0, <1>1 DEF IInv, Numbered
  <2> QED BY <1>0, <2>1 DEF IInv, Numbered, RunNumbersDense
<1> QED BY <1>6, <1>7, <1>8, <1>9, <1>10

-----------------------------------------------------------------------------
(***************************************************************************)
(* The projector's steps                                                   *)
(***************************************************************************)
Projects(e) ==
  /\ applied + 1 \in DOMAIN events /\ e = events[applied + 1] /\ applied' = applied + 1
  /\ UNCHANGED <<events, logs, runner>>

\* A started job has been claimed, so that its start finds nothing to do.
LEMMA StartedIsClaimed ==
  ASSUME IInv, NEW e, Projects(e), e.type = "job_started", ApplyJobStarted(e)
  PROVE  rows' = rows /\ runs' = runs
<1>1. ~Claims(e.job)
  BY DEF Projects, IInv, ToldOnce, Claims
<1> QED BY <1>1 DEF ApplyJobStarted

LEMMA ProjectStarted ==
  ASSUME IInv, NEW e, Projects(e), e.type = "job_started", ApplyJobStarted(e)
  PROVE  RowsOfRuns' /\ Owned' /\ ToldOnce' /\ RowsSayTrue' /\ Numbered'
<1>0. /\ rows' = rows /\ runs' = runs /\ events' = events /\ logs' = logs /\ runner' = runner
      /\ applied' = applied + 1 /\ events[applied + 1].type = "job_started"
  BY StartedIsClaimed DEF Projects
<1>1. applied \in Nat
  BY DEF IInv, Typed
<1>2. RowsOfRuns'
  <2>1. {n \in 1..applied' : events'[n].type = "run_queued"}
          = {n \in 1..applied : events[n].type = "run_queued"}
    BY <1>0, <1>1
  <2> QED BY <1>0, <2>1 DEF IInv, RowsOfRuns
<1>3. Owned'
  <2>1. \A r \in Runners : Busy(r)' = Busy(r) /\ Owns(r)' = Owns(r)
    BY <1>0 DEF Busy, Owns, Silent
  <2> QED BY <1>0, <2>1 DEF IInv, Owned
<1>4. ToldOnce'
  BY <1>0 DEF IInv, ToldOnce
<1>5. RowsSayTrue'
  <2>1. 1..applied \subseteq 1..applied'
    BY <1>0, <1>1
  <2> QED BY <1>0, <2>1 DEF IInv, RowsSayTrue
<1>6. Numbered'
  BY <1>0 DEF IInv, Numbered, RunNumbersDense
<1> QED BY <1>2, <1>3, <1>4, <1>5, <1>6

\* What the rows of a new run leave alone: all rows there are.
LEMMA RunQueuedRows ==
  ASSUME IInv, NEW e, Projects(e), Queued(e), ApplyRunQueued(applied + 1, e)
  PROVE  LET n == applied + 1
         IN  /\ n \notin DOMAIN runs /\ DOMAIN runs' = DOMAIN runs \cup {n}
             /\ runs'[n] = [number |-> e.number, status |-> "queued"]
             /\ \A m \in DOMAIN runs : runs'[m] = runs[m]
             /\ JobsOf(n, e.jobs) \cap DOMAIN rows = {}
             /\ DOMAIN rows' = JobsOf(n, e.jobs) \cup DOMAIN rows
             /\ \A j \in JobsOf(n, e.jobs) : rows'[j] = [status |-> "queued", attempt |-> 0] /\ j[1] = n
             /\ \A j \in DOMAIN rows : rows'[j] = rows[j] /\ j[1] # n
<1> DEFINE n == applied + 1
<1>0. applied \in Nat /\ n \in Nat
  BY DEF IInv, Typed
<1>1. n \notin DOMAIN runs
  BY <1>0 DEF IInv, Typed
<1>2. \A j \in DOMAIN rows : j[1] # n
  BY <1>1 DEF IInv, Typed, RowsOfRuns
<1>3. \A j \in JobsOf(n, e.jobs) : j[1] = n
  BY <1>0, JobsArePairs
<1>4. runs' = UpsertRun(n, e.number) /\ rows' = UpsertJobs(JobsOf(n, e.jobs))
  BY DEF ApplyRunQueued
<1> HIDE DEF n
<1>5. /\ DOMAIN runs' = DOMAIN runs \cup {n}
      /\ runs'[n] = [number |-> e.number, status |-> "queued"]
      /\ \A m \in DOMAIN runs : runs'[m] = runs[m]
  BY <1>1, <1>4 DEF UpsertRun
<1>6. /\ DOMAIN rows' = JobsOf(n, e.jobs) \cup DOMAIN rows
      /\ \A j \in JobsOf(n, e.jobs) : rows'[j] = [status |-> "queued", attempt |-> 0]
      /\ \A j \in DOMAIN rows : rows'[j] = rows[j]
  BY <1>2, <1>3, <1>4 DEF UpsertJobs
<1> QED BY <1>1, <1>2, <1>3, <1>5, <1>6 DEF n

LEMMA ProjectRun ==
  ASSUME IInv, NEW e, Projects(e), Queued(e), ApplyRunQueued(applied + 1, e)
  PROVE  RowsOfRuns' /\ Owned' /\ ToldOnce' /\ RowsSayTrue' /\ Numbered'
<1> DEFINE n == applied + 1
           new == JobsOf(n, e.jobs)
<1>0. /\ n \notin DOMAIN runs /\ DOMAIN runs' = DOMAIN runs \cup {n}
      /\ runs'[n] = [number |-> e.number, status |-> "queued"]
      /\ \A m \in DOMAIN runs : runs'[m] = runs[m]
      /\ new \cap DOMAIN rows = {}
      /\ DOMAIN rows' = new \cup DOMAIN rows
      /\ \A j \in new : rows'[j] = [status |-> "queued", attempt |-> 0] /\ j[1] = n
      /\ \A j \in DOMAIN rows : rows'[j] = rows[j] /\ j[1] # n
  BY RunQueuedRows
<1>1. /\ events' = events /\ logs' = logs /\ runner' = runner /\ applied' = n
      /\ e = events[n] /\ e.type = "run_queued" /\ n \in DOMAIN events
  BY DEF Projects, Queued
<1>2. applied \in Nat /\ n \in Nat /\ 1..n = 1..applied \cup {n} /\ DOMAIN runs \subseteq 1..applied
  BY DEF IInv, Typed
<1>3. new \subseteq Jobs
  BY <1>2, JobsArePairs
<1>n. n = applied + 1
  OBVIOUS
<1> HIDE DEF n
<1>4. RowsOfRuns'
  <2>1. DOMAIN runs' = {m \in 1..applied' : events'[m].type = "run_queued"}
    BY <1>0, <1>1, <1>2 DEF IInv, RowsOfRuns
  <2>2. ASSUME NEW j \in Jobs
        PROVE  j \in DOMAIN rows' <=> j[1] \in DOMAIN runs' /\ j \in JobsOf(j[1], events'[j[1]].jobs)
    <3>1. CASE j[1] = n
      BY <1>0, <1>1, <3>1
    <3>2. CASE j[1] # n
      <4>1. j \notin new
        BY <1>0, <3>2
      <4> HIDE DEF new
      <4> QED BY <1>0, <1>1, <2>2, <3>2, <4>1 DEF IInv, RowsOfRuns
    <3> QED BY <3>1, <3>2
  <2> QED BY <2>1, <2>2 DEF RowsOfRuns
<1> HIDE DEF new
<1>5. Owned'
  <2>1. \A r \in Runners : Busy(r)' = Busy(r)
    BY <1>1 DEF Busy
  <2>2. ASSUME NEW r \in Runners, Busy(r)
        PROVE  Owns(r)'
    <3>1. Owns(r)
      BY <2>2 DEF IInv, Owned
    <3> QED BY <1>0, <1>1, <3>1 DEF Owns, Silent
  <2> QED BY <1>1, <2>1, <2>2 DEF IInv, Owned
<1>6. ToldOnce'
  BY <1>0, <1>1 DEF IInv, ToldOnce
<1>7. RowsSayTrue'
  <2>1. ~IsOver("queued")
    BY DEF IsOver, Conclusions
  <2>2. \A j \in DOMAIN rows' : IsOver(rows'[j].status) =>
          \E m \in 1..applied' : /\ events'[m].type = "job_finished" /\ events'[m].job = j
                                /\ events'[m].conclusion = rows'[j].status
    BY <1>0, <1>1, <1>2, <2>1 DEF IInv, RowsSayTrue
  <2>3. ASSUME NEW k \in DOMAIN runs'
        PROVE  LET mine == {j \in DOMAIN rows' : j[1] = k}
               IN  /\ runs'[k].status = "success" =>
                        mine # {} /\ \A j \in mine : rows'[j].status = "success"
                   /\ runs'[k].status = "failed" =>
                        \E j \in mine : IsOver(rows'[j].status) /\ rows'[j].status # "success"
    <3>1. CASE k = n
      BY <1>0, <3>1
    <3>2. CASE k \in DOMAIN runs /\ k # n
      <4> DEFINE mine == {j \in DOMAIN rows : j[1] = k}
      <4>1. runs[k].status = "success" => mine # {} /\ \A j \in mine : rows[j].status = "success"
        BY <3>2 DEF IInv, RowsSayTrue
      <4>2. runs[k].status = "failed" =>
              \E j \in mine : IsOver(rows[j].status) /\ rows[j].status # "success"
        BY <3>2 DEF IInv, RowsSayTrue
      <4>3. mine = {j \in DOMAIN rows' : j[1] = k}
        BY <1>0, <3>2
      <4> QED BY <1>0, <3>2, <4>1, <4>2, <4>3
    <3> QED BY <1>0, <3>1, <3>2
  <2> QED BY <2>2, <2>3 DEF RowsSayTrue
<1>8. Numbered'
  <2> DEFINE c == Cardinality(DOMAIN runs)
  <2>1. c \in Nat
    BY FS_CardinalityType DEF IInv, Numbered
  <2>2. IsFiniteSet(DOMAIN runs') /\ Cardinality(DOMAIN runs') = c + 1
    BY <1>0, FS_AddElement DEF IInv, Numbered
  <2>3. {runs[m].number : m \in DOMAIN runs} = 1..c
    BY DEF IInv, Numbered, RunNumbersDense
  <2> HIDE DEF c
  <2>4. e.number = c + 1
    <3>1. e.number \in 1..c + 1
      BY <1>1 DEF IInv, Numbered, c
    <3>2. ~NumberTaken(e.number)
      BY DEF ApplyRunQueued
    <3>3. e.number \notin 1..c
      BY <2>3, <3>2 DEF NumberTaken
    <3> QED BY <2>1, <3>1, <3>3
  <2>5. {runs'[m].number : m \in DOMAIN runs'} = {runs[m].number : m \in DOMAIN runs} \cup {c + 1}
    BY <1>0, <2>4
  <2>6. {runs'[m].number : m \in DOMAIN runs'} = 1..c + 1
    BY <2>1, <2>3, <2>5
  <2>7. ASSUME NEW k \in DOMAIN runs', NEW m \in DOMAIN runs', k < m
        PROVE  runs'[k].number < runs'[m].number
    <3>1. k \in DOMAIN runs
      BY <1>0, <1>2, <1>n, <2>7
    <3>2. CASE m = n
      <4>1. runs[k].number \in 1..c
        BY <2>3, <3>1
      <4> QED BY <1>0, <2>1, <2>4, <3>1, <3>2, <4>1
    <3>3. CASE m \in DOMAIN runs
      BY <1>0, <2>7, <3>1, <3>3 DEF IInv, Numbered, RunNumbersDense
    <3> QED BY <1>0, <3>2, <3>3
  <2>8. \A m \in DOMAIN events' :
          events'[m].type = "run_queued" => events'[m].number \in 1..(c + 1) + 1
    BY <1>1, <2>1 DEF IInv, Numbered, c
  <2> QED BY <2>2, <2>6, <2>7, <2>8 DEF Numbered, RunNumbersDense
<1> QED BY <1>4, <1>5, <1>6, <1>7, <1>8

\* The verdict of the attempt that owns the row counts, once.
LEMMA VerdictCounts ==
  ASSUME IInv, NEW e, Projects(e), Finished(e), ApplyJobFinished(e)
  PROVE  LET j == e.job
             mine == {k \in DOMAIN rows : k[1] = j[1]}
             said == {rows'[k].status : k \in mine}
         IN  /\ j \in mine /\ j[1] \in DOMAIN runs /\ rows[j].status = "running"
             /\ DOMAIN rows' = DOMAIN rows
             /\ rows'[j] = [rows[j] EXCEPT !.status = e.conclusion]
             /\ \A k \in DOMAIN rows \ {j} : rows'[k] = rows[k]
             /\ IF RunConclusion(said) # {} /\ ~IsOver(runs[j[1]].status)
                THEN \E status \in RunConclusion(said) : runs' = [runs EXCEPT ![j[1]].status = status]
                ELSE runs' = runs
<1> DEFINE j == e.job
<1>0. applied + 1 \in DOMAIN events /\ e = events[applied + 1] /\ applied \in Nat
      /\ e.type = "job_finished"
  BY DEF Projects, IInv, Typed, Finished
<1>1. j \in DOMAIN rows /\ rows[j].status # "queued" /\ rows[j].attempt = e.attempt
  BY <1>0 DEF IInv, ToldOnce
<1>2. ~IsOver(rows[j].status)
  <2> SUFFICES ASSUME IsOver(rows[j].status)
               PROVE  FALSE
    OBVIOUS
  <2>1. PICK m \in 1..applied : events[m].type = "job_finished" /\ events[m].job = j
    BY <1>1 DEF IInv, RowsSayTrue
  <2>2. m \in DOMAIN events /\ m # applied + 1
    <3>1. DOMAIN events = 1..Len(events) /\ Len(events) \in Nat
      BY Appended DEF IInv, Typed
    <3> QED BY <1>0, <3>1 DEF IInv, Typed
  <2> QED BY <1>0, <2>1, <2>2 DEF IInv, ToldOnce
<1>3. rows[j].status = "running"
  BY <1>1, <1>2 DEF IInv, Typed, JobStates, IsOver
<1>4. j[1] \in DOMAIN runs
  BY <1>1 DEF IInv, RowsOfRuns, Typed
<1>5. Finishes(e)
  BY <1>1 DEF Finishes
<1>6. rows' = [rows EXCEPT ![j].status = e.conclusion]
  BY <1>5 DEF ApplyJobFinished
<1>7. /\ DOMAIN rows' = DOMAIN rows /\ rows'[j] = [rows[j] EXCEPT !.status = e.conclusion]
      /\ \A k \in DOMAIN rows \ {j} : rows'[k] = rows[k]
  BY <1>1, <1>6
<1>8. LET said == {rows'[k].status : k \in {i \in DOMAIN rows : i[1] = j[1]}}
      IN  IF RunConclusion(said) # {} /\ ~IsOver(runs[j[1]].status)
          THEN \E status \in RunConclusion(said) : runs' = [runs EXCEPT ![j[1]].status = status]
          ELSE runs' = runs
  BY <1>5, Zenon DEF ApplyJobFinished
<1> QED BY <1>1, <1>3, <1>4, <1>7, <1>8

\* A run is concluded by what its jobs' rows say.
LEMMA Concluded ==
  ASSUME NEW said, NEW x \in said, NEW status \in RunConclusion(said)
  PROVE  /\ \A s \in said : IsOver(s)
         /\ (status = "success" /\ said = {"success"}) \/ (status = "failed" /\ \E s \in said : s # "success")
<1>0. RunConclusion(said) # {}
  OBVIOUS
<1>1. (\A s \in said : IsOver(s)) /\ status = FromJobs(said)
  <2>1. \A s \in said : IsOver(s)
    BY <1>0 DEF RunConclusion
  <2>2. RunConclusion(said) = {FromJobs(said)}
    BY <2>1 DEF RunConclusion
  <2> QED BY <2>1, <2>2
<1>2. CASE said = {"success"}
  BY <1>1, <1>2 DEF FromJobs
<1>3. CASE said # {"success"}
  <2>1. \E s \in said : s # "success"
    BY <1>3
  <2> QED BY <1>1, <1>3, <2>1 DEF FromJobs
<1> QED BY <1>2, <1>3

\* What a verdict does to the runs.
LEMMA RunsConcluded ==
  ASSUME IInv, NEW e, Projects(e), Finished(e), ApplyJobFinished(e)
  PROVE  LET run == e.job[1]
             mine == {k \in DOMAIN rows : k[1] = run}
         IN  /\ DOMAIN runs' = DOMAIN runs
             /\ \A n \in DOMAIN runs : runs'[n].number = runs[n].number /\ runs'[n].status \in RunStates
             /\ \A n \in DOMAIN runs : n # run \/ IsOver(runs[n].status) => runs'[n] = runs[n]
             /\ \/ runs' = runs
                \/ /\ runs'[run].status = "success" /\ \A k \in mine : rows'[k].status = "success"
                \/ /\ runs'[run].status = "failed"
                   /\ \E k \in mine : IsOver(rows'[k].status) /\ rows'[k].status # "success"
<1> DEFINE run == e.job[1]
           mine == {k \in DOMAIN rows : k[1] = run}
           said == {rows'[k].status : k \in mine}
<1>0. e.job \in mine /\ run \in DOMAIN runs
  BY VerdictCounts
<1>1. IF RunConclusion(said) # {} /\ ~IsOver(runs[run].status)
      THEN \E status \in RunConclusion(said) : runs' = [runs EXCEPT ![run].status = status]
      ELSE runs' = runs
  BY VerdictCounts
<1>2. \A n \in DOMAIN runs : runs[n] \in [number : Nat, status : RunStates]
  BY DEF IInv, Typed
<1>3. CASE runs' = runs
  BY <1>2, <1>3
<1>4. CASE RunConclusion(said) # {} /\ ~IsOver(runs[run].status)
  <2>1. PICK status \in RunConclusion(said) : runs' = [runs EXCEPT ![run].status = status]
    BY <1>1, <1>4
  <2>2. rows'[e.job].status \in said
    BY <1>0
  <2> HIDE DEF said
  <2>3. /\ \A s \in said : IsOver(s)
        /\ (status = "success" /\ said = {"success"}) \/ (status = "failed" /\ \E s \in said : s # "success")
    BY <2>2, Concluded
  <2> HIDE DEF mine, run
  <2>4. /\ DOMAIN runs' = DOMAIN runs
        /\ runs'[run] = [runs[run] EXCEPT !.status = status]
        /\ \A n \in DOMAIN runs \ {run} : runs'[n] = runs[n]
    BY <1>0, <2>1
  <2>5. runs'[run].number = runs[run].number /\ runs'[run].status = status
    BY <1>0, <1>2, <2>4
  <2>6. status \in RunStates
    BY <2>3 DEF RunStates
  <2>7. status = "success" => \A k \in mine : rows'[k].status = "success"
    BY <2>3 DEF said
  <2>8. status = "failed" => \E k \in mine : IsOver(rows'[k].status) /\ rows'[k].status # "success"
    BY <2>3 DEF said
  <2>9. \A n \in DOMAIN runs : runs'[n].number = runs[n].number /\ runs'[n].status \in RunStates
    BY <1>2, <2>4, <2>5, <2>6
  <2>10. \A n \in DOMAIN runs : n # run \/ IsOver(runs[n].status) => runs'[n] = runs[n]
    BY <1>4, <2>4
  <2> QED BY <2>3, <2>4, <2>5, <2>7, <2>8, <2>9, <2>10 DEF run, mine
<1> QED BY <1>1, <1>3, <1>4

LEMMA ProjectFinished ==
  ASSUME IInv, NEW e, Projects(e), Finished(e), ApplyJobFinished(e)
  PROVE  RowsOfRuns' /\ Owned' /\ ToldOnce' /\ RowsSayTrue' /\ Numbered'
<1> DEFINE j == e.job
           run == j[1]
           mine == {k \in DOMAIN rows : k[1] = run}
<1>0. /\ j \in mine /\ run \in DOMAIN runs /\ rows[j].status = "running"
      /\ DOMAIN rows' = DOMAIN rows
      /\ rows'[j] = [rows[j] EXCEPT !.status = e.conclusion]
      /\ \A k \in DOMAIN rows \ {j} : rows'[k] = rows[k]
  BY VerdictCounts
<1>1. /\ DOMAIN runs' = DOMAIN runs
      /\ \A n \in DOMAIN runs : runs'[n].number = runs[n].number
      /\ \A n \in DOMAIN runs : n # run => runs'[n] = runs[n]
      /\ \/ runs' = runs
         \/ /\ runs'[run].status = "success" /\ \A k \in mine : rows'[k].status = "success"
         \/ /\ runs'[run].status = "failed"
            /\ \E k \in mine : IsOver(rows'[k].status) /\ rows'[k].status # "success"
  BY RunsConcluded
<1>2. /\ events' = events /\ logs' = logs /\ runner' = runner /\ applied' = applied + 1
      /\ e = events[applied + 1] /\ e.type = "job_finished" /\ applied + 1 \in DOMAIN events
      /\ applied \in Nat
  BY DEF Projects, Finished, IInv, Typed
<1>3. e.conclusion \in Conclusions
  BY OutcomesAssumption DEF Finished, Conclusions
<1>4. rows[j] \in [status : JobStates, attempt : Nat]
  BY <1>0 DEF IInv, Typed
<1>5. rows'[j].status = e.conclusion /\ rows'[j].attempt = rows[j].attempt
  BY <1>0, <1>4
<1> HIDE DEF mine, run, j
<1>6. RowsOfRuns'
  <2>1. {n \in 1..applied' : events'[n].type = "run_queued"}
          = {n \in 1..applied : events[n].type = "run_queued"}
    BY <1>2
  <2> QED BY <1>0, <1>1, <1>2, <2>1 DEF IInv, RowsOfRuns
<1>7. Owned'
  <2>1. \A r \in Runners : Busy(r)' = Busy(r)
    BY <1>2 DEF Busy
  <2>2. ASSUME NEW r \in Runners, Busy(r)
        PROVE  Owns(r)'
    <3>1. Owns(r)
      BY <2>2 DEF IInv, Owned
    <3>2. runner[r].lease.job # j
      BY <1>2, <3>1 DEF Owns, Silent, j
    <3> QED BY <1>0, <1>2, <3>1, <3>2 DEF Owns, Silent
  <2> QED BY <1>2, <2>1, <2>2 DEF IInv, Owned
<1>8. ToldOnce'
  <2>1. e.conclusion # "queued"
    BY <1>3 DEF Conclusions
  <2>2. \A k \in DOMAIN rows : rows[k].status # "queued" =>
          rows'[k].status # "queued" /\ rows'[k].attempt = rows[k].attempt
    BY <1>0, <1>5, <2>1
  <2> QED BY <1>0, <1>2, <2>2 DEF IInv, ToldOnce
<1>9. RowsSayTrue'
  <2>1. ASSUME NEW k \in DOMAIN rows', IsOver(rows'[k].status)
        PROVE  \E m \in 1..applied' : /\ events'[m].type = "job_finished" /\ events'[m].job = k
                                     /\ events'[m].conclusion = rows'[k].status
    <3>1. CASE k = j
      <4>1. applied + 1 \in 1..applied'
        BY <1>2
      <4> QED BY <1>2, <1>5, <3>1, <4>1 DEF j
    <3>2. CASE k # j
      <4>1. k \in DOMAIN rows /\ rows'[k] = rows[k]
        BY <1>0, <2>1, <3>2
      <4>2. PICK m \in 1..applied : /\ events[m].type = "job_finished" /\ events[m].job = k
                                    /\ events[m].conclusion = rows[k].status
        BY <2>1, <4>1 DEF IInv, RowsSayTrue
      <4>3. m \in 1..applied'
        BY <1>2
      <4> QED BY <1>2, <4>1, <4>2, <4>3
    <3> QED BY <3>1, <3>2
  <2>2. ASSUME NEW n \in DOMAIN runs'
        PROVE  LET its == {k \in DOMAIN rows' : k[1] = n}
               IN  /\ runs'[n].status = "success" =>
                        its # {} /\ \A k \in its : rows'[k].status = "success"
                   /\ runs'[n].status = "failed" =>
                        \E k \in its : IsOver(rows'[k].status) /\ rows'[k].status # "success"
    <3> DEFINE its == {k \in DOMAIN rows : k[1] = n}
    <3>0. its = {k \in DOMAIN rows' : k[1] = n} /\ n \in DOMAIN runs
      BY <1>0, <1>1
    <3>1. runs[n].status = "success" => its # {} /\ \A k \in its : rows[k].status = "success"
      BY <3>0 DEF IInv, RowsSayTrue
    <3>2. runs[n].status = "failed" =>
            \E k \in its : IsOver(rows[k].status) /\ rows[k].status # "success"
      BY <3>0 DEF IInv, RowsSayTrue
    <3>3. ~IsOver("running") /\ "running" # "success"
      BY DEF IsOver, Conclusions
    <3>4. CASE runs'[n] = runs[n]
      <4>1. runs[n].status = "success" => j \notin its
        BY <1>0, <3>1, <3>3
      <4>2. runs[n].status = "success" => its # {} /\ \A k \in its : rows'[k].status = "success"
        BY <1>0, <3>1, <4>1
      <4>3. runs[n].status = "failed" =>
              \E k \in its : IsOver(rows'[k].status) /\ rows'[k].status # "success"
        BY <1>0, <3>2, <3>3
      <4> QED BY <3>0, <3>4, <4>2, <4>3
    <3>5. CASE runs'[n] # runs[n]
      <4>1. n = run
        BY <1>1, <3>0, <3>5
      <4>2. its = mine /\ j \in its
        BY <1>0, <4>1 DEF mine
      <4>3. \/ runs'[run].status = "success" /\ \A k \in its : rows'[k].status = "success"
            \/ /\ runs'[run].status = "failed"
               /\ \E k \in its : IsOver(rows'[k].status) /\ rows'[k].status # "success"
        BY <1>1, <3>5, <4>1, <4>2
      <4> HIDE DEF its
      <4> QED BY <3>0, <4>1, <4>2, <4>3
    <3> QED BY <3>4, <3>5
  <2> QED BY <2>1, <2>2 DEF RowsSayTrue
<1>10. Numbered'
  <2>1. {runs'[n].number : n \in DOMAIN runs'} = {runs[n].number : n \in DOMAIN runs}
    BY <1>1
  <2>2. \A m, n \in DOMAIN runs' : m < n => runs'[m].number < runs'[n].number
    BY <1>1 DEF IInv, Numbered, RunNumbersDense
  <2> QED BY <1>1, <1>2, <2>1, <2>2 DEF IInv, Numbered, RunNumbersDense
<1> QED BY <1>6, <1>7, <1>8, <1>9, <1>10

-----------------------------------------------------------------------------
(***************************************************************************)
(* The invariant is inductive                                              *)
(***************************************************************************)

\* A runner's reports.
LEMMA StartReports ==
  ASSUME Typed, NEW r \in Runners, ReportStarted(r)
  PROVE  \E e : Reports(r, e) /\ Started(e)
<1> DEFINE lease == runner[r].lease
           e == [type |-> "job_started", job |-> lease.job, attempt |-> lease.attempt]
<1>1. lease.job \in Jobs /\ lease.attempt \in Nat
  BY DEF Typed, Leases
<1>2. /\ runner'[r].pc = "run" /\ runner'[r].lease = runner[r].lease
      /\ \A s \in Runners \ {r} : runner'[s] = runner[s]
  BY DEF ReportStarted, Goes, Typed
<1>3. Reports(r, e)
  BY <1>2 DEF Reports, ReportStarted, Busy, tableVars
<1>4. Started(e)
  BY <1>1 DEF Started
<1> QED BY <1>3, <1>4

LEMMA FinishReports ==
  ASSUME Typed, NEW r \in Runners, ReportFinished(r)
  PROVE  \E e : Reports(r, e) /\ Finished(e)
<1> DEFINE lease == runner[r].lease
<1>1. lease.job \in Jobs /\ lease.attempt \in Nat
  BY DEF Typed, Leases
<1>2. /\ runner'[r].pc = "settle" /\ runner'[r].lease = runner[r].lease
      /\ \A s \in Runners \ {r} : runner'[s] = runner[s]
  BY DEF ReportFinished, Goes, Typed
<1>3. PICK outcome \in Outcomes :
        events' = Append(events, [type |-> "job_finished", job |-> lease.job,
                                  attempt |-> lease.attempt, conclusion |-> outcome])
  BY DEF ReportFinished
<1> DEFINE e == [type |-> "job_finished", job |-> lease.job,
                 attempt |-> lease.attempt, conclusion |-> outcome]
<1>4. Reports(r, e)
  BY <1>2, <1>3 DEF Reports, ReportFinished, Busy, tableVars
<1>5. Finished(e)
  BY <1>1 DEF Finished
<1> QED BY <1>4, <1>5

Rests(r) == runner' = [runner EXCEPT ![r] = Resting]

\* The steps the tables and the events do not notice.
Quiet == UNCHANGED Told /\ Idles

LEMMA RestsQuietly ==
  ASSUME Typed, NEW r \in Runners, Rests(r)
  PROVE  Idles
<1>1. runner'[r] = Resting /\ \A s \in Runners \ {r} : runner'[s] = runner[s]
  BY DEF Rests, Typed
<1>2. ~Busy(r)'
  BY <1>1 DEF Busy, Resting
<1> QED BY <1>1, <1>2 DEF Idles

LEMMA StepKinds ==
  ASSUME Typed, [Next]_vars
  PROVE  \/ Quiet
         \/ Announce
         \/ \E r \in Runners : \E lease : Claimed(r, lease)
         \/ \E r \in Runners : RunJob(r)
         \/ \E r \in Runners : \E e : Reports(r, e) /\ (Started(e) \/ Finished(e))
         \/ Project
<1>i. runner' = runner => Idles
  BY DEF Idles
<1> USE DEF logVars, tableVars, runnerVars, orchVars, Told, Quiet
<1>1. ASSUME NEW c \in Commits, Push(c) PROVE Quiet
  BY <1>i, <1>1 DEF Push
<1>2. CASE Orchestrate
  BY <1>i, <1>2 DEF Orchestrate, Fetch, Plan, Enqueue, SetAppliedOffset
<1>3. CASE HydrateFails \/ OrchestratorFails \/ OrchestratorRestarts
  BY <1>i, <1>3 DEF HydrateFails, OrchestratorFails, OrchestratorRestarts
<1>4. ASSUME NEW j \in DOMAIN queue, LockExpires(j) PROVE Quiet
  BY <1>i, <1>4 DEF LockExpires
<1>5. ASSUME NEW r \in Runners, Poll(r) \/ ClaimFails(r) PROVE Quiet
  BY <1>i, <1>5 DEF Poll, ClaimFails
<1>6. ASSUME NEW r \in Runners, Settle(r) \/ RunnerFails(r) \/ RunnerDies(r) PROVE Quiet
  <2>1. Rests(r)
    BY <1>6 DEF Settle, RunnerFails, RunnerDies, Rests
  <2> QED BY <1>6, <2>1, RestsQuietly DEF Settle, RunnerFails, RunnerDies
<1>7. ASSUME NEW r \in Runners, Claim(r)
      PROVE  Quiet \/ \E lease : Claimed(r, lease)
  <2>1. PICK lease \in held[r] :
           \/ /\ Claims(lease.job)
              /\ rows' = [rows EXCEPT ![lease.job] = [status |-> "running", attempt |-> lease.attempt]]
              /\ runner' = [runner EXCEPT ![r] = [@ EXCEPT !.pc = "start", !.lease = lease]]
           \/ /\ ~Claims(lease.job)
              /\ runner' = [runner EXCEPT ![r] = [@ EXCEPT !.pc = "settle", !.lease = lease]]
              /\ UNCHANGED rows
    BY <1>7 DEF Claim
  <2>2. CASE Claims(lease.job)
    BY <1>7, <2>1, <2>2 DEF Claim, Claimed
  <2>3. CASE ~Claims(lease.job)
    <3>1. rows' = rows /\ runner' = [runner EXCEPT ![r] = [@ EXCEPT !.pc = "settle", !.lease = lease]]
      BY <2>1, <2>3
    <3>2. runner'[r].pc = "settle" /\ \A s \in Runners \ {r} : runner'[s] = runner[s]
      BY <3>1 DEF Typed
    <3>3. Idles
      BY <3>2 DEF Idles, Busy
    <3> QED BY <1>7, <3>1, <3>3 DEF Claim
  <2> QED BY <2>2, <2>3
<1>8. CASE UNCHANGED vars
  BY <1>i, <1>8 DEF vars
<1> QED BY <1>1, <1>2, <1>3, <1>4, <1>5, <1>6, <1>7, <1>8, StartReports, FinishReports
        DEF Next, Work, Orchestrate

\* Events keep their shape.
LEMMA EventsTyped ==
  ASSUME Typed, Numbered, [Next]_vars
  PROVE  /\ IsSeq(events') /\ applied' \in 0..Len(events')
         /\ \A n \in DOMAIN events' : Queued(events'[n]) \/ Started(events'[n]) \/ Finished(events'[n])
<1> DEFINE Shaped(e) == Queued(e) \/ Started(e) \/ Finished(e)
<1>1. ASSUME NEW e, Shaped(e), events' = Append(events, e), applied' = applied
      PROVE  /\ IsSeq(events') /\ applied' \in 0..Len(events')
             /\ \A n \in DOMAIN events' : Shaped(events'[n])
  <2> HIDE DEF Shaped
  <2>0. IsSeq(events) /\ events' = Append(events, e)
    BY <1>1 DEF Typed
  <2>s. IsSeq(events')
    BY <2>0, Appended
  <2>1. /\ Len(events) \in Nat /\ Len(events') = Len(events) + 1
        /\ DOMAIN events = 1..Len(events) /\ DOMAIN events' = 1..Len(events) + 1
        /\ \A n \in DOMAIN events : events'[n] = events[n]
        /\ events'[Len(events) + 1] = e
    BY <2>0, Appended
  <2>2. \A n \in DOMAIN events : Shaped(events[n])
    BY DEF Typed, Shaped
  <2> QED BY <1>1, <2>s, <2>1, <2>2 DEF Typed
<1>2. CASE Quiet \/ (\E r \in Runners : RunJob(r) \/ \E lease : Claimed(r, lease))
  <2>1. events' = events /\ applied' = applied
    BY <1>2 DEF Quiet, Told, RunJob, Claimed, tableVars
  <2> QED BY <2>1 DEF Typed
<1>3. CASE Announce
  <2> DEFINE e == [type |-> "run_queued", number |-> NextRunNumber, jobs |-> Head(orch.plan)]
  <2>1. Cardinality(DOMAIN runs) + 1 \in Nat
    BY FS_CardinalityType DEF Numbered
  <2>2. NextRunNumber \in Nat
    BY <2>1, NextNumber
  <2>3. Queued(e)
    BY <2>2 DEF Queued
  <2>4. events' = Append(events, e) /\ applied' = applied
    BY <1>3 DEF Announce, tableVars
  <2> QED BY <1>1, <2>3, <2>4
<1>4. ASSUME NEW r \in Runners, NEW e, Reports(r, e), Started(e) \/ Finished(e)
      PROVE  /\ IsSeq(events') /\ applied' \in 0..Len(events')
             /\ \A n \in DOMAIN events' : Shaped(events'[n])
  BY <1>1, <1>4 DEF Reports
<1>5. CASE Project
  <2>1. events' = events /\ applied' = applied + 1 /\ applied < Len(events)
    BY <1>5 DEF Project, logVars
  <2>2. Len(events) \in Nat
    BY Appended DEF Typed
  <2> QED BY <2>1, <2>2 DEF Typed
<1> QED BY <1>2, <1>3, <1>4, <1>5, StepKinds

\* The queue gets a run's jobs, and keeps what it has.
LEMMA QueueKinds ==
  ASSUME [Next]_vars
  PROVE  \/ queue' = queue
         \/ Enqueue
         \/ /\ DOMAIN queue' = DOMAIN queue
            /\ \/ \E r \in Runners : Poll(r) \/ Settle(r)
               \/ \E j \in DOMAIN queue : LockExpires(j)
<1> USE DEF logVars
<1>1. CASE \E c \in Commits : Push(c)
  BY <1>1 DEF Push
<1>2. CASE Orchestrate
  BY <1>2 DEF Orchestrate, Fetch, Plan, Announce, SetAppliedOffset
<1>3. CASE HydrateFails \/ OrchestratorFails \/ OrchestratorRestarts
  BY <1>3 DEF HydrateFails, OrchestratorFails, OrchestratorRestarts
<1>4. ASSUME NEW j \in DOMAIN queue, LockExpires(j)
      PROVE  DOMAIN queue' = DOMAIN queue
  BY <1>4 DEF LockExpires
<1>5. ASSUME NEW r \in Runners, Poll(r) \/ Settle(r)
      PROVE  DOMAIN queue' = DOMAIN queue
  BY <1>5 DEF Poll, Settle
<1>6. ASSUME NEW r \in Runners, Work(r), ~Poll(r), ~Settle(r)
      PROVE  queue' = queue
  BY <1>6 DEF Work, Claim, ReportStarted, RunJob, ReportFinished
<1>7. ASSUME NEW r \in Runners, ClaimFails(r) \/ RunnerFails(r) \/ RunnerDies(r)
      PROVE  queue' = queue
  BY <1>7 DEF ClaimFails, RunnerFails, RunnerDies
<1>8. CASE Project \/ UNCHANGED vars
  BY <1>8 DEF Project, vars
<1> QED BY <1>1, <1>2, <1>3, <1>4, <1>5, <1>6, <1>7, <1>8 DEF Next

LEMMA EnqueueTyped ==
  ASSUME IInv, Enqueue
  PROVE  /\ DOMAIN queue' \subseteq Jobs /\ DOMAIN queue' \subseteq Announced
         /\ \A j \in DOMAIN queue' :
              queue'[j] \in [holder : Runners \cup {"nobody", "done"}, count : Nat]
<1> DEFINE jobs == JobsOf(orch.run, Head(orch.plan))
<1>1. queue' = [j \in jobs \cup DOMAIN queue |->
                  IF j \in jobs THEN [holder |-> "nobody", count |-> 0] ELSE queue[j]]
  BY DEF Enqueue
<1>2. orch.run \in DOMAIN events /\ events[orch.run].type = "run_queued"
      /\ jobs = JobsOf(orch.run, events[orch.run].jobs)
  BY DEF IInv, AnnouncedFirst, Enqueue
<1>3. orch.run \in Nat
  BY <1>2, Appended DEF IInv, Typed
<1>4. jobs \subseteq Jobs
  BY <1>3, JobsArePairs
<1>5. jobs \subseteq Announced
  BY <1>2 DEF Announced
<1> HIDE DEF jobs
<1> QED BY <1>1, <1>4, <1>5 DEF IInv, Typed, AnnouncedFirst

LEMMA QueueTyped ==
  ASSUME IInv, [Next]_vars
  PROVE  /\ DOMAIN queue' \subseteq Jobs
         /\ \A j \in DOMAIN queue' :
              queue'[j] \in [holder : Runners \cup {"nobody", "done"}, count : Nat]
<1> DEFINE Kept == \A j \in DOMAIN queue :
                     queue'[j] \in [holder : Runners \cup {"nobody", "done"}, count : Nat]
<1>0. /\ DOMAIN queue \subseteq Jobs
      /\ \A j \in DOMAIN queue :
           queue[j] \in [holder : Runners \cup {"nobody", "done"}, count : Nat]
  BY DEF IInv, Typed
<1>1. ASSUME NEW r \in Runners, Poll(r)
      PROVE  Kept
  <2>1. PICK got : queue' = [j \in DOMAIN queue |->
                               IF j \in got THEN [holder |-> r, count |-> queue[j].count + 1]
                                            ELSE queue[j]]
    BY <1>1 DEF Poll
  <2>2. \A j \in DOMAIN queue : queue[j].count + 1 \in Nat
    BY <1>0
  <2> QED BY <1>0, <2>1, <2>2
<1>2. ASSUME NEW r \in Runners, Settle(r)
      PROVE  Kept
  BY <1>0, <1>2 DEF Settle
<1>3. ASSUME NEW j \in DOMAIN queue, LockExpires(j)
      PROVE  Kept
  <2>1. queue' = [queue EXCEPT ![j].holder = "nobody"] \/ queue' = [queue EXCEPT ![j].holder = "done"]
    BY <1>3 DEF LockExpires
  <2> QED BY <1>0, <2>1
<1>4. CASE Enqueue
  BY <1>4, EnqueueTyped
<1>5. CASE queue' = queue
  BY <1>0, <1>5
<1> QED BY <1>0, <1>1, <1>2, <1>3, <1>4, <1>5, QueueKinds

\* What the projector has before it is one of the three kinds of event.
LEMMA ProjectKinds ==
  ASSUME IInv, Project
  PROVE  \E e : /\ Projects(e)
                /\ \/ Queued(e) /\ ApplyRunQueued(applied + 1, e)
                   \/ Started(e) /\ ApplyJobStarted(e)
                   \/ Finished(e) /\ ApplyJobFinished(e)
<1> DEFINE e == events[applied + 1]
<1>1. applied + 1 \in DOMAIN events
  BY Appended DEF IInv, Typed, Project
<1>2. Queued(e) \/ Started(e) \/ Finished(e)
  BY <1>1 DEF IInv, Typed
<1>3. Projects(e)
  BY <1>1 DEF Project, Projects, logVars, runnerVars
<1>4. Apply(applied + 1, e)
  BY DEF Project
<1> HIDE DEF e
<1>5. \/ Queued(e) /\ ApplyRunQueued(applied + 1, e)
      \/ Started(e) /\ ApplyJobStarted(e)
      \/ Finished(e) /\ ApplyJobFinished(e)
  BY <1>2, <1>4 DEF Apply, Queued, Started, Finished
<1> QED BY <1>3, <1>5

TablesTyped ==
  /\ DOMAIN runs \subseteq 1..applied
  /\ \A n \in DOMAIN runs : runs[n] \in [number : Nat, status : RunStates]
  /\ DOMAIN rows \subseteq Jobs
  /\ \A j \in DOMAIN rows : rows[j] \in [status : JobStates, attempt : Nat]

LEMMA ClaimTyped ==
  ASSUME IInv, NEW r \in Runners, NEW lease, Claimed(r, lease)
  PROVE  TablesTyped'
<1>1. lease \in Leases
  BY DEF Claimed, IInv, Typed
<1>2. lease.attempt \in Nat
  BY <1>1 DEF Leases
<1>3. [status |-> "running", attempt |-> lease.attempt] \in [status : JobStates, attempt : Nat]
  BY <1>2 DEF JobStates
<1> QED BY <1>3 DEF Claimed, IInv, Typed, TablesTyped

LEMMA RunQueuedTyped ==
  ASSUME IInv, NEW e, Projects(e), Queued(e), ApplyRunQueued(applied + 1, e)
  PROVE  TablesTyped'
<1> DEFINE n == applied + 1
<1>0. /\ DOMAIN runs' = DOMAIN runs \cup {n}
      /\ runs'[n] = [number |-> e.number, status |-> "queued"]
      /\ \A m \in DOMAIN runs : runs'[m] = runs[m]
      /\ DOMAIN rows' = JobsOf(n, e.jobs) \cup DOMAIN rows
      /\ \A j \in JobsOf(n, e.jobs) : rows'[j] = [status |-> "queued", attempt |-> 0]
      /\ \A j \in DOMAIN rows : rows'[j] = rows[j]
  BY RunQueuedRows
<1>1. n \in Nat /\ applied' = n /\ 1..n = 1..applied \cup {n}
  BY DEF IInv, Typed, Projects
<1>2. JobsOf(n, e.jobs) \subseteq Jobs
  BY <1>1, JobsArePairs
<1>3. [number |-> e.number, status |-> "queued"] \in [number : Nat, status : RunStates]
  BY DEF Queued, RunStates
<1>4. [status |-> "queued", attempt |-> 0] \in [status : JobStates, attempt : Nat]
  BY DEF JobStates
<1> HIDE DEF n
<1>5. DOMAIN runs' \subseteq 1..applied'
  BY <1>0, <1>1 DEF IInv, Typed
<1>6. \A m \in DOMAIN runs' : runs'[m] \in [number : Nat, status : RunStates]
  BY <1>0, <1>3 DEF IInv, Typed
<1>7. DOMAIN rows' \subseteq Jobs
  BY <1>0, <1>2 DEF IInv, Typed
<1>8. \A j \in DOMAIN rows' : rows'[j] \in [status : JobStates, attempt : Nat]
  BY <1>0, <1>4 DEF IInv, Typed
<1> QED BY <1>5, <1>6, <1>7, <1>8 DEF TablesTyped

LEMMA FinishedTyped ==
  ASSUME IInv, NEW e, Projects(e), Finished(e), ApplyJobFinished(e)
  PROVE  TablesTyped'
<1> DEFINE j == e.job
<1>0. /\ DOMAIN rows' = DOMAIN rows /\ j \in DOMAIN rows
      /\ rows'[j] = [rows[j] EXCEPT !.status = e.conclusion]
      /\ \A k \in DOMAIN rows \ {j} : rows'[k] = rows[k]
  BY VerdictCounts
<1>1. /\ DOMAIN runs' = DOMAIN runs
      /\ \A n \in DOMAIN runs : runs'[n].number = runs[n].number /\ runs'[n].status \in RunStates
      /\ \A n \in DOMAIN runs : n # j[1] => runs'[n] = runs[n]
  BY RunsConcluded
<1>2. e.conclusion \in JobStates
  BY OutcomesAssumption DEF Finished, JobStates, Conclusions
<1>3. applied \in Nat /\ applied' = applied + 1
  BY DEF Projects, IInv, Typed
<1> HIDE DEF j
<1>4. \A k \in DOMAIN rows' : rows'[k] \in [status : JobStates, attempt : Nat]
  BY <1>0, <1>2 DEF IInv, Typed
<1>5. \A n \in DOMAIN runs' : runs'[n] \in [number : Nat, status : RunStates]
  <2>1. \E status : \E n : runs' = runs \/ runs' = [runs EXCEPT ![n].status = status]
    BY VerdictCounts DEF j
  <2> QED BY <1>1, <2>1 DEF IInv, Typed
<1>6. DOMAIN runs' \subseteq 1..applied' /\ DOMAIN rows' \subseteq Jobs
  BY <1>0, <1>1, <1>3 DEF IInv, Typed
<1> QED BY <1>4, <1>5, <1>6 DEF TablesTyped

LEMMA StepTablesTyped ==
  ASSUME IInv, [Next]_vars
  PROVE  TablesTyped'
<1>0. TablesTyped
  BY DEF IInv, Typed, TablesTyped
<1>1. ASSUME runs' = runs, rows' = rows, applied' = applied
      PROVE  TablesTyped'
  BY <1>0, <1>1 DEF TablesTyped
<1>2. CASE Quiet
  BY <1>1, <1>2 DEF Quiet, Told
<1>3. CASE Announce
  BY <1>1, <1>3 DEF Announce, tableVars
<1>4. ASSUME NEW r \in Runners, RunJob(r)
      PROVE  TablesTyped'
  BY <1>1, <1>4 DEF RunJob, tableVars
<1>5. ASSUME NEW r \in Runners, NEW e, Reports(r, e)
      PROVE  TablesTyped'
  BY <1>1, <1>5 DEF Reports
<1>6. CASE Project
  <2>1. PICK e : /\ Projects(e)
                 /\ \/ Queued(e) /\ ApplyRunQueued(applied + 1, e)
                    \/ Started(e) /\ ApplyJobStarted(e)
                    \/ Finished(e) /\ ApplyJobFinished(e)
    BY <1>6, ProjectKinds
  <2>2. CASE Started(e) /\ ApplyJobStarted(e)
    <3>1. rows' = rows /\ runs' = runs
      BY <2>1, <2>2, StartedIsClaimed DEF Started
    <3>2. applied \in Nat /\ applied' = applied + 1
      BY <2>1 DEF Projects, IInv, Typed
    <3>3. 1..applied \subseteq 1..applied'
      BY <3>2
    <3> QED BY <1>0, <3>1, <3>3 DEF TablesTyped
  <2> QED BY <2>1, <2>2, RunQueuedTyped, FinishedTyped
<1> QED BY <1>2, <1>3, <1>4, <1>5, <1>6, ClaimTyped, StepKinds DEF IInv

LEMMA RunnersTyped ==
  ASSUME IInv, [Next]_vars
  PROVE  /\ runner' \in [Runners -> [pc : {"idle", "start", "run", "finish", "settle"}, lease : Leases]]
         /\ held' \in [Runners -> SUBSET Leases]
<1> DEFINE Places == [pc : {"idle", "start", "run", "finish", "settle"}, lease : Leases]
<1>0. runner \in [Runners -> Places] /\ held \in [Runners -> SUBSET Leases]
  BY DEF IInv, Typed
<1>r. Resting \in Places
  BY DEF Resting, Leases, Jobs, NoJob
<1>1. ASSUME runner' = runner, held' = held
      PROVE  runner' \in [Runners -> Places] /\ held' \in [Runners -> SUBSET Leases]
  BY <1>0, <1>1
<1> HIDE DEF Places
<1> USE DEF runnerVars
<1>2. CASE \/ \E c \in Commits : Push(c)
           \/ Orchestrate
           \/ HydrateFails
           \/ OrchestratorFails
           \/ OrchestratorRestarts
           \/ \E j \in DOMAIN queue : LockExpires(j)
           \/ Project
           \/ UNCHANGED vars
  <2>1. Orchestrate => UNCHANGED runnerVars
    BY DEF Orchestrate, Fetch, Plan, Announce, Enqueue, SetAppliedOffset
  <2>2. HydrateFails \/ OrchestratorFails \/ OrchestratorRestarts => UNCHANGED runnerVars
    BY DEF HydrateFails, OrchestratorFails, OrchestratorRestarts
  <2>3. (\E c \in Commits : Push(c)) \/ (\E j \in DOMAIN queue : LockExpires(j)) \/ Project
          \/ UNCHANGED vars => UNCHANGED runnerVars
    BY DEF Push, LockExpires, Project, vars
  <2>4. UNCHANGED runnerVars
    BY <1>2, <2>1, <2>2, <2>3
  <2> QED BY <1>1, <2>4 DEF Places
<1>3. ASSUME NEW r \in Runners, Poll(r)
      PROVE  runner' \in [Runners -> Places] /\ held' \in [Runners -> SUBSET Leases]
  <2>1. PICK got \in SUBSET {j \in DOMAIN queue : queue[j].holder = "nobody"} :
           held' = [held EXCEPT ![r] = {[job |-> j, attempt |-> queue[j].count + 1] : j \in got}]
    BY <1>3 DEF Poll
  <2>2. \A j \in got : [job |-> j, attempt |-> queue[j].count + 1] \in Leases
    BY DEF IInv, Typed, Leases
  <2>3. {[job |-> j, attempt |-> queue[j].count + 1] : j \in got} \in SUBSET Leases
    BY <2>2
  <2> QED BY <1>0, <1>3, <2>1, <2>3 DEF Poll
<1>4. ASSUME NEW r \in Runners, Claim(r)
      PROVE  runner' \in [Runners -> Places] /\ held' \in [Runners -> SUBSET Leases]
  <2>1. PICK lease \in held[r] :
          /\ held' = [held EXCEPT ![r] = @ \ {lease}]
          /\ \E pc \in {"start", "settle"} :
               runner' = [runner EXCEPT ![r] = [@ EXCEPT !.pc = pc, !.lease = lease]]
    BY <1>4 DEF Claim
  <2>2. lease \in Leases
    BY <1>0
  <2> QED BY <1>0, <2>1, <2>2 DEF Places
<1>5. ASSUME NEW r \in Runners, ReportStarted(r) \/ RunJob(r) \/ ReportFinished(r)
      PROVE  runner' \in [Runners -> Places] /\ held' \in [Runners -> SUBSET Leases]
  <2>1. held' = held /\ (Goes(r, "run") \/ Goes(r, "finish") \/ Goes(r, "settle"))
    BY <1>5 DEF ReportStarted, RunJob, ReportFinished
  <2> QED BY <1>0, <2>1 DEF Goes, Places
<1>6. ASSUME NEW r \in Runners, Settle(r) \/ RunnerFails(r) \/ RunnerDies(r)
      PROVE  runner' \in [Runners -> Places] /\ held' \in [Runners -> SUBSET Leases]
  BY <1>0, <1>r, <1>6 DEF Settle, RunnerFails, RunnerDies
<1>7. ASSUME NEW r \in Runners, ClaimFails(r)
      PROVE  runner' \in [Runners -> Places] /\ held' \in [Runners -> SUBSET Leases]
  BY <1>0, <1>7 DEF ClaimFails
<1> QED BY <1>2, <1>3, <1>4, <1>5, <1>6, <1>7 DEF Next, Work, Places

\* The orchestrator's steps, as far as its announcement goes: it makes one, its
\* next step puts the jobs on the queue, and what fails starts over.
LEMMA OrchestratorTyped ==
  ASSUME IInv, [Next]_vars
  PROVE  /\ DOMAIN orch' = {"pc", "offset", "todo", "plan", "run"}
         /\ orch' = orch \/ orch'.pc # "enqueue" \/ Announce
<1> DEFINE Fields == {"pc", "offset", "todo", "plan", "run"}
<1>0. DOMAIN orch = Fields
  BY DEF IInv, Typed
<1>1. CASE orch' = orch
  BY <1>0, <1>1
<1>2. CASE Announce
  BY <1>0, <1>2 DEF Announce
<1>3. CASE Fetch
  <2>1. PICK n : orch' = [orch EXCEPT !.pc = "plan", !.offset = n,
                                      !.todo = SubSeq(refs, orch.offset + 1, n)]
    BY <1>3 DEF Fetch
  <2> QED BY <1>0, <2>1
<1>4. CASE Plan
  BY <1>0, <1>4 DEF Plan
<1>5. CASE Enqueue
  BY <1>0, <1>5 DEF Enqueue
<1>6. CASE HydrateFails
  BY <1>0, <1>6 DEF HydrateFails
<1>7. CASE SetAppliedOffset \/ OrchestratorFails \/ OrchestratorRestarts
  BY <1>7, SMTT(30) DEF SetAppliedOffset, OrchestratorFails, OrchestratorRestarts, AtFetch
<1> USE DEF orchVars
<1>8. ASSUME \/ \E c \in Commits : Push(c)
             \/ \E j \in DOMAIN queue : LockExpires(j)
             \/ \E r \in Runners : Work(r) \/ ClaimFails(r) \/ RunnerFails(r) \/ RunnerDies(r)
             \/ Project
             \/ UNCHANGED vars
      PROVE  orch' = orch
  BY <1>8 DEF Push, LockExpires, Work, Poll, Claim, ReportStarted, RunJob, ReportFinished, Settle,
     ClaimFails, RunnerFails, RunnerDies, Project, vars
<1> HIDE DEF Fields
<1> QED BY <1>1, <1>2, <1>3, <1>4, <1>5, <1>6, <1>7, <1>8 DEF Next, Orchestrate, Fields

\* What has been announced stays so.
LEMMA AnnouncedFirstStep ==
  ASSUME IInv, [Next]_vars
  PROVE  AnnouncedFirst'
<1>0. /\ Len(events) \in Nat /\ DOMAIN events = 1..Len(events)
      /\ \A n \in DOMAIN events : n \in DOMAIN events' /\ events'[n] = events[n]
  <2>1. events' = events \/ \E e : events' = Append(events, e)
    BY StepKinds DEF IInv, Quiet, Told, Announce, Claimed, RunJob, Reports, Project, logVars
  <2>2. IsSeq(events)
    BY DEF IInv, Typed
  <2> QED BY <2>1, <2>2, Appended
<1>1. Announced \subseteq Announced'
  BY <1>0 DEF Announced
<1>2. DOMAIN queue' \subseteq Announced'
  <2>1. CASE Enqueue
    BY <1>1, <2>1, EnqueueTyped
  <2>2. CASE DOMAIN queue' = DOMAIN queue
    BY <1>1, <2>2 DEF IInv, AnnouncedFirst
  <2> QED BY <2>1, <2>2, QueueKinds
<1>3. ASSUME orch'.pc = "enqueue"
      PROVE  /\ orch'.run \in DOMAIN events' /\ events'[orch'.run].type = "run_queued"
             /\ events'[orch'.run].jobs = Head(orch'.plan)
  <2>1. CASE orch' = orch
    BY <1>0, <1>3, <2>1 DEF IInv, AnnouncedFirst
  <2>2. CASE Announce
    <3> DEFINE e == [type |-> "run_queued", number |-> NextRunNumber, jobs |-> Head(orch.plan)]
    <3>1. orch'.run = Len(events) + 1 /\ orch'.plan = orch.plan
      BY <2>2 DEF Announce, IInv, Typed
    <3>2. IsSeq(events) /\ events' = Append(events, e)
      BY <2>2 DEF Announce, IInv, Typed
    <3>3. e.type = "run_queued" /\ e.jobs = Head(orch.plan)
      OBVIOUS
    <3> HIDE DEF e
    <3>4. Len(events) + 1 \in DOMAIN events' /\ events'[Len(events) + 1] = e
      BY <1>0, <3>2, Appended
    <3> QED BY <3>1, <3>3, <3>4
  <2> QED BY <1>3, <2>1, <2>2, OrchestratorTyped
<1> QED BY <1>2, <1>3 DEF AnnouncedFirst

LEMMA TypedStep ==
  ASSUME IInv, [Next]_vars
  PROVE  Typed'
<1>1. /\ IsSeq(events') /\ applied' \in 0..Len(events')
      /\ \A n \in DOMAIN events' : Queued(events'[n]) \/ Started(events'[n]) \/ Finished(events'[n])
  BY EventsTyped DEF IInv
<1> QED BY <1>1, QueueTyped, StepTablesTyped, OrchestratorTyped, RunnersTyped DEF Typed, TablesTyped,
        Queued, Started, Finished

LEMMA InitInvariant == Init => IInv
<1> SUFFICES ASSUME Init PROVE IInv
  OBVIOUS
<1> USE DEF Init
<1>0. /\ events = <<>> /\ DOMAIN events = {} /\ Len(events) = 0 /\ DOMAIN queue = {}
      /\ DOMAIN runs = {} /\ DOMAIN rows = {} /\ applied = 0
  OBVIOUS
<1>1. Typed
  <2>1. Resting \in [pc : {"idle", "start", "run", "finish", "settle"}, lease : Leases]
    BY DEF Resting, Leases, Jobs, NoJob
  <2>2. IsSeq(events)
    <3>1. <<>> \in Seq({})
      OBVIOUS
    <3> QED BY <3>1 DEF IsSeq
  <2>3. DOMAIN orch = {"pc", "offset", "todo", "plan", "run"}
    BY DEF AtFetch
  <2> QED BY <1>0, <2>1, <2>2, <2>3 DEF Typed
<1>2. AnnouncedFirst
  BY <1>0 DEF AnnouncedFirst, AtFetch
<1>3. RowsOfRuns
  BY <1>0 DEF RowsOfRuns
<1>4. Owned
  BY DEF Owned, Busy, Resting
<1>5. ToldOnce /\ RowsSayTrue
  BY <1>0 DEF ToldOnce, RowsSayTrue
<1>6. Numbered
  <2>1. Cardinality(DOMAIN runs) = 0 /\ IsFiniteSet(DOMAIN runs)
    BY <1>0, FS_EmptySet
  <2> QED BY <1>0, <2>1 DEF Numbered, RunNumbersDense
<1> QED BY <1>1, <1>2, <1>3, <1>4, <1>5, <1>6 DEF IInv

LEMMA StepInvariant == IInv /\ [Next]_vars => IInv'
<1> SUFFICES ASSUME IInv, [Next]_vars PROVE IInv'
  OBVIOUS
<1>1. RowsOfRuns' /\ Owned' /\ ToldOnce' /\ RowsSayTrue' /\ Numbered'
  <2>1. CASE Quiet
    BY <2>1, QuietStep DEF Quiet
  <2>2. CASE Announce
    BY <2>2, AnnounceStep
  <2>3. CASE \E r \in Runners : \E lease : Claimed(r, lease)
    BY <2>3, ClaimStep
  <2>4. CASE \E r \in Runners : RunJob(r)
    BY <2>4, RunJobStep
  <2>5. CASE \E r \in Runners : \E e : Reports(r, e) /\ (Started(e) \/ Finished(e))
    BY <2>5, ReportStep
  <2>6. CASE Project
    <3>1. PICK e : /\ Projects(e)
                   /\ \/ Queued(e) /\ ApplyRunQueued(applied + 1, e)
                      \/ Started(e) /\ ApplyJobStarted(e)
                      \/ Finished(e) /\ ApplyJobFinished(e)
      BY <2>6, ProjectKinds
    <3> QED BY <3>1, ProjectRun, ProjectStarted, ProjectFinished DEF Started
  <2> QED BY <2>1, <2>2, <2>3, <2>4, <2>5, <2>6, StepKinds DEF IInv
<1> QED BY <1>1, TypedStep, AnnouncedFirstStep DEF IInv

-----------------------------------------------------------------------------
(***************************************************************************)
(* The theorems                                                            *)
(***************************************************************************)

\* The invariant that the others follow from.
THEOREM Invariant == Spec => []IInv
BY InitInvariant, StepInvariant, PTL DEF Spec

\* However leases expire and are delivered again, a job is started at most once,
\* its verdict is of that attempt, and no job is on the queue unannounced.
THEOREM JobsRunOnce == Spec => []RunsOnce
<1>1. IInv => RunsOnce
  <2> SUFFICES ASSUME IInv PROVE RunsOnce
    OBVIOUS
  <2>1. DOMAIN queue \subseteq Announced
    BY DEF IInv, AnnouncedFirst
  <2>2. ASSUME NEW j \in DOMAIN queue,
               NEW m \in About("job_started", j) \cup About("job_finished", j)
        PROVE  /\ \A n \in About(events[m].type, j) : m = n
               /\ events[m].attempt = rows[j].attempt
    BY DEF IInv, ToldOnce, About
  <2> QED BY <2>1, <2>2 DEF RunsOnce
<1> QED BY <1>1, Invariant, PTL

\* A run shown as a success has a verdict of success for every one of its jobs,
\* one shown as a failure has a verdict that is none, and no verdict comes before
\* the end of its log.
THEOREM ChecksStayTrue == Spec => []ChecksAreTrue
<1>1. IInv => ChecksAreTrue
  <2> SUFFICES ASSUME IInv PROVE ChecksAreTrue
    OBVIOUS
  <2>1. \A n \in DOMAIN events : events[n].type = "job_finished" => events[n].job \in logs
    BY DEF IInv, ToldOnce
  <2>2. ASSUME NEW n \in DOMAIN runs
        PROVE  LET jobs == JobsOf(n, events[n].jobs)
                   verdicts == {events[m].conclusion : m \in UNION {About("job_finished", j) : j \in jobs}}
               IN  /\ runs[n].status = "success" =>
                        /\ verdicts = {"success"}
                        /\ {j \in jobs : About("job_finished", j) # {}} = jobs
                   /\ runs[n].status = "failed" => verdicts \ {"success"} # {}
    <3> DEFINE jobs == JobsOf(n, events[n].jobs)
               mine == {j \in DOMAIN rows : j[1] = n}
    <3>1. n \in Nat
      BY DEF IInv, Typed
    <3>2. mine = jobs
      <4>1. jobs \subseteq Jobs /\ \A j \in jobs : j[1] = n
        BY <3>1, JobsArePairs
      <4>2. \A j \in DOMAIN rows : j \in Jobs
        BY DEF IInv, Typed
      <4> HIDE DEF jobs
      <4>3. \A j \in Jobs : j[1] = n => (j \in DOMAIN rows <=> j \in jobs)
        BY DEF IInv, RowsOfRuns, jobs
      <4> QED BY <4>1, <4>2, <4>3
    <3> HIDE DEF jobs
    \* The row of a job that has a verdict says what the verdict says.
    <3>3. \A j \in mine : IsOver(rows[j].status) =>
            \E m \in DOMAIN events : /\ events[m].type = "job_finished" /\ events[m].job = j
                                     /\ events[m].conclusion = rows[j].status
      <4>1. 1..applied \subseteq DOMAIN events
        BY Appended DEF IInv, Typed
      <4> QED BY <4>1 DEF IInv, RowsSayTrue
    <3>4. IsOver("success")
      BY DEF IsOver, Conclusions
    <3>5. ASSUME runs[n].status = "success"
          PROVE  /\ {events[m].conclusion : m \in UNION {About("job_finished", j) : j \in jobs}} = {"success"}
                 /\ {j \in jobs : About("job_finished", j) # {}} = jobs
      <4>1. mine # {} /\ \A j \in mine : rows[j].status = "success"
        BY <3>5 DEF IInv, RowsSayTrue
      <4>2. \A j \in jobs : \E m \in About("job_finished", j) : events[m].conclusion = "success"
        BY <3>2, <3>3, <3>4, <4>1 DEF About
      <4>3. \A j \in jobs : \A m, k \in About("job_finished", j) : m = k
        BY DEF IInv, ToldOnce, About
      <4> HIDE DEF mine
      <4> QED BY <3>2, <4>1, <4>2, <4>3
    <3>6. ASSUME runs[n].status = "failed"
          PROVE  {events[m].conclusion : m \in UNION {About("job_finished", j) : j \in jobs}}
                   \ {"success"} # {}
      <4>1. \E j \in mine : IsOver(rows[j].status) /\ rows[j].status # "success"
        BY <3>6 DEF IInv, RowsSayTrue
      <4>2. \E j \in jobs : \E m \in About("job_finished", j) : events[m].conclusion # "success"
        BY <3>2, <3>3, <4>1 DEF About
      <4> QED BY <4>2
    <3> QED BY <3>5, <3>6 DEF jobs
  <2> QED BY <2>1, <2>2 DEF ChecksAreTrue
<1> QED BY <1>1, Invariant, PTL

\* The runs a repository shows are numbered without gap or repetition, in the
\* order they were announced in.
THEOREM NumbersStayDense == Spec => []RunNumbersDense
<1>1. IInv => RunNumbersDense
  BY DEF IInv, Numbered
<1> QED BY <1>1, Invariant, PTL

\* What has been shown as over stays as it was.
LEMMA VerdictStays ==
  ASSUME IInv, [Next]_vars
  PROVE  /\ \A j \in DOMAIN rows : IsOver(rows[j].status) => rows'[j] = rows[j]
         /\ \A n \in DOMAIN runs : IsOver(runs[n].status) => runs'[n] = runs[n]
<1>0. ~IsOver("queued") /\ ~IsOver("running")
  BY DEF IsOver, Conclusions
<1>1. CASE \/ Quiet
           \/ Announce
           \/ \E r \in Runners : RunJob(r)
           \/ \E r \in Runners : \E e : Reports(r, e)
  <2>1. rows' = rows /\ runs' = runs
    BY <1>1 DEF Quiet, Told, Announce, RunJob, Reports, tableVars
  <2> QED BY <2>1
<1>2. ASSUME NEW r \in Runners, NEW lease, Claimed(r, lease)
      PROVE  /\ \A j \in DOMAIN rows : IsOver(rows[j].status) => rows'[j] = rows[j]
             /\ \A n \in DOMAIN runs : IsOver(runs[n].status) => runs'[n] = runs[n]
  BY <1>0, <1>2 DEF Claimed, Claims
<1>3. CASE Project
  <2>1. PICK e : /\ Projects(e)
                 /\ \/ Queued(e) /\ ApplyRunQueued(applied + 1, e)
                    \/ Started(e) /\ ApplyJobStarted(e)
                    \/ Finished(e) /\ ApplyJobFinished(e)
    BY <1>3, ProjectKinds
  <2>2. CASE Queued(e) /\ ApplyRunQueued(applied + 1, e)
    BY <2>1, <2>2, RunQueuedRows
  <2>3. CASE Started(e) /\ ApplyJobStarted(e)
    <3>1. rows' = rows /\ runs' = runs
      BY <2>1, <2>3, StartedIsClaimed DEF Started
    <3> QED BY <3>1
  <2>4. CASE Finished(e) /\ ApplyJobFinished(e)
    <3>1. rows[e.job].status = "running" /\ \A k \in DOMAIN rows \ {e.job} : rows'[k] = rows[k]
      BY <2>1, <2>4, VerdictCounts
    <3>2. \A n \in DOMAIN runs : IsOver(runs[n].status) => runs'[n] = runs[n]
      BY <2>1, <2>4, RunsConcluded
    <3> QED BY <1>0, <3>1, <3>2
  <2> QED BY <2>1, <2>2, <2>3, <2>4
<1> QED BY <1>1, <1>2, <1>3, StepKinds DEF IInv

\* What a pull request has shown as over stays as it was: no late or repeated
\* report changes a verdict.
THEOREM VerdictsNeverChange == Spec => VerdictsStand
<1>1. IInv /\ [Next]_vars =>
        [ /\ \A j \in DOMAIN rows : IsOver(rows[j].status) => rows'[j] = rows[j]
          /\ \A n \in DOMAIN runs : IsOver(runs[n].status) => runs'[n] = runs[n] ]_vars
  BY VerdictStays
<1> QED BY <1>1, Invariant, PTL DEF Spec, VerdictsStand
=============================================================================
