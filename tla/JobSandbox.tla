----------------------------- MODULE JobSandbox -----------------------------
(***************************************************************************)
(* One job of Crab Actions: its steps, one after the other, in one of the  *)
(* three sandboxes, within the time the job may take.                      *)
(*                                                                         *)
(* A step is a shell command with two output streams.  A task for each     *)
(* stream pumps its lines into one bounded channel, which the runner       *)
(* empties into the job's log until every pump has ended; then it waits    *)
(* for the command, all of this under one timeout.  A container or a pod   *)
(* around the command lives longer than the client that talks to it.       *)
(*                                                                         *)
(* Commands, docker and the cluster are external: what they do is chosen.  *)
(* Time is a count of ticks; a timer that is due fires before the next.    *)
(***************************************************************************)
EXTENDS Integers, Sequences, FiniteSets

CONSTANTS
  Kinds,        \* which sandboxes: of "process", "docker", "kubernetes"
  Steps,        \* how many steps the job has
  Budget,       \* what the job may take, in ticks
  Slack,        \* DEADLINE_SLACK
  Capacity,     \* lines in the channel
  MaxLines      \* bound: lines a step prints

ASSUME BudgetAssumption == Budget \in Nat \ {0} /\ Slack \in Nat \ {0}
ASSUME StepsAssumption == Steps \in Nat \ {0} /\ Capacity \in Nat \ {0} /\ MaxLines \in Nat
ASSUME KindsAssumption == Kinds \subseteq {"process", "docker", "kubernetes"}

VARIABLES
  kind,      \* the sandbox of this job
  pc,        \* the runner
  step,      \* the step it is at
  now,       \* ticks since the job started
  expiry,    \* when the timeout of the step is due
  cmd,       \* the command: its shell, exit code, and whether a process it left has its streams
  printed,   \* lines the step has printed
  pipe,      \* of each stream, lines not yet read, and whether one of them is not text
  pump,      \* of each stream, whether its pump runs
  chan,      \* lines in the channel
  logged,    \* lines of the step in the log
  exits,     \* exit codes of the commands that ended, in order
  pod,       \* the pod: absent, asked for, pending, running or over
  age,       \* ticks since it was scheduled
  cell,      \* the OnceCell that says the pod was started
  container, \* a docker container runs the step
  broke,     \* the sandbox, and not the command, has failed
  verdict    \* how the job ended

outputVars == <<printed, pipe, pump, chan, logged>>
podVars    == <<pod, age, cell>>
vars == <<kind, pc, step, now, expiry, cmd, outputVars, exits, podVars, container, broke, verdict>>

Streams  == {"out", "err"}
Codes    == {0, 1, 125}
Verdicts == {"success", "failed", "timed_out", "infra_failed"}
Timed    == {"start", "drain", "wait"}

Command  == [shell : {"none", "running", "exited"}, code : Codes, left : BOOLEAN]
Pipe     == [lines : 0..MaxLines, binary : BOOLEAN]

NoCommand == [shell |-> "none", code |-> 0, left |-> FALSE]
LastTick  == Budget + 1

(***************************************************************************)
(* activeDeadlineSeconds: the job's own budget, and slack.                 *)
(***************************************************************************)
Deadline_NoSlack == Budget
Deadline == Budget + Slack

TypeOK ==
  /\ kind \in Kinds
  /\ pc \in {"next", "start", "ask", "drain", "wait", "clean", "done", "gone"}
  /\ step \in 0..Steps /\ now \in 0..LastTick /\ expiry \in 0..Budget
  /\ cmd \in Command
  /\ printed \in 0..MaxLines /\ logged \in 0..MaxLines
  /\ pipe \in [Streams -> Pipe]
  /\ pump \in [Streams -> {"off", "reading", "ended", "broken"}]
  /\ chan \in 0..Capacity
  /\ exits \in Seq(Codes)
  /\ pod \in {"absent", "asked", "pending", "running", "over"} /\ age \in 0..Deadline
  /\ cell \in {"unset", "ok", "failed"}
  /\ container \in BOOLEAN /\ broke \in BOOLEAN
  /\ verdict \in Verdicts \cup {"none"}

Quiet == [s \in Streams |-> [lines |-> 0, binary |-> FALSE]]

Init ==
  /\ kind \in Kinds
  /\ pc = "next" /\ step = 0 /\ now = 0 /\ expiry = 0
  /\ cmd = NoCommand
  /\ printed = 0 /\ pipe = Quiet /\ pump = [s \in Streams |-> "off"] /\ chan = 0 /\ logged = 0
  /\ exits = <<>>
  /\ pod = "absent" /\ age = 0 /\ cell = "unset"
  /\ container = FALSE /\ broke = FALSE
  /\ verdict = "none"

(***************************************************************************)
(* Dropping the sandbox at the end of the job deletes the pod, if the cell *)
(* says that one was started.  A failure of kubectl delete is ignored, and *)
(* it does not fail for a pod that is not there yet.                       *)
(***************************************************************************)
Deleted == IF pod \in {"pending", "running"} THEN {pod, "over"} ELSE {pod}

DropSandbox ==
  /\ pod' \in (IF cell = "unset" THEN {pod} ELSE Deleted)
  /\ UNCHANGED <<age, cell>>

End(v) == pc' = "done" /\ verdict' = v /\ DropSandbox
-----------------------------------------------------------------------------
(***************************************************************************)
(* run_job                                                                 *)
(***************************************************************************)

(***************************************************************************)
(* What is left of the job's budget.                                       *)
(***************************************************************************)
Remaining(t) == IF t < Budget THEN Budget - t ELSE 0

NextStep ==
  /\ pc = "next"
  /\ \/ /\ step = Steps
        /\ End("success") /\ UNCHANGED <<step, expiry>>
     \/ /\ step < Steps /\ Remaining(now) = 0
        /\ End("timed_out") /\ UNCHANGED <<step, expiry>>
     \/ /\ step < Steps /\ Remaining(now) > 0
        /\ pc' = "start" /\ step' = step + 1
        /\ expiry' = now + Remaining(now)
        /\ UNCHANGED <<verdict, podVars>>
  /\ UNCHANGED <<kind, now, cmd, outputVars, exits, container, broke>>

(***************************************************************************)
(* Spawning the shell, docker run or kubectl exec, with a pump for each of *)
(* its streams.                                                            *)
(***************************************************************************)
Spawned(shell, code) ==
  /\ pc' = "drain"
  /\ cmd' = [shell |-> shell, code |-> code, left |-> FALSE]
  /\ printed' = 0 /\ pipe' = Quiet /\ chan' = 0 /\ logged' = 0
  /\ pump' = [s \in Streams |-> "reading"]

SpawnFails ==
  /\ pc = "start" /\ (kind = "kubernetes" => cell = "ok")
  /\ End("infra_failed") /\ broke' = TRUE
  /\ UNCHANGED <<kind, step, now, expiry, cmd, outputVars, exits, container>>

SpawnProcess ==
  /\ pc = "start" /\ kind = "process"
  /\ Spawned("running", 0)
  /\ UNCHANGED <<kind, step, now, expiry, exits, podVars, container, broke, verdict>>

(***************************************************************************)
(* docker run starts a container, or leaves with 125.                      *)
(***************************************************************************)
SpawnDocker ==
  /\ pc = "start" /\ kind = "docker"
  /\ \/ Spawned("running", 0) /\ container' = TRUE /\ UNCHANGED broke
     \/ Spawned("exited", 125) /\ broke' = TRUE /\ UNCHANGED container
  /\ UNCHANGED <<kind, step, now, expiry, exits, podVars, verdict>>

(***************************************************************************)
(* ensure_started: kubectl apply and kubectl wait, within the step's       *)
(* timeout.  Either may fail, the wait after START_BUDGET at the latest.   *)
(* The cell is set when both are over.  Nobody kills kubectl apply: it may *)
(* create the pod when the job is over, or when the runner is gone.        *)
(***************************************************************************)
ApplyPod ==
  /\ pc = "start" /\ kind = "kubernetes" /\ pod = "absent" /\ cell = "unset"
  /\ pod' = "asked"
  /\ UNCHANGED <<kind, pc, step, now, expiry, cmd, outputVars, exits, age, cell, container,
                 broke, verdict>>

PodCreated ==
  /\ pod = "asked"
  /\ pod' = "pending"
  /\ UNCHANGED <<kind, pc, step, now, expiry, cmd, outputVars, exits, age, cell, container,
                 broke, verdict>>

PodReady ==
  /\ pc = "start" /\ pod = "running" /\ cell = "unset"
  /\ cell' = "ok"
  /\ UNCHANGED <<kind, pc, step, now, expiry, cmd, outputVars, exits, pod, age, container,
                 broke, verdict>>

StartFails ==
  /\ pc = "start" /\ kind = "kubernetes" /\ cell = "unset"
  /\ pc' = "done" /\ verdict' = "infra_failed" /\ broke' = TRUE
  /\ cell' = "failed" /\ pod' \in Deleted
  /\ UNCHANGED <<kind, step, now, expiry, cmd, outputVars, exits, age, container>>

(***************************************************************************)
(* kubectl exec, which leaves with an error if the pod is gone.            *)
(***************************************************************************)
ExecPod ==
  /\ pc = "start" /\ kind = "kubernetes" /\ cell = "ok"
  /\ IF pod = "running"
     THEN Spawned("running", 0) /\ UNCHANGED broke
     ELSE Spawned("exited", 1) /\ broke' = TRUE
  /\ UNCHANGED <<kind, step, now, expiry, exits, podVars, container, verdict>>
-----------------------------------------------------------------------------
(***************************************************************************)
(* The command: prints, leaves a process behind or not, and exits.         *)
(***************************************************************************)
Talking == cmd.shell = "running" \/ cmd.left

PrintLine(s) ==
  /\ Talking /\ printed < MaxLines /\ pump[s] = "reading"
  /\ printed' = printed + 1
  /\ \E binary \in BOOLEAN :
       pipe' = [pipe EXCEPT ![s] = [lines |-> @.lines + 1, binary |-> @.binary \/ binary]]
  /\ UNCHANGED <<kind, pc, step, now, expiry, cmd, pump, chan, logged, exits, podVars, container,
                 broke, verdict>>

Exit ==
  /\ cmd.shell = "running"
  /\ \E code \in Codes, left \in BOOLEAN :
       cmd' = [shell |-> "exited", code |-> code, left |-> left /\ kind # "docker"]
  /\ container' = FALSE
  /\ UNCHANGED <<kind, pc, step, now, expiry, outputVars, exits, podVars, broke, verdict>>

LeftExits ==
  /\ cmd.left
  /\ cmd' = [cmd EXCEPT !.left = FALSE]
  /\ UNCHANGED <<kind, pc, step, now, expiry, outputVars, exits, podVars, container, broke, verdict>>

(***************************************************************************)
(* pump_lines: line by line into the channel, as long as there is room,    *)
(* until the stream ends or a line is not text.                            *)
(***************************************************************************)
PumpLine(s) ==
  /\ pump[s] = "reading" /\ pc \in Timed
  /\ \/ /\ pipe[s].lines > (IF pipe[s].binary THEN 1 ELSE 0) /\ chan < Capacity
        /\ pipe' = [pipe EXCEPT ![s].lines = @ - 1]
        /\ chan' = chan + 1
        /\ UNCHANGED pump
     \/ /\ pipe[s].binary
        /\ pump' = [pump EXCEPT ![s] = "broken"]
        /\ UNCHANGED <<pipe, chan>>
     \/ /\ pipe[s].lines = 0 /\ ~Talking
        /\ pump' = [pump EXCEPT ![s] = "ended"]
        /\ UNCHANGED <<pipe, chan>>
  /\ UNCHANGED <<kind, pc, step, now, expiry, cmd, printed, logged, exits, podVars, container,
                 broke, verdict>>
-----------------------------------------------------------------------------
(***************************************************************************)
(* run_step, under its timeout                                             *)
(***************************************************************************)
Recv ==
  /\ pc = "drain" /\ chan > 0
  /\ chan' = chan - 1 /\ logged' = logged + 1
  /\ UNCHANGED <<kind, pc, step, now, expiry, cmd, printed, pipe, pump, exits, podVars, container,
                 broke, verdict>>

(***************************************************************************)
(* The channel is closed: every pump has ended and its lines are received. *)
(***************************************************************************)
AllReceived_ShellExited == cmd.shell = "exited"
AllReceived == chan = 0 /\ \A s \in Streams : pump[s] # "reading"

Drained ==
  /\ pc = "drain" /\ AllReceived
  /\ pc' = "wait"
  /\ UNCHANGED <<kind, step, now, expiry, cmd, outputVars, exits, podVars, container, broke, verdict>>

(***************************************************************************)
(* The first failure ends the job; docker's own 125 is not a failure of    *)
(* the build.                                                              *)
(***************************************************************************)
StepOver_AnyCodeFails(code) ==
  IF code = 0 THEN pc' = "next" /\ UNCHANGED <<verdict, podVars>> ELSE End("failed")

StepOver(code) ==
  CASE code = 0 -> pc' = "next" /\ UNCHANGED <<verdict, podVars>>
    [] code = 125 /\ kind = "docker" -> End("infra_failed")
    [] OTHER -> End("failed")

Wait ==
  /\ pc = "wait"
  /\ \/ /\ cmd.shell = "exited"
        /\ exits' = Append(exits, cmd.code)
        /\ StepOver(cmd.code)
        /\ cmd' = [cmd EXCEPT !.shell = "none"]
        /\ UNCHANGED broke
     \/ End("infra_failed") /\ broke' = TRUE /\ UNCHANGED <<cmd, exits>>
  /\ UNCHANGED <<kind, step, now, expiry, outputVars, container>>

(***************************************************************************)
(* The timeout is due.  While a pod starts, the start is cancelled and the *)
(* cell stays unset; otherwise the client is killed.  What comes after has *)
(* no timeout: kubectl get, to ask what keeps the pod, or docker kill.     *)
(***************************************************************************)
Expire_NeverDraining == pc \in {"start", "wait"} /\ now >= expiry
Expire == pc \in Timed /\ now >= expiry

Expires ==
  /\ Expire
  /\ \/ /\ pc = "start" /\ kind = "kubernetes" /\ cell = "unset"
        /\ pc' = "ask" /\ UNCHANGED cmd
     \/ /\ pc # "start"
        /\ pc' = "clean"
        /\ cmd' = [cmd EXCEPT !.shell = IF kind = "kubernetes" THEN @ ELSE "none"]
  /\ UNCHANGED <<kind, step, now, expiry, outputVars, exits, podVars, container, broke, verdict>>

WhyNotRunning ==
  /\ pc = "ask"
  /\ End("infra_failed") /\ broke' = TRUE
  /\ UNCHANGED <<kind, step, now, expiry, cmd, outputVars, exits, container>>

(***************************************************************************)
(* docker kill, whose failure is ignored; the others have nothing to do.   *)
(***************************************************************************)
Clean_ClientOnly ==
  /\ pc = "clean"
  /\ End("timed_out")
  /\ UNCHANGED <<kind, step, now, expiry, cmd, outputVars, exits, container, broke>>

Clean ==
  /\ pc = "clean"
  /\ \/ container' = FALSE /\ UNCHANGED broke
     \/ container /\ broke' = TRUE /\ UNCHANGED container
  /\ End("timed_out")
  /\ UNCHANGED <<kind, step, now, expiry, cmd, outputVars, exits>>
-----------------------------------------------------------------------------
(***************************************************************************)
(* Around the runner                                                       *)
(***************************************************************************)

(***************************************************************************)
(* The runner's task is dropped, which kills the client and drops the      *)
(* sandbox, or its process dies, which does neither.                       *)
(***************************************************************************)
RunnerGoes ==
  /\ pc \notin {"done", "gone"}
  /\ pc' = "gone"
  /\ \/ DropSandbox /\ cmd' = [cmd EXCEPT !.shell = IF kind = "process" THEN "none" ELSE @]
     \/ UNCHANGED <<podVars, cmd>>
  /\ UNCHANGED <<kind, step, now, expiry, outputVars, exits, container, broke, verdict>>

Schedule ==
  /\ pod = "pending"
  /\ pod' = "running" /\ age' = 0
  /\ UNCHANGED <<kind, pc, step, now, expiry, cmd, outputVars, exits, cell, container, broke, verdict>>

(***************************************************************************)
(* The pod ends, by its deadline or because the cluster needs the room,    *)
(* and what runs in it ends with it.  kubectl exec then leaves with a code *)
(* of its own, which the runner cannot tell from one of the command.       *)
(***************************************************************************)
PodEnds ==
  /\ pod = "running"
  /\ pod' = "over"
  /\ cmd' = IF cmd.shell = "running" THEN [shell |-> "exited", code |-> 1, left |-> FALSE]
            ELSE [cmd EXCEPT !.left = FALSE]
  /\ broke' = (broke \/ pc \in Timed)
  /\ UNCHANGED <<kind, pc, step, now, expiry, outputVars, exits, age, cell, container, verdict>>

PodDeadline_ByRunner == pc # "gone" /\ age >= Deadline /\ PodEnds
PodDeadline == age >= Deadline /\ PodEnds
Evicted     == age < Deadline /\ PodEnds

(***************************************************************************)
(* Time passes, but not past a timer that is due.                          *)
(***************************************************************************)
Tick ==
  /\ ~(pc \in Timed /\ now >= expiry)
  /\ ~(pod = "running" /\ age >= Deadline)
  /\ now' = IF now < LastTick THEN now + 1 ELSE now
  /\ age' = IF pod = "running" THEN age + 1 ELSE age
  /\ <<now, age>>' # <<now, age>>
  /\ UNCHANGED <<kind, pc, step, expiry, cmd, outputVars, exits, pod, cell, container, broke, verdict>>

Runner ==
  \/ NextStep
  \/ SpawnFails \/ SpawnProcess \/ SpawnDocker
  \/ ApplyPod \/ PodReady \/ StartFails \/ ExecPod
  \/ Recv \/ Drained \/ Wait \/ Expires \/ WhyNotRunning \/ Clean

Next ==
  \/ Runner
  \/ \E s \in Streams : PrintLine(s) \/ PumpLine(s)
  \/ Exit \/ LeftExits
  \/ RunnerGoes
  \/ PodCreated \/ Schedule \/ PodDeadline \/ Evicted
  \/ Tick

(***************************************************************************)
(* Tasks that can run do, timers fire, and time passes.  A command need    *)
(* never exit, nor a pod be created, scheduled or evicted.  Of the external*)
(* calls, the two without a timeout are taken to return.                   *)
(***************************************************************************)
Fairness ==
  /\ WF_vars(NextStep) /\ WF_vars(Expires) /\ WF_vars(WhyNotRunning) /\ WF_vars(Clean)
  /\ WF_vars(SpawnFails \/ SpawnProcess \/ SpawnDocker \/ ExecPod)
  /\ WF_vars(Tick) /\ WF_vars(PodDeadline)

Spec == Init /\ [][Next]_vars /\ Fairness
-----------------------------------------------------------------------------
(***************************************************************************)
(* Properties                                                              *)
(***************************************************************************)

(***************************************************************************)
(* No line is silently missing from a build log: when a step ended by      *)
(* itself, every line it printed is in the log, those printed just before  *)
(* the exit, those held back by a full channel and those of a process left *)
(* behind included.  Only a line that is not text ends a stream early.     *)
(***************************************************************************)
LogComplete ==
  (pc = "wait" \/ (pc = "next" /\ step > 0)) /\ (\A s \in Streams : pump[s] # "broken")
    => logged = printed

(***************************************************************************)
(* However the job is split into steps, and whatever starting a pod took,  *)
(* nothing is started or waited for past the budget of the whole job; and  *)
(* the cluster's deadline is a backstop "for a runner that died, so it     *)
(* should fire strictly later than the runner would have": never while the *)
(* runner still waits for a step.  The calls after a timeout are not in it.*)
(***************************************************************************)
WithinBudget ==
  pc \in Timed => now <= Budget /\ (pod = "running" => age < Deadline)

(***************************************************************************)
(* A verdict says what happened: a success is every command in turn with   *)
(* exit code zero; a failure is the last one's code, after zeros only; a   *)
(* job that timed out has used its time and no command of it had failed.   *)
(* And a job whose sandbox broke is "not reported as a failed build", even *)
(* where docker says so with an exit code, except in a pod that went away: *)
(* there the runner does report one, against what the code says of         *)
(* InfraFailed.                                                            *)
(***************************************************************************)
AllZero(s) == \A i \in DOMAIN s : s[i] = 0

HonestVerdict ==
  /\ verdict = "success" => Len(exits) = Steps /\ AllZero(exits)
  /\ verdict = "failed" => /\ exits # <<>> /\ exits[Len(exits)] # 0
                           /\ AllZero(SubSeq(exits, 1, Len(exits) - 1))
                           /\ broke => kind = "kubernetes"
  /\ verdict = "timed_out" => now >= Budget /\ AllZero(exits)

(***************************************************************************)
(* "The container outlives the client that started it", yet not the job: a *)
(* job that is over, by its timeout too, leaves no container running in    *)
(* its workspace unless docker itself failed.                              *)
(***************************************************************************)
ContainerStops == pc = "done" /\ ~broke => ~container

(***************************************************************************)
(* Every job ends while its runner lives, even if a command never exits,   *)
(* or leaves a process behind that keeps its streams open for ever.        *)
(***************************************************************************)
JobEnds == <>(pc \in {"done", "gone"})

(***************************************************************************)
(* A pod that runs does not run for ever, whoever died and whenever it was *)
(* created: "the pod removes itself even if the runner that created it     *)
(* dies".  This is the cluster's deadline alone; a pod that is never       *)
(* scheduled is not in it.                                                 *)
(***************************************************************************)
PodsGo == (pod = "running") ~> (pod # "running")
=============================================================================
