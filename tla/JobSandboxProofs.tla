-------------------------- MODULE JobSandboxProofs --------------------------
(***************************************************************************)
(* Proofs about one job in its sandbox, for any number of steps, budget,   *)
(* slack, channel capacity and number of lines, and for each sandbox.      *)
(***************************************************************************)
EXTENDS JobSandbox, TLAPS

-----------------------------------------------------------------------------
(***************************************************************************)
(* The inductive invariant                                                 *)
(***************************************************************************)

\* Every line printed is in exactly one place: a pipe, the channel or the log.
Conserved == printed = logged + chan + pipe["out"].lines + pipe["err"].lines

\* A pump that is over for any reason but a bad line has emptied its pipe; and
\* the runner waits for the command, or goes on, with nothing left to receive.
Flushed ==
  /\ \A s \in Streams : pump[s] \in {"off", "ended"} => pipe[s].lines = 0
  /\ pc \in {"wait", "next"} => AllReceived

\* Every step's timeout is due when the budget is used up; a step that is being
\* cleaned up after has used it; and a pod is no older than the job, as long as
\* the job's clock is not at its cap.
OnTime ==
  /\ pc \in Timed => expiry = Budget /\ now <= Budget
  /\ pc = "clean" => now >= Budget
  /\ pod = "running" => age <= now \/ now = LastTick

\* While the job goes on there is no verdict, and each step before this one has
\* ended with exit code zero.
SoFar ==
  /\ pc # "done" => verdict = "none"
  /\ pc \notin {"done", "gone"} => AllZero(exits)
  /\ pc = "next" => Len(exits) = step
  /\ pc \in Timed \cup {"clean"} => Len(exits) = step - 1 /\ step > 0

\* While the runner goes on, a sandbox that broke is a pod that is over, or
\* docker's, which said so with its own exit code.
Blamed ==
  broke /\ pc \in Timed \cup {"next"} =>
    \/ kind = "kubernetes"
    \/ /\ kind = "docker" /\ pc \in {"drain", "wait"}
       /\ cmd.shell = "exited" /\ cmd.code = 125

\* Only a docker job has a container and only a kubernetes job a pod; and a
\* container is a step's whose client runs, or was killed just now, or is the
\* runner's loss or docker's failure.
Held ==
  /\ container => kind = "docker"
  /\ pod # "absent" => kind = "kubernetes"
  /\ container => \/ pc \in {"drain", "wait"} /\ cmd.shell = "running"
                  \/ pc \in {"clean", "gone"}
                  \/ pc = "done" /\ broke

IInv == TypeOK /\ Conserved /\ Flushed /\ OnTime /\ SoFar /\ Held /\ Blamed /\ HonestVerdict

-----------------------------------------------------------------------------
(***************************************************************************)
(* Records                                                                 *)
(***************************************************************************)

\* What becomes of a command is a command.
LEMMA CommandTypes ==
  /\ \A shell \in {"none", "running", "exited"}, code \in Codes, left \in BOOLEAN :
       [shell |-> shell, code |-> code, left |-> left] \in Command
  /\ \A c \in Command, shell \in {"none", "running", "exited"} :
       /\ [c EXCEPT !.shell = shell] \in Command
       /\ [c EXCEPT !.shell = shell].code = c.code
       /\ [c EXCEPT !.shell = shell].shell = shell
  /\ \A c \in Command :
       /\ [c EXCEPT !.left = FALSE] \in Command
       /\ [c EXCEPT !.left = FALSE].shell = c.shell
  /\ \A c \in Command : c.code \in Codes /\ c.shell \in {"none", "running", "exited"}
BY DEF Command

\* And so is one whose shell ended or was killed.
LEMMA ShellTypes ==
  ASSUME NEW c \in Command, NEW shell \in {"none", "running", "exited"}
  PROVE  [c EXCEPT !.shell = shell] \in Command
BY DEF Command

\* What a printed or a pumped line makes of a pipe.
LEMMA PipeTypes ==
  /\ MaxLines \in Nat => [lines |-> 0, binary |-> FALSE] \in Pipe
  /\ \A p \in Pipe : p.lines \in 0..MaxLines /\ p.binary \in BOOLEAN
  /\ \A n \in 0..MaxLines, b \in BOOLEAN : [lines |-> n, binary |-> b] \in Pipe
  /\ \A p \in Pipe, n \in 0..MaxLines :
       [p EXCEPT !.lines = n] \in Pipe /\ [p EXCEPT !.lines = n].lines = n
BY DEF Pipe

\* The two streams of a command after a line of one of them is printed or pumped.
LEMMA PipesTypes ==
  ASSUME NEW f \in [Streams -> Pipe], NEW s \in Streams
  PROVE  /\ \A n \in 0..MaxLines :
              /\ [f EXCEPT ![s].lines = n] \in [Streams -> Pipe]
              /\ [f EXCEPT ![s].lines = n][s].lines = n
              /\ \A t \in Streams \ {s} : [f EXCEPT ![s].lines = n][t] = f[t]
         /\ \A p \in Pipe :
              /\ [f EXCEPT ![s] = p] \in [Streams -> Pipe]
              /\ [f EXCEPT ![s] = p][s] = p
              /\ \A t \in Streams \ {s} : [f EXCEPT ![s] = p][t] = f[t]
         /\ f[s] \in Pipe /\ f[s].lines \in 0..MaxLines /\ f[s].binary \in BOOLEAN
<1>1. f[s] \in Pipe /\ f[s].lines \in 0..MaxLines /\ f[s].binary \in BOOLEAN
  BY PipeTypes
<1>2. ASSUME NEW p \in Pipe
      PROVE  /\ [f EXCEPT ![s] = p] \in [Streams -> Pipe]
             /\ [f EXCEPT ![s] = p][s] = p
             /\ \A t \in Streams \ {s} : [f EXCEPT ![s] = p][t] = f[t]
  OBVIOUS
<1>3. ASSUME NEW n \in 0..MaxLines
      PROVE  /\ [f EXCEPT ![s].lines = n] \in [Streams -> Pipe]
             /\ [f EXCEPT ![s].lines = n][s].lines = n
             /\ \A t \in Streams \ {s} : [f EXCEPT ![s].lines = n][t] = f[t]
  <2>1. [f[s] EXCEPT !.lines = n] \in Pipe /\ [f[s] EXCEPT !.lines = n].lines = n
    BY <1>1, PipeTypes
  <2>2. [f EXCEPT ![s].lines = n] = [f EXCEPT ![s] = [f[s] EXCEPT !.lines = n]]
    OBVIOUS
  <2> QED BY <1>2, <2>1, <2>2
<1> QED BY <1>1, <1>2, <1>3

-----------------------------------------------------------------------------
(***************************************************************************)
(* The output of a step                                                    *)
(***************************************************************************)
OutputTypes ==
  /\ printed \in 0..MaxLines /\ logged \in 0..MaxLines
  /\ pipe \in [Streams -> Pipe]
  /\ pump \in [Streams -> {"off", "reading", "ended", "broken"}]
  /\ chan \in 0..Capacity

\* Lines are only printed, pumped and received, and a new command has none.
LEMMA OutputChanges ==
  ASSUME [Next]_vars
  PROVE  \/ UNCHANGED outputVars
         \/ \E shell \in {"running", "exited"}, code \in Codes : Spawned(shell, code)
         \/ \E s \in Streams : PrintLine(s) \/ PumpLine(s)
         \/ Recv
<1>1. CASE NextStep \/ SpawnFails \/ ApplyPod \/ PodCreated \/ PodReady \/ StartFails \/ Drained
  BY <1>1 DEF NextStep, SpawnFails, ApplyPod, PodCreated, PodReady, StartFails, Drained, outputVars
<1>2. CASE Wait \/ Expires \/ WhyNotRunning \/ Clean
  BY <1>2 DEF Wait, Expires, WhyNotRunning, Clean, outputVars
<1>3. CASE SpawnProcess \/ SpawnDocker \/ ExecPod
  <2>1. \E shell \in {"running", "exited"}, code \in {0, 1, 125} : Spawned(shell, code)
    BY <1>3 DEF SpawnProcess, SpawnDocker, ExecPod
  <2> QED BY <2>1 DEF Codes
<1>4. CASE Exit \/ LeftExits \/ RunnerGoes \/ Schedule \/ PodEnds \/ Tick
  BY <1>4 DEF Exit, LeftExits, RunnerGoes, Schedule, PodEnds, Tick, outputVars
<1>5. CASE UNCHANGED vars
  BY <1>5 DEF vars, outputVars
<1> QED
  BY <1>1, <1>2, <1>3, <1>4, <1>5 DEF Next, Runner, PodDeadline, Evicted

\* What pumping a line, or the end of a pump, does.
LEMMA PumpCases ==
  ASSUME OutputTypes, NEW s \in Streams, PumpLine(s)
  PROVE  /\ pump[s] = "reading" /\ printed' = printed /\ logged' = logged /\ pc' = pc
         /\ \/ /\ chan < Capacity /\ chan' = chan + 1 /\ pump' = pump
               /\ pipe[s].lines > 0 /\ pipe' \in [Streams -> Pipe]
               /\ pipe'[s].lines = pipe[s].lines - 1
               /\ \A t \in Streams \ {s} : pipe'[t] = pipe[t]
            \/ /\ pipe' = pipe /\ chan' = chan
               /\ pump' \in [Streams -> {"off", "reading", "ended", "broken"}]
               /\ \A t \in Streams \ {s} : pump'[t] = pump[t]
               /\ pump'[s] = "broken" \/ (pump'[s] = "ended" /\ pipe[s].lines = 0)
<1>1. pump[s] = "reading" /\ printed' = printed /\ logged' = logged /\ pc' = pc
  BY DEF PumpLine
<1>2. CASE /\ pipe[s].lines > (IF pipe[s].binary THEN 1 ELSE 0) /\ chan < Capacity
           /\ pipe' = [pipe EXCEPT ![s].lines = @ - 1]
           /\ chan' = chan + 1 /\ pump' = pump
  <2>1. pipe[s].lines \in 0..MaxLines /\ pipe[s].lines > 0
    <3>1. pipe[s].lines \in 0..MaxLines
      BY PipesTypes DEF OutputTypes
    <3> QED BY <1>2, <3>1
  <2>2. pipe[s].lines - 1 \in 0..MaxLines
    BY <2>1, StepsAssumption
  <2>3. pipe' = [pipe EXCEPT ![s].lines = pipe[s].lines - 1]
    BY <1>2
  <2>4. /\ pipe' \in [Streams -> Pipe] /\ pipe'[s].lines = pipe[s].lines - 1
        /\ \A t \in Streams \ {s} : pipe'[t] = pipe[t]
    BY <2>2, <2>3, PipesTypes DEF OutputTypes
  <2> QED BY <1>1, <1>2, <2>1, <2>4
<1>3. CASE /\ pump' = [pump EXCEPT ![s] = "broken"] /\ pipe' = pipe /\ chan' = chan
  BY <1>1, <1>3 DEF OutputTypes
<1>4. CASE /\ pipe[s].lines = 0 /\ pump' = [pump EXCEPT ![s] = "ended"]
           /\ pipe' = pipe /\ chan' = chan
  BY <1>1, <1>4 DEF OutputTypes
<1> QED BY <1>2, <1>3, <1>4 DEF PumpLine

\* What printing a line does.
LEMMA PrintCases ==
  ASSUME OutputTypes, Conserved, NEW s \in Streams, PrintLine(s)
  PROVE  /\ pump[s] = "reading" /\ pump' = pump /\ chan' = chan /\ logged' = logged /\ pc' = pc
         /\ printed < MaxLines /\ printed' = printed + 1
         /\ pipe' \in [Streams -> Pipe]
         /\ pipe'[s].lines = pipe[s].lines + 1
         /\ \A t \in Streams \ {s} : pipe'[t] = pipe[t]
<1>1. /\ pump[s] = "reading" /\ pump' = pump /\ chan' = chan /\ logged' = logged /\ pc' = pc
      /\ printed < MaxLines /\ printed' = printed + 1
  BY DEF PrintLine
<1>2. PICK binary \in BOOLEAN :
        pipe' = [pipe EXCEPT ![s] = [lines |-> @.lines + 1, binary |-> @.binary \/ binary]]
  BY DEF PrintLine
<1> DEFINE p == [lines |-> pipe[s].lines + 1, binary |-> pipe[s].binary \/ binary]
<1>3. /\ pipe["out"].lines \in 0..MaxLines /\ pipe["err"].lines \in 0..MaxLines
      /\ pipe[s].lines \in 0..MaxLines /\ pipe[s].binary \in BOOLEAN
  BY PipesTypes DEF OutputTypes, Streams
<1>4. pipe[s].lines + 1 \in 0..MaxLines
  <2>1. pipe[s].lines <= printed
    BY <1>3, StepsAssumption DEF OutputTypes, Conserved, Streams
  <2> QED BY <1>1, <1>3, <2>1, StepsAssumption DEF OutputTypes
<1>5. (pipe[s].binary \/ binary) \in BOOLEAN
  OBVIOUS
<1>6. p \in Pipe /\ p.lines = pipe[s].lines + 1
  BY <1>4, <1>5, PipeTypes
<1>7. pipe' = [pipe EXCEPT ![s] = p]
  BY <1>2
<1> HIDE DEF p
<1>8. /\ pipe' \in [Streams -> Pipe] /\ pipe'[s] = p
      /\ \A t \in Streams \ {s} : pipe'[t] = pipe[t]
  BY <1>6, <1>7, PipesTypes DEF OutputTypes
<1> QED BY <1>1, <1>6, <1>8

\* A new command has printed nothing.
LEMMA SpawnedCases ==
  ASSUME NEW shell, NEW code, Spawned(shell, code)
  PROVE  /\ OutputTypes' /\ Conserved'
         /\ \A s \in Streams : pump'[s] = "reading"
<1>1. pipe' \in [Streams -> Pipe] /\ \A s \in Streams : pipe'[s].lines = 0
  BY PipeTypes, StepsAssumption DEF Spawned, Quiet
<1>2. /\ pump' \in [Streams -> {"off", "reading", "ended", "broken"}]
      /\ \A s \in Streams : pump'[s] = "reading"
  BY DEF Spawned
<1>3. printed' = 0 /\ chan' = 0 /\ logged' = 0
  BY DEF Spawned
<1> QED BY <1>1, <1>2, <1>3, StepsAssumption DEF OutputTypes, Conserved, Streams

\* Printing, pumping and receiving move a line from one place to the next, and
\* so no count leaves its range.
LEMMA OutputStep ==
  ASSUME OutputTypes, Conserved, [Next]_vars
  PROVE  OutputTypes' /\ Conserved'
<1>0. pipe["out"].lines \in 0..MaxLines /\ pipe["err"].lines \in 0..MaxLines
  BY PipesTypes DEF OutputTypes, Streams
<1>1. CASE UNCHANGED outputVars
  BY <1>1 DEF outputVars, OutputTypes, Conserved
<1>2. CASE \E shell \in {"running", "exited"}, code \in Codes : Spawned(shell, code)
  BY <1>2, SpawnedCases
<1>3. ASSUME NEW s \in Streams, PrintLine(s)
      PROVE  OutputTypes' /\ Conserved'
  BY <1>0, <1>3, PrintCases, StepsAssumption DEF OutputTypes, Conserved, Streams
<1>4. ASSUME NEW s \in Streams, PumpLine(s)
      PROVE  OutputTypes' /\ Conserved'
  BY <1>0, <1>4, PumpCases, StepsAssumption DEF OutputTypes, Conserved, Streams
<1>5. CASE Recv
  BY <1>0, <1>5, StepsAssumption DEF Recv, OutputTypes, Conserved
<1> QED BY <1>1, <1>2, <1>3, <1>4, <1>5, OutputChanges

\* A pipe is printed into only while its pump reads it, and the runner leaves
\* the channel only when it is closed.
LEMMA FlushedStep ==
  ASSUME OutputTypes, Conserved, Flushed, [Next]_vars
  PROVE  Flushed'
<1>1. CASE UNCHANGED outputVars
  <2>1. pc' \in {"wait", "next"} => AllReceived
    <3>1. CASE pc' = "wait" /\ pc # "wait"
      <4>1. CASE Runner
        BY <1>1, <3>1, <4>1 DEF Runner, NextStep, End, SpawnFails, SpawnProcess, SpawnDocker,
          Spawned, ApplyPod, PodReady, StartFails, ExecPod, Recv, Drained, Wait, StepOver,
          Expires, WhyNotRunning, Clean
      <4>2. CASE ~Runner
        BY <3>1, <4>2 DEF Next, PrintLine, PumpLine, Exit, LeftExits, RunnerGoes, PodCreated,
          Schedule, PodDeadline, Evicted, PodEnds, Tick, vars
      <4> QED BY <4>1, <4>2
    <3>2. CASE pc' = "next" /\ pc # "next"
      <4>1. CASE Runner
        BY <1>1, <3>2, <4>1 DEF Runner, NextStep, End, SpawnFails, SpawnProcess, SpawnDocker,
          Spawned, ApplyPod, PodReady, StartFails, ExecPod, Recv, Drained, Wait, StepOver,
          Expires, WhyNotRunning, Clean, Flushed
      <4>2. CASE ~Runner
        BY <3>2, <4>2 DEF Next, PrintLine, PumpLine, Exit, LeftExits, RunnerGoes, PodCreated,
          Schedule, PodDeadline, Evicted, PodEnds, Tick, vars
      <4> QED BY <4>1, <4>2
    <3>3. CASE pc' = pc
      BY <3>3 DEF Flushed
    <3> QED BY <3>1, <3>2, <3>3
  <2> QED BY <1>1, <2>1 DEF outputVars, Flushed, AllReceived
<1>2. CASE \E shell \in {"running", "exited"}, code \in Codes : Spawned(shell, code)
  <2>1. pc' = "drain" /\ \A s \in Streams : pump'[s] = "reading"
    BY <1>2, SpawnedCases DEF Spawned
  <2> QED BY <2>1 DEF Flushed
<1>3. ASSUME NEW s \in Streams, PrintLine(s)
      PROVE  Flushed'
  BY <1>3, PrintCases DEF Flushed, AllReceived
<1>4. ASSUME NEW s \in Streams, PumpLine(s)
      PROVE  Flushed'
  <2>1. pc' \notin {"wait", "next"}
    BY <1>4, PumpCases DEF Flushed, AllReceived, PumpLine, Timed
  <2>2. ASSUME NEW t \in Streams, pump'[t] \in {"off", "ended"}
        PROVE  pipe'[t].lines = 0
    BY <1>4, <2>2, PumpCases DEF Flushed
  <2> QED BY <2>1, <2>2 DEF Flushed
<1>5. CASE Recv
  BY <1>5 DEF Recv, Flushed
<1> QED BY <1>1, <1>2, <1>3, <1>4, <1>5, OutputChanges

-----------------------------------------------------------------------------
(***************************************************************************)
(* The runner and what is around it                                        *)
(***************************************************************************)
RunTypes ==
  /\ kind \in Kinds
  /\ pc \in {"next", "start", "ask", "drain", "wait", "clean", "done", "gone"}
  /\ step \in 0..Steps /\ now \in 0..LastTick /\ expiry \in 0..Budget
  /\ pod \in {"absent", "asked", "pending", "running", "over"} /\ age \in 0..Deadline
  /\ cell \in {"unset", "ok", "failed"}

EndTypes ==
  /\ container \in BOOLEAN /\ broke \in BOOLEAN
  /\ verdict \in Verdicts \cup {"none"}

\* A command stays a command.
LEMMA CommandStep ==
  ASSUME cmd \in Command, [Next]_vars
  PROVE  cmd' \in Command
<1> USE CommandTypes
<1>1. CASE NextStep \/ SpawnFails \/ ApplyPod \/ PodCreated \/ PodReady \/ StartFails \/ Drained \/ Recv
  BY <1>1 DEF NextStep, SpawnFails, ApplyPod, PodCreated, PodReady, StartFails, Drained, Recv
<1>2. CASE Wait
  <2>1. cmd' = cmd \/ cmd' = [cmd EXCEPT !.shell = "none"]
    BY <1>2 DEF Wait
  <2>2. [cmd EXCEPT !.shell = "none"] \in Command
    BY ShellTypes
  <2> QED BY <2>1, <2>2
<1>3. CASE Expires
  <2>1. (IF kind = "kubernetes" THEN cmd.shell ELSE "none") \in {"none", "running", "exited"}
    OBVIOUS
  <2>2. \/ cmd' = cmd
        \/ cmd' = [cmd EXCEPT !.shell = IF kind = "kubernetes" THEN cmd.shell ELSE "none"]
    BY <1>3 DEF Expires
  <2>3. [cmd EXCEPT !.shell = IF kind = "kubernetes" THEN cmd.shell ELSE "none"] \in Command
    BY <2>1, ShellTypes
  <2> QED BY <2>2, <2>3
<1>4. CASE SpawnProcess \/ SpawnDocker \/ ExecPod
  <2>1. PICK shell \in {"running", "exited"}, code \in {0, 1, 125} : Spawned(shell, code)
    BY <1>4 DEF SpawnProcess, SpawnDocker, ExecPod
  <2>2. cmd' = [shell |-> shell, code |-> code, left |-> FALSE] /\ code \in Codes
    BY <2>1 DEF Spawned, Codes
  <2> QED BY <2>2
<1>5. CASE \E s \in Streams : PrintLine(s) \/ PumpLine(s)
  BY <1>5 DEF PrintLine, PumpLine
<1>6. CASE Exit
  <2>1. PICK code \in Codes, left \in BOOLEAN :
          cmd' = [shell |-> "exited", code |-> code, left |-> left /\ kind # "docker"]
    BY <1>6 DEF Exit
  <2>2. (left /\ kind # "docker") \in BOOLEAN
    OBVIOUS
  <2> QED BY <2>1, <2>2
<1>7. CASE LeftExits
  BY <1>7 DEF LeftExits
<1>8. CASE RunnerGoes
  <2>1. (IF kind = "process" THEN "none" ELSE cmd.shell) \in {"none", "running", "exited"}
    OBVIOUS
  <2>2. \/ cmd' = cmd
        \/ cmd' = [cmd EXCEPT !.shell = IF kind = "process" THEN "none" ELSE cmd.shell]
    BY <1>8 DEF RunnerGoes
  <2>3. [cmd EXCEPT !.shell = IF kind = "process" THEN "none" ELSE cmd.shell] \in Command
    BY <2>1, ShellTypes
  <2> QED BY <2>2, <2>3
<1>9. CASE PodEnds
  <2>1. [shell |-> "exited", code |-> 1, left |-> FALSE] \in Command
    BY DEF Codes
  <2> QED BY <1>9, <2>1 DEF PodEnds
<1>10. CASE WhyNotRunning \/ Clean \/ Schedule \/ Tick \/ UNCHANGED vars
  BY <1>10 DEF WhyNotRunning, Clean, Schedule, Tick, vars
<1> QED
  BY <1>1, <1>2, <1>3, <1>4, <1>5, <1>6, <1>7, <1>8, <1>9, <1>10
  DEF Next, Runner, PodDeadline, Evicted

\* Exit codes are only recorded by the runner's wait.
LEMMA ExitsStep ==
  ASSUME cmd \in Command, exits \in Seq(Codes), [Next]_vars
  PROVE  /\ exits' \in Seq(Codes)
         /\ exits' = exits \/ Wait
<1>1. CASE Wait
  <2>1. exits' \in {exits, Append(exits, cmd.code)}
    BY <1>1 DEF Wait
  <2>2. cmd.code \in Codes
    BY CommandTypes
  <2> QED BY <1>1, <2>1, <2>2
<1>2. CASE ~Wait
  BY <1>2 DEF Next, Runner, NextStep, SpawnFails, SpawnProcess, SpawnDocker, ApplyPod, PodReady,
    StartFails, ExecPod, Recv, Drained, Expires, WhyNotRunning, Clean, PodCreated, PrintLine, PumpLine, Exit, LeftExits,
    RunnerGoes, Schedule, PodDeadline, Evicted, PodEnds, Tick, vars
<1> QED BY <1>1, <1>2

\* Steps keep the types of the runner, the clock and the pod.
LEMMA RunStep ==
  ASSUME RunTypes, [Next]_vars
  PROVE  RunTypes'
<1> USE BudgetAssumption, StepsAssumption DEF RunTypes, LastTick, Deadline, podVars
<1>1. CASE NextStep
  <2>1. CASE step < Steps /\ Remaining(now) > 0
    BY <1>1, <2>1 DEF NextStep, Remaining
  <2>2. CASE ~(step < Steps /\ Remaining(now) > 0)
    BY <1>1, <2>2 DEF NextStep, End, DropSandbox, Deleted
  <2> QED BY <2>1, <2>2
<1>2. CASE SpawnFails
  BY <1>2 DEF SpawnFails, End, DropSandbox, Deleted
<1>3. CASE SpawnProcess
  BY <1>3 DEF SpawnProcess, Spawned, Quiet
<1>4. CASE SpawnDocker
  BY <1>4 DEF SpawnDocker, Spawned, Quiet
<1>5. CASE ApplyPod
  BY <1>5 DEF ApplyPod
<1>6. CASE PodReady
  BY <1>6 DEF PodReady
<1>7. CASE StartFails
  BY <1>7 DEF StartFails, Deleted
<1>8. CASE ExecPod
  BY <1>8 DEF ExecPod, Spawned, Quiet
<1>9. CASE Recv
  BY <1>9 DEF Recv
<1>10. CASE Drained
  BY <1>10 DEF Drained, AllReceived
<1>11. CASE Wait
  BY <1>11 DEF Wait, StepOver, End, DropSandbox, Deleted
<1>12. CASE Expires
  BY <1>12 DEF Expires, Expire
<1>13. CASE Clean
  BY <1>13 DEF Clean, End, DropSandbox, Deleted
<1>14. CASE \E s \in Streams : PrintLine(s)
  BY <1>14 DEF PrintLine
<1>15. CASE \E s \in Streams : PumpLine(s)
  BY <1>15 DEF PumpLine, Talking
<1>16. CASE Exit
  BY <1>16 DEF Exit
<1>17. CASE LeftExits
  BY <1>17 DEF LeftExits
<1>18. CASE RunnerGoes
  BY <1>18 DEF RunnerGoes, DropSandbox, Deleted
<1>19. CASE Schedule
  BY <1>19 DEF Schedule
<1>20. CASE PodEnds
  BY <1>20 DEF PodEnds
<1>21. CASE Tick
  BY <1>21 DEF Tick
<1>22. CASE PodCreated
  BY <1>22 DEF PodCreated
<1>23. CASE WhyNotRunning
  BY <1>23 DEF WhyNotRunning, End, DropSandbox, Deleted
<1>24. CASE UNCHANGED vars
  BY <1>24 DEF vars
<1> QED
  BY <1>1, <1>2, <1>3, <1>4, <1>5, <1>6, <1>7, <1>8, <1>9, <1>10, <1>11, <1>12, <1>13, <1>14, <1>15, <1>16, <1>17, <1>18, <1>19, <1>20, <1>21, <1>22,
     <1>23, <1>24 DEF Next, Runner, PodDeadline, Evicted

\* And of what the job ends with.
LEMMA EndStep ==
  ASSUME EndTypes, [Next]_vars
  PROVE  EndTypes'
<1> USE DEF EndTypes, Verdicts, podVars
<1>1. CASE NextStep
  BY <1>1 DEF NextStep, End, DropSandbox, Deleted, Remaining
<1>2. CASE SpawnFails
  BY <1>2 DEF SpawnFails, End, DropSandbox, Deleted
<1>3. CASE SpawnProcess
  BY <1>3 DEF SpawnProcess, Spawned, Quiet
<1>4. CASE SpawnDocker
  BY <1>4 DEF SpawnDocker, Spawned, Quiet
<1>5. CASE ApplyPod
  BY <1>5 DEF ApplyPod
<1>6. CASE PodReady
  BY <1>6 DEF PodReady
<1>7. CASE StartFails
  BY <1>7 DEF StartFails, Deleted
<1>8. CASE ExecPod
  BY <1>8 DEF ExecPod, Spawned, Quiet
<1>9. CASE Recv
  BY <1>9 DEF Recv
<1>10. CASE Drained
  BY <1>10 DEF Drained, AllReceived
<1>11. CASE Wait
  BY <1>11 DEF Wait, StepOver, End, DropSandbox, Deleted
<1>12. CASE Expires
  BY <1>12 DEF Expires, Expire
<1>13. CASE Clean
  BY <1>13 DEF Clean, End, DropSandbox, Deleted
<1>14. CASE \E s \in Streams : PrintLine(s)
  BY <1>14 DEF PrintLine
<1>15. CASE \E s \in Streams : PumpLine(s)
  BY <1>15 DEF PumpLine, Talking
<1>16. CASE Exit
  BY <1>16 DEF Exit
<1>17. CASE LeftExits
  BY <1>17 DEF LeftExits
<1>18. CASE RunnerGoes
  BY <1>18 DEF RunnerGoes, DropSandbox, Deleted
<1>19. CASE Schedule
  BY <1>19 DEF Schedule
<1>20. CASE PodEnds
  BY <1>20 DEF PodEnds
<1>21. CASE Tick
  BY <1>21 DEF Tick
<1>22. CASE PodCreated
  BY <1>22 DEF PodCreated
<1>23. CASE WhyNotRunning
  BY <1>23 DEF WhyNotRunning, End, DropSandbox, Deleted
<1>24. CASE UNCHANGED vars
  BY <1>24 DEF vars
<1> QED
  BY <1>1, <1>2, <1>3, <1>4, <1>5, <1>6, <1>7, <1>8, <1>9, <1>10, <1>11, <1>12, <1>13, <1>14, <1>15, <1>16, <1>17, <1>18, <1>19, <1>20, <1>21, <1>22,
     <1>23, <1>24 DEF Next, Runner, PodDeadline, Evicted

\* The timeout is what remains of the budget, and time stops at it.
LEMMA OnTimeStep ==
  ASSUME RunTypes, OnTime, [Next]_vars
  PROVE  OnTime'
<1> USE BudgetAssumption DEF RunTypes, OnTime, Timed, LastTick, Deadline, podVars
<1>1. CASE NextStep
  BY <1>1 DEF NextStep, End, DropSandbox, Deleted, Remaining
<1>2. CASE SpawnFails
  BY <1>2 DEF SpawnFails, End, DropSandbox, Deleted
<1>3. CASE SpawnProcess
  BY <1>3 DEF SpawnProcess, Spawned, Quiet
<1>4. CASE SpawnDocker
  BY <1>4 DEF SpawnDocker, Spawned, Quiet
<1>5. CASE ApplyPod
  BY <1>5 DEF ApplyPod
<1>6. CASE PodReady
  BY <1>6 DEF PodReady
<1>7. CASE StartFails
  BY <1>7 DEF StartFails, Deleted
<1>8. CASE ExecPod
  BY <1>8 DEF ExecPod, Spawned, Quiet
<1>9. CASE Recv
  BY <1>9 DEF Recv
<1>10. CASE Drained
  BY <1>10 DEF Drained, AllReceived
<1>11. CASE Wait
  BY <1>11 DEF Wait, StepOver, End, DropSandbox, Deleted
<1>12. CASE Expires
  BY <1>12 DEF Expires, Expire
<1>13. CASE Clean
  BY <1>13 DEF Clean, End, DropSandbox, Deleted
<1>14. CASE \E s \in Streams : PrintLine(s)
  BY <1>14 DEF PrintLine
<1>15. CASE \E s \in Streams : PumpLine(s)
  BY <1>15 DEF PumpLine, Talking
<1>16. CASE Exit
  BY <1>16 DEF Exit
<1>17. CASE LeftExits
  BY <1>17 DEF LeftExits
<1>18. CASE RunnerGoes
  BY <1>18 DEF RunnerGoes, DropSandbox, Deleted
<1>19. CASE Schedule
  BY <1>19 DEF Schedule
<1>20. CASE PodEnds
  BY <1>20 DEF PodEnds
<1>21. CASE Tick
  BY <1>21 DEF Tick
<1>22. CASE PodCreated
  BY <1>22 DEF PodCreated
<1>23. CASE WhyNotRunning
  BY <1>23 DEF WhyNotRunning, End, DropSandbox, Deleted
<1>24. CASE UNCHANGED vars
  BY <1>24 DEF vars
<1> QED
  BY <1>1, <1>2, <1>3, <1>4, <1>5, <1>6, <1>7, <1>8, <1>9, <1>10, <1>11, <1>12, <1>13, <1>14, <1>15, <1>16, <1>17, <1>18, <1>19, <1>20, <1>21, <1>22,
     <1>23, <1>24 DEF Next, Runner, PodDeadline, Evicted

\* A container ends with its client, or is killed after it.
LEMMA HeldStep ==
  ASSUME TypeOK, Held, [Next]_vars
  PROVE  Held'
<1> USE CommandTypes DEF TypeOK, Held, Timed, podVars
<1>1. CASE NextStep
  BY <1>1 DEF NextStep, End, DropSandbox, Deleted, Remaining
<1>2. CASE SpawnFails
  BY <1>2 DEF SpawnFails, End, DropSandbox, Deleted
<1>3. CASE SpawnProcess
  BY <1>3 DEF SpawnProcess, Spawned, Quiet
<1>4. CASE SpawnDocker
  BY <1>4 DEF SpawnDocker, Spawned, Quiet
<1>5. CASE ApplyPod
  BY <1>5 DEF ApplyPod
<1>6. CASE PodReady
  BY <1>6 DEF PodReady
<1>7. CASE StartFails
  BY <1>7 DEF StartFails, Deleted
<1>8. CASE ExecPod
  BY <1>8 DEF ExecPod, Spawned, Quiet
<1>9. CASE Recv
  BY <1>9 DEF Recv
<1>10. CASE Drained
  BY <1>10 DEF Drained, AllReceived
<1>11. CASE Wait
  BY <1>11 DEF Wait, StepOver, End, DropSandbox, Deleted
<1>12. CASE Expires
  BY <1>12 DEF Expires, Expire
<1>13. CASE Clean
  BY <1>13 DEF Clean, End, DropSandbox, Deleted
<1>14. CASE \E s \in Streams : PrintLine(s)
  BY <1>14 DEF PrintLine
<1>15. CASE \E s \in Streams : PumpLine(s)
  BY <1>15 DEF PumpLine, Talking
<1>16. CASE Exit
  BY <1>16 DEF Exit
<1>17. CASE LeftExits
  BY <1>17 DEF LeftExits
<1>18. CASE RunnerGoes
  BY <1>18 DEF RunnerGoes, DropSandbox, Deleted
<1>19. CASE Schedule
  BY <1>19 DEF Schedule
<1>20. CASE PodEnds
  BY <1>20 DEF PodEnds
<1>21. CASE Tick
  BY <1>21 DEF Tick
<1>22. CASE PodCreated
  BY <1>22 DEF PodCreated
<1>23. CASE WhyNotRunning
  BY <1>23 DEF WhyNotRunning, End, DropSandbox, Deleted
<1>24. CASE UNCHANGED vars
  BY <1>24 DEF vars
<1> QED
  BY <1>1, <1>2, <1>3, <1>4, <1>5, <1>6, <1>7, <1>8, <1>9, <1>10, <1>11, <1>12, <1>13, <1>14, <1>15, <1>16, <1>17, <1>18, <1>19, <1>20, <1>21, <1>22,
     <1>23, <1>24 DEF Next, Runner, PodDeadline, Evicted

\* Docker breaks before the step runs, and with 125 the job ends.
LEMMA BlamedStep ==
  ASSUME TypeOK, Held, Blamed, [Next]_vars
  PROVE  Blamed'
<1> USE CommandTypes DEF TypeOK, Blamed, Timed, podVars
<1>1. CASE NextStep
  BY <1>1 DEF NextStep, End, DropSandbox, Deleted, Remaining
<1>2. CASE SpawnFails
  BY <1>2 DEF SpawnFails, End, DropSandbox, Deleted
<1>3. CASE SpawnProcess
  BY <1>3 DEF SpawnProcess, Spawned, Quiet
<1>4. CASE SpawnDocker
  <2>1. pc = "start" /\ pc' = "drain" /\ kind = "docker" /\ kind' = kind
    BY <1>4 DEF SpawnDocker, Spawned
  <2>2. CASE Spawned("running", 0) /\ broke' = broke
    BY <2>1, <2>2
  <2>3. CASE Spawned("exited", 125) /\ broke' = TRUE
    <3>1. cmd'.shell = "exited" /\ cmd'.code = 125
      BY <2>3 DEF Spawned
    <3> QED BY <2>1, <3>1
  <2> QED BY <1>4, <2>2, <2>3 DEF SpawnDocker
<1>5. CASE ApplyPod
  BY <1>5 DEF ApplyPod
<1>6. CASE PodReady
  BY <1>6 DEF PodReady
<1>7. CASE StartFails
  BY <1>7 DEF StartFails, Deleted
<1>8. CASE ExecPod
  BY <1>8 DEF ExecPod, Spawned, Quiet
<1>9. CASE Recv
  BY <1>9 DEF Recv
<1>10. CASE Drained
  BY <1>10 DEF Drained, AllReceived
<1>11. CASE Wait
  <2>1. CASE pc' = "next"
    <3>1. broke' = broke /\ cmd.code = 0 /\ kind' = kind /\ pc = "wait"
      BY <1>11, <2>1 DEF Wait, StepOver, End
    <3> QED BY <2>1, <3>1
  <2>2. CASE pc' # "next"
    BY <1>11, <2>2 DEF Wait, StepOver, End
  <2> QED BY <2>1, <2>2
<1>12. CASE Expires
  BY <1>12 DEF Expires, Expire
<1>13. CASE Clean
  BY <1>13 DEF Clean, End, DropSandbox, Deleted
<1>14. CASE \E s \in Streams : PrintLine(s)
  BY <1>14 DEF PrintLine
<1>15. CASE \E s \in Streams : PumpLine(s)
  BY <1>15 DEF PumpLine, Talking
<1>16. CASE Exit
  BY <1>16 DEF Exit
<1>17. CASE LeftExits
  BY <1>17 DEF LeftExits
<1>18. CASE RunnerGoes
  BY <1>18 DEF RunnerGoes, DropSandbox, Deleted
<1>19. CASE Schedule
  BY <1>19 DEF Schedule
<1>20. CASE PodEnds
  BY <1>20 DEF PodEnds, Held
<1>21. CASE Tick
  BY <1>21 DEF Tick
<1>22. CASE PodCreated
  BY <1>22 DEF PodCreated
<1>23. CASE WhyNotRunning
  BY <1>23 DEF WhyNotRunning, End, DropSandbox, Deleted
<1>24. CASE UNCHANGED vars
  BY <1>24 DEF vars
<1> QED
  BY <1>1, <1>2, <1>3, <1>4, <1>5, <1>6, <1>7, <1>8, <1>9, <1>10, <1>11, <1>12, <1>13, <1>14, <1>15, <1>16, <1>17, <1>18, <1>19, <1>20, <1>21, <1>22,
     <1>23, <1>24 DEF Next, Runner, PodDeadline, Evicted

\* Only an exit code of zero leads on to the next step.
LEMMA SoFarStep ==
  ASSUME TypeOK, SoFar, [Next]_vars
  PROVE  SoFar'
<1> USE StepsAssumption DEF TypeOK, SoFar, AllZero, Timed, podVars
<1>1. CASE NextStep
  BY <1>1 DEF NextStep, End, DropSandbox, Deleted, Remaining
<1>2. CASE SpawnFails
  BY <1>2 DEF SpawnFails, End, DropSandbox, Deleted
<1>3. CASE SpawnProcess
  BY <1>3 DEF SpawnProcess, Spawned, Quiet
<1>4. CASE SpawnDocker
  BY <1>4 DEF SpawnDocker, Spawned, Quiet
<1>5. CASE ApplyPod
  BY <1>5 DEF ApplyPod
<1>6. CASE PodReady
  BY <1>6 DEF PodReady
<1>7. CASE StartFails
  BY <1>7 DEF StartFails, Deleted
<1>8. CASE ExecPod
  BY <1>8 DEF ExecPod, Spawned, Quiet
<1>9. CASE Recv
  BY <1>9 DEF Recv
<1>10. CASE Drained
  BY <1>10 DEF Drained, AllReceived
<1>11. CASE Wait
  <2>1. CASE /\ cmd.shell = "exited" /\ exits' = Append(exits, cmd.code) /\ StepOver(cmd.code)
    <3>1. Len(exits') = Len(exits) + 1 /\ (cmd.code = 0 => AllZero(exits'))
      <4>1. cmd.code \in Codes
        BY CommandTypes
      <4>2. Len(exits') = Len(exits) + 1
        BY <2>1, <4>1
      <4>3. \A i \in DOMAIN exits' : exits'[i] = cmd.code \/ (i \in DOMAIN exits /\ exits'[i] = exits[i])
        BY <2>1, <4>1
      <4> QED BY <1>11, <4>2, <4>3 DEF Wait
    <3> QED
      BY <1>11, <2>1, <3>1 DEF Wait, StepOver, End
  <2>2. CASE End("infra_failed") /\ exits' = exits
    BY <1>11, <2>2 DEF Wait, End
  <2> QED
    BY <1>11, <2>1, <2>2 DEF Wait
<1>12. CASE Expires
  BY <1>12 DEF Expires, Expire
<1>13. CASE Clean
  BY <1>13 DEF Clean, End, DropSandbox, Deleted
<1>14. CASE \E s \in Streams : PrintLine(s)
  BY <1>14 DEF PrintLine
<1>15. CASE \E s \in Streams : PumpLine(s)
  BY <1>15 DEF PumpLine, Talking
<1>16. CASE Exit
  BY <1>16 DEF Exit
<1>17. CASE LeftExits
  BY <1>17 DEF LeftExits
<1>18. CASE RunnerGoes
  BY <1>18 DEF RunnerGoes, DropSandbox, Deleted
<1>19. CASE Schedule
  BY <1>19 DEF Schedule
<1>20. CASE PodEnds
  BY <1>20 DEF PodEnds
<1>21. CASE Tick
  BY <1>21 DEF Tick
<1>22. CASE PodCreated
  BY <1>22 DEF PodCreated
<1>23. CASE WhyNotRunning
  BY <1>23 DEF WhyNotRunning, End, DropSandbox, Deleted
<1>24. CASE UNCHANGED vars
  BY <1>24 DEF vars
<1> QED
  BY <1>1, <1>2, <1>3, <1>4, <1>5, <1>6, <1>7, <1>8, <1>9, <1>10, <1>11, <1>12, <1>13, <1>14, <1>15, <1>16, <1>17, <1>18, <1>19, <1>20, <1>21, <1>22,
     <1>23, <1>24 DEF Next, Runner, PodDeadline, Evicted

\* Each way to end a job, with its verdict.
LEMMA VerdictStep ==
  ASSUME TypeOK, OnTime, SoFar, Blamed, HonestVerdict, [Next]_vars
  PROVE  HonestVerdict'
<1> USE BudgetAssumption, StepsAssumption DEF TypeOK, OnTime, SoFar, Blamed, HonestVerdict, AllZero, Timed, podVars
<1>1. CASE NextStep
  BY <1>1 DEF NextStep, End, DropSandbox, Deleted, Remaining
<1>2. CASE SpawnFails
  BY <1>2 DEF SpawnFails, End, DropSandbox, Deleted
<1>3. CASE SpawnProcess
  BY <1>3 DEF SpawnProcess, Spawned, Quiet
<1>4. CASE SpawnDocker
  BY <1>4 DEF SpawnDocker, Spawned, Quiet
<1>5. CASE ApplyPod
  BY <1>5 DEF ApplyPod
<1>6. CASE PodReady
  BY <1>6 DEF PodReady
<1>7. CASE StartFails
  BY <1>7 DEF StartFails, Deleted
<1>8. CASE ExecPod
  BY <1>8 DEF ExecPod, Spawned, Quiet
<1>9. CASE Recv
  BY <1>9 DEF Recv
<1>10. CASE Drained
  BY <1>10 DEF Drained, AllReceived
<1>11. CASE Wait
  <2>1. CASE /\ cmd.shell = "exited" /\ exits' = Append(exits, cmd.code) /\ StepOver(cmd.code)
    <3>1. /\ Len(exits') = Len(exits) + 1 /\ exits'[Len(exits')] = cmd.code
          /\ SubSeq(exits', 1, Len(exits') - 1) = exits
      <4>1. cmd.code \in Codes
        BY CommandTypes
      <4> QED BY <2>1, <4>1
    <3>2. CASE cmd.code = 0
      BY <1>11, <2>1, <3>2 DEF Wait, StepOver
    <3>3. CASE cmd.code = 125 /\ kind = "docker"
      BY <1>11, <2>1, <3>1, <3>3 DEF Wait, StepOver, End
    <3>4. CASE cmd.code # 0 /\ ~(cmd.code = 125 /\ kind = "docker")
      <4>1. verdict' = "failed" /\ exits' # <<>>
        BY <1>11, <2>1, <3>1, <3>4 DEF Wait, StepOver, End
      <4> QED
        BY <1>11, <3>1, <3>4, <4>1 DEF Wait
    <3> QED
      BY <3>2, <3>3, <3>4
  <2>2. CASE End("infra_failed") /\ exits' = exits /\ broke'
    BY <1>11, <2>2 DEF Wait, End
  <2> QED
    BY <1>11, <2>1, <2>2 DEF Wait
<1>12. CASE Expires
  BY <1>12 DEF Expires, Expire
<1>13. CASE Clean
  BY <1>13 DEF Clean, End, DropSandbox, Deleted
<1>14. CASE \E s \in Streams : PrintLine(s)
  BY <1>14 DEF PrintLine
<1>15. CASE \E s \in Streams : PumpLine(s)
  BY <1>15 DEF PumpLine, Talking
<1>16. CASE Exit
  BY <1>16 DEF Exit
<1>17. CASE LeftExits
  BY <1>17 DEF LeftExits
<1>18. CASE RunnerGoes
  BY <1>18 DEF RunnerGoes, DropSandbox, Deleted
<1>19. CASE Schedule
  BY <1>19 DEF Schedule
<1>20. CASE PodEnds
  BY <1>20 DEF PodEnds
<1>21. CASE Tick
  BY <1>21 DEF Tick
<1>22. CASE PodCreated
  BY <1>22 DEF PodCreated
<1>23. CASE WhyNotRunning
  BY <1>23 DEF WhyNotRunning, End, DropSandbox, Deleted
<1>24. CASE UNCHANGED vars
  BY <1>24 DEF vars
<1> QED
  BY <1>1, <1>2, <1>3, <1>4, <1>5, <1>6, <1>7, <1>8, <1>9, <1>10, <1>11, <1>12, <1>13, <1>14, <1>15, <1>16, <1>17, <1>18, <1>19, <1>20, <1>21, <1>22,
     <1>23, <1>24 DEF Next, Runner, PodDeadline, Evicted

-----------------------------------------------------------------------------
(***************************************************************************)
(* Theorems                                                                *)
(***************************************************************************)

\* The types are those of the parts.
LEMMA TypeParts ==
  TypeOK <=> RunTypes /\ EndTypes /\ OutputTypes /\ cmd \in Command /\ exits \in Seq(Codes)
BY DEF TypeOK, RunTypes, EndTypes, OutputTypes

\* A job starts with nothing done.
LEMMA InitInvariant == Init => IInv
<1> SUFFICES ASSUME Init PROVE IInv
  OBVIOUS
<1> USE BudgetAssumption, StepsAssumption
<1>1. pipe \in [Streams -> Pipe] /\ \A s \in Streams : pipe[s].lines = 0
  BY PipeTypes DEF Init, Quiet
<1>2. OutputTypes /\ Conserved /\ Flushed
  BY <1>1 DEF Init, OutputTypes, Conserved, Flushed, AllReceived, Streams
<1>3. cmd \in Command
  BY CommandTypes DEF Init, NoCommand, Codes
<1>4. RunTypes /\ EndTypes /\ exits \in Seq(Codes)
  <2>1. RunTypes
    BY DEF Init, RunTypes, LastTick, Deadline
  <2>2. EndTypes
    BY DEF Init, EndTypes
  <2>3. exits \in Seq(Codes)
    BY DEF Init
  <2> QED BY <2>1, <2>2, <2>3
<1>5. OnTime /\ SoFar /\ Held /\ Blamed /\ HonestVerdict
  BY DEF Init, OnTime, SoFar, Held, Blamed, HonestVerdict, Timed, AllZero
<1> QED BY <1>2, <1>3, <1>4, <1>5, TypeParts DEF IInv

\* The invariant is inductive: a job, its command, its sandbox and the clock may
\* take their steps in any order.
THEOREM Invariant == Spec => []IInv
<1>1. Init => IInv
  BY InitInvariant
<1>2. IInv /\ [Next]_vars => IInv'
  <2> SUFFICES ASSUME IInv, [Next]_vars PROVE IInv'
    OBVIOUS
  <2>1. RunTypes /\ EndTypes /\ OutputTypes /\ cmd \in Command /\ exits \in Seq(Codes)
    BY TypeParts DEF IInv
  <2>2. OutputTypes' /\ Conserved' /\ Flushed'
    BY <2>1, OutputStep, FlushedStep DEF IInv
  <2>3. RunTypes' /\ EndTypes' /\ cmd' \in Command /\ exits' \in Seq(Codes)
    BY <2>1, RunStep, EndStep, CommandStep, ExitsStep
  <2>4. TypeOK'
    BY <2>2, <2>3 DEF TypeOK, RunTypes, EndTypes, OutputTypes
  <2>5. OnTime' /\ SoFar' /\ Held' /\ Blamed' /\ HonestVerdict'
    BY <2>1, OnTimeStep, SoFarStep, HeldStep, BlamedStep, VerdictStep DEF IInv
  <2> QED BY <2>2, <2>4, <2>5 DEF IInv
<1> QED BY <1>1, <1>2, PTL DEF Spec

\* Every variable keeps its type; in particular no line is counted twice.
THEOREM TypeCorrect == Spec => []TypeOK
<1>1. IInv => TypeOK
  BY DEF IInv
<1> QED BY <1>1, Invariant, PTL

\* However lines, exits, pumps and the runner interleave, the log of a step that
\* ended by itself has every line it printed: Child::wait comes after the channel
\* is closed, and a pump holds its end of it until its stream is empty.
THEOREM LogsComplete == Spec => []LogComplete
<1>1. IInv => LogComplete
  <2> SUFFICES ASSUME IInv, pc \in {"wait", "next"}, \A s \in Streams : pump[s] # "broken"
               PROVE  logged = printed
    BY DEF LogComplete
  <2>1. chan = 0 /\ \A s \in Streams : pump[s] \in {"off", "ended"}
    BY DEF IInv, TypeOK, Flushed, AllReceived
  <2>2. pipe["out"].lines = 0 /\ pipe["err"].lines = 0
    BY <2>1 DEF IInv, Flushed, Streams
  <2> QED BY <2>1, <2>2 DEF IInv, Conserved, TypeOK
<1> QED BY <1>1, Invariant, PTL

\* Whatever the budget and the slack: no step is started or waited for past the
\* budget, and the pod's deadline never fires under a runner that waits.
THEOREM JobsKeepTheirBudget == Spec => []WithinBudget
<1>1. IInv => WithinBudget
  BY BudgetAssumption DEF IInv, TypeOK, OnTime, WithinBudget, Deadline, LastTick, Timed
<1> QED BY <1>1, Invariant, PTL

\* The verdict of a job is what the exit codes of its steps and its clock say, and
\* no failure of docker is called a failed build.
THEOREM VerdictsHonest == Spec => []HonestVerdict
<1>1. IInv => HonestVerdict
  BY DEF IInv
<1> QED BY <1>1, Invariant, PTL

\* No container outlives its job, unless docker itself failed.
THEOREM ContainersStop == Spec => []ContainerStops
<1>1. IInv => ContainerStops
  BY DEF IInv, Held, ContainerStops
<1> QED BY <1>1, Invariant, PTL

=============================================================================
