----------------------------- MODULE Projector ------------------------------
(***************************************************************************)
(* One projector: it tails one event topic and writes the rows the API     *)
(* reads, in a database transaction that also moves its durable cursor.    *)
(*                                                                         *)
(* The process opens the projector at the cursor, drains the topic, and    *)
(* only then serves; from there the projector runs as a task of its own.   *)
(* An error while draining at boot ends the process; an error in the task  *)
(* ends the task, and the process goes on without it until it restarts.    *)
(* Handlers that committed an event wait on the watch channel for the      *)
(* projector to reach it before they read their own write.                 *)
(*                                                                         *)
(* Offsets start at zero, so the record at offset o is log[o + 1].  The    *)
(* effect of an event is represented by its offset: rows is the sequence   *)
(* of events whose effect the database holds, in the order they took it.   *)
(* The broker and the database are external.                               *)
(***************************************************************************)
EXTENDS Integers, Sequences, FiniteSets, Functions

CONSTANTS
  Readers,     \* handlers waiting to read their own write; each waits once
  MaxLog,      \* bound: records the topic receives
  MaxFetch,    \* bound: records one fetch returns (FETCH_MAX_BYTES)
  MaxCrashes,  \* bound: how often the process dies
  MaxFailures  \* bound: how often the broker or the database fails a call

ASSUME MaxLogAssumption == MaxLog \in Nat
ASSUME MaxFetchAssumption == MaxFetch \in Nat \ {0}
ASSUME MaxCrashesAssumption == MaxCrashes \in Nat
ASSUME MaxFailuresAssumption == MaxFailures \in Nat

VARIABLES
  \* The broker.
  log,      \* the topic's stable records, as far as READ_COMMITTED shows them
  \* The database.
  rows,     \* the events projected, by offset
  cursor,   \* reader_cursors.applied_offset: where to resume
  \* The process.
  pc,       \* where the projector is
  serving,  \* the boot drain is over and the server listens
  polling,  \* the next fetch is the long poll of run, not one of drain
  offset,   \* Tailer.offset: the next offset to fetch
  next,     \* where the current batch still has records to apply
  staged,   \* events applied in the open database transaction
  applied,  \* the watch channel: the last offset published, -1 for none
  crashes,  \* how often the process has died
  failures, \* how often a call has failed
  \* The handlers.
  gate,     \* what each reader is doing
  awaited   \* the offset it waits for

dbVars     == <<rows, cursor>>
taskVars   == <<pc, serving, polling, offset, next, staged, applied>>
readerVars == <<gate, awaited>>
faultVars  == <<crashes, failures>>
vars       == <<log, dbVars, taskVars, faultVars, readerVars>>

(***************************************************************************)
(* What a record is to the projector: an event it knows, one it skips      *)
(* (undecodable or unrecognized), or one no reader sees (a control record  *)
(* or part of an aborted transaction).                                     *)
(***************************************************************************)
Kinds == {"event", "foreign", "invisible"}

Positions == {"down", "fetch", "skip", "apply", "commit", "publish", "stopped"}

TypeOK ==
  /\ log \in Seq(Kinds)
  /\ rows \in Seq(Nat)
  /\ cursor \in Nat
  /\ pc \in Positions
  /\ serving \in BOOLEAN
  /\ polling \in BOOLEAN
  /\ offset \in Nat
  /\ next \in Nat
  /\ staged \in Seq(Nat)
  /\ applied \in Nat \cup {-1}
  /\ crashes \in Nat
  /\ failures \in Nat
  /\ gate \in [Readers -> {"idle", "waiting", "fresh", "pending", "gone"}]
  /\ awaited \in [Readers -> Nat]

Init ==
  /\ log = <<>>
  /\ rows = <<>>
  /\ cursor = 0
  /\ pc = "down"
  /\ serving = FALSE
  /\ polling = FALSE
  /\ offset = 0
  /\ next = 0
  /\ staged = <<>>
  /\ applied = -1
  /\ crashes = 0
  /\ failures = 0
  /\ gate = [r \in Readers |-> "idle"]
  /\ awaited = [r \in Readers |-> 0]

IsEvent(o) == log[o + 1] = "event"
IsVisible(o) == log[o + 1] # "invisible"
EventsIn(from, to) == {o \in from..(to - 1) : IsEvent(o)}
-----------------------------------------------------------------------------
(***************************************************************************)
(* A record becomes stable in the topic.                                   *)
(***************************************************************************)
Write(kind) ==
  /\ Len(log) < MaxLog
  /\ log' = Append(log, kind)
  /\ UNCHANGED <<dbVars, taskVars, faultVars, readerVars>>

(***************************************************************************)
(* A faulty variant: the topic is opened at its start on every boot.       *)
(***************************************************************************)
Open_FromStart ==
  /\ pc = "down"
  /\ pc' = "fetch"
  /\ polling' = FALSE
  /\ offset' = 0
  /\ applied' = cursor - 1
  /\ UNCHANGED <<log, dbVars, serving, next, staged, faultVars, readerVars>>

(***************************************************************************)
(* Projector::open, at the durable cursor.  The boot drain follows.        *)
(***************************************************************************)
Open ==
  /\ pc = "down"
  /\ pc' = "fetch"
  /\ polling' = FALSE
  /\ offset' = cursor
  /\ applied' = cursor - 1
  /\ UNCHANGED <<log, dbVars, serving, next, staged, faultVars, readerVars>>

(***************************************************************************)
(* An error leaves drain or run: the open transaction is rolled back.  In  *)
(* the boot drain it ends the process, later it ends the projector's task. *)
(***************************************************************************)
Stop ==
  /\ failures < MaxFailures
  /\ failures' = failures + 1
  /\ pc' = IF serving THEN "stopped" ELSE "down"
  /\ staged' = <<>>
  /\ UNCHANGED <<serving, polling, offset, next, applied, crashes, readerVars>>

(***************************************************************************)
(* A faulty variant: the tailer moves only past records it can see.        *)
(***************************************************************************)
NextBatch_MovesByVisible(n) ==
  /\ pc = "fetch"
  /\ next' = offset
  /\ \/ /\ \E o \in offset..(n - 1) : IsVisible(o)
        /\ pc' = "apply"
        /\ offset' = n
        /\ UNCHANGED <<serving, polling>>
     \/ /\ \A o \in offset..(n - 1) : ~IsVisible(o)
        /\ serving' = TRUE
        /\ polling' = ~polling
        /\ UNCHANGED <<pc, offset>>
  /\ UNCHANGED <<log, dbVars, staged, applied, faultVars, readerVars>>

(***************************************************************************)
(* Tailer::next_batch up to offset n, and what the loop does with it.  A   *)
(* batch without visible records moves the tailer all the same; drain      *)
(* records that in the cursor, the long poll of run does not.              *)
(***************************************************************************)
NextBatch(n) ==
  /\ pc = "fetch"
  /\ offset' = n
  /\ next' = offset
  /\ \/ /\ \E o \in offset..(n - 1) : IsVisible(o)
        /\ pc' = "apply"
        /\ UNCHANGED <<serving, polling>>
     \/ /\ n > offset
        /\ \A o \in offset..(n - 1) : ~IsVisible(o)
        /\ pc' = IF polling THEN "fetch" ELSE "skip"
        /\ polling' = FALSE
        /\ UNCHANGED serving
     \/ /\ n = offset
        /\ serving' = TRUE
        /\ polling' = ~polling
        /\ UNCHANGED pc
  /\ UNCHANGED <<log, dbVars, staged, applied, faultVars, readerVars>>

(***************************************************************************)
(* The broker answers with something as long as there is something.        *)
(***************************************************************************)
Fetch ==
  \E n \in offset..Len(log) :
    /\ n - offset <= MaxFetch
    /\ n = offset => offset = Len(log)
    /\ NextBatch(n)

FetchFails ==
  /\ pc = "fetch"
  /\ Stop
  /\ UNCHANGED <<log, dbVars>>

(***************************************************************************)
(* commit_cursor: only invisible records went by.                          *)
(***************************************************************************)
CommitCursor ==
  /\ pc = "skip"
  /\ cursor' = offset
  /\ pc' = "publish"
  /\ UNCHANGED <<log, rows, serving, polling, offset, next, staged, applied, faultVars, readerVars>>

(***************************************************************************)
(* It returns an error, whether or not the cursor had been stored.         *)
(***************************************************************************)
CommitCursorFails ==
  /\ pc = "skip"
  /\ cursor' \in {cursor, offset}
  /\ Stop
  /\ UNCHANGED <<log, rows>>

(***************************************************************************)
(* The next record the batch hands out.                                    *)
(***************************************************************************)
IsNext(o) == IsVisible(o) /\ \A b \in next..(o - 1) : ~IsVisible(b)

(***************************************************************************)
(* A faulty variant: an unrecognized record ends the batch.                *)
(***************************************************************************)
ApplyRecord_StopsAtForeign ==
  /\ pc = "apply"
  /\ \E o \in next..(offset - 1) :
       /\ IsNext(o)
       /\ next' = IF IsEvent(o) THEN o + 1 ELSE offset
       /\ staged' = IF IsEvent(o) THEN Append(staged, o) ELSE staged
  /\ UNCHANGED <<log, dbVars, pc, serving, polling, offset, applied, faultVars, readerVars>>

(***************************************************************************)
(* apply_record: inside the transaction; unrecognized records are skipped. *)
(***************************************************************************)
ApplyRecord ==
  /\ pc = "apply"
  /\ \E o \in next..(offset - 1) :
       /\ IsNext(o)
       /\ next' = o + 1
       /\ staged' = IF IsEvent(o) THEN Append(staged, o) ELSE staged
  /\ UNCHANGED <<log, dbVars, pc, serving, polling, offset, applied, faultVars, readerVars>>

(***************************************************************************)
(* BEGIN, applying a record, or moving the cursor fails.                   *)
(***************************************************************************)
ApplyFails ==
  /\ pc = "apply"
  /\ Stop
  /\ UNCHANGED <<log, dbVars>>

(***************************************************************************)
(* A faulty variant: the cursor is moved outside the transaction.          *)
(***************************************************************************)
SetAppliedOffset_OwnTransaction ==
  /\ pc = "apply"
  /\ \A o \in next..(offset - 1) : ~IsVisible(o)
  /\ pc' = "commit"
  /\ cursor' = offset
  /\ UNCHANGED <<log, rows, serving, polling, offset, next, staged, applied, faultVars, readerVars>>

(***************************************************************************)
(* set_applied_offset, in the transaction that holds the rows.             *)
(***************************************************************************)
SetAppliedOffset ==
  /\ pc = "apply"
  /\ \A o \in next..(offset - 1) : ~IsVisible(o)
  /\ pc' = "commit"
  /\ UNCHANGED <<log, dbVars, serving, polling, offset, next, staged, applied, faultVars, readerVars>>

(***************************************************************************)
(* COMMIT: the rows and the cursor become durable together.                *)
(***************************************************************************)
CommitRows ==
  /\ rows' = rows \o staged
  /\ cursor' = offset

Commit ==
  /\ pc = "commit"
  /\ CommitRows
  /\ pc' = "publish"
  /\ staged' = <<>>
  /\ UNCHANGED <<log, serving, polling, offset, next, applied, faultVars, readerVars>>

(***************************************************************************)
(* COMMIT returns an error, whether or not the database had committed.     *)
(***************************************************************************)
CommitFails ==
  /\ pc = "commit"
  /\ CommitRows \/ UNCHANGED dbVars
  /\ Stop
  /\ UNCHANGED log

(***************************************************************************)
(* publish_applied: the channel only ever moves forward.                   *)
(***************************************************************************)
Publish ==
  /\ pc = "publish"
  /\ pc' = "fetch"
  /\ polling' = FALSE
  /\ applied' = IF offset - 1 > applied THEN offset - 1 ELSE applied
  /\ UNCHANGED <<log, dbVars, serving, offset, next, staged, faultVars, readerVars>>

(***************************************************************************)
(* The process dies with its projector and its handlers; the database      *)
(* rolls the open transaction back.                                        *)
(***************************************************************************)
Crash ==
  /\ pc # "down"
  /\ crashes < MaxCrashes
  /\ crashes' = crashes + 1
  /\ pc' = "down"
  /\ serving' = FALSE
  /\ staged' = <<>>
  /\ gate' = [r \in Readers |-> IF gate[r] = "waiting" THEN "gone" ELSE gate[r]]
  /\ UNCHANGED <<log, dbVars, polling, offset, next, applied, failures, awaited>>
-----------------------------------------------------------------------------
(***************************************************************************)
(* A handler whose command committed the event at o starts to wait.        *)
(***************************************************************************)
AwaitProjection(r, o) ==
  /\ serving
  /\ gate[r] = "idle"
  /\ IsEvent(o)
  /\ gate' = [gate EXCEPT ![r] = "waiting"]
  /\ awaited' = [awaited EXCEPT ![r] = o]
  /\ UNCHANGED <<log, dbVars, taskVars, faultVars>>

(***************************************************************************)
(* A faulty variant: off by one in the comparison with the channel.        *)
(***************************************************************************)
GateOpens_OneEarly(r) ==
  /\ gate[r] = "waiting"
  /\ applied + 1 >= awaited[r]
  /\ gate' = [gate EXCEPT ![r] = "fresh"]
  /\ UNCHANGED <<log, dbVars, taskVars, faultVars, awaited>>

(***************************************************************************)
(* wait_for_offset returns true, and the handler reads.                    *)
(***************************************************************************)
GateOpens(r) ==
  /\ gate[r] = "waiting"
  /\ applied >= awaited[r]
  /\ gate' = [gate EXCEPT ![r] = "fresh"]
  /\ UNCHANGED <<log, dbVars, taskVars, faultVars, awaited>>

(***************************************************************************)
(* A faulty variant: without a budget, and deaf to the channel's end.      *)
(***************************************************************************)
GateTimesOut_Never(r) ==
  /\ gate[r] = "waiting"
  /\ applied < awaited[r]
  /\ pc \notin {"stopped", "fetch"}
  /\ gate' = [gate EXCEPT ![r] = "pending"]
  /\ UNCHANGED <<log, dbVars, taskVars, faultVars, awaited>>

(***************************************************************************)
(* wait_for_offset returns false: its budget ran out, or the projector's   *)
(* task is over and the channel is closed.  The client gets a 202.         *)
(***************************************************************************)
GateTimesOut(r) ==
  /\ gate[r] = "waiting"
  /\ applied < awaited[r]
  /\ gate' = [gate EXCEPT ![r] = "pending"]
  /\ UNCHANGED <<log, dbVars, taskVars, faultVars, awaited>>

(***************************************************************************)
(* The steps of the projector's own loop.                                  *)
(***************************************************************************)
Proceed ==
  \/ Fetch
  \/ CommitCursor
  \/ ApplyRecord
  \/ SetAppliedOffset
  \/ Commit
  \/ Publish

Fail ==
  \/ FetchFails
  \/ CommitCursorFails
  \/ ApplyFails
  \/ CommitFails

Next ==
  \/ \E kind \in Kinds : Write(kind)
  \/ Open
  \/ Proceed
  \/ Fail
  \/ Crash
  \/ \E r \in Readers :
       \/ \E o \in 0..(Len(log) - 1) : AwaitProjection(r, o)
       \/ GateOpens(r)
       \/ GateTimesOut(r)

Spec == Init /\ [][Next]_vars

(***************************************************************************)
(* The runtime polls the projector's task and the waiting handlers, timers *)
(* fire, and a process that is down is started again by whoever runs it.   *)
(* Nobody restarts a process that is up.                                   *)
(***************************************************************************)
Fairness ==
  /\ WF_vars(Open)
  /\ WF_vars(Proceed)
  /\ \A r \in Readers : WF_vars(GateOpens(r) \/ GateTimesOut(r))

LiveSpec == Spec /\ Fairness
-----------------------------------------------------------------------------
(***************************************************************************)
(* Properties                                                              *)
(***************************************************************************)

(***************************************************************************)
(* The effect is exactly-once although delivery is not: the rows hold      *)
(* every event below the cursor, once and in log order, and none above it, *)
(* wherever a batch failed or the process died.                            *)
(***************************************************************************)
Increasing(s) == \A i, j \in DOMAIN s : i < j => s[i] < s[j]

ExactlyOnce ==
  /\ Range(rows) = EventsIn(0, cursor)
  /\ Increasing(rows)

(***************************************************************************)
(* A handler that is let through the gate finds its own write, whatever    *)
(* the projector's process goes through before it reads.                   *)
(***************************************************************************)
ReadYourWrites ==
  \A r \in Readers : gate[r] = "fresh" => awaited[r] \in Range(rows)

(***************************************************************************)
(* The server starts to listen on a read model that holds every event the  *)
(* topic holds at that moment, so the first request does not race it.      *)
(***************************************************************************)
ServesCaughtUp ==
  [][~serving /\ serving' => EventsIn(0, Len(log)) \subseteq Range(rows)]_vars

(***************************************************************************)
(* Progress is never taken back: the rows only grow, and neither the       *)
(* cursor nor, while the process lives, the published offset goes back.    *)
(***************************************************************************)
NeverGoesBack ==
  [][ /\ cursor' >= cursor
      /\ \E more \in {SubSeq(rows', Len(rows) + 1, Len(rows'))} : rows' = rows \o more
      /\ pc # "down" => applied' >= applied ]_vars

(***************************************************************************)
(* The projector catches up with every event, unless an error or a crash   *)
(* ends it first.                                                          *)
(***************************************************************************)
Ended == pc \in {"down", "stopped"}

CatchesUp ==
  \A o \in 0..(MaxLog - 1) :
    (o < Len(log) /\ IsEvent(o) /\ ~Ended) ~> (o \in Range(rows) \/ Ended)

(***************************************************************************)
(* Every handler gets an answer: its own write, or "pending".              *)
(***************************************************************************)
GateAnswers == \A r \in Readers : gate[r] = "waiting" ~> gate[r] # "waiting"
-----------------------------------------------------------------------------
(***************************************************************************)
(* The inductive invariant behind the safety properties.                   *)
(***************************************************************************)

(***************************************************************************)
(* Where the tailer stands: between cursor and tailer there is no event    *)
(* while no batch is open, and exactly the staged events below next while  *)
(* one is.  Nothing is published before it is durable.                     *)
(***************************************************************************)
TailInv ==
  /\ cursor <= Len(log)
  /\ offset <= Len(log)
  /\ applied < cursor
  /\ pc \in {"fetch", "skip"} => cursor <= offset /\ EventsIn(cursor, offset) = {}
  /\ pc = "publish" => cursor = offset

BatchInv ==
  /\ pc = "apply" =>
       /\ cursor <= next /\ next <= offset
       /\ Range(staged) = EventsIn(cursor, next)
  /\ pc = "commit" =>
       /\ cursor <= offset
       /\ Range(staged) = EventsIn(cursor, offset)
  /\ pc \notin {"apply", "commit"} => staged = <<>>
  /\ Increasing(staged)

(***************************************************************************)
(* A handler waits for an event of the log.                                *)
(***************************************************************************)
GateInv ==
  \A r \in Readers : gate[r] # "idle" => awaited[r] < Len(log) /\ IsEvent(awaited[r])

IInv ==
  /\ TypeOK
  /\ TailInv
  /\ BatchInv
  /\ GateInv
  /\ ExactlyOnce
  /\ ReadYourWrites
=============================================================================
