------------------------------ MODULE Webhooks ------------------------------
(***************************************************************************)
(* Webhook delivery: the matcher of one domain topic turns every event     *)
(* into one delivery request per subscribed webhook, on a queue topic      *)
(* keyed by webhook; a worker per queue partition sends each request,      *)
(* records the attempt, retries in place, and parks what nobody takes on   *)
(* the dead-letter topic.                                                  *)
(*                                                                         *)
(* Matcher and workers are tasks of one process and share one fenced       *)
(* writer.  Each keeps a durable cursor that it moves after its batch, and *)
(* a tailer in memory that moves when the batch is fetched; a step that    *)
(* fails is logged and the next one fetches where the tailer stands.       *)
(*                                                                         *)
(* Offsets start at zero, so the record at offset o is events[o + 1].  An  *)
(* event is its offset, a delivery request is its identity, the webhook    *)
(* and the event (queue.rs, delivery_id).  Transaction markers are left    *)
(* out here: see Projector for how a tailer passes them.                   *)
(***************************************************************************)
EXTENDS Integers, Sequences, FiniteSets, Functions

CONSTANTS
  Hooks,        \* webhook ids, all of one repository and for every event type
  Partitions,   \* partitions of the delivery queue
  Home,         \* the partition the key of each webhook falls into
  MaxAttempts,  \* MAX_ATTEMPTS
  MaxEvents,    \* bound: records the domain topic receives
  MaxFetch,     \* bound: records one fetch returns
  MaxEdits,     \* bound: how often the configuration changes
  MaxRestarts,  \* bound: how often the process dies
  MaxFailures   \* bound: how often the broker or the database fails a call

ASSUME HooksAssumption == IsFiniteSet(Hooks)
ASSUME HomeAssumption == Home \in [Hooks -> Partitions]
ASSUME AttemptsAssumption == MaxAttempts \in Nat \ {0}
ASSUME FetchAssumption == MaxFetch \in Nat

VARIABLES
  \* The broker and the database.
  events,   \* the domain topic: "repo" for an event of the repository, "other"
  queue,    \* forge.webhooks.deliveries, by partition
  dlq,      \* forge.webhooks.dlq
  hooks,    \* the webhooks table
  history,  \* the webhook_deliveries table: delivery, attempt and status
  mcursor,  \* the matcher's durable cursor
  wcursor,  \* each worker's durable cursor
  \* The process.
  matcher,  \* where the matcher is, its tailer, what is left of its batch
  worker,   \* the same for each worker, with the attempt it is making
  fenced,   \* the latch of the shared writer
  \* The receivers.
  heard,    \* the events each has processed, without those it saw before
  \* What the bounds count, and what was matched.
  edits, restarts, failures,
  matched   \* events whose subscribers have all been queued a request

logVars   == <<events, queue, dlq>>
dbVars    == <<hooks, history, mcursor, wcursor>>
countVars == <<edits, restarts, failures>>
vars == <<logVars, dbVars, matcher, worker, fenced, heard, countVars, matched>>

Deliveries == [hook : Hooks, event : Nat]
Statuses   == {"delivered", "failed", "dead"}
Outcomes   == {"delivered", "retry", "permanent"}

TypeOK ==
  /\ events \in Seq({"repo", "other"})
  /\ queue \in [Partitions -> Seq(Deliveries)]
  /\ dlq \in Seq(Deliveries)
  /\ hooks \in [Hooks -> {"active", "disabled", "absent"}]
  /\ history \subseteq [delivery : Deliveries, attempt : 1..MaxAttempts, status : Statuses]
  /\ mcursor \in Nat
  /\ wcursor \in [Partitions -> Nat]
  /\ matcher \in [pc : {"fetch", "match"}, offset : Nat, todo : Seq(Nat)]
  /\ worker \in [Partitions ->
       [pc : {"fetch", "take", "send", "record", "bury", "backoff"}, offset : Nat,
        todo : Seq(Deliveries), attempt : 1..MaxAttempts, outcome : Outcomes]]
  /\ fenced \in BOOLEAN
  /\ heard \in [Hooks -> Seq(Nat)]
  /\ edits \in Nat /\ restarts \in Nat /\ failures \in Nat
  /\ matched \subseteq Nat

Idle == [pc |-> "fetch", offset |-> 0, todo |-> <<>>, attempt |-> 1, outcome |-> "retry"]

Init ==
  /\ events = <<>>
  /\ queue = [p \in Partitions |-> <<>>]
  /\ dlq = <<>>
  /\ hooks \in [Hooks -> {"active", "disabled", "absent"}]
  /\ history = {}
  /\ mcursor = 0
  /\ wcursor = [p \in Partitions |-> 0]
  /\ matcher = [pc |-> "fetch", offset |-> 0, todo |-> <<>>]
  /\ worker = [p \in Partitions |-> Idle]
  /\ fenced = FALSE
  /\ heard = [h \in Hooks |-> <<>>]
  /\ edits = 0 /\ restarts = 0 /\ failures = 0
  /\ matched = {}

(***************************************************************************)
(* A call to the broker or the database fails.                             *)
(***************************************************************************)
CallFails ==
  /\ failures < MaxFailures
  /\ failures' = failures + 1
  /\ UNCHANGED <<edits, restarts>>

(***************************************************************************)
(* Tailer::next_batch: some of what the topic holds past the tailer.       *)
(***************************************************************************)
Batch(topic, offset, n) ==
  /\ n \in 1..MaxFetch
  /\ offset + n <= Len(topic)
-----------------------------------------------------------------------------
(***************************************************************************)
(* The command service commits an event.                                   *)
(***************************************************************************)
Emit(kind) ==
  /\ Len(events) < MaxEvents
  /\ events' = Append(events, kind)
  /\ UNCHANGED <<queue, dlq, dbVars, matcher, worker, fenced, heard, countVars, matched>>

(***************************************************************************)
(* HookStore::upsert and delete.                                           *)
(***************************************************************************)
Configure(h, state) ==
  /\ edits < MaxEdits
  /\ hooks[h] # state
  /\ hooks' = [hooks EXCEPT ![h] = state]
  /\ edits' = edits + 1
  /\ UNCHANGED <<logVars, history, mcursor, wcursor, matcher, worker, fenced, heard,
                 restarts, failures, matched>>

(***************************************************************************)
(* The process dies and is started again: the tailers open at the durable  *)
(* cursors, and a new writer takes the place of the old one.               *)
(***************************************************************************)
Restart ==
  /\ restarts < MaxRestarts
  /\ restarts' = restarts + 1
  /\ matcher' = [pc |-> "fetch", offset |-> mcursor, todo |-> <<>>]
  /\ worker' = [p \in Partitions |-> [Idle EXCEPT !.offset = wcursor[p]]]
  /\ fenced' = FALSE
  /\ UNCHANGED <<logVars, dbVars, heard, edits, failures, matched>>
-----------------------------------------------------------------------------
(***************************************************************************)
(* A faulty variant: the cursor moves with the fetch.                      *)
(***************************************************************************)
MatchFetch_CursorFirst(n) ==
  /\ matcher.pc = "fetch"
  /\ Batch(events, matcher.offset, n)
  /\ matcher' = [pc |-> "match", offset |-> matcher.offset + n,
                 todo |-> [i \in 1..n |-> matcher.offset + i - 1]]
  /\ mcursor' = matcher.offset + n
  /\ UNCHANGED <<logVars, hooks, history, wcursor, worker, fenced, heard, countVars, matched>>

(***************************************************************************)
(* Matcher::step fetches a batch; the tailer is past it from here on.      *)
(***************************************************************************)
MatchFetch(n) ==
  /\ matcher.pc = "fetch"
  /\ Batch(events, matcher.offset, n)
  /\ matcher' = [pc |-> "match", offset |-> matcher.offset + n,
                 todo |-> [i \in 1..n |-> matcher.offset + i - 1]]
  /\ UNCHANGED <<logVars, dbVars, worker, fenced, heard, countVars, matched>>

(***************************************************************************)
(* The webhooks that want an event: the configured and active ones.        *)
(***************************************************************************)
Wanting(o) == {h \in Hooks : events[o + 1] = "repo" /\ hooks[h] = "active"}

(***************************************************************************)
(* fan_out: one request per webhook, in one transaction.  The requests of  *)
(* one partition land in the order the database listed the webhooks in.    *)
(***************************************************************************)
Listings(S) == {listing \in [1..Cardinality(S) -> S] : Range(listing) = S}

WantingIn(p, o) == {h \in Wanting(o) : Home[h] = p}

FanOut ==
  LET o == Head(matcher.todo) IN
  /\ matcher.pc = "match"
  /\ matcher.todo # <<>>
  /\ fenced => Wanting(o) = {}
  /\ \E listed \in [Partitions -> UNION {Listings(WantingIn(p, o)) : p \in Partitions}] :
       /\ \A p \in Partitions : listed[p] \in Listings(WantingIn(p, o))
       /\ queue' = [p \in Partitions |->
            queue[p] \o [i \in DOMAIN listed[p] |-> [hook |-> listed[p][i], event |-> o]]]
  /\ matched' = matched \cup {o}
  /\ matcher' = [matcher EXCEPT !.todo = Tail(@)]
  /\ UNCHANGED <<events, dlq, dbVars, worker, fenced, heard, countVars>>

(***************************************************************************)
(* The step returns an error and run goes on to the next one.              *)
(***************************************************************************)
MatchGivesUp == matcher' = [matcher EXCEPT !.pc = "fetch", !.todo = <<>>]

(***************************************************************************)
(* Reading the webhooks fails, or the transaction does: the writer may     *)
(* latch, and once latched it refuses without asking the broker.           *)
(***************************************************************************)
FanOutFails ==
  /\ matcher.pc = "match"
  /\ matcher.todo # <<>>
  /\ \/ CallFails /\ fenced' \in {fenced, TRUE}
     \/ fenced /\ Wanting(Head(matcher.todo)) # {} /\ UNCHANGED <<fenced, countVars>>
  /\ MatchGivesUp
  /\ UNCHANGED <<logVars, dbVars, worker, heard, matched>>

(***************************************************************************)
(* The cursor follows the batch.                                           *)
(***************************************************************************)
MatchCursor ==
  /\ matcher.pc = "match"
  /\ matcher.todo = <<>>
  /\ mcursor' = matcher.offset
  /\ matcher' = [matcher EXCEPT !.pc = "fetch"]
  /\ UNCHANGED <<logVars, hooks, history, wcursor, worker, fenced, heard, countVars, matched>>

MatchCursorFails ==
  /\ matcher.pc = "match"
  /\ matcher.todo = <<>>
  /\ CallFails
  /\ MatchGivesUp
  /\ UNCHANGED <<logVars, dbVars, worker, fenced, heard, matched>>
-----------------------------------------------------------------------------
WorkerGoes(p, w) == worker' = [worker EXCEPT ![p] = w]

(***************************************************************************)
(* Worker::step fetches a batch of its partition.                          *)
(***************************************************************************)
WorkerFetch(p, n) ==
  /\ worker[p].pc = "fetch"
  /\ Batch(queue[p], worker[p].offset, n)
  /\ WorkerGoes(p, [worker[p] EXCEPT !.pc = "take", !.offset = @ + n,
       !.todo = SubSeq(queue[p], worker[p].offset + 1, worker[p].offset + n)])
  /\ UNCHANGED <<logVars, dbVars, matcher, fenced, heard, countVars, matched>>

Request(p) == Head(worker[p].todo)

(***************************************************************************)
(* deliver_with_retries looks the webhook up once; a request for one that  *)
(* is gone or disabled is dropped.                                         *)
(***************************************************************************)
TakeUp(p) ==
  /\ worker[p].pc = "take"
  /\ worker[p].todo # <<>>
  /\ IF hooks[Request(p).hook] = "active"
     THEN WorkerGoes(p, [worker[p] EXCEPT !.pc = "send", !.attempt = 1])
     ELSE WorkerGoes(p, [worker[p] EXCEPT !.todo = Tail(@)])
  /\ UNCHANGED <<logVars, dbVars, matcher, fenced, heard, countVars, matched>>

(***************************************************************************)
(* Deliverer::send.  A receiver that answers 2xx has processed the event;  *)
(* one that times out, or fails afterwards, may have.                      *)
(***************************************************************************)
Send(p, outcome) ==
  /\ worker[p].pc = "send"
  /\ LET h == Request(p).hook
         o == Request(p).event
         processed == IF o \in Range(heard[h]) THEN heard
                      ELSE [heard EXCEPT ![h] = Append(@, o)]
     IN  CASE outcome = "delivered" -> heard' = processed
           [] outcome = "retry"     -> heard' \in {heard, processed}
           [] outcome = "permanent" -> heard' = heard
  /\ WorkerGoes(p, [worker[p] EXCEPT !.pc = "record", !.outcome = outcome])
  /\ UNCHANGED <<logVars, dbVars, matcher, fenced, countVars, matched>>

(***************************************************************************)
(* DeliveryOutcome: whether a failed attempt is the last one.              *)
(***************************************************************************)
GivesUp(outcome, attempt) ==
  outcome = "permanent" \/ (outcome = "retry" /\ attempt >= MaxAttempts)

StatusWord(outcome, attempt) ==
  CASE outcome = "delivered"     -> "delivered"
    [] GivesUp(outcome, attempt) -> "dead"
    [] OTHER                     -> "failed"

(***************************************************************************)
(* What the worker does once the attempt is recorded.                      *)
(***************************************************************************)
AfterAttempt(p) ==
  LET w == worker[p] IN
  CASE w.outcome = "delivered" -> WorkerGoes(p, [w EXCEPT !.pc = "take", !.todo = Tail(@)])
    [] GivesUp(w.outcome, w.attempt) -> WorkerGoes(p, [w EXCEPT !.pc = "bury"])
    [] OTHER -> WorkerGoes(p, [w EXCEPT !.pc = "backoff"])

Row(p) == [delivery |-> Request(p), attempt |-> worker[p].attempt,
           status |-> StatusWord(worker[p].outcome, worker[p].attempt)]

SameKey(r, s) == r.delivery = s.delivery /\ r.attempt = s.attempt

WorkerGivesUp(p) == WorkerGoes(p, [worker[p] EXCEPT !.pc = "fetch", !.todo = <<>>])

(***************************************************************************)
(* A faulty variant: the row of an earlier attempt is written over.        *)
(***************************************************************************)
Record_Upsert(p) ==
  /\ worker[p].pc = "record"
  /\ history' = {r \in history : ~SameKey(r, Row(p))} \cup {Row(p)}
  /\ AfterAttempt(p)
  /\ UNCHANGED <<logVars, hooks, mcursor, wcursor, matcher, fenced, heard, countVars, matched>>

(***************************************************************************)
(* record: a plain INSERT under the primary key of delivery and attempt,   *)
(* so an attempt that was recorded before the process died is an error.    *)
(***************************************************************************)
Record(p) ==
  /\ worker[p].pc = "record"
  /\ IF \E r \in history : SameKey(r, Row(p))
     THEN history' = history /\ WorkerGivesUp(p)
     ELSE history' = history \cup {Row(p)} /\ AfterAttempt(p)
  /\ UNCHANGED <<logVars, hooks, mcursor, wcursor, matcher, fenced, heard, countVars, matched>>

(***************************************************************************)
(* dead_letter, through the shared writer.                                 *)
(***************************************************************************)
Bury(p) ==
  /\ worker[p].pc = "bury"
  /\ ~fenced
  /\ dlq' = Append(dlq, Request(p))
  /\ WorkerGoes(p, [worker[p] EXCEPT !.pc = "take", !.todo = Tail(@)])
  /\ UNCHANGED <<events, queue, dbVars, matcher, fenced, heard, countVars, matched>>

BuryFails(p) ==
  /\ worker[p].pc = "bury"
  /\ \/ CallFails /\ fenced' \in {fenced, TRUE}
     \/ fenced /\ UNCHANGED <<fenced, countVars>>
  /\ WorkerGivesUp(p)
  /\ UNCHANGED <<logVars, dbVars, matcher, heard, matched>>

(***************************************************************************)
(* A faulty variant: a retry goes to the end of what is left.              *)
(***************************************************************************)
Backoff_Requeue(p) ==
  /\ worker[p].pc = "backoff"
  /\ WorkerGoes(p, [worker[p] EXCEPT !.pc = "take", !.todo = Append(Tail(@), Head(@))])
  /\ UNCHANGED <<logVars, dbVars, matcher, fenced, heard, countVars, matched>>

(***************************************************************************)
(* A faulty variant: the attempt is not counted.                           *)
(***************************************************************************)
Backoff_SameAttempt(p) ==
  /\ worker[p].pc = "backoff"
  /\ WorkerGoes(p, [worker[p] EXCEPT !.pc = "send"])
  /\ UNCHANGED <<logVars, dbVars, matcher, fenced, heard, countVars, matched>>

(***************************************************************************)
(* The backoff is over: the same request again, in place.                  *)
(***************************************************************************)
Backoff(p) ==
  /\ worker[p].pc = "backoff"
  /\ WorkerGoes(p, [worker[p] EXCEPT !.pc = "send", !.attempt = @ + 1])
  /\ UNCHANGED <<logVars, dbVars, matcher, fenced, heard, countVars, matched>>

WorkerCursor(p) ==
  /\ worker[p].pc = "take"
  /\ worker[p].todo = <<>>
  /\ wcursor' = [wcursor EXCEPT ![p] = worker[p].offset]
  /\ WorkerGoes(p, [worker[p] EXCEPT !.pc = "fetch"])
  /\ UNCHANGED <<logVars, hooks, history, mcursor, matcher, fenced, heard, countVars, matched>>

(***************************************************************************)
(* Looking the webhook up, recording the attempt or moving the cursor      *)
(* fails.                                                                  *)
(***************************************************************************)
WorkerFails(p) ==
  /\ worker[p].pc \in {"take", "record"}
  /\ CallFails
  /\ WorkerGivesUp(p)
  /\ UNCHANGED <<logVars, dbVars, matcher, fenced, heard, matched>>
-----------------------------------------------------------------------------
MatcherStep == (\E n \in 1..MaxFetch : MatchFetch(n)) \/ FanOut \/ MatchCursor

WorkerStep(p) ==
  \/ \E n \in 1..MaxFetch : WorkerFetch(p, n)
  \/ TakeUp(p)
  \/ \E outcome \in Outcomes : Send(p, outcome)
  \/ Record(p)
  \/ Bury(p)
  \/ Backoff(p)
  \/ WorkerCursor(p)

Next ==
  \/ \E kind \in {"repo", "other"} : Emit(kind)
  \/ \E h \in Hooks, state \in {"active", "disabled", "absent"} : Configure(h, state)
  \/ Restart
  \/ MatcherStep
  \/ FanOutFails
  \/ MatchCursorFails
  \/ \E p \in Partitions :
       \/ WorkerStep(p)
       \/ BuryFails(p)
       \/ WorkerFails(p)

Spec == Init /\ [][Next]_vars

(***************************************************************************)
(* The runtime polls every task, and requests and backoffs end: both have  *)
(* a time limit.                                                           *)
(***************************************************************************)
Fairness ==
  /\ WF_vars(MatcherStep)
  /\ \A p \in Partitions : WF_vars(WorkerStep(p))

LiveSpec == Spec /\ Fairness
-----------------------------------------------------------------------------
(***************************************************************************)
(* Properties                                                              *)
(***************************************************************************)

(***************************************************************************)
(* The matcher is at-least-once: no event below its durable cursor has     *)
(* gone unmatched.  The module comment of matcher.rs promises it, and its  *)
(* retry loop claims it for a failed step as well.                         *)
(***************************************************************************)
MatchesEverything == \A o \in 0..(mcursor - 1) : o \in matched

(***************************************************************************)
(* As far as only the process dies, at whatever point of the matcher's     *)
(* step, the claim is right.                                               *)
(***************************************************************************)
RestartsLoseNothing == failures = 0 => MatchesEverything

(***************************************************************************)
(* A receiver hears the events of its webhook in the order of the log:     *)
(* what keying the queue by webhook and retrying in place are for.  Events *)
(* that failed calls lose leave gaps; only a restart, whose replay may     *)
(* bring an event that was lost or parked before, breaks the order.        *)
(***************************************************************************)
InOrder ==
  restarts = 0 =>
    \A h \in Hooks : \A i, j \in DOMAIN heard[h] : i < j => heard[h][i] < heard[h][j]

(***************************************************************************)
(* The history of a delivery is the story of one ladder of attempts: its   *)
(* attempts are numbered without gaps, only the last can be final, and     *)
(* "delivered" is only written of an event the receiver has processed.     *)
(* It holds through restarts, replays of the queue and failed calls.       *)
(***************************************************************************)
HistoryIsOneLadder ==
  \A r \in history :
    /\ r.attempt > 1 =>
         \E s \in history :
           s.delivery = r.delivery /\ s.attempt = r.attempt - 1 /\ s.status = "failed"
    /\ r.status # "failed" =>
         \A s \in history : s.delivery = r.delivery => s.attempt <= r.attempt
    /\ r.status = "delivered" => r.delivery.event \in Range(heard[r.delivery.hook])

(***************************************************************************)
(* A delivery is parked at most once, however often its request is         *)
(* replayed, and never without a row that tells the maintainer so.         *)
(***************************************************************************)
DeadLettersOnce ==
  /\ \A i, j \in DOMAIN dlq : dlq[i] = dlq[j] => i = j
  /\ \A i \in DOMAIN dlq :
       \E r \in history : r.delivery = dlq[i] /\ r.status = "dead"

(***************************************************************************)
(* Every event reaches every active webhook, or is parked, or the webhook  *)
(* is switched off.                                                        *)
(***************************************************************************)
EventuallySettled ==
  \A o \in 0..(MaxEvents - 1), h \in Hooks :
    (o < Len(events) /\ events[o + 1] = "repo" /\ hooks[h] = "active")
      ~> (\/ o \in Range(heard[h])
          \/ [hook |-> h, event |-> o] \in Range(dlq)
          \/ hooks[h] # "active")
=============================================================================
