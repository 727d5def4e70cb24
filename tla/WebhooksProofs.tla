---------------------------- MODULE WebhooksProofs --------------------------
(***************************************************************************)
(* Proofs about webhook delivery, for any webhooks and partitions, any     *)
(* number of attempts, events, edits, restarts and failures.               *)
(***************************************************************************)
EXTENDS Webhooks, FiniteSetTheorems, TLAPS

-----------------------------------------------------------------------------
(***************************************************************************)
(* The inductive invariant                                                 *)
(***************************************************************************)

\* How far the matcher has matched, and how far a worker has worked.
Ahead == matcher.offset - Len(matcher.todo)
At(p) == worker[p].offset - Len(worker[p].todo)

\* What is left of the matcher's batch are the events up to its tailer.
Following ==
  /\ Len(matcher.todo) <= matcher.offset
  /\ \A i \in 1..Len(matcher.todo) : matcher.todo[i] = Ahead + i - 1
  /\ matcher.pc = "fetch" => matcher.todo = <<>>

\* What is left of a worker's batch are the requests of its partition up to its
\* tailer, and a request is only made of what is left.
WorksOn(w, requests) ==
  /\ Len(w.todo) <= w.offset /\ w.offset <= Len(requests)
  /\ \A i \in 1..Len(w.todo) : w.todo[i] = requests[w.offset - Len(w.todo) + i]
  /\ w.pc = "fetch" => w.todo = <<>>
  /\ w.pc \in {"send", "record", "bury", "backoff"} => w.todo # <<>>
  /\ w.pc = "backoff" => w.attempt < MaxAttempts

Working ==
  \A p \in Partitions : WorksOn(worker[p], queue[p]) /\ wcursor[p] <= Len(queue[p])

\* A request is in the partition of its webhook, so that one worker has to do
\* with a delivery.
Routed == \A p \in Partitions : \A k \in 1..Len(queue[p]) : Home[queue[p][k].hook] = p

\* As long as no call fails, the matcher leaves no event behind.
NothingSkipped ==
  failures = 0 =>
    /\ ~fenced
    /\ \A o \in Nat : o < mcursor \/ o < Ahead => o \in matched

Has(d, attempt, status) ==
  \E r \in history : r.delivery = d /\ r.attempt = attempt /\ r.status = status

UpTo(d, attempt) == \A r \in history : r.delivery = d => r.attempt <= attempt

\* The rows of a delivery are its attempts from the first on, each once.
Ladder ==
  /\ \A r, s \in history : SameKey(r, s) => r = s
  /\ \A r \in history : \A a \in 1..r.attempt : \E s \in history : s.delivery = r.delivery /\ s.attempt = a
  /\ HistoryIsOneLadder

\* Where a worker is with its request, and what has been written of it by then.
Rung(p) ==
  LET w == worker[p]
      d == Request(p)
  IN  /\ w.pc \in {"send", "record"} /\ w.attempt > 1 =>
           Has(d, w.attempt - 1, "failed") /\ UpTo(d, w.attempt - 1)
      /\ w.pc = "record" /\ w.outcome = "delivered" => d.event \in Range(heard[d.hook])
      /\ w.pc = "backoff" => Has(d, w.attempt, "failed") /\ UpTo(d, w.attempt)
      /\ w.pc = "bury" => Has(d, w.attempt, "dead") /\ \A i \in DOMAIN dlq : dlq[i] # d

Climbing == \A p \in Partitions : Rung(p)

\* The requests of a webhook are queued in the order of their events, and none
\* is of an event that the matcher has yet to match.
QueuedInOrder ==
  \A p \in Partitions :
    /\ \A i, j \in 1..Len(queue[p]) :
         i < j /\ queue[p][i].hook = queue[p][j].hook => queue[p][i].event < queue[p][j].event
    /\ \A k \in 1..Len(queue[p]) : queue[p][k].event < Ahead

\* A receiver has heard in order, and of nothing later than what its worker has
\* left to do.
HeardInOrder ==
  \A h \in Hooks :
    /\ \A i, j \in DOMAIN heard[h] : i < j => heard[h][i] < heard[h][j]
    /\ \A i \in DOMAIN heard[h] : heard[h][i] < Ahead
    /\ \A i \in DOMAIN heard[h] : \A k \in 1..Len(queue[Home[h]]) :
         k > At(Home[h]) /\ queue[Home[h]][k].hook = h => heard[h][i] <= queue[Home[h]][k].event

Ordered == restarts = 0 => QueuedInOrder /\ HeardInOrder

IInv ==
  /\ TypeOK /\ Following /\ Working /\ Routed
  /\ NothingSkipped /\ Ladder /\ Climbing /\ DeadLettersOnce /\ Ordered

-----------------------------------------------------------------------------
(***************************************************************************)
(* Sequences                                                               *)
(***************************************************************************)

\* What is left after the first.
LEMMA Rest ==
  ASSUME NEW S, NEW s \in Seq(S), s # <<>>
  PROVE  /\ Len(s) \in Nat /\ Len(s) > 0 /\ Head(s) = s[1] /\ Head(s) \in S
         /\ Tail(s) \in Seq(S) /\ Len(Tail(s)) = Len(s) - 1
         /\ \A i \in 1..Len(s) - 1 : Tail(s)[i] = s[i + 1]
OBVIOUS

\* A batch of a topic.
LEMMA Stretch ==
  ASSUME NEW S, NEW s \in Seq(S), NEW o \in Nat, NEW n \in Nat, o + n <= Len(s)
  PROVE  /\ SubSeq(s, o + 1, o + n) \in Seq(S) /\ Len(SubSeq(s, o + 1, o + n)) = n
         /\ \A i \in 1..n : SubSeq(s, o + 1, o + n)[i] = s[o + i]
OBVIOUS

\* What a transaction adds.
LEMMA Longer ==
  ASSUME NEW S, NEW s \in Seq(S), NEW t \in Seq(S)
  PROVE  /\ s \o t \in Seq(S) /\ Len(s) \in Nat /\ Len(t) \in Nat /\ Len(s \o t) = Len(s) + Len(t)
         /\ \A i \in 1..Len(s) : (s \o t)[i] = s[i]
         /\ \A i \in 1..Len(t) : (s \o t)[Len(s) + i] = t[i]
OBVIOUS

-----------------------------------------------------------------------------
(***************************************************************************)
(* Types                                                                   *)
(***************************************************************************)
MatcherType == [pc : {"fetch", "match"}, offset : Nat, todo : Seq(Nat)]
WorkerType ==
  [pc : {"fetch", "take", "send", "record", "bury", "backoff"}, offset : Nat,
   todo : Seq(Deliveries), attempt : 1..MaxAttempts, outcome : Outcomes]

\* The request that fan_out adds for one event, in the order of the database.
Adds(p, o, added) ==
  /\ added \in Seq(Deliveries)
  /\ \A i \in 1..Len(added) : added[i].event = o /\ Home[added[i].hook] = p
  /\ \A i, j \in 1..Len(added) : added[i].hook = added[j].hook => i = j

\* A listing names each webhook once.
LEMMA ListingNamesOnce ==
  ASSUME NEW S, IsFiniteSet(S), NEW f \in Listings(S)
  PROVE  /\ DOMAIN f = 1..Cardinality(S) /\ \A i \in DOMAIN f : f[i] \in S
         /\ \A i, j \in DOMAIN f : f[i] = f[j] => i = j
<1>1. f \in [1..Cardinality(S) -> S] /\ Range(f) = S /\ Cardinality(S) \in Nat
  BY FS_CardinalityType DEF Listings
<1>2. f \in Surjection(1..Cardinality(S), S)
  BY <1>1 DEF Surjection, Range
<1>3. IsFiniteSet(1..Cardinality(S)) /\ Cardinality(1..Cardinality(S)) = Cardinality(S)
  BY <1>1, FS_Interval
<1>4. f \in Injection(1..Cardinality(S), S)
  BY <1>1, <1>2, <1>3, FS_SurjSameCardinalityImpliesInj
<1> QED BY <1>1, <1>4 DEF Injection, IsInjective

\* What fan_out puts into the queue.
LEMMA FanOutAdds ==
  ASSUME TypeOK, FanOut
  PROVE  LET o == Head(matcher.todo)
         IN  /\ o \in Nat /\ matcher.todo # <<>>
             /\ \A p \in Partitions : \E added : queue'[p] = queue[p] \o added /\ Adds(p, o, added)
             /\ queue' \in [Partitions -> Seq(Deliveries)]
<1> DEFINE o == Head(matcher.todo)
<1>1. o \in Nat /\ matcher.todo # <<>>
  BY Rest DEF TypeOK, FanOut
<1>2. PICK listed :
        /\ \A p \in Partitions : listed[p] \in Listings(WantingIn(p, o))
        /\ queue' = [p \in Partitions |->
             queue[p] \o [i \in DOMAIN listed[p] |-> [hook |-> listed[p][i], event |-> o]]]
  BY DEF FanOut
<1> HIDE DEF o
<1>3. ASSUME NEW p \in Partitions
      PROVE  Adds(p, o, [i \in DOMAIN listed[p] |-> [hook |-> listed[p][i], event |-> o]])
  <2> DEFINE S == WantingIn(p, o)
             f == listed[p]
             added == [i \in DOMAIN f |-> [hook |-> f[i], event |-> o]]
  <2>1. S \subseteq Hooks /\ \A h \in S : Home[h] = p
    BY DEF WantingIn, Wanting
  <2>2. IsFiniteSet(S) /\ Cardinality(S) \in Nat
    BY <2>1, HooksAssumption, FS_Subset, FS_CardinalityType
  <2>3. /\ DOMAIN f = 1..Cardinality(S) /\ \A i \in DOMAIN f : f[i] \in S
        /\ \A i, j \in DOMAIN f : f[i] = f[j] => i = j
    BY <1>2, <2>2, ListingNamesOnce
  <2> HIDE DEF S, f
  <2>4. \A i \in DOMAIN f : [hook |-> f[i], event |-> o] \in Deliveries
    BY <1>1, <2>1, <2>3 DEF Deliveries
  <2>5. added \in Seq(Deliveries) /\ Len(added) = Cardinality(S)
    BY <2>2, <2>3, <2>4
  <2>6. \A i \in 1..Len(added) : added[i].event = o /\ added[i].hook = f[i]
    BY <2>2, <2>3, <2>5
  <2>7. Adds(p, o, added)
    <3> HIDE DEF added
    <3> QED BY <2>1, <2>2, <2>3, <2>5, <2>6 DEF Adds
  <2> QED BY <2>7 DEF f
<1>4. \A p \in Partitions : \E added : queue'[p] = queue[p] \o added /\ Adds(p, o, added)
  BY <1>2, <1>3
<1>5. ASSUME NEW p \in Partitions
      PROVE  queue'[p] \in Seq(Deliveries)
  <2>1. PICK added : queue'[p] = queue[p] \o added /\ Adds(p, o, added)
    BY <1>4
  <2>2. added \in Seq(Deliveries) /\ queue[p] \in Seq(Deliveries)
    BY <2>1 DEF Adds, TypeOK
  <2> QED BY <2>1, <2>2, Longer
<1> QED BY <1>1, <1>2, <1>4, <1>5 DEF o

LEMMA MatcherTypes ==
  ASSUME TypeOK, NEW n \in 1..MaxFetch, MatchFetch(n)
  PROVE  matcher' \in MatcherType
<1>1. n \in Nat /\ matcher.offset \in Nat
  BY FetchAssumption DEF TypeOK
<1>2. [i \in 1..n |-> matcher.offset + i - 1] \in Seq(Nat)
  BY <1>1
<1> QED BY <1>1, <1>2 DEF MatchFetch, MatcherType

\* A step of one worker.
LEMMA OneWorker ==
  ASSUME NEW T, worker \in [Partitions -> T], NEW p \in Partitions, NEW w \in T,
         worker' = [worker EXCEPT ![p] = w]
  PROVE  /\ worker' \in [Partitions -> T] /\ worker'[p] = w
         /\ \A q \in Partitions \ {p} : worker'[q] = worker[q]
OBVIOUS

\* What the fields of a worker can be set to.
LEMMA Fields ==
  ASSUME NEW w \in WorkerType, NEW pc \in {"fetch", "take", "send", "record", "bury", "backoff"}
  PROVE  /\ [w EXCEPT !.pc = pc] \in WorkerType
         /\ \A t \in Seq(Deliveries) : [w EXCEPT !.pc = pc, !.todo = t] \in WorkerType
         /\ \A t \in Seq(Deliveries) : [w EXCEPT !.todo = t] \in WorkerType
         /\ \A t \in Seq(Deliveries), o \in Nat : [w EXCEPT !.pc = pc, !.offset = o, !.todo = t] \in WorkerType
         /\ \A a \in 1..MaxAttempts : [w EXCEPT !.pc = pc, !.attempt = a] \in WorkerType
         /\ \A x \in Outcomes : [w EXCEPT !.pc = pc, !.outcome = x] \in WorkerType
BY ZenonT(30) DEF WorkerType
\* A worker's step is one of these, and leaves the other workers alone.
Step(p, w) ==
  LET v == worker[p]
  IN  \/ /\ v.pc = "fetch"
         /\ \E n \in Nat : /\ v.offset + n <= Len(queue[p])
                           /\ w = [v EXCEPT !.pc = "take", !.offset = @ + n,
                                    !.todo = SubSeq(queue[p], v.offset + 1, v.offset + n)]
      \/ v.pc = "take" /\ v.todo # <<>> /\ w = [v EXCEPT !.pc = "send", !.attempt = 1]
      \/ v.pc = "take" /\ v.todo # <<>> /\ w = [v EXCEPT !.todo = Tail(@)]
      \/ /\ v.pc = "send"
         /\ \E outcome \in Outcomes : w = [v EXCEPT !.pc = "record", !.outcome = outcome]
      \/ v.pc = "record" /\ v.outcome = "delivered" /\ w = [v EXCEPT !.pc = "take", !.todo = Tail(@)]
      \/ v.pc = "record" /\ GivesUp(v.outcome, v.attempt) /\ w = [v EXCEPT !.pc = "bury"]
      \/ v.pc = "record" /\ v.attempt < MaxAttempts /\ w = [v EXCEPT !.pc = "backoff"]
      \/ v.pc = "bury" /\ w = [v EXCEPT !.pc = "take", !.todo = Tail(@)]
      \/ v.pc = "backoff" /\ w = [v EXCEPT !.pc = "send", !.attempt = @ + 1]
      \/ v.pc = "take" /\ v.todo = <<>> /\ w = [v EXCEPT !.pc = "fetch"]
      \/ w = [v EXCEPT !.pc = "fetch", !.todo = <<>>]

LEMMA WorkerSteps ==
  ASSUME TypeOK, Working, NEW p \in Partitions, WorkerStep(p) \/ BuryFails(p) \/ WorkerFails(p)
  PROVE  \E w : Step(p, w) /\ worker' = [worker EXCEPT ![p] = w]
<1> DEFINE Goal == \E w : Step(p, w) /\ worker' = [worker EXCEPT ![p] = w]
<1> USE DEF Step
<1>1. ASSUME NEW n \in 1..MaxFetch, WorkerFetch(p, n)
      PROVE  Goal
  <2> DEFINE w == [worker[p] EXCEPT !.pc = "take", !.offset = @ + n,
                     !.todo = SubSeq(queue[p], worker[p].offset + 1, worker[p].offset + n)]
  <2>1. n \in Nat
    BY FetchAssumption
  <2>2. Step(p, w)
    BY <1>1, <2>1 DEF WorkerFetch, Batch, WorkerGoes
  <2>3. worker' = [worker EXCEPT ![p] = w]
    BY <1>1 DEF WorkerFetch, WorkerGoes
  <2> QED BY <2>2, <2>3
<1>2. CASE TakeUp(p)
  BY <1>2 DEF TakeUp, WorkerGoes
<1>3. ASSUME NEW outcome \in Outcomes, Send(p, outcome)
      PROVE  Goal
  BY <1>3 DEF Send, WorkerGoes
<1>g. CASE WorkerGivesUp(p)
  BY <1>g DEF WorkerGivesUp, WorkerGoes
<1>4. CASE Record(p)
  <2>1. CASE WorkerGivesUp(p)
    BY <1>g, <2>1, ZenonT(30)
  <2>2. CASE AfterAttempt(p)
    <3>1. worker[p].pc = "record" /\ worker[p].attempt \in Nat /\ worker[p].outcome \in Outcomes
      BY <1>4 DEF Record, TypeOK
    <3>2. CASE worker[p].outcome = "delivered"
      BY <2>2, <3>1, <3>2 DEF AfterAttempt, WorkerGoes
    <3>3. CASE worker[p].outcome # "delivered" /\ GivesUp(worker[p].outcome, worker[p].attempt)
      BY <2>2, <3>1, <3>3 DEF AfterAttempt, WorkerGoes
    <3>4. CASE worker[p].outcome # "delivered" /\ ~GivesUp(worker[p].outcome, worker[p].attempt)
      <4>1. worker[p].attempt < MaxAttempts
        BY <3>1, <3>4, AttemptsAssumption DEF GivesUp, Outcomes
      <4>2. worker' = [worker EXCEPT ![p] = [worker[p] EXCEPT !.pc = "backoff"]]
        BY <2>2, <3>4 DEF AfterAttempt, WorkerGoes
      <4> QED BY <3>1, <4>1, <4>2
    <3> QED BY <3>2, <3>3, <3>4
  <2> QED BY <1>4, <2>1, <2>2 DEF Record
<1>5. CASE Bury(p)
  BY <1>5 DEF Bury, WorkerGoes
<1>6. CASE Backoff(p)
  BY <1>6 DEF Backoff, WorkerGoes
<1>7. CASE WorkerCursor(p)
  BY <1>7 DEF WorkerCursor, WorkerGoes
<1>8. CASE BuryFails(p) \/ WorkerFails(p)
  BY <1>g, <1>8 DEF BuryFails, WorkerFails
<1> QED BY <1>1, <1>2, <1>3, <1>4, <1>5, <1>6, <1>7, <1>8 DEF WorkerStep

LEMMA StepTypes ==
  ASSUME TypeOK, Working, NEW p \in Partitions, NEW w, Step(p, w)
  PROVE  w \in WorkerType
<1>0. worker[p] \in WorkerType
  BY DEF TypeOK, WorkerType
<1>1. /\ worker[p].offset \in Nat /\ worker[p].todo \in Seq(Deliveries)
      /\ worker[p].attempt \in 1..MaxAttempts
  BY <1>0 DEF WorkerType
<1>2. worker[p].todo # <<>> => Tail(worker[p].todo) \in Seq(Deliveries)
  BY <1>1, Rest
<1>3. worker[p].pc \in {"record", "bury"} => worker[p].todo # <<>>
  BY DEF Working, WorksOn
<1>4. worker[p].pc = "backoff" => worker[p].attempt + 1 \in 1..MaxAttempts
  BY <1>1, AttemptsAssumption DEF Working, WorksOn
<1>5. \A n \in Nat : worker[p].offset + n <= Len(queue[p]) =>
        SubSeq(queue[p], worker[p].offset + 1, worker[p].offset + n) \in Seq(Deliveries)
  <2>1. queue[p] \in Seq(Deliveries)
    BY DEF TypeOK
  <2> QED BY <1>1, <2>1, Stretch
<1>6. 1 \in 1..MaxAttempts /\ <<>> \in Seq(Deliveries)
  BY AttemptsAssumption
<1>7. /\ [worker[p] EXCEPT !.pc = "bury"] \in WorkerType
      /\ [worker[p] EXCEPT !.pc = "backoff"] \in WorkerType
      /\ [worker[p] EXCEPT !.pc = "fetch"] \in WorkerType
      /\ [worker[p] EXCEPT !.pc = "fetch", !.todo = <<>>] \in WorkerType
      /\ [worker[p] EXCEPT !.pc = "send", !.attempt = 1] \in WorkerType
      /\ \A outcome \in Outcomes : [worker[p] EXCEPT !.pc = "record", !.outcome = outcome] \in WorkerType
  BY <1>0, <1>6, Fields, ZenonT(30)
<1>8. worker[p].todo # <<>> => /\ [worker[p] EXCEPT !.todo = Tail(@)] \in WorkerType
                               /\ [worker[p] EXCEPT !.pc = "take", !.todo = Tail(@)] \in WorkerType
  BY <1>0, <1>2, Fields, ZenonT(30)
<1>9. worker[p].pc = "backoff" => [worker[p] EXCEPT !.pc = "send", !.attempt = @ + 1] \in WorkerType
  BY <1>0, <1>4, Fields
<1>10. ASSUME NEW n \in Nat, worker[p].offset + n <= Len(queue[p])
       PROVE  [worker[p] EXCEPT !.pc = "take", !.offset = @ + n,
                 !.todo = SubSeq(queue[p], worker[p].offset + 1, worker[p].offset + n)] \in WorkerType
  <2> DEFINE v == worker[p]
             o == worker[p].offset + n
             t == SubSeq(queue[p], worker[p].offset + 1, worker[p].offset + n)
  <2>1. o \in Nat /\ t \in Seq(Deliveries) /\ v \in WorkerType
    BY <1>0, <1>1, <1>5, <1>10, SMTT(30)
  <2> HIDE DEF v, o, t
  <2>2. [v EXCEPT !.pc = "take", !.offset = o, !.todo = t] \in WorkerType
    BY <2>1, Fields
  <2> QED BY <2>2 DEF v, o, t
<1> QED BY <1>3, <1>7, <1>8, <1>9, <1>10, ZenonT(30) DEF Step

\* What a request hears, and what is written of it.
LEMMA SendTypes ==
  ASSUME TypeOK, Working, NEW p \in Partitions, NEW outcome \in Outcomes, Send(p, outcome)
  PROVE  LET h == Request(p).hook
             o == Request(p).event
         IN  /\ Request(p) \in Deliveries
             /\ \/ heard' = heard
                \/ /\ o \notin Range(heard[h]) /\ heard' = [heard EXCEPT ![h] = Append(@, o)]
             /\ outcome = "delivered" => o \in Range(heard'[h])
             /\ heard' \in [Hooks -> Seq(Nat)]
<1> DEFINE h == Request(p).hook
           o == Request(p).event
           processed == IF o \in Range(heard[h]) THEN heard ELSE [heard EXCEPT ![h] = Append(@, o)]
<1>1. Request(p) \in Deliveries
  BY Rest DEF Request, TypeOK, Working, WorksOn, Send
<1>2. h \in Hooks /\ o \in Nat
  BY <1>1 DEF Deliveries
<1>3. heard \in [Hooks -> Seq(Nat)]
  BY DEF TypeOK
<1>4. /\ heard' = heard \/ heard' = processed
      /\ outcome = "delivered" => heard' = processed
  BY DEF Send, Outcomes
<1> HIDE DEF h, o
<1>5. heard[h] \in Seq(Nat) /\ Append(heard[h], o) \in Seq(Nat) /\ o \in Range(Append(heard[h], o))
  <2>1. heard[h] \in Seq(Nat)
    BY <1>2, <1>3
  <2>2. /\ Append(heard[h], o) \in Seq(Nat) /\ Len(heard[h]) + 1 \in DOMAIN Append(heard[h], o)
        /\ Append(heard[h], o)[Len(heard[h]) + 1] = o
    BY <1>2, <2>1
  <2> QED BY <2>1, <2>2 DEF Range
<1>6. o \in Range(processed[h])
  BY <1>2, <1>3, <1>5
<1> QED BY <1>1, <1>2, <1>3, <1>4, <1>5, <1>6 DEF h, o

\* A step of a worker: what it leaves alone.
Works(p) == WorkerStep(p) \/ BuryFails(p) \/ WorkerFails(p)

LEMMA WorkerFrame ==
  ASSUME NEW p \in Partitions, Works(p)
  PROVE  /\ events' = events /\ queue' = queue /\ hooks' = hooks /\ mcursor' = mcursor
         /\ matcher' = matcher /\ edits' = edits /\ restarts' = restarts /\ matched' = matched
         /\ failures' = failures \/ failures' = failures + 1
         /\ fenced' = fenced \/ (fenced' = TRUE /\ failures' = failures + 1)
         /\ wcursor' = wcursor \/ (wcursor' = [wcursor EXCEPT ![p] = worker[p].offset] /\ WorkerCursor(p))
         /\ history' = history \/ Record(p)
         /\ heard' = heard \/ \E outcome \in Outcomes : Send(p, outcome)
         /\ dlq' = dlq \/ Bury(p)
<1> USE DEF logVars, dbVars, countVars
<1>1. CASE WorkerStep(p)
  <2>1. failures' = failures /\ fenced' = fenced
    BY <1>1, ZenonT(30) DEF WorkerStep, WorkerFetch, TakeUp, Send, Record, Bury, Backoff, WorkerCursor
  <2>2. /\ events' = events /\ queue' = queue /\ hooks' = hooks /\ mcursor' = mcursor
        /\ matcher' = matcher /\ edits' = edits /\ restarts' = restarts /\ matched' = matched
    BY <1>1, ZenonT(30) DEF WorkerStep, WorkerFetch, TakeUp, Send, Record, Bury, Backoff, WorkerCursor
  <2>3. /\ wcursor' = wcursor \/ (wcursor' = [wcursor EXCEPT ![p] = worker[p].offset] /\ WorkerCursor(p))
        /\ history' = history \/ Record(p)
        /\ heard' = heard \/ \E outcome \in Outcomes : Send(p, outcome)
        /\ dlq' = dlq \/ Bury(p)
    BY <1>1 DEF WorkerStep, WorkerFetch, TakeUp, Send, Record, Bury, Backoff, WorkerCursor
  <2> QED BY <2>1, <2>2, <2>3
<1>2. CASE BuryFails(p) \/ WorkerFails(p)
  <2>1. /\ failures' = failures \/ failures' = failures + 1
        /\ fenced' = fenced \/ (fenced' = TRUE /\ failures' = failures + 1)
        /\ edits' = edits /\ restarts' = restarts
    BY <1>2, Zenon DEF BuryFails, WorkerFails, CallFails
  <2>2. /\ events' = events /\ queue' = queue /\ hooks' = hooks /\ mcursor' = mcursor
        /\ matcher' = matcher /\ matched' = matched /\ wcursor' = wcursor
        /\ history' = history /\ heard' = heard /\ dlq' = dlq
    BY <1>2 DEF BuryFails, WorkerFails
  <2> QED BY <2>1, <2>2
<1> QED BY <1>1, <1>2 DEF Works

LEMMA RecordTypes ==
  ASSUME TypeOK, Working, NEW p \in Partitions, Record(p)
  PROVE  /\ Row(p) \in [delivery : Deliveries, attempt : 1..MaxAttempts, status : Statuses]
         /\ Row(p).delivery = Request(p) /\ Row(p).attempt = worker[p].attempt
         /\ Row(p).status = StatusWord(worker[p].outcome, worker[p].attempt)
         /\ Request(p) \in Deliveries /\ Request(p) = worker[p].todo[1] /\ 1 <= Len(worker[p].todo)
<1>1. worker[p].todo # <<>> /\ worker[p].todo \in Seq(Deliveries) /\ worker[p].attempt \in 1..MaxAttempts
  BY DEF TypeOK, Working, WorksOn, Record
<1>2. Request(p) \in Deliveries /\ Request(p) = worker[p].todo[1] /\ 1 <= Len(worker[p].todo)
  BY <1>1, Rest DEF Request
<1>3. StatusWord(worker[p].outcome, worker[p].attempt) \in Statuses
  BY DEF StatusWord, Statuses
<1> QED BY <1>1, <1>2, <1>3 DEF Row

LEMMA TypeStep ==
  ASSUME TypeOK, Working, [Next]_vars
  PROVE  TypeOK'
<1> USE DEF logVars, dbVars, countVars
<1>a. failures \in Nat /\ edits \in Nat /\ restarts \in Nat /\ mcursor \in Nat /\ matched \subseteq Nat
  BY DEF TypeOK
<1>b. fenced \in BOOLEAN
  BY DEF TypeOK
<1>c. matcher \in MatcherType /\ wcursor \in [Partitions -> Nat]
  BY DEF TypeOK, MatcherType
<1>1. ASSUME NEW kind \in {"repo", "other"}, Emit(kind)
      PROVE  TypeOK'
  BY <1>1 DEF Emit, TypeOK
<1>2. ASSUME NEW h \in Hooks, NEW state \in {"active", "disabled", "absent"}, Configure(h, state)
      PROVE  TypeOK'
  BY <1>2 DEF Configure, TypeOK
<1>3. CASE Restart
  <2>1. \A p \in Partitions : [Idle EXCEPT !.offset = wcursor[p]] \in WorkerType
    <3>1. Idle \in WorkerType
      BY AttemptsAssumption DEF Idle, WorkerType, Outcomes
    <3> QED BY <1>c, <3>1 DEF WorkerType
  <2>2. worker' \in [Partitions -> WorkerType]
    BY <1>3, <2>1 DEF Restart
  <2>3. matcher' \in MatcherType
    BY <1>3, <1>a DEF Restart, MatcherType
  <2>4. restarts' \in Nat /\ fenced' = FALSE
    BY <1>3, <1>a DEF Restart
  <2> QED BY <1>3, <2>2, <2>3, <2>4 DEF Restart, TypeOK, WorkerType, MatcherType
<1>4. ASSUME NEW n \in 1..MaxFetch, MatchFetch(n)
      PROVE  TypeOK'
  BY <1>4, MatcherTypes DEF MatchFetch, TypeOK, MatcherType
<1>5. CASE FanOut
  <2>1. /\ Head(matcher.todo) \in Nat /\ matcher.todo # <<>>
        /\ queue' \in [Partitions -> Seq(Deliveries)]
    BY <1>5, FanOutAdds
  <2>2. matcher' \in MatcherType
    <3>1. Tail(matcher.todo) \in Seq(Nat)
      BY <2>1, Rest DEF TypeOK
    <3> QED BY <1>5, <3>1 DEF FanOut, TypeOK, MatcherType
  <2> QED BY <1>5, <2>1, <2>2 DEF FanOut, TypeOK, MatcherType
<1>6. CASE FanOutFails \/ MatchCursorFails \/ MatchCursor
  <2>1. matcher' \in MatcherType
    <3>1. MatchGivesUp \/ matcher' = [matcher EXCEPT !.pc = "fetch"]
      BY <1>6 DEF FanOutFails, MatchCursorFails, MatchCursor
    <3>2. [matcher EXCEPT !.pc = "fetch"] \in MatcherType
      BY <1>c DEF MatcherType
    <3>3. [matcher EXCEPT !.pc = "fetch", !.todo = <<>>] \in MatcherType
      <4>1. <<>> \in Seq(Nat)
        OBVIOUS
      <4> QED BY <1>c, <4>1 DEF MatcherType
    <3> QED BY <3>1, <3>2, <3>3 DEF MatchGivesUp
  <2>2. failures' \in Nat /\ edits' \in Nat /\ restarts' \in Nat
    <3>1. CallFails \/ (failures' = failures /\ edits' = edits /\ restarts' = restarts)
      BY <1>6, Zenon DEF FanOutFails, MatchCursorFails, MatchCursor
    <3> QED BY <1>a, <3>1 DEF CallFails
  <2>3. mcursor' \in Nat
    BY <1>6, <1>a, <1>c DEF FanOutFails, MatchCursorFails, MatchCursor, MatcherType
  <2>4. fenced' \in BOOLEAN
    <3>1. fenced' = fenced \/ fenced' = TRUE
      BY <1>6 DEF FanOutFails, MatchCursorFails, MatchCursor
    <3> QED BY <1>b, <3>1
  <2> QED BY <1>6, <2>1, <2>2, <2>3, <2>4 DEF FanOutFails, MatchCursorFails, MatchCursor, TypeOK, MatcherType
<1>7. ASSUME NEW p \in Partitions, Works(p)
      PROVE  TypeOK'
  <2>0. worker \in [Partitions -> WorkerType]
    BY DEF TypeOK, WorkerType
  <2>1. PICK w : Step(p, w) /\ worker' = [worker EXCEPT ![p] = w]
    BY <1>7, WorkerSteps DEF Works
  <2>2. worker' \in [Partitions -> WorkerType]
    BY <2>0, <2>1, StepTypes
  <2>3. wcursor' \in [Partitions -> Nat]
    <3>1. worker[p].offset \in Nat
      BY <2>0 DEF WorkerType
    <3> QED BY <1>7, <1>c, <3>1, WorkerFrame
  <2>4. history' \subseteq [delivery : Deliveries, attempt : 1..MaxAttempts, status : Statuses]
    <3>1. history' = history \/ (Record(p) /\ history' = history \cup {Row(p)})
      BY <1>7, WorkerFrame DEF Record
    <3> QED BY <3>1, RecordTypes, SMTT(30) DEF TypeOK
  <2>5. heard' \in [Hooks -> Seq(Nat)]
    BY <1>7, WorkerFrame, SendTypes DEF TypeOK
  <2>6. dlq' \in Seq(Deliveries)
    <3>1. CASE Bury(p)
      <4>1. Request(p) \in Deliveries
        BY <3>1, Rest DEF Request, TypeOK, Working, WorksOn, Bury
      <4> QED BY <3>1, <4>1 DEF Bury, TypeOK
    <3> QED BY <1>7, <3>1, WorkerFrame DEF TypeOK
  <2>7. failures' \in Nat
    <3>1. failures' = failures \/ failures' = failures + 1
      BY <1>7, WorkerFrame
    <3> QED BY <1>a, <3>1
  <2>8. fenced' \in BOOLEAN
    <3>1. fenced' = fenced \/ fenced' = TRUE
      BY <1>7, WorkerFrame
    <3> QED BY <1>b, <3>1
  <2> QED BY <1>7, <2>2, <2>3, <2>4, <2>5, <2>6, <2>7, <2>8, WorkerFrame DEF TypeOK, WorkerType
<1>8. CASE UNCHANGED vars
  BY <1>8 DEF TypeOK, vars
<1> QED BY <1>1, <1>2, <1>3, <1>4, <1>5, <1>6, <1>7, <1>8 DEF Next, MatcherStep, Works

-----------------------------------------------------------------------------
(***************************************************************************)
(* The matcher                                                             *)
(***************************************************************************)
LEMMA FetchFollows ==
  ASSUME TypeOK, Following, NEW n \in 1..MaxFetch, MatchFetch(n)
  PROVE  Following' /\ Ahead' = Ahead
<1> DEFINE todo == [i \in 1..n |-> matcher.offset + i - 1]
<1>1. n \in Nat /\ matcher.offset \in Nat /\ matcher.todo = <<>>
  BY FetchAssumption DEF TypeOK, MatchFetch, Following
<1>2. todo \in Seq(Nat) /\ Len(todo) = n
  BY <1>1
<1>3. \A i \in 1..n : todo[i] = matcher.offset + i - 1
  OBVIOUS
<1>4. matcher'.pc = "match" /\ matcher'.offset = matcher.offset + n /\ matcher'.todo = todo
  BY DEF MatchFetch
<1> HIDE DEF todo
<1>5. Ahead = matcher.offset /\ Ahead' = matcher.offset
  BY <1>1, <1>2, <1>4 DEF Ahead
<1> QED BY <1>1, <1>2, <1>3, <1>4, <1>5 DEF Following

LEMMA FanOutFollows ==
  ASSUME TypeOK, Following, FanOut
  PROVE  Following' /\ Ahead' = Ahead + 1 /\ Head(matcher.todo) = Ahead
<1>1. /\ matcher.todo \in Seq(Nat) /\ matcher.todo # <<>> /\ matcher.offset \in Nat
      /\ matcher'.pc = "match" /\ matcher'.offset = matcher.offset /\ matcher'.todo = Tail(matcher.todo)
  BY DEF TypeOK, FanOut
<1>2. /\ Len(matcher.todo) \in Nat /\ Len(matcher.todo) > 0 /\ Head(matcher.todo) = matcher.todo[1]
      /\ Len(matcher'.todo) = Len(matcher.todo) - 1
      /\ \A i \in 1..Len(matcher.todo) - 1 : matcher'.todo[i] = matcher.todo[i + 1]
  BY <1>1, Rest
<1>3. Ahead' = Ahead + 1
  BY <1>1, <1>2 DEF Ahead
<1>4. \A i \in 1..Len(matcher.todo) : matcher.todo[i] = Ahead + i - 1
  BY DEF Following
<1>5. Ahead \in Int /\ Head(matcher.todo) = Ahead
  BY <1>1, <1>2, <1>4 DEF Ahead
<1>6. \A i \in 1..Len(matcher'.todo) : matcher'.todo[i] = Ahead' + i - 1
  BY <1>2, <1>3, <1>4, <1>5
<1> QED BY <1>1, <1>2, <1>3, <1>5, <1>6 DEF Following

LEMMA GivingUpFollows ==
  ASSUME TypeOK, Following, MatchGivesUp
  PROVE  Following' /\ Ahead' >= Ahead
<1>1. matcher.offset \in Nat /\ Len(matcher.todo) \in Nat
  BY DEF TypeOK
<1>2. /\ matcher'.pc = "fetch" /\ matcher'.offset = matcher.offset /\ matcher'.todo = <<>>
      /\ Len(matcher'.todo) = 0
  BY DEF MatchGivesUp, TypeOK
<1> QED BY <1>1, <1>2 DEF Following, Ahead

LEMMA MatcherMoves ==
  ASSUME TypeOK, Following, [Next]_vars
  PROVE  /\ Following'
         /\ \/ Restart /\ Ahead' = mcursor /\ mcursor' = mcursor /\ queue' = queue /\ matched' = matched
            \/ FanOut /\ Ahead' = Ahead + 1 /\ mcursor' = mcursor /\ matched' = matched \cup {Ahead}
            \/ queue' = queue /\ Ahead' = Ahead /\ matched' = matched /\ mcursor' \in {mcursor, Ahead}
            \/ /\ queue' = queue /\ Ahead' >= Ahead /\ matched' = matched /\ mcursor' = mcursor
               /\ failures' = failures + 1 \/ fenced
<1> DEFINE Same == queue' = queue /\ Ahead' = Ahead /\ matched' = matched /\ mcursor' \in {mcursor, Ahead}
           Lost == /\ queue' = queue /\ Ahead' >= Ahead /\ matched' = matched /\ mcursor' = mcursor
                   /\ failures' = failures + 1 \/ fenced
<1> USE DEF logVars, dbVars, countVars
<1>1. CASE matcher' = matcher /\ queue' = queue /\ matched' = matched /\ mcursor' = mcursor
  <2>1. Following' /\ Same
    BY <1>1 DEF Following, Ahead
  <2> QED BY <2>1
<1>2. CASE Restart
  <2>1. /\ matcher'.pc = "fetch" /\ matcher'.offset = mcursor /\ matcher'.todo = <<>>
        /\ mcursor' = mcursor /\ queue' = queue /\ matched' = matched /\ mcursor \in Nat
    BY <1>2 DEF Restart, TypeOK
  <2>2. Following' /\ Ahead' = mcursor
    BY <2>1 DEF Following, Ahead
  <2> QED BY <1>2, <2>1, <2>2
<1>3. ASSUME NEW n \in 1..MaxFetch, MatchFetch(n)
      PROVE  Following' /\ Same
  BY <1>3, FetchFollows DEF MatchFetch
<1>4. CASE FanOut
  BY <1>4, FanOutFollows DEF FanOut
<1>5. CASE FanOutFails \/ MatchCursorFails
  <2>1. /\ MatchGivesUp /\ queue' = queue /\ matched' = matched /\ mcursor' = mcursor
    BY <1>5 DEF FanOutFails, MatchCursorFails
  <2>2. failures' = failures + 1 \/ fenced
    BY <1>5, Zenon DEF FanOutFails, MatchCursorFails, CallFails
  <2> QED BY <2>1, <2>2, GivingUpFollows
<1>6. CASE MatchCursor
  <2>1. /\ matcher.todo = <<>> /\ matcher.offset \in Nat /\ queue' = queue /\ matched' = matched
        /\ mcursor' = matcher.offset /\ matcher'.pc = "fetch" /\ matcher'.todo = <<>>
        /\ matcher'.offset = matcher.offset
    BY <1>6 DEF MatchCursor, TypeOK
  <2>2. Following' /\ Ahead' = Ahead /\ Ahead = matcher.offset
    BY <2>1 DEF Following, Ahead
  <2> QED BY <2>1, <2>2
<1> HIDE DEF Same, Lost
<1>7. ASSUME \/ \E kind \in {"repo", "other"} : Emit(kind)
             \/ \E h \in Hooks, state \in {"active", "disabled", "absent"} : Configure(h, state)
             \/ \E p \in Partitions : Works(p)
             \/ UNCHANGED vars
      PROVE  matcher' = matcher /\ queue' = queue /\ matched' = matched /\ mcursor' = mcursor
  BY <1>7, WorkerFrame DEF Emit, Configure, vars
<1> QED BY <1>1, <1>2, <1>3, <1>4, <1>5, <1>6, <1>7 DEF Next, MatcherStep, Works, Same

LEMMA NothingSkippedStep ==
  ASSUME TypeOK, Following, NothingSkipped, [Next]_vars
  PROVE  NothingSkipped'
<1>0. /\ mcursor \in Nat /\ failures \in Nat /\ Ahead \in Int
  BY DEF TypeOK, Ahead
<1>1. fenced' = fenced \/ fenced' = FALSE \/ failures' = failures + 1
  <2>1. CASE \E p \in Partitions : Works(p)
    BY <2>1, WorkerFrame
  <2>2. CASE FanOutFails \/ MatchCursorFails
    BY <2>2, Zenon DEF FanOutFails, MatchCursorFails, CallFails
  <2>3. CASE \/ \E kind \in {"repo", "other"} : Emit(kind)
             \/ \E h \in Hooks, state \in {"active", "disabled", "absent"} : Configure(h, state)
             \/ MatcherStep \/ UNCHANGED vars
    BY <2>3 DEF Emit, Configure, MatcherStep, MatchFetch, FanOut, MatchCursor, vars
  <2>4. CASE Restart
    BY <2>4 DEF Restart
  <2> QED BY <2>1, <2>2, <2>3, <2>4 DEF Next, Works
<1>2. failures' = failures \/ failures' = failures + 1
  <2>1. CASE \E p \in Partitions : Works(p)
    BY <2>1, WorkerFrame
  <2>2. CASE FanOutFails \/ MatchCursorFails
    BY <2>2, Zenon DEF FanOutFails, MatchCursorFails, CallFails, countVars
  <2>3. CASE \/ \E kind \in {"repo", "other"} : Emit(kind)
             \/ \E h \in Hooks, state \in {"active", "disabled", "absent"} : Configure(h, state)
             \/ MatcherStep \/ UNCHANGED vars
    BY <2>3 DEF Emit, Configure, MatcherStep, MatchFetch, FanOut, MatchCursor, vars, countVars
  <2>4. CASE Restart
    BY <2>4 DEF Restart
  <2> QED BY <2>1, <2>2, <2>3, <2>4 DEF Next, Works
<1>3. CASE failures' # 0
  BY <1>3 DEF NothingSkipped
<1>4. CASE failures' = 0
  <2>1. failures = 0 /\ ~(failures' = failures + 1)
    BY <1>0, <1>2, <1>4
  <2>2. /\ ~fenced
        /\ \A o \in Nat : o < mcursor \/ o < Ahead => o \in matched
    BY <2>1 DEF NothingSkipped
  <2>3. ~fenced'
    BY <1>1, <2>1, <2>2, Zenon
  <2>4. \A o \in Nat : o < mcursor' \/ o < Ahead' => o \in matched'
    BY <1>0, <2>1, <2>2, MatcherMoves
  <2> QED BY <2>3, <2>4 DEF NothingSkipped
<1> QED BY <1>3, <1>4

-----------------------------------------------------------------------------
(***************************************************************************)
(* The workers and the queue                                               *)
(***************************************************************************)

\* A worker goes on in its partition, and never back while the process lives.
LEMMA StepWorks ==
  ASSUME TypeOK, Working, NEW p \in Partitions, NEW w, Step(p, w)
  PROVE  WorksOn(w, queue[p]) /\ w.offset - Len(w.todo) >= At(p)
<1> DEFINE v == worker[p]
           s == queue[p]
<1>0. /\ v \in WorkerType /\ s \in Seq(Deliveries) /\ WorksOn(v, s)
      /\ v.offset \in Nat /\ v.todo \in Seq(Deliveries) /\ Len(v.todo) \in Nat /\ Len(s) \in Nat
      /\ At(p) = v.offset - Len(v.todo) /\ v.attempt \in Nat
  BY DEF TypeOK, Working, WorkerType, At
<1>t. w \in WorkerType
  BY StepTypes
<1>w. w.todo \in Seq(Deliveries) /\ w.offset \in Nat /\ Len(w.todo) \in Nat
  BY <1>t DEF WorkerType
<1>r. v.todo # <<>> =>
        /\ Len(v.todo) > 0 /\ Len(Tail(v.todo)) = Len(v.todo) - 1
        /\ \A i \in 1..Len(v.todo) - 1 : Tail(v.todo)[i] = v.todo[i + 1]
  BY <1>0, Rest
<1>1. CASE \E n \in Nat : /\ v.offset + n <= Len(s) /\ v.pc = "fetch"
                         /\ w = [v EXCEPT !.pc = "take", !.offset = @ + n,
                                    !.todo = SubSeq(s, v.offset + 1, v.offset + n)]
  <2>1. PICK n \in Nat : /\ v.offset + n <= Len(s)
                         /\ w = [v EXCEPT !.pc = "take", !.offset = @ + n,
                                    !.todo = SubSeq(s, v.offset + 1, v.offset + n)]
    BY <1>1
  <2>2. /\ w.pc = "take" /\ w.offset = v.offset + n /\ Len(w.todo) = n
        /\ \A i \in 1..n : w.todo[i] = s[v.offset + i]
    <3>1. w.pc = "take" /\ w.offset = v.offset + n /\ w.todo = SubSeq(s, v.offset + 1, v.offset + n)
      BY <1>0, <2>1 DEF WorkerType
    <3>2. s \in Seq(Deliveries) /\ v.offset \in Nat /\ v.offset + n <= Len(s)
      BY <1>0, <2>1
    <3>3. /\ Len(SubSeq(s, v.offset + 1, v.offset + n)) = n
          /\ \A i \in 1..n : SubSeq(s, v.offset + 1, v.offset + n)[i] = s[v.offset + i]
      <4> DEFINE o == v.offset
      <4>1. o \in Nat /\ o + n <= Len(s)
        BY <3>2
      <4> HIDE DEF o, s
      <4>2. /\ Len(SubSeq(s, o + 1, o + n)) = n
            /\ \A i \in 1..n : SubSeq(s, o + 1, o + n)[i] = s[o + i]
        BY <3>2, <4>1, Stretch, ZenonT(30)
      <4> QED BY <4>2 DEF o
    <3> HIDE DEF v, s
    <3> QED BY <3>1, <3>3
  <2>3. Len(v.todo) = 0
    BY <1>0, <1>1 DEF WorksOn
  <2>4. At(p) = v.offset /\ w.offset - Len(w.todo) = v.offset /\ Len(w.todo) = n
    BY <1>0, <2>2, <2>3
  <2>5. Len(w.todo) <= w.offset /\ w.offset <= Len(s)
    BY <1>0, <2>1, <2>2
  <2>6. \A i \in 1..Len(w.todo) : w.todo[i] = s[w.offset - Len(w.todo) + i]
    BY <2>2, <2>4
  <2> QED BY <1>0, <2>2, <2>4, <2>5, <2>6 DEF WorksOn
<1>2. CASE /\ v.todo # <<>> /\ w.todo = Tail(v.todo) /\ w.offset = v.offset /\ w.pc = "take"
  <2>1. /\ Len(w.todo) = Len(v.todo) - 1 /\ Len(w.todo) <= w.offset /\ w.offset <= Len(s)
    BY <1>0, <1>2, <1>r DEF WorksOn
  <2>2. ASSUME NEW i \in 1..Len(w.todo)
        PROVE  w.todo[i] = s[w.offset - Len(w.todo) + i]
    <3>1. w.todo[i] = v.todo[i + 1] /\ i + 1 \in 1..Len(v.todo)
      BY <1>0, <1>2, <1>r, <2>1
    <3>2. v.todo[i + 1] = s[v.offset - Len(v.todo) + (i + 1)]
      <4> DEFINE k == i + 1
      <4>1. \A j \in 1..Len(v.todo) : v.todo[j] = s[v.offset - Len(v.todo) + j]
        BY <1>0 DEF WorksOn
      <4>2. k \in 1..Len(v.todo)
        BY <3>1
      <4> HIDE DEF k, v, s
      <4>3. v.todo[k] = s[v.offset - Len(v.todo) + k]
        BY <4>1, <4>2
      <4> QED BY <4>3 DEF k, v, s
    <3>3. v.offset - Len(v.todo) + (i + 1) = w.offset - Len(w.todo) + i
      <4>1. /\ w.offset = v.offset /\ Len(w.todo) = Len(v.todo) - 1
            /\ v.offset \in Nat /\ Len(v.todo) \in Nat /\ i \in Nat
        BY <1>0, <1>2, <1>w, <2>1
      <4> HIDE DEF v
      <4> QED BY <4>1, SMTT(30)
    <3> QED BY <3>1, <3>2, <3>3
  <2>3. w.offset - Len(w.todo) >= At(p)
    BY <1>0, <1>2, <2>1
  <2> QED BY <1>2, <2>1, <2>2, <2>3 DEF WorksOn
<1>3. CASE w.todo = v.todo /\ w.offset = v.offset /\ (w.pc = "fetch" => v.todo = <<>>)
           /\ (w.pc \in {"send", "record", "bury", "backoff"} => v.todo # <<>>)
           /\ (w.pc = "backoff" => w.attempt < MaxAttempts)
  BY <1>0, <1>3 DEF WorksOn
<1>4. CASE w.todo = <<>> /\ w.offset = v.offset /\ w.pc = "fetch"
  <2>1. Len(w.todo) = 0
    BY <1>4
  <2>2. w.offset <= Len(s) /\ w.offset >= At(p)
    BY <1>0, <1>4, SMTT(30) DEF WorksOn
  <2> QED BY <1>0, <1>4, <2>1, <2>2 DEF WorksOn
<1>5. \/ \E n \in Nat : /\ v.offset + n <= Len(s) /\ v.pc = "fetch"
                        /\ w = [v EXCEPT !.pc = "take", !.offset = @ + n,
                                    !.todo = SubSeq(s, v.offset + 1, v.offset + n)]
      \/ v.todo # <<>> /\ w.todo = Tail(v.todo) /\ w.offset = v.offset /\ w.pc = "take"
      \/ /\ w.todo = v.todo /\ w.offset = v.offset /\ (w.pc = "fetch" => v.todo = <<>>)
         /\ (w.pc \in {"send", "record", "bury", "backoff"} => v.todo # <<>>)
         /\ (w.pc = "backoff" => w.attempt < MaxAttempts)
      \/ w.todo = <<>> /\ w.offset = v.offset /\ w.pc = "fetch"
  <2>1. v.pc \in {"send", "record", "bury", "backoff"} => v.todo # <<>>
    BY <1>0 DEF WorksOn
  <2> QED BY <1>0, <2>1 DEF Step, WorkerType
<1> QED BY <1>1, <1>2, <1>3, <1>4, <1>5

LEMMA FanOutQueues ==
  ASSUME TypeOK, FanOut, NEW p \in Partitions
  PROVE  /\ Len(queue[p]) \in Nat /\ Len(queue'[p]) \in Nat /\ Len(queue[p]) <= Len(queue'[p])
         /\ \A k \in 1..Len(queue[p]) : queue'[p][k] = queue[p][k]
         /\ \A k \in 1..Len(queue'[p]) : k > Len(queue[p]) =>
              /\ queue'[p][k].event = Head(matcher.todo) /\ Home[queue'[p][k].hook] = p
              /\ \A l \in 1..Len(queue'[p]) :
                   l > Len(queue[p]) /\ queue'[p][l].hook = queue'[p][k].hook => k = l
<1>1. PICK added : queue'[p] = queue[p] \o added /\ Adds(p, Head(matcher.todo), added)
  BY FanOutAdds
<1>2. queue[p] \in Seq(Deliveries) /\ added \in Seq(Deliveries)
  BY <1>1 DEF TypeOK, Adds
<1>3. /\ Len(queue[p]) \in Nat /\ Len(added) \in Nat /\ Len(queue'[p]) = Len(queue[p]) + Len(added)
      /\ \A k \in 1..Len(queue[p]) : queue'[p][k] = queue[p][k]
      /\ \A i \in 1..Len(added) : queue'[p][Len(queue[p]) + i] = added[i]
  BY <1>1, <1>2, Longer
<1>4. ASSUME NEW k \in 1..Len(queue'[p]), k > Len(queue[p])
      PROVE  k - Len(queue[p]) \in 1..Len(added) /\ queue'[p][k] = added[k - Len(queue[p])]
  <2> DEFINE i == k - Len(queue[p])
  <2>1. i \in 1..Len(added) /\ k = Len(queue[p]) + i
    BY <1>3, <1>4
  <2> HIDE DEF i
  <2>2. queue'[p][k] = added[i]
    BY <1>3, <2>1
  <2> QED BY <2>1, <2>2 DEF i
<1>5. /\ \A i \in 1..Len(added) : added[i].event = Head(matcher.todo) /\ Home[added[i].hook] = p
      /\ \A i, j \in 1..Len(added) : added[i].hook = added[j].hook => i = j
  BY <1>1 DEF Adds
<1>6. ASSUME NEW k \in 1..Len(queue'[p]), k > Len(queue[p]), NEW l \in 1..Len(queue'[p]),
             l > Len(queue[p]), queue'[p][l].hook = queue'[p][k].hook
      PROVE  k = l
  <2> DEFINE i == k - Len(queue[p])
             j == l - Len(queue[p])
  <2>1. i \in 1..Len(added) /\ queue'[p][k] = added[i]
    BY <1>4, <1>6
  <2>2. j \in 1..Len(added) /\ queue'[p][l] = added[j]
    BY <1>4, <1>6
  <2>3. k = Len(queue[p]) + i /\ l = Len(queue[p]) + j
    BY <1>3
  <2> HIDE DEF i, j
  <2>4. i = j
    BY <1>5, <1>6, <2>1, <2>2
  <2> QED BY <2>3, <2>4
<1>7. ASSUME NEW k \in 1..Len(queue'[p]), k > Len(queue[p])
      PROVE  queue'[p][k].event = Head(matcher.todo) /\ Home[queue'[p][k].hook] = p
  <2> DEFINE i == k - Len(queue[p])
  <2>1. i \in 1..Len(added) /\ queue'[p][k] = added[i]
    BY <1>4, <1>7
  <2> HIDE DEF i
  <2> QED BY <1>5, <2>1
<1>8. Len(queue[p]) \in Nat /\ Len(queue'[p]) \in Nat /\ Len(queue[p]) <= Len(queue'[p])
  BY <1>3
<1> QED BY <1>3, <1>6, <1>7, <1>8

\* The queue only grows, and only by fan_out.
LEMMA QueueGrows ==
  ASSUME TypeOK, [Next]_vars
  PROVE  queue' = queue \/ (FanOut /\ worker' = worker /\ wcursor' = wcursor)
<1> USE DEF logVars, dbVars
<1>1. CASE \E p \in Partitions : Works(p)
  BY <1>1, WorkerFrame
<1>2. CASE \/ \E kind \in {"repo", "other"} : Emit(kind)
           \/ \E h \in Hooks, state \in {"active", "disabled", "absent"} : Configure(h, state)
           \/ Restart \/ MatcherStep \/ FanOutFails \/ MatchCursorFails \/ UNCHANGED vars
  BY <1>2 DEF Emit, Configure, Restart, MatcherStep, MatchFetch, FanOut, MatchCursor, FanOutFails,
     MatchCursorFails, vars
<1> QED BY <1>1, <1>2 DEF Next, Works

LEMMA WorkersAlone ==
  ASSUME [Next]_vars
  PROVE  \/ worker' = worker /\ wcursor' = wcursor
         \/ Restart
         \/ \E p \in Partitions : Works(p)
<1> USE DEF logVars, dbVars
<1>1. CASE \/ \E kind \in {"repo", "other"} : Emit(kind)
           \/ \E h \in Hooks, state \in {"active", "disabled", "absent"} : Configure(h, state)
           \/ MatcherStep \/ FanOutFails \/ MatchCursorFails \/ UNCHANGED vars
  BY <1>1 DEF Emit, Configure, MatcherStep, MatchFetch, FanOut, MatchCursor, FanOutFails,
     MatchCursorFails, vars
<1> QED BY <1>1 DEF Next, Works

LEMMA RoutedStep ==
  ASSUME TypeOK, Routed, [Next]_vars
  PROVE  Routed'
<1>1. CASE FanOut
  <2>1. ASSUME NEW p \in Partitions, NEW k \in 1..Len(queue'[p])
        PROVE  Home[queue'[p][k].hook] = p
    <3>1. Len(queue[p]) \in Nat /\ Len(queue'[p]) \in Nat
      BY <1>1, FanOutQueues
    <3>2. CASE k > Len(queue[p])
      BY <1>1, <3>2, FanOutQueues
    <3>3. CASE k \in 1..Len(queue[p])
      BY <1>1, <3>3, FanOutQueues DEF Routed
    <3> QED BY <3>1, <3>2, <3>3
  <2> QED BY <2>1 DEF Routed
<1>2. CASE queue' = queue
  BY <1>2 DEF Routed
<1> QED BY <1>1, <1>2, QueueGrows

LEMMA WorkingStep ==
  ASSUME TypeOK, Working, [Next]_vars
  PROVE  Working'
<1>1. CASE worker' = worker /\ wcursor' = wcursor /\ queue' = queue
  BY <1>1 DEF Working
<1>2. CASE FanOut /\ worker' = worker /\ wcursor' = wcursor
  <2>1. ASSUME NEW p \in Partitions
        PROVE  WorksOn(worker'[p], queue'[p]) /\ wcursor'[p] <= Len(queue'[p])
    <3>1. /\ Len(queue[p]) \in Nat /\ Len(queue'[p]) \in Nat /\ Len(queue[p]) <= Len(queue'[p])
          /\ \A k \in 1..Len(queue[p]) : queue'[p][k] = queue[p][k]
      BY <1>2, FanOutQueues
    <3>2. /\ worker[p].offset \in Nat /\ Len(worker[p].todo) \in Nat /\ wcursor[p] \in Nat
      BY DEF TypeOK
    <3>3. WorksOn(worker[p], queue[p]) /\ wcursor[p] <= Len(queue[p])
      BY DEF Working
    <3>4. WorksOn(worker[p], queue'[p])
      <4> DEFINE w == worker[p]
      <4>1. /\ Len(w.todo) <= w.offset /\ w.offset <= Len(queue[p])
            /\ \A i \in 1..Len(w.todo) : w.todo[i] = queue[p][w.offset - Len(w.todo) + i]
            /\ w.pc = "fetch" => w.todo = <<>>
            /\ w.pc \in {"send", "record", "bury", "backoff"} => w.todo # <<>>
            /\ w.pc = "backoff" => w.attempt < MaxAttempts
        BY <3>3 DEF WorksOn
      <4>2. w.offset \in Nat /\ Len(w.todo) \in Nat
        BY <3>2
      <4> HIDE DEF w
      <4>3. ASSUME NEW i \in 1..Len(w.todo)
            PROVE  w.todo[i] = queue'[p][w.offset - Len(w.todo) + i]
        <5> DEFINE k == w.offset - Len(w.todo) + i
        <5>1. k \in 1..Len(queue[p]) /\ w.todo[i] = queue[p][k]
          BY <3>1, <4>1, <4>2
        <5> HIDE DEF k
        <5>2. w.todo[i] = queue'[p][k]
          BY <3>1, <5>1
        <5> QED BY <5>2 DEF k
      <4>4. w.offset <= Len(queue'[p])
        BY <3>1, <4>1, <4>2
      <4>5. WorksOn(w, queue'[p])
        BY <4>1, <4>3, <4>4 DEF WorksOn
      <4> QED BY <4>5 DEF w
    <3> QED BY <1>2, <3>1, <3>2, <3>3, <3>4
  <2> QED BY <2>1 DEF Working
<1>3. CASE Restart
  <2>1. ASSUME NEW p \in Partitions
        PROVE  WorksOn(worker'[p], queue'[p]) /\ wcursor'[p] <= Len(queue'[p])
    <3>1. /\ worker'[p].pc = "fetch" /\ worker'[p].offset = wcursor[p] /\ worker'[p].todo = <<>>
          /\ queue' = queue /\ wcursor' = wcursor
      BY <1>3 DEF Restart, Idle, logVars, dbVars
    <3>2. wcursor[p] \in Nat /\ wcursor[p] <= Len(queue[p])
      BY DEF TypeOK, Working
    <3> QED BY <3>1, <3>2 DEF WorksOn
  <2> QED BY <2>1 DEF Working
<1>4. ASSUME NEW q \in Partitions, Works(q)
      PROVE  Working'
  <2>1. PICK w : Step(q, w) /\ worker' = [worker EXCEPT ![q] = w]
    BY <1>4, WorkerSteps DEF Works
  <2>2. worker'[q] = w /\ \A p \in Partitions \ {q} : worker'[p] = worker[p]
    BY <2>1 DEF TypeOK
  <2>3. queue' = queue /\ (wcursor' = wcursor \/ wcursor' = [wcursor EXCEPT ![q] = worker[q].offset])
    BY <1>4, WorkerFrame
  <2>4. WorksOn(w, queue[q])
    BY <2>1, StepWorks
  <2>5. worker[q].offset <= Len(queue[q])
    BY DEF Working, WorksOn
  <2>6. \A p \in Partitions : wcursor'[p] <= Len(queue[p])
    BY <2>3, <2>5 DEF Working, TypeOK
  <2> QED BY <2>2, <2>3, <2>4, <2>6 DEF Working
<1> QED BY <1>1, <1>2, <1>3, <1>4, QueueGrows, WorkersAlone

-----------------------------------------------------------------------------
(***************************************************************************)
(* The history of the deliveries                                           *)
(***************************************************************************)

\* A request that is being worked on is one of the worker's own partition.
LEMMA OwnRequest ==
  ASSUME TypeOK, Working, Routed, NEW p \in Partitions, worker[p].todo # <<>>
  PROVE  Request(p) \in Deliveries /\ Home[Request(p).hook] = p
<1> DEFINE w == worker[p]
           k == w.offset - Len(w.todo) + 1
<1>1. w.todo \in Seq(Deliveries) /\ w.offset \in Nat /\ Len(w.todo) \in Nat /\ Len(queue[p]) \in Nat
  BY DEF TypeOK
<1>2. Len(w.todo) > 0 /\ Request(p) = w.todo[1] /\ Request(p) \in Deliveries
  BY <1>1, Rest DEF Request
<1>3. /\ Len(w.todo) <= w.offset /\ w.offset <= Len(queue[p])
      /\ \A i \in 1..Len(w.todo) : w.todo[i] = queue[p][w.offset - Len(w.todo) + i]
  BY DEF Working, WorksOn
<1> HIDE DEF w
<1>4. k \in 1..Len(queue[p]) /\ w.todo[1] = queue[p][k]
  BY <1>1, <1>2, <1>3
<1> QED BY <1>2, <1>4 DEF Routed

\* Only send reaches a receiver.
LEMMA WhoSends ==
  ASSUME [Next]_vars
  PROVE  heard' = heard \/ \E p \in Partitions, outcome \in Outcomes : Send(p, outcome)
<1>1. CASE \E p \in Partitions : Works(p)
  BY <1>1, WorkerFrame
<1>2. CASE \/ \E kind \in {"repo", "other"} : Emit(kind)
           \/ \E g \in Hooks, state \in {"active", "disabled", "absent"} : Configure(g, state)
           \/ Restart \/ MatcherStep \/ FanOutFails \/ MatchCursorFails \/ UNCHANGED vars
  BY <1>2 DEF Emit, Configure, Restart, MatcherStep, MatchFetch, FanOut, MatchCursor, FanOutFails,
     MatchCursorFails, vars
<1> QED BY <1>1, <1>2 DEF Next, Works

\* A receiver forgets nothing.
LEMMA HeardGrows ==
  ASSUME TypeOK, Working, [Next]_vars, NEW h \in Hooks
  PROVE  Range(heard[h]) \subseteq Range(heard'[h])
<1>1. CASE heard' = heard
  BY <1>1
<1>2. ASSUME NEW p \in Partitions, NEW outcome \in Outcomes, Send(p, outcome), heard' # heard
      PROVE  Range(heard[h]) \subseteq Range(heard'[h])
  <2> DEFINE g == Request(p).hook
             o == Request(p).event
  <2>1. Request(p) \in Deliveries /\ heard' = [heard EXCEPT ![g] = Append(@, o)]
    BY <1>2, SendTypes
  <2>2. heard[h] \in Seq(Nat) /\ o \in Nat
    BY <2>1 DEF TypeOK, Deliveries
  <2>3. heard'[h] = heard[h] \/ heard'[h] = Append(heard[h], o)
    BY <2>1 DEF TypeOK
  <2>4. \A i \in DOMAIN heard[h] : i \in DOMAIN Append(heard[h], o) /\ Append(heard[h], o)[i] = heard[h][i]
    BY <2>2
  <2>5. Range(heard[h]) \subseteq Range(Append(heard[h], o))
    BY <2>4 DEF Range
  <2> QED BY <2>3, <2>5
<1>3. heard' = heard \/ \E p \in Partitions, outcome \in Outcomes : Send(p, outcome)
  BY WhoSends
<1> QED BY <1>1, <1>2, <1>3

\* Only record writes to the history, and only dead_letter to the topic.
LEMMA WhoWrites ==
  ASSUME [Next]_vars
  PROVE  \/ history' = history /\ dlq' = dlq
         \/ \E p \in Partitions : Works(p) /\ (history' = history \/ Record(p)) /\ (dlq' = dlq \/ Bury(p))
<1> USE DEF logVars, dbVars
<1>1. CASE \E p \in Partitions : Works(p)
  BY <1>1, WorkerFrame
<1>2. CASE \/ \E kind \in {"repo", "other"} : Emit(kind)
           \/ \E g \in Hooks, state \in {"active", "disabled", "absent"} : Configure(g, state)
           \/ Restart \/ MatcherStep \/ FanOutFails \/ MatchCursorFails \/ UNCHANGED vars
  BY <1>2 DEF Emit, Configure, Restart, MatcherStep, MatchFetch, FanOut, MatchCursor, FanOutFails,
     MatchCursorFails, vars
<1> QED BY <1>1, <1>2 DEF Next, Works

\* When an attempt can be recorded, those before it have all failed.
LEMMA AllFailedBefore ==
  ASSUME TypeOK, Working, Ladder, Climbing, NEW p \in Partitions, Record(p),
         ~ \E r \in history : SameKey(r, Row(p))
  PROVE  LET a == worker[p].attempt
             d == Request(p)
         IN  /\ a > 1 => Has(d, a - 1, "failed")
             /\ \A r \in history : r.delivery = d => r.status = "failed" /\ r.attempt < a
<1> DEFINE a == worker[p].attempt
           d == Request(p)
<1>1. a \in Nat /\ a >= 1 /\ Row(p).delivery = d /\ Row(p).attempt = a
  <2>1. a \in 1..MaxAttempts
    BY DEF TypeOK
  <2> QED BY <2>1, AttemptsAssumption, RecordTypes
<1>2. a > 1 => Has(d, a - 1, "failed") /\ UpTo(d, a - 1)
  BY DEF Climbing, Rung, Record
<1>3. \A r \in history : r.attempt \in Nat /\ r.attempt >= 1
  <2>1. \A r \in history : r.attempt \in 1..MaxAttempts
    BY DEF TypeOK
  <2> QED BY <2>1, AttemptsAssumption
<1>4. \A r \in history : ~(r.delivery = d /\ r.attempt = a)
  BY <1>1 DEF SameKey
<1> HIDE DEF a, d
<1>5. ASSUME NEW r \in history, r.delivery = d
      PROVE  r.status = "failed" /\ r.attempt < a
  <2>1. r.attempt < a
    <3>1. \A b \in 1..r.attempt : \E s \in history : s.delivery = d /\ s.attempt = b
      BY <1>5 DEF Ladder
    <3>2. a \notin 1..r.attempt
      BY <1>4, <3>1
    <3> QED BY <1>1, <1>3, <3>2
  <2>2. PICK s \in history : s.delivery = d /\ s.attempt = a - 1 /\ s.status = "failed"
    BY <1>1, <1>2, <1>3, <2>1 DEF Has
  <2>3. CASE r.status # "failed"
    <3>1. s.attempt <= r.attempt
      BY <1>5, <2>2, <2>3 DEF Ladder, HistoryIsOneLadder
    <3>2. r.attempt = s.attempt
      BY <1>1, <1>3, <2>1, <2>2, <3>1
    <3>3. r = s
      BY <1>5, <2>2, <3>2 DEF Ladder, SameKey
    <3> QED BY <2>2, <2>3, <3>3
  <2> QED BY <2>1, <2>3
<1> QED BY <1>2, <1>5 DEF a, d

LEMMA LadderStep ==
  ASSUME TypeOK, Working, Ladder, Climbing, [Next]_vars
  PROVE  Ladder'
<1>h. \A h \in Hooks : Range(heard[h]) \subseteq Range(heard'[h])
  BY HeardGrows
<1>d. \A r \in history : r.delivery.hook \in Hooks
  BY DEF TypeOK, Deliveries
<1>1. CASE history' = history
  BY <1>1, <1>h, <1>d DEF Ladder, HistoryIsOneLadder
<1>2. ASSUME NEW p \in Partitions, Record(p), history' # history
      PROVE  Ladder'
  <2> DEFINE a == worker[p].attempt
             d == Request(p)
             row == Row(p)
  <2>1. /\ ~ \E r \in history : SameKey(r, row)
        /\ history' = history \cup {row} /\ heard' = heard
    BY <1>2 DEF Record
  <2>2. /\ row.delivery = d /\ row.attempt = a /\ row.status = StatusWord(worker[p].outcome, a)
        /\ a \in Nat /\ a >= 1
    <3>1. a \in 1..MaxAttempts
      BY DEF TypeOK
    <3> QED BY <1>2, <3>1, AttemptsAssumption, RecordTypes
  <2>3. /\ a > 1 => Has(d, a - 1, "failed")
        /\ \A r \in history : r.delivery = d => r.status = "failed" /\ r.attempt < a
    BY <1>2, <2>1, AllFailedBefore
  <2>4. row.status = "delivered" => d.event \in Range(heard[d.hook])
    BY <1>2, <2>2 DEF StatusWord, Climbing, Rung, Record
  <2>a. \A r \in history : r.attempt \in Nat
    BY AttemptsAssumption DEF TypeOK
  <2> HIDE DEF a, d, row
  <2>5. \A r, s \in history' : SameKey(r, s) => r = s
    BY <2>1 DEF Ladder, SameKey
  <2>6. ASSUME NEW r \in history', NEW b \in 1..r.attempt
        PROVE  \E s \in history' : s.delivery = r.delivery /\ s.attempt = b
    <3>1. CASE r \in history
      BY <2>1, <2>6, <3>1 DEF Ladder
    <3>2. CASE r = row /\ b = a
      BY <2>1, <2>2, <3>2
    <3>3. CASE r = row /\ b # a
      <4>1. PICK s \in history : s.delivery = d /\ s.attempt = a - 1
        BY <2>2, <2>3, <2>6, <3>3 DEF Has
      <4>2. b \in 1..s.attempt
        BY <2>2, <2>6, <3>3, <4>1
      <4>3. \E t \in history : t.delivery = s.delivery /\ t.attempt = b
        BY <4>2 DEF Ladder
      <4> QED BY <2>1, <2>2, <3>3, <4>1, <4>3
    <3> QED BY <2>1, <3>1, <3>2, <3>3
  <2>7. ASSUME NEW r \in history'
        PROVE  /\ r.attempt > 1 =>
                    \E s \in history' :
                      s.delivery = r.delivery /\ s.attempt = r.attempt - 1 /\ s.status = "failed"
               /\ r.status # "failed" =>
                    \A s \in history' : s.delivery = r.delivery => s.attempt <= r.attempt
               /\ r.status = "delivered" => r.delivery.event \in Range(heard'[r.delivery.hook])
    <3>1. CASE r = row
      <4>1. r.attempt > 1 =>
              \E s \in history' :
                s.delivery = r.delivery /\ s.attempt = r.attempt - 1 /\ s.status = "failed"
        BY <2>1, <2>2, <2>3, <3>1 DEF Has
      <4>2. ASSUME NEW s \in history', s.delivery = r.delivery
            PROVE  s.attempt <= r.attempt
        BY <2>1, <2>2, <2>3, <2>a, <3>1, <4>2
      <4>3. r.status = "delivered" => r.delivery.event \in Range(heard'[r.delivery.hook])
        BY <2>1, <2>2, <2>4, <3>1
      <4> QED BY <4>1, <4>2, <4>3
    <3>2. CASE r \in history
      <4>0. HistoryIsOneLadder
        BY DEF Ladder
      <4>1. r.attempt > 1 =>
              \E s \in history' :
                s.delivery = r.delivery /\ s.attempt = r.attempt - 1 /\ s.status = "failed"
        BY <2>1, <3>2, <4>0 DEF HistoryIsOneLadder
      <4>2. ASSUME r.status # "failed", NEW s \in history', s.delivery = r.delivery
            PROVE  s.attempt <= r.attempt
        <5>1. s # row
          BY <2>2, <2>3, <3>2, <4>2
        <5> QED BY <2>1, <3>2, <4>0, <4>2, <5>1 DEF HistoryIsOneLadder
      <4>3. r.status = "delivered" => r.delivery.event \in Range(heard'[r.delivery.hook])
        BY <2>1, <3>2, <4>0 DEF HistoryIsOneLadder
      <4> QED BY <4>1, <4>2, <4>3
    <3> QED BY <2>1, <3>1, <3>2
  <2> QED BY <2>5, <2>6, <2>7 DEF Ladder, HistoryIsOneLadder
<1> QED BY <1>1, <1>2, WhoWrites

\* A worker stands on its rung, whatever the others write.
LEMMA OthersStay ==
  ASSUME TypeOK, Working, Routed, Climbing, NEW q \in Partitions, worker'[q] = worker[q],
         history' = history \/ \E r : history' = history \cup {r} /\ Home[r.delivery.hook] # q,
         dlq' = dlq \/ \E d \in Deliveries : dlq' = Append(dlq, d) /\ Home[d.hook] # q,
         \A h \in Hooks : Range(heard[h]) \subseteq Range(heard'[h])
  PROVE  Rung(q)'
<1> DEFINE w == worker[q]
           d == Request(q)
<1>1. w.pc \in {"send", "record", "bury", "backoff"} => d \in Deliveries /\ Home[d.hook] = q
  BY OwnRequest DEF Working, WorksOn
<1>2. /\ w.pc \in {"send", "record"} /\ w.attempt > 1 =>
           Has(d, w.attempt - 1, "failed") /\ UpTo(d, w.attempt - 1)
      /\ w.pc = "record" /\ w.outcome = "delivered" => d.event \in Range(heard[d.hook])
      /\ w.pc = "backoff" => Has(d, w.attempt, "failed") /\ UpTo(d, w.attempt)
      /\ w.pc = "bury" => Has(d, w.attempt, "dead") /\ \A i \in DOMAIN dlq : dlq[i] # d
  BY DEF Climbing, Rung
<1>3. Request(q)' = d /\ worker'[q] = w
  BY DEF Request
<1> HIDE DEF d, w
<1>4. ASSUME NEW e, NEW b, NEW s, Has(e, b, s)
      PROVE  \E r \in history' : r.delivery = e /\ r.attempt = b /\ r.status = s
  BY <1>4 DEF Has
<1>5. ASSUME NEW e, NEW b, Home[e.hook] = q, UpTo(e, b)
      PROVE  \A r \in history' : r.delivery = e => r.attempt <= b
  BY <1>5 DEF UpTo
<1>6. ASSUME NEW e, Home[e.hook] = q, \A i \in DOMAIN dlq : dlq[i] # e
      PROVE  \A i \in DOMAIN dlq' : dlq'[i] # e
  <2>1. CASE dlq' = dlq
    BY <1>6, <2>1
  <2>2. ASSUME NEW f \in Deliveries, dlq' = Append(dlq, f), Home[f.hook] # q
        PROVE  \A i \in DOMAIN dlq' : dlq'[i] # e
    <3>1. dlq \in Seq(Deliveries) /\ e # f
      BY <1>6, <2>2 DEF TypeOK
    <3> QED BY <1>6, <2>2, <3>1
  <2> QED BY <2>1, <2>2
<1>7. ASSUME NEW e \in Deliveries, e.event \in Range(heard[e.hook])
      PROVE  e.event \in Range(heard'[e.hook])
  BY <1>7 DEF Deliveries
<1>8. /\ w.pc \in {"send", "record"} /\ w.attempt > 1 =>
           /\ \E r \in history' : r.delivery = d /\ r.attempt = w.attempt - 1 /\ r.status = "failed"
           /\ \A r \in history' : r.delivery = d => r.attempt <= w.attempt - 1
      /\ w.pc = "backoff" =>
           /\ \E r \in history' : r.delivery = d /\ r.attempt = w.attempt /\ r.status = "failed"
           /\ \A r \in history' : r.delivery = d => r.attempt <= w.attempt
  BY <1>1, <1>2, <1>4, <1>5
<1>9. /\ w.pc = "record" /\ w.outcome = "delivered" => d.event \in Range(heard'[d.hook])
      /\ w.pc = "bury" =>
           /\ \E r \in history' : r.delivery = d /\ r.attempt = w.attempt /\ r.status = "dead"
           /\ \A i \in DOMAIN dlq' : dlq'[i] # d
  BY <1>1, <1>2, <1>4, <1>6, <1>7
<1> QED BY <1>3, <1>8, <1>9 DEF Rung, Has, UpTo

\* After a 2xx the worker goes on to the next request.
LEMMA Delivered ==
  ASSUME TypeOK, NEW p \in Partitions, AfterAttempt(p), worker[p].outcome = "delivered"
  PROVE  worker'[p] = [worker[p] EXCEPT !.pc = "take", !.todo = Tail(@)]
<1>1. worker' = [worker EXCEPT ![p] = [worker[p] EXCEPT !.pc = "take", !.todo = Tail(worker[p].todo)]]
  BY DEF AfterAttempt, WorkerGoes, GivesUp
<1> QED BY <1>1 DEF TypeOK

\* The worker that takes a step comes to stand on its next rung.
LEMMA NextRung ==
  ASSUME TypeOK, Working, Routed, Ladder, Climbing, DeadLettersOnce, NEW p \in Partitions, Works(p)
  PROVE  Rung(p)'
<1> DEFINE v == worker[p]
           w == worker'[p]
           d == Request(p)
<1> USE DEF logVars, dbVars
<1>0. /\ worker \in [Partitions -> WorkerType] /\ v \in WorkerType
      /\ v.attempt \in Nat /\ v.outcome \in Outcomes
  BY AttemptsAssumption DEF TypeOK, WorkerType
<1>1. Request(p)' = Head(w.todo)
  BY DEF Request
<1>2. CASE w.pc \in {"fetch", "take"}
  BY <1>2 DEF Rung
<1>3. CASE TakeUp(p) /\ w.pc = "send"
  <2>1. w.attempt = 1
    <3>1. w = [v EXCEPT !.pc = "send", !.attempt = 1] \/ w = [v EXCEPT !.todo = Tail(@)]
      BY <1>0, <1>3 DEF TakeUp, WorkerGoes
    <3>2. v.pc = "take"
      BY <1>3 DEF TakeUp
    <3> HIDE DEF v, w
    <3> QED BY <1>0, <1>3, <3>1, <3>2 DEF WorkerType
  <2> QED BY <1>3, <2>1 DEF Rung
<1>4. ASSUME NEW outcome \in Outcomes, Send(p, outcome)
      PROVE  Rung(p)'
  <2>1. /\ v.pc = "send" /\ w.pc = "record" /\ w.attempt = v.attempt /\ w.todo = v.todo
        /\ w.outcome = outcome /\ history' = history
    BY <1>0, <1>4 DEF Send, WorkerGoes, WorkerType
  <2>2. outcome = "delivered" => d.event \in Range(heard'[d.hook])
    BY <1>4, SendTypes
  <2>3. Request(p)' = d
    BY <2>1 DEF Request
  <2>4. w.attempt > 1 => Has(d, w.attempt - 1, "failed") /\ UpTo(d, w.attempt - 1)
    BY <2>1 DEF Climbing, Rung
  <2> QED BY <2>1, <2>2, <2>3, <2>4 DEF Rung, Has, UpTo
<1>5. CASE Record(p) /\ w.pc \notin {"fetch", "take"}
  <2>1. /\ ~(\E r \in history : SameKey(r, Row(p))) /\ AfterAttempt(p)
        /\ history' = history \cup {Row(p)} /\ dlq' = dlq
    <3>1. ~WorkerGivesUp(p)
      BY <1>0, <1>5 DEF WorkerGivesUp, WorkerGoes, WorkerType
    <3> QED BY <1>5, <3>1 DEF Record
  <2>2. /\ Row(p).delivery = d /\ Row(p).attempt = v.attempt
        /\ Row(p).status = StatusWord(v.outcome, v.attempt)
    BY <1>5, RecordTypes
  <2>3. \A r \in history : r.delivery = d => r.status = "failed" /\ r.attempt < v.attempt
    BY <1>5, <2>1, AllFailedBefore
  <2>4. /\ v.outcome # "delivered" /\ w.todo = v.todo /\ w.attempt = v.attempt
        /\ w.pc = IF GivesUp(v.outcome, v.attempt) THEN "bury" ELSE "backoff"
    <3>1. CASE v.outcome = "delivered"
      <4>1. w = [v EXCEPT !.pc = "take", !.todo = Tail(@)]
        BY <1>0, <2>1, <3>1, Delivered
      <4>2. w.pc = "take"
        <5> HIDE DEF v, w
        <5> QED BY <1>0, <4>1 DEF WorkerType
      <4> QED BY <1>5, <4>2
    <3>2. CASE v.outcome # "delivered" /\ GivesUp(v.outcome, v.attempt)
      <4>1. w = [v EXCEPT !.pc = "bury"]
        BY <1>0, <2>1, <3>2 DEF AfterAttempt, WorkerGoes
      <4> HIDE DEF v, w
      <4> QED BY <1>0, <3>2, <4>1 DEF WorkerType
    <3>3. CASE v.outcome # "delivered" /\ ~GivesUp(v.outcome, v.attempt)
      <4>1. w = [v EXCEPT !.pc = "backoff"]
        BY <1>0, <2>1, <3>3 DEF AfterAttempt, WorkerGoes
      <4> HIDE DEF v, w
      <4> QED BY <1>0, <3>3, <4>1 DEF WorkerType
    <3> QED BY <3>1, <3>2, <3>3
  <2>5. Request(p)' = d
    BY <2>4 DEF Request
  <2>6. Row(p).status = IF w.pc = "bury" THEN "dead" ELSE "failed"
    BY <2>2, <2>4 DEF StatusWord
  <2>7. \E r \in history' : r.delivery = d /\ r.attempt = w.attempt /\ r.status = IF w.pc = "bury" THEN "dead" ELSE "failed"
    BY <2>1, <2>2, <2>4, <2>6
  <2>8. \A r \in history' : r.delivery = d => r.attempt <= w.attempt
    <3>1. \A r \in history : r.attempt \in Nat
      BY AttemptsAssumption DEF TypeOK
    <3> QED BY <1>0, <2>1, <2>2, <2>3, <2>4, <3>1
  <2>9. \A i \in DOMAIN dlq' : dlq'[i] # d
    BY <2>1, <2>3 DEF DeadLettersOnce
  <2> QED BY <2>4, <2>5, <2>7, <2>8, <2>9 DEF Rung, Has, UpTo
<1>6. CASE Backoff(p)
  <2>1. /\ v.pc = "backoff" /\ w.pc = "send" /\ w.attempt = v.attempt + 1 /\ w.todo = v.todo
        /\ history' = history
    <3>1. v.pc = "backoff" /\ w = [v EXCEPT !.pc = "send", !.attempt = @ + 1] /\ history' = history
      BY <1>0, <1>6 DEF Backoff, WorkerGoes
    <3> HIDE DEF v, w
    <3> QED BY <1>0, <3>1 DEF WorkerType
  <2>2. Request(p)' = d
    BY <2>1 DEF Request
  <2>3. Has(d, v.attempt, "failed") /\ UpTo(d, v.attempt)
    BY <2>1 DEF Climbing, Rung
  <2>4. w.attempt - 1 = v.attempt
    BY <1>0, <2>1
  <2> QED BY <2>1, <2>2, <2>3, <2>4 DEF Rung, Has, UpTo
<1>7. ASSUME NEW n \in 1..MaxFetch, WorkerFetch(p, n)
      PROVE  w.pc = "take"
  <2>1. w = [v EXCEPT !.pc = "take", !.offset = @ + n,
               !.todo = SubSeq(queue[p], v.offset + 1, v.offset + n)]
    BY <1>0, <1>7 DEF WorkerFetch, WorkerGoes
  <2> HIDE DEF v, w
  <2> QED BY <1>0, <2>1 DEF WorkerType
<1>8. CASE TakeUp(p)
  <2>1. (w = [v EXCEPT !.pc = "send", !.attempt = 1] \/ w = [v EXCEPT !.todo = Tail(@)]) /\ v.pc = "take"
    BY <1>0, <1>8 DEF TakeUp, WorkerGoes
  <2>2. w.pc \in {"take", "send"}
    <3> HIDE DEF v, w
    <3> QED BY <1>0, <2>1 DEF WorkerType
  <2>3. w.pc = "send" \/ w.pc \in {"fetch", "take"}
    BY <2>2
  <2> QED BY <1>2, <1>3, <1>8, <2>3
<1>9. CASE Bury(p)
  <2>1. w = [v EXCEPT !.pc = "take", !.todo = Tail(@)]
    BY <1>0, <1>9 DEF Bury, WorkerGoes
  <2>2. w.pc = "take"
    <3> HIDE DEF v, w
    <3> QED BY <1>0, <2>1 DEF WorkerType
  <2> QED BY <1>2, <2>2
<1>10. CASE WorkerCursor(p) \/ BuryFails(p) \/ WorkerFails(p)
  <2>1. w = [v EXCEPT !.pc = "fetch"] \/ w = [v EXCEPT !.pc = "fetch", !.todo = <<>>]
    BY <1>0, <1>10 DEF WorkerCursor, BuryFails, WorkerFails, WorkerGivesUp, WorkerGoes
  <2>2. w.pc = "fetch"
    <3> HIDE DEF v, w
    <3> QED BY <1>0, <2>1 DEF WorkerType
  <2> QED BY <1>2, <2>2
<1>11. CASE Record(p)
  <2>1. w.pc \in {"fetch", "take"} \/ w.pc \notin {"fetch", "take"}
    OBVIOUS
  <2> QED BY <1>2, <1>5, <1>11, <2>1
<1> QED BY <1>2, <1>4, <1>6, <1>7, <1>8, <1>9, <1>10, <1>11 DEF Works, WorkerStep

LEMMA ClimbingStep ==
  ASSUME TypeOK, Working, Routed, Ladder, Climbing, DeadLettersOnce, [Next]_vars
  PROVE  Climbing'
<1> USE DEF logVars, dbVars
<1>h. \A h \in Hooks : Range(heard[h]) \subseteq Range(heard'[h])
  BY HeardGrows
<1>1. ASSUME NEW p \in Partitions, Works(p), NEW q \in Partitions
      PROVE  Rung(q)'
  <2>1. CASE q = p
    BY <1>1, <2>1, NextRung
  <2>2. CASE q # p
    <3>1. worker'[q] = worker[q]
      <4>1. PICK w : Step(p, w) /\ worker' = [worker EXCEPT ![p] = w]
        BY <1>1, WorkerSteps DEF Works
      <4> QED BY <2>2, <4>1 DEF TypeOK
    <3>2. history' = history \/ \E r : history' = history \cup {r} /\ Home[r.delivery.hook] # q
      <4>1. CASE Record(p)
        <5>1. worker[p].todo # <<>>
          BY <4>1 DEF Working, WorksOn, Record
        <5>2. Row(p).delivery = Request(p) /\ Home[Request(p).hook] = p
          BY <4>1, <5>1, OwnRequest, RecordTypes
        <5> QED BY <2>2, <4>1, <5>2 DEF Record
      <4> QED BY <1>1, <4>1, WorkerFrame
    <3>3. dlq' = dlq \/ \E d \in Deliveries : dlq' = Append(dlq, d) /\ Home[d.hook] # q
      <4>1. CASE Bury(p)
        <5>1. worker[p].todo # <<>>
          BY <4>1 DEF Working, WorksOn, Bury
        <5>2. Request(p) \in Deliveries /\ Home[Request(p).hook] = p
          BY <5>1, OwnRequest
        <5> QED BY <2>2, <4>1, <5>2 DEF Bury
      <4> QED BY <1>1, <4>1, WorkerFrame
    <3> QED BY <1>h, <3>1, <3>2, <3>3, OthersStay
  <2> QED BY <2>1, <2>2
<1>2. CASE Restart
  <2>1. \A q \in Partitions : worker'[q].pc = "fetch"
    BY <1>2 DEF Restart, Idle
  <2> QED BY <2>1 DEF Climbing, Rung
<1>3. ASSUME \/ \E kind \in {"repo", "other"} : Emit(kind)
             \/ \E h \in Hooks, state \in {"active", "disabled", "absent"} : Configure(h, state)
             \/ MatcherStep \/ FanOutFails \/ MatchCursorFails \/ UNCHANGED vars
      PROVE  worker' = worker /\ history' = history /\ dlq' = dlq
  BY <1>3 DEF Emit, Configure, MatcherStep, MatchFetch, FanOut, MatchCursor, FanOutFails,
     MatchCursorFails, vars
<1>4. CASE worker' = worker /\ history' = history /\ dlq' = dlq
  <2>1. \A q \in Partitions : Rung(q)'
    BY <1>4, <1>h, OthersStay
  <2> QED BY <2>1 DEF Climbing
<1> QED BY <1>1, <1>2, <1>3, <1>4 DEF Climbing, Next, Works

LEMMA DeadLettersStep ==
  ASSUME TypeOK, Climbing, DeadLettersOnce, [Next]_vars
  PROVE  DeadLettersOnce'
<1>1. history \subseteq history'
  BY WhoWrites DEF Record
<1>2. CASE dlq' = dlq
  BY <1>1, <1>2 DEF DeadLettersOnce
<1>3. ASSUME NEW p \in Partitions, Bury(p)
      PROVE  DeadLettersOnce'
  <2> DEFINE d == Request(p)
  <2>1. dlq' = Append(dlq, d) /\ dlq \in Seq(Deliveries)
    BY <1>3 DEF Bury, TypeOK
  <2>2. Has(d, worker[p].attempt, "dead") /\ \A i \in DOMAIN dlq : dlq[i] # d
    BY <1>3 DEF Bury, Climbing, Rung
  <2>3. \E r \in history' : r.delivery = d /\ r.status = "dead"
    BY <1>1, <2>2 DEF Has
  <2> HIDE DEF d
  <2>4. /\ DOMAIN dlq' = 1..(Len(dlq) + 1) /\ DOMAIN dlq = 1..Len(dlq) /\ Len(dlq) \in Nat
        /\ dlq'[Len(dlq) + 1] = d /\ \A i \in 1..Len(dlq) : dlq'[i] = dlq[i]
    BY <2>1
  <2>5. \A i \in DOMAIN dlq' : i \in DOMAIN dlq \/ i = Len(dlq) + 1
    BY <2>4
  <2>6. \A i, j \in DOMAIN dlq' : dlq'[i] = dlq'[j] => i = j
    BY <2>2, <2>4, <2>5 DEF DeadLettersOnce
  <2>7. \A i \in DOMAIN dlq' : \E r \in history' : r.delivery = dlq'[i] /\ r.status = "dead"
    BY <1>1, <2>3, <2>4, <2>5 DEF DeadLettersOnce
  <2> QED BY <2>6, <2>7 DEF DeadLettersOnce
<1> QED BY <1>2, <1>3, WhoWrites

-----------------------------------------------------------------------------
(***************************************************************************)
(* The order of the events                                                 *)
(***************************************************************************)

LEMMA QueueTypes ==
  ASSUME TypeOK, NEW p \in Partitions
  PROVE  Len(queue[p]) \in Nat /\ \A k \in 1..Len(queue[p]) : queue[p][k].event \in Nat
<1>1. queue[p] \in Seq(Deliveries)
  BY DEF TypeOK
<1>2. \A k \in 1..Len(queue[p]) : queue[p][k] \in Deliveries
  BY <1>1
<1> QED BY <1>1, <1>2 DEF Deliveries

\* While the process lives, nobody goes back.
LEMMA AtMoves ==
  ASSUME TypeOK, Working, [Next]_vars, ~Restart, NEW p \in Partitions
  PROVE  At(p) \in Int /\ At(p)' \in Int /\ At(p)' >= At(p)
<1>0. At(p) \in Int
  BY DEF TypeOK, At
<1>1. CASE worker' = worker
  BY <1>0, <1>1 DEF At
<1>2. ASSUME NEW q \in Partitions, Works(q)
      PROVE  At(p)' \in Int /\ At(p)' >= At(p)
  <2>1. PICK w : Step(q, w) /\ worker' = [worker EXCEPT ![q] = w]
    BY <1>2, WorkerSteps DEF Works
  <2>2. CASE q # p
    <3>1. worker'[p] = worker[p]
      BY <2>1, <2>2 DEF TypeOK
    <3> QED BY <1>0, <3>1 DEF At
  <2>3. CASE q = p
    <3>1. worker'[p] = w
      BY <2>1, <2>3 DEF TypeOK
    <3>2. w \in WorkerType /\ w.offset - Len(w.todo) >= At(p)
      BY <2>1, <2>3, StepTypes, StepWorks
    <3>3. w.offset \in Nat /\ Len(w.todo) \in Nat
      BY <3>2 DEF WorkerType
    <3>4. At(p)' = w.offset - Len(w.todo)
      BY <3>1 DEF At
    <3> QED BY <3>2, <3>3, <3>4
  <2> QED BY <2>2, <2>3
<1> QED BY <1>0, <1>1, <1>2, WorkersAlone

LEMMA AheadMoves ==
  ASSUME TypeOK, Following, [Next]_vars, ~Restart
  PROVE  /\ Ahead \in Int
         /\ \/ FanOut /\ Ahead' = Ahead + 1 /\ Head(matcher.todo) = Ahead
            \/ queue' = queue /\ Ahead' >= Ahead
<1>1. Ahead \in Int
  BY DEF TypeOK, Ahead
<1> QED BY <1>1, MatcherMoves, FanOutFollows

LEMMA QueuedInOrderStep ==
  ASSUME TypeOK, TypeOK', Following, QueuedInOrder, [Next]_vars, ~Restart
  PROVE  QueuedInOrder'
<1>0. Ahead \in Int /\ Ahead' \in Int
  BY DEF TypeOK, Ahead
<1>e. \A p \in Partitions : \A k \in 1..Len(queue[p]) : queue[p][k].event \in Nat
  BY QueueTypes
<1>1. CASE queue' = queue /\ Ahead' >= Ahead
  <2>1. \A p \in Partitions : \A k \in 1..Len(queue[p]) : queue[p][k].event < Ahead'
    BY <1>0, <1>e, <1>1 DEF QueuedInOrder
  <2> QED BY <1>1, <2>1 DEF QueuedInOrder
<1>2. CASE FanOut /\ Ahead' = Ahead + 1 /\ Head(matcher.todo) = Ahead
  <2>1. ASSUME NEW p \in Partitions
        PROVE  /\ \A i, j \in 1..Len(queue'[p]) :
                    i < j /\ queue'[p][i].hook = queue'[p][j].hook => queue'[p][i].event < queue'[p][j].event
               /\ \A k \in 1..Len(queue'[p]) : queue'[p][k].event < Ahead'
    <3> DEFINE n == Len(queue[p])
    <3>1. /\ n \in Nat /\ Len(queue'[p]) \in Nat /\ n <= Len(queue'[p])
          /\ \A k \in 1..n : queue'[p][k] = queue[p][k]
      BY <1>2, FanOutQueues
    <3>2. \A k \in 1..Len(queue'[p]) : k > n =>
            /\ queue'[p][k].event = Ahead
            /\ \A l \in 1..Len(queue'[p]) : l > n /\ queue'[p][l].hook = queue'[p][k].hook => k = l
      BY <1>2, FanOutQueues
    <3>3. \A k \in 1..n : queue[p][k].event < Ahead /\ queue[p][k].event \in Nat
      BY <1>e DEF QueuedInOrder
    <3>4. \A i, j \in 1..n : i < j /\ queue[p][i].hook = queue[p][j].hook => queue[p][i].event < queue[p][j].event
      BY DEF QueuedInOrder
    <3> HIDE DEF n
    <3>5. ASSUME NEW k \in 1..Len(queue'[p])
          PROVE  queue'[p][k].event < Ahead'
      <4>1. CASE k > n
        BY <1>0, <1>2, <3>2, <4>1
      <4>2. CASE k \in 1..n
        BY <1>0, <1>2, <3>1, <3>3, <4>2
      <4> QED BY <3>1, <4>1, <4>2
    <3>6. ASSUME NEW i \in 1..Len(queue'[p]), NEW j \in 1..Len(queue'[p]),
                 i < j, queue'[p][i].hook = queue'[p][j].hook
          PROVE  queue'[p][i].event < queue'[p][j].event
      <4>1. CASE i > n
        <5>1. i \in Int /\ j \in Int /\ j > n
          BY <3>1, <3>6, <4>1
        <5>2. i = j
          BY <3>2, <3>6, <4>1, <5>1
        <5> QED BY <3>6, <5>1, <5>2
      <4>2. CASE i \in 1..n /\ j > n
        BY <3>1, <3>2, <3>3, <4>2
      <4>3. CASE i \in 1..n /\ j \in 1..n
        BY <3>1, <3>4, <3>6, <4>3
      <4> QED BY <3>1, <3>6, <4>1, <4>2, <4>3
    <3> QED BY <3>5, <3>6
  <2> QED BY <2>1 DEF QueuedInOrder
<1> QED BY <1>1, <1>2, AheadMoves

\* What the worker sends is the first of what it has left.
LEMMA SendsNext ==
  ASSUME TypeOK, Working, NEW p \in Partitions, worker[p].todo # <<>>
  PROVE  /\ At(p) \in Nat /\ At(p) + 1 \in 1..Len(queue[p])
         /\ Request(p) = queue[p][At(p) + 1]
<1> DEFINE w == worker[p]
<1>1. w.todo \in Seq(Deliveries) /\ w.offset \in Nat /\ Len(w.todo) \in Nat /\ Len(queue[p]) \in Nat
  BY DEF TypeOK
<1>2. Len(w.todo) > 0 /\ Request(p) = w.todo[1]
  BY <1>1, Rest DEF Request
<1>3. /\ Len(w.todo) <= w.offset /\ w.offset <= Len(queue[p])
      /\ \A i \in 1..Len(w.todo) : w.todo[i] = queue[p][w.offset - Len(w.todo) + i]
  BY DEF Working, WorksOn
<1>4. At(p) = w.offset - Len(w.todo)
  BY DEF At
<1> HIDE DEF w
<1> QED BY <1>1, <1>2, <1>3, <1>4

LEMMA HeardInOrderStep ==
  ASSUME TypeOK, TypeOK', Following, Working, Routed, QueuedInOrder, HeardInOrder, [Next]_vars, ~Restart
  PROVE  HeardInOrder'
<1>0. Ahead \in Int /\ Ahead' \in Int /\ Ahead' >= Ahead
  <2>1. Ahead \in Int /\ Ahead' \in Int
    BY DEF TypeOK, Ahead
  <2> QED BY <2>1, AheadMoves
<1>1. ASSUME NEW h \in Hooks
      PROVE  LET p == Home[h]
             IN  /\ p \in Partitions /\ At(p) \in Int /\ At(p)' \in Int /\ At(p)' >= At(p)
                 /\ Len(queue[p]) \in Nat /\ Len(queue'[p]) \in Nat
                 /\ \A k \in 1..Len(queue[p]) : queue'[p][k] = queue[p][k] /\ queue[p][k].event \in Nat
                 /\ \A k \in 1..Len(queue'[p]) : k > Len(queue[p]) => queue'[p][k].event = Ahead
  <2> DEFINE p == Home[h]
  <2>1. p \in Partitions
    BY HomeAssumption
  <2>2. At(p) \in Int /\ At(p)' \in Int /\ At(p)' >= At(p)
    BY <2>1, AtMoves
  <2> HIDE DEF p
  <2>3. Len(queue[p]) \in Nat /\ Len(queue'[p]) \in Nat /\ \A k \in 1..Len(queue[p]) : queue[p][k].event \in Nat
    <3>1. queue[p] \in Seq(Deliveries) /\ queue'[p] \in Seq(Deliveries)
      BY <2>1 DEF TypeOK
    <3> QED BY <2>1, <3>1, QueueTypes
  <2>4. CASE queue' = queue
    <3>1. \A k \in 1..Len(queue'[p]) : ~(k > Len(queue[p]))
      BY <2>3, <2>4
    <3> QED BY <2>1, <2>2, <2>3, <2>4, <3>1 DEF p
  <2>5. CASE FanOut /\ Head(matcher.todo) = Ahead
    <3>1. /\ \A k \in 1..Len(queue[p]) : queue'[p][k] = queue[p][k]
          /\ \A k \in 1..Len(queue'[p]) : k > Len(queue[p]) => queue'[p][k].event = Ahead
      BY <2>1, <2>5, FanOutQueues
    <3> QED BY <2>1, <2>2, <2>3, <3>1 DEF p
  <2> QED BY <2>4, <2>5, AheadMoves
<1>2. ASSUME NEW h \in Hooks, heard'[h] = heard[h]
      PROVE  /\ \A i, j \in DOMAIN heard'[h] : i < j => heard'[h][i] < heard'[h][j]
             /\ \A i \in DOMAIN heard'[h] : heard'[h][i] < Ahead'
             /\ \A i \in DOMAIN heard'[h] : \A k \in 1..Len(queue'[Home[h]]) :
                  k > At(Home[h])' /\ queue'[Home[h]][k].hook = h =>
                    heard'[h][i] <= queue'[Home[h]][k].event
  <2> DEFINE p == Home[h]
             s == heard[h]
  <2>0. s \in Seq(Nat) /\ \A i \in DOMAIN s : s[i] \in Nat
    BY SMTT(30) DEF TypeOK
  <2>1. /\ \A i, j \in DOMAIN s : i < j => s[i] < s[j]
        /\ \A i \in DOMAIN s : s[i] < Ahead
        /\ \A i \in DOMAIN s : \A k \in 1..Len(queue[p]) :
             k > At(p) /\ queue[p][k].hook = h => s[i] <= queue[p][k].event
    BY DEF HeardInOrder
  <2>2. /\ At(p) \in Int /\ At(p)' \in Int /\ At(p)' >= At(p)
        /\ Len(queue[p]) \in Nat /\ Len(queue'[p]) \in Nat
        /\ \A k \in 1..Len(queue[p]) : queue'[p][k] = queue[p][k] /\ queue[p][k].event \in Nat
        /\ \A k \in 1..Len(queue'[p]) : k > Len(queue[p]) => queue'[p][k].event = Ahead
    BY <1>1
  <2>3. heard'[h] = s
    BY <1>2
  <2> HIDE DEF p, s
  <2>4. \A i \in DOMAIN s : s[i] < Ahead'
    BY <1>0, <2>0, <2>1
  <2>5. ASSUME NEW i \in DOMAIN s, NEW k \in 1..Len(queue'[p]), k > At(p)', queue'[p][k].hook = h
        PROVE  s[i] <= queue'[p][k].event
    <3>1. CASE k > Len(queue[p])
      BY <1>0, <2>0, <2>1, <2>2, <3>1
    <3>2. CASE k \in 1..Len(queue[p])
      <4>1. k > At(p)
        BY <2>2, <2>5
      <4> QED BY <2>1, <2>2, <2>5, <3>2, <4>1
    <3> QED BY <2>2, <3>1, <3>2
  <2>6. At(Home[h])' = At(p)' /\ queue'[Home[h]] = queue'[p]
    BY DEF p
  <2> QED BY <2>1, <2>3, <2>4, <2>5 DEF p
<1>3. CASE heard' = heard
  BY <1>2, <1>3 DEF HeardInOrder
<1>4. ASSUME NEW p \in Partitions, NEW outcome \in Outcomes, Send(p, outcome), heard' # heard
      PROVE  HeardInOrder'
  <2>0. PICK g \in Hooks, e \in Nat : Request(p) = [hook |-> g, event |-> e]
    <3>1. Request(p) \in Deliveries
      BY <1>4, SendTypes
    <3> QED BY <3>1 DEF Deliveries
  <2> DEFINE s == heard[g]
  <2>1. heard' = [heard EXCEPT ![g] = Append(@, e)] /\ e \notin Range(s)
    BY <1>4, <2>0, SendTypes
  <2>2. worker[p].todo # <<>> /\ worker'[p].todo = worker[p].todo /\ worker'[p].offset = worker[p].offset
    BY <1>4 DEF Send, Working, WorksOn, WorkerGoes, TypeOK
  <2>3. Home[g] = p
    BY <2>0, <2>2, OwnRequest
  <2>4. /\ At(p) \in Nat /\ At(p) + 1 \in 1..Len(queue[p]) /\ At(p)' = At(p)
        /\ queue[p][At(p) + 1].hook = g /\ queue[p][At(p) + 1].event = e
    BY <2>0, <2>2, SendsNext DEF At
  <2>5. queue' = queue /\ matcher' = matcher /\ Ahead' = Ahead
    BY <1>4 DEF Send, logVars, Ahead
  <2>6. s \in Seq(Nat) /\ heard'[g] = Append(s, e)
    BY <2>1, <2>3 DEF TypeOK
  <2>7. \A i \in DOMAIN s : s[i] < e
    <3>1. \A i \in DOMAIN s : s[i] <= e
      BY <2>3, <2>4 DEF HeardInOrder
    <3>2. \A i \in DOMAIN s : s[i] \in Nat /\ s[i] # e
      BY <2>1, <2>6 DEF Range
    <3> QED BY <2>3, <3>1, <3>2
  <2>8. e < Ahead
    BY <2>4 DEF QueuedInOrder
  <2>9. \A k \in 1..Len(queue[p]) : k > At(p) /\ queue[p][k].hook = g => e <= queue[p][k].event
    <3>1. ASSUME NEW k \in 1..Len(queue[p]), k > At(p), queue[p][k].hook = g
          PROVE  e <= queue[p][k].event
      <4> DEFINE l == At(p) + 1
      <4>1. l \in 1..Len(queue[p]) /\ queue[p][l].hook = g /\ queue[p][l].event = e /\ (l = k \/ l < k)
        BY <2>4, <3>1
      <4>2. queue[p][k].event \in Nat
        BY QueueTypes
      <4> HIDE DEF l
      <4> QED BY <2>3, <3>1, <4>1, <4>2 DEF QueuedInOrder
    <3> QED BY <3>1
  <2>10. /\ \A i, j \in DOMAIN s : i < j => s[i] < s[j]
         /\ \A i \in DOMAIN s : s[i] < Ahead
         /\ \A i \in DOMAIN s : \A k \in 1..Len(queue[p]) :
              k > At(p) /\ queue[p][k].hook = g => s[i] <= queue[p][k].event
    BY <2>3 DEF HeardInOrder
  <2> HIDE DEF s
  <2>11. /\ DOMAIN heard'[g] = 1..Len(s) + 1 /\ DOMAIN s = 1..Len(s) /\ Len(s) \in Nat
         /\ heard'[g][Len(s) + 1] = e /\ \A i \in 1..Len(s) : heard'[g][i] = s[i]
    BY <2>3, <2>6
  <2>12. /\ \A i, j \in DOMAIN heard'[g] : i < j => heard'[g][i] < heard'[g][j]
         /\ \A i \in DOMAIN heard'[g] : heard'[g][i] < Ahead'
    BY <2>5, <2>7, <2>8, <2>10, <2>11
  <2>13. \A i \in DOMAIN heard'[g] : \A k \in 1..Len(queue'[Home[g]]) :
           k > At(Home[g])' /\ queue'[Home[g]][k].hook = g => heard'[g][i] <= queue'[Home[g]][k].event
    <3>1. \A i \in DOMAIN heard'[g] : \A k \in 1..Len(queue[p]) :
            k > At(p) /\ queue[p][k].hook = g => heard'[g][i] <= queue[p][k].event
      BY <2>9, <2>10, <2>11
    <3>2. At(Home[g])' = At(p) /\ queue'[Home[g]] = queue[p]
      BY <2>3, <2>4, <2>5 DEF At
    <3> QED BY <3>1, <3>2
  <2>14. \A h \in Hooks \ {g} : heard'[h] = heard[h]
    BY <2>1 DEF TypeOK
  <2> QED BY <1>2, <2>12, <2>13, <2>14 DEF HeardInOrder
<1>5. heard' = heard \/ \E p \in Partitions, outcome \in Outcomes : Send(p, outcome)
  BY WhoSends
<1> QED BY <1>3, <1>4, <1>5

LEMMA OrderedStep ==
  ASSUME TypeOK, TypeOK', Following, Working, Routed, Ordered, [Next]_vars
  PROVE  Ordered'
<1> USE DEF countVars
<1>0. restarts \in Nat
  BY DEF TypeOK
<1>1. restarts' = restarts \/ restarts' = restarts + 1
  <2>1. CASE \E p \in Partitions : Works(p)
    BY <2>1, WorkerFrame
  <2>2. CASE FanOutFails \/ MatchCursorFails
    BY <2>2, Zenon DEF FanOutFails, MatchCursorFails, CallFails
  <2>3. CASE \/ \E kind \in {"repo", "other"} : Emit(kind)
             \/ \E h \in Hooks, state \in {"active", "disabled", "absent"} : Configure(h, state)
             \/ Restart \/ MatcherStep \/ UNCHANGED vars
    BY <2>3 DEF Emit, Configure, Restart, MatcherStep, MatchFetch, FanOut, MatchCursor, vars
  <2> QED BY <2>1, <2>2, <2>3 DEF Next, Works
<1>2. Restart => restarts' = restarts + 1
  BY DEF Restart
<1>3. CASE restarts' = 0
  <2>1. restarts = 0 /\ ~Restart
    BY <1>0, <1>1, <1>2, <1>3
  <2> QED BY <2>1, QueuedInOrderStep, HeardInOrderStep DEF Ordered
<1> QED BY <1>3 DEF Ordered

-----------------------------------------------------------------------------
(***************************************************************************)
(* The theorems                                                            *)
(***************************************************************************)
LEMMA InitInvariant ==
  ASSUME Init
  PROVE  IInv
<1>1. TypeOK
  <2>1. Idle \in WorkerType
    BY AttemptsAssumption DEF Idle, WorkerType, Outcomes
  <2>2. matcher \in [pc : {"fetch", "match"}, offset : Nat, todo : Seq(Nat)]
    BY DEF Init
  <2>3. worker \in [Partitions -> WorkerType]
    BY <2>1 DEF Init
  <2>4. /\ events \in Seq({"repo", "other"}) /\ queue \in [Partitions -> Seq(Deliveries)]
        /\ dlq \in Seq(Deliveries) /\ heard \in [Hooks -> Seq(Nat)] /\ wcursor \in [Partitions -> Nat]
    BY DEF Init
  <2>5. /\ history \subseteq [delivery : Deliveries, attempt : 1..MaxAttempts, status : Statuses]
        /\ matched \subseteq Nat /\ hooks \in [Hooks -> {"active", "disabled", "absent"}]
        /\ mcursor \in Nat /\ edits \in Nat /\ restarts \in Nat /\ failures \in Nat
    BY DEF Init
  <2>6. fenced \in BOOLEAN
    BY DEF Init
  <2> QED BY <2>2, <2>3, <2>4, <2>5, <2>6 DEF TypeOK, WorkerType
<1>2. Following
  BY DEF Init, Following
<1>3. Working
  BY DEF Init, Working, WorksOn, Idle
<1>4. Routed /\ NothingSkipped
  BY DEF Init, Routed, NothingSkipped, Ahead
<1>5. Ladder
  BY DEF Init, Ladder, HistoryIsOneLadder
<1>6. Climbing
  BY DEF Init, Climbing, Rung, Idle
<1>7. DeadLettersOnce
  BY DEF Init, DeadLettersOnce
<1>8. Ordered
  BY DEF Init, Ordered, QueuedInOrder, HeardInOrder
<1> QED BY <1>1, <1>2, <1>3, <1>4, <1>5, <1>6, <1>7, <1>8 DEF IInv

LEMMA StepInvariant ==
  ASSUME IInv, [Next]_vars
  PROVE  IInv'
<1> USE DEF IInv
<1>1. TypeOK'
  BY TypeStep
<1>2. Following' /\ NothingSkipped'
  BY MatcherMoves, NothingSkippedStep
<1>3. Working' /\ Routed'
  BY WorkingStep, RoutedStep
<1>4. Ladder' /\ Climbing' /\ DeadLettersOnce'
  BY LadderStep, ClimbingStep, DeadLettersStep
<1>5. Ordered'
  BY <1>1, OrderedStep
<1> QED BY <1>1, <1>2, <1>3, <1>4, <1>5

\* The invariant holds in every behaviour: whatever edits, failed calls and
\* deaths of the process come between the steps of matcher and workers.
THEOREM Invariant == Spec => []IInv
<1>1. Init => IInv
  BY InitInvariant
<1>2. IInv /\ [Next]_vars => IInv'
  BY StepInvariant
<1> QED BY <1>1, <1>2, PTL DEF Spec

\* Type correctness of the queue, the history, the cursors and the workers.
THEOREM TypeCorrect == Spec => []TypeOK
<1>1. IInv => TypeOK
  BY DEF IInv
<1> QED BY <1>1, Invariant, PTL

\* The rows of a delivery are one ladder of attempts, through restarts, replays
\* of the queue and failed calls: what the plain INSERT of history.rs is for.
THEOREM OneLadder == Spec => []HistoryIsOneLadder
<1>1. IInv => HistoryIsOneLadder
  BY DEF IInv, Ladder
<1> QED BY <1>1, Invariant, PTL

\* However often its request is replayed, a delivery is parked once, and with a
\* row that says so.
THEOREM ParkedOnce == Spec => []DeadLettersOnce
<1>1. IInv => DeadLettersOnce
  BY DEF IInv
<1> QED BY <1>1, Invariant, PTL

\* A matcher that dies at any point has matched every event below its cursor.
THEOREM MatcherLosesNothing == Spec => []RestartsLoseNothing
<1>1. IInv => RestartsLoseNothing
  <2> SUFFICES ASSUME IInv, failures = 0, NEW o \in 0..(mcursor - 1)
               PROVE  o \in matched
    BY DEF RestartsLoseNothing, MatchesEverything
  <2>1. mcursor \in Nat
    BY DEF IInv, TypeOK
  <2>2. o \in Nat /\ o < mcursor
    BY <2>1
  <2> QED BY <2>2 DEF IInv, NothingSkipped
<1> QED BY <1>1, Invariant, PTL

\* A receiver hears the events of its webhook in the order of the log: keying
\* the queue by webhook and retrying in place are enough for it.
THEOREM HeardInLogOrder == Spec => []InOrder
<1>1. IInv => InOrder
  BY DEF IInv, Ordered, HeardInOrder, InOrder
<1> QED BY <1>1, Invariant, PTL
=============================================================================
