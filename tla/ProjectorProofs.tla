-------------------------- MODULE ProjectorProofs ---------------------------
(***************************************************************************)
(* Proofs about the projector, for any readers, any batches, any length of *)
(* the topic and any number of crashes and failed calls.                   *)
(***************************************************************************)
EXTENDS Projector, TLAPS

(***************************************************************************)
(* Helpers on sequences of offsets                                         *)
(***************************************************************************)

\* The range of an extended sequence.
LEMMA RangeAppend ==
  ASSUME NEW s \in Seq(Nat), NEW o \in Nat
  PROVE  Range(Append(s, o)) = Range(s) \cup {o}
<1>1. \A x \in Range(s) : x \in Range(Append(s, o))
  BY DEF Range
<1>2. o \in Range(Append(s, o))
  <2>1. Len(s) + 1 \in DOMAIN Append(s, o) /\ Append(s, o)[Len(s) + 1] = o
    OBVIOUS
  <2> QED BY <2>1 DEF Range
<1>3. \A x \in Range(Append(s, o)) : x \in Range(s) \/ x = o
  BY DEF Range
<1> QED BY <1>1, <1>2, <1>3

\* The range of two sequences joined.
LEMMA RangeConcat ==
  ASSUME NEW s \in Seq(Nat), NEW t \in Seq(Nat)
  PROVE  Range(s \o t) = Range(s) \cup Range(t)
<1>0. /\ s \o t \in Seq(Nat) /\ Len(s \o t) = Len(s) + Len(t)
      /\ DOMAIN (s \o t) = 1..(Len(s) + Len(t))
      /\ \A i \in 1..Len(s) : (s \o t)[i] = s[i]
      /\ \A i \in 1..Len(t) : (s \o t)[Len(s) + i] = t[i]
      /\ \A i \in (Len(s) + 1)..(Len(s) + Len(t)) : (s \o t)[i] = t[i - Len(s)]
  OBVIOUS
<1>1. \A x \in Range(s) : x \in Range(s \o t)
  <2> TAKE x \in Range(s)
  <2>1. PICK i \in 1..Len(s) : x = s[i]
    BY DEF Range
  <2>2. i \in DOMAIN (s \o t) /\ (s \o t)[i] = x
    BY <1>0, <2>1
  <2> QED BY <2>2 DEF Range
<1>2. \A x \in Range(t) : x \in Range(s \o t)
  <2> TAKE x \in Range(t)
  <2>1. PICK i \in 1..Len(t) : x = t[i]
    BY DEF Range
  <2>2. Len(s) + i \in DOMAIN (s \o t) /\ (s \o t)[Len(s) + i] = x
    BY <1>0, <2>1
  <2> QED BY <2>2 DEF Range
<1>3. \A x \in Range(s \o t) : x \in Range(s) \/ x \in Range(t)
  <2> SUFFICES ASSUME NEW i \in 1..(Len(s) + Len(t))
               PROVE  (s \o t)[i] \in Range(s) \/ (s \o t)[i] \in Range(t)
    BY <1>0 DEF Range
  <2>1. CASE i \in 1..Len(s)
    BY <1>0, <2>1 DEF Range
  <2>2. CASE i \in (Len(s) + 1)..(Len(s) + Len(t))
    <3>1. i - Len(s) \in DOMAIN t /\ (s \o t)[i] = t[i - Len(s)]
      BY <1>0, <2>2
    <3> QED BY <3>1 DEF Range
  <2> QED BY <2>1, <2>2
<1> QED BY <1>1, <1>2, <1>3

\* Appending something larger keeps a sequence increasing.
LEMMA IncreasingAppend ==
  ASSUME NEW s \in Seq(Nat), NEW o \in Nat, Increasing(s), \A x \in Range(s) : x < o
  PROVE  Increasing(Append(s, o))
<1>1. \A i \in 1..Len(s) : s[i] < o
  BY DEF Range
<1> QED BY <1>1 DEF Increasing

\* Joining increasing sequences, the second wholly above the first.
LEMMA IncreasingConcat ==
  ASSUME NEW s \in Seq(Nat), NEW t \in Seq(Nat), Increasing(s), Increasing(t),
         \A x \in Range(s), y \in Range(t) : x < y
  PROVE  Increasing(s \o t)
<1>0. /\ DOMAIN (s \o t) = 1..(Len(s) + Len(t))
      /\ \A i \in 1..Len(s) : (s \o t)[i] = s[i]
      /\ \A i \in (Len(s) + 1)..(Len(s) + Len(t)) : (s \o t)[i] = t[i - Len(s)]
  OBVIOUS
<1>1. \A i \in 1..Len(s), j \in 1..Len(t) : s[i] < t[j]
  BY DEF Range
<1> SUFFICES ASSUME NEW i \in 1..(Len(s) + Len(t)), NEW j \in 1..(Len(s) + Len(t)), i < j
             PROVE  (s \o t)[i] < (s \o t)[j]
  BY <1>0 DEF Increasing
<1>2. CASE j <= Len(s)
  BY <1>0, <1>2 DEF Increasing
<1>3. CASE i <= Len(s) /\ Len(s) < j
  <2>1. j - Len(s) \in 1..Len(t)
    BY <1>3
  <2> QED BY <1>0, <1>1, <1>3, <2>1
<1>4. CASE Len(s) < i
  <2>1. i - Len(s) \in DOMAIN t /\ j - Len(s) \in DOMAIN t /\ i - Len(s) < j - Len(s)
    BY <1>4
  <2> QED BY <1>0, <1>4, <2>1 DEF Increasing
<1> QED BY <1>2, <1>3, <1>4

(***************************************************************************)
(* The log only grows, so what it holds below its end stays.               *)
(***************************************************************************)

\* Appending a record leaves the events below the end as they were.
LEMMA EventsKept ==
  ASSUME TypeOK, NEW kind \in Kinds, Write(kind),
         NEW a \in Nat, NEW b \in Nat, b <= Len(log)
  PROVE  {o \in a..(b - 1) : log'[o + 1] = "event"} = EventsIn(a, b)
<1>1. \A o \in a..(b - 1) : log'[o + 1] = log[o + 1]
  BY DEF TypeOK, Write
<1> QED BY <1>1 DEF EventsIn, IsEvent

(***************************************************************************)
(* Each action keeps the invariant                                         *)
(***************************************************************************)
LEMMA WriteKeeps ==
  ASSUME IInv, NEW kind \in Kinds, Write(kind)
  PROVE  IInv'
<1> USE DEF IInv
<1>1. /\ log' \in Seq(Kinds) /\ Len(log') = Len(log) + 1
      /\ \A o \in 0..(Len(log) - 1) : log'[o + 1] = log[o + 1]
      /\ UNCHANGED <<dbVars, taskVars, faultVars, readerVars>>
  BY DEF TypeOK, Write
<1>2. TypeOK'
  BY <1>1 DEF TypeOK, dbVars, taskVars, faultVars, readerVars
<1>3. \A a, b \in Nat : b <= Len(log) => {o \in a..(b - 1) : log'[o + 1] = "event"} = EventsIn(a, b)
  BY EventsKept
<1>4. cursor \in Nat /\ offset \in Nat /\ next \in Nat /\ Len(log) \in Nat
  BY DEF TypeOK
<1>5. TailInv'
  BY <1>1, <1>3, <1>4 DEF TailInv, EventsIn, IsEvent, dbVars, taskVars
<1>6. BatchInv'
  <2>1. UNCHANGED <<pc, cursor, next, offset, staged>>
    BY <1>1 DEF dbVars, taskVars
  <2>2. ASSUME pc = "apply" PROVE EventsIn(cursor, next)' = EventsIn(cursor, next)
    BY <1>3, <1>4, <2>1, <2>2 DEF BatchInv, TailInv, EventsIn, IsEvent
  <2>3. EventsIn(cursor, offset)' = EventsIn(cursor, offset)
    BY <1>3, <1>4, <2>1 DEF TailInv, EventsIn, IsEvent
  <2> QED BY <2>1, <2>2, <2>3 DEF BatchInv, Increasing, Range
<1>7. GateInv'
  BY <1>1 DEF GateInv, TypeOK, IsEvent, readerVars
<1>8. ExactlyOnce'
  BY <1>1, <1>3, <1>4 DEF ExactlyOnce, TailInv, EventsIn, IsEvent, dbVars
<1>9. ReadYourWrites'
  BY <1>1 DEF ReadYourWrites, dbVars, readerVars
<1> QED BY <1>2, <1>5, <1>6, <1>7, <1>8, <1>9

\* Opening, and every way to stop, die or give up: no event lies between a
\* tailer at the cursor and the cursor, and the transaction is gone.
LEMMA OpenKeeps == ASSUME IInv, Open PROVE IInv'
<1> USE DEF IInv
<1>1. TypeOK'
  <2>1. cursor \in Nat /\ applied' = cursor - 1
    BY DEF TypeOK, Open
  <2>2. applied' \in Nat \cup {-1}
    BY <2>1
  <2>3. pc' \in Positions
    BY DEF Open, Positions
  <2> QED BY <2>1, <2>2, <2>3 DEF TypeOK, Open, dbVars, faultVars, readerVars
<1>2. TailInv'
  BY DEF TypeOK, TailInv, Open, EventsIn, IsEvent, dbVars
<1>3. BatchInv'
  BY DEF TypeOK, BatchInv, Open, Increasing, dbVars
<1>4. GateInv' /\ ExactlyOnce' /\ ReadYourWrites'
  BY DEF GateInv, ExactlyOnce, ReadYourWrites, Open, EventsIn, IsEvent, dbVars, readerVars
<1> QED BY <1>1, <1>2, <1>3, <1>4

LEMMA StopKeeps ==
  ASSUME IInv, Stop, UNCHANGED <<log, dbVars>>, pc \in {"fetch", "skip", "apply", "commit"}
  PROVE  IInv'
<1> USE DEF IInv
<1>1. TypeOK'
  <2>1. pc' \in Positions /\ failures' \in Nat /\ staged' \in Seq(Nat)
    BY DEF TypeOK, Stop, Positions
  <2> QED BY <2>1 DEF TypeOK, Stop, dbVars, readerVars
<1>2. TailInv'
  BY DEF TypeOK, TailInv, Stop, EventsIn, IsEvent, dbVars
<1>3. BatchInv'
  BY DEF TypeOK, BatchInv, Stop, Increasing, dbVars
<1>4. GateInv' /\ ExactlyOnce' /\ ReadYourWrites'
  BY DEF GateInv, ExactlyOnce, ReadYourWrites, Stop, EventsIn, IsEvent, dbVars, readerVars
<1> QED BY <1>1, <1>2, <1>3, <1>4

LEMMA CrashKeeps == ASSUME IInv, Crash PROVE IInv'
<1> USE DEF IInv
<1>1. TypeOK'
  <2>1. pc' \in Positions /\ crashes' \in Nat /\ staged' \in Seq(Nat)
    BY DEF TypeOK, Crash, Positions
  <2>2. gate' \in [Readers -> {"idle", "waiting", "fresh", "pending", "gone"}]
    BY DEF TypeOK, Crash
  <2> QED BY <2>1, <2>2 DEF TypeOK, Crash, dbVars
<1>2. TailInv'
  BY DEF TypeOK, TailInv, Crash, EventsIn, IsEvent, dbVars
<1>3. BatchInv'
  BY DEF TypeOK, BatchInv, Crash, Increasing, dbVars
<1>4. GateInv' /\ ExactlyOnce' /\ ReadYourWrites'
  BY DEF TypeOK, GateInv, ExactlyOnce, ReadYourWrites, Crash, EventsIn, IsEvent, dbVars
<1> QED BY <1>1, <1>2, <1>3, <1>4

\* A fetch: the tailer moves, and a batch without events leaves none behind.
LEMMA FetchKeeps == ASSUME IInv, Fetch PROVE IInv'
<1> USE DEF IInv
<1>1. PICK n \in offset..Len(log) : (n = offset => offset = Len(log)) /\ NextBatch(n)
  BY DEF Fetch
<1>2. /\ n \in Nat /\ offset <= n /\ n <= Len(log) /\ offset \in Nat /\ cursor \in Nat
      /\ cursor <= offset /\ EventsIn(cursor, offset) = {} /\ staged = <<>>
      /\ offset' = n /\ next' = offset /\ UNCHANGED <<log, rows, cursor, staged, applied>>
      /\ UNCHANGED <<faultVars, readerVars>>
  BY <1>1 DEF TypeOK, TailInv, BatchInv, NextBatch, dbVars
<1>3. /\ pc' \in {"fetch", "skip", "apply"}
      /\ pc' \in {"fetch", "skip"} => \A o \in offset..(n - 1) : ~IsVisible(o)
  BY <1>1, <1>2 DEF NextBatch
<1>4. TypeOK'
  <2>1. pc' \in Positions /\ serving' \in BOOLEAN /\ polling' \in BOOLEAN
    BY <1>1 DEF TypeOK, NextBatch, Positions
  <2> QED BY <1>2, <2>1 DEF TypeOK, faultVars, readerVars
<1>5. ASSUME pc' \in {"fetch", "skip"} PROVE EventsIn(cursor, n) = {}
  BY <1>2, <1>3, <1>5 DEF EventsIn, IsEvent, IsVisible
<1>6. TailInv'
  BY <1>2, <1>3, <1>5 DEF TypeOK, TailInv, EventsIn, IsEvent
<1>7. BatchInv'
  <2>1. Range(<<>>) = {}
    BY DEF Range
  <2> QED BY <1>2, <1>3, <2>1 DEF BatchInv, EventsIn, IsEvent
<1>8. GateInv' /\ ExactlyOnce' /\ ReadYourWrites'
  BY <1>2 DEF GateInv, ExactlyOnce, ReadYourWrites, EventsIn, IsEvent, readerVars
<1> QED BY <1>4, <1>6, <1>7, <1>8

\* Only invisible records went by.
LEMMA CursorKeeps == ASSUME IInv, CommitCursor PROVE IInv'
<1> USE DEF IInv
<1>1. /\ cursor \in Nat /\ offset \in Nat /\ cursor <= offset /\ EventsIn(cursor, offset) = {}
      /\ cursor' = offset /\ pc' = "publish" /\ UNCHANGED <<log, rows, offset, staged, applied>>
      /\ staged = <<>>
  BY DEF TypeOK, TailInv, BatchInv, CommitCursor
<1>2. TypeOK'
  <2>1. pc' \in Positions
    BY DEF CommitCursor, Positions
  <2> QED BY <1>1, <2>1 DEF TypeOK, CommitCursor, faultVars, readerVars
<1>3. TailInv'
  BY <1>1 DEF TypeOK, TailInv
<1>4. BatchInv'
  BY <1>1 DEF BatchInv, Increasing
<1>5. EventsIn(0, offset) = EventsIn(0, cursor)
  BY <1>1 DEF EventsIn
<1>6. ExactlyOnce'
  BY <1>1, <1>5 DEF ExactlyOnce, EventsIn, IsEvent
<1>7. GateInv' /\ ReadYourWrites'
  BY <1>1 DEF GateInv, ReadYourWrites, IsEvent, CommitCursor, readerVars
<1> QED BY <1>2, <1>3, <1>4, <1>6, <1>7

\* An error from it, whether or not the cursor had been stored.
LEMMA CursorFailsKeeps == ASSUME IInv, CommitCursorFails PROVE IInv'
<1> USE DEF IInv
<1>1. CASE cursor' = cursor
  BY <1>1, StopKeeps DEF CommitCursorFails, dbVars
<1>2. CASE cursor' = offset
  <2>1. /\ cursor \in Nat /\ offset \in Nat /\ cursor <= offset /\ EventsIn(cursor, offset) = {}
        /\ pc' \in {"down", "stopped"} /\ staged' = <<>> /\ failures' \in Nat
        /\ UNCHANGED <<log, rows, serving, polling, offset, next, applied, crashes, readerVars>>
    BY <1>2 DEF TypeOK, TailInv, BatchInv, CommitCursorFails, Stop
  <2>2. TypeOK'
    <3>1. pc' \in Positions /\ staged' \in Seq(Nat)
      BY <2>1 DEF Positions
    <3> QED BY <1>2, <2>1, <3>1 DEF TypeOK, readerVars
  <2>3. TailInv' /\ BatchInv'
    BY <1>2, <2>1 DEF TypeOK, TailInv, BatchInv, Increasing
  <2>4. EventsIn(0, offset) = EventsIn(0, cursor)
    BY <2>1 DEF EventsIn
  <2>5. ExactlyOnce'
    BY <1>2, <2>1, <2>4 DEF ExactlyOnce, EventsIn, IsEvent
  <2>6. GateInv' /\ ReadYourWrites'
    BY <1>2, <2>1 DEF GateInv, ReadYourWrites, IsEvent, readerVars
  <2> QED BY <2>2, <2>3, <2>5, <2>6
<1> QED BY <1>1, <1>2 DEF CommitCursorFails

\* One record more of the batch: what the tailer hands out next is the only
\* thing between next and it that can be an event.
LEMMA ApplyKeeps == ASSUME IInv, ApplyRecord PROVE IInv'
<1> USE DEF IInv
<1>1. PICK o \in next..(offset - 1) :
        /\ IsNext(o)
        /\ next' = o + 1
        /\ staged' = IF IsEvent(o) THEN Append(staged, o) ELSE staged
  BY DEF ApplyRecord
<1>2. /\ o \in Nat /\ next \in Nat /\ offset \in Nat /\ cursor \in Nat /\ staged \in Seq(Nat)
      /\ pc = "apply" /\ cursor <= next /\ next <= o /\ o < offset
      /\ Range(staged) = EventsIn(cursor, next) /\ Increasing(staged)
      /\ UNCHANGED <<log, rows, cursor, pc, offset, applied, faultVars, readerVars>>
  BY <1>1 DEF TypeOK, BatchInv, ApplyRecord, dbVars
<1>3. \A b \in next..(o - 1) : ~IsEvent(b)
  BY <1>1 DEF IsNext, IsVisible, IsEvent
<1>4. EventsIn(cursor, o + 1) = EventsIn(cursor, next) \cup {b \in {o} : IsEvent(b)}
  BY <1>2, <1>3 DEF EventsIn
<1>5. staged' \in Seq(Nat) /\ Range(staged') = EventsIn(cursor, o + 1) /\ Increasing(staged')
  <2>1. CASE IsEvent(o)
    <3>1. \A x \in Range(staged) : x < o
      BY <1>2 DEF EventsIn
    <3>2. Range(Append(staged, o)) = Range(staged) \cup {o}
      BY <1>2, RangeAppend
    <3>3. Increasing(Append(staged, o))
      BY <1>2, <3>1, IncreasingAppend
    <3>4. staged' = Append(staged, o) /\ Append(staged, o) \in Seq(Nat)
      BY <1>1, <1>2, <2>1
    <3>5. EventsIn(cursor, o + 1) = Range(staged) \cup {o}
      BY <1>2, <1>4, <2>1
    <3> QED BY <3>2, <3>3, <3>4, <3>5
  <2>2. CASE ~IsEvent(o)
    BY <1>1, <1>2, <1>4, <2>2
  <2> QED BY <2>1, <2>2
<1>6. TypeOK'
  BY <1>1, <1>2, <1>5 DEF TypeOK, ApplyRecord, dbVars, faultVars, readerVars
<1>7. TailInv'
  BY <1>2 DEF TailInv, EventsIn, IsEvent
<1>8. BatchInv'
  <2>1. EventsIn(cursor, next)' = EventsIn(cursor, o + 1)
    BY <1>1, <1>2 DEF EventsIn, IsEvent
  <2>2. Range(staged)' = EventsIn(cursor, next)' /\ Increasing(staged)'
    BY <1>5, <2>1 DEF Range, Increasing
  <2> QED BY <1>1, <1>2, <2>2 DEF BatchInv
<1>9. GateInv' /\ ExactlyOnce' /\ ReadYourWrites'
  BY <1>2 DEF GateInv, ExactlyOnce, ReadYourWrites, EventsIn, IsEvent, readerVars
<1> QED BY <1>6, <1>7, <1>8, <1>9

\* The batch is at its end.
LEMMA SetAppliedKeeps == ASSUME IInv, SetAppliedOffset PROVE IInv'
<1> USE DEF IInv
<1>1. /\ next \in Nat /\ offset \in Nat /\ cursor \in Nat
      /\ cursor <= next /\ next <= offset /\ Range(staged) = EventsIn(cursor, next)
      /\ \A b \in next..(offset - 1) : ~IsEvent(b)
      /\ pc' = "commit"
      /\ UNCHANGED <<log, rows, cursor, offset, next, staged, applied, faultVars, readerVars>>
  BY DEF TypeOK, BatchInv, SetAppliedOffset, IsVisible, IsEvent, dbVars
<1>2. EventsIn(cursor, offset) = EventsIn(cursor, next)
  BY <1>1 DEF EventsIn
<1>3. TypeOK'
  <2>1. pc' \in Positions
    BY <1>1 DEF Positions
  <2> QED BY <1>1, <2>1 DEF TypeOK, SetAppliedOffset, faultVars, readerVars
<1>4. TailInv'
  BY <1>1 DEF TailInv
<1>5. BatchInv'
  BY <1>1, <1>2 DEF BatchInv, EventsIn, IsEvent, Range, Increasing
<1>6. GateInv' /\ ExactlyOnce' /\ ReadYourWrites'
  BY <1>1 DEF GateInv, ExactlyOnce, ReadYourWrites, EventsIn, IsEvent, readerVars
<1> QED BY <1>3, <1>4, <1>5, <1>6

\* COMMIT makes the staged events follow those below the cursor.
LEMMA RowsCommitted ==
  ASSUME IInv, pc = "commit", CommitRows, log' = log, offset' = offset
  PROVE  /\ rows' \in Seq(Nat)
         /\ ExactlyOnce'
         /\ Range(rows) \subseteq Range(rows')
         /\ cursor <= offset
<1> USE DEF IInv
<1>1. /\ rows \in Seq(Nat) /\ staged \in Seq(Nat) /\ cursor \in Nat /\ offset \in Nat
      /\ cursor <= offset /\ Range(staged) = EventsIn(cursor, offset)
      /\ Increasing(staged) /\ Increasing(rows) /\ Range(rows) = EventsIn(0, cursor)
      /\ rows' = rows \o staged /\ cursor' = offset
  BY DEF TypeOK, BatchInv, ExactlyOnce, CommitRows
<1>2. Range(rows \o staged) = Range(rows) \cup Range(staged)
  BY <1>1, RangeConcat
<1>3. EventsIn(0, offset) = EventsIn(0, cursor) \cup EventsIn(cursor, offset)
  BY <1>1 DEF EventsIn
<1>4. \A x \in Range(rows), y \in Range(staged) : x < y
  BY <1>1 DEF EventsIn
<1>5. Increasing(rows \o staged)
  BY <1>1, <1>4, IncreasingConcat
<1>6. ExactlyOnce'
  <2>1. EventsIn(0, cursor)' = EventsIn(0, offset)
    BY <1>1 DEF EventsIn, IsEvent
  <2>2. Range(rows)' = EventsIn(0, cursor)' /\ Increasing(rows)'
    BY <1>1, <1>2, <1>3, <1>5, <2>1 DEF Range, Increasing
  <2> QED BY <2>2 DEF ExactlyOnce
<1>7. rows' \in Seq(Nat)
  BY <1>1
<1> QED BY <1>1, <1>2, <1>6, <1>7

LEMMA CommitKeeps == ASSUME IInv, Commit PROVE IInv'
<1> USE DEF IInv
<1>1. /\ CommitRows /\ pc = "commit" /\ pc' = "publish" /\ staged' = <<>> /\ cursor' = offset
      /\ UNCHANGED <<log, serving, polling, offset, next, applied, faultVars, readerVars>>
  BY DEF Commit, CommitRows
<1>2. rows' \in Seq(Nat) /\ ExactlyOnce' /\ Range(rows) \subseteq Range(rows') /\ cursor <= offset
  BY <1>1, RowsCommitted
<1>3. TypeOK'
  <2>1. pc' \in Positions /\ staged' \in Seq(Nat) /\ cursor' \in Nat
    BY <1>1 DEF Positions, TypeOK
  <2> QED BY <1>1, <1>2, <2>1 DEF TypeOK, faultVars, readerVars
<1>4. TailInv'
  BY <1>1, <1>2 DEF TypeOK, TailInv
<1>5. BatchInv'
  BY <1>1 DEF BatchInv, Increasing
<1>6. GateInv' /\ ReadYourWrites'
  BY <1>1, <1>2 DEF GateInv, ReadYourWrites, IsEvent, readerVars
<1> QED BY <1>2, <1>3, <1>4, <1>5, <1>6

\* An error from COMMIT, whether or not the database had committed.
LEMMA CommitFailsKeeps == ASSUME IInv, CommitFails PROVE IInv'
<1> USE DEF IInv
<1>1. pc = "commit" /\ Stop /\ log' = log
  BY DEF CommitFails
<1>2. CASE CommitRows
  <2>1. /\ pc' \in {"down", "stopped"} /\ staged' = <<>> /\ cursor' = offset /\ failures' \in Nat
        /\ UNCHANGED <<log, serving, polling, offset, next, applied, crashes, readerVars>>
    BY <1>1, <1>2 DEF Stop, CommitRows, TypeOK
  <2>2. rows' \in Seq(Nat) /\ ExactlyOnce' /\ Range(rows) \subseteq Range(rows') /\ cursor <= offset
    BY <1>1, <1>2, <2>1, RowsCommitted
  <2>3. TypeOK'
    <3>1. pc' \in Positions /\ staged' \in Seq(Nat) /\ cursor' \in Nat
      BY <2>1 DEF Positions, TypeOK
    <3> QED BY <2>1, <2>2, <3>1 DEF TypeOK, readerVars
  <2>4. TailInv' /\ BatchInv'
    BY <2>1, <2>2 DEF TypeOK, TailInv, BatchInv, Increasing
  <2>5. GateInv' /\ ReadYourWrites'
    BY <2>1, <2>2 DEF GateInv, ReadYourWrites, IsEvent, readerVars
  <2> QED BY <2>2, <2>3, <2>4, <2>5
<1>3. CASE UNCHANGED dbVars
  BY <1>1, <1>3, StopKeeps
<1> QED BY <1>2, <1>3 DEF CommitFails

LEMMA PublishKeeps == ASSUME IInv, Publish PROVE IInv'
<1> USE DEF IInv
<1>1. /\ pc = "publish" /\ cursor = offset /\ cursor \in Nat /\ staged = <<>>
      /\ applied' \in {applied, offset - 1} /\ applied' < cursor
      /\ pc' = "fetch" /\ polling' = FALSE
      /\ UNCHANGED <<log, dbVars, serving, offset, next, staged, faultVars, readerVars>>
  BY DEF Publish, TypeOK, TailInv, BatchInv
<1>2. TypeOK'
  <2>1. pc' \in Positions /\ applied' \in Nat \cup {-1}
    BY <1>1 DEF Positions, TypeOK
  <2> QED BY <1>1, <2>1 DEF TypeOK, dbVars, faultVars, readerVars
<1>3. TailInv'
  BY <1>1 DEF TailInv, EventsIn, dbVars
<1>4. BatchInv' /\ GateInv' /\ ExactlyOnce' /\ ReadYourWrites'
  BY <1>1 DEF BatchInv, GateInv, ExactlyOnce, ReadYourWrites, Increasing, EventsIn, IsEvent,
              dbVars, readerVars
<1> QED BY <1>2, <1>3, <1>4

\* The handlers.  One that is let through waits for an event below the cursor.
LEMMA GateKeeps ==
  ASSUME IInv, NEW r \in Readers,
         \/ \E o \in 0..(Len(log) - 1) : AwaitProjection(r, o)
         \/ GateOpens(r)
         \/ GateTimesOut(r)
  PROVE  IInv'
<1> USE DEF IInv
<1>1. UNCHANGED <<log, dbVars, taskVars, faultVars>>
  BY DEF AwaitProjection, GateOpens, GateTimesOut
<1>2. TailInv' /\ BatchInv' /\ ExactlyOnce'
  BY <1>1 DEF TailInv, BatchInv, ExactlyOnce, EventsIn, IsEvent, Range, Increasing, dbVars, taskVars
<1>3. /\ gate' \in [Readers -> {"idle", "waiting", "fresh", "pending", "gone"}]
      /\ awaited' \in [Readers -> Nat]
  <2>1. CASE \E o \in 0..(Len(log) - 1) : AwaitProjection(r, o)
    <3>1. PICK o \in 0..(Len(log) - 1) : AwaitProjection(r, o)
      BY <2>1
    <3>2. o \in Nat
      BY DEF TypeOK
    <3> QED BY <3>1, <3>2 DEF TypeOK, AwaitProjection
  <2>2. CASE GateOpens(r)
    BY <2>2 DEF TypeOK, GateOpens
  <2>3. CASE GateTimesOut(r)
    BY <2>3 DEF TypeOK, GateTimesOut
  <2> QED BY <2>1, <2>2, <2>3
<1>4. TypeOK'
  <2>1. UNCHANGED <<log, rows, cursor, pc, serving, polling, offset, next, staged, applied,
                    crashes, failures>>
    BY <1>1 DEF dbVars, taskVars, faultVars
  <2> QED BY <1>3, <2>1 DEF TypeOK
<1>5. CASE \E o \in 0..(Len(log) - 1) : AwaitProjection(r, o)
  <2>1. GateInv' /\ ReadYourWrites'
    BY <1>1, <1>5 DEF TypeOK, GateInv, ReadYourWrites, AwaitProjection, IsEvent, dbVars
  <2> QED BY <1>2, <1>4, <2>1
<1>6. CASE GateOpens(r)
  <2>1. awaited[r] \in EventsIn(0, cursor)
    BY <1>6 DEF TypeOK, GateInv, TailInv, GateOpens, EventsIn
  <2>2. GateInv' /\ ReadYourWrites'
    BY <1>1, <1>6, <2>1 DEF TypeOK, GateInv, ReadYourWrites, ExactlyOnce, GateOpens, IsEvent, dbVars
  <2> QED BY <1>2, <1>4, <2>2
<1>7. CASE GateTimesOut(r)
  <2>1. GateInv' /\ ReadYourWrites'
    BY <1>1, <1>7 DEF TypeOK, GateInv, ReadYourWrites, GateTimesOut, IsEvent, dbVars
  <2> QED BY <1>2, <1>4, <2>1
<1> QED BY <1>5, <1>6, <1>7

LEMMA StutterKeeps == ASSUME IInv, UNCHANGED vars PROVE IInv'
<1> USE DEF IInv
<1>1. UNCHANGED <<log, rows, cursor, pc, serving, polling, offset, next, staged, applied,
                  crashes, failures, gate, awaited>>
  BY DEF vars, dbVars, taskVars, faultVars, readerVars
<1>2. TypeOK'
  BY <1>1 DEF TypeOK
<1>3. TailInv' /\ BatchInv' /\ ExactlyOnce'
  BY <1>1 DEF TailInv, BatchInv, ExactlyOnce, EventsIn, IsEvent, Range, Increasing
<1>4. GateInv' /\ ReadYourWrites'
  BY <1>1 DEF GateInv, ReadYourWrites, IsEvent, Range
<1> QED BY <1>2, <1>3, <1>4

-----------------------------------------------------------------------------
\* IInv is inductive: where the tailer stands relative to the cursor, and what
\* the open transaction holds, is what makes rows and cursor agree after it.
THEOREM Invariant == Spec => []IInv
<1>1. Init => IInv
  <2> SUFFICES ASSUME Init PROVE IInv
    OBVIOUS
  <2>1. TypeOK
    <3>1. log \in Seq(Kinds) /\ rows \in Seq(Nat) /\ staged \in Seq(Nat)
      BY DEF Init
    <3>2. /\ gate \in [Readers -> {"idle", "waiting", "fresh", "pending", "gone"}]
          /\ awaited \in [Readers -> Nat]
      BY DEF Init
    <3>3. serving \in BOOLEAN /\ polling \in BOOLEAN
      BY DEF Init
    <3>4. /\ pc \in Positions /\ cursor \in Nat /\ offset \in Nat /\ next \in Nat
          /\ applied \in Nat \cup {-1} /\ crashes \in Nat /\ failures \in Nat
      BY DEF Init, Positions
    <3> QED BY <3>1, <3>2, <3>3, <3>4 DEF TypeOK
  <2>2. Range(<<>>) = {} /\ EventsIn(0, 0) = {}
    BY DEF Range, EventsIn
  <2>3. TailInv /\ BatchInv
    BY DEF Init, TailInv, BatchInv, Increasing
  <2>4. GateInv /\ ReadYourWrites
    BY DEF Init, GateInv, ReadYourWrites
  <2>5. ExactlyOnce
    BY <2>2 DEF Init, ExactlyOnce, Increasing
  <2> QED BY <2>1, <2>3, <2>4, <2>5 DEF IInv
<1>2. IInv /\ [Next]_vars => IInv'
  <2> SUFFICES ASSUME IInv, [Next]_vars PROVE IInv'
    OBVIOUS
  <2>1. CASE \E kind \in Kinds : Write(kind)
    BY <2>1, WriteKeeps
  <2>2. CASE Open
    BY <2>2, OpenKeeps
  <2>3. CASE Proceed
    BY <2>3, FetchKeeps, CursorKeeps, ApplyKeeps, SetAppliedKeeps, CommitKeeps, PublishKeeps
       DEF Proceed
  <2>4. CASE FetchFails \/ CommitCursorFails \/ ApplyFails
    BY <2>4, StopKeeps, CursorFailsKeeps DEF FetchFails, ApplyFails
  <2>5. CASE CommitFails
    BY <2>5, CommitFailsKeeps
  <2>6. CASE Crash
    BY <2>6, CrashKeeps
  <2>7. ASSUME NEW r \in Readers,
               \/ \E o \in 0..(Len(log) - 1) : AwaitProjection(r, o)
               \/ GateOpens(r)
               \/ GateTimesOut(r)
        PROVE  IInv'
    BY <2>7, GateKeeps
  <2>8. CASE UNCHANGED vars
    BY <2>8, StutterKeeps
  <2> QED BY <2>1, <2>2, <2>3, <2>4, <2>5, <2>6, <2>7, <2>8 DEF Next, Fail
<1> QED BY <1>1, <1>2, PTL DEF Spec

\* Every variable keeps its type.
THEOREM TypeCorrect == Spec => []TypeOK
<1>1. IInv => TypeOK
  BY DEF IInv
<1> QED BY <1>1, Invariant, PTL

\* apply_batch and its cursor have an exactly-once effect: however batches
\* fail, commits are lost and processes die, the rows are the events below the
\* cursor, once each and in order.
THEOREM EffectExactlyOnce == Spec => []ExactlyOnce
<1>1. IInv => ExactlyOnce
  BY DEF IInv
<1> QED BY <1>1, Invariant, PTL

\* wait_for_offset lets nobody through to rows without their own write.
THEOREM GateIsSound == Spec => []ReadYourWrites
<1>1. IInv => ReadYourWrites
  BY DEF IInv
<1> QED BY <1>1, Invariant, PTL

\* The boot drain ends on rows that hold every event of the topic, so the
\* server does not listen before that.
THEOREM BootsCaughtUp == Spec => ServesCaughtUp
<1>1. IInv /\ [Next]_vars => [~serving /\ serving' => EventsIn(0, Len(log)) \subseteq Range(rows)]_vars
  <2> SUFFICES ASSUME IInv, Next, ~serving, serving'
               PROVE  EventsIn(0, Len(log)) \subseteq Range(rows)
    BY DEF vars
  <2>1. Fetch
    BY DEF Next, Proceed, Fail, Write, Open, FetchFails, CommitCursor, CommitCursorFails,
           ApplyRecord, ApplyFails, SetAppliedOffset, Commit, CommitFails, Publish, Crash, Stop,
           AwaitProjection, GateOpens, GateTimesOut, taskVars
  <2>2. PICK n \in offset..Len(log) : (n = offset => offset = Len(log)) /\ NextBatch(n)
    BY <2>1 DEF Fetch
  <2>3. n = offset /\ pc = "fetch"
    BY <2>2 DEF NextBatch, IInv, TypeOK
  <2>4. EventsIn(cursor, Len(log)) = {} /\ cursor \in Nat /\ Range(rows) = EventsIn(0, cursor)
    BY <2>2, <2>3 DEF IInv, TailInv, ExactlyOnce, TypeOK
  <2> QED BY <2>4 DEF EventsIn, IInv, TypeOK
<1> QED BY <1>1, Invariant, PTL DEF Spec, ServesCaughtUp

\* What a commit adds is what the rows have more than before.
LEMMA Grown ==
  ASSUME NEW s \in Seq(Nat), NEW t \in Seq(Nat)
  PROVE  s \o t = s \o SubSeq(s \o t, Len(s) + 1, Len(s \o t))
<1> DEFINE u == SubSeq(s \o t, Len(s) + 1, Len(s \o t))
<1>1. Len(s) \in Nat /\ Len(t) \in Nat /\ Len(s \o t) = Len(s) + Len(t) /\ s \o t \in Seq(Nat)
  OBVIOUS
<1>2. u \in Seq(Nat) /\ Len(u) = Len(t)
  BY <1>1
<1>3. \A i \in 1..Len(t) : u[i] = t[i]
  BY <1>1
<1>4. u = t
  <2> HIDE DEF u
  <2> QED BY <1>2, <1>3
<1> QED BY <1>4

\* Nothing the projector has done is taken back: not by a batch that fails, not
\* by a commit whose outcome is unknown, not by the next boot.
THEOREM ProgressStays == Spec => NeverGoesBack
<1> DEFINE Onward ==
      /\ cursor' >= cursor
      /\ \E more \in {SubSeq(rows', Len(rows) + 1, Len(rows'))} : rows' = rows \o more
      /\ pc # "down" => applied' >= applied
<1>1. IInv /\ [Next]_vars => [Onward]_vars
  <2> SUFFICES ASSUME IInv, Next
               PROVE  Onward
    BY DEF vars
  <2> USE DEF taskVars, dbVars
  <2>0. /\ rows \in Seq(Nat) /\ staged \in Seq(Nat) /\ cursor \in Nat /\ offset \in Nat
        /\ applied \in Int /\ (pc \in {"skip", "commit"} => cursor <= offset)
    BY DEF IInv, TypeOK, TailInv, BatchInv
  <2>1. cursor' >= cursor
    BY <2>0 DEF Next, Proceed, Fail, Write, Open, Fetch, NextBatch, FetchFails, CommitCursor,
       CommitCursorFails, ApplyRecord, ApplyFails, SetAppliedOffset, Commit, CommitRows, CommitFails,
       Publish, Crash, AwaitProjection, GateOpens, GateTimesOut
  <2>2. rows' = rows \/ rows' = rows \o staged
    BY DEF Next, Proceed, Fail, Write, Open, Fetch, NextBatch, FetchFails, CommitCursor,
       CommitCursorFails, ApplyRecord, ApplyFails, SetAppliedOffset, Commit, CommitRows, CommitFails,
       Publish, Crash, AwaitProjection, GateOpens, GateTimesOut
  <2>3. \E t \in Seq(Nat) : rows' = rows \o t
    <3>1. <<>> \in Seq(Nat) /\ rows = rows \o <<>>
      BY <2>0
    <3> QED BY <2>0, <2>2, <3>1
  <2>4. rows' = rows \o SubSeq(rows', Len(rows) + 1, Len(rows'))
    <3>1. PICK t \in Seq(Nat) : rows' = rows \o t
      BY <2>3
    <3> QED BY <2>0, <3>1, Grown
  <2>5. pc # "down" => applied' >= applied
    BY <2>0 DEF Next, Proceed, Fail, Write, Open, Fetch, NextBatch, FetchFails, CommitCursor,
       CommitCursorFails, ApplyRecord, ApplyFails, SetAppliedOffset, Commit, CommitFails, Stop,
       Publish, Crash, AwaitProjection, GateOpens, GateTimesOut
  <2> QED BY <2>1, <2>4, <2>5
<1> QED BY <1>1, Invariant, PTL DEF Spec, NeverGoesBack
=============================================================================
