-------------------------- MODULE GitHostingProofs --------------------------
(***************************************************************************)
(* What the log can rebuild and what the cache may hold, for any number of *)
(* requests at a time, branches, objects and commits.                      *)
(***************************************************************************)
EXTENDS GitHosting, FiniteSetTheorems, TLAPS

(***************************************************************************)
(* A stretch of the log in which no object is cut in two, and the objects  *)
(* it has records of.                                                      *)
(***************************************************************************)
Uncut(t) == \A r \in t : r \in EncodeObject(r.oid) /\ EncodeObject(r.oid) \subseteq t
Named(t) == {r.oid : r \in t}

(***************************************************************************)
(* The inductive invariant.  Whatever a temporary or a torn file is for    *)
(* can be had from the log again; a value a reference ever had was stored  *)
(* with all that it needs before.                                          *)
(***************************************************************************)
LogInv == \A i \in 1..Len(log) : Uncut(log[i])

DiskInv == \A o \in Objects : files[o] = "torn" \/ temp[o] # "absent" => o \in Stored

HistoryInv ==
  /\ \A u \in was : u[2] # None => Needs[u[2]] \subseteq Stored
  /\ \A r \in Refs : <<r, canonical[r]>> \in was
  /\ told \subseteq was
  /\ Needs[PullBase] \cup Needs[PullHead] \subseteq Stored

Hydrating == {"write", "open", "fill", "rename", "cursor"}

(***************************************************************************)
(* Up to the end it will set the cursor to, a hydration has what the cache *)
(* lacks still to write.                                                   *)
(***************************************************************************)
HydratingInv(v) ==
  v.pc \in Hydrating =>
    /\ v.todo \subseteq Stored
    /\ v.pc \in {"open", "fill", "rename"} => v.todo # {}
    /\ v.pc = "cursor" => v.todo = {}
    /\ \A o \in Pending(Between(0, v.end)) : files[o] # "absent" \/ o \in v.todo

(***************************************************************************)
(* What an update names is in the log or still to be put there.            *)
(***************************************************************************)
StoringInv(v) ==
  /\ v.pc \in {"store", "decide"} => Needed(v.new) \subseteq Stored \cup v.todo
  /\ v.pc = "decide" => v.todo = {}

(***************************************************************************)
(* What git is about to give a reference, the log gave it before.          *)
(***************************************************************************)
MirrorInv(v) ==
  /\ v.pc = "sync" => \A r \in Refs : <<r, v.canon[r]>> \in was
  /\ v.pc \in {"migrate", "update"} => \A r \in DOMAIN v.new : <<r, v.new[r]>> \in was
  /\ v.pc = "update" => /\ v.names \subseteq DOMAIN v.new
                        /\ \A c \in Pushed(v.new) : files[c] # "absent"

SlotInv(v) == HydratingInv(v) /\ StoringInv(v) /\ MirrorInv(v)

IInv ==
  /\ TypeOK
  /\ LogInv
  /\ DiskInv
  /\ HistoryInv
  /\ \A s \in Slots : SlotInv(slot[s])
  /\ CursorSafe
  /\ CacheFollowsLog
-----------------------------------------------------------------------------
(***************************************************************************)
(* Lemmas: records and transactions                                        *)
(***************************************************************************)

(***************************************************************************)
(* An object is one record, or a manifest with each chunk it counts.       *)
(***************************************************************************)
LEMMA RecordsOf ==
  ASSUME NEW o \in Objects
  PROVE  /\ EncodeObject(o) \subseteq Records
         /\ \A r \in EncodeObject(o) : r.oid = o
         /\ \E r \in EncodeObject(o) : r.frame = "whole" \/ (r.frame = "manifest" /\ r.n = Chunks[o])
         /\ \A r \in EncodeObject(o) :
              r.frame = "manifest" =>
                /\ r.n = Chunks[o]
                /\ \A i \in 0..(r.n - 1) : [oid |-> o, frame |-> "chunk", n |-> i] \in EncodeObject(o)
         /\ \A r \in EncodeObject(o) : r.frame # "whole" => Chunks[o] # 1
<1>. Chunks[o] \in Nat
  BY ChunksAssumption
<1>1. CASE Chunks[o] = 1
  <2>1. EncodeObject(o) = {[oid |-> o, frame |-> "whole", n |-> 1]}
    BY <1>1 DEF EncodeObject
  <2>. QED  BY <2>1, <1>1 DEF Records
<1>2. CASE Chunks[o] # 1
  <2>1. EncodeObject(o) = {[oid |-> o, frame |-> "manifest", n |-> Chunks[o]]}
           \cup {[oid |-> o, frame |-> "chunk", n |-> i] : i \in 0..(Chunks[o] - 1)}
    BY <1>2 DEF EncodeObject
  <2>2. \A r \in EncodeObject(o) :
          \/ r = [oid |-> o, frame |-> "manifest", n |-> Chunks[o]]
          \/ \E i \in 0..(Chunks[o] - 1) : r = [oid |-> o, frame |-> "chunk", n |-> i]
    BY <2>1
  <2>3. EncodeObject(o) \subseteq Records
    BY <2>2 DEF Records
  <2>4. \A i \in 0..(Chunks[o] - 1) : [oid |-> o, frame |-> "chunk", n |-> i] \in EncodeObject(o)
    BY <2>1
  <2>5. [oid |-> o, frame |-> "manifest", n |-> Chunks[o]] \in EncodeObject(o)
    BY <2>1
  <2>6. \A r \in EncodeObject(o) : r.oid = o
    BY <2>2
  <2>7. \A r \in EncodeObject(o) : r.frame = "manifest" => r.n = Chunks[o]
    BY <2>2
  <2>8. \E r \in EncodeObject(o) : r.frame = "manifest" /\ r.n = Chunks[o]
    BY <2>5
  <2>. QED  BY <1>2, <2>3, <2>4, <2>6, <2>7, <2>8
<1>. QED  BY <1>1, <1>2

(***************************************************************************)
(* A transaction holds the objects of its group, none of them in part.     *)
(***************************************************************************)
LEMMA EncodeIsUncut ==
  ASSUME NEW g \in SUBSET Objects
  PROVE  Encode(g) \in SUBSET Records /\ Uncut(Encode(g)) /\ Named(Encode(g)) = g
<1>1. \A r \in Encode(g) : \E o \in g : r \in EncodeObject(o)
  BY DEF Encode
<1>2. \A o \in g : EncodeObject(o) \subseteq Encode(g)
  BY DEF Encode
<1>3. Encode(g) \in SUBSET Records
  BY <1>1, RecordsOf
<1>4. \A r \in Encode(g) : r.oid \in g /\ r \in EncodeObject(r.oid)
  BY <1>1, RecordsOf
<1>5. Uncut(Encode(g))
  BY <1>2, <1>4 DEF Uncut
<1>6. \A o \in g : \E r \in Encode(g) : r.oid = o
  <2>. SUFFICES ASSUME NEW o \in g PROVE \E r \in Encode(g) : r.oid = o
    OBVIOUS
  <2>1. PICK r \in EncodeObject(o) : TRUE
    BY RecordsOf
  <2>2. r.oid = o
    BY RecordsOf
  <2>. QED  BY <2>2, <1>2
<1>. QED  BY <1>3, <1>4, <1>5, <1>6 DEF Named

(***************************************************************************)
(* What hydrate makes of a stretch that cuts no object in two: everything  *)
(* the stretch has a record of.                                            *)
(***************************************************************************)
LEMMA PendingIsAll ==
  ASSUME NEW t \in SUBSET Records, Uncut(t)
  PROVE  Pending(t) = Named(t)
<1>1. Pending(t) \subseteq Named(t)
  BY DEF Pending, Named
<1>2. ASSUME NEW r \in t PROVE r.oid \in Pending(t)
  <2>1. r.oid \in Objects /\ EncodeObject(r.oid) \subseteq t
    BY DEF Records, Uncut
  <2>2. PICK m \in EncodeObject(r.oid) :
          m.frame = "whole" \/ (m.frame = "manifest" /\ m.n = Chunks[r.oid])
    BY <2>1, RecordsOf
  <2>3. m \in t /\ m.oid = r.oid
    BY <2>1, RecordsOf
  <2>4. m.frame = "manifest" => Reassembles(t, m)
    <3>. SUFFICES ASSUME m.frame = "manifest", NEW i \in 0..(m.n - 1)
                  PROVE  \E q \in t : q.oid = m.oid /\ q.frame = "chunk" /\ q.n = i
      BY DEF Reassembles
    <3>1. [oid |-> r.oid, frame |-> "chunk", n |-> i] \in EncodeObject(r.oid)
      BY <2>1, RecordsOf
    <3>. DEFINE q == [oid |-> r.oid, frame |-> "chunk", n |-> i]
    <3>2. q \in t /\ q.oid = m.oid /\ q.frame = "chunk" /\ q.n = i
      BY <3>1, <2>1, <2>3
    <3>. QED  BY <3>2
  <2>5. m \in {q \in t : q.frame = "whole" \/ (q.frame = "manifest" /\ Reassembles(t, q))}
    BY <2>2, <2>3, <2>4
  <2>. QED  BY <2>3, <2>5 DEF Pending
<1>. QED  BY <1>1, <1>2 DEF Named

(***************************************************************************)
(* A replay from a transaction on finds the objects of those that follow.  *)
(***************************************************************************)
LEMMA PendingBetween ==
  ASSUME log \in Seq(SUBSET Records), LogInv, NEW from \in Nat, NEW to \in 0..Len(log)
  PROVE  /\ Pending(Between(from, to)) \subseteq Objects
         /\ \A o : o \in Pending(Between(from, to))
                     <=> \E i \in (from + 1)..to : o \in Named(log[i])
<1>1. \A i \in (from + 1)..to : i \in 1..Len(log)
  OBVIOUS
<1>2. \A i \in (from + 1)..to : log[i] \in SUBSET Records /\ Uncut(log[i])
  BY <1>1 DEF LogInv
<1>3. \A r \in Between(from, to) : \E i \in (from + 1)..to : r \in log[i]
  BY DEF Between
<1>4. \A i \in (from + 1)..to : log[i] \subseteq Between(from, to)
  BY DEF Between
<1>5. Between(from, to) \in SUBSET Records
  BY <1>2, <1>3
<1>6. Uncut(Between(from, to))
  <2>. SUFFICES ASSUME NEW r \in Between(from, to)
                PROVE  r \in EncodeObject(r.oid) /\ EncodeObject(r.oid) \subseteq Between(from, to)
    BY DEF Uncut
  <2>1. PICK i \in (from + 1)..to : r \in log[i]
    BY <1>3
  <2>. QED  BY <2>1, <1>2, <1>4 DEF Uncut
<1>7. Pending(Between(from, to)) = Named(Between(from, to))
  BY <1>5, <1>6, PendingIsAll
<1>8. Named(Between(from, to)) \subseteq Objects
  BY <1>5 DEF Named, Records
<1>9. ASSUME NEW o, o \in Named(Between(from, to))
      PROVE  \E i \in (from + 1)..to : o \in Named(log[i])
  BY <1>9, <1>3 DEF Named
<1>10. ASSUME NEW o, NEW i \in (from + 1)..to, o \in Named(log[i])
       PROVE  o \in Named(Between(from, to))
  BY <1>10, <1>4 DEF Named
<1>. QED  BY <1>7, <1>8, <1>9, <1>10

(***************************************************************************)
(* Whatever lies before a place in the log or after it: nothing is lost    *)
(* where two replays meet.                                                 *)
(***************************************************************************)
LEMMA NothingBetweenReplays ==
  ASSUME log \in Seq(SUBSET Records), LogInv, NEW from \in 0..Len(log),
         NEW o \in Pending(Between(0, Len(log)))
  PROVE  o \in Pending(Between(0, from)) \/ o \in Pending(Between(from, Len(log)))
<1>. Len(log) \in Nat /\ Len(log) \in 0..Len(log) /\ 0 \in Nat /\ from \in Nat
  OBVIOUS
<1>1. PICK i \in (0 + 1)..Len(log) : o \in Named(log[i])
  BY PendingBetween
<1>2. CASE i <= from
  <2>1. i \in (0 + 1)..from
    BY <1>2
  <2>. QED  BY <2>1, <1>1, PendingBetween
<1>3. CASE i > from
  <2>1. i \in (from + 1)..Len(log)
    BY <1>3
  <2>. QED  BY <2>1, <1>1, PendingBetween
<1>. QED  BY <1>2, <1>3

LEMMA PrefixIsStored ==
  ASSUME log \in Seq(SUBSET Records), LogInv, NEW from \in Nat
  PROVE  Pending(Between(from, Len(log))) \subseteq Stored /\ Stored \subseteq Objects
<1>. Len(log) \in Nat /\ Len(log) \in 0..Len(log) /\ 0 \in Nat
  OBVIOUS
<1>1. ASSUME NEW o \in Pending(Between(from, Len(log))) PROVE o \in Stored
  <2>1. PICK i \in (from + 1)..Len(log) : o \in Named(log[i])
    BY PendingBetween
  <2>2. i \in (0 + 1)..Len(log)
    OBVIOUS
  <2>. QED  BY <2>1, <2>2, PendingBetween DEF Stored
<1>. QED  BY <1>1, PendingBetween DEF Stored

(***************************************************************************)
(* A transaction more leaves every earlier stretch as it is and stores the *)
(* objects of its group.                                                   *)
(***************************************************************************)
LEMMA Appended ==
  ASSUME log \in Seq(SUBSET Records), LogInv, NEW g \in SUBSET Objects,
         log' = Append(log, Encode(g))
  PROVE  /\ log' \in Seq(SUBSET Records) /\ LogInv'
         /\ Len(log') = Len(log) + 1
         /\ Stored' = Stored \cup g
         /\ \A to \in 0..Len(log) : Pending(Between(0, to))' = Pending(Between(0, to))
<1>. PICK n \in Nat : n = Len(log)
  OBVIOUS
<1>1. Encode(g) \in SUBSET Records /\ Uncut(Encode(g)) /\ Named(Encode(g)) = g
  BY EncodeIsUncut
<1>2. /\ log' \in Seq(SUBSET Records) /\ Len(log') = n + 1
      /\ log'[n + 1] = Encode(g)
      /\ \A i \in 1..n : log'[i] = log[i]
  BY <1>1
<1>3. LogInv'
  <2>. SUFFICES ASSUME NEW i \in 1..(n + 1) PROVE Uncut(log'[i])
    BY <1>2 DEF LogInv, Uncut
  <2>1. CASE i = n + 1
    BY <2>1, <1>1, <1>2
  <2>2. CASE i \in 1..n
    BY <2>2, <1>2 DEF LogInv
  <2>. QED  BY <2>1, <2>2
<1>4. ASSUME NEW to \in 0..n PROVE Between(0, to)' = Between(0, to)
  <2>1. \A i \in (0 + 1)..to : log'[i] = log[i]
    BY <1>2
  <2>. QED  BY <2>1 DEF Between
<1>5. Between(0, n + 1)' = Between(0, n) \cup Encode(g)
  <2>1. (0 + 1)..(n + 1) = ((0 + 1)..n) \cup {n + 1}
    OBVIOUS
  <2>2. ASSUME NEW r \in Between(0, n + 1)' PROVE r \in Between(0, n) \cup Encode(g)
    <3>1. PICK i \in (0 + 1)..(n + 1) : r \in log'[i]
      BY DEF Between
    <3>2. CASE i = n + 1
      BY <3>1, <3>2, <1>2
    <3>3. CASE i \in (0 + 1)..n
      BY <3>1, <3>3, <1>2 DEF Between
    <3>. QED  BY <2>1, <3>2, <3>3
  <2>3. ASSUME NEW i \in (0 + 1)..n, NEW r \in log[i] PROVE r \in Between(0, n + 1)'
    <3>1. i \in (0 + 1)..(n + 1) /\ r \in log'[i]
      BY <1>2
    <3>. QED  BY <3>1 DEF Between
  <2>4. Between(0, n) \subseteq Between(0, n + 1)'
    BY <2>3 DEF Between
  <2>5. Encode(g) \subseteq Between(0, n + 1)'
    <3>1. n + 1 \in (0 + 1)..(n + 1)
      OBVIOUS
    <3>. QED  BY <3>1, <1>2 DEF Between
  <2>. QED  BY <2>2, <2>4, <2>5
<1>6. Stored = Named(Between(0, n))
  <2>. n \in 0..Len(log) /\ 0 \in Nat
    OBVIOUS
  <2>1. \A o : o \in Stored <=> \E i \in (0 + 1)..n : o \in Named(log[i])
    BY PendingBetween DEF Stored
  <2>2. \A o : o \in Named(Between(0, n)) <=> \E i \in (0 + 1)..n : o \in Named(log[i])
    BY DEF Named, Between
  <2>. QED  BY <2>1, <2>2
<1>7. Between(0, n) \in SUBSET Records /\ Uncut(Between(0, n))
  <2>1. \A i \in (0 + 1)..n : log[i] \in SUBSET Records /\ Uncut(log[i])
    BY DEF LogInv
  <2>2. \A r \in Between(0, n) : \E i \in (0 + 1)..n : r \in log[i]
    BY DEF Between
  <2>3. \A i \in (0 + 1)..n : log[i] \subseteq Between(0, n)
    BY DEF Between
  <2>4. Between(0, n) \in SUBSET Records
    BY <2>1, <2>2
  <2>5. Uncut(Between(0, n))
    BY <2>1, <2>2, <2>3 DEF Uncut
  <2>. QED  BY <2>4, <2>5
<1>8. Stored' = Named(Between(0, n) \cup Encode(g))
  <2>. DEFINE t == Between(0, n) \cup Encode(g)
  <2>1. t \in SUBSET Records
    BY <1>1, <1>7
  <2>2. Uncut(t)
    BY <1>1, <1>7 DEF Uncut
  <2>3. Pending(t) = Named(t)
    BY <2>1, <2>2, PendingIsAll
  <2>4. Stored' = Pending(Between(0, n + 1)')
    BY <1>2 DEF Stored, Pending, Reassembles, Between
  <2>. QED  BY <2>3, <2>4, <1>5
<1>9. Stored' = Stored \cup g
  BY <1>1, <1>6, <1>8 DEF Named
<1>10. \A to \in 0..n : Pending(Between(0, to))' = Pending(Between(0, to))
  BY <1>4 DEF Pending, Reassembles
<1>. QED  BY <1>2, <1>3, <1>9, <1>10

LEMMA LogStays ==
  ASSUME UNCHANGED log
  PROVE  /\ LogInv => LogInv'
         /\ Stored' = Stored
         /\ \A to : Pending(Between(0, to))' = Pending(Between(0, to))
BY DEF LogInv, Stored, Pending, Between, Reassembles, Uncut

(***************************************************************************)
(* A transaction takes a part of the objects that are left.                *)
(***************************************************************************)
LEMMA GroupIsPart ==
  ASSUME NEW S \in SUBSET Objects
  PROVE  Group(S) \in SUBSET S
<1>1. IsFiniteSet(S) /\ Cardinality(S) \in Nat /\ Batch \in Nat
  BY ObjectsAssumption, ChunksAssumption, FS_Subset, FS_CardinalityType
<1>2. \E g \in SUBSET S : Cardinality(g) = Batch \/ (g = S /\ Cardinality(g) < Batch)
  <2>1. CASE Cardinality(S) < Batch
    BY <2>1
  <2>2. CASE Cardinality(S) >= Batch
    <3>1. ExistsBijection(1..Cardinality(S), S)
      BY <1>1, FS_CardinalityType
    <3>2. PICK f : f \in Bijection(1..Cardinality(S), S)
      BY <3>1 DEF ExistsBijection
    <3>3. /\ f \in [1..Cardinality(S) -> S]
          /\ \A i, j \in 1..Cardinality(S) : f[i] = f[j] => i = j
      BY <3>2, Zenon DEF Bijection, Injection, Surjection, IsInjective
    <3>. DEFINE g == {f[i] : i \in 1..Batch}
                h == [i \in 1..Batch |-> f[i]]
    <3>4. \A i \in 1..Batch : i \in 1..Cardinality(S)
      BY <1>1, <2>2
    <3>5. g \in SUBSET S
      BY <3>3, <3>4
    <3>6. h \in [1..Batch -> g] /\ (\A i, j \in 1..Batch : h[i] = h[j] => i = j)
          /\ \A x \in g : \E i \in 1..Batch : h[i] = x
      BY <3>3, <3>4
    <3>7. h \in Bijection(1..Batch, g)
      BY <3>6, Zenon DEF Bijection, Injection, Surjection, IsInjective
    <3>8. ExistsBijection(1..Batch, g)
      BY <3>7, Zenon DEF ExistsBijection
    <3>9. IsFiniteSet(1..Batch) /\ Cardinality(1..Batch) = Batch
      <4>1. 1 \in Int /\ Batch \in Int
        BY <1>1
      <4>2. IsFiniteSet(1..Batch) /\ Cardinality(1..Batch) = IF 1 > Batch THEN 0 ELSE Batch - 1 + 1
        BY <4>1, FS_Interval, Zenon
      <4>. QED  BY <4>2, <1>1
    <3>10. Cardinality(g) = Batch
      BY <3>8, <3>9, FS_Bijection, Zenon
    <3>. QED  BY <3>5, <3>10
  <2>. QED  BY <2>1, <2>2, <1>1
<1>. QED  BY <1>2 DEF Group
-----------------------------------------------------------------------------
(***************************************************************************)
(* Lemmas: the commands of a push                                          *)
(***************************************************************************)
LEMMA ValuesOf ==
  ASSUME NEW S \in SUBSET Refs, NEW f \in [S -> Commits \cup {None}]
  PROVE  f \in Values
BY DEF Values

(***************************************************************************)
(* It names branches and commits, and what its commits need are objects.   *)
(***************************************************************************)
LEMMA WhatAPushNames ==
  ASSUME NEW f \in Values
  PROVE  /\ DOMAIN f \subseteq Refs
         /\ \A r \in DOMAIN f : f[r] \in Commits \cup {None}
         /\ \A r \in DOMAIN f : f[r] # None => Needs[f[r]] \subseteq Needed(f)
         /\ Pushed(f) \subseteq Objects
         /\ Pushed(f) \subseteq Needed(f)
         /\ Needed(f) \subseteq Objects
<1>1. PICK S \in SUBSET Refs : f \in [S -> Commits \cup {None}]
  BY DEF Values
<1>2. DOMAIN f = S
  BY <1>1
<1>3. Pushed(f) \subseteq Commits
  BY <1>1, <1>2 DEF Pushed
<1>4. \A r \in DOMAIN f : f[r] # None => f[r] \in Pushed(f)
  BY DEF Pushed
<1>5. \A c \in Pushed(f) : Needs[c] \subseteq Needed(f)
  BY DEF Needed
<1>6. Pushed(f) \subseteq Objects /\ Pushed(f) \subseteq Needed(f)
  BY <1>3, <1>5, NeedsAssumption
<1>7. Needed(f) \subseteq Objects
  BY <1>3, NeedsAssumption DEF Needed
<1>. QED  BY <1>1, <1>2, <1>4, <1>5, <1>6, <1>7
-----------------------------------------------------------------------------
(***************************************************************************)
(* Lemmas: what a step leaves as it was                                    *)
(***************************************************************************)

(***************************************************************************)
(* What only ever grows while the cache is not thrown away: the log, the   *)
(* history of the references, the files there are.                         *)
(***************************************************************************)
Growing ==
  /\ Stored \subseteq Stored'
  /\ \A to \in 0..Len(log) : Pending(Between(0, to))' = Pending(Between(0, to))
  /\ was \subseteq was'
  /\ \A o \in Objects : files[o] # "absent" => files'[o] # "absent"

LEMMA IdleIsARequest ==
  /\ Idle \in RequestState
  /\ Idle.pc = "idle" /\ Idle.end = 0
<1>. Idle.pc = "idle" /\ Idle.end = 0
  BY DEF Idle
<1>1. [r \in Refs |-> None] \in [Refs -> Commits \cup {None}]
  OBVIOUS
<1>2. Nothing \in Values
  <2>1. Nothing \in [{} -> Commits \cup {None}]
    BY DEF Nothing
  <2>. QED  BY <2>1, ValuesOf
<1>. QED  BY <1>1, <1>2 DEF Idle, RequestState, Steps, Kinds

(***************************************************************************)
(* A request that neither hydrates nor updates anything owes nothing.      *)
(***************************************************************************)
LEMMA RestingSlot ==
  ASSUME NEW v \in RequestState, v.pc \in {"idle", "hydrate", "refs", "serve"}
  PROVE  SlotInv(v) /\ SlotInv(v)'
BY DEF SlotInv, HydratingInv, Hydrating, StoringInv, MirrorInv

LEMMA SlotKeeps ==
  ASSUME NEW v \in RequestState, v.end <= Len(log), SlotInv(v), Growing,
         log \in Seq(SUBSET Records), LogInv
  PROVE  SlotInv(v)'
<1>. Len(log) \in Nat /\ v.end \in 0..Len(log) /\ 0 \in Nat
  BY DEF RequestState
<1>1. HydratingInv(v)'
  <2>1. Pending(Between(0, v.end))' = Pending(Between(0, v.end))
    BY DEF Growing
  <2>2. Pending(Between(0, v.end)) \subseteq Objects
    BY PendingBetween
  <2>. QED  BY <2>1, <2>2 DEF SlotInv, HydratingInv, Growing
<1>2. StoringInv(v)'
  BY DEF SlotInv, StoringInv, Growing
<1>3. MirrorInv(v)'
  <2>1. Pushed(v.new) \subseteq Objects
    BY WhatAPushNames DEF RequestState
  <2>. QED  BY <2>1 DEF SlotInv, MirrorInv, Growing
<1>. QED  BY <1>1, <1>2, <1>3 DEF SlotInv

(***************************************************************************)
(* One request goes on, the others stay where they are.                    *)
(***************************************************************************)
LEMMA SlotsKeep ==
  ASSUME IInv, Growing, Len(log) <= Len(log'), Len(log') \in Nat,
         NEW s \in Slots, NEW v \in RequestState, v.end <= Len(log'), SlotInv(v)', Becomes(s, v)
  PROVE  /\ slot' \in [Slots -> RequestState]
         /\ \A t \in Slots : slot'[t].end <= Len(log')
         /\ \A t \in Slots : SlotInv(slot[t])'
<1>1. slot \in [Slots -> RequestState] /\ log \in Seq(SUBSET Records) /\ LogInv
  BY DEF IInv, TypeOK
<1>2. slot' = [slot EXCEPT ![s] = v]
  BY DEF Becomes
<1>3. slot' \in [Slots -> RequestState] /\ slot'[s] = v
      /\ \A t \in Slots \ {s} : slot'[t] = slot[t]
  BY <1>1, <1>2
<1>4. ASSUME NEW t \in Slots PROVE slot'[t].end <= Len(log') /\ SlotInv(slot[t])'
  <2>1. CASE t = s
    BY <2>1, <1>3 DEF SlotInv, HydratingInv, StoringInv, MirrorInv
  <2>2. CASE t # s
    <3>1. PICK w \in RequestState : w = slot[t]
      BY <1>1
    <3>2. w.end <= Len(log) /\ SlotInv(w)
      BY <3>1 DEF IInv, TypeOK
    <3>3. SlotInv(w)'
      BY <1>1, <3>2, SlotKeeps
    <3>4. slot'[t] = w
      BY <2>2, <3>1, <1>3
    <3>5. w.end \in Nat /\ Len(log) \in Nat
      BY <1>1 DEF RequestState
    <3>. QED  BY <3>2, <3>3, <3>4, <3>5 DEF SlotInv, HydratingInv, StoringInv, MirrorInv
  <2>. QED  BY <2>1, <2>2
<1>. QED  BY <1>3, <1>4

LEMMA CursorKeeps ==
  ASSUME TypeOK, LogInv, CursorSafe, Growing, UNCHANGED cursor
  PROVE  CursorSafe'
<1>1. log \in Seq(SUBSET Records) /\ cursor \in 0..Len(log) /\ 0 \in Nat /\ Len(log) \in Nat
  BY DEF TypeOK
<1>2. Pending(Between(0, cursor)) \subseteq Objects
  BY <1>1, PendingBetween
<1>3. PICK c \in 0..Len(log) : c = cursor
  BY <1>1
<1>4. Pending(Between(0, c))' = Pending(Between(0, c))
  BY DEF Growing
<1>5. Pending(Between(0, cursor))' = Pending(Between(0, c))'
  BY <1>3 DEF Pending, Between, Reassembles
<1>. QED  BY <1>2, <1>3, <1>4, <1>5 DEF CursorSafe, Growing

LEMMA CacheKeeps ==
  ASSUME TypeOK, CacheFollowsLog, Growing, UNCHANGED refs
  PROVE  CacheFollowsLog'
<1>1. \A r \in Refs : refs[r] # None => refs[r] \in Objects
  BY NeedsAssumption DEF TypeOK
<1>. QED  BY <1>1 DEF CacheFollowsLog, Growing

LEMMA HistoryKeeps ==
  ASSUME HistoryInv, Growing, UNCHANGED <<canonical, was, told>>
  PROVE  HistoryInv'
BY DEF HistoryInv, Growing

LEMMA DiskKeeps ==
  ASSUME DiskInv, Growing, UNCHANGED <<files, temp>>
  PROVE  DiskInv'
BY DEF DiskInv, Growing

LEMMA QuietLogGrows ==
  ASSUME UNCHANGED <<log, was>>,
         \A o \in Objects : files[o] # "absent" => files'[o] # "absent"
  PROVE  Growing
BY LogStays DEF Growing

(***************************************************************************)
(* A step that moves one request and touches neither log nor disk.         *)
(***************************************************************************)
LEMMA OnlyTheRequest ==
  ASSUME IInv, NEW s \in Slots, NEW v \in RequestState, v.end <= Len(log), SlotInv(v),
         Becomes(s, v), UNCHANGED <<logVars, diskVars, row, told>>,
         budget' \in [Kinds \cup {"fault"} -> Nat]
  PROVE  IInv'
<1>1. Growing
  BY QuietLogGrows DEF logVars, diskVars
<1>2. log \in Seq(SUBSET Records) /\ LogInv /\ Len(log) \in Nat /\ Len(log') \in Nat
      /\ Len(log) <= Len(log') /\ log' = log
  BY DEF IInv, TypeOK, logVars
<1>3. SlotInv(v)'
  BY <1>1, <1>2, SlotKeeps
<1>4. slot' \in [Slots -> RequestState] /\ (\A t \in Slots : slot'[t].end <= Len(log'))
      /\ \A t \in Slots : SlotInv(slot[t])'
  BY <1>1, <1>2, <1>3, SlotsKeep
<1>5. TypeOK'
  BY <1>2, <1>4 DEF IInv, TypeOK, logVars, diskVars
<1>6. LogInv'
  BY <1>2, LogStays
<1>7. DiskInv' /\ HistoryInv' /\ CursorSafe' /\ CacheFollowsLog'
  BY <1>1, DiskKeeps, HistoryKeeps, CursorKeeps, CacheKeeps DEF IInv, logVars, diskVars
<1>. QED  BY <1>4, <1>5, <1>6, <1>7 DEF IInv

LEMMA Spending ==
  ASSUME TypeOK, NEW k \in Kinds \cup {"fault"}, Spend(k)
  PROVE  budget' \in [Kinds \cup {"fault"} -> Nat]
BY DEF TypeOK, Spend
-----------------------------------------------------------------------------
(***************************************************************************)
(* The start and the steps                                                 *)
(***************************************************************************)
LEMMA Starts == Init => IInv
<1>. SUFFICES ASSUME Init PROVE IInv
  OBVIOUS
<1>. DEFINE first == UNION {Needs[c] : c \in {PullBase, PullHead} \cup ({Born[r] : r \in Refs} \ {None})}
<1>1. /\ \A r \in Refs : Born[r] # None => Born[r] \in Commits
      /\ PullBase \in Commits /\ PullHead \in Commits
  BY BornAssumption, PullAssumption
<1>2. first \in SUBSET Objects
  BY <1>1, NeedsAssumption
<1>3. /\ Needs[PullBase] \subseteq first /\ Needs[PullHead] \subseteq first
      /\ \A r \in Refs : Born[r] # None => Needs[Born[r]] \subseteq first
  OBVIOUS
<1>4. log = <<Encode(first)>>
  BY DEF Init
<1>. HIDE DEF first
<1>5. Encode(first) \in SUBSET Records /\ Uncut(Encode(first)) /\ Named(Encode(first)) = first
  BY <1>2, EncodeIsUncut
<1>6. log \in Seq(SUBSET Records) /\ Len(log) = 1 /\ log[1] = Encode(first)
  BY <1>4, <1>5
<1>7. LogInv
  BY <1>5, <1>6 DEF LogInv
<1>8. Stored = first
  <2>1. \A o : o \in Stored <=> \E i \in (0 + 1)..1 : o \in Named(log[i])
    BY <1>6, <1>7, PendingBetween DEF Stored
  <2>2. (0 + 1)..1 = {1}
    OBVIOUS
  <2>3. \A o : o \in Stored <=> o \in Named(log[1])
    BY <2>1, <2>2
  <2>. QED  BY <2>3, <1>5, <1>6
<1>9. TypeOK
  <2>1. budget \in [Kinds \cup {"fault"} -> Nat]
    BY BoundsAssumption DEF Init
  <2>2. merged \in BOOLEAN /\ row \in {"open", "merged"} /\ told = {}
    BY DEF Init
  <2>3. canonical \in [Refs -> Commits \cup {None}] /\ was \subseteq Refs \X (Commits \cup {None})
    BY BornAssumption DEF Init
  <2>4. files \in [Objects -> {"absent", "torn", "whole"}] /\ temp = files
        /\ refs \in [Refs -> Commits \cup {None}]
    BY DEF Init
  <2>5. cursor \in 0..Len(log)
    BY <1>6 DEF Init
  <2>6. slot \in [Slots -> RequestState] /\ \A s \in Slots : slot[s].end <= Len(log)
    BY <1>6, IdleIsARequest DEF Init
  <2>. QED  BY <1>6, <2>1, <2>2, <2>3, <2>4, <2>5, <2>6 DEF TypeOK
<1>10. DiskInv
  BY DEF Init, DiskInv
<1>11. HistoryInv
  <2>1. \A u \in was : \E r \in Refs : u = <<r, Born[r]>>
    BY DEF Init
  <2>2. \A u \in was : u[2] # None => Needs[u[2]] \subseteq Stored
    BY <2>1, <1>3, <1>8
  <2>3. \A r \in Refs : <<r, canonical[r]>> \in was
    BY DEF Init
  <2>. QED  BY <2>2, <2>3, <1>3, <1>8 DEF HistoryInv, Init
<1>12. \A s \in Slots : SlotInv(slot[s])
  BY IdleIsARequest, RestingSlot DEF Init
<1>13. CursorSafe
  <2>1. \A o : o \in Pending(Between(0, 0)) <=> \E i \in (0 + 1)..0 : o \in Named(log[i])
    BY <1>6, <1>7, PendingBetween
  <2>. QED  BY <2>1 DEF CursorSafe, Init
<1>14. CacheFollowsLog
  BY DEF CacheFollowsLog, Init
<1>. QED  BY <1>7, <1>9, <1>10, <1>11, <1>12, <1>13, <1>14 DEF IInv

LEMMA BeginStep ==
  ASSUME IInv, NEW s \in Slots, Begin(s)
  PROVE  IInv'
<1>1. PICK k \in Kinds :
        /\ Spend(k)
        /\ \/ Becomes(s, [Idle EXCEPT !.pc = "hydrate", !.kind = k])
           \/ \E p \in Pushes : \E old \in [DOMAIN p -> Commits \cup {None}] :
                Becomes(s, [Idle EXCEPT !.pc = "hydrate", !.kind = k, !.old = old, !.new = p])
  BY DEF Begin
<1>2. PICK v \in RequestState : Becomes(s, v) /\ v.pc = "hydrate" /\ v.end = 0
  <2>1. CASE Becomes(s, [Idle EXCEPT !.pc = "hydrate", !.kind = k])
    <3>1. PICK u : u = [Idle EXCEPT !.pc = "hydrate", !.kind = k]
      OBVIOUS
    <3>2. u \in RequestState /\ u.pc = "hydrate" /\ u.end = 0
      BY <3>1, IdleIsARequest DEF RequestState, Steps
    <3>. QED  BY <2>1, <3>1, <3>2
  <2>2. ASSUME NEW p \in Pushes, NEW old \in [DOMAIN p -> Commits \cup {None}],
               Becomes(s, [Idle EXCEPT !.pc = "hydrate", !.kind = k, !.old = old, !.new = p])
        PROVE  \E v \in RequestState : Becomes(s, v) /\ v.pc = "hydrate" /\ v.end = 0
    <3>1. PICK u : u = [Idle EXCEPT !.pc = "hydrate", !.kind = k, !.old = old, !.new = p]
      OBVIOUS
    <3>2. p \in Values /\ old \in Values
      BY PushesAssumption, ValuesOf
    <3>3. u \in RequestState /\ u.pc = "hydrate" /\ u.end = 0
      BY <3>1, <3>2, IdleIsARequest DEF RequestState, Steps
    <3>4. Becomes(s, u)
      BY <2>2, <3>1
    <3>. QED  BY <3>3, <3>4
  <2>. QED  BY <1>1, <2>1, <2>2
<1>3. budget' \in [Kinds \cup {"fault"} -> Nat]
  BY <1>1, Spending DEF IInv
<1>4. SlotInv(v) /\ v.end <= Len(log)
  BY <1>2, RestingSlot DEF IInv, TypeOK
<1>5. UNCHANGED <<logVars, diskVars, row, told>>
  BY DEF Begin
<1>. QED  BY <1>2, <1>3, <1>4, <1>5, OnlyTheRequest

LEMMA ReplayToEndStep ==
  ASSUME IInv, NEW s \in Slots, ReplayToEnd(s)
  PROVE  IInv'
<1>. USE DEF IInv
<1>1. /\ log \in Seq(SUBSET Records) /\ LogInv /\ cursor \in 0..Len(log)
      /\ Len(log) \in Nat /\ slot[s] \in RequestState
  BY DEF TypeOK
<1>2. PICK from \in Cursors : Becomes(s, [slot[s] EXCEPT !.pc = "write", !.end = Len(log),
                                             !.todo = Pending(Between(from, Len(log)))])
  BY DEF ReplayToEnd
<1>3. from = cursor \/ from = 0
  BY DEF Cursors
<1>4. from \in 0..Len(log) /\ from \in Nat
  BY <1>1, <1>3
<1>5. PICK v : v = [slot[s] EXCEPT !.pc = "write", !.end = Len(log),
                                   !.todo = Pending(Between(from, Len(log)))]
  OBVIOUS
<1>6. Pending(Between(from, Len(log))) \subseteq Stored /\ Stored \subseteq Objects
  BY <1>1, <1>4, PrefixIsStored
<1>7. /\ v \in RequestState /\ v.pc = "write" /\ v.end = Len(log)
      /\ v.todo = Pending(Between(from, Len(log)))
  BY <1>1, <1>5, <1>6 DEF RequestState, Steps
<1>8. \A o \in Pending(Between(0, from)) : files[o] # "absent"
  <2>1. CASE from = cursor
    BY <2>1 DEF CursorSafe
  <2>2. CASE from = 0
    <3>1. \A o : o \in Pending(Between(0, 0)) <=> \E i \in (0 + 1)..0 : o \in Named(log[i])
      BY <1>1, PendingBetween
    <3>. QED  BY <2>2, <3>1
  <2>. QED  BY <1>3, <2>1, <2>2
<1>9. HydratingInv(v)
  <2>1. ASSUME NEW o \in Pending(Between(0, v.end)) PROVE files[o] # "absent" \/ o \in v.todo
    BY <1>1, <1>4, <1>7, <1>8, NothingBetweenReplays
  <2>. QED  BY <2>1, <1>6, <1>7 DEF HydratingInv, Hydrating
<1>10. StoringInv(v) /\ MirrorInv(v)
  BY <1>7 DEF StoringInv, MirrorInv
<1>11. SlotInv(v) /\ v.end <= Len(log) /\ Becomes(s, v)
  BY <1>1, <1>2, <1>5, <1>7, <1>9, <1>10 DEF SlotInv
<1>12. UNCHANGED <<logVars, diskVars, row, told>> /\ budget' \in [Kinds \cup {"fault"} -> Nat]
  BY DEF ReplayToEnd, TypeOK
<1>. QED  BY <1>7, <1>11, <1>12, OnlyTheRequest

LEMMA WriteNextStep ==
  ASSUME IInv, NEW s \in Slots, WriteNext(s)
  PROVE  IInv'
<1>. USE DEF IInv
<1>1. PICK rest : rest = {o \in slot[s].todo : files[o] = "absent"}
  OBVIOUS
<1>2. PICK v : v = [slot[s] EXCEPT !.todo = rest, !.pc = IF rest = {} THEN "cursor" ELSE "open"]
  OBVIOUS
<1>3. Becomes(s, v) /\ slot[s].pc = "write"
  BY <1>1, <1>2 DEF WriteNext, At
<1>4. slot[s] \in RequestState /\ slot[s].end <= Len(log) /\ rest \in SUBSET Objects
  BY <1>1 DEF TypeOK, RequestState
<1>5. /\ v \in RequestState /\ v.todo = rest /\ v.end = slot[s].end
      /\ (rest = {} => v.pc = "cursor") /\ (rest # {} => v.pc = "open")
  BY <1>2, <1>4 DEF RequestState, Steps
<1>6. HydratingInv(slot[s])
  BY DEF SlotInv
<1>7. HydratingInv(v)
  <2>1. rest \subseteq Stored
    BY <1>1, <1>3, <1>6 DEF HydratingInv, Hydrating
  <2>2. \A o \in Pending(Between(0, v.end)) : files[o] # "absent" \/ o \in v.todo
    BY <1>1, <1>3, <1>5, <1>6 DEF HydratingInv, Hydrating
  <2>. QED  BY <2>1, <2>2, <1>5 DEF HydratingInv, Hydrating
<1>8. StoringInv(v) /\ MirrorInv(v)
  BY <1>5 DEF StoringInv, MirrorInv
<1>9. UNCHANGED <<logVars, diskVars, row, told>> /\ budget' \in [Kinds \cup {"fault"} -> Nat]
  BY DEF WriteNext, TypeOK
<1>10. SlotInv(v) /\ v.end <= Len(log)
  BY <1>4, <1>5, <1>7, <1>8 DEF SlotInv
<1>. QED  BY <1>3, <1>5, <1>9, <1>10, OnlyTheRequest

(***************************************************************************)
(* The object a hydration writes is one the log has.                       *)
(***************************************************************************)
LEMMA WritingOf ==
  ASSUME IInv, NEW s \in Slots, slot[s].pc \in {"open", "fill", "rename"}
  PROVE  /\ First(slot[s].todo) \in slot[s].todo
         /\ First(slot[s].todo) \in Stored /\ First(slot[s].todo) \in Objects
<1>1. slot[s].todo # {} /\ slot[s].todo \subseteq Stored
  BY DEF IInv, SlotInv, HydratingInv, Hydrating
<1>2. slot[s].todo \subseteq Objects
  BY DEF IInv, TypeOK, RequestState
<1>. QED  BY <1>1, <1>2 DEF First

LEMMA OpenTempStep ==
  ASSUME IInv, NEW s \in Slots, OpenTemp(s)
  PROVE  IInv'
<1>. USE DEF IInv
<1>1. PICK o : o = First(slot[s].todo)
  OBVIOUS
<1>2. PICK v : v = [slot[s] EXCEPT !.pc = "fill", !.fd = "temp"]
  OBVIOUS
<1>3. /\ slot[s].pc = "open" /\ temp' = [temp EXCEPT ![o] = "torn"] /\ Becomes(s, v)
      /\ UNCHANGED <<logVars, files, refs, cursor, row, told, budget>>
  BY <1>1, <1>2 DEF OpenTemp, At
<1>4. o \in Stored /\ o \in Objects
  BY <1>1, <1>3, WritingOf
<1>5. slot[s] \in RequestState /\ slot[s].end <= Len(log) /\ SlotInv(slot[s])
  BY DEF TypeOK
<1>6. v \in RequestState /\ v.pc = "fill" /\ v.todo = slot[s].todo /\ v.end = slot[s].end
  BY <1>2, <1>5 DEF RequestState, Steps
<1>7. SlotInv(v)
  <2>1. HydratingInv(v)
    BY <1>3, <1>5, <1>6 DEF SlotInv, HydratingInv, Hydrating
  <2>. QED  BY <2>1, <1>6 DEF SlotInv, StoringInv, MirrorInv
<1>8. Growing
  BY <1>3, QuietLogGrows DEF logVars
<1>9. log \in Seq(SUBSET Records) /\ LogInv /\ log' = log /\ Len(log) \in Nat /\ Len(log') \in Nat
      /\ Len(log) <= Len(log')
  BY <1>3 DEF TypeOK, logVars
<1>10. SlotInv(v)'
  BY <1>5, <1>6, <1>7, <1>8, <1>9, SlotKeeps
<1>11. slot' \in [Slots -> RequestState] /\ (\A t \in Slots : slot'[t].end <= Len(log'))
       /\ \A t \in Slots : SlotInv(slot[t])'
  BY <1>3, <1>5, <1>6, <1>8, <1>9, <1>10, SlotsKeep
<1>12. TypeOK'
  BY <1>3, <1>4, <1>11 DEF TypeOK, logVars
<1>13. DiskInv'
  <2>1. Stored' = Stored
    BY <1>9, LogStays
  <2>. QED  BY <2>1, <1>3, <1>4 DEF DiskInv, TypeOK
<1>14. LogInv' /\ HistoryInv' /\ CursorSafe' /\ CacheFollowsLog'
  BY <1>3, <1>8, <1>9, LogStays, HistoryKeeps, CursorKeeps, CacheKeeps DEF logVars
<1>. QED  BY <1>11, <1>12, <1>13, <1>14

LEMMA FillTempStep ==
  ASSUME IInv, NEW s \in Slots, FillTemp(s)
  PROVE  IInv'
<1>. USE DEF IInv
<1>1. PICK o : o = First(slot[s].todo)
  OBVIOUS
<1>2. PICK v : v = [slot[s] EXCEPT !.pc = "rename"]
  OBVIOUS
<1>3. /\ slot[s].pc = "fill" /\ Becomes(s, v)
      /\ \/ temp' = [temp EXCEPT ![o] = "whole"] /\ UNCHANGED files
         \/ files' = [files EXCEPT ![o] = "whole"] /\ UNCHANGED temp
      /\ UNCHANGED <<logVars, refs, cursor, row, told, budget>>
  BY <1>1, <1>2 DEF FillTemp, At, Goto
<1>4. o \in Stored /\ o \in Objects
  BY <1>1, <1>3, WritingOf
<1>5. slot[s] \in RequestState /\ slot[s].end <= Len(log) /\ SlotInv(slot[s])
  BY DEF TypeOK
<1>6. v \in RequestState /\ v.pc = "rename" /\ v.todo = slot[s].todo /\ v.end = slot[s].end
  BY <1>2, <1>5 DEF RequestState, Steps
<1>7. SlotInv(v)
  <2>1. HydratingInv(v)
    BY <1>3, <1>5, <1>6 DEF SlotInv, HydratingInv, Hydrating
  <2>. QED  BY <2>1, <1>6 DEF SlotInv, StoringInv, MirrorInv
<1>8. Growing
  <2>1. \A p \in Objects : files[p] # "absent" => files'[p] # "absent"
    BY <1>3, <1>4 DEF TypeOK
  <2>. QED  BY <2>1, <1>3, QuietLogGrows DEF logVars
<1>9. log \in Seq(SUBSET Records) /\ LogInv /\ log' = log /\ Len(log) \in Nat /\ Len(log') \in Nat
      /\ Len(log) <= Len(log')
  BY <1>3 DEF TypeOK, logVars
<1>10. SlotInv(v)'
  BY <1>5, <1>6, <1>7, <1>8, <1>9, SlotKeeps
<1>11. slot' \in [Slots -> RequestState] /\ (\A t \in Slots : slot'[t].end <= Len(log'))
       /\ \A t \in Slots : SlotInv(slot[t])'
  BY <1>3, <1>5, <1>6, <1>8, <1>9, <1>10, SlotsKeep
<1>12. TypeOK'
  <2>1. files' \in [Objects -> {"absent", "torn", "whole"}]
        /\ temp' \in [Objects -> {"absent", "torn", "whole"}]
    BY <1>3, <1>4 DEF TypeOK
  <2>. QED  BY <2>1, <1>3, <1>11 DEF TypeOK, logVars
<1>13. DiskInv'
  <2>1. Stored' = Stored
    BY <1>9, LogStays
  <2>. QED  BY <2>1, <1>3, <1>4 DEF DiskInv, TypeOK
<1>14. LogInv' /\ HistoryInv' /\ CursorSafe' /\ CacheFollowsLog'
  BY <1>3, <1>8, <1>9, LogStays, HistoryKeeps, CursorKeeps, CacheKeeps DEF logVars
<1>. QED  BY <1>11, <1>12, <1>13, <1>14

(***************************************************************************)
(* A rename puts in the file's place whatever the temporary file holds, and*)
(* hands the place to those who still have it open.                        *)
(***************************************************************************)
LEMMA RenameTempStep ==
  ASSUME IInv, NEW s \in Slots, RenameTemp(s)
  PROVE  IInv'
<1>. USE DEF IInv
<1>1. PICK o : o = First(slot[s].todo)
  OBVIOUS
<1>2. slot[s].pc = "rename" /\ UNCHANGED <<logVars, row, told, budget>>
  BY DEF RenameTemp, At
<1>3. o \in Stored /\ o \in Objects /\ o \in slot[s].todo
  BY <1>1, <1>2, WritingOf
<1>4. log \in Seq(SUBSET Records) /\ LogInv /\ log' = log /\ Len(log) \in Nat /\ Len(log') \in Nat
      /\ Len(log) <= Len(log')
  BY <1>2 DEF TypeOK, logVars
<1>5. CASE temp[o] = "absent"
  <2>1. Becomes(s, Idle) /\ UNCHANGED diskVars
    BY <1>1, <1>5 DEF RenameTemp, Finish
  <2>2. Idle \in RequestState /\ Idle.end <= Len(log) /\ SlotInv(Idle)
    BY <1>4, IdleIsARequest, RestingSlot
  <2>3. budget' \in [Kinds \cup {"fault"} -> Nat]
    BY <1>2 DEF TypeOK
  <2>. QED  BY <2>1, <2>2, <2>3, <1>2, OnlyTheRequest
<1>6. CASE temp[o] # "absent"
  <2>1. /\ files' = [files EXCEPT ![o] = temp[o]] /\ temp' = [temp EXCEPT ![o] = "absent"]
        /\ slot' = [t \in Slots |->
                     IF t = s THEN [slot[s] EXCEPT !.pc = "write", !.todo = @ \ {o}]
                     ELSE IF Writes(t, o) THEN [slot[t] EXCEPT !.fd = "file"] ELSE slot[t]]
        /\ UNCHANGED <<refs, cursor>>
    BY <1>1, <1>6 DEF RenameTemp
  <2>2. temp[o] \in {"torn", "whole"}
    BY <1>3, <1>6 DEF TypeOK
  <2>3. /\ files' \in [Objects -> {"absent", "torn", "whole"}]
        /\ temp' \in [Objects -> {"absent", "torn", "whole"}]
        /\ files'[o] # "absent" /\ \A p \in Objects \ {o} : files'[p] = files[p] /\ temp'[p] = temp[p]
    BY <1>3, <2>1, <2>2 DEF TypeOK
  <2>4. Growing
    <3>1. \A p \in Objects : files[p] # "absent" => files'[p] # "absent"
      BY <2>3
    <3>. QED  BY <3>1, <1>2, QuietLogGrows DEF logVars
  <2>5. ASSUME NEW t \in Slots
        PROVE  slot'[t] \in RequestState /\ slot'[t].end <= Len(log') /\ SlotInv(slot[t])'
    <3>1. PICK w : w = slot[t]
      OBVIOUS
    <3>2. w \in RequestState /\ w.end <= Len(log) /\ SlotInv(w) /\ w.end \in Nat
      BY <3>1 DEF TypeOK, RequestState
    <3>3. CASE t = s
      <4>1. PICK v : v = [w EXCEPT !.pc = "write", !.todo = w.todo \ {o}]
        OBVIOUS
      <4>2. slot'[t] = v
        BY <2>1, <3>1, <3>3, <4>1, <3>2 DEF RequestState
      <4>3. v \in RequestState /\ v.pc = "write" /\ v.todo = w.todo \ {o} /\ v.end = w.end
        BY <3>2, <4>1 DEF RequestState, Steps
      <4>4. w.pc = "rename" /\ HydratingInv(w)
        BY <3>1, <3>2, <3>3, <1>2 DEF SlotInv
      <4>5. HydratingInv(v)'
        <5>1. v.todo \subseteq Stored'
          BY <4>3, <4>4, <2>4 DEF HydratingInv, Hydrating, Growing
        <5>2. Pending(Between(0, v.end))' = Pending(Between(0, w.end))
              /\ Pending(Between(0, w.end)) \subseteq Objects
          <6>1. w.end \in 0..Len(log) /\ 0 \in Nat
            BY <3>2, <1>4
          <6>2. Pending(Between(0, w.end))' = Pending(Between(0, w.end))
            BY <6>1, <2>4 DEF Growing
          <6>. QED  BY <6>1, <6>2, <4>3, <1>4, PendingBetween
        <5>3. \A p \in Pending(Between(0, w.end)) : files'[p] # "absent" \/ p \in v.todo
          BY <5>2, <4>3, <4>4, <2>3 DEF HydratingInv, Hydrating
        <5>. QED  BY <5>1, <5>2, <5>3, <4>3 DEF HydratingInv, Hydrating
      <4>6. SlotInv(v)'
        BY <4>3, <4>5 DEF SlotInv, StoringInv, MirrorInv
      <4>. QED  BY <4>2, <4>3, <4>6, <3>2, <1>4
             DEF SlotInv, HydratingInv, StoringInv, MirrorInv
    <3>4. CASE t # s
      <4>1. PICK v \in {w, [w EXCEPT !.fd = "file"]} : slot'[t] = v
        BY <2>1, <3>1, <3>4
      <4>2. /\ v \in RequestState /\ v.pc = w.pc /\ v.todo = w.todo /\ v.end = w.end
            /\ v.new = w.new /\ v.names = w.names /\ v.canon = w.canon
        BY <3>2, <4>1 DEF RequestState
      <4>3. SlotInv(v)
        BY <3>2, <4>2 DEF SlotInv, HydratingInv, StoringInv, MirrorInv
      <4>4. SlotInv(v)'
        BY <1>4, <2>4, <3>2, <4>2, <4>3, SlotKeeps
      <4>. QED  BY <4>1, <4>2, <4>4, <3>2, <1>4
             DEF SlotInv, HydratingInv, StoringInv, MirrorInv
    <3>. QED  BY <3>3, <3>4
  <2>6. slot' \in [Slots -> RequestState] /\ \A t \in Slots : slot'[t].end <= Len(log')
    BY <2>1, <2>5
  <2>7. TypeOK'
    BY <2>1, <2>3, <2>6, <1>2 DEF TypeOK, logVars
  <2>8. DiskInv'
    <3>1. Stored' = Stored
      BY <1>4, LogStays
    <3>. QED  BY <3>1, <2>3, <1>3 DEF DiskInv
  <2>9. LogInv' /\ HistoryInv' /\ CursorSafe' /\ CacheFollowsLog'
    BY <2>1, <1>2, <2>4, <1>4, LogStays, HistoryKeeps, CursorKeeps, CacheKeeps DEF logVars
  <2>. QED  BY <2>5, <2>7, <2>8, <2>9
<1>. QED  BY <1>5, <1>6

(***************************************************************************)
(* One request goes on and the log stays as it is.                         *)
(***************************************************************************)
LEMMA RequestGoesOn ==
  ASSUME IInv, UNCHANGED <<log, merged, row>>, Growing,
         NEW s \in Slots, NEW v \in RequestState, v.end <= Len(log), SlotInv(v)', Becomes(s, v),
         canonical' \in [Refs -> Commits \cup {None}],
         was' \subseteq Refs \X (Commits \cup {None}), told' \subseteq Refs \X (Commits \cup {None}),
         files' \in [Objects -> {"absent", "torn", "whole"}], UNCHANGED temp,
         refs' \in [Refs -> Commits \cup {None}], cursor' \in 0..Len(log), UNCHANGED budget
  PROVE  /\ TypeOK' /\ LogInv' /\ Stored' = Stored
         /\ \A t \in Slots : SlotInv(slot[t])'
<1>1. log \in Seq(SUBSET Records) /\ LogInv /\ log' = log /\ Len(log) \in Nat /\ Len(log') \in Nat
      /\ Len(log) <= Len(log')
  BY DEF IInv, TypeOK
<1>2. slot' \in [Slots -> RequestState] /\ (\A t \in Slots : slot'[t].end <= Len(log'))
      /\ \A t \in Slots : SlotInv(slot[t])'
  BY <1>1, SlotsKeep
<1>3. TypeOK'
  BY <1>1, <1>2 DEF IInv, TypeOK
<1>. QED  BY <1>1, <1>2, <1>3, LogStays

LEMMA SetCursorStep ==
  ASSUME IInv, NEW s \in Slots, SetCursor(s)
  PROVE  IInv'
<1>. USE DEF IInv
<1>1. PICK v : v = [slot[s] EXCEPT !.pc = IF slot[s].kind = "merge" THEN "serve" ELSE "refs"]
  OBVIOUS
<1>2. /\ slot[s].pc = "cursor" /\ cursor' = slot[s].end /\ Becomes(s, v)
      /\ UNCHANGED <<logVars, files, temp, refs, row, told, budget>>
  BY <1>1 DEF SetCursor, At, Goto
<1>3. slot[s] \in RequestState /\ slot[s].end <= Len(log) /\ HydratingInv(slot[s])
      /\ log \in Seq(SUBSET Records) /\ Len(log) \in Nat /\ log' = log
  BY <1>2 DEF TypeOK, SlotInv, logVars
<1>4. v \in RequestState /\ v.pc \in {"serve", "refs"} /\ v.end = slot[s].end
  BY <1>1, <1>3 DEF RequestState, Steps
<1>5. Growing
  BY <1>2, QuietLogGrows DEF logVars
<1>6. SlotInv(v)' /\ v.end <= Len(log)
  BY <1>3, <1>4, RestingSlot
<1>7. cursor' \in 0..Len(log)
  BY <1>2, <1>3 DEF RequestState
<1>8. /\ TypeOK' /\ LogInv' /\ Stored' = Stored
      /\ \A t \in Slots : SlotInv(slot[t])'
  BY <1>2, <1>4, <1>5, <1>6, <1>7, RequestGoesOn DEF logVars, TypeOK
<1>9. CursorSafe'
  <2>1. \A o \in Pending(Between(0, slot[s].end)) : files[o] # "absent"
    BY <1>2, <1>3 DEF HydratingInv, Hydrating
  <2>2. Pending(Between(0, cursor))' = Pending(Between(0, slot[s].end))
    BY <1>2, <1>3 DEF Pending, Between, Reassembles
  <2>. QED  BY <2>1, <2>2, <1>2 DEF CursorSafe
<1>10. DiskInv' /\ HistoryInv' /\ CacheFollowsLog'
  BY <1>2, <1>5, DiskKeeps, HistoryKeeps, CacheKeeps DEF logVars
<1>. QED  BY <1>8, <1>9, <1>10

LEMMA RefsForStep ==
  ASSUME IInv, NEW s \in Slots, RefsFor(s)
  PROVE  IInv'
<1>. USE DEF IInv
<1>1. /\ UNCHANGED <<logVars, diskVars, row, told>> /\ budget' \in [Kinds \cup {"fault"} -> Nat]
      /\ slot[s] \in RequestState /\ slot[s].end <= Len(log)
  BY DEF RefsFor, TypeOK
<1>2. CASE \A r \in Refs : canonical[r] = None
  <2>1. PICK v : v = [slot[s] EXCEPT !.pc = "serve"]
    OBVIOUS
  <2>2. Becomes(s, v)
    BY <1>2, <2>1 DEF RefsFor, Goto
  <2>3. v \in RequestState /\ v.pc = "serve" /\ v.end = slot[s].end
    BY <1>1, <2>1 DEF RequestState, Steps
  <2>. QED  BY <1>1, <2>2, <2>3, RestingSlot, OnlyTheRequest
<1>3. CASE ~ \A r \in Refs : canonical[r] = None
  <2>1. PICK v : v = [slot[s] EXCEPT !.pc = "sync", !.canon = canonical,
                        !.names = {r \in Refs : refs[r] # canonical[r]}]
    OBVIOUS
  <2>2. Becomes(s, v)
    BY <1>3, <2>1 DEF RefsFor
  <2>3. canonical \in [Refs -> Commits \cup {None}]
    BY DEF TypeOK
  <2>4. v \in RequestState /\ v.pc = "sync" /\ v.end = slot[s].end /\ v.canon = canonical
    BY <1>1, <2>1, <2>3 DEF RequestState, Steps
  <2>5. SlotInv(v)
    BY <2>4 DEF SlotInv, HydratingInv, Hydrating, StoringInv, MirrorInv, HistoryInv
  <2>. QED  BY <1>1, <2>2, <2>4, <2>5, OnlyTheRequest
<1>. QED  BY <1>2, <1>3

(***************************************************************************)
(* An update-ref: to a value the log gave, of an object that is there.     *)
(***************************************************************************)
LEMMA SyncRefStep ==
  ASSUME IInv, NEW s \in Slots, SyncRef(s)
  PROVE  IInv'
<1>. USE DEF IInv
<1>1. /\ UNCHANGED <<logVars, files, temp, cursor, row, told, budget>>
      /\ slot[s] \in RequestState /\ slot[s].end <= Len(log) /\ slot[s].pc = "sync"
      /\ refs \in [Refs -> Commits \cup {None}] /\ MirrorInv(slot[s])
      /\ budget' \in [Kinds \cup {"fault"} -> Nat] /\ Len(log) \in Nat
  BY DEF SyncRef, TypeOK, At, SlotInv
<1>2. CASE Goto(s, "serve") /\ UNCHANGED refs
  <2>1. PICK v : v = [slot[s] EXCEPT !.pc = "serve"]
    OBVIOUS
  <2>2. Becomes(s, v)
    BY <1>2, <2>1 DEF Goto
  <2>3. v \in RequestState /\ v.pc = "serve" /\ v.end = slot[s].end
    BY <1>1, <2>1 DEF RequestState, Steps
  <2>4. SlotInv(v) /\ UNCHANGED diskVars
    BY <1>1, <1>2, <2>3, RestingSlot DEF diskVars
  <2>. QED  BY <1>1, <2>2, <2>3, <2>4, OnlyTheRequest
<1>3. CASE Finish(s) /\ UNCHANGED refs
  <2>1. Idle \in RequestState /\ Idle.end <= Len(log) /\ SlotInv(Idle)
    BY <1>1, IdleIsARequest, RestingSlot
  <2>2. Becomes(s, Idle) /\ UNCHANGED diskVars
    BY <1>1, <1>3 DEF Finish, diskVars
  <2>. QED  BY <1>1, <2>1, <2>2, OnlyTheRequest
<1>4. ASSUME NEW r \in Refs,
             slot[s].canon[r] = None \/ files[slot[s].canon[r]] # "absent",
             refs' = [refs EXCEPT ![r] = slot[s].canon[r]],
             Becomes(s, [slot[s] EXCEPT !.names = @ \ {r}])
      PROVE  IInv'
  <2>1. PICK v : v = [slot[s] EXCEPT !.names = @ \ {r}]
    OBVIOUS
  <2>2. v \in RequestState /\ v.pc = "sync" /\ v.end = slot[s].end /\ v.canon = slot[s].canon
    BY <1>1, <2>1 DEF RequestState
  <2>3. slot[s].canon[r] \in Commits \cup {None}
    BY <1>1 DEF RequestState
  <2>4. Growing
    BY <1>1, QuietLogGrows DEF logVars
  <2>5. SlotInv(v)'
    <3>1. \A q \in Refs : <<q, v.canon[q]>> \in was'
      BY <1>1, <2>2 DEF MirrorInv, logVars
    <3>. QED  BY <3>1, <2>2 DEF SlotInv, HydratingInv, Hydrating, StoringInv, MirrorInv
  <2>6. refs' \in [Refs -> Commits \cup {None}]
    BY <1>1, <1>4, <2>3
  <2>7. /\ TypeOK' /\ LogInv' /\ Stored' = Stored
        /\ \A t \in Slots : SlotInv(slot[t])'
    BY <1>1, <1>4, <2>1, <2>2, <2>4, <2>5, <2>6, RequestGoesOn DEF logVars, TypeOK
  <2>8. CacheFollowsLog'
    <3>1. <<r, slot[s].canon[r]>> \in was
      BY <1>1 DEF MirrorInv
    <3>2. refs'[r] = slot[s].canon[r] /\ \A q \in Refs \ {r} : refs'[q] = refs[q]
      BY <1>1, <1>4
    <3>. QED  BY <3>1, <3>2, <1>1, <1>4 DEF CacheFollowsLog, logVars
  <2>9. DiskInv' /\ HistoryInv' /\ CursorSafe'
    BY <1>1, <2>4, DiskKeeps, HistoryKeeps, CursorKeeps DEF logVars
  <2>. QED  BY <2>7, <2>8, <2>9
<1>5. \/ Goto(s, "serve") /\ UNCHANGED refs
      \/ Finish(s) /\ UNCHANGED refs
      \/ \E r \in slot[s].names :
           /\ slot[s].canon[r] = None \/ files[slot[s].canon[r]] # "absent"
           /\ refs' = [refs EXCEPT ![r] = slot[s].canon[r]]
           /\ Becomes(s, [slot[s] EXCEPT !.names = @ \ {r}])
  BY DEF SyncRef
<1>6. slot[s].names \subseteq Refs
  BY <1>1 DEF RequestState
<1>. QED  BY <1>2, <1>3, <1>4, <1>5, <1>6

LEMMA EndsQuietly ==
  ASSUME IInv, NEW s \in Slots, Finish(s), UNCHANGED <<logVars, diskVars, row, told>>,
         budget' \in [Kinds \cup {"fault"} -> Nat]
  PROVE  IInv'
<1>1. Idle \in RequestState /\ Idle.end <= Len(log) /\ SlotInv(Idle)
  BY IdleIsARequest, RestingSlot DEF IInv, TypeOK
<1>. QED  BY <1>1, OnlyTheRequest DEF Finish

LEMMA ServeStep ==
  ASSUME IInv, NEW s \in Slots, Serve(s)
  PROVE  IInv'
BY EndsQuietly DEF Serve, IInv, TypeOK

LEMMA PutFailsStep ==
  ASSUME IInv, NEW s \in Slots, PutFails(s)
  PROVE  IInv'
BY EndsQuietly, Spending DEF PutFails, IInv

(***************************************************************************)
(* What the hook passes over is torn, and what is torn is in the log.      *)
(***************************************************************************)
LEMMA ReceivePackStep ==
  ASSUME IInv, NEW s \in Slots, ReceivePack(s)
  PROVE  IInv'
<1>. USE DEF IInv
<1>1. /\ UNCHANGED <<logVars, diskVars, row, told>> /\ budget' \in [Kinds \cup {"fault"} -> Nat]
      /\ slot[s] \in RequestState /\ slot[s].end <= Len(log)
  BY DEF ReceivePack, TypeOK
<1>2. CASE Becomes(s, [slot[s] EXCEPT !.pc = "store", !.todo = Quarantined(s)])
  <2>1. PICK v : v = [slot[s] EXCEPT !.pc = "store", !.todo = Quarantined(s)]
    OBVIOUS
  <2>2. Needed(slot[s].new) \subseteq Objects
    BY <1>1, WhatAPushNames DEF RequestState
  <2>3. Quarantined(s) \in SUBSET Objects
    BY <2>2 DEF Quarantined
  <2>4. v \in RequestState /\ v.pc = "store" /\ v.end = slot[s].end /\ v.new = slot[s].new
        /\ v.todo = Quarantined(s)
    BY <1>1, <2>1, <2>3 DEF RequestState, Steps
  <2>5. ASSUME NEW o \in Needed(v.new) PROVE o \in Stored \cup v.todo
    <3>1. o \in Objects /\ files[o] \in {"absent", "torn", "whole"}
      BY <2>2, <2>4 DEF TypeOK
    <3>2. CASE files[o] = "torn"
      BY <3>1, <3>2 DEF DiskInv
    <3>3. CASE files[o] # "torn"
      <4>1. Pushed(slot[s].new) # {}
        BY <2>4 DEF Needed
      <4>. QED  BY <3>1, <3>3, <4>1, <2>4 DEF Quarantined
    <3>. QED  BY <3>2, <3>3
  <2>6. SlotInv(v)
    BY <2>4, <2>5 DEF SlotInv, HydratingInv, Hydrating, StoringInv, MirrorInv
  <2>. QED  BY <1>1, <1>2, <2>1, <2>4, <2>6, OnlyTheRequest
<1>3. CASE Finish(s)
  BY <1>1, <1>3, EndsQuietly
<1>. QED  BY <1>2, <1>3 DEF ReceivePack

(***************************************************************************)
(* The objects of a merge that neither side has are the ones it makes.     *)
(***************************************************************************)
LEMMA PerformMergeStep ==
  ASSUME IInv, NEW s \in Slots, PerformMerge(s)
  PROVE  IInv'
<1>. USE DEF IInv
<1>1. /\ UNCHANGED <<logVars, temp, refs, cursor, row, told, budget>>
      /\ slot[s] \in RequestState /\ slot[s].end <= Len(log)
      /\ budget' \in [Kinds \cup {"fault"} -> Nat]
  BY DEF PerformMerge, TypeOK
<1>2. CASE Finish(s) /\ UNCHANGED files
  BY <1>1, <1>2, EndsQuietly DEF diskVars
<1>3. CASE /\ files' = [o \in Objects |-> IF o \in CollectNewObjects THEN "whole" ELSE files[o]]
           /\ Becomes(s, [slot[s] EXCEPT !.pc = "store", !.todo = CollectNewObjects,
                            !.old = [r \in {Main} |-> PullBase],
                            !.new = [r \in {Main} |-> MergeCommit]])
  <2>. DEFINE old == [r \in {Main} |-> PullBase]
              new == [r \in {Main} |-> MergeCommit]
  <2>1. PICK v : v = [slot[s] EXCEPT !.pc = "store", !.todo = CollectNewObjects,
                        !.old = old, !.new = new]
    OBVIOUS
  <2>a. Becomes(s, v)
    BY <1>3, <2>1
  <2>b. old \in Values /\ new \in Values
    <3>1. old \in [{Main} -> Commits \cup {None}] /\ new \in [{Main} -> Commits \cup {None}]
          /\ {Main} \in SUBSET Refs
      BY PullAssumption, BornAssumption
    <3>. QED  BY <3>1, ValuesOf
  <2>c. Needed(new) = Needs[MergeCommit]
    <3>1. DOMAIN new = {Main} /\ new[Main] = MergeCommit /\ MergeCommit # None
      BY PullAssumption, NeedsAssumption
    <3>2. Pushed(new) = {MergeCommit}
      BY <3>1 DEF Pushed
    <3>. QED  BY <3>2 DEF Needed
  <2>. HIDE DEF old, new
  <2>2. CollectNewObjects \in SUBSET Objects /\ PullBase \in Commits /\ MergeCommit \in Commits
    BY PullAssumption, NeedsAssumption DEF CollectNewObjects
  <2>3. v \in RequestState /\ v.pc = "store" /\ v.end = slot[s].end /\ v.new = new
        /\ v.todo = CollectNewObjects
    BY <1>1, <2>1, <2>2, <2>b DEF RequestState, Steps
  <2>4. Growing
    <3>1. \A o \in Objects : files[o] # "absent" => files'[o] # "absent"
      BY <1>3
    <3>. QED  BY <1>1, <3>1, QuietLogGrows DEF logVars
  <2>5. files' \in [Objects -> {"absent", "torn", "whole"}]
    BY <1>3 DEF TypeOK
  <2>6. Stored' = Stored
    BY <1>1, LogStays DEF logVars
  <2>7. SlotInv(v)'
    <3>1. Needs[MergeCommit] \subseteq Stored \cup CollectNewObjects
      BY DEF HistoryInv, CollectNewObjects
    <3>. QED  BY <3>1, <2>3, <2>c, <2>6 DEF SlotInv, HydratingInv, Hydrating, StoringInv, MirrorInv
  <2>8. /\ TypeOK' /\ LogInv'
        /\ \A t \in Slots : SlotInv(slot[t])'
    BY <1>1, <2>a, <2>3, <2>4, <2>5, <2>7, RequestGoesOn DEF logVars, TypeOK
  <2>9. DiskInv'
    <3>1. \A o \in Objects : files'[o] = "torn" => files[o] = "torn"
      BY <1>3
    <3>. QED  BY <3>1, <2>6, <1>1 DEF DiskInv
  <2>10. HistoryInv' /\ CursorSafe' /\ CacheFollowsLog'
    BY <1>1, <2>4, HistoryKeeps, CursorKeeps, CacheKeeps DEF logVars
  <2>. QED  BY <2>8, <2>9, <2>10
<1>. QED  BY <1>2, <1>3 DEF PerformMerge

(***************************************************************************)
(* A transaction: what was still to be put is now in the log.              *)
(***************************************************************************)
LEMMA PutAllStep ==
  ASSUME IInv, NEW s \in Slots, PutAll(s)
  PROVE  IInv'
<1>. USE DEF IInv
<1>1. /\ UNCHANGED <<canonical, was, merged, diskVars, row, told, budget>>
      /\ slot[s] \in RequestState /\ slot[s].end <= Len(log) /\ slot[s].pc = "store"
      /\ budget' \in [Kinds \cup {"fault"} -> Nat] /\ StoringInv(slot[s])
      /\ log \in Seq(SUBSET Records) /\ LogInv /\ Len(log) \in Nat
  BY DEF PutAll, TypeOK, At, SlotInv
<1>2. CASE slot[s].todo = {}
  <2>1. PICK v : v = [slot[s] EXCEPT !.pc = "decide"]
    OBVIOUS
  <2>2. Becomes(s, v) /\ log' = log
    BY <1>2, <2>1 DEF PutAll, Goto
  <2>3. v \in RequestState /\ v.pc = "decide" /\ v.end = slot[s].end /\ v.new = slot[s].new
        /\ v.todo = {}
    BY <1>1, <1>2, <2>1 DEF RequestState, Steps
  <2>4. SlotInv(v)
    BY <1>1, <1>2, <2>3 DEF SlotInv, HydratingInv, Hydrating, StoringInv, MirrorInv
  <2>5. UNCHANGED <<logVars, diskVars, row, told>>
    BY <1>1, <2>2 DEF logVars
  <2>. QED  BY <1>1, <2>2, <2>3, <2>4, <2>5, OnlyTheRequest
<1>3. CASE slot[s].todo # {}
  <2>1. PICK g : g = Group(slot[s].todo)
    OBVIOUS
  <2>2. PICK v : v = [slot[s] EXCEPT !.todo = slot[s].todo \ g,
                        !.pc = IF g = slot[s].todo THEN "decide" ELSE "store"]
    OBVIOUS
  <2>3. log' = Append(log, Encode(g)) /\ Becomes(s, v)
    BY <1>1, <1>3, <2>1, <2>2 DEF PutAll, RequestState
  <2>4. slot[s].todo \in SUBSET Objects
    BY <1>1 DEF RequestState
  <2>5. g \in SUBSET slot[s].todo /\ g \in SUBSET Objects
    BY <2>1, <2>4, GroupIsPart
  <2>6. /\ log' \in Seq(SUBSET Records) /\ LogInv'
        /\ Len(log') = Len(log) + 1
        /\ Stored' = Stored \cup g
        /\ \A to \in 0..Len(log) : Pending(Between(0, to))' = Pending(Between(0, to))
    BY <1>1, <2>3, <2>5, Appended
  <2>7. Growing
    BY <1>1, <2>6 DEF Growing, diskVars
  <2>8. /\ v \in RequestState /\ v.pc \in {"store", "decide"} /\ v.end = slot[s].end
        /\ v.new = slot[s].new /\ v.todo = slot[s].todo \ g
        /\ (v.pc = "decide" => v.todo = {})
    BY <1>1, <2>2, <2>4 DEF RequestState, Steps
  <2>9. SlotInv(v)'
    <3>1. Needed(v.new) \subseteq Stored' \cup v.todo
      BY <1>1, <2>6, <2>8 DEF StoringInv
    <3>. QED  BY <3>1, <2>8 DEF SlotInv, HydratingInv, Hydrating, StoringInv, MirrorInv
  <2>10. v.end <= Len(log') /\ Len(log') \in Nat /\ Len(log) <= Len(log')
    BY <1>1, <2>6, <2>8 DEF RequestState
  <2>11. slot' \in [Slots -> RequestState] /\ (\A t \in Slots : slot'[t].end <= Len(log'))
         /\ \A t \in Slots : SlotInv(slot[t])'
    BY <2>3, <2>7, <2>8, <2>9, <2>10, SlotsKeep
  <2>12. TypeOK'
    BY <1>1, <2>6, <2>11 DEF TypeOK, diskVars
  <2>13. DiskInv' /\ HistoryInv' /\ CursorSafe' /\ CacheFollowsLog'
    BY <1>1, <2>7, DiskKeeps, HistoryKeeps, CursorKeeps, CacheKeeps DEF diskVars
  <2>. QED  BY <2>6, <2>11, <2>12, <2>13
<1>. QED  BY <1>2, <1>3

(***************************************************************************)
(* An accepted push: all that its commits need is in the log by then.      *)
(***************************************************************************)
LEMMA DecideStep ==
  ASSUME IInv, NEW s \in Slots, Decide(s)
  PROVE  IInv'
<1>. USE DEF IInv
<1>0. PICK f : f = slot[s].new
  OBVIOUS
<1>. DEFINE moved == [r \in Refs |-> IF r \in DOMAIN f THEN f[r] ELSE canonical[r]]
            news == Told(f, DOMAIN f)
<1>1. /\ UNCHANGED <<log, diskVars, row, budget>>
      /\ slot[s] \in RequestState /\ slot[s].end <= Len(log) /\ slot[s].pc = "decide"
      /\ budget' \in [Kinds \cup {"fault"} -> Nat] /\ StoringInv(slot[s])
      /\ f \in Values /\ Len(log) \in Nat
  BY <1>0 DEF Decide, TypeOK, At, SlotInv, RequestState
<1>a. DOMAIN f \subseteq Refs /\ \A r \in DOMAIN f : f[r] \in Commits \cup {None}
  BY <1>1, WhatAPushNames
<1>b. news \subseteq Refs \X (Commits \cup {None}) /\ \A r \in DOMAIN f : <<r, f[r]>> \in news
  BY <1>a DEF Told
<1>c. \A u \in news : u[2] # None => Needs[u[2]] \subseteq Stored
  <2>1. Needed(f) \subseteq Stored
    BY <1>0, <1>1 DEF StoringInv
  <2>2. \A u \in news : \E r \in DOMAIN f : u = <<r, f[r]>>
    BY DEF Told
  <2>. QED  BY <2>1, <2>2, <1>1, WhatAPushNames
<1>d. moved \in [Refs -> Commits \cup {None}]
  BY <1>a DEF TypeOK
<1>2. CASE Finish(s) /\ UNCHANGED <<canonical, was, merged, told>>
  BY <1>1, <1>2, EndsQuietly DEF logVars
<1>3. ASSUME canonical' = moved, was' = was \cup news,
             merged' \in BOOLEAN, told' \in {told, told \cup news},
             NEW v \in RequestState, v.end <= Len(log), Becomes(s, v),
             v.pc = "idle" \/ (v.pc = "migrate" /\ v.new = f)
      PROVE  IInv'
  <2>1. Growing
    <3>1. was \subseteq was' /\ files' = files
      BY <1>1, <1>3 DEF diskVars
    <3>. QED  BY <3>1, <1>1, LogStays DEF Growing
  <2>2. SlotInv(v)'
    <3>1. v.pc = "migrate" => \A r \in DOMAIN v.new : <<r, v.new[r]>> \in was'
      BY <1>3, <1>b
    <3>. QED  BY <3>1, <1>3 DEF SlotInv, HydratingInv, Hydrating, StoringInv, MirrorInv
  <2>3. log \in Seq(SUBSET Records) /\ LogInv /\ log' = log /\ Len(log') \in Nat
        /\ Len(log) <= Len(log')
    BY <1>1 DEF TypeOK
  <2>4. slot' \in [Slots -> RequestState] /\ (\A t \in Slots : slot'[t].end <= Len(log'))
        /\ \A t \in Slots : SlotInv(slot[t])'
    BY <1>3, <2>1, <2>2, <2>3, SlotsKeep
  <2>5. Stored' = Stored /\ LogInv'
    BY <2>3, LogStays
  <2>6. TypeOK'
    <3>1. canonical' \in [Refs -> Commits \cup {None}]
      BY <1>d, <1>3
    <3>2. was' \subseteq Refs \X (Commits \cup {None}) /\ told' \subseteq Refs \X (Commits \cup {None})
      BY <1>b, <1>3 DEF TypeOK
    <3>. QED  BY <3>1, <3>2, <2>4, <1>1, <1>3 DEF TypeOK, diskVars
  <2>7. HistoryInv'
    <3>2. \A u \in was' : u[2] # None => Needs[u[2]] \subseteq Stored'
      BY <1>c, <1>3, <2>5 DEF HistoryInv
    <3>3. \A q \in Refs : <<q, canonical'[q]>> \in was'
      BY <1>b, <1>3 DEF HistoryInv
    <3>4. told' \subseteq was'
      BY <1>3 DEF HistoryInv
    <3>. QED  BY <3>2, <3>3, <3>4, <2>5 DEF HistoryInv
  <2>8. DiskInv' /\ CursorSafe' /\ CacheFollowsLog'
    BY <1>1, <2>1, DiskKeeps, CursorKeeps, CacheKeeps DEF diskVars
  <2>. QED  BY <2>4, <2>5, <2>6, <2>7, <2>8
<1>4. CASE /\ canonical' = moved /\ was' = was \cup news
           /\ Goto(s, "migrate") /\ UNCHANGED <<merged, told>>
  <2>1. PICK v : v = [slot[s] EXCEPT !.pc = "migrate"]
    OBVIOUS
  <2>2. v \in RequestState /\ v.pc = "migrate" /\ v.end = slot[s].end /\ v.new = f
    BY <1>0, <1>1, <2>1 DEF RequestState, Steps
  <2>3. Becomes(s, v)
    BY <1>4, <2>1 DEF Goto
  <2>4. merged' \in BOOLEAN
    BY <1>4, Zenon DEF TypeOK
  <2>5. told' \in {told, told \cup news}
    BY <1>4
  <2>6. v.end <= Len(log)
    BY <1>1, <2>2
  <2>. QED  BY <1>4, <2>2, <2>3, <2>4, <2>5, <2>6, <1>3
<1>5. CASE /\ canonical' = moved /\ was' = was \cup news
           /\ Finish(s) /\ merged' = TRUE /\ told' = told \cup news
  <2>1. Idle \in RequestState /\ Idle.end <= Len(log) /\ Idle.pc = "idle"
    BY <1>1, IdleIsARequest
  <2>2. Becomes(s, Idle)
    BY <1>5 DEF Finish
  <2>3. merged' \in BOOLEAN
    BY <1>5, Zenon
  <2>4. PICK v : v = Idle
    OBVIOUS
  <2>5. v \in RequestState /\ v.end <= Len(log) /\ v.pc = "idle" /\ Becomes(s, v)
    BY <2>1, <2>2, <2>4
  <2>. QED  BY <1>3, <1>5, <2>3, <2>5
<1>6. \/ Finish(s) /\ UNCHANGED <<canonical, was, merged, told>>
      \/ /\ canonical' = moved /\ was' = was \cup news
         /\ Goto(s, "migrate") /\ UNCHANGED <<merged, told>>
      \/ /\ canonical' = moved /\ was' = was \cup news
         /\ Finish(s) /\ merged' = TRUE /\ told' = told \cup news
  BY <1>0, Zenon DEF Decide
<1>. QED  BY <1>2, <1>4, <1>5, <1>6

LEMMA MigrateStep ==
  ASSUME IInv, NEW s \in Slots, Migrate(s)
  PROVE  IInv'
<1>. USE DEF IInv
<1>0. PICK v : v = [slot[s] EXCEPT !.pc = "update", !.names = DOMAIN slot[s].new]
  OBVIOUS
<1>1. /\ UNCHANGED <<logVars, temp, refs, cursor, row, told, budget>> /\ Becomes(s, v)
      /\ slot[s] \in RequestState /\ slot[s].end <= Len(log) /\ slot[s].pc = "migrate"
      /\ MirrorInv(slot[s])
  BY <1>0 DEF Migrate, TypeOK, At, SlotInv
<1>a. slot[s].new \in Values /\ DOMAIN slot[s].new \in SUBSET Refs
  BY <1>1, WhatAPushNames DEF RequestState
<1>2. v \in RequestState /\ v.pc = "update" /\ v.end = slot[s].end
      /\ v.new = slot[s].new /\ v.names = DOMAIN v.new
  BY <1>0, <1>1, <1>a DEF RequestState, Steps
<1>3. \A o \in Objects :
        files'[o] = IF o \in Needed(v.new) /\ files[o] = "absent" THEN "whole" ELSE files[o]
  BY <1>2 DEF Migrate
<1>4. files' \in [Objects -> {"absent", "torn", "whole"}]
  BY DEF Migrate, TypeOK
<1>5. Growing
  <2>1. \A o \in Objects : files[o] # "absent" => files'[o] # "absent"
    BY <1>3
  <2>. QED  BY <1>1, <2>1, QuietLogGrows DEF logVars
<1>6. SlotInv(v)'
  <2>1. Pushed(v.new) \subseteq Objects /\ Pushed(v.new) \subseteq Needed(v.new)
    BY <1>2, <1>a, WhatAPushNames
  <2>2. \A c \in Pushed(v.new) : files'[c] # "absent"
    BY <2>1, <1>3
  <2>3. \A r \in DOMAIN v.new : <<r, v.new[r]>> \in was'
    BY <1>1, <1>2 DEF MirrorInv, logVars
  <2>. QED  BY <2>2, <2>3, <1>2 DEF SlotInv, HydratingInv, Hydrating, StoringInv, MirrorInv
<1>7. /\ TypeOK' /\ LogInv' /\ Stored' = Stored
      /\ \A t \in Slots : SlotInv(slot[t])'
  BY <1>1, <1>2, <1>4, <1>5, <1>6, RequestGoesOn DEF logVars, TypeOK
<1>8. DiskInv'
  <2>1. \A o \in Objects : files'[o] = "torn" => files[o] = "torn"
    BY <1>3
  <2>. QED  BY <2>1, <1>7, <1>1 DEF DiskInv
<1>9. HistoryInv' /\ CursorSafe' /\ CacheFollowsLog'
  BY <1>1, <1>5, HistoryKeeps, CursorKeeps, CacheKeeps DEF logVars
<1>. QED  BY <1>7, <1>8, <1>9

(***************************************************************************)
(* Git moves a reference, or not, and the request ends or has more to move.*)
(***************************************************************************)
LEMMA GitUpdateStep ==
  ASSUME IInv, NEW s \in Slots, GitUpdate(s)
  PROVE  IInv'
<1>. USE DEF IInv
<1>1. /\ UNCHANGED <<logVars, files, temp, cursor, row, budget>>
      /\ slot[s] \in RequestState /\ slot[s].pc = "update" /\ MirrorInv(slot[s])
      /\ slot[s].end <= Len(log) /\ slot[s].names \in SUBSET Refs
      /\ budget' \in [Kinds \cup {"fault"} -> Nat] /\ Len(log) \in Nat
  BY DEF GitUpdate, TypeOK, At, SlotInv, RequestState
<1>2. PICK r \in slot[s].names :
        /\ IF refs[r] = slot[s].old[r]
           THEN /\ refs' = [refs EXCEPT ![r] = slot[s].new[r]]
                /\ told' = told \cup Told(slot[s].new, {r})
           ELSE UNCHANGED <<refs, told>>
        /\ IF slot[s].names = {r} THEN Finish(s)
           ELSE Becomes(s, [slot[s] EXCEPT !.names = slot[s].names \ {r}])
  BY <1>1 DEF GitUpdate, RequestState
<1>3. PICK c : c = slot[s].new[r]
  OBVIOUS
<1>4. r \in Refs /\ r \in DOMAIN slot[s].new /\ c \in Commits \cup {None}
      /\ <<r, c>> \in was /\ (c # None => files[c] # "absent")
  <2>1. r \in DOMAIN slot[s].new
    BY <1>1, <1>2 DEF MirrorInv
  <2>2. c # None => c \in Pushed(slot[s].new)
    BY <1>3, <2>1 DEF Pushed
  <2>3. slot[s].new \in Values
    BY <1>1 DEF RequestState
  <2>4. c \in Commits \cup {None}
    BY <1>3, <2>1, <2>3, WhatAPushNames
  <2>. QED  BY <1>1, <1>2, <1>3, <2>1, <2>2, <2>4 DEF MirrorInv
<1>5. PICK v \in RequestState : v.end <= Len(log) /\ SlotInv(v) /\ Becomes(s, v)
  <2>1. CASE slot[s].names = {r}
    <3>1. Becomes(s, Idle)
      BY <1>2, <2>1 DEF Finish
    <3>. QED  BY <3>1, <1>1, IdleIsARequest, RestingSlot
  <2>2. CASE slot[s].names # {r}
    <3>1. PICK u : u = [slot[s] EXCEPT !.names = slot[s].names \ {r}]
      OBVIOUS
    <3>2. Becomes(s, u)
      BY <1>2, <2>2, <3>1
    <3>3. u \in RequestState /\ u.pc = "update" /\ u.end = slot[s].end
          /\ u.new = slot[s].new /\ u.names \subseteq slot[s].names
      BY <1>1, <3>1 DEF RequestState
    <3>4. MirrorInv(u)
      BY <1>1, <3>3 DEF MirrorInv
    <3>5. SlotInv(u)
      BY <3>3, <3>4 DEF SlotInv, HydratingInv, Hydrating, StoringInv
    <3>. QED  BY <1>1, <3>2, <3>3, <3>5
  <2>. QED  BY <2>1, <2>2
<1>6. CASE UNCHANGED <<refs, told>>
  BY <1>1, <1>5, <1>6, OnlyTheRequest DEF diskVars
<1>7. CASE refs' = [refs EXCEPT ![r] = slot[s].new[r]] /\ told' = told \cup Told(slot[s].new, {r})
  <2>2. refs' = [refs EXCEPT ![r] = c] /\ told' = told \cup {<<r, c>>}
    BY <1>3, <1>7 DEF Told
  <2>4. Growing
    BY <1>1, QuietLogGrows DEF logVars
  <2>5. log \in Seq(SUBSET Records) /\ LogInv
    BY DEF TypeOK
  <2>6. SlotInv(v)'
    BY <1>5, <2>4, <2>5, SlotKeeps
  <2>7. refs' \in [Refs -> Commits \cup {None}] /\ told' \subseteq Refs \X (Commits \cup {None})
    BY <1>4, <2>2 DEF TypeOK
  <2>8. /\ TypeOK' /\ LogInv' /\ Stored' = Stored
        /\ \A t \in Slots : SlotInv(slot[t])'
    BY <1>1, <1>5, <2>4, <2>6, <2>7, RequestGoesOn DEF logVars, TypeOK
  <2>9. CacheFollowsLog'
    <3>1. refs'[r] = c /\ \A q \in Refs \ {r} : refs'[q] = refs[q]
      BY <1>4, <2>2 DEF TypeOK
    <3>. QED  BY <3>1, <1>4, <1>1 DEF CacheFollowsLog, logVars
  <2>10. HistoryInv'
    BY <1>1, <1>4, <2>2, <2>8 DEF HistoryInv, logVars
  <2>11. DiskInv' /\ CursorSafe'
    BY <1>1, <2>4, DiskKeeps, CursorKeeps DEF logVars
  <2>. QED  BY <2>8, <2>9, <2>10, <2>11
<1>. QED  BY <1>2, <1>6, <1>7

LEMMA ProjectMergeStep ==
  ASSUME IInv, ProjectMerge
  PROVE  IInv'
<1>. USE DEF IInv
<1>1. row' = "merged" /\ UNCHANGED <<logVars, diskVars, slot, told, budget>>
  BY DEF ProjectMerge
<1>2. Growing
  BY <1>1, QuietLogGrows DEF logVars, diskVars
<1>3. TypeOK'
  BY <1>1 DEF TypeOK, logVars, diskVars
<1>4. LogInv'
  BY <1>1, LogStays DEF logVars
<1>5. \A t \in Slots : SlotInv(slot[t])'
  <2>. SUFFICES ASSUME NEW t \in Slots PROVE SlotInv(slot[t])'
    OBVIOUS
  <2>1. PICK w \in RequestState : w = slot[t]
    BY DEF TypeOK
  <2>2. SlotInv(w)'
    BY <1>2, <2>1, SlotKeeps DEF TypeOK
  <2>. QED  BY <1>1, <2>1, <2>2 DEF SlotInv, HydratingInv, StoringInv, MirrorInv
<1>6. DiskInv' /\ HistoryInv' /\ CursorSafe' /\ CacheFollowsLog'
  BY <1>1, <1>2, DiskKeeps, HistoryKeeps, CursorKeeps, CacheKeeps DEF logVars, diskVars
<1>. QED  BY <1>3, <1>4, <1>5, <1>6

(***************************************************************************)
(* The process dies: what it left in files is as it was, and nobody is     *)
(* half way through anything.                                              *)
(***************************************************************************)
LEMMA CrashStep ==
  ASSUME IInv, Crash
  PROVE  IInv'
<1>. USE DEF IInv
<1>1. /\ slot' = [s \in Slots |-> Idle] /\ temp' = [o \in Objects |-> "absent"]
      /\ UNCHANGED <<logVars, files, refs, cursor, row, told>>
      /\ budget' \in [Kinds \cup {"fault"} -> Nat] /\ Len(log) \in Nat
  BY Spending DEF Crash, TypeOK
<1>2. Growing
  BY <1>1, QuietLogGrows DEF logVars
<1>3. TypeOK'
  <2>1. slot' \in [Slots -> RequestState] /\ \A s \in Slots : slot'[s].end <= Len(log')
    BY <1>1, IdleIsARequest DEF logVars
  <2>. QED  BY <2>1, <1>1 DEF TypeOK, logVars
<1>4. LogInv' /\ Stored' = Stored
  BY <1>1, LogStays DEF logVars
<1>5. \A t \in Slots : SlotInv(slot[t])'
  <2>1. PICK w : w = Idle
    OBVIOUS
  <2>2. SlotInv(w)'
    BY <2>1, IdleIsARequest, RestingSlot
  <2>3. \A t \in Slots : slot'[t] = w
    BY <1>1, <2>1
  <2>. QED  BY <2>2, <2>3 DEF SlotInv, HydratingInv, StoringInv, MirrorInv
<1>6. DiskInv'
  BY <1>1, <1>4 DEF DiskInv
<1>7. HistoryInv' /\ CursorSafe' /\ CacheFollowsLog'
  BY <1>1, <1>2, HistoryKeeps, CursorKeeps, CacheKeeps DEF logVars
<1>. QED  BY <1>3, <1>4, <1>5, <1>6, <1>7

(***************************************************************************)
(* The cache is thrown away while nobody is served: its cursor with it.    *)
(***************************************************************************)
LEMMA DestroyStep ==
  ASSUME IInv, Destroy
  PROVE  IInv'
<1>. USE DEF IInv
<1>1. /\ files' = [o \in Objects |-> "absent"] /\ temp' = files'
      /\ refs' = [r \in Refs |-> None] /\ cursor' = 0
      /\ (\A s \in Slots : slot[s].pc = "idle")
      /\ UNCHANGED <<logVars, slot, row, told>>
      /\ budget' \in [Kinds \cup {"fault"} -> Nat]
      /\ Len(log) \in Nat /\ log \in Seq(SUBSET Records)
  BY Spending DEF Destroy, TypeOK, At
<1>2. LogInv' /\ Stored' = Stored /\ log' = log
  BY <1>1, LogStays DEF logVars
<1>3. TypeOK'
  <2>1. files' \in [Objects -> {"absent", "torn", "whole"}]
        /\ temp' \in [Objects -> {"absent", "torn", "whole"}]
        /\ refs' \in [Refs -> Commits \cup {None}] /\ cursor' \in 0..Len(log')
    BY <1>1, <1>2
  <2>. QED  BY <2>1, <1>1, <1>2 DEF TypeOK, logVars
<1>4. \A t \in Slots : SlotInv(slot[t])'
  BY <1>1 DEF SlotInv, HydratingInv, Hydrating, StoringInv, MirrorInv
<1>5. DiskInv'
  BY <1>1 DEF DiskInv
<1>6. HistoryInv'
  BY <1>1, <1>2 DEF HistoryInv, logVars
<1>7. CursorSafe'
  <2>1. \A o : o \in Pending(Between(0, 0)) <=> \E i \in (0 + 1)..0 : o \in Named(log[i])
    BY <1>1, PendingBetween
  <2>2. Pending(Between(0, cursor))' = Pending(Between(0, 0))
    BY <1>1, <1>2 DEF Pending, Between, Reassembles
  <2>. QED  BY <2>1, <2>2 DEF CursorSafe
<1>8. CacheFollowsLog'
  BY <1>1 DEF CacheFollowsLog
<1>. QED  BY <1>3, <1>2, <1>4, <1>5, <1>6, <1>7, <1>8

LEMMA Stutters ==
  ASSUME IInv, UNCHANGED vars
  PROVE  IInv'
<1>. USE DEF IInv
<1>1. UNCHANGED <<logVars, diskVars, slot, row, told, budget>>
  BY DEF vars
<1>2. Growing
  BY <1>1, QuietLogGrows DEF logVars, diskVars
<1>3. TypeOK'
  BY <1>1 DEF TypeOK, logVars, diskVars
<1>4. LogInv'
  BY <1>1, LogStays DEF logVars
<1>5. \A t \in Slots : SlotInv(slot[t])'
  <2>. SUFFICES ASSUME NEW t \in Slots PROVE SlotInv(slot[t])'
    OBVIOUS
  <2>1. PICK w \in RequestState : w = slot[t]
    BY DEF TypeOK
  <2>2. SlotInv(w)'
    BY <1>2, <2>1, SlotKeeps DEF TypeOK
  <2>. QED  BY <1>1, <2>1, <2>2 DEF SlotInv, HydratingInv, StoringInv, MirrorInv
<1>6. DiskInv' /\ HistoryInv' /\ CursorSafe' /\ CacheFollowsLog'
  BY <1>1, <1>2, DiskKeeps, HistoryKeeps, CursorKeeps, CacheKeeps DEF logVars, diskVars
<1>. QED  BY <1>3, <1>4, <1>5, <1>6
-----------------------------------------------------------------------------
(***************************************************************************)
(* The theorems                                                            *)
(***************************************************************************)

(***************************************************************************)
(* The inductive invariant holds in every state of every run.              *)
(***************************************************************************)
THEOREM Invariant == Spec => []IInv
<1>1. Init => IInv
  BY Starts
<1>2. IInv /\ [Next]_vars => IInv'
  <2>. SUFFICES ASSUME IInv, [Next]_vars PROVE IInv'
    OBVIOUS
  <2>1. ASSUME NEW s \in Slots, Request(s) PROVE IInv'
    BY <2>1, BeginStep, ReplayToEndStep, WriteNextStep, OpenTempStep, FillTempStep,
       RenameTempStep, SetCursorStep, RefsForStep, SyncRefStep, ServeStep, ReceivePackStep,
       PerformMergeStep, PutAllStep, PutFailsStep, DecideStep, MigrateStep, GitUpdateStep
       DEF Request
  <2>. QED  BY <2>1, ProjectMergeStep, CrashStep, DestroyStep, Stutters DEF Next
<1>. QED  BY <1>1, <1>2, PTL DEF Spec

(***************************************************************************)
(* Every variable keeps its type: the cursor and the end every hydration   *)
(* replays to lie within the log.                                          *)
(***************************************************************************)
THEOREM TypeCorrect == Spec => []TypeOK
<1>1. IInv => TypeOK
  BY DEF IInv
<1>. QED  BY <1>1, Invariant, PTL

(***************************************************************************)
(* The log alone can rebuild every branch (git.rs stores what a push       *)
(* brought, and the merge what it made, before the reference moves).       *)
(***************************************************************************)
THEOREM BranchesCanBeRebuilt == Spec => []RefsResolvable
<1>1. IInv => RefsResolvable
  <2>. SUFFICES ASSUME IInv, NEW r \in Refs, canonical[r] # None
                PROVE  Needs[canonical[r]] \subseteq Stored
    BY DEF RefsResolvable
  <2>1. PICK u \in was : u = <<r, canonical[r]>>
    BY DEF IInv, HistoryInv
  <2>. QED  BY <2>1 DEF IInv, HistoryInv
<1>. QED  BY <1>1, Invariant, PTL

(***************************************************************************)
(* The cursor never passes an object the cache does not have, whoever sets *)
(* it, however far behind the log its own replay ended.                    *)
(***************************************************************************)
THEOREM CursorPassesNothing == Spec => []CursorSafe
<1>1. IInv => CursorSafe
  BY DEF IInv
<1>. QED  BY <1>1, Invariant, PTL

(***************************************************************************)
(* What git advertises from the cache is an object it has and a value the  *)
(* log gave that branch.                                                   *)
(***************************************************************************)
THEOREM AdvertisesHistory == Spec => []CacheFollowsLog
<1>1. IInv => CacheFollowsLog
  BY DEF IInv
<1>. QED  BY <1>1, Invariant, PTL

(***************************************************************************)
(* A client told that its update was made was told the truth.              *)
(***************************************************************************)
THEOREM ClientsHearTheTruth == Spec => []TruthfulPush
<1>1. IInv => TruthfulPush
  BY DEF IInv, HistoryInv, TruthfulPush
<1>. QED  BY <1>1, Invariant, PTL
=============================================================================
