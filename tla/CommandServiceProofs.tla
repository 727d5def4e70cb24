------------------------ MODULE CommandServiceProofs ------------------------
(***************************************************************************)
(* Proofs that hold for every set of processes, requests, names and        *)
(* references, every push and any number of takeovers.                     *)
(***************************************************************************)
EXTENDS CommandService, Integers, SequenceTheorems, WellFoundedInduction, TLAPS

(***************************************************************************)
(* Helpers on sequences and on the two apply operators                     *)
(***************************************************************************)

\* A non-empty set of indices of a sequence has a largest element; it is the
\* one LastTouch chooses.
LEMMA LargestIndex ==
  ASSUME NEW n \in Nat, NEW S, S \subseteq 1..n, S # {}
  PROVE  \E k \in S : \A j \in S : j <= k
<1> DEFINE R == OpToRel(<, Nat)
           D == {n - k : k \in S}
<1>1. D \subseteq Nat /\ D # {}
  <2>1. D \subseteq Nat
    OBVIOUS
  <2>2. PICK k \in S : TRUE
    OBVIOUS
  <2>3. n - k \in D
    BY <2>2
  <2> QED BY <2>1, <2>3
<1>2. IsWellFoundedOn(R, Nat)
  BY NatLessThanWellFounded
<1>3. \A x, y \in Nat : x < y => <<x, y>> \in R
  BY DEF OpToRel
<1> HIDE DEF R, D
<1>4. PICK x \in D : \A y \in D : ~ (<<y, x>> \in R)
  BY <1>1, <1>2, WFMin
<1>5. ASSUME NEW y \in D PROVE x <= y
  <2>1. x \in Nat /\ y \in Nat
    BY <1>1
  <2>2. ~ (y < x)
    BY <1>3, <1>4, <2>1
  <2> QED BY <2>1, <2>2
<1>6. PICK k \in S : x = n - k
  BY DEF D
<1>7. \A j \in S : n - j \in D
  BY DEF D
<1>8. \A j \in S : j <= k
  BY <1>5, <1>6, <1>7
<1> QED BY <1>8

\* Applying the moves of a push to a reference map gives a reference map.
LEMMA ApplyMovesType ==
  ASSUME NEW rf \in RefMaps, NEW moves \in Seq(Move)
  PROVE  ApplyMoves(rf, moves) \in RefMaps
<1>1. ASSUME NEW f \in RefKeys, Touching(moves, f) # {}
      PROVE  moves[LastTouch(moves, f)].new \in Oids \cup {None}
  <2>1. Touching(moves, f) \subseteq 1..Len(moves) /\ Len(moves) \in Nat
    BY DEF Touching
  <2>2. \E k \in Touching(moves, f) : \A j \in Touching(moves, f) : j <= k
    BY <1>1, <2>1, LargestIndex
  <2>3. LastTouch(moves, f) \in Touching(moves, f)
    BY <2>2 DEF LastTouch
  <2>4. moves[LastTouch(moves, f)] \in Move
    BY <2>1, <2>3
  <2> QED BY <2>4 DEF Move
<1> QED BY <1>1 DEF ApplyMoves, RefMaps

\* A transaction without moves leaves the map alone.
LEMMA ApplyMovesNone ==
  ASSUME NEW rf \in RefMaps
  PROVE  ApplyMoves(rf, <<>>) = rf
<1>1. \A f \in RefKeys : Touching(<<>>, f) = {}
  BY DEF Touching
<1> QED BY <1>1 DEF ApplyMoves, RefMaps

LEMMA CounterKeyOf == \A r \in Repos : issue_counter_key(r) \in CounterKeys
BY DEF issue_counter_key, CounterKeys

\* None is not a key, and no key names both a holder and a counter.
LEMMA NoneIsNoKey == None \notin Keys /\ None \notin CounterKeys /\ NameKeys \cap CounterKeys = {}
<1>2. None \notin Keys
  BY NoneAssumption
<1>3. CounterKeys \subseteq Keys
  BY DEF Keys
<1>4. ASSUME NEW k \in NameKeys PROVE k[1] # "issuenum"
  BY DEF NameKeys
<1>5. ASSUME NEW k \in CounterKeys PROVE k[1] = "issuenum"
  BY DEF CounterKeys
<1> QED BY <1>2, <1>3, <1>4, <1>5

LEMMA ApplyClaimType ==
  ASSUME NEW cat \in Catalogs, NEW t \in Tx
  PROVE  ApplyClaim(cat, t) \in Catalogs
<1>1. CASE t.key = None
  BY <1>1 DEF ApplyClaim
<1>2. CASE t.key # None
  <2>1. t.key \in Keys /\ t.claim \in Claims /\ (t.key \in CounterKeys => t.claim \in Nat)
    BY <1>2 DEF Tx
  <2>2. cat \in [Keys -> Claims \cup {None}] /\ \A k \in CounterKeys : cat[k] \in Nat \cup {None}
    BY DEF Catalogs
  <2>3. CounterKeys \subseteq Keys
    BY DEF Keys
  <2> DEFINE new == [cat EXCEPT ![t.key] = t.claim]
  <2>4. new \in [Keys -> Claims \cup {None}]
    BY <2>1, <2>2
  <2>5. \A k \in CounterKeys : new[k] \in Nat \cup {None}
    BY <2>1, <2>2, <2>3
  <2>6. new \in Catalogs
    BY <2>4, <2>5 DEF Catalogs
  <2> QED BY <1>2, <2>6 DEF ApplyClaim
<1> QED BY <1>1, <1>2
-----------------------------------------------------------------------------
(***************************************************************************)
(* The shapes of a step                                                    *)
(***************************************************************************)

\* A handler decides to write t.
Accepts(q, p, phase, t) ==
  /\ pc[q] = "idle"
  /\ status[p] = "serving"
  /\ t.req = q
  /\ t.op \notin EventOps => LockFree(p)
  /\ IF phase = "topic" THEN t.key \in {"repo"} \X RepoNames ELSE t.op # "create_repo"
  /\ Fits(memCatalog[p], memRefs[p], t)
  /\ Decided(q, p, phase, t)

\* A handler returns, or is dropped; only the latter may leave something of
\* its own unapplied.
Refuses(q, r) ==
  /\ r \in Replies \ {"ok"}
  /\ pc[q] # "done"
  /\ pc[q] = "committed" => DropDuringCommit /\ r = "none"
  /\ Refuse(q, r)

\* Every way of deciding a request refuses it, or accepts a well-formed
\* transaction that fits the process's memory.
LEMMA DecideShape ==
  ASSUME TypeOK, NEW q \in Requests, NEW p \in Procs, Decide(q, p)
  PROVE  \/ \E r \in Replies : Refuses(q, r)
         \/ \E phase \in {"topic", "begun"}, t \in Tx : Accepts(q, p, phase, t)
<1> USE DEF Ops, NameOps, OpenOps, RefOps, EventOps
<1>0. memCatalog[p] \in Catalogs /\ memRefs[p] \in RefMaps
  BY DEF TypeOK
<1>1. ASSUME Arrives(q, p), NEW r \in Replies \ {"ok"}, Refuse(q, r)
      PROVE  Refuses(q, r)
  BY <1>1 DEF Arrives, Refuses
<1>2. CASE RejectInvalid(q, p)
  BY <1>1, <1>2 DEF RejectInvalid, Replies
<1>10. "rejected" \in Replies \ {"ok"} /\ "noop" \in Replies \ {"ok"} /\ "fenced" \in Replies \ {"ok"}
  BY DEF Replies
<1>3. ASSUME NEW n \in Usernames, RegisterUser(q, p, n)
      PROVE  \/ \E r \in Replies : Refuses(q, r)
             \/ \E phase \in {"topic", "begun"}, t \in Tx : Accepts(q, p, phase, t)
  <2>1. CASE Refuse(q, "rejected") \/ Refuse(q, "fenced")
    BY <1>1, <1>10, <1>3, <2>1 DEF RegisterUser
  <2>2. CASE ~ (Refuse(q, "rejected") \/ Refuse(q, "fenced"))
    <3> DEFINE t == ClaimTx(q, "register_user", user_key(n))
    <3>1. t \in Tx
      BY NoneAssumption DEF ClaimTx, Tx, Keys, NameKeys, CounterKeys, user_key, Claims
    <3>2. Fits(memCatalog[p], memRefs[p], t)
      BY <1>3, <2>2 DEF Fits, ClaimTx, RegisterUser, NameKeys, user_key
    <3>3. Accepts(q, p, "begun", t)
      BY <1>3, <2>2, <3>2 DEF Accepts, RegisterUser, Begin, Arrives, ClaimTx
    <3> QED BY <3>1, <3>3
  <2> QED BY <2>1, <2>2
<1>4. ASSUME NEW n \in RepoNames, CreateRepo(q, p, n)
      PROVE  \/ \E r \in Replies : Refuses(q, r)
             \/ \E phase \in {"topic", "begun"}, t \in Tx : Accepts(q, p, phase, t)
  <2>1. CASE Refuse(q, "rejected") \/ Refuse(q, "fenced")
    BY <1>1, <1>10, <1>4, <2>1 DEF CreateRepo
  <2>2. CASE ~ (Refuse(q, "rejected") \/ Refuse(q, "fenced"))
    <3> DEFINE t == ClaimTx(q, "create_repo", repo_key(n))
    <3>1. t \in Tx
      BY NoneAssumption DEF ClaimTx, Tx, Keys, NameKeys, CounterKeys, repo_key, Claims
    <3>2. Fits(memCatalog[p], memRefs[p], t)
      BY <1>4, <2>2 DEF Fits, ClaimTx, CreateRepo, NameKeys, repo_key
    <3>3. Accepts(q, p, "topic", t)
      BY <1>4, <2>2, <3>2 DEF Accepts, CreateRepo, Arrives, ClaimTx, repo_key
    <3> QED BY <3>1, <3>3
  <2> QED BY <2>1, <2>2
<1>5. ASSUME NEW op \in OpenOps, NEW r \in Repos, OpenNumbered(q, p, op, r)
      PROVE  \/ \E a \in Replies : Refuses(q, a)
             \/ \E phase \in {"topic", "begun"}, t \in Tx : Accepts(q, p, phase, t)
  <2> DEFINE n == next_issue_number(memCatalog[p], r)
             t == OpenTx(q, op, r, n)
  <2>1. issue_counter_key(r) \in CounterKeys /\ CounterKeys \subseteq Keys
    BY DEF issue_counter_key, CounterKeys, Keys
  <2>2. n \in Nat
    BY <1>0, <2>1 DEF next_issue_number, Catalogs
  <2>3. t \in Tx
    BY <2>1, <2>2, NoneAssumption DEF OpenTx, Tx, Claims
  <2>4. Fits(memCatalog[p], memRefs[p], t)
    BY DEF Fits, OpenTx
  <2>5. CASE Refuse(q, "fenced")
    BY <1>1, <1>10, <1>5, <2>5 DEF OpenNumbered
  <2>6. CASE ~ Refuse(q, "fenced")
    <3>1. Accepts(q, p, "begun", t)
      BY <1>5, <2>4, <2>6 DEF Accepts, OpenNumbered, Begin, Arrives, OpenTx
    <3> QED BY <2>3, <3>1
  <2> QED BY <2>5, <2>6
<1>6. ASSUME NEW batch \in Batches,
             NEW old \in [DOMAIN batch -> Oids \cup {None}],
             NEW new \in [DOMAIN batch -> Oids \cup {None}],
             UpdateRefs(q, p, batch, old, new)
      PROVE  \/ \E r \in Replies : Refuses(q, r)
             \/ \E phase \in {"topic", "begun"}, t \in Tx : Accepts(q, p, phase, t)
  <2> DEFINE moves == [k \in DOMAIN batch |-> [ref |-> batch[k], old |-> old[k], new |-> new[k]]]
             t == MoveTx(q, "update_refs", moves)
  <2>1. CASE \E r \in {"noop", "rejected", "fenced"} : Refuse(q, r)
    BY <1>1, <1>10, <1>6, <2>1 DEF UpdateRefs
  <2>2. CASE ~ \E r \in {"noop", "rejected", "fenced"} : Refuse(q, r)
    <3>1. batch \in Seq(RefKeys)
      BY BatchesAssumption
    <3>2. moves \in Seq(Move)
      <4>1. DOMAIN batch = 1..Len(batch) /\ Len(batch) \in Nat
        BY <3>1
      <4>2. \A k \in DOMAIN batch : moves[k] \in Move
        BY <3>1, <4>1 DEF Move
      <4>3. moves \in [1..Len(batch) -> Move]
        BY <4>1, <4>2
      <4> QED BY <4>1, <4>3, IsASeq
    <3>3. t \in Tx
      BY <3>2, NoneAssumption, NoneIsNoKey DEF MoveTx, Tx
    <3>4. /\ LockFree(p)
          /\ batch # <<>>
          /\ \A k \in DOMAIN moves : check(memRefs[p], moves[k])
          /\ Decided(q, p, "begun", t)
      BY <1>6, <2>2 DEF UpdateRefs, Begin
    <3>5. moves # <<>>
      BY <3>1, <3>4
    <3>6. Fits(memCatalog[p], memRefs[p], t)
      BY <3>4, <3>5 DEF Fits, MoveTx, check
    <3>7. Accepts(q, p, "begun", t)
      BY <1>6, <3>4, <3>6 DEF Accepts, UpdateRefs, Arrives, MoveTx
    <3> QED BY <3>3, <3>7
  <2> QED BY <2>1, <2>2
<1>7. ASSUME NEW f \in RefKeys, NEW base \in Oids, NEW commit \in Oids,
             MergePull(q, p, f, base, commit)
      PROVE  \/ \E r \in Replies : Refuses(q, r)
             \/ \E phase \in {"topic", "begun"}, t \in Tx : Accepts(q, p, phase, t)
  <2> DEFINE m == [ref |-> f, old |-> base, new |-> commit]
             t == MoveTx(q, "merge_pull", <<m>>)
  <2>1. CASE Refuse(q, "rejected") \/ Refuse(q, "fenced")
    BY <1>1, <1>10, <1>7, <2>1 DEF MergePull
  <2>2. CASE ~ (Refuse(q, "rejected") \/ Refuse(q, "fenced"))
    <3>1. m \in Move
      BY DEF Move
    <3>2. t \in Tx
      BY <3>1, NoneAssumption, NoneIsNoKey DEF MoveTx, Tx
    <3>3. LockFree(p) /\ memRefs[p][f] = base /\ Decided(q, p, "begun", t)
      BY <1>7, <2>2 DEF MergePull, Begin
    <3>4. Fits(memCatalog[p], memRefs[p], t)
      BY <3>3 DEF Fits, MoveTx
    <3>5. Accepts(q, p, "begun", t)
      BY <1>7, <3>3, <3>4 DEF Accepts, MergePull, Arrives, MoveTx
    <3> QED BY <3>2, <3>5
  <2> QED BY <2>1, <2>2
<1>8. CASE AppendEvent(q, p)
  <2> DEFINE t == MoveTx(q, "event", <<>>)
  <2>1. t \in Tx
    BY NoneIsNoKey DEF MoveTx, Tx
  <2>2. Fits(memCatalog[p], memRefs[p], t)
    BY DEF Fits, MoveTx
  <2>3. CASE Refuse(q, "fenced")
    BY <1>1, <1>10, <1>8, <2>3 DEF AppendEvent
  <2>4. CASE ~ Refuse(q, "fenced")
    <3>1. Accepts(q, p, "begun", t)
      BY <1>8, <2>2, <2>4 DEF Accepts, AppendEvent, Begin, Arrives, MoveTx
    <3> QED BY <2>1, <3>1
  <2> QED BY <2>3, <2>4
<1>9. ASSUME NEW r \in Repos, OpenIssue(q, p, r) \/ OpenPull(q, p, r)
      PROVE  \/ \E a \in Replies : Refuses(q, a)
             \/ \E phase \in {"topic", "begun"}, t \in Tx : Accepts(q, p, phase, t)
  BY <1>5, <1>9 DEF OpenIssue, OpenPull
<1> QED BY <1>2, <1>3, <1>4, <1>6, <1>7, <1>8, <1>9 DEF Decide

\* A handler in flight is at a serving process.
LEMMA InFlight ==
  ASSUME TypeOK, TaskInv, NEW q \in Requests, pc[q] \in {"topic", "begun", "open", "committed"}
  PROVE  at[q] \in Procs /\ tx[q] \in Tx /\ tx[q].req = q /\ status[at[q]] = "serving"
<1>1. at[q] # None
  BY DEF TaskInv
<1>2. at[q] \in Procs \cup {None}
  BY DEF TypeOK
<1>3. tx[q] \in Tx /\ tx[q].req = q /\ status[at[q]] = "serving"
  BY <1>1 DEF TaskInv
<1> QED BY <1>1, <1>2, <1>3

Shaped ==
  \/ \E q \in Requests, r \in Replies : Refuses(q, r)
  \/ \E q \in Requests, p \in Procs, phase \in {"topic", "begun"}, t \in Tx :
       Accepts(q, p, phase, t)
  \/ \E q \in Requests : \/ EnsureRepo(q)
                        \/ Send(q)
                        \/ BrokerCommit(q)
                        \/ CommitAcked(q)
                        \/ TransactFenced(q)
  \/ \E p \in Procs : Die(p) \/ Connect(p) \/ ReplayCatalog(p) \/ ReplayRefs(p)

LEMMA NextShape ==
  ASSUME TypeOK, TaskInv, Next
  PROVE  Shaped
<1>1. ASSUME NEW p \in Procs, Connect(p) \/ ReplayCatalog(p) \/ ReplayRefs(p) \/ Crash(p)
      PROVE  Shaped
  BY <1>1 DEF Shaped, Crash
<1>2. ASSUME NEW q \in Requests, NEW p \in Procs, Decide(q, p)
      PROVE  Shaped
  BY <1>2, DecideShape DEF Shaped
<1>3. ASSUME NEW q \in Requests, NEW r \in Replies, Refuses(q, r)
      PROVE  Shaped
  BY <1>3 DEF Shaped
<1>4. ASSUME NEW q \in Requests, Proceed(q)
      PROVE  Shaped
  <2>1. CASE EnsureRepoFails(q)
    <3>1. Refuses(q, "error")
      BY <2>1 DEF EnsureRepoFails, Refuses, Replies
    <3> QED BY <1>3, <3>1 DEF Replies
  <2>2. CASE TransactFails(q)
    <3>1. Refuses(q, "error")
      BY <2>2 DEF TransactFails, Refuses, Replies
    <3> QED BY <1>3, <3>1 DEF Replies
  <2>3. CASE RecoveryRequired(q)
    <3>1. at[q] \in Procs
      BY <2>3, InFlight DEF RecoveryRequired
    <3> QED BY <2>3, <3>1 DEF RecoveryRequired, Shaped
  <2> QED BY <1>4, <2>1, <2>2, <2>3 DEF Proceed, Answered, Faulted, Shaped
<1>5. ASSUME NEW q \in Requests, DropHandler(q)
      PROVE  Shaped
  <2>1. Refuses(q, "none")
    BY <1>5, DropAssumption DEF DropHandler, Refuses, Replies
  <2> QED BY <1>3, <2>1 DEF Replies
<1> QED BY <1>1, <1>2, <1>4, <1>5 DEF Next
-----------------------------------------------------------------------------
(***************************************************************************)
(* Type correctness and the place of every handler                         *)
(***************************************************************************)

LEMMA TypeStep ==
  ASSUME TypeOK, TaskInv, Shaped
  PROVE  TypeOK'
<1> USE DEF TypeOK, brokerVars, procVars, taskVars
<1>1. ASSUME NEW q \in Requests, NEW r \in Replies, Refuses(q, r)
      PROVE  TypeOK'
  BY <1>1 DEF Refuses, Refuse, Finish, Phases
<1>2. ASSUME NEW q \in Requests, NEW p \in Procs, NEW phase \in {"topic", "begun"},
             NEW t \in Tx, Accepts(q, p, phase, t)
      PROVE  TypeOK'
  BY <1>2 DEF Accepts, Decided, Phases
<1>3. ASSUME NEW q \in Requests, EnsureRepo(q)
      PROVE  TypeOK'
  <2>1. tx[q].key[2] \in RepoNames
    BY <1>3 DEF EnsureRepo, TaskInv
  <2>2. CASE fenced[at[q]]
    BY <1>3, <2>1, <2>2 DEF EnsureRepo, Finish, Phases, Replies
  <2>3. CASE ~fenced[at[q]]
    BY <1>3, <2>1, <2>3 DEF EnsureRepo, Phases
  <2> QED BY <2>2, <2>3
<1>4. ASSUME NEW q \in Requests, Send(q)
      PROVE  TypeOK'
  BY <1>4 DEF Send, Phases
<1>5. ASSUME NEW q \in Requests, BrokerCommit(q)
      PROVE  TypeOK'
  <2>1. tx[q] \in Tx
    BY <1>5 DEF BrokerCommit, TaskInv
  <2>2. tx[q].moves \in Seq(Move)
    BY <2>1 DEF Tx
  <2>3. log' \in Seq(Tx) /\ reflog' \in Seq(Move)
    BY <1>5, <2>1, <2>2 DEF BrokerCommit
  <2>4. catalog' \in Catalogs /\ refs' \in RefMaps
    BY <1>5, <2>1, <2>2, ApplyClaimType, ApplyMovesType DEF BrokerCommit
  <2> QED BY <1>5, <2>3, <2>4 DEF BrokerCommit, Phases
<1>6. ASSUME NEW q \in Requests, CommitAcked(q)
      PROVE  TypeOK'
  <2>1. at[q] \in Procs /\ tx[q] \in Tx
    BY <1>6, InFlight DEF CommitAcked
  <2>2. tx[q].moves \in Seq(Move)
    BY <2>1 DEF Tx
  <2>3. ApplyClaim(memCatalog[at[q]], tx[q]) \in Catalogs
    BY <2>1, ApplyClaimType
  <2>4. ApplyMoves(memRefs[at[q]], tx[q].moves) \in RefMaps
    BY <2>1, <2>2, ApplyMovesType
  <2> QED BY <1>6, <2>1, <2>3, <2>4 DEF CommitAcked, Finish, Phases, Replies
<1>7. ASSUME NEW q \in Requests, TransactFenced(q)
      PROVE  TypeOK'
  BY <1>7 DEF TransactFenced, Finish, Phases, Replies
<1>8. EmptyCatalog \in Catalogs /\ EmptyRefs \in RefMaps
  BY DEF EmptyCatalog, Catalogs, Keys, EmptyRefs, RefMaps
<1>9. ASSUME NEW p \in Procs, Die(p)
      PROVE  TypeOK'
  BY <1>8, <1>9 DEF Die, Phases, Status
<1>10. ASSUME NEW p \in Procs, Connect(p)
       PROVE  TypeOK'
  BY <1>10 DEF Connect, Status
<1>11. ASSUME NEW p \in Procs, ReplayCatalog(p)
       PROVE  TypeOK'
  BY <1>11 DEF ReplayCatalog, Status
<1>12. ASSUME NEW p \in Procs, ReplayRefs(p)
       PROVE  TypeOK'
  BY <1>12 DEF ReplayRefs, Status
<1> QED BY <1>1, <1>2, <1>3, <1>4, <1>5, <1>6, <1>7, <1>9, <1>10, <1>11, <1>12 DEF Shaped
LEMMA TaskStep ==
  ASSUME TypeOK, TaskInv, Shaped
  PROVE  TaskInv'
<1> USE DEF TaskInv, brokerVars, procVars, taskVars
<1>0. /\ at \in [Requests -> Procs \cup {None}]
      /\ pc \in [Requests -> Phases]
      /\ tx \in [Requests -> Tx \cup {None}]
      /\ status \in [Procs -> Status]
  BY DEF TypeOK
<1>1. ASSUME NEW q \in Requests, NEW r \in Replies, Refuses(q, r)
      PROVE  TaskInv'
  BY <1>0, <1>1 DEF Refuses, Refuse, Finish
<1>2. ASSUME NEW q \in Requests, NEW p \in Procs, NEW phase \in {"topic", "begun"},
             NEW t \in Tx, Accepts(q, p, phase, t)
      PROVE  TaskInv'
  BY <1>0, <1>2, ProcsAssumption DEF Accepts, Decided
<1>3. ASSUME NEW q \in Requests, EnsureRepo(q)
      PROVE  TaskInv'
  BY <1>0, <1>3 DEF EnsureRepo, Finish
<1>4. ASSUME NEW q \in Requests, Send(q)
      PROVE  TaskInv'
  BY <1>0, <1>4 DEF Send
<1>5. ASSUME NEW q \in Requests, BrokerCommit(q)
      PROVE  TaskInv'
  BY <1>0, <1>5 DEF BrokerCommit
<1>6. ASSUME NEW q \in Requests, CommitAcked(q)
      PROVE  TaskInv'
  BY <1>0, <1>6 DEF CommitAcked, Finish
<1>7. ASSUME NEW q \in Requests, TransactFenced(q)
      PROVE  TaskInv'
  BY <1>0, <1>7 DEF TransactFenced, Finish
<1>8. ASSUME NEW p \in Procs, Die(p)
      PROVE  TaskInv'
  BY <1>0, <1>8 DEF Die
<1>9. ASSUME NEW p \in Procs, Connect(p)
      PROVE  TaskInv'
  BY <1>0, <1>9 DEF Connect
<1>10. ASSUME NEW p \in Procs, ReplayCatalog(p)
       PROVE  TaskInv'
  BY <1>0, <1>10 DEF ReplayCatalog
<1>11. ASSUME NEW p \in Procs, ReplayRefs(p)
       PROVE  TaskInv'
  BY <1>0, <1>11 DEF ReplayRefs
<1> QED BY <1>1, <1>2, <1>3, <1>4, <1>5, <1>6, <1>7, <1>8, <1>9, <1>10, <1>11 DEF Shaped
-----------------------------------------------------------------------------
(***************************************************************************)
(* What commits, and what clients are told                                 *)
(***************************************************************************)

\* A commit adds one transaction to the end of the log.
LEMMA CommitLog ==
  ASSUME TypeOK, TaskInv, NEW q \in Requests, BrokerCommit(q)
  PROVE  /\ Len(log) \in Nat
         /\ DOMAIN log = 1..Len(log)
         /\ DOMAIN log' = 1..(Len(log) + 1)
         /\ \A i \in DOMAIN log : log'[i] = log[i] /\ log[i] \in Tx
         /\ log'[Len(log) + 1] = tx[q]
         /\ tx[q] \in Tx
         /\ tx[q].req = q
<1>1. log \in Seq(Tx)
  BY DEF TypeOK
<1>2. tx[q] \in Tx /\ tx[q].req = q
  BY InFlight DEF BrokerCommit
<1>3. log' = Append(log, tx[q])
  BY DEF BrokerCommit
<1> QED BY <1>1, <1>2, <1>3

LEMMA CommitServes ==
  ASSUME TypeOK, TaskInv, NEW q \in Requests, BrokerCommit(q)
  PROVE  Committed' = Committed \cup {q}
<1>1. ASSUME NEW c \in Committed' PROVE c \in Committed \cup {q}
  <2>1. PICK i \in DOMAIN log' : c = log'[i].req
    BY DEF Committed
  <2> QED BY <2>1, CommitLog DEF Committed
<1>2. ASSUME NEW c \in Committed PROVE c \in Committed'
  <2>1. PICK i \in DOMAIN log : c = log[i].req
    BY DEF Committed
  <2>2. i \in DOMAIN log' /\ log'[i].req = c
    BY <2>1, CommitLog
  <2> QED BY <2>2 DEF Committed
<1>3. q \in Committed'
  <2>1. Len(log) + 1 \in DOMAIN log' /\ log'[Len(log) + 1].req = q
    BY CommitLog
  <2> QED BY <2>1 DEF Committed
<1> QED BY <1>1, <1>2, <1>3

\* Where a handler is tells whether its transaction is in the log.
LEMMA ReplyStep ==
  ASSUME TypeOK, TaskInv, ReplyInv, Shaped
  PROVE  ReplyInv'
<1> USE DEF brokerVars, procVars, taskVars
<1>0. /\ at \in [Requests -> Procs \cup {None}]
      /\ pc \in [Requests -> Phases]
      /\ reply \in [Requests -> Replies]
      /\ \A i \in DOMAIN log : log[i].req \in Requests
  BY DEF TypeOK, Tx
<1>1. ASSUME log' = log,
             \A o \in Requests :
               /\ pc[o] \in {"committed", "done"} => pc'[o] \in {"committed", "done"}
               /\ pc'[o] = "committed" => pc[o] = "committed"
               /\ reply'[o] # "none" => (reply[o] # "none" /\ pc'[o] = pc[o]) \/ pc'[o] = "done"
      PROVE  ReplyInv'
  BY <1>0, <1>1 DEF ReplyInv, Committed
<1>2. ASSUME NEW q \in Requests, NEW r \in Replies, Refuses(q, r)
      PROVE  ReplyInv'
  BY <1>0, <1>1, <1>2 DEF Refuses, Refuse, Finish
<1>3. ASSUME NEW q \in Requests, NEW p \in Procs, NEW phase \in {"topic", "begun"},
             NEW t \in Tx, Accepts(q, p, phase, t)
      PROVE  ReplyInv'
  <2>1. reply[q] = "none"
    BY <1>3 DEF Accepts, ReplyInv
  <2> QED BY <1>0, <1>1, <1>3, <2>1 DEF Accepts, Decided
<1>4. ASSUME NEW q \in Requests, EnsureRepo(q) \/ Send(q)
      PROVE  ReplyInv'
  <2>1. reply[q] = "none"
    BY <1>4 DEF EnsureRepo, Send, ReplyInv
  <2> QED BY <1>0, <1>1, <1>4, <2>1 DEF EnsureRepo, Finish, Send
<1>5. ASSUME NEW q \in Requests, BrokerCommit(q)
      PROVE  ReplyInv'
  <2>1. reply[q] = "none"
    BY <1>5 DEF BrokerCommit, ReplyInv
  <2>2. pc' = [pc EXCEPT ![q] = "committed"] /\ reply' = reply
    BY <1>5 DEF BrokerCommit
  <2>3. \A i \in DOMAIN log' : pc'[log'[i].req] \in {"committed", "done"}
    BY <1>0, <1>5, <2>2, CommitLog DEF ReplyInv
  <2>4. \A o \in Requests : /\ pc'[o] = "committed" => o \in Committed'
                            /\ reply'[o] # "none" => pc'[o] = "done"
    BY <1>0, <1>5, <2>1, <2>2, CommitServes DEF ReplyInv
  <2> QED BY <2>3, <2>4 DEF ReplyInv
<1>6. ASSUME NEW q \in Requests, CommitAcked(q) \/ TransactFenced(q)
      PROVE  ReplyInv'
  BY <1>0, <1>1, <1>6 DEF CommitAcked, TransactFenced, Finish
<1>7. ASSUME NEW p \in Procs, Die(p)
      PROVE  ReplyInv'
  BY <1>0, <1>1, <1>7 DEF Die
<1>8. ASSUME NEW p \in Procs, Connect(p) \/ ReplayCatalog(p) \/ ReplayRefs(p)
      PROVE  ReplyInv'
  BY <1>0, <1>1, <1>8 DEF Connect, ReplayCatalog, ReplayRefs
<1> QED BY <1>2, <1>3, <1>4, <1>5, <1>6, <1>7, <1>8 DEF Shaped
\* Nobody is told of a commit that did not happen, or of a failure that
\* might still commit.
LEMMA TruthStep ==
  ASSUME TypeOK, TaskInv, ReplyInv, TruthfulReplies, Shaped
  PROVE  TruthfulReplies'
<1> USE DEF brokerVars, procVars, taskVars
<1>0. /\ at \in [Requests -> Procs \cup {None}]
      /\ pc \in [Requests -> Phases]
      /\ reply \in [Requests -> Replies]
  BY DEF TypeOK
<1>1. \A o \in Requests : o \in Committed => pc[o] \in {"committed", "done"}
  BY DEF ReplyInv, Committed
<1>2. ASSUME log' = log,
             \A o \in Requests :
               \/ reply'[o] = reply[o]
               \/ reply'[o] = "none"
               \/ reply'[o] = "ok" /\ pc[o] = "committed"
               \/ reply'[o] # "ok" /\ pc[o] \notin {"committed", "done"}
      PROVE  TruthfulReplies'
  <2>1. Committed' = Committed
    BY <1>2 DEF Committed
  <2>2. \A o \in Requests : pc[o] = "committed" => o \in Committed
    BY DEF ReplyInv
  <2> QED BY <1>1, <1>2, <2>1, <2>2 DEF TruthfulReplies
<1>3. ASSUME NEW q \in Requests, NEW r \in Replies, Refuses(q, r)
      PROVE  TruthfulReplies'
  BY <1>0, <1>2, <1>3 DEF Refuses, Refuse, Finish
<1>4. ASSUME NEW q \in Requests, NEW p \in Procs, NEW phase \in {"topic", "begun"},
             NEW t \in Tx, Accepts(q, p, phase, t)
      PROVE  TruthfulReplies'
  BY <1>0, <1>2, <1>4 DEF Accepts, Decided
<1>5. ASSUME NEW q \in Requests, EnsureRepo(q) \/ Send(q)
      PROVE  TruthfulReplies'
  BY <1>0, <1>2, <1>5 DEF EnsureRepo, Finish, Send
<1>6. ASSUME NEW q \in Requests, BrokerCommit(q)
      PROVE  TruthfulReplies'
  <2>1. reply[q] = "none" /\ reply' = reply
    BY <1>6 DEF BrokerCommit, ReplyInv
  <2> QED BY <1>6, <2>1, CommitServes DEF TruthfulReplies
<1>7. ASSUME NEW q \in Requests, CommitAcked(q)
      PROVE  TruthfulReplies'
  BY <1>0, <1>2, <1>7 DEF CommitAcked, Finish
<1>8. ASSUME NEW q \in Requests, TransactFenced(q)
      PROVE  TruthfulReplies'
  BY <1>0, <1>2, <1>8 DEF TransactFenced, Finish
<1>9. ASSUME NEW p \in Procs, Die(p) \/ Connect(p) \/ ReplayCatalog(p) \/ ReplayRefs(p)
      PROVE  TruthfulReplies'
  BY <1>0, <1>2, <1>9 DEF Die, Connect, ReplayCatalog, ReplayRefs
<1> QED BY <1>3, <1>4, <1>5, <1>6, <1>7, <1>8, <1>9 DEF Shaped

\* The object topic is there before the repository is, and stays.
LEMMA TopicStep ==
  ASSUME TypeOK, TaskInv, ReplyInv, TopicInv, RepoHasTopic, Shaped
  PROVE  TopicInv' /\ RepoHasTopic'
<1> USE DEF brokerVars, procVars, taskVars
<1>0. /\ at \in [Requests -> Procs \cup {None}]
      /\ pc \in [Requests -> Phases]
      /\ tx \in [Requests -> Tx \cup {None}]
      /\ objectTopic \in [Requests -> RepoNames \cup {None}]
      /\ \A i \in DOMAIN log : log[i].req \in Requests
  BY DEF TypeOK, Tx
<1>1. ASSUME log' = log, objectTopic' = objectTopic,
             \A o \in Requests :
               at'[o] # None =>
                 /\ (tx'[o] = tx[o] /\ at'[o] = at[o]) \/ tx'[o].op # "create_repo" \/ pc'[o] = "topic"
                 /\ pc[o] = "topic" => pc'[o] = "topic"
      PROVE  TopicInv' /\ RepoHasTopic'
  BY <1>1 DEF TopicInv, RepoHasTopic
<1>2. ASSUME NEW q \in Requests, NEW r \in Replies, Refuses(q, r)
      PROVE  TopicInv' /\ RepoHasTopic'
  BY <1>0, <1>1, <1>2 DEF Refuses, Refuse, Finish
<1>3. ASSUME NEW q \in Requests, NEW p \in Procs, NEW phase \in {"topic", "begun"},
             NEW t \in Tx, Accepts(q, p, phase, t)
      PROVE  TopicInv' /\ RepoHasTopic'
  BY <1>0, <1>1, <1>3 DEF Accepts, Decided
<1>4. ASSUME NEW q \in Requests, EnsureRepo(q)
      PROVE  TopicInv' /\ RepoHasTopic'
  <2>1. /\ objectTopic' = [objectTopic EXCEPT ![q] = tx[q].key[2]]
        /\ log' = log
        /\ \A o \in Requests \ {q} : pc'[o] = pc[o] /\ at'[o] = at[o] /\ tx'[o] = tx[o]
        /\ at'[q] = None \/ tx'[q] = tx[q]
    BY <1>0, <1>4 DEF EnsureRepo, Finish
  <2>2. TopicInv'
    BY <1>0, <2>1 DEF TopicInv
  <2>3. \A i \in DOMAIN log : log[i].req # q
    BY <1>4 DEF EnsureRepo, ReplyInv
  <2>4. RepoHasTopic'
    BY <1>0, <2>1, <2>3 DEF RepoHasTopic
  <2> QED BY <2>2, <2>4
<1>5. ASSUME NEW q \in Requests, Send(q)
      PROVE  TopicInv' /\ RepoHasTopic'
  BY <1>0, <1>1, <1>5 DEF Send
<1>6. ASSUME NEW q \in Requests, BrokerCommit(q)
      PROVE  TopicInv' /\ RepoHasTopic'
  <2>1. /\ pc[q] = "open"
        /\ pc' = [pc EXCEPT ![q] = "committed"]
        /\ at' = at /\ tx' = tx /\ objectTopic' = objectTopic
    BY <1>6 DEF BrokerCommit
  <2>2. TopicInv'
    BY <1>0, <2>1 DEF TopicInv
  <2>3. at[q] # None
    BY <2>1 DEF TaskInv
  <2>4. tx[q].op = "create_repo" => objectTopic[tx[q].req] = tx[q].key[2]
    BY <1>6, <2>1, <2>3, CommitLog DEF TopicInv
  <2>5. RepoHasTopic'
    BY <1>6, <2>1, <2>4, CommitLog DEF RepoHasTopic
  <2> QED BY <2>2, <2>5
<1>7. ASSUME NEW q \in Requests, CommitAcked(q)
      PROVE  TopicInv' /\ RepoHasTopic'
  BY <1>0, <1>1, <1>7 DEF CommitAcked, Finish
<1>8. ASSUME NEW q \in Requests, TransactFenced(q)
      PROVE  TopicInv' /\ RepoHasTopic'
  BY <1>0, <1>1, <1>8 DEF TransactFenced, Finish
<1>9. ASSUME NEW p \in Procs, Die(p)
      PROVE  TopicInv' /\ RepoHasTopic'
  BY <1>0, <1>1, <1>9 DEF Die
<1>10. ASSUME NEW p \in Procs, Connect(p) \/ ReplayCatalog(p) \/ ReplayRefs(p)
       PROVE  TopicInv' /\ RepoHasTopic'
  BY <1>0, <1>1, <1>10 DEF Connect, ReplayCatalog, ReplayRefs
<1> QED BY <1>2, <1>3, <1>4, <1>5, <1>6, <1>7, <1>8, <1>9, <1>10 DEF Shaped

\* Every state a run passes through satisfies the base invariant, whatever
\* crashes, is fenced off or is dropped.
THEOREM BaseInvariant == Spec => []BaseInv
<1>1. Init => BaseInv
  <2> SUFFICES ASSUME Init PROVE BaseInv
    OBVIOUS
  <2> USE DEF Init
  <2>1. EmptyCatalog \in Catalogs /\ EmptyRefs \in RefMaps
    BY DEF EmptyCatalog, Catalogs, Keys, EmptyRefs, RefMaps
  <2>2. TypeOK
    BY <2>1 DEF TypeOK, Status, Phases, Replies
  <2>3. TaskInv /\ ReplyInv /\ TopicInv
    BY DEF TaskInv, ReplyInv, TopicInv
  <2>4. TruthfulReplies /\ RepoHasTopic
    BY DEF TruthfulReplies, RepoHasTopic
  <2> QED BY <2>2, <2>3, <2>4 DEF BaseInv
<1>2. BaseInv /\ [Next]_vars => BaseInv'
  <2> SUFFICES ASSUME BaseInv, [Next]_vars PROVE BaseInv'
    OBVIOUS
  <2> USE DEF BaseInv
  <2>1. CASE Next
    <3>1. Shaped
      BY <2>1, NextShape
    <3> QED BY <3>1, TypeStep, TaskStep, ReplyStep, TruthStep, TopicStep
  <2>2. CASE UNCHANGED vars
    <3> USE <2>2 DEF vars, brokerVars, procVars, taskVars
    <3>1. TypeOK'
      BY DEF TypeOK
    <3>2. TaskInv' /\ ReplyInv' /\ TopicInv'
      BY DEF TaskInv, ReplyInv, TopicInv, Committed
    <3>3. TruthfulReplies' /\ RepoHasTopic'
      BY DEF TruthfulReplies, RepoHasTopic, Committed
    <3> QED BY <3>1, <3>2, <3>3
  <2> QED BY <2>1, <2>2
<1> QED BY <1>1, <1>2, PTL DEF Spec

\* Type correctness: every variable keeps its type.
THEOREM TypeCorrect == Spec => []TypeOK
<1>1. BaseInv => TypeOK
  BY DEF BaseInv
<1> QED BY <1>1, BaseInvariant, PTL

\* Replies are truthful: "ok" means committed, and a refusal, a fencing or an
\* error means the request is not in the log.
THEOREM RepliesTruthful == Spec => []TruthfulReplies
<1>1. BaseInv => TruthfulReplies
  BY DEF BaseInv
<1> QED BY <1>1, BaseInvariant, PTL

\* Every repository in the log has its object topic.
THEOREM RepositoriesHaveTopics == Spec => []RepoHasTopic
<1>1. BaseInv => RepoHasTopic
  BY DEF BaseInv
<1> QED BY <1>1, BaseInvariant, PTL
-----------------------------------------------------------------------------
(***************************************************************************)
(* One handler at a time, one writer at a time                             *)
(***************************************************************************)

LEMMA ExclusionStep ==
  ASSUME TypeOK, TaskInv, ExclusionInv, Shaped
  PROVE  ExclusionInv'
<1> USE DEF HoldsLock, brokerVars, procVars, taskVars
<1>0. /\ at \in [Requests -> Procs \cup {None}]
      /\ pc \in [Requests -> Phases]
      /\ tx \in [Requests -> Tx \cup {None}]
  BY DEF TypeOK
<1>1. ASSUME \A o \in Requests :
               \/ at'[o] = None
               \/ at'[o] = at[o] /\ tx'[o] = tx[o] /\ (pc'[o] = pc[o] \/ pc'[o] = "begun")
      PROVE  ExclusionInv'
  BY <1>1 DEF ExclusionInv
<1>2. ASSUME NEW q \in Requests, NEW r \in Replies, Refuses(q, r)
      PROVE  ExclusionInv'
  BY <1>0, <1>1, <1>2 DEF Refuses, Refuse, Finish
<1>3. ASSUME NEW q \in Requests, NEW p \in Procs, NEW phase \in {"topic", "begun"},
             NEW t \in Tx, Accepts(q, p, phase, t)
      PROVE  ExclusionInv'
  <2>1. /\ pc' = [pc EXCEPT ![q] = phase]
        /\ at' = [at EXCEPT ![q] = p]
        /\ tx' = [tx EXCEPT ![q] = t]
        /\ t.op \notin EventOps => LockFree(p)
    BY <1>3 DEF Accepts, Decided
  <2> QED BY <1>0, <2>1, ProcsAssumption DEF ExclusionInv, LockFree
<1>4. ASSUME NEW q \in Requests, EnsureRepo(q)
      PROVE  ExclusionInv'
  BY <1>0, <1>1, <1>4 DEF EnsureRepo, Finish
<1>5. ASSUME NEW q \in Requests, Send(q)
      PROVE  ExclusionInv'
  BY <1>0, <1>5 DEF Send, ProducerFree, ExclusionInv
<1>6. ASSUME NEW q \in Requests, BrokerCommit(q)
      PROVE  ExclusionInv'
  BY <1>0, <1>6 DEF BrokerCommit, ExclusionInv
<1>7. ASSUME NEW q \in Requests, CommitAcked(q) \/ TransactFenced(q)
      PROVE  ExclusionInv'
  BY <1>0, <1>1, <1>7 DEF CommitAcked, TransactFenced, Finish
<1>8. ASSUME NEW p \in Procs, Die(p)
      PROVE  ExclusionInv'
  BY <1>0, <1>1, <1>8 DEF Die
<1>9. ASSUME NEW p \in Procs, Connect(p) \/ ReplayCatalog(p) \/ ReplayRefs(p)
      PROVE  ExclusionInv'
  BY <1>0, <1>1, <1>9 DEF Connect, ReplayCatalog, ReplayRefs
<1> QED BY <1>2, <1>3, <1>4, <1>5, <1>6, <1>7, <1>8, <1>9 DEF Shaped

LEMMA EpochStep ==
  ASSUME TypeOK, EpochInv, Shaped
  PROVE  EpochInv'
<1> USE DEF EpochInv, brokerVars, procVars, taskVars
<1>0. /\ brokerEpoch \in Nat
      /\ epoch \in [Procs -> Nat]
      /\ status \in [Procs -> Status]
  BY DEF TypeOK
<1>1. ASSUME brokerEpoch' = brokerEpoch, epoch' = epoch,
             \A o \in Procs : status'[o] = "down" <=> status[o] = "down"
      PROVE  EpochInv'
  BY <1>1
<1>2. ASSUME NEW q \in Requests, NEW r \in Replies, Refuses(q, r)
      PROVE  EpochInv'
  BY <1>1, <1>2 DEF Refuses, Refuse
<1>3. ASSUME NEW q \in Requests, NEW p \in Procs, NEW phase \in {"topic", "begun"},
             NEW t \in Tx, Accepts(q, p, phase, t)
      PROVE  EpochInv'
  BY <1>1, <1>3 DEF Accepts, Decided
<1>4. ASSUME NEW q \in Requests,
             EnsureRepo(q) \/ Send(q) \/ BrokerCommit(q) \/ CommitAcked(q) \/ TransactFenced(q)
      PROVE  EpochInv'
  BY <1>1, <1>4 DEF EnsureRepo, Send, BrokerCommit, CommitAcked, TransactFenced
<1>5. ASSUME NEW p \in Procs, Die(p)
      PROVE  EpochInv'
  BY <1>0, <1>5 DEF Die
<1>6. ASSUME NEW p \in Procs, Connect(p)
      PROVE  EpochInv'
  BY <1>0, <1>6 DEF Connect
<1>7. ASSUME NEW p \in Procs, ReplayCatalog(p)
      PROVE  EpochInv'
  BY <1>0, <1>1, <1>7 DEF ReplayCatalog
<1>8. ASSUME NEW p \in Procs, ReplayRefs(p)
      PROVE  EpochInv'
  BY <1>0, <1>1, <1>8 DEF ReplayRefs
<1> QED BY <1>2, <1>3, <1>4, <1>5, <1>6, <1>7, <1>8 DEF Shaped
-----------------------------------------------------------------------------
(***************************************************************************)
(* Decisions stay valid, and memory stays authoritative                    *)
(***************************************************************************)

\* A transaction that only appends events fits any state.
LEMMA EventFits ==
  ASSUME NEW c, NEW f, NEW d, NEW g, NEW t, t.op \in EventOps, Fits(c, f, t)
  PROVE  Fits(d, g, t)
BY DEF Fits, EventOps, NameOps, OpenOps, RefOps

\* Acknowledging a commit changes the process's memory only for the handler
\* that holds the mutex, so every other decision still fits.
LEMMA AckKeepsOthers ==
  ASSUME TypeOK, TaskInv, ExclusionInv, DecisionInv,
         NEW q \in Requests, CommitAcked(q),
         NEW o \in Requests, o # q, at[o] # None, at[o] = at[q]
  PROVE  Fits(memCatalog'[at[o]], memRefs'[at[o]], tx[o])
<1>1. at[q] \in Procs /\ tx[q] \in Tx
  BY InFlight DEF CommitAcked
<1>2. Fits(memCatalog[at[o]], memRefs[at[o]], tx[o])
  BY DEF DecisionInv
<1>3. CASE tx[o].op \in EventOps
  BY <1>2, <1>3, EventFits
<1>4. CASE tx[o].op \notin EventOps
  <2>1. tx[q].op \in EventOps
    BY <1>1, <1>4, ProcsAssumption DEF ExclusionInv, HoldsLock
  <2>2. Fits(memCatalog[at[q]], memRefs[at[q]], tx[q])
    BY <1>1, ProcsAssumption DEF DecisionInv
  <2>3. tx[q].key = None /\ tx[q].moves = <<>>
    BY <2>1, <2>2 DEF Fits
  <2>4. ApplyClaim(memCatalog[at[q]], tx[q]) = memCatalog[at[q]]
    BY <2>3 DEF ApplyClaim
  <2>5. ApplyMoves(memRefs[at[q]], tx[q].moves) = memRefs[at[q]]
    BY <1>1, <2>3, ApplyMovesNone DEF TypeOK
  <2>6. memCatalog' = memCatalog /\ memRefs' = memRefs
    BY <1>1, <2>4, <2>5 DEF CommitAcked, TypeOK
  <2> QED BY <1>2, <2>6
<1> QED BY <1>3, <1>4

LEMMA DecisionStep ==
  ASSUME TypeOK, TaskInv, ExclusionInv, DecisionInv, Shaped
  PROVE  DecisionInv'
<1> USE DEF brokerVars, procVars, taskVars
<1>0. /\ at \in [Requests -> Procs \cup {None}]
      /\ tx \in [Requests -> Tx \cup {None}]
      /\ memCatalog \in [Procs -> Catalogs]
      /\ memRefs \in [Procs -> RefMaps]
  BY DEF TypeOK
<1>1. ASSUME \A o \in Requests :
               at'[o] # None =>
                 /\ at'[o] = at[o]
                 /\ tx'[o] = tx[o]
                 /\ memCatalog'[at[o]] = memCatalog[at[o]]
                 /\ memRefs'[at[o]] = memRefs[at[o]]
      PROVE  DecisionInv'
  BY <1>1 DEF DecisionInv
<1>2. ASSUME NEW q \in Requests, NEW r \in Replies, Refuses(q, r)
      PROVE  DecisionInv'
  BY <1>0, <1>1, <1>2 DEF Refuses, Refuse, Finish
<1>3. ASSUME NEW q \in Requests, NEW p \in Procs, NEW phase \in {"topic", "begun"},
             NEW t \in Tx, Accepts(q, p, phase, t)
      PROVE  DecisionInv'
  <2>1. /\ at' = [at EXCEPT ![q] = p]
        /\ tx' = [tx EXCEPT ![q] = t]
        /\ memCatalog' = memCatalog
        /\ memRefs' = memRefs
        /\ Fits(memCatalog[p], memRefs[p], t)
    BY <1>3 DEF Accepts, Decided
  <2> QED BY <1>0, <2>1 DEF DecisionInv
<1>4. ASSUME NEW q \in Requests, EnsureRepo(q) \/ Send(q) \/ BrokerCommit(q)
      PROVE  DecisionInv'
  BY <1>0, <1>1, <1>4 DEF EnsureRepo, Finish, Send, BrokerCommit
<1>5. ASSUME NEW q \in Requests, CommitAcked(q)
      PROVE  DecisionInv'
  <2> SUFFICES ASSUME NEW o \in Requests, at'[o] # None
               PROVE  Fits(memCatalog'[at'[o]], memRefs'[at'[o]], tx'[o])
    BY DEF DecisionInv
  <2>1. o # q /\ at'[o] = at[o] /\ tx'[o] = tx[o]
    BY <1>0, <1>5 DEF CommitAcked, Finish
  <2>2. CASE at[o] = at[q]
    BY <1>5, <2>1, <2>2, AckKeepsOthers
  <2>3. CASE at[o] # at[q]
    <3>1. memCatalog'[at[o]] = memCatalog[at[o]] /\ memRefs'[at[o]] = memRefs[at[o]]
      BY <1>0, <1>5, <2>1, <2>3 DEF CommitAcked
    <3> QED BY <2>1, <3>1 DEF DecisionInv
  <2> QED BY <2>2, <2>3
<1>6. ASSUME NEW q \in Requests, TransactFenced(q)
      PROVE  DecisionInv'
  BY <1>0, <1>1, <1>6 DEF TransactFenced, Finish
<1>7. ASSUME NEW p \in Procs, Die(p)
      PROVE  DecisionInv'
  BY <1>0, <1>1, <1>7 DEF Die
<1>8. ASSUME NEW p \in Procs, Connect(p)
      PROVE  DecisionInv'
  BY <1>1, <1>8 DEF Connect
<1>9. ASSUME NEW p \in Procs, status[p] # "serving", NEW o \in Requests, at[o] # None
      PROVE  at[o] # p
  BY <1>9 DEF TaskInv
<1>10. ASSUME NEW p \in Procs, ReplayCatalog(p)
       PROVE  DecisionInv'
  BY <1>0, <1>1, <1>9, <1>10 DEF ReplayCatalog
<1>11. ASSUME NEW p \in Procs, ReplayRefs(p)
       PROVE  DecisionInv'
  BY <1>0, <1>1, <1>9, <1>11 DEF ReplayRefs
<1> QED BY <1>2, <1>3, <1>4, <1>5, <1>6, <1>7, <1>8, <1>10, <1>11 DEF Shaped

LEMMA MemoryStep ==
  ASSUME TypeOK, TaskInv, ExclusionInv, EpochInv, MemoryInv, Shaped,
         DropDuringCommit = FALSE
  PROVE  MemoryInv'
<1> USE DEF Current, Unapplied, brokerVars, procVars, taskVars
<1>0. /\ brokerEpoch \in Nat
      /\ epoch \in [Procs -> Nat]
      /\ status \in [Procs -> Status]
      /\ at \in [Requests -> Procs \cup {None}]
      /\ pc \in [Requests -> Phases]
      /\ tx \in [Requests -> Tx \cup {None}]
      /\ memCatalog \in [Procs -> Catalogs]
      /\ memRefs \in [Procs -> RefMaps]
  BY DEF TypeOK
<1>1. ASSUME brokerEpoch' = brokerEpoch, epoch' = epoch, status' = status,
             memCatalog' = memCatalog, memRefs' = memRefs,
             catalog' = catalog, refs' = refs,
             \A p \in Procs : /\ Unapplied(p)' = Unapplied(p)
                              /\ \A q \in Unapplied(p) : tx'[q] = tx[q]
      PROVE  MemoryInv'
  BY <1>1 DEF MemoryInv
<1>2. ASSUME NEW q \in Requests, NEW r \in Replies, Refuses(q, r)
      PROVE  MemoryInv'
  <2>1. pc[q] # "committed" /\ Refuse(q, r)
    BY <1>2 DEF Refuses
  <2> QED BY <1>0, <1>1, <2>1 DEF Refuse, Finish
<1>3. ASSUME NEW q \in Requests, NEW p \in Procs, NEW phase \in {"topic", "begun"},
             NEW t \in Tx, Accepts(q, p, phase, t)
      PROVE  MemoryInv'
  BY <1>0, <1>1, <1>3 DEF Accepts, Decided
<1>4. ASSUME NEW q \in Requests, EnsureRepo(q) \/ Send(q)
      PROVE  MemoryInv'
  BY <1>0, <1>1, <1>4 DEF EnsureRepo, Finish, Send
<1>5. ASSUME NEW q \in Requests, TransactFenced(q)
      PROVE  MemoryInv'
  BY <1>0, <1>1, <1>5 DEF TransactFenced, Finish
<1>6. ASSUME NEW q \in Requests, BrokerCommit(q)
      PROVE  MemoryInv'
  <2>1. /\ at[q] \in Procs
        /\ status[at[q]] = "serving"
        /\ pc[q] = "open"
        /\ epoch[at[q]] = brokerEpoch
    BY <1>6, InFlight DEF BrokerCommit
  <2>2. /\ brokerEpoch' = brokerEpoch /\ epoch' = epoch /\ status' = status
        /\ memCatalog' = memCatalog /\ memRefs' = memRefs
        /\ at' = at /\ tx' = tx
        /\ pc' = [pc EXCEPT ![q] = "committed"]
        /\ catalog' = ApplyClaim(catalog, tx[q])
        /\ refs' = ApplyMoves(refs, tx[q].moves)
    BY <1>6 DEF BrokerCommit
  <2>3. \A p \in Procs : epoch[p] = brokerEpoch => p = at[q]
    BY <2>1 DEF EpochInv
  <2>4. Unapplied(at[q]) = {}
    BY <2>1, ProcsAssumption DEF ExclusionInv
  <2>5. Unapplied(at[q])' = {q}
    BY <1>0, <2>2, <2>4
  <2>6. memCatalog[at[q]] = catalog /\ memRefs[at[q]] = refs
    BY <2>1, <2>4 DEF MemoryInv
  <2> QED BY <2>2, <2>3, <2>5, <2>6 DEF MemoryInv
<1>7. ASSUME NEW q \in Requests, CommitAcked(q)
      PROVE  MemoryInv'
  <2>1. at[q] \in Procs /\ pc[q] = "committed"
    BY <1>7, InFlight DEF CommitAcked
  <2>2. /\ brokerEpoch' = brokerEpoch /\ epoch' = epoch /\ status' = status
        /\ catalog' = catalog /\ refs' = refs
        /\ at' = [at EXCEPT ![q] = None]
        /\ tx' = [tx EXCEPT ![q] = None]
        /\ pc' = [pc EXCEPT ![q] = "done"]
        /\ memCatalog' = [memCatalog EXCEPT ![at[q]] = ApplyClaim(memCatalog[at[q]], tx[q])]
        /\ memRefs' = [memRefs EXCEPT ![at[q]] = ApplyMoves(memRefs[at[q]], tx[q].moves)]
    BY <1>7 DEF CommitAcked, Finish
  <2>3. Unapplied(at[q]) = {q}
    BY <2>1, ProcsAssumption DEF ExclusionInv
  <2>4. (epoch[at[q]] = brokerEpoch) =>
          memCatalog'[at[q]] = catalog /\ memRefs'[at[q]] = refs
    BY <1>0, <2>1, <2>2, <2>3 DEF MemoryInv
  <2>5. \A o \in Requests : at'[o] = at[q] => pc'[o] # "committed"
    BY <1>0, <2>1, <2>2, <2>3, ProcsAssumption
  <2>6. ASSUME NEW p \in Procs, p # at[q]
        PROVE  /\ Unapplied(p)' = Unapplied(p)
               /\ \A o \in Unapplied(p) : tx'[o] = tx[o]
               /\ memCatalog'[p] = memCatalog[p] /\ memRefs'[p] = memRefs[p]
    BY <1>0, <2>1, <2>2, <2>6, ProcsAssumption
  <2> QED BY <2>2, <2>4, <2>5, <2>6 DEF MemoryInv
<1>8. ASSUME NEW p \in Procs, status[p] # "serving"
      PROVE  Unapplied(p) = {}
  BY <1>8, ProcsAssumption DEF TaskInv
<1>9. ASSUME NEW p \in Procs, Die(p)
      PROVE  MemoryInv'
  <2>1. /\ brokerEpoch' = brokerEpoch /\ catalog' = catalog /\ refs' = refs
        /\ status'[p] = "down"
        /\ \A o \in Requests : at'[o] # p
    BY <1>0, <1>9, ProcsAssumption DEF Die
  <2>2. ASSUME NEW o \in Procs, o # p
        PROVE  /\ epoch'[o] = epoch[o] /\ status'[o] = status[o]
               /\ memCatalog'[o] = memCatalog[o] /\ memRefs'[o] = memRefs[o]
               /\ Unapplied(o)' = Unapplied(o)
               /\ \A q \in Unapplied(o) : tx'[q] = tx[q]
    BY <1>0, <1>9, <2>2, ProcsAssumption DEF Die
  <2> QED BY <2>1, <2>2 DEF MemoryInv
<1>10. ASSUME NEW p \in Procs, Connect(p)
       PROVE  MemoryInv'
  <2>1. \A o \in Procs : o # p => epoch'[o] # brokerEpoch'
    BY <1>0, <1>10 DEF Connect, EpochInv
  <2>2. status'[p] = "connected" /\ Unapplied(p)' = {}
    BY <1>0, <1>8, <1>10 DEF Connect
  <2> QED BY <2>1, <2>2 DEF MemoryInv
<1>11. ASSUME NEW p \in Procs, ReplayCatalog(p)
       PROVE  MemoryInv'
  <2>1. Unapplied(p)' = {} /\ status'[p] = "catalog" /\ memCatalog'[p] = catalog'
    BY <1>0, <1>8, <1>11 DEF ReplayCatalog
  <2>2. ASSUME NEW o \in Procs, o # p
        PROVE  status'[o] = status[o] /\ memCatalog'[o] = memCatalog[o]
    BY <1>0, <1>11, <2>2 DEF ReplayCatalog
  <2>3. /\ brokerEpoch' = brokerEpoch /\ epoch' = epoch /\ memRefs' = memRefs
        /\ catalog' = catalog /\ refs' = refs /\ at' = at /\ pc' = pc /\ tx' = tx
    BY <1>11 DEF ReplayCatalog
  <2> QED BY <2>1, <2>2, <2>3 DEF MemoryInv
<1>12. ASSUME NEW p \in Procs, ReplayRefs(p)
       PROVE  MemoryInv'
  <2>1. Unapplied(p) = {} /\ status[p] = "catalog"
    BY <1>8, <1>12 DEF ReplayRefs
  <2>2. Unapplied(p)' = {} /\ memRefs'[p] = refs' /\ memCatalog' = memCatalog
    BY <1>0, <1>8, <1>12 DEF ReplayRefs
  <2>3. ASSUME NEW o \in Procs, o # p
        PROVE  status'[o] = status[o] /\ memRefs'[o] = memRefs[o]
    BY <1>0, <1>12, <2>3 DEF ReplayRefs
  <2>4. /\ brokerEpoch' = brokerEpoch /\ epoch' = epoch
        /\ catalog' = catalog /\ refs' = refs /\ at' = at /\ pc' = pc /\ tx' = tx
    BY <1>12 DEF ReplayRefs
  <2> QED BY <2>1, <2>2, <2>3, <2>4 DEF MemoryInv
<1> QED BY <1>2, <1>3, <1>4, <1>5, <1>6, <1>7, <1>9, <1>10, <1>11, <1>12 DEF Shaped
\* What commits was decided against the state it is applied to.
LEMMA CommitFits ==
  ASSUME TypeOK, TaskInv, ExclusionInv, DecisionInv, MemoryInv,
         NEW q \in Requests, BrokerCommit(q)
  PROVE  Fits(catalog, refs, tx[q])
<1>1. /\ at[q] \in Procs
      /\ status[at[q]] = "serving"
      /\ pc[q] = "open"
      /\ Current(at[q])
  BY InFlight DEF BrokerCommit
<1>2. Unapplied(at[q]) = {}
  BY <1>1, ProcsAssumption DEF ExclusionInv, Unapplied
<1>3. memCatalog[at[q]] = catalog /\ memRefs[at[q]] = refs
  BY <1>1, <1>2 DEF MemoryInv
<1> QED BY <1>1, <1>3, ProcsAssumption DEF DecisionInv
-----------------------------------------------------------------------------
(***************************************************************************)
(* Names and numbers                                                       *)
(***************************************************************************)

\* Only a commit changes what the log and the catalog hold.
LEMMA LogQuiet ==
  ASSUME TypeOK, TaskInv, Shaped, ~ \E q \in Requests : BrokerCommit(q)
  PROVE  log' = log /\ catalog' = catalog /\ refs' = refs /\ reflog' = reflog
<1> USE DEF brokerVars, procVars, taskVars
<1>1. ASSUME NEW q \in Requests, NEW r \in Replies, Refuses(q, r)
      PROVE  log' = log /\ catalog' = catalog /\ refs' = refs /\ reflog' = reflog
  BY <1>1 DEF Refuses, Refuse
<1>2. ASSUME NEW q \in Requests, NEW p \in Procs, NEW phase \in {"topic", "begun"},
             NEW t \in Tx, Accepts(q, p, phase, t)
      PROVE  log' = log /\ catalog' = catalog /\ refs' = refs /\ reflog' = reflog
  BY <1>2 DEF Accepts, Decided
<1>3. ASSUME NEW q \in Requests, EnsureRepo(q) \/ Send(q) \/ CommitAcked(q) \/ TransactFenced(q)
      PROVE  log' = log /\ catalog' = catalog /\ refs' = refs /\ reflog' = reflog
  BY <1>3 DEF EnsureRepo, Send, CommitAcked, TransactFenced
<1>4. ASSUME NEW p \in Procs, Die(p) \/ Connect(p) \/ ReplayCatalog(p) \/ ReplayRefs(p)
      PROVE  log' = log /\ catalog' = catalog /\ refs' = refs /\ reflog' = reflog
  BY <1>4 DEF Die, Connect, ReplayCatalog, ReplayRefs
<1> QED BY <1>1, <1>2, <1>3, <1>4 DEF Shaped

\* A name is claimed only while nobody holds it, and is never given up.
LEMMA NamesStep ==
  ASSUME TypeOK, TaskInv, LogInv, UniqueNames,
         NEW q \in Requests, BrokerCommit(q), Fits(catalog, refs, tx[q])
  PROVE  UniqueNames'
<1> SUFFICES ASSUME NEW n, n = Len(log) + 1, NEW t, t = tx[q]
             PROVE  UniqueNames'
  OBVIOUS
<1>1. /\ DOMAIN log = 1..Len(log) /\ DOMAIN log' = 1..n /\ Len(log) \in Nat
      /\ \A i \in DOMAIN log : log'[i] = log[i]
      /\ log'[n] = t
      /\ t \in Tx
  BY CommitLog
<1>2. ASSUME NEW j \in DOMAIN log, t.op \in NameOps PROVE log[j].key # t.key
  <2>1. t.key \in NameKeys /\ catalog[t.key] = None
    BY <1>2 DEF Fits
  <2>2. log[j].op \in NameOps \cup OpenOps \cup RefOps \cup EventOps
    BY CommitLog DEF Tx, Ops
  <2> QED BY <2>1, <2>2, NoneIsNoKey DEF LogInv, Keys
<1>3. ASSUME NEW j \in DOMAIN log, log[j].op \in NameOps PROVE log[j].key # t.key
  <2>1. log[j].key \in NameKeys /\ catalog[log[j].key] # None
    BY <1>3 DEF LogInv
  <2>2. t.op \in NameOps \cup OpenOps \cup RefOps \cup EventOps
    BY <1>1 DEF Tx, Ops
  <2>3. t.op \in OpenOps => t.key \in CounterKeys
    BY CounterKeyOf DEF Fits
  <2> QED BY <1>2, <1>3, <2>1, <2>2, <2>3, NoneIsNoKey DEF Fits, Keys
<1>4. ASSUME NEW i \in DOMAIN log', NEW j \in DOMAIN log',
             log'[i].op \in NameOps, log'[i].key = log'[j].key
      PROVE  i = j
  <2>1. CASE i \in DOMAIN log /\ j \in DOMAIN log
    BY <1>1, <1>4, <2>1 DEF UniqueNames
  <2>2. CASE i = n /\ j \in DOMAIN log
    BY <1>1, <1>2, <1>4, <2>2
  <2>3. CASE i \in DOMAIN log /\ j = n
    BY <1>1, <1>3, <1>4, <2>3
  <2>4. \A k \in 1..n : k = n \/ k \in 1..Len(log)
    BY <1>1
  <2> QED BY <1>1, <2>1, <2>2, <2>3, <2>4
<1> QED BY <1>4 DEF UniqueNames

\* The numbers of a repository stay dense, and its counter one above them.
LEMMA NumbersStep ==
  ASSUME TypeOK, TaskInv, LogInv, NumbersDense,
         NEW q \in Requests, BrokerCommit(q), Fits(catalog, refs, tx[q])
  PROVE  NumbersDense'
<1> SUFFICES ASSUME NEW n, n = Len(log) + 1, NEW t, t = tx[q]
             PROVE  NumbersDense'
  OBVIOUS
<1>1. /\ DOMAIN log = 1..Len(log) /\ DOMAIN log' = 1..n /\ Len(log) \in Nat
      /\ \A i \in DOMAIN log : log'[i] = log[i]
      /\ log'[n] = t
      /\ t \in Tx
  BY CommitLog
<1>2. ASSUME NEW i \in DOMAIN log PROVE OpenedBefore(i)' = OpenedBefore(i)
  BY <1>1 DEF OpenedBefore
<1>3. OpenedBefore(n)' = OpeningsOf(t.key)
  BY <1>1 DEF OpenedBefore, OpeningsOf
<1>4. ASSUME t.op \in OpenOps
      PROVE  \/ OpeningsOf(t.key) = {} /\ t.number = 1
             \/ \E j \in OpeningsOf(t.key) :
                  (\A k \in OpeningsOf(t.key) : k <= j) /\ t.number = log[j].number + 1
  <2>1. PICK r \in Repos : t.key = issue_counter_key(r) /\ t.number = next_issue_number(catalog, r)
    BY <1>4 DEF Fits
  <2>2. t.key \in CounterKeys
    BY <2>1 DEF issue_counter_key, CounterKeys
  <2>3. CASE OpeningsOf(t.key) = {} /\ catalog[t.key] = None
    BY <2>1, <2>3 DEF next_issue_number
  <2>4. ASSUME NEW i \in OpeningsOf(t.key), \A j \in OpeningsOf(t.key) : j <= i,
               catalog[t.key] = log[i].number + 1
        PROVE  t.number = log[i].number + 1
    <3>1. log[i].number \in Nat
      BY CommitLog DEF OpeningsOf, Tx
    <3>2. catalog[t.key] # None
      BY <2>4, <3>1, NoneAssumption
    <3> QED BY <2>1, <2>4, <3>2 DEF next_issue_number
  <2> QED BY <2>2, <2>3, <2>4 DEF LogInv
<1>5. ASSUME NEW i \in DOMAIN log', log'[i].op \in OpenOps
      PROVE  \/ OpenedBefore(i)' = {} /\ log'[i].number = 1
             \/ \E j \in OpenedBefore(i)' :
                  /\ \A k \in OpenedBefore(i)' : k <= j
                  /\ log'[i].number = log'[j].number + 1
  <2>1. CASE i \in DOMAIN log
    <3>1. \A j \in OpenedBefore(i) : j \in DOMAIN log
      BY <1>1, <2>1 DEF OpenedBefore
    <3> QED BY <1>1, <1>2, <1>5, <2>1, <3>1 DEF NumbersDense
  <2>2. CASE i = n
    <3>1. \A j \in OpeningsOf(t.key) : log'[j] = log[j]
      BY <1>1 DEF OpeningsOf
    <3> QED BY <1>1, <1>3, <1>4, <1>5, <2>2, <3>1
  <2>3. i \in DOMAIN log \/ i = n
    BY <1>1
  <2> QED BY <2>1, <2>2, <2>3
<1> QED BY <1>5 DEF NumbersDense

LEMMA LogStep ==
  ASSUME TypeOK, TaskInv, LogInv,
         NEW q \in Requests, BrokerCommit(q), Fits(catalog, refs, tx[q])
  PROVE  LogInv'
<1> SUFFICES ASSUME NEW n, n = Len(log) + 1, NEW t, t = tx[q]
             PROVE  LogInv'
  OBVIOUS
<1>1. /\ DOMAIN log = 1..Len(log) /\ DOMAIN log' = 1..n /\ Len(log) \in Nat
      /\ \A i \in DOMAIN log : log'[i] = log[i]
      /\ log'[n] = t
      /\ t \in Tx
      /\ n \in DOMAIN log' /\ \A i \in DOMAIN log' : i = n \/ i \in DOMAIN log
      /\ n \notin DOMAIN log /\ DOMAIN log \subseteq DOMAIN log'
  BY CommitLog
<1>2. catalog' = ApplyClaim(catalog, t) /\ catalog \in [Keys -> Claims \cup {None}]
  BY DEF BrokerCommit, TypeOK, Catalogs
<1>3. t.op \in NameOps \cup OpenOps \cup RefOps \cup EventOps /\ t.number \in Nat
  BY <1>1 DEF Tx, Ops
<1>4. /\ t.op \in NameOps => t.key \in NameKeys /\ t.claim # None
      /\ t.op \in OpenOps => t.key \in CounterKeys /\ t.claim = t.number + 1
      /\ t.op \in RefOps \cup EventOps => t.key = None
  <2>1. t.op \in NameOps => t.key \in NameKeys /\ t.claim = t.req
    BY DEF Fits
  <2>2. t.op \in OpenOps => t.key \in CounterKeys /\ t.claim = t.number + 1
    BY CounterKeyOf DEF Fits
  <2>3. t.op \in RefOps \cup EventOps => t.key = None
    BY DEF Fits
  <2>4. t.req # None
    BY <1>1, NoneAssumption DEF Tx
  <2> QED BY <2>1, <2>2, <2>3, <2>4
<1>5. NameKeys \subseteq Keys /\ CounterKeys \subseteq Keys
  BY DEF Keys
<1>6. \A k \in Keys : catalog'[k] = IF k = t.key THEN t.claim ELSE catalog[k]
  BY <1>2, NoneIsNoKey DEF ApplyClaim
<1>7. ASSUME NEW i \in DOMAIN log'
      PROVE  /\ log'[i].op \in NameOps => log'[i].key \in NameKeys /\ catalog'[log'[i].key] # None
             /\ log'[i].op \in OpenOps => log'[i].key \in CounterKeys
             /\ log'[i].op \in RefOps \cup EventOps => log'[i].key = None
  <2>1. CASE i = n
    BY <1>1, <1>4, <1>5, <1>6, <2>1
  <2>2. CASE i \in DOMAIN log
    <3>1. /\ log[i].op \in NameOps => log[i].key \in NameKeys /\ catalog[log[i].key] # None
          /\ log[i].op \in OpenOps => log[i].key \in CounterKeys
          /\ log[i].op \in RefOps \cup EventOps => log[i].key = None
      BY <2>2 DEF LogInv
    <3>2. t.key \in NameKeys => t.claim # None
      BY <1>3, <1>4, NoneIsNoKey, <1>5
    <3> QED BY <1>1, <1>5, <1>6, <2>2, <3>1, <3>2
  <2> QED BY <1>1, <2>1, <2>2
<1>8. ASSUME NEW k \in CounterKeys
      PROVE  \/ OpeningsOf(k)' = {} /\ catalog'[k] = None
             \/ \E i \in OpeningsOf(k)' :
                  /\ \A j \in OpeningsOf(k)' : j <= i
                  /\ catalog'[k] = log'[i].number + 1
  <2>1. CASE k = t.key
    <3>1. t.op \in OpenOps
      BY <1>3, <1>4, <1>5, <2>1, NoneIsNoKey
    <3>2. n \in OpeningsOf(k)'
      BY <1>1, <2>1, <3>1 DEF OpeningsOf
    <3>3. \A j \in OpeningsOf(k)' : j <= n
      BY <1>1 DEF OpeningsOf
    <3>4. catalog'[k] = log'[n].number + 1
      BY <1>1, <1>4, <1>5, <1>6, <2>1, <3>1
    <3> QED BY <3>2, <3>3, <3>4
  <2>2. CASE k # t.key
    <3>1. OpeningsOf(k)' = OpeningsOf(k)
      BY <1>1, <2>2 DEF OpeningsOf
    <3>2. \A j \in OpeningsOf(k) : log'[j] = log[j]
      BY <1>1 DEF OpeningsOf
    <3>3. catalog'[k] = catalog[k]
      BY <1>5, <1>6, <2>2
    <3> QED BY <3>1, <3>2, <3>3 DEF LogInv
  <2> QED BY <2>1, <2>2
<1> QED BY <1>7, <1>8 DEF LogInv
\* As long as no handler is dropped between sending EndTxn and applying what
\* it committed, the full invariant holds in every state.
THEOREM Invariant == ASSUME DropDuringCommit = FALSE PROVE Spec => []IInv
<1>1. Init => IInv
  <2> SUFFICES ASSUME Init PROVE IInv
    OBVIOUS
  <2> USE DEF Init
  <2>1. EmptyCatalog \in Catalogs /\ EmptyRefs \in RefMaps
    BY DEF EmptyCatalog, Catalogs, Keys, EmptyRefs, RefMaps
  <2>2. TypeOK
    BY <2>1 DEF TypeOK, Status, Phases, Replies
  <2>3. TaskInv /\ ReplyInv /\ TopicInv /\ TruthfulReplies /\ RepoHasTopic
    BY DEF TaskInv, ReplyInv, TopicInv, TruthfulReplies, RepoHasTopic
  <2>4. ExclusionInv /\ EpochInv /\ DecisionInv
    BY DEF ExclusionInv, EpochInv, DecisionInv
  <2>5. MemoryInv
    BY ProcsAssumption DEF MemoryInv, Unapplied
  <2>6. \A k \in CounterKeys : catalog[k] = None
    BY DEF EmptyCatalog, Keys
  <2>7. LogInv /\ UniqueNames /\ NumbersDense
    BY <2>6 DEF LogInv, UniqueNames, NumbersDense, OpeningsOf
  <2> QED BY <2>2, <2>3, <2>4, <2>5, <2>7 DEF IInv, BaseInv
<1>2. IInv /\ [Next]_vars => IInv'
  <2> SUFFICES ASSUME IInv, [Next]_vars PROVE IInv'
    OBVIOUS
  <2> USE DEF IInv, BaseInv
  <2>1. CASE Next
    <3>1. Shaped
      BY <2>1, NextShape
    <3>2. BaseInv'
      BY <3>1, TypeStep, TaskStep, ReplyStep, TruthStep, TopicStep
    <3>3. ExclusionInv' /\ EpochInv' /\ DecisionInv' /\ MemoryInv'
      BY <3>1, ExclusionStep, EpochStep, DecisionStep, MemoryStep
    <3>4. CASE \E q \in Requests : BrokerCommit(q)
      <4>1. PICK q \in Requests : BrokerCommit(q)
        BY <3>4
      <4>2. Fits(catalog, refs, tx[q])
        BY <4>1, CommitFits
      <4>3. LogInv' /\ UniqueNames' /\ NumbersDense'
        BY <4>1, <4>2, LogStep, NamesStep, NumbersStep
      <4> QED BY <3>2, <3>3, <4>3
    <3>5. CASE ~ \E q \in Requests : BrokerCommit(q)
      <4>1. log' = log /\ catalog' = catalog
        BY <3>1, <3>5, LogQuiet
      <4>2. LogInv' /\ UniqueNames' /\ NumbersDense'
        BY <4>1 DEF LogInv, UniqueNames, NumbersDense, OpeningsOf, OpenedBefore
      <4> QED BY <3>2, <3>3, <4>2
    <3> QED BY <3>4, <3>5
  <2>2. CASE UNCHANGED vars
    <3> USE <2>2 DEF vars, brokerVars, procVars, taskVars
    <3>1. TypeOK'
      BY DEF TypeOK
    <3>2. TaskInv' /\ ReplyInv' /\ TopicInv'
      BY DEF TaskInv, ReplyInv, TopicInv, Committed
    <3>3. TruthfulReplies' /\ RepoHasTopic'
      BY DEF TruthfulReplies, RepoHasTopic, Committed
    <3>4. ExclusionInv' /\ EpochInv' /\ DecisionInv'
      BY DEF ExclusionInv, HoldsLock, EpochInv, DecisionInv
    <3>5. MemoryInv'
      BY DEF MemoryInv, Current, Unapplied
    <3>6. LogInv' /\ UniqueNames' /\ NumbersDense'
      BY DEF LogInv, UniqueNames, NumbersDense, OpeningsOf, OpenedBefore
    <3> QED BY <3>1, <3>2, <3>3, <3>4, <3>5, <3>6
  <2> QED BY <2>1, <2>2
<1> QED BY <1>1, <1>2, PTL DEF Spec

\* The in-memory view of the current, serving process is what the log holds.
THEOREM MemoryAuthoritative == ASSUME DropDuringCommit = FALSE PROVE Spec => []Authoritative
<1>1. IInv => Authoritative
  BY DEF IInv, MemoryInv, Unapplied, Authoritative
<1> QED BY <1>1, Invariant, PTL

\* No two users and no two repositories ever hold one name.
THEOREM NamesUnique == ASSUME DropDuringCommit = FALSE PROVE Spec => []UniqueNames
<1>1. IInv => UniqueNames
  BY DEF IInv
<1> QED BY <1>1, Invariant, PTL

\* Issues and pull requests of a repository are numbered 1, 2, 3, ...
THEOREM NumbersAreDense == ASSUME DropDuringCommit = FALSE PROVE Spec => []NumbersDense
<1>1. IInv => NumbersDense
  BY DEF IInv
<1> QED BY <1>1, Invariant, PTL
-----------------------------------------------------------------------------
(***************************************************************************)
(* The command service implements the atomic forge                         *)
(***************************************************************************)

\* Both specifications speak of the same keys and the same effects.
LEMMA SameVocabulary ==
  /\ Atomic!Keys = Keys /\ Atomic!NameKeys = NameKeys /\ Atomic!RefKeys = RefKeys
  /\ \A r : Atomic!issue_counter_key(r) = issue_counter_key(r)
  /\ \A cat, r : Atomic!next_issue_number(cat, r) = next_issue_number(cat, r)
  /\ \A rf, moves : Atomic!ApplyMoves(rf, moves) = ApplyMoves(rf, moves)
<1>1. Atomic!Keys = Keys /\ Atomic!NameKeys = NameKeys /\ Atomic!RefKeys = RefKeys
  BY DEF Keys, NameKeys, CounterKeys, RefKeys,
         Atomic!Keys, Atomic!NameKeys, Atomic!CounterKeys, Atomic!RefKeys
<1>2. \A r : Atomic!issue_counter_key(r) = issue_counter_key(r)
  BY DEF issue_counter_key, Atomic!issue_counter_key
<1>3. \A cat, r : Atomic!next_issue_number(cat, r) = next_issue_number(cat, r)
  BY <1>2 DEF next_issue_number, Atomic!next_issue_number
<1>4. \A moves, f : Atomic!Touching(moves, f) = Touching(moves, f)
  BY DEF Touching, Atomic!Touching
<1>5. \A moves, f : Atomic!LastTouch(moves, f) = LastTouch(moves, f)
  BY <1>4 DEF LastTouch, Atomic!LastTouch
<1>6. \A rf, moves : Atomic!ApplyMoves(rf, moves) = ApplyMoves(rf, moves)
  BY <1>1, <1>4, <1>5 DEF ApplyMoves, Atomic!ApplyMoves
<1> QED BY <1>1, <1>2, <1>3, <1>6

\* A commit is one step of the atomic forge.
LEMMA CommitIsAtomic ==
  ASSUME IInv, NEW q \in Requests, BrokerCommit(q)
  PROVE  Atomic!Next
<1> USE DEF IInv, BaseInv
<1>1. Fits(catalog, refs, tx[q])
  BY CommitFits
<1>2. tx[q] \in Tx /\ tx[q].req = q
  BY CommitLog
<1>3. /\ catalog' = ApplyClaim(catalog, tx[q])
      /\ refs' = ApplyMoves(refs, tx[q].moves)
      /\ reflog' = reflog \o tx[q].moves
      /\ refs \in RefMaps
      /\ reflog \in Seq(Move)
  BY DEF BrokerCommit, TypeOK
<1>4. Atomic!Serve(q)
  <2>1. q \notin Committed
    BY DEF BrokerCommit, ReplyInv, Committed
  <2> QED BY <2>1, CommitServes DEF Atomic!Serve
<1>5. ASSUME tx[q].moves = <<>> PROVE refs' = refs /\ reflog' = reflog
  BY <1>3, <1>5, ApplyMovesNone
<1>6. CASE tx[q].op \in NameOps
  <2>1. /\ tx[q].key \in NameKeys /\ catalog[tx[q].key] = None
        /\ tx[q].claim = q /\ tx[q].moves = <<>>
    BY <1>1, <1>2, <1>6 DEF Fits
  <2>2. tx[q].key # None
    BY <2>1, NoneIsNoKey DEF Keys
  <2>3. Atomic!TakeName(q, tx[q].key)
    BY <1>3, <1>4, <1>5, <2>1, <2>2 DEF Atomic!TakeName, ApplyClaim
  <2> QED BY <2>1, <2>3, SameVocabulary DEF Atomic!Next
<1>7. CASE tx[q].op \in OpenOps
  <2>1. PICK r \in Repos : /\ tx[q].key = issue_counter_key(r)
                           /\ tx[q].number = next_issue_number(catalog, r)
    BY <1>1, <1>7 DEF Fits
  <2>2. tx[q].claim = tx[q].number + 1 /\ tx[q].moves = <<>>
    BY <1>1, <1>7 DEF Fits
  <2>3. tx[q].key # None
    BY <2>1, CounterKeyOf, NoneIsNoKey
  <2>4. Atomic!TakeNumber(q, r)
    BY <1>3, <1>4, <1>5, <2>1, <2>2, <2>3, SameVocabulary DEF Atomic!TakeNumber, ApplyClaim
  <2> QED BY <2>4 DEF Atomic!Next
<1>8. CASE tx[q].op \in RefOps
  <2>1. /\ tx[q].key = None /\ tx[q].moves # <<>>
        /\ \A k \in DOMAIN tx[q].moves : tx[q].moves[k].old = refs[tx[q].moves[k].ref]
    BY <1>1, <1>8 DEF Fits
  <2>2. tx[q].moves \in Seq(Move)
    BY <1>2 DEF Tx
  <2>3. Atomic!Added(reflog', reflog) = tx[q].moves
    <3>1. /\ Len(reflog') = Len(reflog) + Len(tx[q].moves)
          /\ Len(reflog) \in Nat /\ Len(tx[q].moves) \in Nat
          /\ \A k \in 1..Len(tx[q].moves) : reflog'[Len(reflog) + k] = tx[q].moves[k]
      BY <1>3, <2>2
    <3>2. Len(reflog') - Len(reflog) = Len(tx[q].moves)
      BY <3>1
    <3>3. tx[q].moves = [k \in 1..Len(tx[q].moves) |-> tx[q].moves[k]]
      BY <2>2
    <3> QED BY <3>1, <3>2, <3>3 DEF Atomic!Added
  <2>4. catalog' = catalog
    BY <1>3, <2>1 DEF ApplyClaim
  <2>5. Atomic!MoveRefs(q)
    BY <1>3, <1>4, <2>1, <2>3, <2>4, SameVocabulary DEF Atomic!MoveRefs
  <2> QED BY <2>5 DEF Atomic!Next
<1>9. CASE tx[q].op \in EventOps
  <2>1. tx[q].key = None /\ tx[q].moves = <<>>
    BY <1>1, <1>9 DEF Fits
  <2>2. Atomic!Remark(q)
    BY <1>3, <1>4, <1>5, <2>1 DEF Atomic!Remark, ApplyClaim
  <2> QED BY <2>2 DEF Atomic!Next
<1> QED BY <1>2, <1>6, <1>7, <1>8, <1>9 DEF Tx, Ops

\* Every commit of the command service, from whichever process and through
\* whatever failures, is one step of the atomic forge, and nothing else it
\* does is visible there.
THEOREM Refinement == ASSUME DropDuringCommit = FALSE PROVE Spec => AtomicSpec
<1>1. Init => Atomic!Init
  BY SameVocabulary DEF Init, Atomic!Init, EmptyCatalog, EmptyRefs, Committed
<1>2. IInv /\ [Next]_vars => [Atomic!Next]_(Atomic!vars)
  <2> SUFFICES ASSUME IInv, [Next]_vars PROVE [Atomic!Next]_(Atomic!vars)
    OBVIOUS
  <2>1. CASE \E q \in Requests : BrokerCommit(q)
    BY <2>1, CommitIsAtomic
  <2>2. CASE ~ \E q \in Requests : BrokerCommit(q)
    <3>1. log' = log /\ catalog' = catalog /\ refs' = refs /\ reflog' = reflog
      <4>1. CASE Next
        BY <2>2, <4>1, NextShape, LogQuiet DEF IInv, BaseInv
      <4>2. CASE UNCHANGED vars
        BY <4>2 DEF vars, brokerVars
      <4> QED BY <4>1, <4>2
    <3>2. Committed' = Committed
      BY <3>1 DEF Committed
    <3> QED BY <3>1, <3>2 DEF Atomic!vars
  <2> QED BY <2>1, <2>2
<1> QED BY <1>1, <1>2, Invariant, PTL DEF Spec, AtomicSpec, Atomic!Spec
-----------------------------------------------------------------------------
(***************************************************************************)
(* The reflog                                                              *)
(***************************************************************************)

(***************************************************************************)
(* Where the transactions of the log have left every reference.            *)
(***************************************************************************)
ReflogInv ==
  /\ ReflogLinear
  /\ \A f \in RefKeys : refs[f] = PointedBefore(log, f, Len(log) + 1)

\* The chosen index is the largest one, and there is only one largest.
LEMMA LastTouchIs ==
  ASSUME NEW moves \in Seq(Move), NEW f, NEW k \in Touching(moves, f),
         \A j \in Touching(moves, f) : j <= k
  PROVE  LastTouch(moves, f) = k
<1>1. Touching(moves, f) \subseteq Nat
  BY DEF Touching
<1>2. LastTouch(moves, f) \in Touching(moves, f) /\ \A j \in Touching(moves, f) : j <= LastTouch(moves, f)
  BY DEF LastTouch
<1>3. LastTouch(moves, f) <= k /\ k <= LastTouch(moves, f)
  BY <1>2
<1> QED BY <1>1, <1>2, <1>3

\* The moves of two pushes, one after the other, or all of them at once.
LEMMA ApplyMovesConcat ==
  ASSUME NEW rf \in RefMaps, NEW s \in Seq(Move), NEW t \in Seq(Move)
  PROVE  ApplyMoves(rf, s \o t) = ApplyMoves(ApplyMoves(rf, s), t)
<1>1. /\ s \o t \in Seq(Move) /\ Len(s) \in Nat /\ Len(t) \in Nat
      /\ DOMAIN (s \o t) = 1..(Len(s) + Len(t)) /\ DOMAIN s = 1..Len(s) /\ DOMAIN t = 1..Len(t)
      /\ \A k \in 1..Len(s) : (s \o t)[k] = s[k]
      /\ \A k \in 1..Len(t) : (s \o t)[Len(s) + k] = t[k]
  OBVIOUS
<1>2. ASSUME NEW f \in RefKeys
      PROVE  ApplyMoves(rf, s \o t)[f] = ApplyMoves(ApplyMoves(rf, s), t)[f]
  <2>1. \A k \in 1..Len(s) : k \in Touching(s \o t, f) <=> k \in Touching(s, f)
    BY <1>1 DEF Touching
  <2>2. \A k \in 1..Len(t) : Len(s) + k \in Touching(s \o t, f) <=> k \in Touching(t, f)
    BY <1>1 DEF Touching
  <2>3. ASSUME NEW j \in Touching(s \o t, f)
        PROVE  j \in Touching(s, f) \/ (j - Len(s) \in Touching(t, f) /\ j > Len(s))
    <3>1. j \in 1..(Len(s) + Len(t))
      BY <1>1 DEF Touching
    <3>2. CASE j <= Len(s)
      <4>1. j \in 1..Len(s)
        BY <3>1, <3>2, <1>1
      <4> QED BY <4>1, <2>1, <2>3
    <3>3. CASE j > Len(s)
      <4>1. j - Len(s) \in 1..Len(t) /\ Len(s) + (j - Len(s)) = j
        BY <3>1, <3>3, <1>1
      <4> QED BY <4>1, <2>2, <2>3, <3>3
    <3> QED BY <3>1, <3>2, <3>3, <1>1
  <2>4. Touching(s, f) \subseteq 1..Len(s) /\ Touching(t, f) \subseteq 1..Len(t)
    BY <1>1 DEF Touching
  <2>5. CASE Touching(t, f) # {}
    <3>1. PICK k \in Touching(t, f) : \A j \in Touching(t, f) : j <= k
      BY <1>1, <2>4, <2>5, LargestIndex
    <3>2. LastTouch(t, f) = k
      BY <3>1, LastTouchIs
    <3>3. k \in 1..Len(t) /\ Len(s) + k \in Touching(s \o t, f)
      BY <2>2, <2>4
    <3>4. \A j \in Touching(s \o t, f) : j <= Len(s) + k
      <4> SUFFICES ASSUME NEW j \in Touching(s \o t, f) PROVE j <= Len(s) + k
        OBVIOUS
      <4>1. j \in 1..(Len(s) + Len(t))
        BY <1>1 DEF Touching
      <4>2. CASE j \in Touching(s, f)
        BY <4>2, <2>4, <3>3, <1>1
      <4>3. CASE j - Len(s) \in Touching(t, f)
        BY <4>1, <4>3, <3>1, <3>3, <1>1
      <4> QED BY <4>2, <4>3, <2>3
    <3>5. LastTouch(s \o t, f) = Len(s) + k
      BY <1>1, <3>3, <3>4, LastTouchIs
    <3>6. (s \o t)[Len(s) + k] = t[k]
      BY <1>1, <3>3
    <3>7. ApplyMoves(rf, s \o t)[f] = t[k].new
      BY <3>3, <3>5, <3>6 DEF ApplyMoves
    <3>8. ApplyMoves(ApplyMoves(rf, s), t)[f] = t[k].new
      BY <2>5, <3>2 DEF ApplyMoves
    <3> QED BY <3>7, <3>8
  <2>6. CASE Touching(t, f) = {}
    <3>1. ApplyMoves(ApplyMoves(rf, s), t)[f] = ApplyMoves(rf, s)[f]
      BY <2>6 DEF ApplyMoves
    <3>2. CASE Touching(s, f) = {}
      <4>1. Touching(s \o t, f) = {}
        BY <2>3, <2>6, <3>2
      <4> QED BY <3>1, <3>2, <4>1 DEF ApplyMoves
    <3>3. CASE Touching(s, f) # {}
      <4>1. PICK k \in Touching(s, f) : \A j \in Touching(s, f) : j <= k
        BY <1>1, <2>4, <3>3, LargestIndex
      <4>2. LastTouch(s, f) = k
        BY <4>1, LastTouchIs
      <4>3. k \in 1..Len(s) /\ k \in Touching(s \o t, f)
        BY <2>1, <2>4
      <4>4. \A j \in Touching(s \o t, f) : j <= k
        BY <2>3, <2>6, <4>1
      <4>5. LastTouch(s \o t, f) = k
        BY <1>1, <4>3, <4>4, LastTouchIs
      <4>6. (s \o t)[k] = s[k]
        BY <1>1, <4>3
      <4>7. ApplyMoves(rf, s \o t)[f] = s[k].new
        BY <4>3, <4>5, <4>6 DEF ApplyMoves
      <4>8. ApplyMoves(rf, s)[f] = s[k].new
        BY <3>3, <4>2 DEF ApplyMoves
      <4> QED BY <3>1, <4>7, <4>8
    <3> QED BY <3>2, <3>3
  <2> QED BY <2>5, <2>6
<1>3. /\ ApplyMoves(rf, s \o t) = [f \in RefKeys |-> ApplyMoves(rf, s \o t)[f]]
      /\ ApplyMoves(ApplyMoves(rf, s), t) = [f \in RefKeys |-> ApplyMoves(ApplyMoves(rf, s), t)[f]]
  BY DEF ApplyMoves
<1> QED BY <1>2, <1>3

\* A commit starts where the transactions before it left every reference it
\* moves, and leaves each one where its own last move of it goes.
LEMMA ReflogStep ==
  ASSUME IInv, ReflogInv, NEW q \in Requests, BrokerCommit(q)
  PROVE  ReflogInv'
<1> USE DEF IInv, BaseInv
<1>1. PICK n \in Nat, t \in Tx : n = Len(log) /\ t = tx[q]
  BY CommitLog
<1>2. /\ DOMAIN log = 1..n /\ DOMAIN log' = 1..(n + 1) /\ Len(log') = n + 1
      /\ \A i \in 1..n : log'[i] = log[i]
      /\ log'[n + 1] = t
  <2>1. log' = Append(log, t) /\ log \in Seq(Tx)
    BY <1>1 DEF BrokerCommit, TypeOK
  <2> QED BY <1>1, <2>1
<1>3. t.moves \in Seq(Move) /\ reflog \in Seq(Move) /\ refs \in RefMaps /\ EmptyRefs \in RefMaps
  BY DEF Tx, TypeOK, EmptyRefs, RefMaps
<1>4. refs' = ApplyMoves(refs, t.moves) /\ reflog' = reflog \o t.moves
  BY <1>1 DEF BrokerCommit
<1>5. \A k \in DOMAIN t.moves : t.moves[k].old = refs[t.moves[k].ref] /\ t.moves[k].ref \in RefKeys
  <2>1. Fits(catalog, refs, t) /\ t.op \in Ops
    BY <1>1, CommitFits DEF Tx
  <2>2. \A k \in DOMAIN t.moves : t.moves[k].old = refs[t.moves[k].ref]
    BY <2>1 DEF Fits, Ops
  <2>3. \A k \in DOMAIN t.moves : t.moves[k] \in Move
    BY <1>3
  <2>4. \A m \in Move : m.ref \in RefKeys
    BY DEF Move
  <2> QED BY <2>2, <2>3, <2>4
<1>6. ASSUME NEW f, NEW i \in 1..(n + 1)
      PROVE  PointedBefore(log', f, i) = PointedBefore(log, f, i)
  <2>1. \A j \in 1..(i - 1) : log'[j] = log[j]
    BY <1>2
  <2>2. MovedBefore(log', f, i) = MovedBefore(log, f, i)
    BY <2>1 DEF MovedBefore, Touching
  <2>3. \A j \in 1..(i - 1) : LeftAt(log', f, j) = LeftAt(log, f, j)
    BY <2>1 DEF LeftAt, LastTouch, Touching
  <2>4. CASE MovedBefore(log, f, i) = {}
    BY <2>2, <2>4 DEF PointedBefore, LeftBy
  <2>5. CASE MovedBefore(log, f, i) # {}
    <3>1. MovedBefore(log, f, i) \subseteq 1..(i - 1) /\ i - 1 \in Nat
      BY DEF MovedBefore
    <3>2. \E j \in MovedBefore(log, f, i) : \A k \in MovedBefore(log, f, i) : k <= j
      BY <2>5, <3>1, LargestIndex
    <3>3. (CHOOSE j \in MovedBefore(log, f, i) : \A k \in MovedBefore(log, f, i) : k <= j) \in MovedBefore(log, f, i)
      BY <3>2
    <3> QED BY <2>2, <2>3, <2>5, <3>1, <3>3 DEF PointedBefore, LeftBy
  <2> QED BY <2>4, <2>5
<1>7. ASSUME NEW i \in 1..(n + 1), NEW k \in DOMAIN log'[i].moves
      PROVE  log'[i].moves[k].old = PointedBefore(log', log'[i].moves[k].ref, i)
  <2>1. CASE i \in 1..n
    <3>1. log[i].moves[k].old = PointedBefore(log, log[i].moves[k].ref, i)
      BY <1>2, <1>7, <2>1 DEF ReflogInv, ReflogLinear
    <3> QED BY <1>2, <1>6, <2>1, <3>1
  <2>2. CASE i = n + 1
    <3>1. refs[t.moves[k].ref] = PointedBefore(log, t.moves[k].ref, n + 1)
      BY <1>1, <1>2, <1>5, <1>7, <2>2 DEF ReflogInv
    <3> QED BY <1>2, <1>5, <1>6, <1>7, <2>2, <3>1
  <2> QED BY <1>1, <2>1, <2>2
<1>8. ASSUME NEW f \in RefKeys PROVE refs'[f] = PointedBefore(log', f, n + 2)
  <2>1. MovedBefore(log', f, n + 2) = MovedBefore(log, f, n + 1) \cup (IF Touching(t.moves, f) = {} THEN {} ELSE {n + 1})
    <3>1. 1..((n + 2) - 1) = (1..((n + 1) - 1)) \cup {n + 1}
      BY <1>1
    <3>2. \A j \in 1..((n + 1) - 1) : log'[j] = log[j]
      BY <1>1, <1>2
    <3> QED BY <1>2, <3>1, <3>2 DEF MovedBefore, Touching
  <2>2. CASE Touching(t.moves, f) = {}
    <3>1. PointedBefore(log', f, n + 2) = PointedBefore(log', f, n + 1)
      <4>1. MovedBefore(log', f, n + 2) = MovedBefore(log', f, n + 1)
        <5>1. MovedBefore(log', f, n + 1) = MovedBefore(log, f, n + 1)
          BY <1>1, <1>2 DEF MovedBefore, Touching
        <5> QED BY <2>1, <2>2, <5>1
      <4> QED BY <4>1 DEF PointedBefore
    <3>2. PointedBefore(log', f, n + 1) = PointedBefore(log, f, n + 1)
      BY <1>1, <1>6
    <3>3. refs'[f] = refs[f]
      BY <1>4, <2>2 DEF ApplyMoves
    <3> QED BY <1>1, <3>1, <3>2, <3>3 DEF ReflogInv
  <2>3. CASE Touching(t.moves, f) # {}
    <3>1. n + 1 \in MovedBefore(log', f, n + 2) /\ \A j \in MovedBefore(log', f, n + 2) : j \in Nat /\ j <= n + 1
      <4>1. \A j \in MovedBefore(log, f, n + 1) : j \in Nat /\ j <= n
        BY <1>1 DEF MovedBefore
      <4> QED BY <1>1, <2>1, <2>3, <4>1
    <3>2. (CHOOSE j \in MovedBefore(log', f, n + 2) : \A k \in MovedBefore(log', f, n + 2) : k <= j) = n + 1
      <4> DEFINE S == MovedBefore(log', f, n + 2)
                 c == CHOOSE j \in S : \A k \in S : k <= j
      <4>1. n + 1 \in S /\ \A j \in S : j \in Nat /\ j <= n + 1
        BY <3>1
      <4> HIDE DEF S
      <4>2. c \in S /\ \A k \in S : k <= c
        BY <4>1
      <4>3. c \in Nat /\ c <= n + 1 /\ n + 1 <= c
        BY <4>1, <4>2
      <4> HIDE DEF c
      <4>4. c = n + 1
        BY <1>1, <4>3
      <4> QED BY <4>4 DEF c, S
    <3>3. PointedBefore(log', f, n + 2) = LeftAt(log', f, n + 1)
      BY <3>1, <3>2 DEF PointedBefore, LeftBy
    <3>4. LeftAt(log', f, n + 1) = t.moves[LastTouch(t.moves, f)].new
      BY <1>2 DEF LeftAt
    <3> QED BY <1>4, <2>3, <3>3, <3>4 DEF ApplyMoves
  <2> QED BY <2>2, <2>3
<1>9. refs' = ApplyMoves(EmptyRefs, reflog')
  BY <1>3, <1>4, ApplyMovesConcat DEF ReflogInv, ReflogLinear
<1>10. ReflogLinear'
  BY <1>2, <1>7, <1>9 DEF ReflogLinear
<1>11. Len(log') + 1 = n + 2
  BY <1>1, <1>2
<1> QED BY <1>8, <1>10, <1>11 DEF ReflogInv

\* Whatever a push or a merge moves, it moves from where the log had left it,
\* and the recorded moves end where the references point, whichever references
\* the pushes name and however often.
THEOREM ReflogIsAChain == ASSUME DropDuringCommit = FALSE PROVE Spec => []ReflogLinear
<1>1. Init => ReflogInv
  <2> SUFFICES ASSUME Init PROVE ReflogInv
    OBVIOUS
  <2>1. EmptyRefs \in RefMaps
    BY DEF EmptyRefs, RefMaps
  <2>2. ApplyMoves(EmptyRefs, <<>>) = EmptyRefs
    BY <2>1, ApplyMovesNone
  <2>3. log = <<>> /\ reflog = <<>> /\ refs = EmptyRefs
    BY DEF Init
  <2>4. \A f \in RefKeys : refs[f] = PointedBefore(log, f, Len(log) + 1)
    <3>1. \A f : MovedBefore(log, f, 1) = {}
      BY DEF MovedBefore
    <3>2. Len(log) + 1 = 1
      BY <2>3
    <3> QED BY <2>3, <3>1, <3>2 DEF PointedBefore, LeftBy, EmptyRefs
  <2> QED BY <2>2, <2>3, <2>4 DEF ReflogInv, ReflogLinear
<1>2. IInv /\ ReflogInv /\ [Next]_vars => ReflogInv'
  <2> SUFFICES ASSUME IInv, ReflogInv, [Next]_vars PROVE ReflogInv'
    OBVIOUS
  <2>1. CASE \E q \in Requests : BrokerCommit(q)
    BY <2>1, ReflogStep
  <2>2. ASSUME log' = log, refs' = refs, reflog' = reflog PROVE ReflogInv'
    <3>1. \A f, i : PointedBefore(log', f, i) = PointedBefore(log, f, i)
      BY <2>2 DEF PointedBefore
    <3> QED BY <2>2, <3>1 DEF ReflogInv, ReflogLinear
  <2>3. CASE Next /\ ~ \E q \in Requests : BrokerCommit(q)
    BY <2>2, <2>3, NextShape, LogQuiet DEF IInv, BaseInv
  <2>4. CASE UNCHANGED vars
    BY <2>2, <2>4 DEF vars, brokerVars
  <2> QED BY <2>1, <2>3, <2>4
<1>3. ReflogInv => ReflogLinear
  BY DEF ReflogInv
<1> QED BY <1>1, <1>2, <1>3, Invariant, PTL DEF Spec
=============================================================================
