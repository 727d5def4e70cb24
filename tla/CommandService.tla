--------------------------- MODULE CommandService ---------------------------
(***************************************************************************)
(* The command service and its fenced writer, on top of the broker.        *)
(*                                                                         *)
(* Server processes boot in three steps: connect the transactional writer, *)
(* which bumps the producer epoch and so fences any predecessor; replay    *)
(* the compacted catalog; replay the compacted references.  Only then do   *)
(* they serve.  A process may crash at any moment and boot again, and an   *)
(* old process may still be running, unaware, while its successor boots.   *)
(*                                                                         *)
(* A request is decided against the process's in-memory state, under the   *)
(* state mutex where the code takes it, and is then written in one broker  *)
(* transaction; the in-memory state changes only after the broker's answer *)
(* has arrived.  Each await point of that path is a step of its own, so    *)
(* requests, crashes, fencing and client disconnects interleave there.     *)
(*                                                                         *)
(* The broker (epochs, atomic multi-topic commit, read-committed replay)   *)
(* is external: it is modelled from how forge-bus uses it.                 *)
(***************************************************************************)
EXTENDS ForgeTypes

CONSTANTS
  Procs,            \* server processes
  Batches,          \* the sequences of reference keys a push may update
  MaxEpoch,         \* bound: how many times the writer is connected
  DropDuringCommit  \* whether a handler may be dropped while it awaits the
                    \* broker's answer to a commit

ASSUME BatchesAssumption == Batches \subseteq Seq(RefKeys)
ASSUME MaxEpochAssumption == MaxEpoch \in Nat
ASSUME DropAssumption == DropDuringCommit \in BOOLEAN
ASSUME ProcsAssumption == None \notin Procs

VARIABLES
  \* The broker.
  brokerEpoch,  \* epoch of the latest producer to take forge.cmd.main
  log,          \* committed transactions, in commit order
  catalog,      \* the compacted topic forge.meta.catalog
  refs,         \* the compacted topic forge.git.refs
  reflog,       \* the RefUpdated events of forge.events.git-refs
  objectTopic,  \* per repository id, the name its object topic was created for
  \* Each server process.
  status,       \* how far it has booted
  epoch,        \* the producer epoch it holds, 0 before it connects
  fenced,       \* FencedWriter.fenced: latched once fencing is observed
  memCatalog,   \* State.catalog
  memRefs,      \* State.refs
  \* Each request.
  pc,           \* where its handler is
  at,           \* the process serving it
  tx,           \* the transaction it has decided to write
  reply         \* what its client was told

brokerVars == <<brokerEpoch, log, catalog, refs, reflog, objectTopic>>
procVars   == <<status, epoch, fenced, memCatalog, memRefs>>
taskVars   == <<pc, at, tx, reply>>
vars       == <<brokerVars, procVars, taskVars>>

Status  == {"down", "connected", "catalog", "serving"}
Phases  == {"idle", "topic", "begun", "open", "committed", "done"}
Replies == {"none", "ok", "noop", "rejected", "fenced", "error"}

EmptyCatalog == [k \in Keys |-> None]
EmptyRefs    == [f \in RefKeys |-> None]

TypeOK ==
  /\ brokerEpoch \in Nat
  /\ log \in Seq(Tx)
  /\ catalog \in Catalogs
  /\ refs \in RefMaps
  /\ reflog \in Seq(Move)
  /\ objectTopic \in [Requests -> RepoNames \cup {None}]
  /\ status \in [Procs -> Status]
  /\ epoch \in [Procs -> Nat]
  /\ fenced \in [Procs -> BOOLEAN]
  /\ memCatalog \in [Procs -> Catalogs]
  /\ memRefs \in [Procs -> RefMaps]
  /\ pc \in [Requests -> Phases]
  /\ at \in [Requests -> Procs \cup {None}]
  /\ tx \in [Requests -> Tx \cup {None}]
  /\ reply \in [Requests -> Replies]

Init ==
  /\ brokerEpoch = 0
  /\ log = <<>>
  /\ catalog = EmptyCatalog
  /\ refs = EmptyRefs
  /\ reflog = <<>>
  /\ objectTopic = [q \in Requests |-> None]
  /\ status = [p \in Procs |-> "down"]
  /\ epoch = [p \in Procs |-> 0]
  /\ fenced = [p \in Procs |-> FALSE]
  /\ memCatalog = [p \in Procs |-> EmptyCatalog]
  /\ memRefs = [p \in Procs |-> EmptyRefs]
  /\ pc = [q \in Requests |-> "idle"]
  /\ at = [q \in Requests |-> None]
  /\ tx = [q \in Requests |-> None]
  /\ reply = [q \in Requests |-> "none"]
-----------------------------------------------------------------------------
(***************************************************************************)
(* Booting and dying                                                       *)
(***************************************************************************)

(***************************************************************************)
(* FencedWriter::connect: init_transactions bumps the producer epoch.  An  *)
(* open transaction of the previous holder is aborted by the broker; its   *)
(* owner finds out when it next talks to the broker.                       *)
(***************************************************************************)
Connect(p) ==
  /\ status[p] = "down"
  /\ brokerEpoch < MaxEpoch
  /\ brokerEpoch' = brokerEpoch + 1
  /\ epoch' = [epoch EXCEPT ![p] = brokerEpoch + 1]
  /\ fenced' = [fenced EXCEPT ![p] = FALSE]
  /\ status' = [status EXCEPT ![p] = "connected"]
  /\ UNCHANGED <<log, catalog, refs, reflog, objectTopic, memCatalog, memRefs, taskVars>>

(***************************************************************************)
(* CommandService::start: fold forge.meta.catalog to its end.              *)
(***************************************************************************)
ReplayCatalog(p) ==
  /\ status[p] = "connected"
  /\ memCatalog' = [memCatalog EXCEPT ![p] = catalog]
  /\ status' = [status EXCEPT ![p] = "catalog"]
  /\ UNCHANGED <<brokerVars, epoch, fenced, memRefs, taskVars>>

(***************************************************************************)
(* CommandService::start: fold forge.git.refs to its end, and serve.       *)
(***************************************************************************)
ReplayRefs(p) ==
  /\ status[p] = "catalog"
  /\ memRefs' = [memRefs EXCEPT ![p] = refs]
  /\ status' = [status EXCEPT ![p] = "serving"]
  /\ UNCHANGED <<brokerVars, epoch, fenced, memCatalog, taskVars>>

(***************************************************************************)
(* The process is gone, with everything it held in memory and every        *)
(* handler it was running.  Their clients get no answer.                   *)
(***************************************************************************)
Die(p) ==
  /\ status' = [status EXCEPT ![p] = "down"]
  /\ epoch' = [epoch EXCEPT ![p] = 0]
  /\ fenced' = [fenced EXCEPT ![p] = FALSE]
  /\ memCatalog' = [memCatalog EXCEPT ![p] = EmptyCatalog]
  /\ memRefs' = [memRefs EXCEPT ![p] = EmptyRefs]
  /\ pc' = [q \in Requests |-> IF at[q] = p THEN "done" ELSE pc[q]]
  /\ at' = [q \in Requests |-> IF at[q] = p THEN None ELSE at[q]]
  /\ tx' = [q \in Requests |-> IF at[q] = p THEN None ELSE tx[q]]
  /\ UNCHANGED <<brokerVars, reply>>

Crash(p) == status[p] # "down" /\ Die(p)
-----------------------------------------------------------------------------
(***************************************************************************)
(* Deciding a request                                                      *)
(***************************************************************************)

(***************************************************************************)
(* The state mutex is held by the one handler that is between its decision *)
(* and its answer; handlers of EventOps never take it.                     *)
(***************************************************************************)
HoldsLock(q) == at[q] # None /\ tx[q].op \notin EventOps

LockFree(p) == \A q \in Requests : at[q] = p => ~HoldsLock(q)

Arrives(q, p) == pc[q] = "idle" /\ status[p] = "serving"

(***************************************************************************)
(* The handler returns: its client is told r and its guards are released.  *)
(***************************************************************************)
Finish(q, r) ==
  /\ pc' = [pc EXCEPT ![q] = "done"]
  /\ at' = [at EXCEPT ![q] = None]
  /\ tx' = [tx EXCEPT ![q] = None]
  /\ reply' = [reply EXCEPT ![q] = r]

Refuse(q, r) == Finish(q, r) /\ UNCHANGED <<brokerVars, procVars>>

Decided(q, p, phase, t) ==
  /\ pc' = [pc EXCEPT ![q] = phase]
  /\ at' = [at EXCEPT ![q] = p]
  /\ tx' = [tx EXCEPT ![q] = t]
  /\ UNCHANGED <<brokerVars, procVars, reply>>

(***************************************************************************)
(* FencedWriter::transact up to its first await, in the same poll as the   *)
(* decision: a writer that has seen it is fenced refuses to begin.         *)
(***************************************************************************)
Begin(q, p, t) ==
  IF fenced[p] THEN Refuse(q, "fenced") ELSE Decided(q, p, "begun", t)

(***************************************************************************)
(* Name parsing, empty or over-long text, a branch merged into itself: the *)
(* request is refused before any state is looked at.                       *)
(***************************************************************************)
RejectInvalid(q, p) == Arrives(q, p) /\ Refuse(q, "rejected")

(***************************************************************************)
(* A faulty variant: the name's record is written as a tombstone.          *)
(***************************************************************************)
ClaimTx_Tombstone(q, op, k) ==
  [req |-> q, op |-> op, number |-> 0, key |-> k, claim |-> None, moves |-> <<>>]

ClaimTx(q, op, k) ==
  [req |-> q, op |-> op, number |-> 0, key |-> k, claim |-> q, moves |-> <<>>]

(***************************************************************************)
(* A faulty variant: the catalog is read without holding the mutex.        *)
(***************************************************************************)
RegisterUser_Unlocked(q, p, n) ==
  /\ Arrives(q, p)
  /\ IF memCatalog[p][user_key(n)] # None
     THEN Refuse(q, "rejected")
     ELSE Begin(q, p, ClaimTx(q, "register_user", user_key(n)))

RegisterUser(q, p, n) ==
  /\ Arrives(q, p)
  /\ LockFree(p)
  /\ IF memCatalog[p][user_key(n)] # None
     THEN Refuse(q, "rejected")
     ELSE Begin(q, p, ClaimTx(q, "register_user", user_key(n)))

(***************************************************************************)
(* A faulty variant: the transaction does not wait for the object topic.   *)
(***************************************************************************)
CreateRepo_NoTopic(q, p, n) ==
  /\ Arrives(q, p)
  /\ LockFree(p)
  /\ IF memCatalog[p][repo_key(n)] # None
     THEN Refuse(q, "rejected")
     ELSE Begin(q, p, ClaimTx(q, "create_repo", repo_key(n)))

(***************************************************************************)
(* The repository's object topic is provisioned, under the lock, before    *)
(* the transaction; see EnsureRepo.                                        *)
(***************************************************************************)
CreateRepo(q, p, n) ==
  /\ Arrives(q, p)
  /\ LockFree(p)
  /\ IF memCatalog[p][repo_key(n)] # None
     THEN Refuse(q, "rejected")
     ELSE Decided(q, p, "topic", ClaimTx(q, "create_repo", repo_key(n)))

EnsureRepo(q) ==
  /\ pc[q] = "topic"
  /\ objectTopic' = [objectTopic EXCEPT ![q] = tx[q].key[2]]
  /\ IF fenced[at[q]]
     THEN Finish(q, "fenced")
     ELSE pc' = [pc EXCEPT ![q] = "begun"] /\ UNCHANGED <<at, tx, reply>>
  /\ UNCHANGED <<brokerEpoch, log, catalog, refs, reflog, procVars>>

EnsureRepoFails(q) == pc[q] = "topic" /\ Refuse(q, "error")

(***************************************************************************)
(* A faulty variant: the counter is written back without the increment.    *)
(***************************************************************************)
OpenTx_NoIncrement(q, op, r, n) ==
  [req |-> q, op |-> op, number |-> n, key |-> issue_counter_key(r),
   claim |-> n, moves |-> <<>>]

(***************************************************************************)
(* open_issue and open_pull take a number from the same counter.           *)
(***************************************************************************)
OpenTx(q, op, r, n) ==
  [req |-> q, op |-> op, number |-> n, key |-> issue_counter_key(r),
   claim |-> n + 1, moves |-> <<>>]

OpenNumbered(q, p, op, r) ==
  /\ Arrives(q, p)
  /\ LockFree(p)
  /\ Begin(q, p, OpenTx(q, op, r, next_issue_number(memCatalog[p], r)))

OpenIssue(q, p, r) == OpenNumbered(q, p, "open_issue", r)
OpenPull(q, p, r)  == OpenNumbered(q, p, "open_pull", r)

MoveTx(q, op, moves) ==
  [req |-> q, op |-> op, number |-> 0, key |-> None, claim |-> None, moves |-> moves]

(***************************************************************************)
(* Every update is checked against the map as it stands before the push;   *)
(* one rejection refuses the whole push.                                   *)
(***************************************************************************)
UpdateRefs(q, p, batch, old, new) ==
  LET moves == [k \in DOMAIN batch |-> [ref |-> batch[k], old |-> old[k], new |-> new[k]]]
  IN  /\ Arrives(q, p)
      /\ \/ batch = <<>> /\ Refuse(q, "noop")
         \/ /\ batch # <<>>
            /\ LockFree(p)
            /\ IF \A k \in DOMAIN moves : check(memRefs[p], moves[k])
               THEN Begin(q, p, MoveTx(q, "update_refs", moves))
               ELSE Refuse(q, "rejected")

(***************************************************************************)
(* A faulty variant: the merge clobbers a push that landed in between.     *)
(***************************************************************************)
MergePull_Clobbers(q, p, f, base, commit) ==
  /\ Arrives(q, p)
  /\ LockFree(p)
  /\ IF memRefs[p][f] # None
     THEN Decided(q, p, "begun",
                  MoveTx(q, "merge_pull", <<[ref |-> f, old |-> base, new |-> commit]>>))
     ELSE Refuse(q, "rejected")

MergePull(q, p, f, base, commit) ==
  /\ Arrives(q, p)
  /\ LockFree(p)
  /\ IF memRefs[p][f] = base
     THEN Decided(q, p, "begun",
                  MoveTx(q, "merge_pull", <<[ref |-> f, old |-> base, new |-> commit]>>))
     ELSE Refuse(q, "rejected")

(***************************************************************************)
(* comment_on_issue, set_issue_state, review_pull, record_mergeability,    *)
(* synchronize_pull and set_pull_state decide nothing and take no lock:    *)
(* they write one event.                                                   *)
(***************************************************************************)
AppendEvent(q, p) ==
  /\ Arrives(q, p)
  /\ Begin(q, p, MoveTx(q, "event", <<>>))
-----------------------------------------------------------------------------
(***************************************************************************)
(* FencedWriter::transact                                                  *)
(***************************************************************************)

(***************************************************************************)
(* A producer has at most one transaction open.                            *)
(***************************************************************************)
ProducerFree(p) == \A q \in Requests : at[q] = p => pc[q] \notin {"open", "committed"}

Current(p) == epoch[p] = brokerEpoch

(***************************************************************************)
(* Begin, once the producer is free, fan the records out and collect their *)
(* acknowledgements.  The latch is not looked at again: a handler that     *)
(* waited here goes on if the broker lets it.                              *)
(***************************************************************************)
Send(q) ==
  /\ pc[q] = "begun"
  /\ ProducerFree(at[q])
  /\ Current(at[q])
  /\ pc' = [pc EXCEPT ![q] = "open"]
  /\ UNCHANGED <<brokerVars, procVars, at, tx, reply>>

(***************************************************************************)
(* EndTxn reaches the broker: the records become visible in every topic at *)
(* once.  The answer is still on its way.                                  *)
(***************************************************************************)
BrokerCommit(q) ==
  /\ pc[q] = "open"
  /\ Current(at[q])
  /\ log' = Append(log, tx[q])
  /\ catalog' = ApplyClaim(catalog, tx[q])
  /\ refs' = ApplyMoves(refs, tx[q].moves)
  /\ reflog' = reflog \o tx[q].moves
  /\ pc' = [pc EXCEPT ![q] = "committed"]
  /\ UNCHANGED <<brokerEpoch, objectTopic, procVars, at, tx, reply>>

(***************************************************************************)
(* A faulty variant: the reference map is not told of the committed moves. *)
(***************************************************************************)
CommitAcked_ForgetsRefs(q) ==
  /\ pc[q] = "committed"
  /\ memCatalog' = [memCatalog EXCEPT ![at[q]] = ApplyClaim(@, tx[q])]
  /\ Finish(q, "ok")
  /\ UNCHANGED <<brokerVars, status, epoch, fenced, memRefs>>

(***************************************************************************)
(* The commit is acknowledged: the in-memory state catches up with what    *)
(* was written, and the guards are released.                               *)
(***************************************************************************)
CommitAcked(q) ==
  /\ pc[q] = "committed"
  /\ memCatalog' = [memCatalog EXCEPT ![at[q]] = ApplyClaim(@, tx[q])]
  /\ memRefs' = [memRefs EXCEPT ![at[q]] = ApplyMoves(@, tx[q].moves)]
  /\ Finish(q, "ok")
  /\ UNCHANGED <<brokerVars, status, epoch, fenced>>

(***************************************************************************)
(* A faulty variant: a transaction refused at its begin is not classified  *)
(* and waits for a producer that will never accept it.                     *)
(***************************************************************************)
TransactFenced_OnlyWhenOpen(q) ==
  /\ pc[q] = "open"
  /\ fenced' = [fenced EXCEPT ![at[q]] = TRUE]
  /\ Finish(q, "fenced")
  /\ UNCHANGED <<brokerVars, status, epoch, memCatalog, memRefs>>

(***************************************************************************)
(* classify, FencedProducer or TransactionAborted: the broker refuses the  *)
(* epoch, or it has aborted the transaction (for a newer writer, or        *)
(* because it timed out).  The latch is set for the requests to come.      *)
(***************************************************************************)
TransactFenced(q) ==
  /\ \/ pc[q] = "begun" /\ ProducerFree(at[q]) /\ ~Current(at[q])
     \/ pc[q] = "open"
  /\ fenced' = [fenced EXCEPT ![at[q]] = TRUE]
  /\ Finish(q, "fenced")
  /\ UNCHANGED <<brokerVars, status, epoch, memCatalog, memRefs>>

(***************************************************************************)
(* classify, any other error: the transaction is aborted.                  *)
(***************************************************************************)
TransactFails(q) ==
  /\ \/ pc[q] = "begun" /\ ProducerFree(at[q])
     \/ pc[q] = "open"
  /\ Refuse(q, "error")

(***************************************************************************)
(* A faulty variant: an unknown outcome is reported as a failure.          *)
(***************************************************************************)
RecoveryRequired_ReportsError(q) ==
  /\ pc[q] \in {"open", "committed"}
  /\ Refuse(q, "error")

(***************************************************************************)
(* classify, RecoveryRequired: the answer to EndTxn never arrived, whether *)
(* or not the broker committed.  The process aborts.                       *)
(***************************************************************************)
RecoveryRequired(q) ==
  /\ pc[q] \in {"open", "committed"}
  /\ Die(at[q])

(***************************************************************************)
(* The client disconnects and the server drops the handler's future at an  *)
(* await point: its lock and its transaction guard are released, and       *)
(* nothing after that await runs.  Before EndTxn is sent the guard aborts  *)
(* the transaction; afterwards the commit stands.                          *)
(***************************************************************************)
DropHandler(q) ==
  /\ pc[q] \in {"topic", "begun", "open"} \cup (IF DropDuringCommit THEN {"committed"} ELSE {})
  /\ Refuse(q, "none")
-----------------------------------------------------------------------------
Decide(q, p) ==
  \/ RejectInvalid(q, p)
  \/ \E n \in Usernames : RegisterUser(q, p, n)
  \/ \E n \in RepoNames : CreateRepo(q, p, n)
  \/ \E r \in Repos : OpenIssue(q, p, r) \/ OpenPull(q, p, r)
  \/ \E batch \in Batches :
       \E old, new \in [DOMAIN batch -> Oids \cup {None}] : UpdateRefs(q, p, batch, old, new)
  \/ \E f \in RefKeys, base, commit \in Oids : MergePull(q, p, f, base, commit)
  \/ AppendEvent(q, p)

(***************************************************************************)
(* The steps of a handler's own future, which the runtime keeps polling:   *)
(* the ones that follow from an answer, and the ones that need a fault.    *)
(***************************************************************************)
Answered(q) ==
  \/ EnsureRepo(q)
  \/ Send(q)
  \/ BrokerCommit(q)
  \/ CommitAcked(q)
  \/ TransactFenced(q)

Faulted(q) ==
  \/ EnsureRepoFails(q)
  \/ TransactFails(q)
  \/ RecoveryRequired(q)

Proceed(q) == Answered(q) \/ Faulted(q)

Next ==
  \/ \E p \in Procs : Connect(p) \/ ReplayCatalog(p) \/ ReplayRefs(p) \/ Crash(p)
  \/ \E q \in Requests, p \in Procs : Decide(q, p)
  \/ \E q \in Requests : Proceed(q) \/ DropHandler(q)

Spec == Init /\ [][Next]_vars

(***************************************************************************)
(* The async runtime polls every handler whose await has resolved, and the *)
(* broker answers it unless a fault comes first.  No fault has to come:    *)
(* nothing obliges a connection to fail, a client to send a request, a     *)
(* process to crash, or anyone to restart it.                              *)
(***************************************************************************)
Fairness == \A q \in Requests : WF_vars(Answered(q))

LiveSpec == Spec /\ Fairness
-----------------------------------------------------------------------------
(***************************************************************************)
(* Properties                                                              *)
(***************************************************************************)

(***************************************************************************)
(* The in-memory view is authoritative (catalog.rs): whenever a serving    *)
(* process is the one the broker would accept a commit from, and no commit *)
(* of its own is waiting to be applied, what it decides against is exactly *)
(* what the log holds, whoever wrote it and whatever crashed before.       *)
(***************************************************************************)
Authoritative ==
  \A p \in Procs :
    /\ status[p] = "serving"
    /\ Current(p)
    /\ \A q \in Requests : at[q] = p => pc[q] # "committed"
    => memCatalog[p] = catalog /\ memRefs[p] = refs

(***************************************************************************)
(* No two committed transactions ever claim one user or repository name,   *)
(* even when two processes raced for it across a takeover.                 *)
(***************************************************************************)
UniqueNames ==
  \A i, j \in DOMAIN log :
    log[i].op \in NameOps /\ log[i].key = log[j].key => i = j

(***************************************************************************)
(* Issues and pull requests of a repository are numbered 1, 2, 3, ... in   *)
(* commit order: no number is used twice and none is skipped, although     *)
(* attempts fail and processes die in between.                             *)
(***************************************************************************)
OpenedBefore(i) ==
  {j \in 1..(i - 1) : log[j].op \in OpenOps /\ log[j].key = log[i].key}

NumbersDense ==
  \A i \in DOMAIN log :
    log[i].op \in OpenOps =>
      \/ OpenedBefore(i) = {} /\ log[i].number = 1
      \/ \E j \in OpenedBefore(i) :
           /\ \A k \in OpenedBefore(i) : k <= j
           /\ log[i].number = log[j].number + 1

(***************************************************************************)
(* The reflog is a chain of pushes and merges: whatever a transaction      *)
(* moves, it moves from where the transactions before it left that         *)
(* reference, and the compacted value is where the recorded moves end, so  *)
(* history never disagrees with where a branch points.  Within one push    *)
(* that names a reference twice both moves start from the value before the *)
(* push (update_refs checks every update against the same map).            *)
(***************************************************************************)
MovedBefore(txs, f, i) == {j \in 1..(i - 1) : Touching(txs[j].moves, f) # {}}

LeftAt(txs, f, j) == txs[j].moves[LastTouch(txs[j].moves, f)].new

LeftBy(txs, f, moved) ==
  IF moved = {} THEN None
                ELSE LeftAt(txs, f, CHOOSE j \in moved : \A k \in moved : k <= j)

PointedBefore(txs, f, i) == LeftBy(txs, f, MovedBefore(txs, f, i))

ReflogLinear ==
  /\ \A i \in DOMAIN log : \A k \in DOMAIN log[i].moves :
       log[i].moves[k].old = PointedBefore(log, log[i].moves[k].ref, i)
  /\ refs = ApplyMoves(EmptyRefs, reflog)

(***************************************************************************)
(* A client is never told something untrue: "ok" only for a request whose  *)
(* transaction is in the log, a refusal or an error only for one that is   *)
(* not and never will be.                                                  *)
(***************************************************************************)
Committed == {log[i].req : i \in DOMAIN log}

TruthfulReplies ==
  \A q \in Requests :
    /\ reply[q] = "ok" => q \in Committed
    /\ reply[q] \in {"noop", "rejected", "fenced", "error"} => q \notin Committed

(***************************************************************************)
(* A repository that exists has an object topic to push to, wherever its   *)
(* creation was interrupted.                                               *)
(***************************************************************************)
RepoHasTopic ==
  \A i \in DOMAIN log :
    log[i].op = "create_repo" => objectTopic[log[i].req] = log[i].key[2]

(***************************************************************************)
(* Every request a process starts on comes to an end: an answer, or the    *)
(* end of the process or of its handler.  A fenced writer fails fast, and  *)
(* nobody waits for a lock that is never released.                         *)
(***************************************************************************)
Concludes == \A q \in Requests : at[q] # None ~> at[q] = None

(***************************************************************************)
(* The command service, with all its processes, takeovers and failures,    *)
(* implements the atomic forge of module Forge: every commit takes effect  *)
(* on the state it was decided for.                                        *)
(***************************************************************************)
Atomic == INSTANCE Forge WITH served <- Committed

AtomicSpec == Atomic!Spec
-----------------------------------------------------------------------------
(***************************************************************************)
(* The inductive invariant behind Authoritative, UniqueNames, NumbersDense *)
(* and the refinement.                                                     *)
(***************************************************************************)

(***************************************************************************)
(* A request is at a process exactly while its handler is running there.   *)
(***************************************************************************)
TaskInv ==
  \A q \in Requests :
    /\ at[q] = None <=> pc[q] \in {"idle", "done"}
    /\ at[q] # None => /\ status[at[q]] = "serving"
                       /\ tx[q] \in Tx
                       /\ tx[q].req = q
    /\ at[q] = None => tx[q] = None
    /\ pc[q] = "topic" => tx[q].key \in {"repo"} \X RepoNames

(***************************************************************************)
(* What has committed, what is still to commit and what was answered are   *)
(* told apart by where the handler is.                                     *)
(***************************************************************************)
ReplyInv ==
  /\ \A i \in DOMAIN log : pc[log[i].req] \in {"committed", "done"}
  /\ \A q \in Requests : /\ pc[q] = "committed" => q \in Committed
                         /\ reply[q] # "none" => pc[q] = "done"

(***************************************************************************)
(* A creation that is past EnsureRepo has its topic.                       *)
(***************************************************************************)
TopicInv ==
  \A q \in Requests :
    at[q] # None /\ tx[q].op = "create_repo" /\ pc[q] # "topic" =>
      objectTopic[q] = tx[q].key[2]

(***************************************************************************)
(* The part that holds even when handlers are dropped during a commit.     *)
(***************************************************************************)
BaseInv ==
  /\ TypeOK
  /\ TaskInv
  /\ ReplyInv
  /\ TopicInv
  /\ TruthfulReplies
  /\ RepoHasTopic

(***************************************************************************)
(* The mutex and the producer each serve one handler of a process at once. *)
(***************************************************************************)
ExclusionInv ==
  \A a, b \in Requests :
    at[a] # None /\ at[a] = at[b] =>
      /\ HoldsLock(a) /\ HoldsLock(b) => a = b
      /\ pc[a] \in {"open", "committed"} /\ pc[b] \in {"open", "committed"} => a = b

(***************************************************************************)
(* The broker's epoch belongs to one process at most.                      *)
(***************************************************************************)
EpochInv ==
  /\ \A p \in Procs : epoch[p] <= brokerEpoch /\ (epoch[p] = 0 <=> status[p] = "down")
  /\ \A p, o \in Procs : epoch[p] = epoch[o] /\ epoch[p] # 0 => p = o

(***************************************************************************)
(* A decided transaction fits the memory it was decided against, until     *)
(* that memory is brought up to date with it.                              *)
(***************************************************************************)
Fits(cat, rf, t) ==
  /\ t.op \in NameOps =>
       /\ t.key \in NameKeys
       /\ cat[t.key] = None
       /\ t.claim = t.req
       /\ t.moves = <<>>
  /\ t.op \in OpenOps =>
       /\ \E r \in Repos : t.key = issue_counter_key(r) /\ t.number = next_issue_number(cat, r)
       /\ t.claim = t.number + 1
       /\ t.moves = <<>>
  /\ t.op \in RefOps =>
       /\ t.key = None
       /\ t.moves # <<>>
       /\ \A k \in DOMAIN t.moves : t.moves[k].old = rf[t.moves[k].ref]
  /\ t.op \in EventOps => t.key = None /\ t.moves = <<>>

DecisionInv ==
  \A q \in Requests :
    at[q] # None => Fits(memCatalog[at[q]], memRefs[at[q]], tx[q])

(***************************************************************************)
(* The current process's memory is the log's state, or one transaction of  *)
(* its own behind it.                                                      *)
(***************************************************************************)
Unapplied(p) == {q \in Requests : at[q] = p /\ pc[q] = "committed"}

MemoryInv ==
  \A p \in Procs :
    Current(p) =>
      /\ status[p] \in {"catalog", "serving"} /\ Unapplied(p) = {} => memCatalog[p] = catalog
      /\ status[p] = "serving" /\ Unapplied(p) = {} => memRefs[p] = refs
      /\ \A q \in Unapplied(p) : /\ catalog = ApplyClaim(memCatalog[p], tx[q])
                                 /\ refs = ApplyMoves(memRefs[p], tx[q].moves)

(***************************************************************************)
(* What the log says of the compacted catalog: a committed name is held,   *)
(* and a counter stands one above the last number handed out.              *)
(***************************************************************************)
OpeningsOf(k) == {i \in DOMAIN log : log[i].op \in OpenOps /\ log[i].key = k}

LogInv ==
  /\ \A i \in DOMAIN log :
       /\ log[i].op \in NameOps => log[i].key \in NameKeys /\ catalog[log[i].key] # None
       /\ log[i].op \in OpenOps => log[i].key \in CounterKeys
       /\ log[i].op \in RefOps \cup EventOps => log[i].key = None
  /\ \A k \in CounterKeys :
       \/ OpeningsOf(k) = {} /\ catalog[k] = None
       \/ \E i \in OpeningsOf(k) :
            /\ \A j \in OpeningsOf(k) : j <= i
            /\ catalog[k] = log[i].number + 1

IInv ==
  /\ BaseInv
  /\ ExclusionInv
  /\ EpochInv
  /\ DecisionInv
  /\ MemoryInv
  /\ LogInv
  /\ UniqueNames
  /\ NumbersDense
=============================================================================
