----------------------------- MODULE GitHosting -----------------------------
(***************************************************************************)
(* One repository over HTTP: an object log, references, and a disposable   *)
(* bare repository on disk that git itself serves from.                    *)
(*                                                                         *)
(* Requests run in parallel on one cache directory with no lock between    *)
(* them.  Each first hydrates the cache from the log.  A fetch or a push   *)
(* then points the cache's references at the canonical ones and runs git;  *)
(* git calls back from its pre-receive hook, where the push is decided.    *)
(* The merge button of the web hydrates too, but takes the references as   *)
(* it finds them.                                                          *)
(*                                                                         *)
(* Objects are model values; a commit has the objects it needs.  The       *)
(* command service is one step here (CommandService has its detail), and   *)
(* git, the file system and the log are external.                          *)
(***************************************************************************)
EXTENDS Integers, Sequences, FiniteSets

CONSTANTS
  Slots,        \* requests being served at a time
  Refs,         \* branches
  Main,         \* the branch the pull request is for
  Objects,      \* git objects
  Chunks,       \* of each, how many chunks it is stored in; 1: in one record
  Needs,        \* of each commit, what a clone of it needs, itself included
  Born,         \* the branches at the start
  Pushes,       \* what clients push: of some references, the commit each is to have
  PullBase,     \* the pull request: the commit it is to be merged into,
  PullHead,     \* the commit to merge,
  MergeCommit,  \* and the commit that merges them
  Batch,        \* objects in one transaction
  MaxRequests,  \* bound: requests of each kind
  MaxFaults,    \* bound: how often the log refuses a write or the process dies
  None          \* no object

Commits == DOMAIN Needs

ASSUME NeedsAssumption ==
  Commits \subseteq Objects /\ \A c \in Commits : c \in Needs[c] /\ Needs[c] \subseteq Objects
ASSUME BornAssumption == Main \in Refs /\ Born \in [Refs -> Commits \cup {None}]
ASSUME PullAssumption == {PullBase, PullHead, MergeCommit} \subseteq Commits /\ None \notin Objects
ASSUME PushesAssumption ==
  \A p \in Pushes : /\ DOMAIN p \subseteq Refs /\ DOMAIN p # {}
                     /\ p \in [DOMAIN p -> Commits \cup {None}]
ASSUME ChunksAssumption == Chunks \in [Objects -> Nat \ {0}] /\ Batch \in Nat \ {0}
ASSUME ObjectsAssumption == IsFiniteSet(Objects)

VARIABLES
  log,        \* forge.git.objects of this repository: the records of each transaction
  canonical,  \* the references, as the command service has them
  was,        \* every value each reference has ever had
  files,      \* the cache's object files: absent, torn or whole
  temp,       \* the temporary file of each object, of which there is one
  refs,       \* the cache's references
  cursor,     \* the cache's place in the log
  slot,       \* the requests
  row,        \* the pull request's row: open, or merged once projected
  merged,     \* the merge event is on its topic
  told,       \* updates a client was told were made
  budget      \* what is left of the bounds

diskVars == <<files, temp, refs, cursor>>
logVars  == <<log, canonical, was, merged>>
vars == <<logVars, diskVars, slot, row, told, budget>>

(***************************************************************************)
(* Frames                                                                  *)
(***************************************************************************)
Records == [oid : Objects, frame : {"whole", "manifest", "chunk"}, n : Nat]

(***************************************************************************)
(* encode_object: one record, or a manifest and its chunks.                *)
(***************************************************************************)
EncodeObject(o) ==
  IF Chunks[o] = 1
  THEN {[oid |-> o, frame |-> "whole", n |-> 1]}
  ELSE {[oid |-> o, frame |-> "manifest", n |-> Chunks[o]]}
         \cup {[oid |-> o, frame |-> "chunk", n |-> i] : i \in 0..(Chunks[o] - 1)}

Encode(objects) == UNION {EncodeObject(o) : o \in objects}

(***************************************************************************)
(* reassemble: every chunk the manifest counts is there.                   *)
(***************************************************************************)
Reassembles(records, m) ==
  \A i \in 0..(m.n - 1) :
    \E r \in records : r.oid = m.oid /\ r.frame = "chunk" /\ r.n = i

(***************************************************************************)
(* What hydrate makes of a stretch of the log: whole objects, and the      *)
(* chunked ones whose parts all arrived in it, from a hash map.            *)
(***************************************************************************)
Pending(records) ==
  {m.oid : m \in {r \in records :
     r.frame = "whole" \/ (r.frame = "manifest" /\ Reassembles(records, r))}}

Between(from, to) == UNION {log[i] : i \in (from + 1)..to}

Stored == Pending(Between(0, Len(log)))

(***************************************************************************)
(* Some order of the objects; git lists them in none.                      *)
(***************************************************************************)
First(objects) == CHOOSE o \in objects : TRUE

(***************************************************************************)
(* Requests                                                                *)
(***************************************************************************)
Kinds == {"fetch", "push", "merge"}
ASSUME BoundsAssumption == MaxRequests \in [Kinds -> Nat] /\ MaxFaults \in Nat

Steps == {"idle", "hydrate", "write", "open", "fill", "rename", "cursor", "refs", "sync",
          "serve", "store", "decide", "migrate", "update"}

(***************************************************************************)
(* The commands of a push: old and new value of each reference it names.   *)
(***************************************************************************)
Values == UNION {[S -> Commits \cup {None}] : S \in SUBSET Refs}
Nothing == [r \in {} |-> None]

Idle == [pc |-> "idle", kind |-> "fetch", old |-> Nothing, new |-> Nothing,
         todo |-> {}, end |-> 0, fd |-> "temp", canon |-> [r \in Refs |-> None],
         names |-> {}]

RequestState ==
  [pc : Steps, kind : Kinds, old : Values, new : Values,
   todo : SUBSET Objects, end : Nat, fd : {"temp", "file"}, canon : [Refs -> Commits \cup {None}],
   names : SUBSET Refs]

TypeOK ==
  /\ log \in Seq(SUBSET Records)
  /\ canonical \in [Refs -> Commits \cup {None}]
  /\ was \subseteq Refs \X (Commits \cup {None})
  /\ files \in [Objects -> {"absent", "torn", "whole"}]
  /\ temp \in [Objects -> {"absent", "torn", "whole"}]
  /\ refs \in [Refs -> Commits \cup {None}]
  /\ cursor \in 0..Len(log)
  /\ slot \in [Slots -> RequestState] /\ \A s \in Slots : slot[s].end <= Len(log)
  /\ row \in {"open", "merged"} /\ merged \in BOOLEAN
  /\ told \subseteq Refs \X (Commits \cup {None})
  /\ budget \in [Kinds \cup {"fault"} -> Nat]

(***************************************************************************)
(* The log holds what the branches and the pull request need; the cache    *)
(* directory is new.                                                       *)
(***************************************************************************)
Init ==
  /\ log = <<Encode(UNION {Needs[c] : c \in {PullBase, PullHead} \cup ({Born[r] : r \in Refs} \ {None})})>>
  /\ canonical = Born
  /\ was = {<<r, Born[r]>> : r \in Refs}
  /\ files = [o \in Objects |-> "absent"] /\ temp = files
  /\ refs = [r \in Refs |-> None]
  /\ cursor = 0
  /\ slot = [s \in Slots |-> Idle]
  /\ row = "open" /\ merged = FALSE
  /\ told = {}
  /\ budget = [k \in Kinds \cup {"fault"} |-> IF k = "fault" THEN MaxFaults ELSE MaxRequests[k]]

At(s, pc) == slot[s].pc = pc
Becomes(s, v) == slot' = [slot EXCEPT ![s] = v]
Goto(s, pc) == Becomes(s, [slot[s] EXCEPT !.pc = pc])
Finish(s) == Becomes(s, Idle)
Spend(k) == budget[k] > 0 /\ budget' = [budget EXCEPT ![k] = @ - 1]

(***************************************************************************)
(* A request arrives.  A push names each of its references once, with the  *)
(* value its client last saw: one the reference has had.                   *)
(***************************************************************************)
Begin(s) ==
  /\ At(s, "idle")
  /\ \E k \in Kinds :
       /\ Spend(k)
       /\ \/ /\ k # "push"
             /\ Becomes(s, [Idle EXCEPT !.pc = "hydrate", !.kind = k])
          \/ /\ k = "push"
             /\ \E p \in Pushes : \E old \in [DOMAIN p -> Commits \cup {None}] :
                  /\ \A r \in DOMAIN p : <<r, old[r]>> \in was /\ old[r] # p[r]
                  /\ Becomes(s, [Idle EXCEPT !.pc = "hydrate", !.kind = k, !.old = old, !.new = p])
  /\ UNCHANGED <<logVars, diskVars, row, told>>
-----------------------------------------------------------------------------
(***************************************************************************)
(* hydrate                                                                 *)
(***************************************************************************)

(***************************************************************************)
(* The cursor file reads as zero while another request rewrites it.        *)
(***************************************************************************)
Cursors == IF \E s \in Slots : At(s, "cursor") THEN {cursor, 0} ELSE {cursor}

(***************************************************************************)
(* replay_to_end: a transaction is seen as a whole.                        *)
(***************************************************************************)
ReplayToEnd(s) ==
  /\ At(s, "hydrate")
  /\ \E from \in Cursors :
       Becomes(s, [slot[s] EXCEPT !.pc = "write", !.end = Len(log),
                     !.todo = Pending(Between(from, Len(log)))])
  /\ UNCHANGED <<logVars, diskVars, row, told, budget>>

(***************************************************************************)
(* loose::write: nothing to do for a file that is there; otherwise open the*)
(* temporary file, fill it, and rename it.  The temporary name holds the   *)
(* process id and nothing else: two requests that write one object share   *)
(* the file, and whoever is second to open it empties it.                  *)
(***************************************************************************)
WriteNext(s) ==
  /\ At(s, "write")
  /\ LET rest == {o \in slot[s].todo : files[o] = "absent"}
     IN  Becomes(s, [slot[s] EXCEPT !.todo = rest, !.pc = IF rest = {} THEN "cursor" ELSE "open"])
  /\ UNCHANGED <<logVars, diskVars, row, told, budget>>

OpenTemp(s) ==
  /\ At(s, "open")
  /\ temp' = [temp EXCEPT ![First(slot[s].todo)] = "torn"]
  /\ Becomes(s, [slot[s] EXCEPT !.pc = "fill", !.fd = "temp"])
  /\ UNCHANGED <<logVars, files, refs, cursor, row, told, budget>>

FillTemp(s) ==
  /\ At(s, "fill")
  /\ LET o == First(slot[s].todo)
     IN  IF slot[s].fd = "temp"
         THEN temp' = [temp EXCEPT ![o] = "whole"] /\ UNCHANGED files
         ELSE files' = [files EXCEPT ![o] = "whole"] /\ UNCHANGED temp
  /\ Goto(s, "rename")
  /\ UNCHANGED <<logVars, refs, cursor, row, told, budget>>

Writes(t, o) == slot[t].pc \in {"fill", "rename"} /\ First(slot[t].todo) = o

(***************************************************************************)
(* The file another request still has open keeps its place under its new   *)
(* name.  With no temporary file left to rename, the request fails.        *)
(***************************************************************************)
RenameTemp(s) ==
  /\ At(s, "rename")
  /\ LET o == First(slot[s].todo)
     IN  IF temp[o] = "absent"
         THEN Finish(s) /\ UNCHANGED diskVars
         ELSE /\ files' = [files EXCEPT ![o] = temp[o]]
              /\ temp' = [temp EXCEPT ![o] = "absent"]
              /\ slot' = [t \in Slots |->
                            IF t = s
                            THEN [slot[s] EXCEPT !.pc = "write", !.todo = @ \ {o}]
                            ELSE IF Writes(t, o) THEN [slot[t] EXCEPT !.fd = "file"] ELSE slot[t]]
              /\ UNCHANGED <<refs, cursor>>
  /\ UNCHANGED <<logVars, row, told, budget>>

SetCursor_ToTheEnd(s) ==
  /\ At(s, "cursor")
  /\ cursor' = Len(log)
  /\ Goto(s, IF slot[s].kind = "merge" THEN "serve" ELSE "refs")
  /\ UNCHANGED <<logVars, files, temp, refs, row, told, budget>>

SetCursor(s) ==
  /\ At(s, "cursor")
  /\ cursor' = slot[s].end
  /\ Goto(s, IF slot[s].kind = "merge" THEN "serve" ELSE "refs")
  /\ UNCHANGED <<logVars, files, temp, refs, row, told, budget>>
-----------------------------------------------------------------------------
(***************************************************************************)
(* prepare, after hydrate, and the git services                            *)
(***************************************************************************)

(***************************************************************************)
(* The canonical references are read once; without any there is nothing to *)
(* mirror.  What to change is decided on the references read at the start. *)
(***************************************************************************)
RefsFor(s) ==
  /\ At(s, "refs")
  /\ IF \A r \in Refs : canonical[r] = None
     THEN Goto(s, "serve")
     ELSE Becomes(s, [slot[s] EXCEPT !.pc = "sync", !.canon = canonical,
                        !.names = {r \in Refs : refs[r] # canonical[r]}])
  /\ UNCHANGED <<logVars, diskVars, row, told, budget>>

(***************************************************************************)
(* sync_refs: one update-ref after the other, deletions last, which git    *)
(* refuses for an object it does not have.                                 *)
(***************************************************************************)
SyncRef(s) ==
  /\ At(s, "sync")
  /\ \/ /\ slot[s].names = {}
        /\ Goto(s, "serve") /\ UNCHANGED refs
     \/ \E r \in slot[s].names :
          LET c == slot[s].canon[r]
          IN  /\ c = None => \A q \in slot[s].names : slot[s].canon[q] = None
              /\ IF c # None /\ files[c] = "absent"
                 THEN Finish(s) /\ UNCHANGED refs
                 ELSE /\ refs' = [refs EXCEPT ![r] = c]
                      /\ Becomes(s, [slot[s] EXCEPT !.names = @ \ {r}])
  /\ UNCHANGED <<logVars, files, temp, cursor, row, told, budget>>

(***************************************************************************)
(* upload-pack, and both advertisements.                                   *)
(***************************************************************************)
Serve(s) ==
  /\ At(s, "serve") /\ slot[s].kind = "fetch"
  /\ Finish(s)
  /\ UNCHANGED <<logVars, diskVars, row, told, budget>>

(***************************************************************************)
(* receive-pack puts the pack in quarantine and runs the hook, which reads *)
(* every object there, and those of the repository with them.  Git passes  *)
(* over an object whose file is torn, or gives up on it.                   *)
(***************************************************************************)
Pushed(new) == {new[r] : r \in DOMAIN new} \ {None}
Needed(new) == UNION {Needs[c] : c \in Pushed(new)}

Quarantined(s) ==
  IF Pushed(slot[s].new) = {} THEN {}
  ELSE {o \in Needed(slot[s].new) : files[o] = "absent"} \cup {o \in Objects : files[o] = "whole"}

ReceivePack_HookIgnored(s) ==
  /\ At(s, "serve") /\ slot[s].kind = "push"
  /\ Goto(s, "migrate")
  /\ UNCHANGED <<logVars, diskVars, row, told, budget>>

ReceivePack(s) ==
  /\ At(s, "serve") /\ slot[s].kind = "push"
  /\ \/ Becomes(s, [slot[s] EXCEPT !.pc = "store", !.todo = Quarantined(s)])
     \/ (\E o \in Objects : files[o] = "torn") /\ Pushed(slot[s].new) # {} /\ Finish(s)
  /\ UNCHANGED <<logVars, diskVars, row, told, budget>>

(***************************************************************************)
(* The web's merge: an open row, whose base is where the cache has the     *)
(* branch; the merge commit and its objects are made in the cache.         *)
(***************************************************************************)
CollectNewObjects_CommitOnly == {MergeCommit}
CollectNewObjects == Needs[MergeCommit] \ (Needs[PullBase] \cup Needs[PullHead])

PerformMerge(s) ==
  /\ At(s, "serve") /\ slot[s].kind = "merge"
  /\ IF row # "open" \/ refs[Main] # PullBase
     THEN Finish(s) /\ UNCHANGED files
     ELSE /\ files' = [o \in Objects |-> IF o \in CollectNewObjects THEN "whole" ELSE files[o]]
          /\ Becomes(s, [slot[s] EXCEPT !.pc = "store", !.todo = CollectNewObjects,
                           !.old = [r \in {Main} |-> PullBase],
                           !.new = [r \in {Main} |-> MergeCommit]])
  /\ UNCHANGED <<logVars, temp, refs, cursor, row, told, budget>>

(***************************************************************************)
(* put_all: a transaction for every batch of objects.                      *)
(***************************************************************************)
Group(objects) ==
  CHOOSE g \in SUBSET objects :
    Cardinality(g) = Batch \/ (g = objects /\ Cardinality(g) < Batch)

PutAll(s) ==
  /\ At(s, "store")
  /\ IF slot[s].todo = {}
     THEN Goto(s, "decide") /\ log' = log
     ELSE LET g == Group(slot[s].todo) IN
            /\ log' = Append(log, Encode(g))
            /\ Becomes(s, [slot[s] EXCEPT !.todo = @ \ g,
                             !.pc = IF g = slot[s].todo THEN "decide" ELSE "store"])
  /\ UNCHANGED <<canonical, was, merged, diskVars, row, told, budget>>

PutFails(s) ==
  /\ At(s, "store")
  /\ Spend("fault")
  /\ Finish(s)
  /\ UNCHANGED <<logVars, diskVars, row, told>>

(***************************************************************************)
(* update_refs and merge_pull: compare-and-swap in the command service of  *)
(* every reference of the push, or of none.  A rejected push goes back     *)
(* through the hook, and git drops the quarantine.                         *)
(***************************************************************************)
Stale(s) == {r \in DOMAIN slot[s].new : canonical[r] # slot[s].old[r]}
Told(new, rs) == {<<r, new[r]>> : r \in rs}

Decide_RejectionsIgnored(s) ==
  LET accepted == DOMAIN slot[s].new \ Stale(s)
  IN  /\ At(s, "decide")
      /\ canonical' = [r \in Refs |-> IF r \in accepted THEN slot[s].new[r] ELSE canonical[r]]
      /\ was' = was \cup Told(slot[s].new, accepted)
      /\ Goto(s, "migrate")
      /\ UNCHANGED <<log, merged, diskVars, row, told, budget>>

Decide(s) ==
  /\ At(s, "decide")
  /\ LET rs == DOMAIN slot[s].new
     IN  IF Stale(s) # {}
         THEN Finish(s) /\ UNCHANGED <<canonical, was, merged, told>>
         ELSE /\ canonical' = [r \in Refs |-> IF r \in rs THEN slot[s].new[r] ELSE canonical[r]]
              /\ was' = was \cup Told(slot[s].new, rs)
              /\ IF slot[s].kind = "push"
                 THEN Goto(s, "migrate") /\ UNCHANGED <<merged, told>>
                 ELSE Finish(s) /\ merged' = TRUE /\ told' = told \cup Told(slot[s].new, rs)
  /\ UNCHANGED <<log, diskVars, row, budget>>

(***************************************************************************)
(* The hook said yes: git moves the quarantined objects in, then each      *)
(* reference for itself, if the cache still has it where the client did.   *)
(* For one that it does not move, the client is told that it failed.       *)
(***************************************************************************)
Migrate(s) ==
  /\ At(s, "migrate")
  /\ files' = [o \in Objects |->
                 IF o \in Needed(slot[s].new) /\ files[o] = "absent" THEN "whole" ELSE files[o]]
  /\ Becomes(s, [slot[s] EXCEPT !.pc = "update", !.names = DOMAIN slot[s].new])
  /\ UNCHANGED <<logVars, temp, refs, cursor, row, told, budget>>

GitUpdate(s) ==
  /\ At(s, "update")
  /\ \E r \in slot[s].names :
       /\ IF refs[r] = slot[s].old[r]
          THEN refs' = [refs EXCEPT ![r] = slot[s].new[r]] /\ told' = told \cup Told(slot[s].new, {r})
          ELSE UNCHANGED <<refs, told>>
       /\ IF slot[s].names = {r} THEN Finish(s)
          ELSE Becomes(s, [slot[s] EXCEPT !.names = @ \ {r}])
  /\ UNCHANGED <<logVars, files, temp, cursor, row, budget>>
-----------------------------------------------------------------------------
ProjectMerge ==
  /\ merged /\ row = "open"
  /\ row' = "merged"
  /\ UNCHANGED <<logVars, diskVars, slot, told, budget>>

(***************************************************************************)
(* The process dies.  Objects and references survive as they are, so do    *)
(* log and canonical references; temporary files are under a name that the *)
(* next process does not use.                                              *)
(***************************************************************************)
Crash ==
  /\ Spend("fault")
  /\ slot' = [s \in Slots |-> Idle]
  /\ temp' = [o \in Objects |-> "absent"]
  /\ UNCHANGED <<logVars, files, refs, cursor, row, told>>

(***************************************************************************)
(* The cache is disposable: between requests it can be thrown away.        *)
(***************************************************************************)
Destroy ==
  /\ Spend("fault")
  /\ \A s \in Slots : At(s, "idle")
  /\ files' = [o \in Objects |-> "absent"] /\ temp' = files'
  /\ refs' = [r \in Refs |-> None]
  /\ cursor' = 0
  /\ UNCHANGED <<logVars, slot, row, told>>

Request(s) ==
  \/ Begin(s)
  \/ ReplayToEnd(s) \/ WriteNext(s) \/ OpenTemp(s) \/ FillTemp(s) \/ RenameTemp(s) \/ SetCursor(s)
  \/ RefsFor(s) \/ SyncRef(s) \/ Serve(s) \/ ReceivePack(s)
  \/ PerformMerge(s)
  \/ PutAll(s) \/ PutFails(s) \/ Decide(s)
  \/ Migrate(s) \/ GitUpdate(s)

Next == (\E s \in Slots : Request(s)) \/ ProjectMerge \/ Crash \/ Destroy

Spec == Init /\ [][Next]_vars
-----------------------------------------------------------------------------
(***************************************************************************)
(* Properties                                                              *)
(***************************************************************************)

(***************************************************************************)
(* The log alone can rebuild every branch: whatever a canonical reference  *)
(* names was stored before it was named, with everything a clone of it     *)
(* needs, by a push or by a merge whose objects were made in the cache.    *)
(***************************************************************************)
RefsResolvable == \A r \in Refs : canonical[r] # None => Needs[canonical[r]] \subseteq Stored

(***************************************************************************)
(* The cursor of the cache never passes an object the cache does not have: *)
(* a later hydration would not look for it again.                          *)
(***************************************************************************)
CursorSafe == \A o \in Pending(Between(0, cursor)) : files[o] # "absent"

(***************************************************************************)
(* The cache never holds a reference, for git to advertise, to an object   *)
(* it lacks, or with a value the log never gave it ("would be advertised   *)
(* to clients as real history").                                           *)
(***************************************************************************)
CacheFollowsLog ==
  \A r \in Refs : refs[r] # None => files[refs[r]] # "absent" /\ <<r, refs[r]>> \in was

(***************************************************************************)
(* A client told that its update was made was told the truth: the command  *)
(* service committed it, and the log has its objects.                      *)
(***************************************************************************)
TruthfulPush ==
  \A u \in told : u \in was /\ (u[2] # None => Needs[u[2]] \subseteq Stored)

(***************************************************************************)
(* "Write to a temporary name and rename, so a reader never sees a partial *)
(* object."                                                                *)
(***************************************************************************)
NeverTorn == \A o \in Objects : files[o] # "torn"
=============================================================================
