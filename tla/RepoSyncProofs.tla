--------------------------- MODULE RepoSyncProofs ---------------------------
(***************************************************************************)
(* What RepoSync promises for any number of repositories, workers,         *)
(* requests, runs and faults.                                              *)
(***************************************************************************)
EXTENDS RepoSync, TLAPS

USE DEF workerVars, diskVars, queueVars, historyVars

Excuses == {"edited", "overtaken", "overlapped", "dropped"}

Stages == {"off", "read", "begin", "bare", "fetch", "checkout", "rev", "ready", "failed"}

LEMMA StagesAre == Stages = Changing \cup {"off", "read", "begin", "bare", "failed"}
BY DEF Stages, Changing

-----------------------------------------------------------------------------
(* Types.                                                                   *)

RowOK == row \in [repo: Config, status: SyncStatus, mirror: BOOLEAN, head: Config]

QueueOK == /\ job \in [Kinds -> {"none", "waiting", "active", "over"}]
           /\ stalls \in [Kinds -> 0..1]

WorkersOK ==
  /\ at \in [Workers -> Stages] /\ kind \in [Workers -> Kinds \cup {None}]
  /\ cfg \in [Workers -> Config] /\ head \in [Workers -> Config]
  /\ \A w \in Workers : at[w] = "off" <=> kind[w] = None

DiskOK == fetched \in Config /\ disk \in Config /\ manifest \in Config

RestOK ==
  /\ req \in [Requests \cup GroupEdits -> {"off", "mark", "enqueue", "clear", "over"}]
  /\ run \in [Runs -> {"off", "passed", "project", "mirror", "over"}]
  /\ faults \in 0..MaxFaults
  /\ mixed \subseteq Workers /\ excuses \subseteq Excuses
  /\ surprised \subseteq Runs /\ shared \subseteq Runs

LEMMA Parts == TypeOK <=> RowOK /\ QueueOK /\ WorkersOK /\ DiskOK /\ RestOK
BY StagesAre DEF TypeOK, RowOK, QueueOK, WorkersOK, DiskOK, RestOK, Excuses

LEMMA PartsNext == TypeOK' <=> RowOK' /\ QueueOK' /\ WorkersOK' /\ DiskOK' /\ RestOK'
BY StagesAre DEF TypeOK, RowOK, QueueOK, WorkersOK, DiskOK, RestOK, Excuses

\* None is a configuration and no kind of job.
LEMMA Constants ==
  /\ None \in Config /\ Repos \subseteq Config
  /\ Kinds = {"light", "force"} /\ None \notin Kinds /\ MaxFaults \in Nat
BY RepoAssumption DEF Config, Kinds

LEMMA TypeInit == Init => TypeOK
BY Parts, Constants DEF Init, RowOK, QueueOK, WorkersOK, DiskOK, RestOK, Stages, SyncStatus,
  Requests

\* A worker goes on with its job.
LEMMA GoesOn ==
  ASSUME WorkersOK, NEW w \in Workers, at[w] # "off", NEW to \in Stages \ {"off"}, Goes(w, to),
         kind' = kind, cfg' \in [Workers -> Config], head' \in [Workers -> Config]
  PROVE  WorkersOK'
BY DEF WorkersOK, Goes

\* It lets go of it.
LEMMA LetsGo ==
  ASSUME WorkersOK, NEW w \in Workers, Leaves(w)
  PROVE  WorkersOK'
BY Constants DEF WorkersOK, Leaves, Stages

LEMMA JobEnds ==
  ASSUME WorkersOK, QueueOK, NEW w \in Workers, at[w] # "off", Ends(w), stalls' = stalls
  PROVE  WorkersOK' /\ QueueOK'
<1>1. WorkersOK'
  BY LetsGo DEF Ends
<1>2. kind[w] \in Kinds
  BY DEF WorkersOK
<1>. QED  BY <1>1, <1>2 DEF Ends, QueueOK

LEMMA TypeRequests ==
  ASSUME TypeOK, NEW q \in Requests \cup GroupEdits,
         \/ \E c \in Config, status \in {"syncing", "uninitialized"} : Update(q, c, status)
         \/ Clear(q) \/ Find(q) \/ Trigger(q) \/ Enqueue(q) \/ BreaksOff(q) \/ GroupEdit(q)
  PROVE  TypeOK'
<1>. USE DEF RowOK, RestOK, SyncStatus, Excuses
<1>1. RowOK /\ QueueOK /\ WorkersOK /\ DiskOK /\ RestOK
  BY Parts
<1>2. CASE \E c \in Config, status \in {"syncing", "uninitialized"} : Update(q, c, status)
  BY <1>1, <1>2, PartsNext, Constants DEF Update, QueueOK, WorkersOK, DiskOK
<1>3. CASE Clear(q)
  BY <1>1, <1>3, PartsNext, Constants DEF Clear, QueueOK, WorkersOK, DiskOK
<1>4. CASE Find(q) \/ Trigger(q)
  BY <1>1, <1>4, PartsNext DEF Find, Trigger, QueueOK, WorkersOK, DiskOK
<1>5. CASE Enqueue(q)
  <2>1. QueueOK'
    BY <1>1, <1>5, Constants DEF Enqueue, Enqueued, QueueOK
  <2>2. excuses' \subseteq Excuses
    <3>1. excuses' \subseteq excuses \cup {"dropped"}
      BY <1>5 DEF Enqueue
    <3>. QED  BY <1>1, <3>1
  <2>3. RestOK'
    BY <1>1, <1>5, <2>2 DEF Enqueue
  <2>. QED  BY <1>1, <1>5, <2>1, <2>3, PartsNext DEF Enqueue, WorkersOK, DiskOK
<1>7. CASE BreaksOff(q)
  BY <1>1, <1>7, PartsNext, Constants DEF BreaksOff, QueueOK, WorkersOK, DiskOK
<1>6. CASE GroupEdit(q)
  BY <1>1, <1>6, PartsNext, Constants DEF GroupEdit, QueueOK, WorkersOK, DiskOK
<1>. QED  BY <1>2, <1>3, <1>4, <1>5, <1>6, <1>7

LEMMA TypeWorkers ==
  ASSUME TypeOK, NEW w \in Workers,
         \/ \E k \in Kinds : TakeJob(w, k)
         \/ Refresh(w) \/ Fails(w) \/ Throws(w) \/ Crash(w)
  PROVE  TypeOK'
<1>1. RowOK /\ QueueOK /\ WorkersOK /\ DiskOK /\ RestOK
  BY Parts
<1>2. CASE \E k \in Kinds : TakeJob(w, k)
  <2>1. QueueOK'
    BY <1>1, <1>2 DEF TakeJob, QueueOK
  <2>2. WorkersOK'
    BY <1>1, <1>2, Constants DEF TakeJob, Goes, WorkersOK, Stages
  <2>. QED  BY <1>1, <1>2, <2>1, <2>2, PartsNext DEF TakeJob, RowOK, DiskOK, RestOK
<1>3. CASE Read(w)
  <2>1. cfg' \in [Workers -> Config] /\ DiskOK'
    BY <1>1, <1>3, Constants DEF Read, WorkersOK, RowOK, DiskOK
  <2>2. WorkersOK'
    BY <1>1, <1>3, <2>1, GoesOn DEF Read, WorkersOK, Stages
  <2>. QED  BY <1>1, <1>3, <2>1, <2>2, PartsNext DEF Read, RowOK, QueueOK, RestOK
<1>4. CASE PersistBare(w)
  <2>1. WorkersOK' /\ QueueOK'
    BY <1>1, <1>4, JobEnds DEF PersistBare
  <2>. QED  BY <1>1, <1>4, <2>1, PartsNext, Constants
            DEF PersistBare, RowOK, SyncStatus, DiskOK, RestOK
<1>5. CASE Begin(w)
  <2>1. WorkersOK'
    BY <1>1, <1>5, GoesOn DEF Begin, WorkersOK, Stages
  <2>2. RestOK'
    BY <1>1, <1>5 DEF Begin, RestOK, Others
  <2>. QED  BY <1>1, <1>5, <2>1, <2>2, PartsNext DEF Begin, RowOK, SyncStatus, QueueOK, DiskOK
<1>6. CASE Fetch(w)
  <2>1. WorkersOK'
    BY <1>1, <1>6, GoesOn DEF Fetch, WorkersOK, Stages
  <2>. QED  BY <1>1, <1>6, <2>1, PartsNext DEF Fetch, RowOK, QueueOK, WorkersOK, DiskOK, RestOK
<1>7. CASE Checkout(w)
  <2>1. WorkersOK'
    BY <1>1, <1>7, GoesOn DEF Checkout, WorkersOK, Stages
  <2>. QED  BY <1>1, <1>7, <2>1, PartsNext DEF Checkout, RowOK, QueueOK, DiskOK, RestOK
<1>8. CASE RevParse(w)
  <2>1. head' \in [Workers -> Config]
    BY <1>1, <1>8 DEF RevParse, WorkersOK, DiskOK
  <2>2. WorkersOK'
    BY <1>1, <1>8, <2>1, GoesOn DEF RevParse, WorkersOK, Stages
  <2>. QED  BY <1>1, <1>8, <2>2, PartsNext DEF RevParse, RowOK, QueueOK, DiskOK, RestOK
<1>9. CASE Persist(w)
  <2>1. WorkersOK' /\ QueueOK'
    BY <1>1, <1>9, JobEnds DEF Persist
  <2>2. RowOK'
    BY <1>1, <1>9 DEF Persist, RowOK, SyncStatus, WorkersOK
  <2>3. RestOK'
    BY <1>1, <1>9 DEF Persist, RestOK, Excuses
  <2>. QED  BY <1>1, <1>9, <2>1, <2>2, <2>3, PartsNext DEF Persist, DiskOK
<1>10. CASE PersistError(w)
  <2>1. WorkersOK' /\ QueueOK'
    BY <1>1, <1>10, JobEnds DEF PersistError
  <2>2. RowOK'
    BY <1>1, <1>10 DEF PersistError, RowOK, SyncStatus, WorkersOK
  <2>. QED  BY <1>1, <1>10, <2>1, <2>2, PartsNext DEF PersistError, DiskOK, RestOK
<1>11. CASE Fails(w)
  <2>1. head' \in [Workers -> Config] /\ at[w] # "off"
    BY <1>1, <1>11 DEF Fails, WorkersOK, DiskOK, Changing
  <2>2. WorkersOK'
    BY <1>1, <1>11, <2>1, GoesOn DEF Fails, WorkersOK, Stages
  <2>. QED  BY <1>1, <1>11, <2>2, PartsNext, Constants DEF Fails, RowOK, QueueOK, DiskOK, RestOK
<1>12. CASE Throws(w)
  <2>1. WorkersOK' /\ QueueOK'
    BY <1>1, <1>12, JobEnds DEF Throws
  <2>. QED  BY <1>1, <1>12, <2>1, PartsNext, Constants DEF Throws, RowOK, DiskOK, RestOK, Excuses
<1>13. CASE Crash(w)
  <2>1. WorkersOK'
    BY <1>1, <1>13, LetsGo DEF Crash
  <2>2. kind[w] \in Kinds
    BY <1>1, <1>13 DEF Crash, WorkersOK
  <2>3. QueueOK'
    BY <1>1, <1>13, <2>2 DEF Crash, QueueOK
  <2>. QED  BY <1>1, <1>13, <2>1, <2>3, PartsNext, Constants
            DEF Crash, RowOK, DiskOK, RestOK, Excuses
<1>. QED  BY <1>2, <1>3, <1>4, <1>5, <1>6, <1>7, <1>8, <1>9, <1>10, <1>11, <1>12, <1>13 DEF Refresh

LEMMA TypeRuns ==
  ASSUME TypeOK, NEW r \in Runs, Gate(r) \/ Start(r)
  PROVE  TypeOK'
<1>1. RowOK /\ QueueOK /\ WorkersOK /\ DiskOK /\ RestOK
  BY Parts
<1>2. CASE Gate(r)
  BY <1>1, <1>2, PartsNext DEF Gate, RowOK, QueueOK, WorkersOK, DiskOK, RestOK
<1>3. CASE Start(r)
  BY <1>1, <1>3, PartsNext DEF Start, RowOK, QueueOK, WorkersOK, DiskOK, RestOK
<1>. QED  BY <1>2, <1>3

LEMMA TypeStep ==
  ASSUME TypeOK, [Next]_vars
  PROVE  TypeOK'
<1>1. CASE UNCHANGED vars
  BY <1>1, Parts, PartsNext DEF vars, RowOK, QueueOK, WorkersOK, DiskOK, RestOK
<1>2. CASE Next
  BY <1>2, TypeRequests, TypeWorkers, TypeRuns DEF Next
<1>. QED  BY <1>1, <1>2

\* Every column, job and program counter keeps its type, and a worker is at work
\* exactly while it has a job, under every failure, crash and redelivery.
\* (repo-sync.service.ts:90-217, repo-sync-queue.service.ts:10-16)
THEOREM RepoTypeCorrect == Spec => []TypeOK
<1>1. TypeOK /\ [Next]_vars => TypeOK'
  BY TypeStep
<1>. QED  BY <1>1, TypeInit, PTL DEF Spec

-----------------------------------------------------------------------------
(* A ready row tells the truth.                                             *)

Mirroring == Changing \cup {"failed"}

\* Of two refreshes at one mirror both are marked.
MetMixed ==
  \A v, w \in Workers :
    v # w /\ at[v] \in Mirroring /\ at[w] \in Mirroring => w \in mixed

\* A refresh that met no other finds in the mirror what it put there.
AloneSeesItsOwn ==
  \A w \in Workers \ mixed :
    /\ at[w] \in {"checkout", "rev", "ready"} => fetched = cfg[w]
    /\ at[w] \in {"rev", "ready"} => disk = cfg[w]
    /\ at[w] = "ready" => head[w] = disk

ReadyInv == TypeOK /\ MetMixed /\ AloneSeesItsOwn /\ ReadyIsOnDisk /\ ReadyIsCurrent

\* A step that leaves the mirror, its refreshes and their marks alone, and does not
\* make the row ready; the repository changes under a ready row only with an excuse.
LEMMA Quiet ==
  ASSUME ReadyInv, UNCHANGED <<at, cfg, head, fetched, disk, mixed>>,
         excuses \subseteq excuses',
         row'.status = "ready" =>
           \/ row' = row
           \/ row'.head = row.head /\ row.status = "ready" /\ "edited" \in excuses'
  PROVE  MetMixed' /\ AloneSeesItsOwn' /\ ReadyIsOnDisk' /\ ReadyIsCurrent'
<1>1. MetMixed' /\ AloneSeesItsOwn'
  BY DEF ReadyInv, MetMixed, AloneSeesItsOwn
<1>2. ReadyIsOnDisk'
  BY DEF ReadyInv, ReadyIsOnDisk
<1>3. ReadyIsCurrent'
  BY DEF ReadyInv, ReadyIsCurrent
<1>. QED  BY <1>1, <1>2, <1>3

\* What a worker's step does to at.
Walks(w, to) == at' = [at EXCEPT ![w] = to]

LEMMA Walked ==
  ASSUME TypeOK, NEW w \in Workers, NEW to, Walks(w, to)
  PROVE  at'[w] = to /\ \A v \in Workers \ {w} : at'[v] = at[v]
BY Parts DEF WorkersOK, Walks

LEMMA LeavesWalks ==
  ASSUME TypeOK, NEW w \in Workers, Leaves(w)
  PROVE  /\ Walks(w, "off")
         /\ \A v \in Workers \ {w} : cfg'[v] = cfg[v] /\ head'[v] = head[v]
BY Parts DEF WorkersOK, Leaves, Walks

\* No other worker is at the mirror with one that is not marked.
LEMMA AloneIsAlone ==
  ASSUME MetMixed, NEW w \in Workers, at[w] \in Mirroring
  PROVE  /\ w \notin mixed => \A v \in Workers \ {w} : at[v] \notin Mirroring
         /\ \A v \in Workers \ {w} : at[v] \in Mirroring => v \in mixed
BY DEF MetMixed

\* A worker that does not come to the mirror by its step leaves the marks right.
LEMMA MarksKept ==
  ASSUME ReadyInv, NEW w \in Workers, NEW to, Walks(w, to), mixed' = mixed,
         to \in Mirroring => at[w] \in Mirroring
  PROVE  MetMixed'
<1>1. at'[w] = to /\ \A v \in Workers \ {w} : at'[v] = at[v]
  BY Walked DEF ReadyInv
<1>2. \A v \in Workers : at'[v] \in Mirroring => at[v] \in Mirroring
  BY <1>1
<1>. QED  BY <1>2 DEF ReadyInv, MetMixed

\* One that comes nowhere near it leaves the mirror, and a row that is ready.
LEMMA AwayKept ==
  ASSUME ReadyInv, NEW w \in Workers, NEW to, Walks(w, to), mixed' = mixed,
         to \notin Changing, to \in Mirroring => at[w] \in Mirroring,
         \A v \in Workers \ {w} : cfg'[v] = cfg[v] /\ head'[v] = head[v],
         UNCHANGED <<fetched, disk>>, excuses \subseteq excuses',
         row'.status = "ready" => row' = row
  PROVE  MetMixed' /\ AloneSeesItsOwn' /\ ReadyIsOnDisk' /\ ReadyIsCurrent'
<1>1. at'[w] = to /\ \A v \in Workers \ {w} : at'[v] = at[v]
  BY Walked DEF ReadyInv
<1>2. AloneSeesItsOwn'
  BY <1>1 DEF ReadyInv, AloneSeesItsOwn, Changing
<1>3. ReadyIsOnDisk'
  BY <1>1 DEF ReadyInv, ReadyIsOnDisk
<1>4. ReadyIsCurrent'
  BY DEF ReadyInv, ReadyIsCurrent
<1>. QED  BY <1>2, <1>3, <1>4, MarksKept

\* A worker that goes on at the mirror finds a row that is not ready, or one that
\* overlapping refreshes left.
LEMMA AtMirrorKept ==
  ASSUME ReadyInv, NEW w \in Workers, at[w] \in Changing, row' = row, excuses' = excuses
  PROVE  ReadyIsOnDisk' /\ ReadyIsCurrent'
<1>1. row.status = "ready" => "overlapped" \in excuses
  BY DEF ReadyInv, ReadyIsOnDisk
<1>. QED  BY <1>1 DEF ReadyInv, ReadyIsOnDisk, ReadyIsCurrent

LEMMA ReadyWorkers ==
  ASSUME ReadyInv, NEW w \in Workers,
         \/ \E k \in Kinds : TakeJob(w, k)
         \/ Refresh(w) \/ Fails(w) \/ Throws(w) \/ Crash(w)
  PROVE  MetMixed' /\ AloneSeesItsOwn' /\ ReadyIsOnDisk' /\ ReadyIsCurrent'
<1>. DEFINE Goal == MetMixed' /\ AloneSeesItsOwn' /\ ReadyIsOnDisk' /\ ReadyIsCurrent'
<1>1. TypeOK /\ WorkersOK /\ RowOK
  BY Parts DEF ReadyInv
<1>2. CASE \E k \in Kinds : TakeJob(w, k)
  <2>1. Walks(w, "read")
    BY <1>2 DEF TakeJob, Goes, Walks
  <2>. QED  BY <1>2, <2>1, AwayKept DEF TakeJob, Changing, Mirroring
<1>3. CASE Read(w)
  <2>1. PICK to \in {"bare", "begin"} : Walks(w, to)
    BY <1>3 DEF Read, Goes, Walks
  <2>2. \A v \in Workers \ {w} : cfg'[v] = cfg[v] /\ head'[v] = head[v]
    BY <1>1, <1>3 DEF Read, WorkersOK
  <2>. QED  BY <1>3, <2>1, <2>2, AwayKept DEF Read, Changing, Mirroring
<1>4. CASE PersistBare(w) \/ PersistError(w)
  <2>1. Leaves(w) /\ row'.status # "ready"
    BY <1>1, <1>4 DEF PersistBare, PersistError, Ends, RowOK
  <2>. QED  BY <1>1, <1>4, <2>1, LeavesWalks, AwayKept
            DEF PersistBare, PersistError, Changing, Mirroring
<1>5. CASE Throws(w) \/ Crash(w)
  <2>1. Leaves(w)
    BY <1>5 DEF Throws, Crash, Ends
  <2>. QED  BY <1>1, <1>5, <2>1, LeavesWalks, AwayKept DEF Throws, Crash, Changing, Mirroring
<1>6. CASE Fails(w)
  <2>1. Walks(w, "failed") /\ at[w] \in Mirroring
    BY <1>6 DEF Fails, Goes, Walks, Mirroring
  <2>2. \A v \in Workers \ {w} : cfg'[v] = cfg[v] /\ head'[v] = head[v]
    BY <1>1, <1>6 DEF Fails, WorkersOK
  <2>. QED  BY <1>6, <2>1, <2>2, AwayKept DEF Fails, Changing
<1>7. CASE Begin(w)
  <2>1. at'[w] = "fetch" /\ \A v \in Workers \ {w} : at'[v] = at[v]
    BY <1>1, <1>7, Walked DEF Begin, Goes, Walks
  <2>2. \A v \in Workers \ {w} : v \in mixed => v \in mixed'
    BY <1>7 DEF Begin
  <2>3. \A v \in Workers \ {w} : at[v] \in Mirroring => v \in mixed' /\ w \in mixed'
    <3>1. \A v \in Workers \ {w} : at[v] \in Mirroring => v \in Others(w)
      BY DEF Others, Mirroring
    <3>. QED  BY <1>7, <3>1 DEF Begin
  <2>4. MetMixed'
    BY <2>1, <2>2, <2>3 DEF ReadyInv, MetMixed
  <2>5. AloneSeesItsOwn'
    BY <1>7, <2>1, <2>2 DEF Begin, ReadyInv, AloneSeesItsOwn
  <2>6. row'.status # "ready"
    BY <1>1, <1>7 DEF Begin, RowOK
  <2>. QED  BY <2>4, <2>5, <2>6 DEF ReadyIsOnDisk, ReadyIsCurrent
<1>8. CASE Fetch(w)
  <2>1. at'[w] = "checkout" /\ (\A v \in Workers \ {w} : at'[v] = at[v]) /\ MetMixed'
    BY <1>1, <1>8, Walked, MarksKept DEF Fetch, Goes, Walks, Mirroring, Changing
  <2>2. \A v \in Workers \ {w} : v \notin mixed => at[v] \notin Mirroring
    BY <1>8, AloneIsAlone DEF Fetch, ReadyInv, Mirroring, Changing
  <2>3. AloneSeesItsOwn'
    BY <1>8, <2>1, <2>2 DEF Fetch, AloneSeesItsOwn, Mirroring, Changing
  <2>. QED  BY <1>8, <2>1, <2>3, AtMirrorKept DEF Fetch, Changing
<1>9. CASE Checkout(w)
  <2>1. at'[w] = "rev" /\ (\A v \in Workers \ {w} : at'[v] = at[v]) /\ MetMixed'
    BY <1>1, <1>9, Walked, MarksKept DEF Checkout, Goes, Walks, Mirroring, Changing
  <2>2. \A v \in Workers \ {w} : v \notin mixed => at[v] \notin Mirroring
    BY <1>9, AloneIsAlone DEF Checkout, ReadyInv, Mirroring, Changing
  <2>3. AloneSeesItsOwn'
    BY <1>9, <2>1, <2>2 DEF Checkout, ReadyInv, AloneSeesItsOwn, Mirroring, Changing
  <2>. QED  BY <1>9, <2>1, <2>3, AtMirrorKept DEF Checkout, Changing
<1>10. CASE RevParse(w)
  <2>1. at'[w] = "ready" /\ (\A v \in Workers \ {w} : at'[v] = at[v]) /\ MetMixed'
    BY <1>1, <1>10, Walked, MarksKept DEF RevParse, Goes, Walks, Mirroring, Changing
  <2>2. head'[w] = disk /\ \A v \in Workers \ {w} : head'[v] = head[v]
    BY <1>1, <1>10 DEF RevParse, WorkersOK
  <2>3. AloneSeesItsOwn'
    BY <1>10, <2>1, <2>2 DEF RevParse, ReadyInv, AloneSeesItsOwn
  <2>. QED  BY <1>10, <2>1, <2>3, AtMirrorKept DEF RevParse, Changing
<1>11. CASE Persist(w)
  <2>1. Leaves(w) /\ at[w] = "ready"
    BY <1>11 DEF Persist, Ends
  <2>2. at'[w] = "off" /\ \A v \in Workers \ {w} : at'[v] = at[v]
    BY <1>1, <2>1, LeavesWalks, Walked
  <2>3. MetMixed'
    BY <1>1, <1>11, <2>1, LeavesWalks, MarksKept DEF Persist, Mirroring, Changing
  <2>4. AloneSeesItsOwn'
    BY <1>1, <1>11, <2>1, <2>2, LeavesWalks DEF Persist, ReadyInv, AloneSeesItsOwn
  <2>5. row'.head = head[w] /\ row'.repo = row.repo /\ row'.mirror
    BY <1>1, <1>11 DEF Persist, RowOK
  <2>6. CASE w \in mixed
    <3>1. "overlapped" \in excuses'
      BY <1>11, <2>6 DEF Persist
    <3>. QED  BY <2>3, <2>4, <3>1 DEF ReadyIsOnDisk, ReadyIsCurrent
  <2>7. CASE w \notin mixed
    <3>1. \A v \in Workers : at'[v] \notin Changing
      BY <2>1, <2>2, <2>7, AloneIsAlone DEF ReadyInv, Mirroring, Changing
    <3>2. head[w] = disk /\ disk = cfg[w] /\ disk' = disk
      BY <1>11, <2>1, <2>7 DEF Persist, ReadyInv, AloneSeesItsOwn
    <3>3. excuses' \subseteq {"dropped"} => cfg[w] = row.repo
      BY <1>11 DEF Persist
    <3>4. ReadyIsOnDisk'
      BY <2>5, <3>1, <3>2 DEF ReadyIsOnDisk
    <3>5. ReadyIsCurrent'
      BY <2>5, <3>2, <3>3 DEF ReadyIsCurrent
    <3>. QED  BY <2>3, <2>4, <3>4, <3>5
  <2>. QED  BY <2>6, <2>7
<1>. QED  BY <1>2, <1>3, <1>4, <1>5, <1>6, <1>7, <1>8, <1>9, <1>10, <1>11 DEF Refresh

LEMMA ReadyRequests ==
  ASSUME ReadyInv, NEW q \in Requests \cup GroupEdits,
         \/ \E c \in Config, status \in {"syncing", "uninitialized"} : Update(q, c, status)
         \/ Clear(q) \/ Find(q) \/ Trigger(q) \/ Enqueue(q) \/ BreaksOff(q) \/ GroupEdit(q)
  PROVE  MetMixed' /\ AloneSeesItsOwn' /\ ReadyIsOnDisk' /\ ReadyIsCurrent'
<1>1. RowOK
  BY Parts DEF ReadyInv
<1>2. CASE \E c \in Config, status \in {"syncing", "uninitialized"} : Update(q, c, status)
  <2>1. row'.status # "ready"
    BY <1>2 DEF Update
  <2>. QED  BY <1>2, <2>1, Quiet DEF Update
<1>3. CASE Clear(q) \/ Trigger(q)
  <2>1. row'.status # "ready"
    BY <1>1, <1>3 DEF Clear, Trigger, RowOK
  <2>. QED  BY <1>3, <2>1, Quiet DEF Clear, Trigger
<1>4. CASE Find(q) \/ Enqueue(q) \/ BreaksOff(q)
  <2>1. excuses \subseteq excuses'
    BY <1>4 DEF Find, Enqueue, BreaksOff
  <2>. QED  BY <1>4, <2>1, Quiet DEF Find, Enqueue, BreaksOff
<1>5. CASE GroupEdit(q)
  <2>1. row'.head = row.head /\ row'.status = row.status
    BY <1>1, <1>5 DEF GroupEdit, RowOK
  <2>. QED  BY <1>5, <2>1, Quiet DEF GroupEdit
<1>. QED  BY <1>2, <1>3, <1>4, <1>5

LEMMA ReadyStep ==
  ASSUME ReadyInv, [Next]_vars
  PROVE  ReadyInv'
<1>1. TypeOK'
  BY TypeStep DEF ReadyInv
<1>2. CASE UNCHANGED vars
  BY <1>1, <1>2, Quiet DEF vars, ReadyInv
<1>3. CASE \E r \in Runs : Gate(r) \/ Start(r)
  BY <1>1, <1>3, Quiet DEF Gate, Start, ReadyInv
<1>4. CASE Next
  BY <1>1, <1>3, <1>4, ReadyRequests, ReadyWorkers DEF Next, ReadyInv
<1>. QED  BY <1>2, <1>4

LEMMA ReadyInit == Init => ReadyInv
<1>. SUFFICES ASSUME Init PROVE ReadyInv
  OBVIOUS
<1>1. \A w \in Workers : at[w] = "off"
  BY DEF Init
<1>2. row.status # "ready"
  BY DEF Init
<1>. QED  BY <1>1, <1>2, TypeInit
          DEF ReadyInv, MetMixed, AloneSeesItsOwn, ReadyIsOnDisk, ReadyIsCurrent, Mirroring, Changing

LEMMA ReadyAlways == Spec => []ReadyInv
<1>1. ReadyInv /\ [Next]_vars => ReadyInv'
  BY ReadyStep
<1>. QED  BY <1>1, ReadyInit, PTL DEF Spec

\* A ready row describes the configured repository, whatever fails, crashes or is
\* delivered again, but for the three causes of ReadyIsCurrent.
\* (environment.service.ts:72-108, repo-sync.service.ts:114-217)
THEOREM ReadyRowsAreCurrent == Spec => []ReadyIsCurrent
<1>1. ReadyInv => ReadyIsCurrent
  BY DEF ReadyInv
<1>. QED  BY <1>1, ReadyAlways, PTL

\* A ready row tells what is checked out, and nobody is changing it, unless two
\* processes overlapped. (repo-sync.service.ts:135-193)
THEOREM ReadyRowsAreOnDisk == Spec => []ReadyIsOnDisk
<1>1. ReadyInv => ReadyIsOnDisk
  BY DEF ReadyInv
<1>. QED  BY <1>1, ReadyAlways, PTL

\* No run starts in a mirror that is being changed, unless overlapping refreshes
\* left the row ready. (agent-run.processor.ts:51-69)
THEOREM RunsStartUndisturbed == Spec => []StartsUndisturbed
<1>1. Init => StartsUndisturbed
  BY DEF Init, StartsUndisturbed
<1>2. ReadyInv /\ StartsUndisturbed /\ [Next]_vars => StartsUndisturbed'
  <2>. SUFFICES ASSUME ReadyInv, StartsUndisturbed, [Next]_vars PROVE StartsUndisturbed'
    OBVIOUS
  <2>1. CASE UNCHANGED <<surprised, shared>>
    BY <2>1 DEF StartsUndisturbed
  <2>2. ASSUME NEW r \in Runs, Start(r) PROVE StartsUndisturbed'
    <3>1. ASSUME run'[r] = "mirror", \E w \in Workers : at[w] \in {"fetch", "checkout"}
          PROVE  "overlapped" \in excuses
      <4>1. row.status = "ready"
        BY <2>2, <3>1, Parts DEF Start, ReadyInv, RestOK
      <4>. QED  BY <3>1, <4>1 DEF ReadyInv, ReadyIsOnDisk, Changing
    <3>. QED  BY <2>2, <3>1 DEF Start, StartsUndisturbed
  <2>3. CASE UNCHANGED vars
    BY <2>1, <2>3 DEF vars
  <2>4. CASE Next
    BY <2>1, <2>2, <2>4 DEF Next, Update, Clear, Find, Trigger, Enqueue, BreaksOff, GroupEdit,
      TakeJob, Refresh,
      Read, PersistBare, Begin, Fetch, Checkout, RevParse, Persist, PersistError, Fails,
      Throws, Crash, Gate
  <2>. QED  BY <2>3, <2>4
<1>. QED  BY <1>1, <1>2, ReadyAlways, PTL DEF Spec
=============================================================================
