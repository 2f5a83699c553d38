------------------------------- MODULE RepoSync -------------------------------
(***************************************************************************)
(* The repository mirror of one environment: the row that says which       *)
(* repository is configured and whether the mirror is ready, the queue of  *)
(* refreshes, the workers that carry them out, and the runs that execute   *)
(* in the mirror.                                                          *)
(*                                                                         *)
(* The queue knows a job by environment and kind.  No option removes a     *)
(* job that is over, and adding one whose id is known does nothing, so     *)
(* each of the two kinds is carried out once in the life of an             *)
(* environment.  A worker process takes one job at a time; the map of      *)
(* refreshes in flight is its own, so only two processes can overlap.      *)
(***************************************************************************)
EXTENDS Naturals, FiniteSets

CONSTANTS
  Repos,      \* repositories, with branch and credential, an environment can have
  None,
  Workers,    \* worker processes on the shared mirror root
  Updates,    \* PATCH api/environments/:id requests
  Triggers,   \* POST api/environments/:id/repo-sync requests
  GroupEdits, \* updateActiveConfig calls of the group's configuration page
  Runs,       \* jobs of the agent-run processor
  MaxFaults   \* bound: git or Postgres failures and worker crashes in one behaviour

ASSUME RepoAssumption ==
  /\ None \notin Repos \cup {"light", "force"}
  /\ Updates \cap Triggers = {} /\ "create" \notin Updates \cup Triggers \cup GroupEdits
  /\ MaxFaults \in Nat

VARIABLES
  row,     \* the environment's repository columns
  job,     \* BullMQ's state of the job of each kind
  stalls,  \* how often it was found stalled
  at,      \* per worker: where its refresh is
  kind,    \* per worker: the job it has
  cfg,     \* per worker: the repository it read from the row
  head,    \* per worker: the head it is going to persist
  fetched, \* what origin holds in the mirror
  disk,    \* what is checked out
  manifest,\* headRef of manifest.json
  req,     \* per request: where it is
  run,     \* per run: where it is
  faults,
  mixed,   \* history: workers whose refresh met another's
  excuses, \* history: what went on since a ready row was last beyond doubt
  surprised,\* history: runs that started in the mirror while it was refreshed
  shared   \* history: runs that started on a row that overlapping refreshes left ready

workerVars == <<at, kind, cfg, head>>
diskVars   == <<fetched, disk, manifest>>
queueVars  == <<job, stalls>>
historyVars == <<mixed, excuses, surprised, shared>>
vars == <<row, queueVars, workerVars, diskVars, req, run, faults, historyVars>>

Kinds      == {"light", "force"}
Requests   == Updates \cup Triggers \cup {"create"}
Config     == Repos \cup {None}
SyncStatus == {"uninitialized", "syncing", "ready", "error"}
Changing   == {"fetch", "checkout", "rev", "ready"}

TypeOK ==
  /\ row \in [repo: Config, status: SyncStatus, mirror: BOOLEAN, head: Config]
  /\ job \in [Kinds -> {"none", "waiting", "active", "over"}]
  /\ stalls \in [Kinds -> 0..1]
  /\ at \in [Workers -> Changing \cup {"off", "read", "begin", "bare", "failed"}]
  /\ kind \in [Workers -> Kinds \cup {None}]
  /\ cfg \in [Workers -> Config] /\ head \in [Workers -> Config]
  /\ fetched \in Config /\ disk \in Config /\ manifest \in Config
  /\ req \in [Requests \cup GroupEdits -> {"off", "mark", "enqueue", "clear", "over"}]
  /\ run \in [Runs -> {"off", "passed", "project", "mirror", "over"}]
  /\ faults \in 0..MaxFaults
  /\ mixed \subseteq Workers
  /\ excuses \subseteq {"edited", "overtaken", "overlapped", "dropped"}
  /\ surprised \subseteq Runs /\ shared \subseteq Runs
  /\ \A w \in Workers : at[w] = "off" <=> kind[w] = None

\* EnvironmentService.create has written the row, with or without a repository; it
\* has yet to queue the light job of an environment with one.
Init ==
  /\ \E c \in Config :
       /\ row = [repo |-> c, status |-> IF c = None THEN "uninitialized" ELSE "syncing",
                 mirror |-> FALSE, head |-> None]
       /\ req = [q \in Requests \cup GroupEdits |->
                   IF q # "create" THEN "off" ELSE IF c = None THEN "over" ELSE "enqueue"]
  /\ job = [k \in Kinds |-> "none"]
  /\ stalls = [k \in Kinds |-> 0]
  /\ at = [w \in Workers |-> "off"] /\ kind = [w \in Workers |-> None]
  /\ cfg = [w \in Workers |-> None] /\ head = [w \in Workers |-> None]
  /\ fetched = None /\ disk = None /\ manifest = None
  /\ run = [r \in Runs |-> "off"]
  /\ faults = 0 /\ mixed = {} /\ excuses = {} /\ surprised = {} /\ shared = {}

-----------------------------------------------------------------------------
(* The management plane.                                                    *)

\* enqueueSync: a job whose id the queue knows is not added again.
Enqueued(k) == IF job[k] = "none" THEN [job EXCEPT ![k] = "waiting"] ELSE job

\* (A mistake in the next definition: the state of the old repository is kept.)
UpdateBug(q, c, status) ==
  /\ q \in Updates /\ req[q] = "off"
  /\ row' = [row EXCEPT !.repo = c]
  /\ req' = [req EXCEPT ![q] = IF c = None THEN "clear" ELSE "enqueue"]
  /\ UNCHANGED <<queueVars, workerVars, diskVars, run, faults, historyVars>>

\* The first write of update with a repository, a branch or a credential among its
\* data: everything known of the old one goes.  Only an empty repoUrl makes the row
\* uninitialized at once; null, or a branch or a credential for an environment
\* without a repository, makes it syncing for the time being.
Update(q, c, status) ==
  /\ q \in Updates /\ req[q] = "off"
  /\ status = "syncing" \/ c = None
  /\ row' = [repo |-> c, status |-> status, mirror |-> FALSE, head |-> None]
  /\ req' = [req EXCEPT ![q] = IF c = None THEN "clear" ELSE "enqueue"]
  /\ UNCHANGED <<queueVars, workerVars, diskVars, run, faults, historyVars>>

\* update that found no repository in what it wrote writes the row once more.
Clear(q) ==
  /\ req[q] = "clear"
  /\ row' = [row EXCEPT !.status = "uninitialized", !.mirror = FALSE, !.head = None]
  /\ req' = [req EXCEPT ![q] = "over"]
  /\ UNCHANGED <<queueVars, workerVars, diskVars, run, faults, historyVars>>

\* triggerRepoSync reads the environment and refuses one without a repository.
Find(q) ==
  /\ q \in Triggers /\ req[q] = "off" /\ row.repo # None
  /\ req' = [req EXCEPT ![q] = "mark"]
  /\ UNCHANGED <<row, queueVars, workerVars, diskVars, run, faults, historyVars>>

\* The row is syncing before the job is queued, and whether or not it is.
Trigger(q) ==
  /\ req[q] = "mark"
  /\ row' = [row EXCEPT !.status = "syncing"]
  /\ req' = [req EXCEPT ![q] = "enqueue"]
  /\ UNCHANGED <<queueVars, workerVars, diskVars, run, faults, historyVars>>

\* The last await of create, update or triggerRepoSync: the queue may know the
\* job's id for one that is under way or over.
Enqueue(q) ==
  /\ req[q] = "enqueue"
  /\ req' = [req EXCEPT ![q] = "over"]
  /\ \E k \in IF q \in Triggers THEN Kinds ELSE {"light"} :
       /\ job' = Enqueued(k)
       /\ excuses' = IF job[k] \in {"active", "over"} THEN excuses \cup {"dropped"} ELSE excuses
  /\ UNCHANGED <<row, stalls, workerVars, diskVars, run, faults, mixed, surprised, shared>>

\* The queue or Postgres is out of reach for a request that has written the row
\* once, or its process dies: the row stays as it is.
BreaksOff(q) ==
  /\ req[q] \in {"enqueue", "clear"} /\ faults < MaxFaults
  /\ faults' = faults + 1
  /\ req' = [req EXCEPT ![q] = "over"]
  /\ excuses' = excuses \cup {"dropped"}
  /\ UNCHANGED <<row, queueVars, workerVars, diskVars, run, mixed, surprised, shared>>

\* updateActiveConfig writes the repository and nothing else.
GroupEdit(q) ==
  /\ q \in GroupEdits /\ req[q] = "off"
  /\ \E c \in Repos \ {row.repo} : row' = [row EXCEPT !.repo = c]
  /\ req' = [req EXCEPT ![q] = "over"]
  /\ excuses' = excuses \cup {"edited"}
  /\ UNCHANGED <<queueVars, workerVars, diskVars, run, faults, mixed, surprised, shared>>

-----------------------------------------------------------------------------
(* A refresh: RepoSyncProcessor.process and ensureRepoFreshInternal.        *)

Goes(w, to) == at' = [at EXCEPT ![w] = to]

\* (A mistake in the next definition: the worker goes on holding its job.)
LeavesBug(w) ==
  /\ at' = [at EXCEPT ![w] = "off"] /\ UNCHANGED kind
  /\ cfg' = [cfg EXCEPT ![w] = None] /\ head' = [head EXCEPT ![w] = None]

\* The worker lets go of its job.
Leaves(w) ==
  /\ at' = [at EXCEPT ![w] = "off"] /\ kind' = [kind EXCEPT ![w] = None]
  /\ cfg' = [cfg EXCEPT ![w] = None] /\ head' = [head EXCEPT ![w] = None]

\* process returns, an escaping rejection logged or not: no retries are configured.
Ends(w) == Leaves(w) /\ job' = [job EXCEPT ![kind[w]] = "over"]

TakeJob(w, k) ==
  /\ at[w] = "off" /\ job[k] = "waiting"
  /\ job' = [job EXCEPT ![k] = "active"]
  /\ kind' = [kind EXCEPT ![w] = k] /\ Goes(w, "read")
  /\ UNCHANGED <<row, stalls, cfg, head, diskVars, req, run, faults, historyVars>>

\* The environment is read, and the refresh is entered without another await.
Read(w) ==
  /\ at[w] = "read"
  /\ cfg' = [cfg EXCEPT ![w] = row.repo]
  /\ Goes(w, IF row.repo = None THEN "bare" ELSE "begin")
  /\ manifest' = IF row.repo = None THEN None ELSE manifest
  /\ UNCHANGED <<row, queueVars, kind, head, fetched, disk, req, run, faults, historyVars>>

\* Nothing is configured: the row is told so, with the path of a mirror.
PersistBare(w) ==
  /\ at[w] = "bare"
  /\ row' = [row EXCEPT !.status = "uninitialized", !.mirror = TRUE, !.head = None]
  /\ Ends(w)
  /\ UNCHANGED <<stalls, diskVars, req, run, faults, historyVars>>

\* The other workers that are at the mirror.
Others(w) == {v \in Workers \ {w} : at[v] \in Changing \cup {"failed"}}

\* (A mistake in the next definition: the old status stays until the end.)
BeginBug(w) ==
  /\ at[w] = "begin"
  /\ row' = [row EXCEPT !.mirror = TRUE]
  /\ Goes(w, "fetch")
  /\ mixed' = IF Others(w) = {} THEN mixed \ {w} ELSE mixed \cup Others(w) \cup {w}
  /\ UNCHANGED <<queueVars, kind, cfg, head, diskVars, req, run, faults, excuses, surprised, shared>>

\* From here to Persist nobody is to take the mirror for ready.
Begin(w) ==
  /\ at[w] = "begin"
  /\ row' = [row EXCEPT !.status = "syncing", !.mirror = TRUE]
  /\ Goes(w, "fetch")
  /\ mixed' = IF Others(w) = {} THEN mixed \ {w} ELSE mixed \cup Others(w) \cup {w}
  /\ UNCHANGED <<queueVars, kind, cfg, head, diskVars, req, run, faults, excuses, surprised, shared>>

\* clone, or remote set-url and fetch.
Fetch(w) ==
  /\ at[w] = "fetch"
  /\ fetched' = cfg[w]
  /\ Goes(w, "checkout")
  /\ UNCHANGED <<row, queueVars, kind, cfg, head, disk, manifest, req, run, faults,
                 historyVars>>

\* checkout -B, reset --hard, clean -fd.
Checkout(w) ==
  /\ at[w] = "checkout"
  /\ disk' = fetched
  /\ Goes(w, "rev")
  /\ UNCHANGED <<row, queueVars, kind, cfg, head, fetched, manifest, req, run, faults,
                 historyVars>>

\* rev-parse HEAD, and the manifest with what it printed.
RevParse(w) ==
  /\ at[w] = "rev"
  /\ head' = [head EXCEPT ![w] = disk]
  /\ manifest' = disk
  /\ Goes(w, "ready")
  /\ UNCHANGED <<row, queueVars, kind, cfg, fetched, disk, req, run, faults, historyVars>>

\* persistState(ready), whatever the row holds by now.
Persist(w) ==
  /\ at[w] = "ready"
  /\ row' = [row EXCEPT !.status = "ready", !.mirror = TRUE, !.head = head[w]]
  /\ excuses' = (IF cfg[w] # row.repo THEN {"overtaken"} ELSE {})
                  \cup (IF w \in mixed THEN {"overlapped"} ELSE {})
  /\ Ends(w)
  /\ UNCHANGED <<stalls, diskVars, req, run, faults, mixed, surprised, shared>>

\* The credential is missing, git fails or the row cannot be written: the catch
\* block persists an error with the head of the last manifest.
Fails(w) ==
  /\ at[w] \in Changing /\ faults < MaxFaults
  /\ faults' = faults + 1
  /\ head' = [head EXCEPT ![w] = manifest]
  /\ Goes(w, "failed")
  /\ UNCHANGED <<row, queueVars, kind, cfg, diskVars, req, run, historyVars>>

PersistError(w) ==
  /\ at[w] = "failed"
  /\ row' = [row EXCEPT !.status = "error", !.mirror = TRUE, !.head = head[w]]
  /\ Ends(w)
  /\ UNCHANGED <<stalls, diskVars, req, run, faults, historyVars>>

\* A call to Postgres outside the try block, or in its catch block, rejects.
Throws(w) ==
  /\ at[w] \in {"read", "begin", "bare", "failed"} /\ faults < MaxFaults
  /\ faults' = faults + 1
  /\ excuses' = excuses \cup {"dropped"}
  /\ Ends(w)
  /\ UNCHANGED <<row, stalls, diskVars, req, run, mixed, surprised, shared>>

\* (A mistake in the next definition: the job dies with the worker.)
CrashBug(w) ==
  /\ at[w] # "off" /\ faults < MaxFaults
  /\ faults' = faults + 1
  /\ Leaves(w)
  /\ UNCHANGED <<row, queueVars, diskVars, req, run, historyVars>>

\* The worker dies.  BullMQ delivers a stalled job once more, then gives it up.
Crash(w) ==
  /\ at[w] # "off" /\ faults < MaxFaults
  /\ faults' = faults + 1
  /\ Leaves(w)
  /\ job' = [job EXCEPT ![kind[w]] = IF stalls[kind[w]] = 0 THEN "waiting" ELSE "over"]
  /\ stalls' = [stalls EXCEPT ![kind[w]] = 1]
  /\ excuses' = IF stalls[kind[w]] = 0 THEN excuses ELSE excuses \cup {"dropped"}
  /\ UNCHANGED <<row, diskVars, req, run, mixed, surprised, shared>>

-----------------------------------------------------------------------------
(* The agent-run processor.                                                 *)

\* getCapabilityState of the environment loaded with the run; a configured
\* repository that is not ready fails the run.
Gate(r) ==
  /\ run[r] = "off"
  /\ run' = [run EXCEPT ![r] =
       IF row.repo # None /\ row.status # "ready" THEN "over" ELSE "passed"]
  /\ UNCHANGED <<row, queueVars, workerVars, diskVars, req, faults, historyVars>>

\* The environment is read again, and resolveCwd decides on that.
Start(r) ==
  /\ run[r] = "passed"
  /\ run' = [run EXCEPT ![r] =
       IF row.mirror /\ row.status = "ready" THEN "mirror" ELSE "project"]
  /\ surprised' = IF run'[r] = "mirror" /\ \E w \in Workers : at[w] \in {"fetch", "checkout"}
                    THEN surprised \cup {r} ELSE surprised
  /\ shared' = IF run'[r] = "mirror" /\ "overlapped" \in excuses THEN shared \cup {r} ELSE shared
  /\ UNCHANGED <<row, queueVars, workerVars, diskVars, req, faults, mixed, excuses>>

-----------------------------------------------------------------------------
Refresh(w) ==
  \/ Read(w) \/ PersistBare(w) \/ Begin(w) \/ Fetch(w) \/ Checkout(w) \/ RevParse(w)
  \/ Persist(w) \/ PersistError(w)

Next ==
  \/ \E q \in Requests \cup GroupEdits :
       \/ \E c \in Config, status \in {"syncing", "uninitialized"} : Update(q, c, status)
       \/ Clear(q) \/ Find(q) \/ Trigger(q) \/ Enqueue(q) \/ BreaksOff(q) \/ GroupEdit(q)
  \/ \E w \in Workers :
       (\E k \in Kinds : TakeJob(w, k)) \/ Refresh(w) \/ Fails(w) \/ Throws(w) \/ Crash(w)
  \/ \E r \in Runs : Gate(r) \/ Start(r)

Spec == Init /\ [][Next]_vars

\* Fairness: a worker process is always taking jobs and goes on with what it took; a
\* request that has written the row goes on to its second await.
Fairness ==
  /\ \A w \in Workers : WF_vars(Refresh(w))
  /\ \A k \in Kinds : WF_vars(\E w \in Workers : TakeJob(w, k))
  /\ \A q \in Requests : WF_vars(Enqueue(q)) /\ WF_vars(Clear(q))

FairSpec == Spec /\ Fairness

-----------------------------------------------------------------------------
(* Properties.                                                              *)

\* A ready row describes the configured repository, and the mirror's path is
\* known: nothing that fails, crashes or is delivered again makes the old
\* repository pass for the new one.  The exceptions are the group's own page,
\* which changes the repository and leaves the row ready; an update that lands
\* during a refresh, which overwrites it; and two processes refreshing at once.
\* (environment.service.ts:72-108, repo-sync.service.ts:114-217)
ReadyIsCurrent ==
  row.status = "ready" /\ excuses \subseteq {"dropped"} => row.head = row.repo /\ row.mirror

\* A ready row tells what is checked out, and no refresh is changing it, unless
\* two processes overlapped. (repo-sync.service.ts:135-193)
ReadyIsOnDisk ==
  row.status = "ready" /\ "overlapped" \notin excuses =>
    row.head = disk /\ \A w \in Workers : at[w] \notin Changing

\* No run starts in a mirror that is being changed, although the row is read
\* twice, from two processes, and written by three.
\* (agent-run.processor.ts:51-69, pi-mono.adapter.ts resolveCwd)
StartsUndisturbed == surprised \subseteq shared

\* A row that says syncing does not stay so: crashes, redeliveries, two processes at
\* one mirror and the rows that say it only until a request's second write bring it
\* to ready, error or uninitialized.  The exception is a step that was to end it and
\* was dropped: a request broke off between its two awaits; the queue knew the job's
\* id from one under way or over; the job broke off without a word on the row, or
\* was given up after two workers had died with it.
\* (environment.service.ts:33-56, 80-107, 111-123, repo-sync-queue.service.ts:10-16)
SyncingEnds == row.status = "syncing" ~> row.status # "syncing" \/ "dropped" \in excuses
=============================================================================
