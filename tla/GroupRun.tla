------------------------------ MODULE GroupRun ------------------------------
(***************************************************************************)
(* Formal executions of one Feishu group: the AgentRun rows, the group's   *)
(* GroupAgentSession row, the Redis group lock, the agent-run and          *)
(* artifact-sync queues, and every process that touches them -- the API    *)
(* handlers that submit, cancel, retry and disable, and the worker's two   *)
(* processors.  Each await of the code is a step of its own, so a value    *)
(* read before an await may be stale when it is used after it.             *)
(*                                                                         *)
(* A submission, the run it creates and the random token it locks with are *)
(* one identifier: tokens are drawn fresh per submission.                  *)
(***************************************************************************)
EXTENDS RunStates, Naturals, FiniteSets

CONSTANTS
  Runs,        \* submissions; also the runs they create and their lock tokens
  None,        \* SQL NULL, or an absent Redis key
  Paths,       \* the ways a run may be submitted, a subset of AllPaths
  Faults,      \* what the environment may do, a subset of AllFaults
  Slots,       \* agent-run jobs the worker processes execute at a time
  MaxRequests, \* bound: retry, cancel and unbind requests in one behaviour
  MaxCrashes   \* bound: process crashes and stalled jobs in one behaviour

\* interactive: handleInteractiveGroupMessage; confirmed: submitGroupMessage;
\* api: createRun, which takes no lock and is attached to no session.
AllPaths  == {"interactive", "confirmed", "api"}

\* expire: the lock's TTL runs out; cancel: POST agent-runs/:id/cancel;
\* disable: the group is unbound; submitError, callError: a call to Postgres or
\* Redis rejects, while a run is being submitted or anywhere after that;
\* workerCrash, apiCrash: the process dies and is restarted; stall: a processor
\* loses its hold on a job and BullMQ delivers the job again beside it.
AllFaults == {"expire", "cancel", "disable", "submitError", "callError",
              "workerCrash", "apiCrash", "stall"}

ASSUME RunsAssumption ==
  /\ None \notin Runs
  /\ Paths \subseteq AllPaths
  /\ Faults \subseteq AllFaults
  /\ Slots \in Nat /\ MaxRequests \in Nat /\ MaxCrashes \in Nat

VARIABLES
  status,    \* AgentRun.status of each run, "absent" before the row exists
  outputs,   \* the runs whose rawOutputs column is filled
  session,   \* the GroupAgentSession row: status, currentAgentRunId, activeLockToken
  lock,      \* the Redis key agent:lock:<chat>: a token or None
  submit,    \* program counter of each submission
  path,      \* the way each submission came in
  job,       \* the BullMQ job of each run in the agent-run queue
  worker,    \* program counter of the agent-run processor, per delivery and run
  syncJobs,  \* waiting artifact-sync jobs of each run
  handed,    \* the runs whose sync job of a fixed id, <run>-sync, was ever added
  syncer,    \* the runs an artifact-sync processor is working on
  canceler,  \* program counter of the cancel request on each run
  cancelKey, \* the runs whose Redis cancel key is set
  disabler,  \* disableByChat: program counter and the token it read
  call,      \* AgentService.transition in progress, per calling actor and run
  requests, crashes,
  executed,  \* history: executions started for each run
  overtaken, \* history: runs whose job was given away while the row said queued
  stranded,  \* history: runs a dying worker left to nobody
  early      \* history: runs a cancel took for still queued and overwrote

submitVars == <<submit, path>>
workVars   == <<job, worker>>
syncVars   == <<syncJobs, handed, syncer>>
cancelVars == <<canceler, cancelKey, early>>
countVars  == <<requests, crashes>>
execVars   == <<executed, overtaken, stranded>>
vars == <<status, outputs, session, lock, submitVars, workVars, syncVars,
          cancelVars, disabler, call, countVars, execVars>>

\* The delivery that holds a job, and one BullMQ gave up on that still goes on.
Delivery == {"worker", "stalled"}

Status  == RunStatus \cup {"absent"}
Token   == Runs \cup {None}
Actor   == Delivery \cup {"syncer", "canceler"}
Point   == {"off", "start", "execute", "succeeded", "canceled", "finish", "handover",
            "catch", "giveUp"}
Session == [status : {"idle", "busy", "error", "disabled"}, run : Token, token : Token]
Call    == [at : {"idle", "read", "write", "find", "release", "update", "threw"},
            to : Status, token : Token]

Idle == [at |-> "idle", to |-> "absent", token |-> None]

TypeOK ==
  /\ status \in [Runs -> Status]
  /\ outputs \subseteq Runs
  /\ session \in Session
  /\ lock \in Token
  /\ submit \in [Runs -> {"new", "decide", "create", "mark", "add", "reload",
                          "release", "accepted", "failed"}]
  /\ path \in [Runs -> AllPaths]
  /\ job \in [Runs -> {"none", "waiting", "active", "over"}]
  /\ worker \in [Delivery -> [Runs -> Point]]
  /\ syncJobs \in [Runs -> Nat]
  /\ handed \subseteq Runs
  /\ syncer \subseteq Runs
  /\ canceler \in [Runs -> {"off", "remove", "writeQueued", "settle", "key", "writeRunning"}]
  /\ cancelKey \subseteq Runs
  /\ disabler \in [at : {"off", "release", "update"}, token : Token]
  /\ call \in [Actor -> [Runs -> Call]]
  /\ requests \in 0..MaxRequests
  /\ crashes \in 0..MaxCrashes
  /\ executed \in [Runs -> Nat]
  /\ overtaken \subseteq Runs
  /\ stranded \subseteq Runs
  /\ early \subseteq Runs

Init ==
  /\ status = [r \in Runs |-> "absent"]
  /\ outputs = {}
  /\ session = [status |-> "idle", run |-> None, token |-> None]
  /\ lock = None
  /\ submit = [r \in Runs |-> "new"]
  /\ path \in [Runs -> Paths]
  /\ job = [r \in Runs |-> "none"]
  /\ worker = [d \in Delivery |-> [r \in Runs |-> "off"]]
  /\ syncJobs = [r \in Runs |-> 0]
  /\ handed = {}
  /\ syncer = {}
  /\ canceler = [r \in Runs |-> "off"]
  /\ cancelKey = {}
  /\ disabler = [at |-> "off", token |-> None]
  /\ call = [a \in Actor |-> [r \in Runs |-> Idle]]
  /\ requests = 0
  /\ crashes = 0
  /\ executed = [r \in Runs |-> 0]
  /\ overtaken = {}
  /\ stranded = {}
  /\ early = {}

-----------------------------------------------------------------------------
\* (A definition named ...Bug is a plausible mistake in the one that follows
\* it: the mutants show which property would notice.)
ReleaseLockBug(token) == lock' = None

\* releaseLock: compare-and-delete with a token, a plain DEL without one.
ReleaseLock(token) ==
  lock' = IF token = None \/ lock = token THEN None ELSE lock

\* Program counters advance one process at a time.
Goto(pc, r, to) == [pc EXCEPT ![r] = to]

SetCall(a, r, c) == call' = [call EXCEPT ![a][r] = c]

\* An actor calls transition (at "read") or handleRunStatusTransition (at "find").
Calls(a, r, at, to) == SetCall(a, r, [at |-> at, to |-> to, token |-> None])

\* The call goes on to its next await.
Awaits(a, r, at) == SetCall(a, r, [call[a][r] EXCEPT !.at = at])

Returned(a, r) == call[a][r].at = "idle"
Threw(a, r)    == call[a][r].at = "threw"
Forget(a, r)   == SetCall(a, r, Idle)

-----------------------------------------------------------------------------
(* Submitting a run: handleInteractiveGroupMessage, submitGroupMessage,     *)
(* queueGroupExecution and createRun.                                       *)

\* createRun: no lock, no session.
SubmitApi(r) ==
  /\ submit[r] = "new" /\ path[r] = "api"
  /\ submit' = Goto(submit, r, "create")
  /\ UNCHANGED <<status, outputs, session, lock, path, workVars, syncVars, cancelVars,
                 disabler, call, countVars, execVars>>

\* The lock is set without NX.
AcquireBug(r) ==
  /\ submit[r] = "new" /\ path[r] # "api"
  /\ lock' = r
  /\ submit' = Goto(submit, r, IF path[r] = "interactive" THEN "decide" ELSE "create")
  /\ UNCHANGED <<status, outputs, session, path, workVars, syncVars, cancelVars,
                 disabler, call, countVars, execVars>>

\* tryAcquireLock (SET NX): the chat is ours, or the message is rejected_busy.
\* Only the interactive path consults the manager agent before it executes.
Acquire(r) ==
  /\ submit[r] = "new" /\ path[r] # "api"
  /\ IF lock = None
       THEN /\ lock' = r
            /\ submit' = Goto(submit, r, IF path[r] = "interactive" THEN "decide" ELSE "create")
       ELSE /\ submit' = Goto(submit, r, "failed")
            /\ UNCHANGED lock
  /\ UNCHANGED <<status, outputs, session, path, workVars, syncVars, cancelVars,
                 disabler, call, countVars, execVars>>

\* runManagerDecision: execute, or anything else (a follow-up question, a
\* disallowed skill, a confirmation request, a decision that throws).
Decide(r) ==
  /\ submit[r] = "decide"
  /\ \E next \in {"create", "release"} : submit' = Goto(submit, r, next)
  /\ UNCHANGED <<status, outputs, session, lock, path, workVars, syncVars, cancelVars,
                 disabler, call, countVars, execVars>>

CreateRun(r) ==
  /\ submit[r] = "create"
  /\ status' = [status EXCEPT ![r] = "queued"]
  /\ submit' = Goto(submit, r, IF path[r] = "api" THEN "add" ELSE "mark")
  /\ UNCHANGED <<outputs, session, lock, path, workVars, syncVars, cancelVars,
                 disabler, call, countVars, execVars>>

MarkRunQueuedBug(r) ==
  /\ submit[r] = "mark"
  /\ session' = [session EXCEPT !.status = "busy", !.run = r]
  /\ submit' = Goto(submit, r, "add")
  /\ UNCHANGED <<status, outputs, lock, path, workVars, syncVars, cancelVars,
                 disabler, call, countVars, execVars>>

\* markRunQueued overwrites the session row whatever it holds.
MarkRunQueued(r) ==
  /\ submit[r] = "mark"
  /\ session' = [status |-> "busy", run |-> r, token |-> r]
  /\ submit' = Goto(submit, r, "add")
  /\ UNCHANGED <<status, outputs, lock, path, workVars, syncVars, cancelVars,
                 disabler, call, countVars, execVars>>

EnqueueRun(r) ==
  /\ submit[r] = "add"
  /\ job' = [job EXCEPT ![r] = "waiting"]
  /\ submit' = Goto(submit, r, IF path[r] = "api" THEN "accepted" ELSE "reload")
  /\ UNCHANGED <<status, outputs, session, lock, path, worker, syncVars, cancelVars,
                 disabler, call, countVars, execVars>>

\* The session is read back for the reply; accepted keeps the lock for the worker.
Accept(r) ==
  /\ submit[r] = "reload"
  /\ submit' = Goto(submit, r, "accepted")
  /\ UNCHANGED <<status, outputs, session, lock, path, workVars, syncVars, cancelVars,
                 disabler, call, countVars, execVars>>

\* A call of queueGroupExecution rejects.  The interactive path awaits it inside
\* its try and releases the lock in finally; submitGroupMessage returns the
\* promise without awaiting it, so its catch never runs and the lock is kept.
SubmitThrows(r) ==
  /\ "submitError" \in Faults
  /\ submit[r] \in {"create", "mark", "add", "reload"}
  /\ submit' = Goto(submit, r, IF path[r] = "interactive" THEN "release" ELSE "failed")
  /\ UNCHANGED <<status, outputs, session, lock, path, workVars, syncVars, cancelVars,
                 disabler, call, countVars, execVars>>

\* The finally block of handleInteractiveGroupMessage.
ReleaseUnretained(r) ==
  /\ submit[r] = "release"
  /\ ReleaseLock(r)
  /\ submit' = Goto(submit, r, "failed")
  /\ UNCHANGED <<status, outputs, session, path, workVars, syncVars, cancelVars,
                 disabler, call, countVars, execVars>>

-----------------------------------------------------------------------------
(* AgentService.transition: read, assert, write, and then                   *)
(* handleRunStatusTransition: find the session that points at the run,      *)
(* release its lock, update it.  Five awaits, no transaction.               *)

TransitionReadBug(a, r) ==
  /\ call[a][r].at = "read"
  /\ Awaits(a, r, "write")
  /\ UNCHANGED <<status, outputs, session, lock, submitVars, workVars, syncVars, cancelVars,
                 disabler, countVars, execVars>>

TransitionRead(a, r) ==
  /\ call[a][r].at = "read"
  /\ Awaits(a, r, IF Allowed(RunNext, status[r], call[a][r].to) THEN "write" ELSE "threw")
  /\ UNCHANGED <<status, outputs, session, lock, submitVars, workVars, syncVars, cancelVars,
                 disabler, countVars, execVars>>

TransitionWrite(a, r) ==
  /\ call[a][r].at = "write"
  /\ status' = [status EXCEPT ![r] = call[a][r].to]
  /\ outputs' = IF call[a][r].to = "syncing" THEN outputs \cup {r} ELSE outputs
  /\ Awaits(a, r, "find")
  /\ UNCHANGED <<session, lock, submitVars, workVars, syncVars, cancelVars,
                 disabler, countVars, execVars>>

SettleFind(a, r) ==
  /\ call[a][r].at = "find"
  /\ IF session.run # r
       THEN Forget(a, r)
       ELSE SetCall(a, r, [at |-> IF call[a][r].to \in Terminal THEN "release" ELSE "update",
                           to |-> call[a][r].to, token |-> session.token])
  /\ UNCHANGED <<status, outputs, session, lock, submitVars, workVars, syncVars, cancelVars,
                 disabler, countVars, execVars>>

SettleRelease(a, r) ==
  /\ call[a][r].at = "release"
  /\ ReleaseLock(call[a][r].token)
  /\ Awaits(a, r, "update")
  /\ UNCHANGED <<status, outputs, session, submitVars, workVars, syncVars, cancelVars,
                 disabler, countVars, execVars>>

\* The session is given the run's status instead of one of its own.
SettleUpdateBug(a, r) ==
  /\ call[a][r].at = "update"
  /\ session' = IF call[a][r].to \in Terminal
                  THEN [status |-> call[a][r].to, run |-> None, token |-> None]
                  ELSE [session EXCEPT !.status = "busy"]
  /\ Forget(a, r)
  /\ UNCHANGED <<status, outputs, lock, submitVars, workVars, syncVars, cancelVars,
                 disabler, countVars, execVars>>

\* currentAgentRunId is not reset.
SettleUpdateBug2(a, r) ==
  /\ call[a][r].at = "update"
  /\ session' = [session EXCEPT !.status = IF call[a][r].to \in Terminal THEN "idle" ELSE "busy"]
  /\ Forget(a, r)
  /\ UNCHANGED <<status, outputs, lock, submitVars, workVars, syncVars, cancelVars,
                 disabler, countVars, execVars>>

\* The update is keyed by the session's id, not by the run it was found for.
SettleUpdate(a, r) ==
  /\ call[a][r].at = "update"
  /\ session' = IF call[a][r].to \in Terminal
                  THEN [status |-> IF call[a][r].to \in {"failed", "timeout"}
                                     THEN "error" ELSE "idle",
                        run |-> None, token |-> None]
                  ELSE [session EXCEPT !.status = "busy"]
  /\ Forget(a, r)
  /\ UNCHANGED <<status, outputs, lock, submitVars, workVars, syncVars, cancelVars,
                 disabler, countVars, execVars>>

\* Any of those five awaits rejects.
CallThrows(a, r) ==
  /\ "callError" \in Faults
  /\ call[a][r].at \in {"read", "write", "find", "release", "update"}
  /\ SetCall(a, r, [Idle EXCEPT !.at = "threw"])
  /\ UNCHANGED <<status, outputs, session, lock, submitVars, workVars, syncVars, cancelVars,
                 disabler, countVars, execVars>>

-----------------------------------------------------------------------------
(* AgentRunProcessor.process                                                *)

Executing == {w \in Delivery \X Runs : worker[w[1]][w[2]] # "off"}

\* The processor of a delivery d goes on with r.
Works(d, r, to) == worker' = [worker EXCEPT ![d] = Goto(@, r, to)]

\* A delivery that lost its job cannot complete it: BullMQ compares the tokens.
JobOver(d, r) ==
  /\ job' = IF d = "worker" THEN [job EXCEPT ![r] = "over"] ELSE job
  /\ Works(d, r, "off")

\* The status filter is dropped.
TakeJobBug(r) ==
  /\ job[r] = "waiting"
  /\ Cardinality(Executing) < Slots
  /\ job' = [job EXCEPT ![r] = "active"]
  /\ Works("worker", r, "start")
  /\ Calls("worker", r, "read", "running")
  /\ UNCHANGED <<status, outputs, session, lock, submitVars, syncVars, cancelVars,
                 disabler, countVars, execVars>>

\* A free slot takes a waiting job; a run that is no longer queued is skipped.
TakeJob(r) ==
  /\ job[r] = "waiting"
  /\ Cardinality(Executing) < Slots
  /\ IF status[r] = "queued"
       THEN /\ job' = [job EXCEPT ![r] = "active"]
            /\ Works("worker", r, "start")
            /\ Calls("worker", r, "read", "running")
       ELSE /\ job' = [job EXCEPT ![r] = "over"]
            /\ UNCHANGED <<worker, call>>
  /\ UNCHANGED <<status, outputs, session, lock, submitVars, syncVars, cancelVars,
                 disabler, countVars, execVars>>

\* The session is rehydrated and the repository checked: go on, fail the run
\* with REPO_NOT_READY, or throw.
Prepare(d, r) ==
  /\ worker[d][r] = "start" /\ Returned(d, r)
  /\ \/ /\ Works(d, r, "execute")
        /\ executed' = [executed EXCEPT ![r] = @ + 1]
        /\ UNCHANGED call
     \/ /\ Works(d, r, "finish")
        /\ Calls(d, r, "read", "failed")
        /\ UNCHANGED executed
     \/ /\ Works(d, r, "catch")
        /\ UNCHANGED <<call, execVars>>
  /\ UNCHANGED <<status, outputs, session, lock, submitVars, job, syncVars, cancelVars,
                 disabler, countVars, overtaken, stranded>>

\* executePrompt returns; its finally block deletes the cancel key.  A
\* cancellation is seen only if its key was set, and may be seen too late.
Executed(d, r) ==
  /\ worker[d][r] = "execute"
  /\ \/ \E w \in {"succeeded", "catch"} \cup (IF r \in cancelKey THEN {"canceled"} ELSE {}) :
          Works(d, r, w)
        /\ UNCHANGED call
     \/ /\ Works(d, r, "finish")
        /\ Calls(d, r, "read", "timeout")
  /\ cancelKey' = cancelKey \ {r}
  /\ UNCHANGED <<status, outputs, session, lock, submitVars, job, syncVars, canceler, early,
                 disabler, countVars, execVars>>

\* The row is read again: a cancel request may have overtaken the execution.
CheckLatest(d, r) ==
  /\ worker[d][r] \in {"succeeded", "canceled"}
  /\ IF status[r] = "canceled"
       THEN /\ Calls(d, r, "find", "canceled")
            /\ Works(d, r, "finish")
       ELSE IF worker[d][r] = "succeeded"
       THEN /\ Calls(d, r, "read", "syncing")
            /\ Works(d, r, "handover")
       ELSE /\ Calls(d, r, "read", "canceled")
            /\ Works(d, r, "finish")
  /\ UNCHANGED <<status, outputs, session, lock, submitVars, job, syncVars, cancelVars,
                 disabler, countVars, execVars>>

\* artifactQueue.add('sync-run') under the job id <run>-sync: the queue keeps the
\* jobs it is done with, so a second one of that id is dropped.
HandOver(d, r) ==
  /\ worker[d][r] = "handover" /\ Returned(d, r)
  /\ \/ /\ handed' = handed \cup {r}
        /\ syncJobs' = IF r \in handed THEN syncJobs ELSE [syncJobs EXCEPT ![r] = @ + 1]
        /\ JobOver(d, r)
     \/ /\ "callError" \in Faults
        /\ Works(d, r, "catch")
        /\ UNCHANGED <<syncJobs, handed, job>>
  /\ UNCHANGED <<status, outputs, session, lock, submitVars, syncer, cancelVars,
                 disabler, call, countVars, execVars>>

Finished(d, r) ==
  /\ worker[d][r] = "finish" /\ Returned(d, r)
  /\ JobOver(d, r)
  /\ UNCHANGED <<status, outputs, session, lock, submitVars, syncVars, cancelVars,
                 disabler, call, countVars, execVars>>

\* A transition inside the try block throws.
ProcessThrows(d, r) ==
  /\ worker[d][r] \in {"start", "finish", "handover"} /\ Threw(d, r)
  /\ Works(d, r, "catch")
  /\ Forget(d, r)
  /\ UNCHANGED <<status, outputs, session, lock, submitVars, job, syncVars, cancelVars,
                 disabler, countVars, execVars>>

\* The catch block settles a run that was canceled meanwhile and fails any other.
Catch(d, r) ==
  /\ worker[d][r] = "catch"
  /\ IF status[r] = "canceled"
       THEN Calls(d, r, "find", "canceled")
       ELSE Calls(d, r, "read", "failed")
  /\ Works(d, r, "giveUp")
  /\ UNCHANGED <<status, outputs, session, lock, submitVars, job, syncVars, cancelVars,
                 disabler, countVars, execVars>>

\* Whatever that call does, the job ends: no queue is configured to retry.
GaveUp(d, r) ==
  /\ worker[d][r] = "giveUp" /\ (Returned(d, r) \/ Threw(d, r))
  /\ JobOver(d, r)
  /\ Forget(d, r)
  /\ UNCHANGED <<status, outputs, session, lock, submitVars, syncVars, cancelVars,
                 disabler, countVars, execVars>>

-----------------------------------------------------------------------------
(* ArtifactSyncProcessor.process                                            *)

\* The artifacts of rawOutputs are written; a run without outputs cannot fail.
TakeSyncJob(r) ==
  /\ syncJobs[r] > 0 /\ r \notin syncer
  /\ syncJobs' = [syncJobs EXCEPT ![r] = @ - 1]
  /\ syncer' = syncer \cup {r}
  /\ \E to \in {"succeeded"} \cup (IF r \in outputs THEN {"failed"} ELSE {}) :
       Calls("syncer", r, "read", to)
  /\ UNCHANGED <<status, outputs, session, lock, submitVars, workVars, handed, cancelVars,
                 disabler, countVars, execVars>>

\* The transition returned or threw: the job is over either way.
Synced(r) ==
  /\ r \in syncer /\ (Returned("syncer", r) \/ Threw("syncer", r))
  /\ syncer' = syncer \ {r}
  /\ Forget("syncer", r)
  /\ UNCHANGED <<status, outputs, session, lock, submitVars, workVars, syncJobs, handed, cancelVars,
                 disabler, countVars, execVars>>

\* retrySync: an API request may add a job for any run, in any status.
RetrySync(r) ==
  /\ requests < MaxRequests
  /\ status[r] # "absent"
  /\ syncJobs' = [syncJobs EXCEPT ![r] = @ + 1]
  /\ requests' = requests + 1
  /\ UNCHANGED <<status, outputs, session, lock, submitVars, workVars, handed, syncer, cancelVars,
                 disabler, call, crashes, execVars>>

-----------------------------------------------------------------------------
(* AgentService.cancelRun.  The status is read once, at the start.          *)

CancelRead(r) ==
  /\ "cancel" \in Faults /\ requests < MaxRequests
  /\ requests' = requests + 1
  /\ canceler[r] = "off"
  /\ status[r] # "absent" /\ Allowed(RunNext, status[r], "canceled")
  /\ canceler' = Goto(canceler, r, IF status[r] = "queued" THEN "remove" ELSE "key")
  /\ UNCHANGED <<status, outputs, session, lock, submitVars, workVars, syncVars, cancelKey,
                 early, disabler, call, crashes, execVars>>

\* A job that a worker holds cannot be removed; the error is swallowed.
CancelRemove(r) ==
  /\ canceler[r] = "remove"
  /\ job' = IF job[r] = "active" THEN job ELSE [job EXCEPT ![r] = "none"]
  /\ canceler' = Goto(canceler, r, "writeQueued")
  /\ UNCHANGED <<status, outputs, session, lock, submitVars, worker, syncVars, cancelKey,
                 early, disabler, call, countVars, execVars>>

\* The job is gone but the row still says queued.
CancelWriteQueuedBug(r) ==
  /\ canceler[r] = "writeQueued"
  /\ canceler' = Goto(canceler, r, "settle")
  /\ UNCHANGED <<status, outputs, session, lock, submitVars, workVars, syncVars, cancelKey,
                 early, disabler, call, countVars, execVars>>

CancelWriteQueued(r) ==
  /\ canceler[r] = "writeQueued"
  /\ status' = [status EXCEPT ![r] = "canceled"]
  /\ early' = early \cup {r}
  /\ Calls("canceler", r, "find", "canceled")
  /\ canceler' = Goto(canceler, r, "settle")
  /\ UNCHANGED <<outputs, session, lock, submitVars, workVars, syncVars, cancelKey,
                 disabler, countVars, execVars>>

CancelSettled(r) ==
  /\ canceler[r] = "settle" /\ (Returned("canceler", r) \/ Threw("canceler", r))
  /\ canceler' = Goto(canceler, r, "off")
  /\ Forget("canceler", r)
  /\ UNCHANGED <<status, outputs, session, lock, submitVars, workVars, syncVars, cancelKey,
                 early, disabler, countVars, execVars>>

\* piMono.cancelRun: the worker polls this key.
CancelKeySet(r) ==
  /\ canceler[r] = "key"
  /\ cancelKey' = cancelKey \cup {r}
  /\ canceler' = Goto(canceler, r, "writeRunning")
  /\ UNCHANGED <<status, outputs, session, lock, submitVars, workVars, syncVars,
                 early, disabler, call, countVars, execVars>>

\* The session is released as soon as cancellation is requested.
CancelWriteRunningBug(r) ==
  /\ canceler[r] = "writeRunning"
  /\ status' = [status EXCEPT ![r] = "canceled"]
  /\ Calls("canceler", r, "find", "canceled")
  /\ canceler' = Goto(canceler, r, "settle")
  /\ UNCHANGED <<outputs, session, lock, submitVars, workVars, syncVars, cancelKey,
                 early, disabler, countVars, execVars>>

\* The row is overwritten; lock and session are left to the worker.
CancelWriteRunning(r) ==
  /\ canceler[r] = "writeRunning"
  /\ status' = [status EXCEPT ![r] = "canceled"]
  /\ canceler' = Goto(canceler, r, "off")
  /\ UNCHANGED <<outputs, session, lock, submitVars, workVars, syncVars, cancelKey,
                 early, disabler, call, countVars, execVars>>

-----------------------------------------------------------------------------
(* GroupAgentSessionService.disableByChat                                   *)

DisableFind ==
  /\ "disable" \in Faults /\ requests < MaxRequests
  /\ requests' = requests + 1
  /\ disabler.at = "off"
  /\ disabler' = [at |-> "release", token |-> session.token]
  /\ UNCHANGED <<status, outputs, session, lock, submitVars, workVars, syncVars, cancelVars,
                 call, crashes, execVars>>

DisableRelease ==
  /\ disabler.at = "release"
  /\ ReleaseLock(disabler.token)
  /\ disabler' = [disabler EXCEPT !.at = "update"]
  /\ UNCHANGED <<status, outputs, session, submitVars, workVars, syncVars, cancelVars,
                 call, countVars, execVars>>

DisableUpdate ==
  /\ disabler.at = "update"
  /\ session' = [status |-> "disabled", run |-> None, token |-> None]
  /\ disabler' = [at |-> "off", token |-> None]
  /\ UNCHANGED <<status, outputs, lock, submitVars, workVars, syncVars, cancelVars,
                 call, countVars, execVars>>

-----------------------------------------------------------------------------
(* The environment: the lock's TTL, and the two processes dying.            *)

Expire ==
  /\ "expire" \in Faults
  /\ lock # None
  /\ lock' = None
  /\ UNCHANGED <<status, outputs, session, submitVars, workVars, syncVars, cancelVars,
                 disabler, call, countVars, execVars>>

\* The submissions a dying process was serving stop where they are.
StopSubmissions(S) ==
  submit' = [r \in Runs |-> IF r \in S /\ submit[r] \notin {"new", "accepted"}
                              THEN "failed" ELSE submit[r]]

Confirmed == {r \in Runs : path[r] = "confirmed"}

\* A processor died when the row was past queued, the redelivered job is skipped;
\* or a sync job died after its write, which the next one may not make again.
WorkLost(r) ==
  \/ status[r] # "queued" /\ \E d \in Delivery : worker[d][r] # "off"
  \/ call["syncer"][r].at \in {"find", "release", "update"}

\* Its submission died between the row and the job.
SubmissionLost(r) == submit[r] \in {"mark", "add"} /\ submit'[r] = "failed"

\* The worker dies.  BullMQ finds its active jobs stalled and delivers them again.
\* Chat events are handled there: interactive messages, and card confirmations.
WorkerCrash ==
  /\ "workerCrash" \in Faults /\ crashes < MaxCrashes
  /\ crashes' = crashes + 1
  /\ \E S \in SUBSET Confirmed :
       StopSubmissions(S \cup {r \in Runs : path[r] = "interactive"})
  /\ job' = [r \in Runs |-> IF job[r] = "active" THEN "waiting" ELSE job[r]]
  /\ worker' = [d \in Delivery |-> [r \in Runs |-> "off"]]
  /\ stranded' = stranded \cup {r \in Runs : WorkLost(r) \/ SubmissionLost(r)}
  /\ syncJobs' = [r \in Runs |-> IF r \in syncer THEN syncJobs[r] + 1 ELSE syncJobs[r]]
  /\ syncer' = {}
  /\ call' = [a \in Actor |-> IF a = "canceler" THEN call[a] ELSE [r \in Runs |-> Idle]]
  /\ UNCHANGED <<status, outputs, session, lock, path, handed, cancelVars,
                 disabler, requests, executed, overtaken>>

\* A processor loses its hold on a job, having stopped to renew it in time, but
\* goes on.  BullMQ puts the job back: it can be taken, and removed, again.
Stall(r) ==
  /\ "stall" \in Faults /\ crashes < MaxCrashes
  /\ crashes' = crashes + 1
  /\ job[r] = "active" /\ worker["stalled"][r] = "off"
  /\ job' = [job EXCEPT ![r] = "waiting"]
  /\ worker' = [d \in Delivery |-> Goto(worker[d], r,
                  IF d = "stalled" THEN worker["worker"][r] ELSE "off")]
  /\ call' = [a \in Actor |->
       IF a \notin Delivery THEN call[a]
         ELSE [call[a] EXCEPT ![r] = IF a = "stalled" THEN call["worker"][r] ELSE Idle]]
  /\ overtaken' = IF status[r] = "queued" THEN overtaken \cup {r} ELSE overtaken
  /\ UNCHANGED <<status, outputs, session, lock, submitVars, syncVars, cancelVars,
                 disabler, requests, executed, stranded>>

\* The API process dies: admin confirmations, direct runs, cancel and unbind requests.
ApiCrash ==
  /\ "apiCrash" \in Faults /\ crashes < MaxCrashes
  /\ crashes' = crashes + 1
  /\ \E S \in SUBSET Confirmed :
       StopSubmissions(S \cup {r \in Runs : path[r] = "api"})
  /\ canceler' = [r \in Runs |-> "off"]
  /\ call' = [call EXCEPT !["canceler"] = [r \in Runs |-> Idle]]
  /\ disabler' = [at |-> "off", token |-> None]
  /\ UNCHANGED <<status, outputs, session, lock, path, workVars, syncVars, cancelKey, early,
                 requests, execVars>>

-----------------------------------------------------------------------------
Submission(r) ==
  \/ SubmitApi(r) \/ Acquire(r) \/ Decide(r) \/ CreateRun(r) \/ MarkRunQueued(r)
  \/ EnqueueRun(r) \/ Accept(r) \/ SubmitThrows(r) \/ ReleaseUnretained(r)

Transition(a, r) ==
  \/ TransitionRead(a, r) \/ TransitionWrite(a, r) \/ CallThrows(a, r)
  \/ SettleFind(a, r) \/ SettleRelease(a, r) \/ SettleUpdate(a, r)

Processor(d, r) ==
  \/ d = "worker" /\ TakeJob(r)
  \/ Prepare(d, r) \/ Executed(d, r) \/ CheckLatest(d, r) \/ HandOver(d, r)
  \/ Finished(d, r) \/ ProcessThrows(d, r) \/ Catch(d, r) \/ GaveUp(d, r)

Syncing(r) == TakeSyncJob(r) \/ Synced(r)

Cancel(r) ==
  \/ CancelRead(r) \/ CancelRemove(r) \/ CancelWriteQueued(r) \/ CancelSettled(r)
  \/ CancelKeySet(r) \/ CancelWriteRunning(r)

Disable == DisableFind \/ DisableRelease \/ DisableUpdate

Next ==
  \/ \E r \in Runs : \/ Submission(r) \/ Syncing(r) \/ Cancel(r) \/ RetrySync(r) \/ Stall(r)
                     \/ \E d \in Delivery : Processor(d, r)
                     \/ \E a \in Actor : Transition(a, r)
  \/ Disable \/ Expire \/ WorkerCrash \/ ApiCrash

Spec == Init /\ [][Next]_vars

\* Fairness: requests that were accepted are served to their end and the worker
\* keeps taking jobs.  Nothing forces a message, a retry, a cancel or a fault.
Fairness ==
  /\ \A r \in Runs : /\ WF_vars(Submission(r)) /\ WF_vars(Syncing(r))
                     /\ \A d \in Delivery : WF_vars(Processor(d, r))
                     /\ WF_vars(CancelRemove(r) \/ CancelWriteQueued(r) \/ CancelSettled(r)
                                  \/ CancelKeySet(r) \/ CancelWriteRunning(r))
                     /\ \A a \in Actor : WF_vars(Transition(a, r))
  /\ WF_vars(DisableRelease \/ DisableUpdate)

FairSpec == Spec /\ Fairness

-----------------------------------------------------------------------------
(* Properties                                                               *)

Grouped == {r \in Runs : path[r] # "api"}

Unfinished(r) == status[r] \in {"queued", "running", "syncing"}

\* A handleRunStatusTransition for r is still to come from some actor.
Settling(r) ==
  \/ \E a \in Actor : call[a][r].at \in {"find", "release", "update"}
  \/ \E d \in Delivery : worker[d][r] \in {"succeeded", "canceled", "catch"}

\* The session's run and token columns are never out of step: the unconditional
\* DEL of releaseLock is unreachable from handleRunStatusTransition, so a run
\* that ends cannot free the lock another submission has taken since.
TokenNamesRun ==
  /\ session.run = session.token
  /\ \A a \in Actor, r \in Runs :
       call[a][r].at \in {"release", "update"} /\ call[a][r].to \in Terminal
         => call[a][r].token = r

\* One execution per chat: two runs that went through the group lock are never
\* unfinished together, however settling the first interleaves with submitting
\* the second and whatever crashes in between.
ExclusiveRun ==
  \A r, s \in Grouped : Unfinished(r) /\ Unfinished(s) => r = s

\* No run is executed twice, although BullMQ delivers its job again after a crash
\* or beside a processor that stalled, and a cancel may overwrite the status a
\* redelivered job is filtered by.  The one way to a second execution is a stall
\* before the first processor has written "running" on the row.
AtMostOnce == \A r \in Runs : executed[r] > 1 => r \in overtaken

\* A run being executed keeps its chat even while it is being canceled or its job
\* is delivered again: only a cancel that still saw it queued, or the end of
\* another execution of it, can free the lock under it.
AbortingRunKeepsChat ==
  \A d \in Delivery, r \in Grouped :
    worker[d][r] = "execute" /\ lock # r => r \in early \cup overtaken

\* The session never points at a finished run that nobody is going to settle:
\* otherwise the group would stay busy with no run left to free it.
SessionOwned ==
  \A r \in Runs : session.run = r => Unfinished(r) \/ Settling(r)

\* Nobody frees the lock under a submission that has not yet published its run:
\* the settling of an earlier run compares tokens before it deletes.
SubmissionKeepsChat ==
  [][\A r \in Runs : lock = r /\ submit[r] \in {"decide", "create", "mark"}
        => lock' = r \/ submit'[r] = "failed"]_vars

\* The status graph of state-machine.ts is respected step by step although
\* transition() reads, checks and writes in separate awaits.
LegalStatus ==
  [][\A r \in Runs : status[r] # "absent" => Allowed(RunNext, status[r], status'[r])]_vars

\* Every accepted run ends, unless the worker dies while it processes the run and
\* after the row has said running -- the job is delivered again, but skipped -- or
\* two deliveries execute it: the sync job of the second is dropped.
RunEnds ==
  \A r \in Runs :
    submit[r] = "accepted" ~> status[r] \in Terminal \/ r \in stranded \cup overtaken

\* The session lets go of every run it was marked busy with, unless the worker died
\* in the middle of submitting or processing it, or two deliveries executed it, or
\* it is canceled: a cancel during the hand-over to the artifact queue is settled
\* by nobody.
SessionFreed ==
  \A r \in Runs :
    session.run = r ~> \/ session.run # r \/ status[r] = "canceled"
                       \/ r \in stranded \cup overtaken

-----------------------------------------------------------------------------
(* What a run looks like to the other members of its chat.                  *)

TurnOf(r) ==
  IF path[r] = "api" \/ status[r] = "absent" THEN "waiting"
  ELSE IF Unfinished(r) THEN "taken" ELSE "over"

Turn == INSTANCE ChatTurn WITH turn <- [r \in Runs |-> TurnOf(r)]

\* The runs of a chat take turns: a run that has had its turn -- ended -- never
\* becomes unfinished again, and none starts while another is unfinished.
TakesTurns == Turn!Spec

-----------------------------------------------------------------------------
(* Why it holds.  The parts of two inductive invariants, proved in          *)
(* GroupRunProofs.                                                          *)

\* A run has no job and no processor before its row exists; unless its job was
\* given away before the row said running, only one delivery of it is working, a
\* run whose row says queued has not been executed, and a processor past its write
\* of "running" cannot find it queued again.
NotYetExecuted(r) ==
  /\ submit[r] \in {"new", "decide", "create"} =>
       executed[r] = 0 /\ job[r] = "none" /\ \A d \in Delivery : worker[d][r] = "off"
  /\ \A a \in Actor : call[a][r].to # "queued"
  /\ r \notin overtaken =>
       /\ status[r] = "queued" => executed[r] = 0
       /\ \A d \in Delivery : worker[d][r] = "start" =>
            /\ executed[r] = 0
            /\ call[d][r].at \notin {"read", "write", "threw"} => status[r] # "queued"
       /\ worker["stalled"][r] # "off" => worker["worker"][r] = "off" /\ status[r] # "queued"

\* AtMostOnce, inductively.
OnceInv == AtMostOnce /\ \A r \in Runs : NotYetExecuted(r)

\* A run has no worker, no caller and no sync job before its row exists.
Unpublished(r) ==
  /\ submit[r] \in {"new", "decide", "create", "release"} => status[r] = "absent"
  /\ status[r] = "absent" => /\ \A a \in Actor : call[a][r] = Idle
                             /\ worker["worker"][r] = "off" /\ syncJobs[r] = 0 /\ r \notin syncer

\* The lock is held from before the row exists until it is final.
KeepsLock(r) ==
  path[r] # "api" /\ (Unfinished(r) \/ submit[r] \in {"decide", "create", "release"})
    => lock = r

\* A transition in progress still fits the row it read, unless it ends the run.
CallFits(r) ==
  \A a \in Actor :
    /\ call[a][r].at \in {"read", "write"} =>
         /\ call[a][r].to \in {"running", "syncing"} \cup Terminal
         /\ call[a][r].to = "running" => status[r] = "queued"
         /\ call[a][r].to = "syncing" => status[r] = "running"
    /\ call[a][r].at = "release" => call[a][r].to \in Terminal
    /\ call[a][r].at \in {"find", "release", "update"} /\ call[a][r].to \in Terminal =>
         status[r] \in Terminal

\* The worker and the status it has brought the run to.
WorkerFits(r) ==
  /\ worker["worker"][r] \in {"off", "execute", "succeeded", "canceled", "catch"} => Returned("worker", r)
  /\ worker["worker"][r] \in {"execute", "succeeded"} => status[r] = "running"
  /\ worker["worker"][r] = "start" /\ Returned("worker", r) => status[r] = "running"
  /\ worker["worker"][r] = "start" /\ call["worker"][r].at \in {"find", "release", "update"} =>
       status[r] = "running" /\ call["worker"][r].to = "running"
  /\ worker["worker"][r] = "start" /\ call["worker"][r].at \in {"read", "write"} =>
       call["worker"][r].to = "running"

\* A sync job ends a run only once the worker has handed over its outputs.
SyncerFits(r) ==
  /\ r \in outputs \/ call["syncer"][r].at = "write" => status[r] \in {"syncing"} \cup Terminal
  /\ call["syncer"][r].to = "failed" => r \in outputs
  /\ call["syncer"][r].at \in {"read", "write"} => call["syncer"][r].to \in {"succeeded", "failed"}

\* Turns, inductively, when nothing but crashes and failing calls disturbs them.
TurnInv ==
  /\ TokenNamesRun
  /\ \A r \in Runs : /\ Unpublished(r) /\ KeepsLock(r) /\ CallFits(r)
                      /\ WorkerFits(r) /\ SyncerFits(r)
                      /\ canceler[r] = "off" /\ call["canceler"][r] = Idle
                      /\ worker["stalled"][r] = "off" /\ call["stalled"][r] = Idle
  /\ disabler.at = "off"

-----------------------------------------------------------------------------
(* What a document promises and the code does not keep.                     *)

\* docs/construction_plan_v2.md:314: the lock is released by completion, failure,
\* timeout and cancellation alike.
LockReleasedAtEnd ==
  \A r \in Runs :
    lock = r => \/ submit[r] \in {"decide", "create", "mark", "add", "reload", "release"}
                \/ Unfinished(r)
                \/ Settling(r)
=============================================================================
