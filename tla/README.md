# Formal models of feishu-kanban

feishu-kanban is a NestJS backend that puts an AI agent into Feishu (Lark) group
chats.  Messages, confirmation clicks and admin requests become *agent runs*; a
worker executes them, and a second worker writes what they produced back to Feishu.
The API process and the worker process share nothing but PostgreSQL (through
Prisma) and Redis (BullMQ queues, a lock and a cancel key per run), and no step that spans
two of them is a transaction.  The models here are about what that leaves open:
every `await` of the code is a place where another process may act or where this
one may die.

## 1. Inventory

| Component | Source (under `src/src`) | State it keeps | Operations | What is hard | Correct when |
|---|---|---|---|---|---|
| Run state machine | `common/state/state-machine.ts` | - | `assertTransition` on three tables | checked before the write, not with it | no status ever changes against its table |
| Agent runs | `modules/agent/agent.service.ts` | `agent_runs.status`, `raw_outputs` | `createRun`, `handleInteractiveGroupMessage`, `submitGroupMessage`, `transition`, `cancelRun`, `retrySync` | read / assert / write in three awaits; a cancel races the worker; failing submission | every accepted run ends, once, on a legal path |
| Group lock and session | `modules/agent/group-agent-session.service.ts` | Redis `agent:lock:<chat>`, `group_agent_sessions` row | `tryAcquireLock`, `releaseLock`, `markRunQueued`, `handleRunStatusTransition`, `disableByChat`, creation and binding | the lock passes from the submission to the run's processors and is released by whoever ends the run; TTL | one run per chat at a time; the lock comes back |
| Agent-run processor | `queues/processors/agent-run.processor.ts` | BullMQ job | `process` | stalled redelivery, crash, cancel during each await, errors in the catch block | at most one execution unless the job was given away before the row said `running`; ends unless its worker dies or is overtaken |
| Prompt execution | `modules/agent/pi-executor.service.ts`, `pi-session-manager.service.ts`, `pi-session-state.service.ts` | Redis cancel key, timers, a map of SDK sessions per process | `executePrompt`, `executeDecisionPrompt`, `ensureSession`, `cancelRun` | timers and polls abort a session that others share, replace or dispose of; awaits between map and session | a cancel ends the run it names and no other; no session is forgotten |
| Artifact-sync processor | `queues/processors/artifact-sync.processor.ts` | BullMQ job | `process` | retries by request, concurrent with the run's end | ends the run it was handed |
| Artifacts | `modules/artifact/artifact.service.ts` | `artifacts` row, Feishu documents, records, files | `createFromOutput`, `syncArtifact`, `retrySync` | external writes that cannot be rolled back, partial failure, two processes syncing one artifact | written, and written once |
| Confirmations | `modules/confirmation/confirmation.service.ts` | `confirmation_requests` row | `create`, `confirm`, `reject`, `expire` | two deciders, decision before submission, expiry | first decision wins; a confirmed action is submitted once |
| Event intake | `modules/feishu/feishu-event.service.ts`, `queues/processors/feishu-event.processor.ts` | `message_sources` row per event, queue | `enqueue`, `handle` | redelivery, crash after the dedupe row | every event handled once |
| Repository sync | `modules/repo/*`, `modules/environment/environment.service.ts` | environment's sync status, in-flight promises, queue | `ensureRepoFresh`, `triggerRepoSync`, `update` | coalescing, stale persist, dropped job ids | status describes the configured repository |
| Runtime turns | `modules/agent/pi-mono.adapter.ts`, `group-runtime.service.ts`, `pi-event-recorder.service.ts`, `session-state.service.ts` | in-memory turn and confirmation queues, runtime events with sequence numbers | `submitMessage`, `resumeSession`, `runRuntimeTurn`, hydration | queues filled and never drained, numbering by two processes, restart | a session never names a turn that is over; every undisturbed turn replies (a mention that is queued or steered never gets a turn of its own); numbers collide only where known |
| Binding and administration | `modules/project/project.service.ts`, `modules/config/group-config.service.ts`, `modules/admin/admin.service.ts` | project, group and session rows | bind, unbind, reset, delete, policies, messages that read them | several rows and the lock, no transaction | an unbound group stays unbound; a message runs in its own project's environment; nothing keeps its lock |
| Digests | `modules/digest/*`, `queues/processors/project-digest.processor.ts` | `lastDigest*` columns, scan job | scan, digest | two scans in a window, a lost scan, a group's own day, redelivery | one digest per day and type; none left out or left behind without a cause |
| Clients, prompts, pages, frontend | `modules/feishu/feishu.service.ts`, `pi-prompt-builder`, `admin-console.page.ts`, `frontend/`, ... | - | HTTP, text, forms | - | not modelled: input and output only |

Calls between them: the Feishu web socket enqueues an event; the worker's event
processor stores it and calls confirmations (card click), the group runtime
(mention) or `handleInteractiveGroupMessage` (private chat); a confirmation calls
`submitGroupMessage`.  Both submissions take the chat's lock, create a run and
enqueue it; the agent-run processor executes it and enqueues an artifact-sync job;
every status change goes through `transition`, which calls back into the session
service to free the lock and the session row.  The API process serves `createRun`,
`cancelRun`, `retrySync`, admin confirmations and unbinding concurrently with all
of that.

## 2. Plan

The order is that of the damage a mistake would do.

| Module | What it is about | Abstract specification, main theorem | State |
|---|---|---|---|
| `RunStates` | the three status tables | - | done |
| `ChatTurn`, `GroupRun`, `GroupRunProofs` | group lock, session row, a run from submission to end | `ChatTurn`: the runs of a chat take turns; refinement proved | done |
| `Confirmation`, `ConfirmationProofs` | deciders of one request, event deduplication and redelivery | at most one run per click | done |
| `ArtifactSync`, `ArtifactSyncProofs` | artifact rows, Feishu writes, retries from both processes | a synced row was written, a succeeded run left nothing behind | done |
| `RuntimeTurn`, `RuntimeTurnProofs` | a mention from the queue to its reply: session objects, turns, event numbers, hydration | a session names the turns in progress and no others | done |
| `RepoSync`, `RepoSyncProofs` | the two job ids, refreshes by several processes, every writer of the environment's row, the run gate | a ready row describes the configured repository | done |
| `SessionBinding`, `SessionBindingProofs` | bind, unbind, delete, reset, policies, private chat, late confirmations; the session's mode, project and lock | an unbound group stays unbound | done |
| `Digest`, `DigestProofs` | scan, cron fields, job ids, the digest run | one digest per day and type | done |
| `PiSessions`, `PiSessionsProofs` | the executor's timers and watchers, the map of SDK sessions | a run that counts as succeeded was not cut short | done |

Every safety property that a run checks is a theorem now.  Next: the assumptions of those
theorems of `GroupRun` that need some (section 6), where a weaker property would hold
without them; and a model of `feishu-project-reader.service.ts` (its caches, section 7).

Naming: a definition that ends in `Bug` is a plausible mistake in the one that
follows it; it is used only to see that the properties notice.

## 3. How the modules correspond to the code

Every `await` that reads or writes Postgres, Redis, a queue or Feishu is the end of
a step.  What happens between two awaits is one action, and what a handler read is
kept (in the program counter, in `call`, `read`, `seen`, `cfg`) until it is used.
Rejections, crashes and redelivery are actions too; the constants `Faults` or
`MaxFaults` of each module say which, or how many of them, a run allows.  Where an
exception to a property is known, it is a *history variable* that records the cause
when it happens, so that the property says "only for this cause" and not "except when
it goes wrong".

### GroupRun

| In the model | In the code |
|---|---|
| `status`, `outputs` | `agent_runs.status`, `raw_outputs` |
| `session` | the group's `group_agent_sessions` row: status, `currentAgentRunId`, `activeLockToken` |
| `lock` | Redis key `agent:lock:<chat>`; `Acquire` is `SET NX`, `ReleaseLock` the compare-and-delete script, or a plain `DEL` when the caller has no token |
| `submit`, `path` | `handleInteractiveGroupMessage`, `submitGroupMessage`, `createRun` |
| `job`, `worker` | the BullMQ job of a run and `AgentRunProcessor.process` with its catch block, for each `Delivery`: the one that holds the job and one that lost it to a stall (`Stall`) and goes on |
| `syncJobs`, `syncer` | artifact-sync jobs and what they do to the run; which outputs are written is `ArtifactSync` |
| `call` | `AgentService.transition` in progress for a worker, a sync job or a cancel: read, write, then `handleRunStatusTransition` (find, release, update) |
| `canceler`, `cancelKey` | `cancelRun` and the Redis key the executor polls |
| `disabler` | `disableByChat` |
| `handed` | the runs whose sync job, of the fixed id `<run>-sync`, was ever added: finished jobs are kept, so a second `add` is dropped |
| `executed`, `early`, `overtaken`, `stranded` | history, not in the code |

A submission, the run it creates and its lock token are one identifier, because the
token is drawn afresh each time.  One chat is followed; the queue's order among
waiting runs is left open.  At most one sync job of a run is active at a time.  A job
comes back in two ways: its processor died (`WorkerCrash`), or its lock was not renewed in
time and the processor goes on beside the second delivery (`Stall`); the two share the
bound `MaxCrashes`.  `overtaken` records a run whose job was given away while its row said
`queued`: both deliveries pass the filter of `agent-run.processor.ts:31`, and `running` to
`running` passes the assertion, so such a run is executed twice, may be left `syncing`, and
may come back after its lock was freed.  `stranded` records a run whose processor died when
nobody else would take it further.

### Confirmation

`request` and `expired` are the `confirmation_requests` row and its time; `seen` the
deduplication rows; `job`, `owner`, `stalls` BullMQ's view of a click's event; `at`,
`task`, `read` what each worker or administrator is doing and what its `find`
returned.  `Dedup` is the insert of `feishu-event.service.ts:54-71`; `FindRequest`,
`WriteDecision`, `Submit`, `FindExpired`, `WriteExpired` are the awaits of `confirm`,
`reject` and `expire`.  `Submit` has two outcomes - a run, or a busy chat - and
stands for the confirmed path of `GroupRun`.  Cards that name an unknown decision and
the update of the card's message id are left out.

### ArtifactSync

`artifact` is the status of the row of a content (project, type and hash are its
unique key); a *syncer* is a delivery of an artifact-sync job or a retry request.
`FindExisting` and `Create` are `createFromOutput`; `Load`, `Write`, `WriteRejects`,
`MarkFailed` are `syncArtifact` and its catch block; `MarkFind`, `MarkWrite` are
`markSynced` and `markSkipped`, which run outside that block because their promise is
returned without `await`.  `Turns` is the processor's loop and the outcome it derives.
`Writes` says how many Feishu calls a content needs.  Reading the policy is part of
`Load`: nothing depends on a change of it in between.

### RuntimeTurn

| In the model | In the code |
|---|---|
| `states`, `cached` | the session objects of `pi-mono.adapter.ts` and the entry of its map; a replaced object stays in `states` because its turn goes on |
| `Ensure`, `CreateForMention`, `CreateForTurn`, `Wake` | `ensureSession` for the three callers: the mention, its turn, `rehydrateSession` of the run processor |
| `Hydrate`, `Hydrated` | `hydrateRuntimeState`: the first `Window` events, the last of them taken for the latest |
| `num`, `turnNum`, `log` | sequence numbers taken in memory, and stored under the unique index |
| `StoreSubmitted` | the `message_submitted` event and the branch of `submitMessage`: steer, queue, or start a turn |
| `PromptEnds`, `SendReply`, `StoreAsk`, `StoreCompleted`, `StoreFailed` | `runRuntimeTurn`, `executeGroupRuntimePrompt`, `applyRuntimeTurnResult` and their catch and `finally` |
| `mem`, `stateLog`, `row`, `reactions` | `SessionStateService`, the column `runtimeStateJson`, the processing reaction |

A prompt's tool calls are a sequence of `Steps`, chosen from what
`ensureGroupRuntimeReplyAction` can leave.  Facts the model keeps: the queues of turns
and confirmations are filled and never drained, since `resumeSession`, `followUp` and
`resumeFromConfirmation` have no caller; `confirmation_requested` creates no
confirmation, because the prompt's context is cleared before it is read; `transitionTo`
counts only events that carry the session's id, finds none and takes the number 1, so
that a mention that finds the session idle always ends there, with its turn under way; a
prompt under way is steered only while the SDK says it streams, and the
message is queued otherwise; and a second sender whose profile differs disposes of the
session of a turn in progress.  `ClearReaction` and `AttachReaction` are the two halves of
moving the reaction: a rejection of the first one's calls for the row ends the handler,
anything else is logged.

### RepoSync

`row` is the environment's repository columns, `job` and `stalls` the two kinds of job
and their fixed ids, `at`, `cfg`, `head` a worker's refresh and what it has read,
`fetched`, `disk`, `manifest` the mirror.  A configuration is a repository with its branch
and credential.  `Init` is the moment after `create`'s write of the row, its `enqueueSync`
still to come; `Update` is the first write of `update`, `Find` and `Trigger` are
`triggerRepoSync`'s read and write, and each of the three requests has one more await:
`Enqueue`, or `Clear` for an update that finds no repository in what it wrote, which may
have said `syncing` for the time being (a null `repoUrl`, or a branch or credential for an
environment without a repository).  `BreaksOff` is that await rejecting, or the process
dying before it: the row stays `syncing`.  `GroupEdit` is
`updateActiveConfig`, which writes the repository and nothing else.  `Begin`, `Fetch`,
`Checkout`, `RevParse`, `Persist`, `Fails`, `PersistError` are
`ensureRepoFreshInternal`; `Gate` and `Start` are the two reads of the environment
before a run.  The in-flight map is per process and a process takes one job of this
queue at a time, so the refreshes that meet are those of different workers.

### SessionBinding

Every request - message, confirmation, private message, bot-added event, page, binding,
unbinding, deletion, reset, policy edit - is a chain of queries; `at` is the next one,
`seen` the session row it read, `got` and `env` the project and environment it works for.
`Crossing` and `UnderWay` record in `crossed` which projects were unbound while somebody
worked for them, `Settling` which bindings have not come to their end.  `GetOrCreate` is
the second query of `getOrCreateSession`: what it writes is decided by `Filled` and
`Writes` from the row that was read, and whether Postgres takes it by `Accepted` and
`Clashes` (foreign keys, and the unique index on project and role). `Check` to `Allow` are
`initFromChat` and `completeConfig`, `Disable` to `Close` `unbindByChat` and
`cleanupByChat`, `Remove` to `Drop` `deleteRobotInstance` and `resetRobotInstanceConfig`.
`Submit` to `Enqueue` are `submitGroupMessage`, `Settle` to `Clear`
`handleRunStatusTransition` at the end of its worker's run, await by await; the steps of
the worker between, cancels and the sweep are `GroupRun`'s.  `runs` is how far a run is,
and `orphaned` records which runs lost the chat and to what: a removal, an unbinding, the
last write of an earlier run's settling (`Clear`), a submission whose key an unbinding had
deleted (`Mark`), or a rejecting call of their own (`Fails`: the lock stays, for
`queueGroupExecution` is returned without an await).  `archivedAt` and the bootstrap mode,
which nothing enters, are left out.  Facts the model keeps: `Activate` writes `active`
whatever became of the project; a policy of an old project that is touched last decides
for the new one; a private message between activation and binding takes the project's only
session; a deletion during a new binding takes the new session with it; deleting a project
fails if a run was made after its runs were wiped.

### Digest

`time` is a slot, of which `Hours` make a day; `Today` and `Hour` are `getZonedParts`
in the session's timezone, `MatchToken`, `MatchField` and `MatchesCron` the cron fields.
`waiting`, `known`, `stalled` are the queue with its job ids; `List`, `Each`, `Add` the
scan, `Find` to `Fail` `processDigest` with its catch block.  Whether a group is active
and free, and whether its session is found, is chosen at each read, for `GroupRun` and
`SessionBinding` change it at any time.  `Serve` is the artifact processor, `Cancel`
`cancelRun`, one step each.  Facts the model keeps: nothing remembers that a digest was
due, so a busy group, a late scan or a failed `add` leaves it out; a digest is marked by
the time it ends, so one that ends on the next day takes that day's place; a crashed
worker's digest is written again by a second run; a failed one is not repeated that day.

### PiSessions

| In the model | In the code |
|---|---|
| `objects`, `cached` | `SessionRuntimeState`s and the entry of the map, which is made before the SDK session is (`session = "none"`) |
| `Replace`, `Reuse`, `Create`, `CreateState`, `SessionMade`, `NotMade` | `ensureSession` at its awaits |
| `Check`, `Prompts`, `PromptEnds`, `PromptFails`, `Finally`, `Clean`, `CleanFails` | `executePrompt` and `executeDecisionPrompt` |
| `timers`, `Timeout`; `polls`, `asking`, `Poll`, `Answer` | the timeout, and `watchCancellation` with its await on Redis |
| `key`, `CancelRun` | the cancel key; `cancelRun` runs in the API process, where no live run is found |
| `ProcessDies` | a death, or the rejection of a watcher's `get`, which nobody handles |
| `aborted`, `shared`, `raced` | history |

A place is working directory, profile and store file together.  Facts the model keeps:
the sessions get `customTools: []`, so a decision that ends in time has emitted none and
is an error, and a run's result is the fallback summary; an object whose session was
refused stays in the map and fails each later prompt of the chat until the process
restarts; nothing closes the sessions of this map, since `closeSession` of the adapter
looks in its own; two prompts on one object end each other, and both count as
succeeded.  `activeExecution` and the current context, read by tools that are not
there, are left out.

## 4. Runs

`CHECK_DEADLOCK FALSE` stands in each configuration because these systems may stop:
all requests served, or a crash nobody recovers from.

| Run | Question | Bounds |
|---|---|---|
| `GroupExclusive` | do the runs of a chat take turns when processes crash and calls fail anywhere | 2 runs, 2 slots, 1 crash; no stall, expiry, cancel |
| `GroupCancel` | who may free the lock under a submission or an execution, when cancels and crashes meet | 2 confirmed runs, 2 slots, 1 request, 1 crash |
| `GroupStatus` | is the status graph kept, and does the session only point at runs somebody will settle, with expiry, unbinding, failing submissions and retries | 2 runs, 1 slot, 1 request; no cancel, crash or stall |
| `GroupLive` | is a run executed once, does it end and does the session let go of it, when cancels meet both kinds of redelivery | 1 run on each of the three paths, 2 slots, 1 cancel, 1 crash or stall |
| `GroupDocLeak` | is the lock released by whatever ends a run (it is not, see below) | 2 confirmed runs, 1 slot, no fault |
| `ConfirmClicks` | is a click applied at most once, in time, and never lost without a cause | 1 click, 2 administrators, 2 workers, 1 stall, 1 crash |
| `ArtifactJobs` | what do `synced` and `succeeded` mean, and what may be written twice | 2 jobs, 1 retry, a content of 2 writes and a summary, 1 crash |
| `RuntimeTurns` | does a session name exactly the turns in progress, when do event numbers collide, is a mention answered | 2 mentions, 2 profiles, 1 wake-up, a log of 0, 2 or 4 events left by an earlier process, a window of 3, 1 fault |
| `RepoFresh` | what does `ready` say of the configured repository and of the disk, does a run start in a mirror that is changing, does `syncing` end | 2 repositories, 2 workers, an update, a sync request, a page edit, a run, 1 fault |
| `BindingHolds` | after which crossings does a group work for an unbound project, or in another's environment, or lose a message or its lock | 2 projects, two confirmations, one request of every other kind, 3 of them besides the bindings, 2 at a time, 1 fault |
| `DigestDays` | one run per digest, and none left out or left behind without a cause | 1 session, 2 workers, 2 days of 3 slots, 2 runs, 1 fault |
| `PiPrompts` | can a timer or watcher cut short a run that is not its own, is a session forgotten, does a canceled run come back | 1 run, 2 decisions, 2 places, 1 fault |

`GroupExclusive` also checks that `GroupRun` implements `ChatTurn` (`TakesTurns`).

Why the bounds are enough to be interesting.  The lock is contended by two submissions; a
third behaves to both as the second does.  With two slots two processors work at once,
with one the queue holds a run back.  One request or crash at any point reaches each
window between two awaits.  `GroupLive` has one run, for what it asks is asked of each
run, and adds the stall to the cancel and the crash; with two runs a stall multiplies the
states past what a run of five minutes holds, and what it does to the lock under an
execution (`AbortingRunKeepsChat`) is left to the theorem.  The lock's expiry is in
`GroupStatus` only: nothing that `GroupLive` asks depends on the lock.  Two writes are the
least with a partial success, two jobs and a retry the least with a race and an
interruption of the winner.  One redelivery is BullMQ's own limit (`maxStalledCount` is
left at 1).  A log of 4 events exceeds the window of 3 in `RuntimeTurns`, so that an
object hydrated from it, alone and with no failed call, counts from a number that is
taken: the cut by itself is a cause of collisions.  A log of 2 does not, and a wake-up is
a second writer of the map.  Two workers are the least that refresh at once, and two
repositories the least that can be mixed up.  In `BindingHolds` each crossing its
properties name needs a binding, an unbinding or a removal and a third request that
started earlier or comes late; two requests at a time suffice because a request that
crosses another is the pair; with two confirmations one run settles while the other is
submitted.  `DigestDays` has no third run, so that for a digest whose job was delivered
twice the limit of two runs follows from the bound there; it is the theorem that shows it.
The days of `DigestDays` are a Thursday and a Friday, so that both digests are due
together and the weekly one meets three scans of its day.  A run and two decisions are the
least with a replacement while two others share a session.  The theorems below have none
of these bounds.

### Where the code departs from its documents

One run ends in a counterexample, because the sentence it checks is one a maintainer
would rely on:

| Run | Sentence | What happens |
|---|---|---|
| `GroupDocLeak` | `construction_plan_v2.md:314` "锁释放由任务完成、失败、超时、取消统一触发" | settling a finished run wipes the session row of the run accepted meanwhile, whose lock then stays until its time to live ends |

The modelling met more of them, which the exceptions in the properties name and no
separate run repeats:

- `state-machine.ts:10` (`canceled: []`), `dev_plan_v1.md:883-893`: a worker that read
  `queued` before a cancel writes `running` over `canceled`.  `LegalStatus` is therefore
  checked without cancel requests.
- `construction_plan_v2.md:295` "智能体执行期间，新消息不得进入当前群智能体上下文": the
  lock's time to live runs while the run is queued, so it may end during the execution.
  `ExclusiveRun` is checked without expiry.
- `dev_plan_v1.md:904` (`timeout` for what exceeds the maximum time): the job of a
  crashed worker is delivered again and skipped; the run is `running` for ever.
  `RunEnds` and `SessionFreed` name these runs (`stranded`).
- `construction_plan_v2.md:314` once more: a job that stalls before its run says `running`
  is executed twice, and the first execution to end frees the lock under the other.
  `AtMostOnce` and `AbortingRunKeepsChat` name these runs (`overtaken`); `ExclusiveRun` and
  `TakesTurns` are checked without stalls.
- `dev_plan_v1.md:961` "确认卡片按钮点击只允许第一个有效决策生效": two confirm clicks
  submit two runs, for `confirmed` to `confirmed` passes the assertion.  `OneRunPerTask`
  speaks of one click.  And a request is confirmed before its submission, whose answer
  `rejected_busy` is ignored (`confirmation.service.ts:85`): confirmed, and no run.
- `dev_plan_v1.md:960` (no task twice on a retry): a retry after the second task failed
  writes the first again.  `RepeatsHaveCause` names the interruption.
- `agent-run.processor.ts:61` "Trigger repo sync from the management plane first.": a
  second request finds its job's id known, the queue drops it and the row stays
  `syncing`, so every run of the environment is refused.  This is `"dropped"` in
  `SyncingEnds`.
- `docs/project_memory.md:183`, private chats that select a project: a project that has
  its group session cannot be another session's (`schema.prisma:334`), so the private
  message is refused at `group-agent-session.service.ts:80`.

## 5. Fairness

`GroupRun` (`GroupLive`): weak fairness of each accepted submission, of the processor and
the sync job on each run, of the continuation of a cancel or an unbind once begun, and of
each `transition` in progress.  Node's event loop runs every pending promise, and the
BullMQ workers of `worker.module.ts` are always taking jobs.  Nothing is assumed about
messages, requests or faults.

`Confirmation` (`ConfirmClicks`): weak fairness of each handler and of the stalled-job
check, and strong fairness of some worker taking a waiting click: a worker is busy with
other clicks again and again but becomes idle in between, and BullMQ serves waiting jobs
in order.

`RepoSync` (`RepoFresh`): weak fairness of each worker's refresh (git returns, with or
without success), of taking a job of each kind and of the second await of a request that has
written the row; that await may reject, or its process die, which `SyncingEnds` excepts.

`PiSessions` (`PiPrompts`): weak fairness of making a session, of the return of an
aborted prompt, of Redis' answers, of the watcher's poll and of a decision's timer.  That
the model ever answers is not assumed, nor that a run's timer fires: a canceled run comes
back without either.  That `abort()` ends the prompt is an assumption about the SDK: the
code only warns when it rejects (`pi-executor.service.ts:464-468`), does not try again, and
the prompt then lasts until the model answers.  Such a rejection is not modelled.

`ArtifactSync` states weak fairness of starting each job and of each syncer's steps, but
its run checks safety only.  `RuntimeTurn`, `SessionBinding` and `Digest` have no
fairness: their properties are about what must not happen.

## 6. What is proved

The eight `...Proofs` modules have machine-checked proofs for all values of the
constants that satisfy the modules' assumptions (disjoint identifiers, faults from the
list, natural bounds, well-formed outputs).  Each theorem is an invariant or an action
property of `Spec`.  The invariants are inductive, and TLC checked them on small
instances before they were proved.

*GroupRun.* `TypeCorrect` comes first.  `TokenCoherence`: the session's run and token
agree, and whoever is about to release for a finished run holds that run's token; it is
inductive as it stands and holds under every fault.  `ExecutedAtMostOnce` is about
redelivery after a crash and beside a stalled processor alike, and needs `OnceInv`: unless
the run was overtaken, one delivery of it works at a time, a run that has been executed or
is with a processor past its filter is no longer `queued`, and the only writers that could
make it so again - a cancel or a transition that read an old status - never write
`queued`.  `RunsAreExclusive` and `RunsTakeTurns` need `TurnInv`: from before the run's
row exists until it is final its token is the lock, the session names it, every transition
in progress fits the row, and each processor knows where the run is.  Both assume
`Undisturbed`: no expiry, cancel, unbind, stall or failing submission.  The assumption
cannot be dropped, as the first two departures of section 4 show.  Crashes of both
processes and failing calls after the submission are allowed.

The other four theorems of this module each exclude some of the faults.
`SubmissionsKeepTheChat` needs `MarkInv`: before its run is marked, the session does not
name it and no call has found it there, so a lock that is freed for another run is freed
by comparing another token.  It assumes no expiry and no unbinding, both of which free the
lock for whoever comes next.  `AbortingRunsKeepTheChat` assumes besides that no submission
fails, since one that fails after its job was added releases the lock of a run the worker
has; cancels, crashes, stalls and failing calls are allowed.  Its `HoldInv` has a run keep
the lock until it was executed (`HoldsLock`), because whoever settles it earlier would
have to be past its execution (`PastWhen`), and nobody asks for a final status before
(`CallsAsk`). `SessionsAreOwned` and `StatusesAreLegal` need `OwnInv`: worker,
artifact-sync processor and status agree at each of their awaits (`WorkerKnows`,
`SyncerKnows`), a run has nobody working on it before its job is added (`Unqueued`), and
whoever writes a final status is there to settle the session (`OwnedBy`).  They assume no
cancel, no failing call and no crash or stall of the worker: a cancel writes the status
without asking what it has become, so does the second of two deliveries, and the other two
lose a call between its write and its settling.  Expiry, unbinding, failing submissions
and crashes of the API are allowed.

*Confirmation.* `DecideInv`: whoever is deciding holds the only handling of its click,
has submitted nothing yet, found the request in time, and writes only what its find
allowed.  `SubmitsAtMostOnce`, `ExpiryHolds` and `DeduplicationExcludes` are parts of
it; `OnlyStaleLooksOverturn` says that a decision changes only by a decider whose look
is older than it.

*ArtifactSync.* `ServedSoFar`: settled rows tell the truth; a syncer that has come to
marking has made every write; a job has left the outputs before its position served, or
counts itself among the failures, or has not succeeded.  What is interrupted, repeated or
shared only adds to what is complete, so the invariant needs no assumption about faults.
`SyncedRowsAreWritten` and `SucceededRunsAreServed` follow.  `RepeatsArePaid` is a matter
of counting (`Budget`): of a content, the writes made, those that the syncers at it may
still make in their attempts and, when nobody is at it and its row is not settled, those
of the attempt to come are within one attempt's writes for each attempt that overlapped
another or broke off, and one more.  It needs no assumption about faults either.

*PiSessions.* `PiTypeCorrect` is not only about types: timers and watchers belong to
prompts under way, and the map never offers a disposed session.  It is proved in four
parts, objects, executions, timers and the rest.  `SucceededRunsAreWhole` needs three
facts besides (`WholeInv`): of two executions on one object each knows it (`MetShared`);
who was aborted and met nobody has its own flag set (`AbortSeen`), so its outcome is not
`succeeded`; and so it stays until the outcome is returned (`WholeSoFar`).
`SessionsAreRemembered` needs `MapInv`: whatever is neither in the map nor was pushed out
of it by a second making is disposed of (`Remembered`), which is also true of objects
whose session is not there yet, and no two executions make the session of one object
(`MadeOnce`).

*RepoSync.* `ReadyInv` is `ReadyIsCurrent` and `ReadyIsOnDisk` with the two facts they rest
on: of two refreshes at one mirror both are marked (`MetMixed`), and one that is not marked
finds in the mirror what it put there (`AloneSeesItsOwn`).  From the fetch to the last write
the row is not ready, or overlapping refreshes left it so, which is all that
`RunsStartUndisturbed` needs of the two reads before a run.

*RuntimeTurn.* `Inv` is the type invariant with what each place of a mention and of a turn
knows, `TurnInv`, and what holds while the group is `Calm`: one session object, no call
failed, no log longer than the window.  `TurnInv` is inductive on its types alone, so that
a session names exactly the turns in progress is true under every fault and replacement.
`KnownCollisions` is not: that the adapter's numbers are free needs that an object that has
counted is past every number of the log and past those taken and not stored yet
(`Counted`), and that `transitionTo` always collides needs where the log begins (`Begun`):
nothing is stored under the session's id, and the number 1 is taken by then.  A mention's
reaction is the only one, while no call failed, because the last one's was taken back
before it is set (`Cleared`).  What
`hydrateRuntimeState` reads is the part of a finite set below a bound; the lemmas on it
argue with a least counterexample, because induction over the set cannot be stated here.

*Digest.* `OncePerPeriod` counts runs, and a delivery that has not made its run yet must
count too: `Rationed` bounds the runs of a digest and the one still to come, by one, or by
two once the job was delivered again.  It needs `QueueOK` (a job is in the queue or with one
worker, and its id is known) and `Holds` (what a worker has in hand where it is, among it
that its run is its job's).  `SuppressionsAreLate` needs that what a session row, or a
worker's copy of it, says of the last digest is true of some run (`Remembered`), and that
no digest is queued before its day (`Due`).  `NothingLeftBehind` follows from `Holds`: at
each of the awaits after the run was made, its worker still has it.

*SessionBinding.* The invariant has four layers, each proved with the ones before it.
`Base`: types, which kind of request comes to which query, that rows name projects that
are there, the unique indexes, and `LockOK`: `LockIsOwned`, that a submission has the key
until the session names its run or has lost the chat, and that the session's token is
its run's.  `Crossed`: whoever works for a project
that is being unbound, or is, has crossed it (`CrossedWhileWorking`); a binding past its
session's query has left the session to the bound project, to nobody, or to one that was
crossed (`NamesBound`); whoever is about to close a project left a group at rest
(`ClosesAtRest`), and so a session that names an unbound project is at rest
(`StaleAtRest`).  `Named`: a message of a project that was bound to the end stays one
(`SettledFor`), and then the session is the bound project's (`SessionIsBound`), so
`getOrCreateSession` has no other project to write.  `Served`: the bound project has its
environment (`HasEnv`), its policy is the latest (`LatestIsBound`), and a message that
nothing crossed has that environment from the policy on (`InItsEnvironment`).  The steps
are sorted into classes by what they may change (`Calm`, `Write`, `Join`, `Shut` for the
second layer, `Bears` and `Serves` for the others), and each action is shown to be in one.
The proof showed two properties of this module to be too strong as they had been stated;
TLC then found the counterexamples on larger instances.  An unbinding of a second project
while a message is at work also opens the session that still names the first one, so
`UnderWay` counts both; and a message may be refused after an unbinding that crossed
another project's request, so `RefusedWhileUnsettled` asks whether any was crossed.

The inductive invariants (`OnceInv`, `TurnInv` of `GroupRun`, `DecideInv` and so on) and the
properties of the theorems `SyncedRowsAreWritten`, `ExpiryHolds` and
`DeduplicationExcludes` are proved only; the runs check what follows from them.

Only model-checked: liveness (`RunEnds`, `SessionFreed`, `ClickDecides`, `SyncingEnds`,
`CalledOffEnds`) and with it `ENABLED`, which are outside the prover's reach.  Every other
property of the runs is proved.

## 7. What is not modelled

Half of the repository's code has no state of its own to be wrong about: prompts,
model and Feishu clients, tool descriptions, rendered pages, forms, listings and the
frontend are input, output and wording.  The model covers what writes a row, a key or a
queue, and that is a small share of the lines.

Left out for a reason of their own:

- expiry clean-up (`queues/processors/cleanup.processor.ts`): nothing enqueues its job;
- the single-artifact form of the artifact-sync job, `closeSession` of the session
  service, `executeGroupRuntimePrompt` of the executor, `resumeSession`, `followUp`,
  `resumeFromConfirmation`, `updateBootstrapState`, `releaseBootstrapLock`,
  `maybeRefreshForInteractive`: no caller; `updateConfig` is not implemented in the code;
- `modules/feishu/feishu-project-reader.service.ts`: a chain of reads with a cache in
  memory, for one process and lost with it.  What a model of it would be about: a text
  cut at 4000 characters for a digest is cached and served to a reader that asks for
  8000; `truncated` stays false because the page size is limited to what is left; an
  expired entry is deleted before the rate-limit fallback looks for it; the cache of
  tools never expires;
- Feishu folders, tabs, tables and imported member profiles of a binding, and the
  status writes of `ProjectService.update` and `archive`, which nothing here reads.

A missing `await` at `agent.service.ts:260` lets a rejected queue call pass by the handler
that would release the lock: the lock stays until its time to live ends. `submitError` of
`GroupRun` and `Fails` of `SessionBinding` model it.  `LockIsOwned` names it as a cause;
`GroupDocLeak`, the run of `LockReleasedAtEnd`, has no faults, so its counterexample is
another one.

## 8. Running it

```
tlc -config GroupExclusive.cfg MCGroupRun      (GroupCancel, GroupStatus, GroupLive, GroupDocLeak)
tlc -config ConfirmClicks.cfg Confirmation
tlc -config ArtifactJobs.cfg MCArtifactSync
tlc -config RuntimeTurns.cfg MCRuntimeTurn
tlc -config RepoFresh.cfg RepoSync
tlc -config BindingHolds.cfg SessionBinding
tlc -config DigestDays.cfg MCDigest
tlc -config PiPrompts.cfg PiSessions
tlapm GroupRunProofs.tla                       (and the other seven ...Proofs)
```

Each configuration finishes within five minutes on two cores; the proofs about
a quarter of an hour together.
