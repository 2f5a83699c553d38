---------------------------- MODULE SessionBinding ----------------------------
(***************************************************************************)
(* The group's session row and what a chat is bound to: the projects, the  *)
(* policies, the row that says which project and environment the group     *)
(* works in and in which mode, and every request that reads or writes      *)
(* them - messages, late confirmations, binding, unbinding, deletion,      *)
(* reset, the configuration page and a private chat.                       *)
(*                                                                         *)
(* No request runs in a transaction: each is a chain of awaits on          *)
(* Postgres, and getOrCreateSession writes what it decided from the row it *)
(* read an await earlier.  A project's only environment goes by the        *)
(* project's name.  One action is one query, with the decisions up to the  *)
(* next await.                                                             *)
(***************************************************************************)
EXTENDS Naturals, Sequences, FiniteSets

Seqs == INSTANCE SequencesExt

CONSTANTS
  Projects,   \* projects the chat can be bound to; also the requests that do it
  None,
  Mentions,   \* group messages of a bound bot
  Confirms,   \* requests for a run, confirmed whenever somebody does
  Privates,   \* private messages
  Notices,    \* syncGroupInfo requests of the configuration page
  Additions,  \* bot-added events
  Unbinds,    \* unbindByChat and cleanupByChat requests
  Deletes,    \* deleteRobotInstance requests
  Resets,     \* resetRobotInstanceConfig requests
  Edits,      \* updates of the group's policy
  MaxBusy,    \* bound: requests under way at a time
  MaxRequests,\* bound: requests in one behaviour
  MaxFaults   \* bound: rejecting calls in one behaviour

Requests == Mentions \cup Confirms \cup Privates \cup Notices \cup Additions
              \cup Unbinds \cup Deletes \cup Resets \cup Edits

ASSUME BindingAssumption ==
  /\ None \notin Projects \cup Requests /\ Projects \cap Requests = {}
  /\ Mentions \cap (Confirms \cup Privates \cup Notices \cup Additions
                     \cup Unbinds \cup Deletes \cup Resets \cup Edits) = {}
  /\ MaxBusy \in Nat /\ MaxRequests \in Nat /\ MaxFaults \in Nat

VARIABLES
  session,  \* the group_agent_sessions row of the chat
  issued,   \* session rows created so far: the next one's id
  private,  \* the private chat's row: whether it exists and its project
  project,  \* per project: its status
  bound,    \* the project that has this chat
  envs,     \* projects that have their default environment
  policies, \* the chat's policy rows, the one updated last at the end
  lock,     \* whose token the chat's Redis key holds
  runs,     \* per confirmed request: how far its run is
  at,       \* per request: the query it is going to make
  seen,     \* per request: the session row it read
  got,      \* per request: the project it works for
  env,      \* per request: the environment it works in
  page,     \* per project: the id of the session its configuration page found
  faults,
  crossed,  \* history: projects unbound, or the session's then, with requests under way
  unsettled,\* history: projects whose binding broke off or lost its session
  hasty,    \* history: messages for a project that was not bound to the end
  outdated, \* history: whether a policy of another project than the bound one was written
  orphaned  \* history: runs that lost the chat: a deletion, a reset, an unbinding or
            \* another run's late write took it, or a call of their own rejected

rowVars     == <<session, issued, private, project, bound, envs, policies>>
runVars     == <<lock, runs>>
requestVars == <<at, seen, got, env, page>>
historyVars == <<crossed, unsettled, hasty, outdated, orphaned>>
vars == <<rowVars, runVars, requestVars, faults, historyVars>>

Handlers == Projects \cup Requests
Settles  == {"free", "clear"}
Submits  == {"submit", "acquire", "queue", "mark", "enqueue"}
Waiting  == {"off", "before", "over", "refused", "handed", "free", "clear"}

Absent == [id |-> 0, proj |-> None, env |-> None, mode |-> "none", run |-> None,
           token |-> None]

Session == [id: Nat, proj: Projects \cup {None}, env: Projects \cup {None},
            mode: {"none", "pending_config", "active", "disabled"},
            run: Confirms \cup {None}, token: Confirms \cup {None}]

Exists(p) == p = None \/ project[p] \notin {"none", "gone"}

TypeOK ==
  /\ session \in Session /\ issued \in Nat /\ session.id <= issued
  /\ private \in [made: BOOLEAN, proj: Projects \cup {None}]
  /\ project \in [Projects -> {"none", "initializing", "active", "closed", "gone"}]
  /\ bound \in Projects \cup {None} /\ Exists(bound)
  /\ envs \subseteq Projects
  /\ policies \in Seq([proj: Projects, on: BOOLEAN, env: Projects \cup {None}])
  /\ lock \in Confirms \cup {None}
  /\ runs \in [Confirms -> {"none", "locked", "made", "live", "deleted", "settling", "over"}]
  /\ \A h \in Handlers : seen[h] \in Session /\ {got[h], env[h]} \subseteq Projects \cup {None}
  /\ page \in [Projects -> Nat] /\ faults \in 0..MaxFaults
  /\ crossed \cup unsettled \subseteq Projects /\ hasty \subseteq Mentions
  /\ outdated \in BOOLEAN /\ orphaned \subseteq Confirms
  \* the unique indexes
  /\ session.proj # None => session.proj # private.proj
  /\ \A i, j \in DOMAIN policies : policies[i].proj = policies[j].proj => i = j

\* A chat nobody has configured, or one with a project bound to it.
Init ==
  /\ \E p \in Projects \cup {None} :
       /\ session = IF p = None THEN Absent
                    ELSE [Absent EXCEPT !.id = 1, !.proj = p, !.env = p, !.mode = "active"]
       /\ issued = session.id
       /\ project = [q \in Projects |-> IF q = p THEN "active" ELSE "none"]
       /\ bound = p /\ envs = {p} \ {None}
       /\ policies = IF p = None THEN <<>> ELSE <<[proj |-> p, on |-> TRUE, env |-> p]>>
       /\ at = [h \in Handlers |-> IF h = p THEN "before" ELSE "off"]
  /\ private = [made |-> FALSE, proj |-> None]
  /\ lock = None /\ runs = [c \in Confirms |-> "none"]
  /\ seen = [h \in Handlers |-> Absent]
  /\ got = [h \in Handlers |-> None] /\ env = [h \in Handlers |-> None]
  /\ page = [q \in Projects |-> 0]
  /\ faults = 0 /\ crossed = {} /\ unsettled = {} /\ hasty = {} /\ outdated = FALSE
  /\ orphaned = {}

-----------------------------------------------------------------------------
(* The rows.                                                                *)

DefaultEnv(p) == IF p \in envs THEN p ELSE None

\* A request that has not come yet, while there is room for it.
Starts(h) ==
  /\ at[h] = "off"
  /\ Cardinality({x \in Handlers : at[x] \notin Waiting}) < MaxBusy
  /\ Cardinality({x \in Handlers : at[x] \notin {"off", "before"}}) < MaxRequests

Goes(h, to) == at' = [at EXCEPT ![h] = to]

\* The request ends, with an answer or an error: what it knew is of no use, but
\* where a message was handed to.
Ends(h, how) ==
  /\ Goes(h, how)
  /\ seen' = [seen EXCEPT ![h] = Absent]
  /\ got' = [got EXCEPT ![h] = None] /\ env' = [env EXCEPT ![h] = None]

\* It goes on; the id of its session matters to a submission only.
GoesOn(h, id, to) ==
  IF to = "over" THEN Ends(h, "over")
  ELSE /\ Goes(h, to)
       /\ seen' = [seen EXCEPT ![h] = [Absent EXCEPT !.id = IF to = "submit" THEN id ELSE 0]]
       /\ UNCHANGED <<got, env>>

\* What getOrCreateSession makes of the row, having read s: the project and the
\* environment only where it found none, the mode whenever it found another.
Filled(s, p, e, md) ==
  IF s.id = 0 THEN [Absent EXCEPT !.id = issued + 1, !.proj = p, !.env = e, !.mode = md]
  ELSE [session EXCEPT !.proj = IF p # None /\ s.proj = None THEN p ELSE @,
                       !.env  = IF e # None /\ s.env = None THEN e ELSE @,
                       !.mode = IF md # s.mode THEN md ELSE @]

\* Whether it has anything to write.
Writes(s, p, e, md) ==
  s.id = 0 \/ (p # None /\ s.proj = None) \/ (e # None /\ s.env = None) \/ md # s.mode

\* Whether Postgres takes the row n over what was read, s: the row is still the
\* one that was read, its references exist, and no other session has the project.
Accepted(s, n) ==
  /\ session.id = s.id
  /\ n.proj # session.proj => Exists(n.proj)
  /\ n.env # session.env => Exists(n.env)

Clashes(n) == n.proj # session.proj /\ n.proj # None /\ n.proj = private.proj

\* getOrCreateSession's second query, for a request that then goes to `to`.
GetOrCreate(h, p, e, md, to) ==
  LET s == seen[h]
      n == Filled(s, p, e, md)
      writes == Writes(s, p, e, md)
  IN \/ /\ ~writes /\ GoesOn(h, s.id, to)
        /\ UNCHANGED <<session, issued>>
     \/ /\ writes /\ Accepted(s, n) /\ ~Clashes(n)
        /\ session' = n /\ issued' = IF n.id > issued THEN n.id ELSE issued
        /\ GoesOn(h, n.id, to)
     \/ /\ writes /\ (~Accepted(s, n) \/ Clashes(n))
        /\ Ends(h, IF Accepted(s, n) THEN "refused" ELSE "over")
        /\ UNCHANGED <<session, issued>>

\* Where a request is when it reads the row, and where it goes from there.
AfterRead == [tag |-> "tagged", ask |-> "asked", enter |-> "entered", late |-> "confirmed",
              notice |-> "noticed", add |-> "added",
              bind |-> "binding", make |-> "making", remake |-> "remaking"]

\* The findUnique by chat and role.
ReadRow(h) ==
  /\ at[h] \in DOMAIN AfterRead
  /\ seen' = [seen EXCEPT ![h] = session]
  /\ Goes(h, AfterRead[at[h]])
  /\ UNCHANGED <<rowVars, runVars, got, env, page, faults, historyVars>>

Others == <<private, project, bound, envs, policies, runVars, page, faults, historyVars>>

\* Projects that are being unbound, or have been.
Parting == {p \in Projects : \/ p # bound /\ Exists(p)
                             \/ \E u \in Unbinds : at[u] = "close" /\ got[u] = p}

\* The project p that a request starts to work for, and the one the session names,
\* if p is being unbound or has been.
Crossing(p) == IF p \in Parting THEN {p, session.proj} \ {None} ELSE {}

\* The same for the project u unbinds, if another request is working meanwhile.
UnderWay(u) == IF \E h \in Handlers \ {u} : at[h] \notin Waiting \cup Submits /\ got[h] # None
                 THEN {got[u], session.proj} \ {None} ELSE {}

\* Projects whose binding has not come to its end.
Settling == unsettled \cup {p \in Projects : at[p] \notin Waiting}

-----------------------------------------------------------------------------
(* A group message: FeishuEventService.handle.                              *)

\* A mention by the bot's id refreshes the binding first.
Arrive(m) ==
  /\ m \in Mentions /\ Starts(m)
  /\ \E to \in {"tag", "lookup"} : Goes(m, to)
  /\ UNCHANGED <<rowVars, runVars, seen, got, env, page, faults, historyVars>>

\* upsertBotBinding without a project: the session is to be pending.
Tag(m) ==
  /\ at[m] = "tagged"
  /\ GetOrCreate(m, None, None, "pending_config", "lookup")
  /\ UNCHANGED Others

LookUp(m) ==
  /\ at[m] = "lookup"
  /\ got' = [got EXCEPT ![m] = bound]
  /\ Goes(m, IF bound = None THEN "ask" ELSE "policy")
  /\ crossed' = crossed \cup Crossing(bound)
  /\ hasty' = IF bound \in Settling THEN hasty \cup {m} ELSE hasty
  /\ UNCHANGED <<rowVars, runVars, seen, env, page, faults, unsettled, outdated, orphaned>>

\* handlePendingConfigGroup.
Pend(m) ==
  /\ at[m] = "asked"
  /\ GetOrCreate(m, None, None, "pending_config", "over")
  /\ UNCHANGED Others

\* resolveByChat takes the row updated last, whichever project it belongs to; a
\* policy that is off ends the message.
ReadPolicy(m) ==
  /\ at[m] = "policy"
  /\ IF policies = <<>> THEN Goes(m, "default") /\ UNCHANGED <<seen, got, env>>
     ELSE LET latest == policies[Len(policies)] IN
       IF ~latest.on THEN Ends(m, "over")
       ELSE /\ env' = [env EXCEPT ![m] = latest.env]
            /\ Goes(m, IF latest.env = None THEN "effective" ELSE "find")
            /\ UNCHANGED <<seen, got>>
  /\ UNCHANGED <<rowVars, runVars, page, faults, historyVars>>

\* The policies but p's.
Without(p) ==
  IF \E i \in DOMAIN policies : policies[i].proj = p
    THEN Seqs!RemoveAt(policies, CHOOSE i \in DOMAIN policies : policies[i].proj = p)
    ELSE policies

\* ensureDefaultPolicy: the row of that project and chat is made or touched.
Ensured(p) ==
  Append(Without(p),
         [proj |-> p, env |-> DefaultEnv(p),
          on |-> \A i \in DOMAIN policies : policies[i].proj = p => policies[i].on])

\* No policy: one is made for the project bound by now.
MakePolicy(m) ==
  /\ at[m] = "default"
  /\ IF bound = None THEN Goes(m, "effective") /\ UNCHANGED <<policies, env>>
     ELSE /\ policies' = Ensured(bound)
          /\ env' = [env EXCEPT ![m] = DefaultEnv(bound)]
          /\ Goes(m, IF DefaultEnv(bound) = None THEN "effective" ELSE "find")
  /\ UNCHANGED <<session, issued, private, project, bound, envs, runVars, seen, got, page, faults,
                 historyVars>>

\* environments.find.
FindEnv(m) ==
  /\ at[m] = "find"
  /\ IF Exists(env[m]) THEN Goes(m, "enter") /\ UNCHANGED <<seen, got, env>>
     ELSE Ends(m, "over")
  /\ UNCHANGED <<rowVars, runVars, page, faults, historyVars>>

\* getEffectiveEnvironment: what the session works in, else the project's default.
Effective(m) ==
  /\ at[m] = "effective"
  /\ LET e == IF session.env # None THEN session.env ELSE DefaultEnv(got[m]) IN
     IF e = None THEN Ends(m, "over")
     ELSE env' = [env EXCEPT ![m] = e] /\ Goes(m, "enter") /\ UNCHANGED <<seen, got>>
  /\ UNCHANGED <<rowVars, runVars, page, faults, historyVars>>

Enter(m) ==
  /\ at[m] = "entered"
  /\ GetOrCreate(m, got[m], env[m], "active", "source")
  /\ UNCHANGED Others

\* messageSource.create refers to the project and to the environment; then the
\* message is the runtime's.
Source(m) ==
  /\ at[m] = "source"
  /\ IF Exists(got[m]) /\ Exists(env[m])
       THEN Goes(m, "handed") /\ UNCHANGED <<seen, got, env>>
       ELSE Ends(m, "over")
  /\ UNCHANGED <<rowVars, runVars, page, faults, historyVars>>

-----------------------------------------------------------------------------
(* Other events.                                                            *)

\* A request of some project of the chat, bound or not any more, is confirmed.
Confirm(c) ==
  /\ c \in Confirms /\ Starts(c)
  /\ \E p \in envs :
       /\ project[p] # "initializing"
       /\ got' = [got EXCEPT ![c] = p] /\ env' = [env EXCEPT ![c] = p]
       /\ crossed' = crossed \cup Crossing(p)
  /\ Goes(c, "late")
  /\ UNCHANGED <<rowVars, runVars, seen, page, faults, unsettled, hasty, outdated, orphaned>>

Reopen(c) ==
  /\ at[c] = "confirmed"
  /\ GetOrCreate(c, got[c], env[c], "active", "submit")
  /\ UNCHANGED Others

\* submitGroupMessage looks the session, the project and the environment up ...
Submit(c) ==
  /\ at[c] = "submit"
  /\ IF session.id = seen[c].id /\ Exists(got[c])
       THEN Goes(c, "acquire") /\ UNCHANGED <<seen, got, env>>
       ELSE Ends(c, "over")
  /\ UNCHANGED <<rowVars, runVars, page, faults, historyVars>>

\* ... takes the chat's key ...
Acquire(c) ==
  /\ at[c] = "acquire"
  /\ IF lock = None
       THEN /\ lock' = c /\ runs' = [runs EXCEPT ![c] = "locked"]
            /\ Goes(c, "queue") /\ UNCHANGED <<seen, got, env>>
       ELSE Ends(c, "over") /\ UNCHANGED runVars
  /\ UNCHANGED <<rowVars, page, faults, historyVars>>

\* A request whose call rejected: the key stays, for queueGroupExecution is
\* returned without an await, and so does the run it made for its project.
Fails(c) ==
  /\ Goes(c, "over") /\ seen' = [seen EXCEPT ![c] = Absent] /\ UNCHANGED <<got, env>>
  /\ orphaned' = orphaned \cup {c}

\* ... makes the run, for a project and an environment that are there ...
Queue(c) ==
  /\ at[c] = "queue" /\ runs[c] = "locked"
  /\ IF Exists(got[c])
       THEN /\ runs' = [runs EXCEPT ![c] = "made"]
            /\ Goes(c, "mark") /\ UNCHANGED <<seen, got, env, orphaned>>
       ELSE Fails(c) /\ UNCHANGED runs
  /\ UNCHANGED <<rowVars, lock, page, faults, crossed, unsettled, hasty, outdated>>

\* ... writes its name and its token into the session it found, whatever is there:
\* another run, if its key was lost meanwhile ...
Mark(c) ==
  /\ at[c] = "mark"
  /\ IF session.id = seen[c].id /\ runs[c] = "made"
       THEN /\ session' = [session EXCEPT !.run = c, !.token = c, !.env = env[c]]
            /\ runs' = [runs EXCEPT ![c] = "live"]
            /\ orphaned' = IF c \in orphaned THEN orphaned \cup ({session.run} \ {None})
                           ELSE orphaned
            /\ Goes(c, "enqueue") /\ UNCHANGED <<seen, got, env>>
       ELSE Fails(c) /\ UNCHANGED <<session, runs>>
  /\ UNCHANGED <<issued, private, project, bound, envs, policies, lock, page, faults, crossed,
                 unsettled, hasty, outdated>>

\* ... and adds its job.
Enqueue(c) ==
  /\ at[c] = "enqueue"
  /\ GoesOn(c, 0, "handed")
  /\ UNCHANGED <<rowVars, runVars, page, faults, historyVars>>

\* The key the row's token names is deleted; without a token, whatever is there.
Released(token) == IF token \in {None, lock} THEN None ELSE lock

\* The run ends: handleRunStatusTransition finds the session by it, or the worker's
\* transition an error because the run's own row is gone ...
Settle(c) ==
  /\ c \in Confirms /\ at[c] = "handed" /\ runs[c] \in {"live", "deleted"}
  /\ IF runs[c] = "live" /\ session.run = c
       THEN /\ runs' = [runs EXCEPT ![c] = "settling"]
            /\ seen' = [seen EXCEPT ![c] = session] /\ Goes(c, "free")
       ELSE /\ runs' = [runs EXCEPT ![c] = IF @ = "live" THEN "over" ELSE @]
            /\ Goes(c, "over") /\ UNCHANGED seen
  /\ UNCHANGED <<rowVars, lock, got, env, page, faults, historyVars>>

\* (A mistake in the next definition: the row is cleared, the key is not.)
FreeBug(c) ==
  /\ at[c] = "free" /\ runs[c] \in {"settling", "deleted"}
  /\ runs' = [runs EXCEPT ![c] = IF @ = "settling" THEN "over" ELSE @]
  /\ Goes(c, "clear")
  /\ UNCHANGED <<rowVars, lock, seen, got, env, page, faults, historyVars>>

\* ... releases the key by the token it read ...
Free(c) ==
  /\ at[c] = "free" /\ runs[c] \in {"settling", "deleted"}
  /\ lock' = Released(seen[c].token)
  /\ runs' = [runs EXCEPT ![c] = IF @ = "settling" THEN "over" ELSE @]
  /\ Goes(c, "clear")
  /\ UNCHANGED <<rowVars, seen, got, env, page, faults, historyVars>>

\* ... and clears the row by its id: the name of a run that was submitted since
\* goes too.
Clear(c) ==
  /\ at[c] = "clear" /\ runs[c] \in {"over", "deleted"}
  /\ Goes(c, "over") /\ seen' = [seen EXCEPT ![c] = Absent]
  /\ IF session.id = seen[c].id
       THEN /\ session' = [session EXCEPT !.run = None, !.token = None]
            /\ orphaned' = orphaned \cup ({session.run} \ {None, c})
       ELSE UNCHANGED <<session, orphaned>>
  /\ UNCHANGED <<issued, private, project, bound, envs, policies, runVars, got, env, page, faults,
                 crossed, unsettled, hasty, outdated>>

\* The key's time to live is over; no submission takes that long.
Expire ==
  /\ lock # None /\ (runs[lock] \in {"locked", "made"} => lock \in orphaned)
  /\ lock' = None
  /\ UNCHANGED <<rowVars, runs, requestVars, faults, historyVars>>

\* syncGroupInfo, once the chat has been read from Feishu.
Notice(n) ==
  /\ n \in Notices /\ Starts(n) /\ Goes(n, "notice")
  /\ UNCHANGED <<rowVars, runVars, seen, got, env, page, faults, historyVars>>

Noticed(n) ==
  /\ at[n] = "noticed"
  /\ GetOrCreate(n, None, None, "pending_config", "over")
  /\ UNCHANGED Others

\* handleBotAddedEvent with the project it finds.
Add(a) ==
  /\ a \in Additions /\ Starts(a)
  /\ got' = [got EXCEPT ![a] = bound] /\ env' = [env EXCEPT ![a] = DefaultEnv(bound)]
  /\ Goes(a, "add")
  /\ crossed' = crossed \cup Crossing(bound)
  /\ UNCHANGED <<rowVars, runVars, seen, page, faults, unsettled, hasty, outdated, orphaned>>

Added(a) ==
  /\ at[a] = "added"
  /\ GetOrCreate(a, got[a], env[a], IF got[a] = None THEN "pending_config" ELSE "active", "over")
  /\ UNCHANGED Others

\* A private chat selects one of the active projects.
Select(d) ==
  /\ d \in Privates /\ Starts(d)
  /\ \E p \in Projects : project[p] = "active" /\ got' = [got EXCEPT ![d] = p]
  /\ Goes(d, "chosen")
  /\ UNCHANGED <<rowVars, runVars, seen, env, page, faults, historyVars>>

\* Its next message, with the context it left: getOrCreateSession on the private
\* chat's own row, which only this sender writes.
Private(d) ==
  /\ at[d] = "chosen"
  /\ LET p == got[d]
         takes == private.proj = None
     IN IF ~Exists(p) \/ (takes /\ session.proj = p)
          THEN /\ Ends(d, IF Exists(p) THEN "refused" ELSE "over")
               /\ UNCHANGED private
          ELSE /\ private' = [made |-> TRUE, proj |-> IF takes THEN p ELSE private.proj]
               /\ Goes(d, "handed") /\ UNCHANGED <<seen, got, env>>
  /\ UNCHANGED <<session, issued, project, bound, envs, policies, runVars, page, faults,
                 historyVars>>

\* updateByChat finds a policy as a message does ...
Edit(e) ==
  /\ e \in Edits /\ Starts(e)
  /\ LET p == IF policies = <<>> THEN bound ELSE policies[Len(policies)].proj IN
     /\ p # None
     /\ got' = [got EXCEPT ![e] = p]
     /\ policies' = IF policies = <<>> THEN Ensured(p) ELSE policies
  /\ Goes(e, "edit")
  /\ UNCHANGED <<session, issued, private, project, bound, envs, runVars, seen, env, page, faults,
                 historyVars>>

\* ... and updates it by its id, which makes it the latest.
Edited(e) ==
  /\ at[e] = "edit"
  /\ LET mine == {i \in DOMAIN policies : policies[i].proj = got[e]} IN
     IF mine = {} THEN UNCHANGED policies
     ELSE \E i \in mine, on \in BOOLEAN :
       policies' = Append(Without(got[e]), [policies[i] EXCEPT !.on = on])
  /\ Ends(e, "over")
  /\ outdated' = (outdated \/ got[e] # bound)
  /\ UNCHANGED <<session, issued, private, project, bound, envs, runVars, page, faults, crossed,
                 unsettled, hasty, orphaned>>

-----------------------------------------------------------------------------
(* Binding: completeConfig, initFromChat and bindProjectSession.            *)

\* The binding of p breaks off.
BreaksOff(p) == Ends(p, "over") /\ unsettled' = unsettled \cup {p}

\* initFromChat, by itself or for the configuration page, which wants a session
\* that is pending; the page's documents are made before the project.
Begin(p) ==
  /\ p \in Projects /\ Starts(p)
  /\ \/ page' = page
     \/ session.mode = "pending_config" /\ page' = [page EXCEPT ![p] = session.id]
  /\ got' = [got EXCEPT ![p] = p] /\ env' = [env EXCEPT ![p] = p]
  /\ Goes(p, "check")
  /\ UNCHANGED <<rowVars, runVars, seen, faults, historyVars>>

\* One project per chat: looked up before Feishu's documents are made ...
Check(p) ==
  /\ at[p] = "check"
  /\ IF bound = None THEN Goes(p, "create") /\ UNCHANGED <<seen, got, env>>
     ELSE Ends(p, "over")
  /\ UNCHANGED <<rowVars, runVars, page, faults, historyVars>>

\* ... and once more by the index when the row is created.
CreateProject(p) ==
  /\ at[p] = "create"
  /\ IF bound = None
       THEN /\ project' = [project EXCEPT ![p] = "initializing"] /\ bound' = p
            /\ Goes(p, "environment") /\ UNCHANGED <<seen, got, env>>
       ELSE Ends(p, "over") /\ UNCHANGED <<project, bound>>
  /\ UNCHANGED <<session, issued, private, envs, policies, runVars, page, faults, historyVars>>

\* environments.create with setDefault.
CreateEnv(p) ==
  /\ at[p] = "environment"
  /\ IF Exists(p)
       THEN envs' = envs \cup {p} /\ Goes(p, "activate") /\ UNCHANGED <<seen, got, env, unsettled>>
       ELSE BreaksOff(p) /\ UNCHANGED envs
  /\ UNCHANGED <<session, issued, private, project, bound, policies, runVars, page, faults, crossed,
                 hasty, outdated, orphaned>>

\* The update writes active whatever became of the project.
Activate(p) ==
  /\ at[p] = "activate"
  /\ IF Exists(p)
       THEN /\ project' = [project EXCEPT ![p] = "active"]
            /\ Goes(p, "bind") /\ UNCHANGED <<seen, got, env, unsettled>>
       ELSE BreaksOff(p) /\ UNCHANGED project
  /\ UNCHANGED <<session, issued, private, bound, envs, policies, runVars, page, faults, crossed,
                 hasty, outdated, orphaned>>

\* The page binds a second time, the session it found by its id.
ReadPage(p) ==
  /\ at[p] = "rebind"
  /\ seen' = [seen EXCEPT ![p] = IF session.id = page[p] THEN session ELSE Absent]
  /\ page' = [page EXCEPT ![p] = 0]
  /\ Goes(p, "rebinding")
  /\ UNCHANGED <<rowVars, runVars, got, env, faults, historyVars>>

\* (A mistake in the next definition: the project is left to the next message.)
BindBug(p) ==
  /\ at[p] \in {"binding", "rebinding"} /\ seen[p].id # 0 /\ session.id = seen[p].id
  /\ session' = [session EXCEPT !.env = p, !.mode = "active"]
  /\ GoesOn(p, 0, IF at[p] = "binding" THEN "allow" ELSE "over")
  /\ UNCHANGED <<issued, private, project, bound, envs, policies, runVars, page, faults,
                 historyVars>>

\* bindProjectSession's update replaces project, environment and mode; without a
\* session it is getOrCreateSession's turn.
Bind(p) ==
  /\ at[p] \in {"binding", "rebinding"}
  /\ LET first == at[p] = "binding"
         n == [session EXCEPT !.proj = p, !.env = p, !.mode = "active"]
     IN \/ /\ seen[p].id = 0 /\ GoesOn(p, 0, IF first THEN "make" ELSE "remake")
           /\ UNCHANGED <<session, unsettled>>
        \/ /\ seen[p].id # 0 /\ Accepted(seen[p], n) /\ ~Clashes(n)
           /\ session' = n /\ GoesOn(p, 0, IF first THEN "allow" ELSE "over")
           /\ UNCHANGED unsettled
        \/ /\ seen[p].id # 0 /\ (~Accepted(seen[p], n) \/ Clashes(n))
           /\ BreaksOff(p) /\ UNCHANGED session
  /\ UNCHANGED <<issued, private, project, bound, envs, policies, runVars, page, faults, crossed,
                 hasty, outdated, orphaned>>

Make(p) ==
  /\ at[p] \in {"making", "remaking"}
  /\ GetOrCreate(p, p, p, "active", IF at[p] = "making" THEN "allow" ELSE "over")
  /\ unsettled' = IF at'[p] = "refused" \/ (at[p] = "making" /\ at'[p] = "over")
                  THEN unsettled \cup {p} ELSE unsettled
  /\ UNCHANGED <<private, project, bound, envs, policies, runVars, page, faults, crossed, hasty,
                 outdated, orphaned>>

\* ensureDefaultPolicy for the new project.
\* (A mistake in the next definition: the policy of an earlier project will do.)
AllowBug(p) ==
  /\ at[p] = "allow" /\ Exists(p)
  /\ policies' = IF policies = <<>> THEN Ensured(p) ELSE policies
  /\ GoesOn(p, 0, IF page[p] = 0 THEN "over" ELSE "rebind")
  /\ UNCHANGED <<session, issued, private, project, bound, envs, runVars, page, faults,
                 historyVars>>

Allow(p) ==
  /\ at[p] = "allow"
  /\ outdated' = (outdated \/ p # bound)
  /\ IF Exists(p)
       THEN /\ policies' = Ensured(p)
            /\ GoesOn(p, 0, IF page[p] = 0 THEN "over" ELSE "rebind")
            /\ UNCHANGED unsettled
       ELSE BreaksOff(p) /\ UNCHANGED policies
  /\ UNCHANGED <<session, issued, private, project, bound, envs, runVars, page, faults, crossed, hasty,
                 orphaned>>

-----------------------------------------------------------------------------
(* Unbinding, deletion and reset.                                           *)

\* unbindByChat and cleanupByChat, up to disableByChat.
Unbind(u) ==
  /\ u \in Unbinds /\ Starts(u) /\ bound # None
  /\ got' = [got EXCEPT ![u] = bound]
  /\ Goes(u, "disable")
  /\ UNCHANGED <<rowVars, runVars, seen, env, page, faults, historyVars>>

\* disableByChat: nothing to disable without a session.
Disable(u) ==
  /\ at[u] = "disable"
  /\ seen' = [seen EXCEPT ![u] = session]
  /\ Goes(u, IF session.id = 0 THEN "close" ELSE "release")
  /\ crossed' = IF session.id = 0 THEN crossed \cup UnderWay(u) ELSE crossed
  /\ UNCHANGED <<rowVars, runVars, got, env, page, faults, unsettled, hasty, outdated, orphaned>>

\* releaseLock with the token read, if any.
Release(u) ==
  /\ at[u] = "release"
  /\ lock' = Released(seen[u].token)
  /\ orphaned' = orphaned \cup ({lock} \ {None, lock'})
  /\ Goes(u, "silence")
  /\ UNCHANGED <<rowVars, runs, seen, got, env, page, faults, crossed, unsettled, hasty, outdated>>

\* (A mistake in the next definition: the mode is left alone.)
SilenceBug(u) ==
  /\ at[u] = "silence" /\ session.id = seen[u].id
  /\ session' = [session EXCEPT !.run = None, !.token = None]
  /\ orphaned' = orphaned \cup ({session.run} \ {None})
  /\ crossed' = crossed \cup UnderWay(u)
  /\ GoesOn(u, 0, "close")
  /\ UNCHANGED <<issued, private, project, bound, envs, policies, runVars, page, faults, unsettled,
                 hasty, outdated>>

\* The row's update, if the session is still the one that was read.
Silence(u) ==
  /\ at[u] = "silence"
  /\ IF session.id = seen[u].id
       THEN /\ session' = [session EXCEPT !.mode = "disabled", !.run = None, !.token = None]
            /\ orphaned' = orphaned \cup ({session.run} \ {None})
            /\ crossed' = crossed \cup UnderWay(u)
            /\ GoesOn(u, 0, "close")
       ELSE Ends(u, "over") /\ UNCHANGED <<session, orphaned, crossed>>
  /\ UNCHANGED <<issued, private, project, bound, envs, policies, runVars, page, faults, unsettled,
                 hasty, outdated>>

\* The project gives the chat up.
Close(u) ==
  /\ at[u] = "close"
  /\ project' = IF Exists(got[u]) THEN [project EXCEPT ![got[u]] = "closed"] ELSE project
  /\ bound' = IF bound = got[u] THEN None ELSE bound
  /\ Ends(u, "over")
  /\ UNCHANGED <<session, issued, private, envs, policies, runVars, page, faults, historyVars>>

\* Both removals start from the project the session names.
Remove(d) ==
  /\ d \in Deletes \cup Resets /\ Starts(d) /\ session.id # 0
  /\ got' = [got EXCEPT ![d] = session.proj]
  /\ Goes(d, IF session.proj = None THEN "drop" ELSE "wipe")
  /\ UNCHANGED <<rowVars, runVars, seen, env, page, faults, historyVars>>

\* The rows of runs that have one.
Rows == {c \in Confirms : runs[c] \in {"made", "live", "settling", "over"}}

\* The project's runs go, running or not; the session's reference with them, its
\* token not, and the Redis key not.
Wipe(d) ==
  /\ at[d] = "wipe"
  /\ LET gone == {c \in Rows : got[c] = got[d]} IN
     /\ runs' = [c \in Confirms |-> IF c \in gone THEN "deleted" ELSE runs[c]]
     /\ session' = IF session.run \in gone THEN [session EXCEPT !.run = None] ELSE session
     /\ orphaned' = orphaned \cup gone
  /\ Goes(d, "unproject")
  /\ UNCHANGED <<issued, private, project, bound, envs, policies, lock, seen, got, env, page, faults,
                 crossed, unsettled, hasty, outdated>>

\* (A mistake in the next definition: what refers to the project is left as it is.)
UnprojectBug(d) ==
  /\ at[d] = "unproject"
  /\ project' = [project EXCEPT ![got[d]] = "gone"]
  /\ envs' = envs \ {got[d]}
  /\ Goes(d, "drop")
  /\ UNCHANGED <<session, issued, private, bound, policies, runVars, seen, got, env, page, faults,
                 historyVars>>

\* The project goes, what refers to it is cleared or goes too; a run made since
\* keeps its environment and with it the project.
Unproject(d) ==
  /\ at[d] = "unproject"
  /\ LET p == got[d] IN
     IF (d \in Resets /\ ~Exists(p)) \/ \E c \in Rows : got[c] = p
       THEN Ends(d, "over") /\ UNCHANGED <<session, private, project, bound, envs, policies>>
       ELSE /\ project' = [project EXCEPT ![p] = "gone"]
            /\ bound' = IF bound = p THEN None ELSE bound
            /\ envs' = envs \ {p}
            /\ policies' = Without(p)
            /\ session' = [session EXCEPT !.proj = IF @ = p THEN None ELSE @,
                                          !.env  = IF @ = p THEN None ELSE @]
            /\ private' = [private EXCEPT !.proj = IF @ = p THEN None ELSE @]
            /\ Goes(d, "drop") /\ UNCHANGED <<seen, got, env>>
  /\ UNCHANGED <<issued, runVars, page, faults, historyVars>>

\* The session's turn, whatever project it has come to by now.
Drop(d) ==
  /\ at[d] = "drop"
  /\ session' = IF session.id = 0 THEN session
                ELSE IF d \in Deletes THEN Absent
                ELSE [session EXCEPT !.proj = None, !.env = None, !.mode = "pending_config"]
  /\ orphaned' = IF d \in Deletes THEN orphaned \cup ({session.run} \ {None}) ELSE orphaned
  /\ unsettled' = unsettled \cup ({bound} \ {None})
  /\ hasty' = hasty \cup {m \in Mentions : at[m] \notin Waiting}
  /\ Ends(d, "over")
  /\ UNCHANGED <<issued, private, project, bound, envs, policies, runVars, page, faults, crossed,
                 outdated>>

\* A call to Postgres, Redis or Feishu rejects, or the process dies: no request
\* is taken up again.
Rejects(h) ==
  /\ at[h] \notin Waiting \/ at[h] \in Settles
  /\ faults < MaxFaults /\ faults' = faults + 1
  /\ \/ h \in Projects /\ BreaksOff(h) /\ UNCHANGED orphaned
     \/ h \in Confirms /\ Fails(h) /\ UNCHANGED unsettled
     \/ h \notin Projects \cup Confirms /\ Ends(h, "over") /\ UNCHANGED <<unsettled, orphaned>>
  /\ UNCHANGED <<rowVars, runVars, page, crossed, hasty, outdated>>

-----------------------------------------------------------------------------
Message(m) == Arrive(m) \/ Tag(m) \/ LookUp(m) \/ Pend(m) \/ ReadPolicy(m) \/ MakePolicy(m)
                \/ FindEnv(m) \/ Effective(m) \/ Enter(m) \/ Source(m)

Configure(p) == Begin(p) \/ Check(p) \/ CreateProject(p) \/ CreateEnv(p) \/ Activate(p)
                  \/ ReadPage(p) \/ Bind(p) \/ Make(p) \/ Allow(p)

Execution(c) == Submit(c) \/ Acquire(c) \/ Queue(c) \/ Mark(c) \/ Enqueue(c)
                  \/ Settle(c) \/ Free(c) \/ Clear(c)

Event(h) == Confirm(h) \/ Reopen(h) \/ Notice(h) \/ Noticed(h) \/ Add(h) \/ Added(h)
              \/ Select(h) \/ Private(h) \/ Edit(h) \/ Edited(h)

Administer(h) == Unbind(h) \/ Disable(h) \/ Release(h) \/ Silence(h) \/ Close(h)
                   \/ Remove(h) \/ Wipe(h) \/ Unproject(h) \/ Drop(h)

Next ==
  \/ \E h \in Handlers : ReadRow(h) \/ Message(h) \/ Configure(h) \/ Event(h)
                           \/ Execution(h) \/ Administer(h) \/ Rejects(h)
  \/ Expire

Spec == Init /\ [][Next]_vars

-----------------------------------------------------------------------------
(* Properties.                                                              *)

\* A group whose project was unbound does not work for it again, except when
\* some request was working for a project of the group while one was unbound, or
\* a request of the project was confirmed afterwards, or a binding has not come
\* to its end: getOrCreateSession writes active over disabled.
\* (group-agent-session.service.ts:67-69, project.service.ts:326-344)
ReopenedByCrossing ==
  session.mode = "active" /\ session.proj \notin {None, bound}
    => session.proj \in crossed \/ bound \in Settling

\* A message runs in its own project's environment, although policies outlive the
\* binding they were made for and the one updated last decides: the exceptions
\* are messages that came before the project was bound to the end, and an edit of
\* another project's policy.
\* (feishu-event.service.ts:149-165, group-policy.service.ts:91-101)
RunsInItsEnvironment ==
  \A m \in Mentions : at[m] = "handed" =>
    env[m] = got[m] \/ m \in hasty \/ got[m] \in crossed \/ outdated

\* A group message is only refused by the unique index on the session's project,
\* which a private chat may hold, if the project was not bound to the end, or some
\* project of the group was unbound while it was worked for.
\* (schema.prisma:334, group-agent-session.service.ts:80-92)
RefusedWhileUnsettled ==
  \A m \in Mentions : at[m] = "refused" => m \in hasty \/ crossed # {}

\* Whoever holds the chat's key is being submitted, or is alive and named by the
\* session with its token - until its own settling has read that - or has lost the
\* chat: to a deletion, a reset or an unbinding, to the last write of an earlier
\* run's settling or to a submission whose key an unbinding deleted, or because a
\* call of its own rejected.  So another request than those never leaves a key that
\* nobody will release.
\* (agent.service.ts:249-276, group-agent-session.service.ts:446-492,
\* admin.service.ts:141-231)
LockIsOwned ==
  lock # None =>
    \/ lock \in orphaned \/ runs[lock] \in {"locked", "made"}
    \/ runs[lock] \in {"live", "settling"} /\ session.run = lock /\ session.token = lock
=============================================================================
