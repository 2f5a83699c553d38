----------------------------- MODULE RuntimeTurn -----------------------------
(***************************************************************************)
(* The turns of one group: every mention of the bot is given to the        *)
(* model session that the worker process keeps in memory for the group,    *)
(* starts a turn there or is steered into the one that runs, and leaves    *)
(* its trace in the event log and in the session row.                      *)
(*                                                                         *)
(* The worker takes one mention at a time (FeishuEventProcessor, BullMQ's  *)
(* concurrency 1), but a turn goes on after the mention that started it    *)
(* was answered, and the processor of agent runs reopens the same session  *)
(* from another queue: handlers, turns and wake-ups interleave at awaits.  *)
(* The session object is replaced whenever its working directory or the    *)
(* sender's profile does not fit; turns of a replaced object still finish. *)
(***************************************************************************)
EXTENDS Naturals, Sequences, FiniteSets

CONSTANTS
  Messages,   \* mentions of the bot, each a Feishu event taken once
  Wakeups,    \* rehydrateSession calls of the agent-run processor
  Profiles,   \* role profiles: compile renders the sender into them
  None,
  Window,     \* the 100 events that a new session object reads
  Logged,     \* bound: numbers of events that an earlier process may have left
  MaxFaults   \* bound: crashes of the worker, and calls to Postgres, Feishu or
              \* the SDK that reject, in one behaviour

ASSUME RuntimeAssumption ==
  /\ None \notin Messages /\ None \notin Profiles
  /\ Window \in Nat \ {0} /\ MaxFaults \in Nat /\ Logged \subseteq Nat

VARIABLES
  states,    \* the session objects in the order they were created
  cached,    \* the index of the one in the adapter's map, 0 for none
  cwd,       \* where mentions work: the mirror, once the repository is ready
  profile,   \* per mention: the compiled profile of its sender
  at,        \* per mention: where its handler is
  on,        \* per mention: the session object submitMessage works with
  num,       \* per mention: the sequence number its event is stored under
  mem,       \* per mention: the runtime state that syncRuntimeState read
  turnAt,    \* per mention: where the turn it started is
  ranOn,     \* per mention: the session object its prompt runs in
  plan,      \* per mention: what applyRuntimeTurnResult has left to do
  turnNum,   \* per mention: the number of the event its turn stores
  wakeAt,    \* per wake-up: where it is
  log,       \* RuntimeEvent: the sequence numbers stored for the group
  stateLog,  \* those stored by SessionStateService, with the session's id
  row,       \* runtimeStateJson: its runtimeState and processingReaction
  reactions, \* mentions that show the processing reaction in the chat
  faults,    \* calls that rejected and crashes so far
  answered,  \* history: mentions whose turn sent a reply to the group
  troubled,  \* history: mentions whose turn timed out or met a rejected call
  cut        \* history: an object was filled from a log longer than Window

handlerVars == <<at, on, num, mem>>
fixedVars   == <<cwd, profile>>
turnVars    == <<turnAt, ranOn, plan, turnNum>>
rowVars     == <<row, reactions>>
storeVars   == <<log, stateLog, rowVars>>
historyVars == <<answered, troubled, cut>>
vars == <<states, cached, fixedVars, handlerVars, turnVars, wakeAt, storeVars, faults,
          historyVars>>

RuntimeState == {"idle", "running", "waiting_confirmation"}
Handling     == {"ensure", "create", "hydrate", "record", "state", "insert", "sync",
                 "clear", "attach"}
Recording    == {"asking", "completing", "failing"}
InTurn       == {"create", "prompt", "sending"} \cup Recording
Dirs         == {"mirror", "project"}
Object       == [cwd: Dirs, profile: Profiles \cup {None},
                 turn: Messages \cup {None}, exec: Messages \cup {None},
                 waiting: BOOLEAN, seq: Nat]

\* What is left of a result, in the order applyRuntimeTurnResult and its caller
\* work through it.  A confirmation for a task nobody knows does not make the
\* session wait.
Steps == {"reply", "ask", "askUnknown", "done", "stopped"}

TypeOK ==
  /\ states \in Seq(Object)
  /\ cached \in Nat /\ cached <= Len(states)
  /\ profile \in [Messages -> Profiles]
  /\ at \in [Messages -> Handling \cup {"new", "over", "rejected", "lost"}]
  /\ cwd \in Dirs
  /\ on \in [Messages -> Nat] /\ ranOn \in [Messages -> Nat]
  /\ num \in [Messages -> Nat] /\ turnNum \in [Messages -> Nat]
  /\ mem \in [Messages -> RuntimeState \cup {None}]
  /\ turnAt \in [Messages -> InTurn \cup {"none", "over", "lost"}]
  /\ plan \in [Messages -> Seq(Steps)]
  /\ wakeAt \in [Wakeups -> {"new", "create", "over", "lost"}]
  /\ log \in SUBSET Nat /\ stateLog \subseteq log
  /\ row \in [state: RuntimeState, reaction: Messages \cup {None}]
  /\ reactions \subseteq Messages
  \* the row knows the one mention that shows the reaction, unless a call failed
  /\ faults = 0 => reactions \subseteq {row.reaction}
  /\ faults \in 0..MaxFaults
  /\ answered \subseteq Messages /\ troubled \subseteq Messages
  /\ cut \in BOOLEAN

\* A group that was never mentioned, or one that was, before a restart.
Init ==
  /\ states = <<>> /\ cached = 0
  /\ profile \in [Messages -> Profiles]
  /\ at = [m \in Messages |-> "new"]
  /\ cwd \in Dirs
  /\ on = [m \in Messages |-> 0] /\ ranOn = [m \in Messages |-> 0]
  /\ num = [m \in Messages |-> 0] /\ turnNum = [m \in Messages |-> 0]
  /\ mem = [m \in Messages |-> None]
  /\ turnAt = [m \in Messages |-> "none"]
  /\ plan = [m \in Messages |-> <<>>]
  /\ wakeAt = [k \in Wakeups |-> "new"]
  /\ \E n \in Logged : log = 1..n
  /\ stateLog = {}
  /\ \E s \in IF log = {} THEN {"idle"} ELSE {"idle", "running"} :
       row = [state |-> s, reaction |-> None]
  /\ reactions = {} /\ faults = 0
  /\ answered = {} /\ troubled = {} /\ cut = FALSE

-----------------------------------------------------------------------------
(* Session objects.                                                         *)

NewObject(dir, p, m) == [cwd |-> dir, profile |-> p, turn |-> None, exec |-> m,
                         waiting |-> FALSE, seq |-> 0]

\* ensureSession uses the cached object again: same working directory, and no
\* two different profiles (a caller or an object without one accepts any).
Fits(dir, p) ==
  /\ cached # 0
  /\ states[cached].cwd = dir
  /\ p = None \/ states[cached].profile \in {None, p}

\* (A mistake in the next definition: a new object counts from the start again.)
HydratedBug == 0

\* The numbers after which a new object goes on: hydrateRuntimeState takes the
\* first Window events in ascending order and believes the last of them.
Hydrated ==
  IF log = {} THEN 0
  ELSE CHOOSE n \in log :
         Cardinality({k \in log : k <= n}) =
           IF Cardinality(log) <= Window THEN Cardinality(log) ELSE Window

\* submitMessage once the object is filled: the sender's profile is put on it,
\* and the number of message_submitted is taken in memory.
Submits(m, i, last) ==
  /\ states' = [states EXCEPT ![i].profile = profile[m], ![i].seq = last + 1]
  /\ num' = [num EXCEPT ![m] = last + 1]
  /\ at' = [at EXCEPT ![m] = "record"]

\* A call to Postgres, Feishu or the SDK rejects.
CallFails == faults < MaxFaults /\ faults' = faults + 1

\* The create of the event with number n goes through, or the unique index on
\* (runtimeSessionKey, sequence) or the database refuses it.
Stores(n) == n \notin log /\ log' = log \cup {n} /\ UNCHANGED faults
Refuses(n) == ((n \in log /\ UNCHANGED faults) \/ CallFails) /\ UNCHANGED log

Rejects(m) == at' = [at EXCEPT ![m] = "rejected"]

-----------------------------------------------------------------------------
(* A turn: runRuntimeTurn, executeGroupRuntimePrompt, applyRuntimeTurnResult. *)

\* The turn takes the next number of the object it was started on.
Records(m, objects, to) ==
  /\ states' = [objects EXCEPT ![on[m]].seq = @ + 1]
  /\ turnNum' = [turnNum EXCEPT ![m] = objects[on[m]].seq + 1]
  /\ turnAt' = [turnAt EXCEPT ![m] = to]

\* (A mistake in the next definition: the turn stays on the object.)
FinishesBug(m, objects) ==
  /\ states' = objects
  /\ turnAt' = [turnAt EXCEPT ![m] = "over"]
  /\ turnNum' = [turnNum EXCEPT ![m] = 0]

\* finally: the object has no turn any more.
Finishes(m, objects) ==
  /\ states' = [objects EXCEPT ![on[m]].turn = None]
  /\ turnAt' = [turnAt EXCEPT ![m] = "over"]
  /\ turnNum' = [turnNum EXCEPT ![m] = 0]

\* The catch of runRuntimeTurn, whatever rejected.
Fails(m, objects) ==
  /\ Records(m, objects, "failing")
  /\ plan' = [plan EXCEPT ![m] = <<>>]
  /\ troubled' = troubled \cup {m}

\* On to the next await of the result's application.
Applies(m, objects, rest) ==
  /\ plan' = [plan EXCEPT ![m] = Tail(rest)]
  /\ CASE Head(rest) = "reply" ->
            /\ turnAt' = [turnAt EXCEPT ![m] = "sending"]
            /\ states' = objects /\ UNCHANGED turnNum
       [] Head(rest) = "ask" ->
            Records(m, [objects EXCEPT ![on[m]].waiting = TRUE], "asking")
       [] Head(rest) = "askUnknown" -> Records(m, objects, "asking")
       [] Head(rest) = "done" /\ objects[on[m]].waiting -> Finishes(m, objects)
       [] OTHER -> Records(m, objects, "completing")

\* executeGroupRuntimePrompt puts the execution, the context and the profile on
\* the object and calls prompt, without an await after ensureSession returned.
Prompts(m, objects, i) ==
  /\ states' = [objects EXCEPT ![i].exec = m, ![i].profile = profile[m]]
  /\ ranOn' = [ranOn EXCEPT ![m] = i]
  /\ turnAt' = [turnAt EXCEPT ![m] = "prompt"]

\* run_now: the turn is entered on the message's object and calls ensureSession
\* itself, this time with that object's session file, which the cached object
\* may or may not share when it is another one.
StartsTurn(m) ==
  LET entered == [states EXCEPT ![on[m]].turn = m] IN
  \/ /\ Fits(cwd, profile[m])
     /\ Prompts(m, entered, cached)
     /\ UNCHANGED cached
  \/ /\ ~Fits(cwd, profile[m]) \/ cached # on[m]
     /\ cached' = 0
     /\ states' = entered
     /\ turnAt' = [turnAt EXCEPT ![m] = "create"]
     /\ UNCHANGED ranOn

\* ensureSession had to create an object: loadSdk, reload and createAgentSession
\* are awaited, and only then the object is put into the map, over any other.
CreateForTurn(m) ==
  /\ turnAt[m] = "create"
  /\ \/ /\ cached' = Len(states) + 1
        /\ Prompts(m, Append(states, NewObject(cwd, profile[m], m)), Len(states) + 1)
        /\ UNCHANGED <<turnNum, plan, troubled, faults>>
     \/ CallFails /\ Fails(m, states) /\ UNCHANGED <<cached, ranOn>>
  /\ UNCHANGED <<fixedVars, handlerVars, wakeAt, storeVars, answered, cut>>

\* (A mistake in the next definition: a prompt that called no tool stays silent.)
SucceededBug == {<<"done">>, <<"ask", "done">>}

\* ensureGroupRuntimeReplyAction: a result without a reply gets one at its end.
Succeeded == {<<"reply", "done">>, <<"reply", "ask", "done">>, <<"ask", "reply", "done">>,
              <<"askUnknown", "reply", "done">>}

\* What was called before the timeout is applied (hasSalvageableRuntimeResult).
TimedOut == {<<"stopped">>, <<"reply", "stopped">>, <<"ask", "stopped">>}

\* The SDK refuses to prompt a session that another turn's prompt is streaming in.
Busy(m) == \E n \in Messages \ {m} : turnAt[n] = "prompt" /\ ranOn[n] = ranOn[m]

\* The prompt returns, is aborted by its timeout or rejects; the finally clears
\* the object it ran in, whoever's execution that holds by now.
PromptEnds(m) ==
  LET objects == [states EXCEPT ![ranOn[m]].exec = None, ![ranOn[m]].profile = None] IN
  /\ turnAt[m] = "prompt"
  /\ ranOn' = [ranOn EXCEPT ![m] = 0]
  /\ \/ \E p \in Succeeded : Applies(m, objects, p) /\ UNCHANGED <<troubled, faults>>
     \/ \E p \in TimedOut : /\ Applies(m, objects, p)
                            /\ troubled' = troubled \cup {m} /\ UNCHANGED faults
     \/ (CallFails \/ (Busy(m) /\ UNCHANGED faults)) /\ Fails(m, objects)
  /\ UNCHANGED <<cached, fixedVars, handlerVars, wakeAt, storeVars, answered, cut>>

\* sendTextMessage of a reply_group action.
SendReply(m) ==
  /\ turnAt[m] = "sending"
  /\ \/ /\ answered' = answered \cup {m}
        /\ Applies(m, states, plan[m])
        /\ UNCHANGED <<troubled, faults>>
     \/ CallFails /\ Fails(m, states) /\ UNCHANGED answered
  /\ UNCHANGED <<cached, fixedVars, handlerVars, ranOn, wakeAt, storeVars, cut>>

\* The event confirmation_requested.  The turn's context was cleared with its
\* prompt, so no confirmation is created from it.
StoreAsk(m) ==
  /\ turnAt[m] = "asking"
  /\ \/ Stores(turnNum[m]) /\ Applies(m, states, plan[m]) /\ UNCHANGED troubled
     \/ Refuses(turnNum[m]) /\ Fails(m, states)
  /\ UNCHANGED <<cached, fixedVars, handlerVars, ranOn, wakeAt, stateLog, rowVars,
                 answered, cut>>

\* The event turn_completed of a turn that ran through.
StoreCompleted(m) ==
  /\ turnAt[m] = "completing"
  /\ \/ Stores(turnNum[m]) /\ Finishes(m, states) /\ UNCHANGED <<plan, troubled>>
     \/ Refuses(turnNum[m]) /\ Fails(m, states)
  /\ UNCHANGED <<cached, fixedVars, handlerVars, ranOn, wakeAt, stateLog, rowVars,
                 answered, cut>>

\* The event turn_completed of a turn that failed; its own refusal is logged only.
StoreFailed(m) ==
  /\ turnAt[m] = "failing"
  /\ Stores(turnNum[m]) \/ Refuses(turnNum[m])
  /\ Finishes(m, states)
  /\ UNCHANGED <<cached, fixedVars, handlerVars, ranOn, plan, wakeAt, stateLog, rowVars, historyVars>>

-----------------------------------------------------------------------------
(* A mention: handleMentionMessage, steer, submitMessage.                   *)

\* The worker takes the next mention.
Take(m) ==
  /\ at[m] = "new"
  /\ \A n \in Messages : at[n] \notin Handling
  /\ at' = [at EXCEPT ![m] = "ensure"]
  /\ UNCHANGED <<states, cached, fixedVars, on, num, mem, turnVars, wakeAt, storeVars, faults,
                 historyVars>>

\* ensureSession, without a session file; an object that does not fit is
\* disposed of and dropped, in the middle of its prompt or not.
Ensure(m) ==
  /\ at[m] = "ensure"
  /\ \/ /\ Fits(cwd, profile[m])
        /\ on' = [on EXCEPT ![m] = cached]
        /\ IF states[cached].seq = 0
             THEN at' = [at EXCEPT ![m] = "hydrate"] /\ UNCHANGED <<states, num>>
             ELSE Submits(m, cached, states[cached].seq)
        /\ UNCHANGED cached
     \/ /\ ~Fits(cwd, profile[m])
        /\ cached' = 0
        /\ at' = [at EXCEPT ![m] = "create"]
        /\ UNCHANGED <<states, on, num>>
  /\ UNCHANGED <<fixedVars, mem, turnVars, wakeAt, storeVars, faults, historyVars>>

CreateForMention(m) ==
  /\ at[m] = "create"
  /\ \/ /\ states' = Append(states, NewObject(cwd, profile[m], None))
        /\ cached' = Len(states) + 1
        /\ on' = [on EXCEPT ![m] = Len(states) + 1]
        /\ at' = [at EXCEPT ![m] = "hydrate"]
        /\ UNCHANGED faults
     \/ CallFails /\ Rejects(m) /\ UNCHANGED <<states, cached, on>>
  /\ UNCHANGED <<fixedVars, num, mem, turnVars, wakeAt, storeVars, historyVars>>

\* hydrateRuntimeState of an object that has counted nothing yet.
Hydrate(m) ==
  /\ at[m] = "hydrate"
  /\ \/ /\ Submits(m, on[m], Hydrated)
        /\ cut' = (cut \/ Cardinality(log) > Window)
        /\ UNCHANGED faults
     \/ CallFails /\ Rejects(m) /\ UNCHANGED <<states, num, cut>>
  /\ UNCHANGED <<cached, fixedVars, on, mem, turnVars, wakeAt, storeVars, answered,
                 troubled>>

\* The event message_submitted, and, in the same breath, submitMessage's branch:
\* a prompt under way is steered if it is streaming at that moment, which the SDK
\* knows; a session that waits, or has a turn, keeps the message in a queue nobody
\* empties; else a turn starts.
StoreSubmitted(m) ==
  LET object == states[on[m]] IN
  /\ at[m] = "record"
  /\ num' = [num EXCEPT ![m] = 0]
  /\ \/ /\ Stores(num[m])
        /\ at' = [at EXCEPT ![m] = "state"]
        /\ \/ /\ object.exec # None \/ object.waiting \/ object.turn # None
              /\ UNCHANGED <<states, cached, turnAt, ranOn>>
           \/ ~object.waiting /\ object.turn = None /\ StartsTurn(m)
     \/ Refuses(num[m]) /\ Rejects(m) /\ UNCHANGED <<states, cached, turnAt, ranOn>>
     \/ /\ object.exec # None \* the event is stored and session.steer rejects
        /\ num[m] \notin log /\ log' = log \cup {num[m]}
        /\ CallFails /\ Rejects(m) /\ UNCHANGED <<states, cached, turnAt, ranOn>>
  /\ UNCHANGED <<fixedVars, on, mem, plan, turnNum, wakeAt, stateLog, rowVars, historyVars>>

\* getRuntimeState
MemoryState ==
  IF cached = 0 THEN None
  ELSE IF states[cached].waiting THEN "waiting_confirmation"
  ELSE IF states[cached].turn # None \/ states[cached].exec # None THEN "running"
  ELSE "idle"

\* syncRuntimeState reads the memory first and writes it after another call.
ReadsMemory(m) ==
  /\ mem' = [mem EXCEPT ![m] = MemoryState]
  /\ at' = [at EXCEPT ![m] = "sync"]

\* getState, and transitionTo(running) of an idle session.
UpdateState(m) ==
  /\ at[m] = "state"
  /\ \/ /\ row.state = "idle"
        /\ row' = [row EXCEPT !.state = "running"]
        /\ at' = [at EXCEPT ![m] = "insert"]
        /\ UNCHANGED <<mem, faults>>
     \/ row.state # "idle" /\ ReadsMemory(m) /\ UNCHANGED <<row, faults>>
     \/ CallFails /\ Rejects(m) /\ UNCHANGED <<row, mem>>
  /\ UNCHANGED <<states, cached, fixedVars, on, num, turnVars, wakeAt, log, stateLog,
                 reactions, historyVars>>

\* getNextSequence counts the events that carry the session's id, which the
\* adapter's never do.
NextSequence == IF stateLog = {} THEN 1
                ELSE 1 + CHOOSE n \in stateLog : \A k \in stateLog : k <= n

\* transitionTo's event: a refusal ends the handler, the row stays running.
StoreTransition(m) ==
  /\ at[m] = "insert"
  /\ \/ Stores(NextSequence) /\ stateLog' = stateLog \cup {NextSequence} /\ ReadsMemory(m)
     \/ Refuses(NextSequence) /\ Rejects(m) /\ UNCHANGED <<stateLog, mem>>
  /\ UNCHANGED <<states, cached, fixedVars, on, num, turnVars, wakeAt, rowVars, historyVars>>

\* syncRuntimeSessionState, and updateRuntimeStateJson unless getRuntimeState was null.
SyncRow(m) ==
  /\ at[m] = "sync"
  /\ mem' = [mem EXCEPT ![m] = None]
  /\ \/ /\ row' = IF mem[m] = None THEN row ELSE [row EXCEPT !.state = mem[m]]
        /\ at' = [at EXCEPT ![m] = "clear"]
        /\ UNCHANGED faults
     \/ CallFails /\ Rejects(m) /\ UNCHANGED row
  /\ UNCHANGED <<states, cached, fixedVars, on, num, turnVars, wakeAt, log, stateLog,
                 reactions, historyVars>>

\* (A mistake in the next definition: the last mention's reaction stays in the chat.)
ClearReactionBug(m) ==
  /\ at[m] = "clear"
  /\ at' = [at EXCEPT ![m] = "attach"]
  /\ UNCHANGED <<states, cached, fixedVars, on, num, mem, turnVars, wakeAt, storeVars,
                 faults, historyVars>>

\* clearProcessingReaction takes the last mention's reaction back; the key it deletes
\* returns with the merge of updateRuntimeStateJson.  Only Feishu's rejection is
\* caught, that of the two calls for the row ends the handler.
ClearReaction(m) ==
  LET kept == reactions \ {row.reaction} IN
  /\ at[m] = "clear"
  /\ \/ /\ at' = [at EXCEPT ![m] = "attach"]
        /\ (reactions' = kept /\ UNCHANGED faults) \/ (CallFails /\ UNCHANGED reactions)
     \/ CallFails /\ Rejects(m) /\ reactions' \in {reactions, kept}
  /\ UNCHANGED <<states, cached, fixedVars, on, num, mem, turnVars, wakeAt, log, stateLog,
                 row, historyVars>>

\* attachProcessingReaction sets this mention's; what rejects in it is only logged.
AttachReaction(m) ==
  /\ at[m] = "attach"
  /\ at' = [at EXCEPT ![m] = "over"]
  /\ \/ /\ reactions' = reactions \cup {m} /\ row' = [row EXCEPT !.reaction = m]
        /\ UNCHANGED faults
     \/ CallFails /\ reactions' \in {reactions, reactions \cup {m}} /\ UNCHANGED row
  /\ UNCHANGED <<states, cached, fixedVars, on, num, mem, turnVars, wakeAt, log, stateLog,
                 historyVars>>

-----------------------------------------------------------------------------
(* The rest of the worker.                                                  *)

\* rehydrateSession for a run about to execute: no profile, the session row's
\* file, and the project's directory even where mentions work in the mirror.
Wake(k) ==
  /\ wakeAt[k] = "new"
  /\ \/ /\ Fits("project", None)
        /\ wakeAt' = [wakeAt EXCEPT ![k] = "over"]
        /\ UNCHANGED cached
     \/ /\ wakeAt' = [wakeAt EXCEPT ![k] = "create"]
        /\ cached' = 0
  /\ UNCHANGED <<states, fixedVars, handlerVars, turnVars, storeVars, faults, historyVars>>

CreateForWake(k) ==
  /\ wakeAt[k] = "create"
  /\ states' = Append(states, NewObject("project", None, None))
  /\ cached' = Len(states) + 1
  /\ wakeAt' = [wakeAt EXCEPT ![k] = "over"]
  /\ UNCHANGED <<fixedVars, handlerVars, turnVars, storeVars, faults, historyVars>>

\* The worker dies: memory is gone, and the deduplication row keeps the mention
\* that was being handled from being taken again.
Crash ==
  /\ faults < MaxFaults
  /\ faults' = faults + 1
  /\ states' = <<>> /\ cached' = 0
  /\ at' = [m \in Messages |-> IF at[m] \in Handling THEN "lost" ELSE at[m]]
  /\ turnAt' = [m \in Messages |-> IF turnAt[m] \in InTurn THEN "lost" ELSE turnAt[m]]
  /\ wakeAt' = [k \in Wakeups |-> IF wakeAt[k] = "create" THEN "lost" ELSE wakeAt[k]]
  /\ on' = [m \in Messages |-> 0] /\ ranOn' = on'
  /\ num' = on' /\ turnNum' = on'
  /\ mem' = [m \in Messages |-> None] /\ plan' = [m \in Messages |-> <<>>]
  /\ UNCHANGED <<fixedVars, storeVars, historyVars>>

Handles(m) ==
  \/ Ensure(m) \/ CreateForMention(m) \/ Hydrate(m) \/ StoreSubmitted(m) \/ UpdateState(m)
  \/ StoreTransition(m) \/ SyncRow(m) \/ ClearReaction(m) \/ AttachReaction(m)

Turns(m) ==
  \/ CreateForTurn(m) \/ PromptEnds(m) \/ SendReply(m) \/ StoreAsk(m) \/ StoreCompleted(m)
  \/ StoreFailed(m)

Next ==
  \/ \E m \in Messages : Take(m) \/ Handles(m) \/ Turns(m)
  \/ \E k \in Wakeups : Wake(k) \/ CreateForWake(k)
  \/ Crash

Spec == Init /\ [][Next]_vars

-----------------------------------------------------------------------------
(* Properties.                                                              *)

\* A session object names a turn exactly while that turn is in progress on it:
\* two mentions never work on one object at once, and a turn that fails at any
\* of its calls does not leave the group running for ever, with every later
\* mention queued behind nothing (submitMessage:389-417, runRuntimeTurn's finally).
TurnInv ==
  /\ \A m \in Messages : turnAt[m] \in InTurn =>
       on[m] \in 1..Len(states) /\ states[on[m]].turn = m
  /\ \A i \in 1..Len(states) : states[i].turn # None =>
       turnAt[states[i].turn] \in InTurn /\ on[states[i].turn] = i

\* What else can take a number from under whoever is about to store an event: a second
\* session object of the group, a call that failed before, and an object that was
\* filled from a log longer than hydrateRuntimeState reads (1644-1664).
Disturbed == Len(states) > 1 \/ faults > 0 \/ cut

\* Of the events stored for a group undisturbed, the adapter's have free numbers, a
\* mention's and a turn's, and transitionTo's never has: it counts only events with
\* the session's id, finds none, and takes 1, which the adapter's first event has
\* (session-state.service.ts:61-75, 154-161).  So a mention that finds the session
\* idle always ends there, and there are no other collisions.
KnownCollisions ==
  ~Disturbed => \A m \in Messages :
    /\ at[m] = "record" => num[m] \notin log
    /\ turnAt[m] \in Recording => turnNum[m] \notin log
    /\ at[m] = "insert" => NextSequence \in log

\* A turn that neither timed out nor met a failing call or a taken number replied to the group:
\* ensureGroupRuntimeReplyAction adds what the model forgot (1560-1577).
TurnAnswers ==
  \A m \in Messages :
    turnAt[m] = "over" => m \in answered \cup troubled
=============================================================================
