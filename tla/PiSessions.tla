---------------------------- MODULE PiSessions ----------------------------
(***************************************************************************)
(* PiExecutor and PiSessionManager in one process: the prompts of a chat   *)
(* and the SDK session they share.                                         *)
(*                                                                         *)
(* The map of a process keeps one object per runtime session key.  It is   *)
(* entered before its SDK session is made, reused by every prompt of the   *)
(* chat that wants the same place (working directory, profile and store    *)
(* file), and disposed of by one that wants another, in use or not.        *)
(* Timers and cancel polls of a prompt abort the session, not the prompt.  *)
(*                                                                         *)
(* One key stands for all: objects of different keys share nothing.  The   *)
(* group lock keeps prompts of a chat apart but expires, and runs of       *)
(* private chats take none, so a decision may meet a run at any time.      *)
(***************************************************************************)
EXTENDS Naturals, Sequences, FiniteSets

CONSTANTS
  Runs,       \* executePrompt: runs, which the worker takes one at a time
  Decisions,  \* executeDecisionPrompt
  Places,     \* what a session is made for
  None,
  MaxFaults   \* bound: rejections other than the model's in one behaviour

Execs == Runs \cup Decisions

ASSUME PiSessionsAssumption ==
  /\ Runs \cap Decisions = {} /\ None \notin Execs \cup Places
  /\ MaxFaults \in Nat

VARIABLES
  objects,   \* the SessionRuntimeStates made so far, kept in the map or not
  cached,    \* the map's entry: an index, or 0
  at,        \* per execution: what it awaits
  wants,     \* per execution: the place it makes an object for
  obj,       \* per execution: its object, or 0
  flags,     \* per execution: which of canceled and timedOut are set
  timers,    \* executions whose timeout is armed
  polls,     \* runs whose cancel watcher is armed
  asking,    \* runs whose watcher awaits Redis
  key,       \* runs whose cancel key is set
  outcome,   \* per execution: what it comes back with
  faults,
  aborted,   \* history: executions whose prompt was aborted
  shared,    \* history: executions that met another one on their object
  raced      \* history: objects whose making met another

execVars    == <<at, wants, obj, outcome>>
timerVars   == <<timers, polls, asking>>
historyVars == <<aborted, shared, raced>>
vars == <<objects, cached, execVars, flags, timerVars, key, faults, historyVars>>

Session == {"none", "live", "disposed"}
Outcome == {"succeeded", "timeout", "canceled", "error", "none"}
Using   == {"check", "prompt", "clean"}

TypeOK ==
  /\ objects \in Seq([place: Places, session: Session])
  /\ cached \in 0..Len(objects)
  /\ at \in [Execs -> {"idle", "load", "create", "over"} \cup Using]
  /\ wants \in [Execs -> Places \cup {None}]
  /\ obj \in [Execs -> 0..Len(objects)]
  /\ outcome \in [Execs -> Outcome]
  /\ flags \in [Execs -> SUBSET {"canceled", "timedOut"}]
  \* a prompt's timeout and watcher are armed while it runs and no longer
  /\ timers \subseteq {e \in Execs : at[e] = "prompt"}
  /\ polls \subseteq {r \in Runs : at[r] = "prompt"}
  /\ asking \subseteq {r \in Runs : at[r] \in {"prompt", "clean"}}
  /\ key \subseteq Runs /\ faults \in 0..MaxFaults
  /\ aborted \subseteq Execs /\ shared \subseteq Execs /\ raced \subseteq DOMAIN objects
  /\ \A e \in Execs : /\ at[e] \in Using \cup {"create"} => obj[e] # 0
                      /\ at[e] = "load" => wants[e] # None
  /\ cached # 0 => objects[cached].session # "disposed"

Init ==
  /\ objects = <<>> /\ cached = 0
  /\ at = [e \in Execs |-> "idle"] /\ wants = [e \in Execs |-> None]
  /\ obj = [e \in Execs |-> 0] /\ outcome = [e \in Execs |-> "none"]
  /\ flags = [e \in Execs |-> {}]
  /\ timers = {} /\ polls = {} /\ asking = {} /\ key = {}
  /\ faults = 0 /\ aborted = {} /\ shared = {} /\ raced = {}

-----------------------------------------------------------------------------
(* What the steps are made of.                                              *)

Goes(e, to) == at' = [at EXCEPT ![e] = to]

Ends(e, how) == Goes(e, "over") /\ outcome' = [outcome EXCEPT ![e] = how]

Prompting(i) == {e \in Execs : at[e] = "prompt" /\ obj[e] = i}

\* session.abort(): every prompt of the session returns.
Abort(i) == aborted' = aborted \cup Prompting(i)

Disarm(e) == timers' = timers \ {e} /\ polls' = polls \ {e}

\* (A mistake in the next definition: finally does not clear the timeout.)
FinallyBug(e, how) ==
  /\ IF e \in Runs THEN Goes(e, "clean") /\ outcome' = [outcome EXCEPT ![e] = how]
                   ELSE Ends(e, how)
  /\ polls' = polls \ {e} /\ UNCHANGED timers

\* finally: timers off, and a run waits for its cancel key to be deleted before
\* it comes back.
Finally(e, how) ==
  /\ IF e \in Runs THEN Goes(e, "clean") /\ outcome' = [outcome EXCEPT ![e] = how]
                   ELSE Ends(e, how)
  /\ Disarm(e)

\* The object is the execution's; a run asks for its cancel key first.
Prompts(e, i, live) ==
  IF ~live THEN Finally(e, "error")
  ELSE \/ /\ Goes(e, "prompt") /\ UNCHANGED outcome
          /\ timers' = timers \cup {e}
          /\ polls' = IF e \in Runs THEN polls \cup {e} ELSE polls
       \* the SDK may refuse a session that is at work, or disposed of
       \/ /\ Prompting(i) # {} \/ objects[i].session = "disposed"
          /\ Finally(e, "error")

Enters(e, i, live) ==
  /\ obj' = [obj EXCEPT ![e] = i]
  /\ LET met == {x \in Execs \ {e} : obj[x] = i /\ at[x] \in Using}
     IN shared' = IF met = {} THEN shared ELSE shared \cup met \cup {e}
  /\ IF e \in Runs THEN Goes(e, "check") /\ UNCHANGED <<outcome, timers, polls>>
                   ELSE Prompts(e, i, live)

-----------------------------------------------------------------------------
(* ensureSession.                                                           *)

Loads(e, p) == Goes(e, "load") /\ wants' = [wants EXCEPT ![e] = p]

\* (A mistake in the next definition: the old session is only taken from the map.)
ReplaceBug(e, p) ==
  /\ at[e] = "idle" /\ cached # 0 /\ objects[cached].place # p
  /\ e \in Runs => \A r \in Runs : at[r] \in {"idle", "over"}
  /\ IF objects[cached].session = "none"
       THEN Ends(e, "error") /\ UNCHANGED <<objects, cached, wants>>
       ELSE cached' = 0 /\ UNCHANGED <<objects, outcome>> /\ Loads(e, p)
  /\ UNCHANGED <<obj, flags, timerVars, key, faults, historyVars>>

\* A session for another place is disposed of, whoever uses it; one that is not
\* there yet has no dispose.
Replace(e, p) ==
  /\ at[e] = "idle" /\ cached # 0 /\ objects[cached].place # p
  /\ e \in Runs => \A r \in Runs : at[r] \in {"idle", "over"}
  /\ IF objects[cached].session = "none"
       THEN Ends(e, "error") /\ UNCHANGED <<objects, cached, wants>>
       ELSE /\ objects' = [objects EXCEPT ![cached].session = "disposed"]
            /\ cached' = 0 /\ UNCHANGED outcome /\ Loads(e, p)
  /\ UNCHANGED <<obj, flags, timerVars, key, faults, historyVars>>

\* The cached object fits, be its session there or not.
Reuse(e, p) ==
  /\ at[e] = "idle" /\ cached # 0 /\ objects[cached].place = p
  /\ e \in Runs => \A r \in Runs : at[r] \in {"idle", "over"}
  /\ Enters(e, cached, objects[cached].session # "none")
  /\ UNCHANGED <<objects, cached, wants, flags, asking, key, faults, aborted, raced>>

Create(e, p) ==
  /\ at[e] = "idle" /\ cached = 0
  /\ e \in Runs => \A r \in Runs : at[r] \in {"idle", "over"}
  /\ Loads(e, p)
  /\ UNCHANGED <<objects, cached, obj, outcome, flags, timerVars, key, faults, historyVars>>

\* Resources are loaded: the object is in the map before it has a session, and
\* in the place of one another call put there meanwhile.
CreateState(e) ==
  /\ at[e] = "load"
  /\ objects' = Append(objects, [place |-> wants[e], session |-> "none"])
  /\ cached' = Len(objects') /\ obj' = [obj EXCEPT ![e] = Len(objects')]
  /\ raced' = IF cached = 0 THEN raced ELSE raced \cup {cached}
  /\ Goes(e, "create") /\ wants' = [wants EXCEPT ![e] = None]
  /\ UNCHANGED <<outcome, flags, timerVars, key, faults, aborted, shared>>

\* createAgentSession resolves.
SessionMade(e) ==
  /\ at[e] = "create"
  /\ objects' = [objects EXCEPT ![obj[e]].session = "live"]
  /\ Enters(e, obj[e], TRUE)
  /\ UNCHANGED <<cached, wants, flags, asking, key, faults, aborted, raced>>

\* loadSdk, reload or createAgentSession rejects; what is in the map stays.
NotMade(e) ==
  /\ at[e] \in {"load", "create"} /\ faults < MaxFaults /\ faults' = faults + 1
  /\ Ends(e, "error") /\ wants' = [wants EXCEPT ![e] = None]
  /\ UNCHANGED <<objects, cached, obj, flags, timerVars, key, historyVars>>

-----------------------------------------------------------------------------
(* executePrompt and executeDecisionPrompt.                                 *)

\* isCancellationRequested, and the prompt if it was not.
Check(r) ==
  /\ at[r] = "check"
  /\ LET live == objects[obj[r]].session # "none" IN
     IF r \in key
       THEN /\ flags' = [flags EXCEPT ![r] = {"canceled"}]
            /\ Finally(r, IF live THEN "canceled" ELSE "error")
       ELSE Prompts(r, obj[r], live) /\ UNCHANGED flags
  /\ UNCHANGED <<objects, cached, wants, obj, asking, key, faults, historyVars>>

\* What the flags say once the prompt is over.  Nothing offers emit_decision to
\* these sessions, so a decision that ends in time has none.
Result(e) ==
  CASE "timedOut" \in flags[e] -> "timeout"
    [] "timedOut" \notin flags[e] /\ "canceled" \in flags[e] -> "canceled"
    [] flags[e] = {} -> IF e \in Runs THEN "succeeded" ELSE "error"

\* session.prompt resolves.
PromptEnds(e) ==
  /\ at[e] = "prompt" /\ Finally(e, Result(e))
  /\ UNCHANGED <<objects, cached, wants, obj, flags, asking, key, faults, historyVars>>

\* session.prompt rejects.
PromptFails(e) ==
  /\ at[e] = "prompt" /\ Finally(e, IF flags[e] = {} THEN "error" ELSE Result(e))
  /\ UNCHANGED <<objects, cached, wants, obj, flags, asking, key, faults, historyVars>>

Timeout(e) ==
  /\ e \in timers /\ timers' = timers \ {e}
  /\ flags' = [flags EXCEPT ![e] = @ \cup {"timedOut"}]
  /\ Abort(obj[e])
  /\ UNCHANGED <<objects, cached, execVars, polls, asking, key, faults, shared, raced>>

\* watchCancellation, every half second, up to its await.
Poll(r) ==
  /\ r \in polls \ asking /\ "canceled" \notin flags[r]
  /\ asking' = asking \cup {r}
  /\ UNCHANGED <<objects, cached, execVars, flags, timers, polls, key, faults, historyVars>>

\* (A mistake in the next definition: the flag is set, the session not aborted.)
AnswerBug(r) ==
  /\ r \in asking /\ asking' = asking \ {r}
  /\ flags' = IF r \in key THEN [flags EXCEPT ![r] = @ \cup {"canceled"}] ELSE flags
  /\ UNCHANGED <<objects, cached, execVars, timers, polls, key, faults, historyVars>>

\* Redis answers, perhaps after the prompt is over.
Answer(r) ==
  /\ r \in asking /\ asking' = asking \ {r}
  /\ IF r \in key
       THEN flags' = [flags EXCEPT ![r] = @ \cup {"canceled"}] /\ Abort(obj[r])
       ELSE UNCHANGED <<flags, aborted>>
  /\ UNCHANGED <<objects, cached, execVars, timers, polls, key, faults, shared, raced>>

\* redis.del, answered after the watcher's get: one connection keeps the order.
Clean(r) ==
  /\ at[r] = "clean" /\ r \notin asking
  /\ key' = key \ {r} /\ Goes(r, "over")
  /\ UNCHANGED <<objects, cached, wants, obj, outcome, flags, timerVars, faults, historyVars>>

\* redis.del rejects, and the result is lost.
CleanFails(r) ==
  /\ at[r] = "clean" /\ r \notin asking
  /\ faults < MaxFaults /\ faults' = faults + 1
  /\ Ends(r, "error")
  /\ UNCHANGED <<objects, cached, wants, obj, flags, timerVars, key, historyVars>>

\* redis.get rejects before the prompt.
CheckFails(r) ==
  /\ at[r] = "check" /\ faults < MaxFaults /\ faults' = faults + 1
  /\ Finally(r, "error")
  /\ UNCHANGED <<objects, cached, wants, obj, flags, asking, key, historyVars>>

\* cancelRun sets the key, in the API process: it finds no live run there.  A key
\* that comes too late is read by nobody.
CancelRun(r) ==
  /\ r \notin key /\ at[r] # "over" /\ key' = key \cup {r}
  /\ UNCHANGED <<objects, cached, execVars, flags, timerVars, faults, historyVars>>

\* The process dies: by itself, or of the watcher's rejection, which nobody
\* handles.
ProcessDies ==
  /\ faults < MaxFaults /\ faults' = faults + 1
  /\ objects' = [i \in DOMAIN objects |-> [objects[i] EXCEPT !.session = "disposed"]]
  /\ cached' = 0 /\ timers' = {} /\ polls' = {} /\ asking' = {}
  /\ at' = [e \in Execs |-> IF at[e] = "idle" THEN "idle" ELSE "over"]
  /\ outcome' = [e \in Execs |-> IF at[e] \in {"idle", "over"} THEN outcome[e] ELSE "error"]
  /\ wants' = [e \in Execs |-> None]
  /\ UNCHANGED <<obj, flags, key, historyVars>>

-----------------------------------------------------------------------------
Ensure(e) == \E p \in Places : Replace(e, p) \/ Reuse(e, p) \/ Create(e, p)

Next ==
  \/ \E e \in Execs :
       \/ Ensure(e) \/ CreateState(e) \/ SessionMade(e) \/ NotMade(e)
       \/ PromptEnds(e) \/ PromptFails(e) \/ Timeout(e)
  \/ \E r \in Runs :
       \/ Check(r) \/ Poll(r) \/ Answer(r) \/ Clean(r) \/ CleanFails(r) \/ CheckFails(r)
       \/ CancelRun(r)
  \/ ProcessDies

Spec == Init /\ [][Next]_vars

\* The SDK makes sessions, an aborted prompt returns, Redis answers, the watcher
\* polls and a decision's twenty seconds pass; nothing says that the model
\* answers, and a run's timeout is not needed here.
Fairness ==
  /\ \A e \in Execs : WF_vars(CreateState(e)) /\ WF_vars(SessionMade(e))
                      /\ WF_vars(e \in aborted /\ PromptEnds(e))
  /\ \A r \in Runs : /\ WF_vars(Check(r)) /\ WF_vars(Clean(r))
                     /\ WF_vars(Poll(r)) /\ WF_vars(Answer(r))
  /\ \A d \in Decisions : WF_vars(Timeout(d))

FairSpec == Spec /\ Fairness

-----------------------------------------------------------------------------
(* Properties.                                                              *)

\* A run that counts as succeeded had its prompt to the end: neither the timer
\* nor the watcher of an execution that is over reaches the session it left to
\* the next one.  Only two at once on one object cut each other short unseen.
\* (pi-executor.service.ts:130-155, 185-199, 448-468)
SucceededIsWhole ==
  \A r \in Runs : at[r] = "over" /\ outcome[r] = "succeeded" /\ r \in aborted => r \in shared

\* A live SDK session is in the map, where the next call for another place finds
\* it to dispose of: only when two calls make one at once is the first forgotten
\* there, used or not.
\* (pi-session-manager.service.ts:64-80, 117-128, 159-166)
OrphanHasCause ==
  \A i \in DOMAIN objects : objects[i].session = "live" => i = cached \/ i \in raced

\* A run that was canceled comes back, however long the model takes, and so does
\* a decision: whoever shares, replaces or loses their session meanwhile.
\* (pi-executor.service.ts:125-145, 235-245, 448-468)
CalledOffEnds ==
  \A e \in Execs :
    at[e] \notin {"idle", "over"} /\ (e \in Decisions \/ e \in key) ~> at[e] = "over"
=============================================================================
