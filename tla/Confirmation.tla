---------------------------- MODULE Confirmation ----------------------------
(***************************************************************************)
(* One confirmation request from its creation to the runs it submits: the  *)
(* card-button clicks that reach it through the Feishu event queue, the    *)
(* worker processes that take them, and the administrators' requests that  *)
(* the API process serves at the same time.                                *)
(*                                                                         *)
(* A click is one Feishu event: its event id is the BullMQ job id and the  *)
(* primary key of its deduplication row.  Deciders do not exclude each     *)
(* other: each await of handle, confirm, reject and expire is a step.      *)
(***************************************************************************)
EXTENDS RunStates, Naturals, FiniteSets

CONSTANTS
  Clicks,     \* card-action events
  Admins,     \* POST internal/confirmations/:id/(confirm|reject) requests
  Workers,    \* worker processes, each handling one event at a time
  None,
  Faults,     \* what the environment may do, a subset of AllFaults
  MaxStalls,  \* BullMQ's maxStalledCount: how often a stalled job is redelivered
  MaxCrashes  \* bound: process crashes in one behaviour

\* stall: BullMQ takes the job of a live but blocked worker for stalled;
\* callError: a call to Postgres, Redis or Feishu rejects;
\* crash: a worker or the API process dies and is restarted.
AllFaults == {"stall", "callError", "crash"}

ASSUME DecidersAssumption ==
  /\ None \notin Clicks /\ None \notin Admins
  /\ Workers \cap Admins = {} /\ Clicks \cap Admins = {}
  /\ Faults \subseteq AllFaults
  /\ MaxStalls \in Nat /\ MaxCrashes \in Nat

Deciders == Workers \cup Admins
Tasks    == Clicks \cup Admins

VARIABLES
  request,  \* ConfirmationRequest.status, "absent" before the row exists
  expired,  \* expiresAt lies in the past
  card,     \* the card with the two buttons in the chat
  choice,   \* the button each click presses, the route each administrator calls
  seen,     \* FeishuEventDedup rows
  job,      \* the BullMQ job of each click in the event queue
  owner,    \* the worker holding that job's BullMQ lock
  stalls,   \* how often it was found stalled
  at, task, \* per decider: its program counter and what it is deciding
  read,     \* per decider: the status its find returned
  crashes,
  runs,     \* history: runs submitted on behalf of each task
  inTime,   \* history: tasks that found the request before it expired
  lost      \* history: clicks that a crash or a failing call swallowed

eventVars   == <<seen, job, owner, stalls>>
deciderVars == <<at, task, read>>
historyVars == <<runs, inTime, lost>>
vars == <<request, expired, card, choice, eventVars, deciderVars, crashes, historyVars>>

Decided == {"confirmed", "rejected", "expired"}

TypeOK ==
  /\ request \in ConfirmationStatus \cup {"absent"}
  /\ expired \in BOOLEAN
  /\ card \in {"none", "sent", "failed"}
  /\ choice \in [Tasks -> {"confirm", "reject"}]
  /\ seen \subseteq Clicks
  /\ job \in [Clicks -> {"none", "waiting", "active", "over"}]
  /\ owner \in [Clicks -> Workers \cup {None}]
  /\ stalls \in [Clicks -> Nat]
  /\ at \in [Deciders -> {"idle", "dedup", "find", "write", "submit", "refind", "expire", "over"}]
  /\ task \in [Deciders -> Tasks \cup {None}]
  /\ \A w \in Workers : task[w] \in Clicks \cup {None} /\ (at[w] = "idle" <=> task[w] = None)
  /\ \A a \in Admins : task[a] = a
  /\ read \in [Deciders -> ConfirmationStatus \cup {"absent"}]
  /\ crashes \in 0..MaxCrashes
  /\ runs \in [Tasks -> Nat]
  /\ inTime \subseteq Tasks
  /\ lost \subseteq Clicks

Init ==
  /\ request = "absent" /\ expired = FALSE /\ card = "none"
  /\ choice \in [Tasks -> {"confirm", "reject"}]
  /\ seen = {}
  /\ job = [c \in Clicks |-> "none"]
  /\ owner = [c \in Clicks |-> None]
  /\ stalls = [c \in Clicks |-> 0]
  /\ at = [p \in Deciders |-> "idle"]
  /\ task = [p \in Deciders |-> IF p \in Admins THEN p ELSE None]
  /\ read = [p \in Deciders |-> "absent"]
  /\ crashes = 0
  /\ runs = [t \in Tasks |-> 0]
  /\ inTime = {} /\ lost = {}

-----------------------------------------------------------------------------
(* Creating the request.                                                    *)

\* create, and createRuntimeConfirmation for a group: the row comes first.
CreateRow ==
  /\ request = "absent"
  /\ request' = "pending"
  /\ UNCHANGED <<expired, card, choice, eventVars, deciderVars, crashes, historyVars>>

\* sendCard may reject: the request then stays pending without any button.
SendCard ==
  /\ request # "absent" /\ card = "none"
  /\ card' \in {"sent"} \cup (IF "callError" \in Faults THEN {"failed"} ELSE {})
  /\ UNCHANGED <<request, expired, choice, eventVars, deciderVars, crashes, historyVars>>

\* CONFIRMATION_TTL_MINUTES pass.
TimePasses ==
  /\ request # "absent" /\ ~expired
  /\ expired' = TRUE
  /\ UNCHANGED <<request, card, choice, eventVars, deciderVars, crashes, historyVars>>

-----------------------------------------------------------------------------
(* The event queue.                                                         *)

\* enqueue: a second delivery of the event finds its job id known and adds nothing.
Enqueue(c) ==
  /\ card = "sent" /\ job[c] = "none"
  /\ job' = [job EXCEPT ![c] = "waiting"]
  /\ UNCHANGED <<request, expired, card, choice, seen, owner, stalls, deciderVars, crashes,
                 historyVars>>

\* FeishuEventProcessor.process
Take(w, c) ==
  /\ at[w] = "idle" /\ job[c] = "waiting"
  /\ job' = [job EXCEPT ![c] = "active"]
  /\ owner' = [owner EXCEPT ![c] = w]
  /\ at' = [at EXCEPT ![w] = "dedup"]
  /\ task' = [task EXCEPT ![w] = c]
  /\ UNCHANGED <<request, expired, card, choice, seen, stalls, read, crashes, historyVars>>

\* The worker that should renew the job's lock is not working on it any more.
Abandoned(c) == job[c] = "active" /\ (owner[c] = None \/ task[owner[c]] # c)

\* BullMQ's stalled-job check: the job is delivered again, or fails for good.
Stall(c) ==
  /\ job[c] = "active"
  /\ Abandoned(c) \/ "stall" \in Faults
  /\ stalls' = [stalls EXCEPT ![c] = @ + 1]
  /\ owner' = [owner EXCEPT ![c] = None]
  /\ IF stalls[c] < MaxStalls
       THEN job' = [job EXCEPT ![c] = "waiting"] /\ UNCHANGED lost
       ELSE /\ job' = [job EXCEPT ![c] = "over"]
            /\ lost' = IF Abandoned(c) THEN lost \cup {c} ELSE lost
  /\ UNCHANGED <<request, expired, card, choice, seen, deciderVars, crashes, runs, inTime>>

\* (A mistake in the next definition: the worker completes a job that is not its
\* own any more, and remembers what it was deciding.)
EndsBug(p) ==
  /\ read' = [read EXCEPT ![p] = "absent"]
  /\ at' = [at EXCEPT ![p] = IF p \in Admins THEN "over" ELSE "idle"]
  /\ IF p \in Admins THEN UNCHANGED job ELSE job' = [job EXCEPT ![task[p]] = "over"]
  /\ UNCHANGED <<task, owner>>

\* The handler of p returns or throws.  A job that was taken away from its
\* worker is not completed by it; an administrator is answered.
Ends(p) ==
  /\ read' = [read EXCEPT ![p] = "absent"]
  /\ IF p \in Admins
       THEN at' = [at EXCEPT ![p] = "over"] /\ UNCHANGED <<task, job, owner>>
       ELSE /\ at' = [at EXCEPT ![p] = "idle"]
            /\ task' = [task EXCEPT ![p] = None]
            /\ IF owner[task[p]] = p
                 THEN /\ job' = [job EXCEPT ![task[p]] = "over"]
                      /\ owner' = [owner EXCEPT ![task[p]] = None]
                 ELSE UNCHANGED <<job, owner>>

\* It goes on to its next await.
Goes(p, to) == at' = [at EXCEPT ![p] = to] /\ UNCHANGED <<read, task, job, owner>>

\* find has returned: what follows rests on the status it read.
Looked(p, to) ==
  /\ at' = [at EXCEPT ![p] = to]
  /\ read' = [read EXCEPT ![p] = request]
  /\ UNCHANGED <<task, job, owner>>

\* (A mistake in the next definition: the insert does not fail on a known event id.)
DedupBug(w) ==
  /\ at[w] = "dedup"
  /\ seen' = seen \cup {task[w]}
  /\ Goes(w, "find")
  /\ UNCHANGED <<request, expired, card, choice, stalls, crashes, historyVars>>

\* feishuEventDedup.create, whose every rejection -- a duplicate or a failing
\* database -- is caught and skips the event.
Dedup(w) ==
  /\ at[w] = "dedup"
  /\ \/ /\ task[w] \notin seen
        /\ seen' = seen \cup {task[w]}
        /\ Goes(w, "find")
        /\ UNCHANGED lost
     \/ /\ task[w] \in seen
        /\ Ends(w)
        /\ UNCHANGED <<seen, lost>>
     \/ /\ task[w] \notin seen /\ "callError" \in Faults
        /\ Ends(w)
        /\ lost' = lost \cup {task[w]}
        /\ UNCHANGED seen
  /\ UNCHANGED <<request, expired, card, choice, stalls, crashes, runs, inTime>>

-----------------------------------------------------------------------------
(* Deciding: decideFromCard, and the controller's two routes.               *)

Arrive(a) ==
  /\ at[a] = "idle" /\ request # "absent"
  /\ Goes(a, "find")
  /\ UNCHANGED <<request, expired, card, choice, seen, stalls, crashes, historyVars>>

\* What p's decision writes.
Verdict(p) == IF choice[task[p]] = "confirm" THEN "confirmed" ELSE "rejected"

\* (A mistake in FindRequest: a request that was decided is decided again.)
FindRequestBug(p) ==
  /\ at[p] = "find"
  /\ inTime' = IF expired THEN inTime ELSE inTime \cup {task[p]}
  /\ IF choice[task[p]] = "confirm" /\ expired THEN Goes(p, "refind") ELSE Looked(p, "write")
  /\ UNCHANGED <<request, expired, card, choice, seen, stalls, crashes, runs, lost>>

\* find, the clock and the assertion, without an await between them.  Only
\* confirm looks at the clock.
FindRequest(p) ==
  /\ at[p] = "find"
  /\ inTime' = IF expired THEN inTime ELSE inTime \cup {task[p]}
  /\ IF choice[task[p]] = "confirm" /\ expired THEN Goes(p, "refind")
     ELSE IF Allowed(ConfirmationNext, request, Verdict(p)) THEN Looked(p, "write")
     ELSE Ends(p)
  /\ UNCHANGED <<request, expired, card, choice, seen, stalls, crashes, runs, lost>>

\* (A mistake in the next definition: the status is not written.)
WriteDecisionBug(p) ==
  /\ at[p] = "write"
  /\ IF Verdict(p) = "confirmed" THEN Goes(p, "submit") ELSE Ends(p)
  /\ UNCHANGED <<request, expired, card, choice, seen, stalls, crashes, historyVars>>

\* The update names the id only: it overwrites whatever was decided since the find.
WriteDecision(p) ==
  /\ at[p] = "write"
  /\ request' = Verdict(p)
  /\ IF Verdict(p) = "confirmed" THEN Goes(p, "submit") ELSE Ends(p)
  /\ UNCHANGED <<expired, card, choice, seen, stalls, crashes, historyVars>>

\* confirm's last step: submitGroupMessage for a group, createRun for a private
\* chat.  A busy group or a failing call leaves the request confirmed without a run.
Submit(p) ==
  /\ at[p] = "submit"
  /\ \/ runs' = [runs EXCEPT ![task[p]] = @ + 1]
     \/ UNCHANGED runs
  /\ Ends(p)
  /\ UNCHANGED <<request, expired, card, choice, seen, stalls, crashes, inTime, lost>>

\* expire, called by a confirm that came too late: it looks again.
FindExpired(p) ==
  /\ at[p] = "refind"
  /\ IF Allowed(ConfirmationNext, request, "expired") THEN Looked(p, "expire") ELSE Ends(p)
  /\ UNCHANGED <<request, expired, card, choice, seen, stalls, crashes, historyVars>>

WriteExpired(p) ==
  /\ at[p] = "expire"
  /\ request' = "expired"
  /\ Ends(p)
  /\ UNCHANGED <<expired, card, choice, seen, stalls, crashes, historyVars>>

\* A call rejects: the handler throws, and nothing retries it.
Throws(p) ==
  /\ "callError" \in Faults
  /\ at[p] \in {"find", "write", "refind", "expire"}
  /\ Ends(p)
  /\ lost' = IF p \in Workers THEN lost \cup {task[p]} ELSE lost
  /\ UNCHANGED <<request, expired, card, choice, seen, stalls, crashes, runs, inTime>>

\* The process of p dies.  The job of a dead worker is found stalled later on.
Crash(p) ==
  /\ "crash" \in Faults /\ crashes < MaxCrashes
  /\ at[p] \notin {"idle", "over"}
  /\ crashes' = crashes + 1
  /\ at' = [at EXCEPT ![p] = IF p \in Admins THEN "over" ELSE "idle"]
  /\ task' = IF p \in Admins THEN task ELSE [task EXCEPT ![p] = None]
  /\ read' = [read EXCEPT ![p] = "absent"]
  /\ lost' = IF p \in Workers /\ task[p] \in seen THEN lost \cup {task[p]} ELSE lost
  /\ UNCHANGED <<request, expired, card, choice, eventVars, runs, inTime>>

-----------------------------------------------------------------------------
Decide(p) ==
  \/ FindRequest(p) \/ WriteDecision(p) \/ Submit(p) \/ FindExpired(p) \/ WriteExpired(p)

Next ==
  \/ CreateRow \/ SendCard \/ TimePasses
  \/ \E c \in Clicks : Enqueue(c) \/ Stall(c) \/ \E w \in Workers : Take(w, c)
  \/ \E w \in Workers : Dedup(w)
  \/ \E a \in Admins : Arrive(a)
  \/ \E p \in Deciders : Decide(p) \/ Throws(p) \/ Crash(p)

Spec == Init /\ [][Next]_vars

\* Fairness: the workers take every waiting job and run every handler to its
\* end, and the stalled check finds the jobs of dead workers.  Nobody has to
\* click, and time need not pass.
Fairness ==
  /\ \A c \in Clicks : /\ WF_vars(Abandoned(c) /\ Stall(c))
                       /\ SF_vars(\E w \in Workers : Take(w, c))
  /\ \A w \in Workers : WF_vars(Dedup(w) \/ Decide(w))

FairSpec == Spec /\ Fairness

-----------------------------------------------------------------------------
(* Properties.                                                              *)

\* Stalls, crashes and redelivery included, a click or a request of an
\* administrator submits at most one run.  (feishu-event.service.ts:63-71)
OneRunPerTask == \A t \in Tasks : runs[t] <= 1

\* After the time is up nobody who comes then gets a run submitted, whatever the
\* request's status is by then ("after expiry the user has to ask again").
NoLateRun == \A t \in Tasks : runs[t] > 0 => t \in inTime

\* A worker past the deduplication row of its click.
Handling(w) == at[w] \notin {"idle", "dedup"}

\* Of the workers on one click at most one is past the deduplication row, even
\* when the job is redelivered while the first one is still deciding.
OneHandler ==
  \A v, w \in Workers : Handling(v) /\ Handling(w) /\ task[v] = task[w] => v = w

\* A decider that has not ended has submitted nothing yet, and a click that
\* submitted something keeps its deduplication row.
NothingSubmittedYet ==
  /\ \A w \in Workers : Handling(w) => task[w] \in seen /\ runs[task[w]] = 0
  /\ \A a \in Admins : at[a] # "over" => runs[a] = 0
  /\ \A c \in Clicks : runs[c] > 0 => c \in seen

\* What a decider is about to write was allowed when it looked, and a confirm
\* gets as far as writing only if it looked in time.
LookedFirst ==
  \A p \in Deciders :
    /\ at[p] = "write" => Allowed(ConfirmationNext, read[p], Verdict(p))
    /\ at[p] = "expire" => Allowed(ConfirmationNext, read[p], "expired")
    /\ at[p] = "submit" \/ (at[p] = "write" /\ Verdict(p) = "confirmed") => task[p] \in inTime

\* The inductive invariant behind the three properties above and the next one:
\* whoever is deciding holds the only handling of its click, has submitted
\* nothing, and writes only what its own find had allowed.
DecideInv == OneRunPerTask /\ NoLateRun /\ OneHandler /\ NothingSubmittedYet /\ LookedFirst

\* A decision is only ever overturned by a decider that had looked at the
\* request before that decision was made: nobody who comes afterwards changes it.
DecisionStands ==
  [][(request \in Decided /\ request' # request)
       => \E p \in Deciders : at[p] \in {"write", "expire"} /\ read[p] # request]_vars

\* Every click that is delivered gets the request decided, unless a crash or a
\* failing call after its deduplication row swallowed it.
ClickDecides == \A c \in Clicks : job[c] = "waiting" ~> request \in Decided \/ c \in lost
=============================================================================
