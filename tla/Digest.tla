------------------------------- MODULE Digest -------------------------------
(***************************************************************************)
(* Scheduled digests: every minute a scan goes through the active groups   *)
(* and queues the digests whose cron expression matches; the same queue    *)
(* has the digests, each of which makes a run of its own, lets the model   *)
(* write a summary and hands it to the artifact queue.                     *)
(*                                                                         *)
(* Nothing remembers that a digest was due: a scan that comes in another   *)
(* minute, or meets a busy group, leaves it out.  Two things keep it from  *)
(* being made twice: the id of its job, made of the group's day and the    *)
(* digest's type and known to the queue for good, and the type and time of *)
(* the group's last digest.                                                *)
(*                                                                         *)
(* A slot stands for a stretch of a day, the matching minute among them; a *)
(* status change is one step here, its two awaits are GroupRun's subject.  *)
(***************************************************************************)
EXTENDS Naturals, Sequences, FiniteSets, RunStates

CONSTANTS
  Sessions,    \* group sessions bound to a project
  None,
  Workers,     \* worker processes, one job of this queue at a time each
  Hours,       \* slots of a day
  Offset,      \* per session: by how many slots its timezone is ahead
  FirstWeekday,\* of day 0; 0 is Sunday
  Daily,       \* DIGEST_DAILY_CRON: the tokens of its hour and weekday fields
  Weekly,      \* DIGEST_WEEKLY_CRON
  MaxTime,     \* bound: slots in one behaviour
  MaxRuns,     \* bound: digest runs in one behaviour
  MaxFaults    \* bound: rejecting calls and crashes in one behaviour

Types  == {"daily_status", "weekly_report_draft"}
Last   == [type: Types \cup {"none"}, day: Nat]
Period == [s: Sessions, type: Types, day: Nat]
Scan   == [s |-> None, type |-> "scan", day |-> 0]

ASSUME DigestAssumption ==
  /\ None \notin Sessions /\ None \notin Period \cup {Scan}
  /\ Hours \in Nat \ {0} /\ FirstWeekday \in 0..6
  /\ Offset \in [Sessions -> 0..(Hours - 1)]
  /\ {MaxTime, MaxRuns, MaxFaults} \subseteq Nat

VARIABLES
  time,     \* the slot it is now, in the timezone without an offset
  last,     \* per session: lastDigestType, and the day lastDigestAt is on there
  waiting,  \* the queue, the next job first
  known,    \* digests whose job id the queue has seen
  stalled,  \* jobs delivered a second time
  at,       \* per worker: the call it is going to make
  job,      \* per worker: its job
  todo,     \* per worker: sessions as the scan read them, still to be looked at
  adds,     \* per worker: digests the scan is going to add
  run,      \* per worker: the run it made
  runs,     \* the digest runs
  faults,
  suppressed,\* history: digests left out as made that day already
  cut       \* history: runs whose worker died, or could not mark them failed

workerVars  == <<at, job, todo, adds, run>>
queueVars   == <<waiting, known, stalled>>
historyVars == <<suppressed, cut>>
vars == <<time, last, queueVars, workerVars, runs, faults, historyVars>>

TypeOK ==
  /\ time \in 0..MaxTime /\ faults \in 0..MaxFaults
  /\ last \in [Sessions -> Last]
  /\ waiting \in Seq(Period \cup {Scan})
  /\ known \subseteq Period /\ stalled \subseteq Period \cup {Scan}
  /\ \A w \in Workers :
       /\ job[w] \in Period \cup {Scan, None}
       /\ todo[w] \subseteq [s: Sessions, last: Last] /\ adds[w] \subseteq Period
       /\ run[w] \in 0..Len(runs)
       /\ at[w] = "idle" <=> job[w] = None
  /\ runs \in Seq([of: Period, status: RunStatus, handed: BOOLEAN])
  /\ suppressed \subseteq Period /\ cut \subseteq DOMAIN runs
  \* a digest is in the queue or with a worker once, and its id is known
  /\ \A i, j \in DOMAIN waiting : waiting[i] = waiting[j] => i = j
  /\ \A i \in DOMAIN waiting : waiting[i] # Scan => waiting[i] \in known
  /\ \A w \in Workers : job[w] \in Period => \A i \in DOMAIN waiting : waiting[i] # job[w]

Init ==
  /\ time = 0 /\ faults = 0
  /\ last = [s \in Sessions |-> [type |-> "none", day |-> 0]]
  /\ waiting = <<>> /\ known = {} /\ stalled = {}
  /\ at = [w \in Workers |-> "idle"] /\ job = [w \in Workers |-> None]
  /\ todo = [w \in Workers |-> {}] /\ adds = [w \in Workers |-> {}]
  /\ run = [w \in Workers |-> 0]
  /\ runs = <<>> /\ suppressed = {} /\ cut = {}

-----------------------------------------------------------------------------
(* When a digest is due.                                                    *)

\* getZonedParts: the day and hour it is where the session is.
Today(s) == (time + Offset[s]) \div Hours
Hour(s)  == (time + Offset[s]) % Hours

\* matchToken: a star, a number or a range, each perhaps with a step.
MatchToken(k, v, min, max) ==
  LET start == IF k.base = "star" THEN min ELSE k.from
      end   == IF k.base = "range" THEN k.to
               ELSE IF k.base = "number" /\ k.step = 0 THEN k.from ELSE max
  IN start <= v /\ v <= end /\ (k.step = 0 \/ (v - start) % k.step = 0)

MatchField(tokens, v, min, max) == \E k \in tokens : MatchToken(k, v, min, max)

\* matchesCron, of which the minute is the slot itself; day and month are stars.
MatchesCron(cron, s) ==
  /\ MatchField(cron.hour, Hour(s), 0, Hours - 1)
  /\ MatchField(cron.weekday, (FirstWeekday + Today(s)) % 7, 0, 6)

\* (A mistake in the next definition: any digest of the day will do.)
DidRunForCurrentDayBug(before, s, type) == before.type # "none" /\ before.day = Today(s)

DidRunForCurrentDay(before, s, type) == before.type = type /\ before.day = Today(s)

Matching(s) ==
  {t \in Types : MatchesCron(IF t = "daily_status" THEN Daily ELSE Weekly, s)}

PeriodKey(s, t) == [s |-> s, type |-> t, day |-> Today(s)]

-----------------------------------------------------------------------------
(* Around the queue.                                                        *)

Tick ==
  /\ time < MaxTime /\ time' = time + 1
  /\ UNCHANGED <<last, queueVars, workerVars, runs, faults, historyVars>>

\* The job scheduler keeps one scan to come, whenever that is taken.
Schedule ==
  /\ \A i \in DOMAIN waiting : waiting[i] # Scan
  /\ waiting' = Append(waiting, Scan) /\ stalled' = stalled \ {Scan}
  /\ UNCHANGED <<time, last, known, workerVars, runs, faults, historyVars>>

Goes(w, to) == at' = [at EXCEPT ![w] = to]

\* The worker is done with its job.
Leaves(w) ==
  /\ Goes(w, "idle") /\ job' = [job EXCEPT ![w] = None]
  /\ todo' = [todo EXCEPT ![w] = {}] /\ adds' = [adds EXCEPT ![w] = {}]
  /\ run' = [run EXCEPT ![w] = 0]

Take(w) ==
  /\ at[w] = "idle" /\ waiting # <<>>
  /\ job' = [job EXCEPT ![w] = Head(waiting)] /\ waiting' = Tail(waiting)
  /\ Goes(w, IF Head(waiting) = Scan THEN "list" ELSE "find")
  /\ UNCHANGED <<time, last, known, stalled, todo, adds, run, runs, faults, historyVars>>

-----------------------------------------------------------------------------
(* processScan.                                                             *)

\* findMany, and the sessions that are active and not busy: runs, bindings and
\* unbindings of the group change that at any time.
List(w) ==
  /\ at[w] = "list"
  /\ \E free \in SUBSET Sessions :
       todo' = [todo EXCEPT ![w] = {[s |-> s, last |-> last[s]] : s \in free}]
  /\ Goes(w, "each")
  /\ UNCHANGED <<time, last, queueVars, job, adds, run, runs, faults, historyVars>>

\* getScheduledDigestJobs for the next session, with the time it is by now.
Each(w) ==
  /\ at[w] = "each"
  /\ \/ todo[w] = {} /\ Leaves(w) /\ UNCHANGED suppressed
     \/ \E e \in todo[w] :
          LET made(t) == DidRunForCurrentDay(e.last, e.s, t)
              due == {t \in Matching(e.s) : ~made(t)}
          IN /\ todo' = [todo EXCEPT ![w] = @ \ {e}]
             /\ adds' = [adds EXCEPT ![w] = {PeriodKey(e.s, t) : t \in due}]
             /\ suppressed' = suppressed \cup {PeriodKey(e.s, t) : t \in Matching(e.s) \ due}
             /\ Goes(w, IF due = {} THEN "each" ELSE "add")
             /\ UNCHANGED <<job, run>>
  /\ UNCHANGED <<time, last, queueVars, runs, faults, cut>>

\* The scan's next digests: the daily one is added before the weekly one.
Foremost(w) == {p \in adds[w] : \A q \in adds[w] : q.type = "daily_status" => p.type = q.type}

\* (A mistake in the next definition: the job has no id of its own.)
AddBug(w) ==
  /\ at[w] = "add"
  /\ \E p \in Foremost(w) :
       /\ waiting' = Append(waiting, p) /\ known' = known \cup {p}
       /\ adds' = [adds EXCEPT ![w] = @ \ {p}]
       /\ Goes(w, IF adds[w] = {p} THEN "each" ELSE "add")
  /\ UNCHANGED <<time, last, stalled, job, todo, run, runs, faults, historyVars>>

\* A job whose id the queue knows is not added again.
Add(w) ==
  /\ at[w] = "add"
  /\ \E p \in Foremost(w) :
       /\ waiting' = IF p \in known THEN waiting ELSE Append(waiting, p)
       /\ known' = known \cup {p}
       /\ adds' = [adds EXCEPT ![w] = @ \ {p}]
       /\ Goes(w, IF adds[w] = {p} THEN "each" ELSE "add")
  /\ UNCHANGED <<time, last, stalled, job, todo, run, runs, faults, historyVars>>

-----------------------------------------------------------------------------
(* processDigest.                                                           *)

\* The session's lookup, and the context's; the group may not be active any more.
Find(w) ==
  /\ at[w] = "find"
  /\ (Goes(w, "create") /\ UNCHANGED <<job, todo, adds, run>>) \/ Leaves(w)
  /\ UNCHANGED <<time, last, queueVars, runs, faults, historyVars>>

Create(w) ==
  /\ at[w] = "create" /\ Len(runs) < MaxRuns
  /\ runs' = Append(runs, [of |-> job[w], status |-> "queued", handed |-> FALSE])
  /\ run' = [run EXCEPT ![w] = Len(runs')]
  /\ Goes(w, "start")
  /\ UNCHANGED <<time, last, queueVars, job, todo, adds, faults, historyVars>>

\* transition: the guard throws into the catch block.
Transition(w, to, next) ==
  IF Allowed(RunNext, runs[run[w]].status, to)
    THEN runs' = [runs EXCEPT ![run[w]].status = to] /\ next
    ELSE Goes(w, "fail") /\ UNCHANGED <<runs, job, todo, adds, run>>

Onward(w, to) == Goes(w, to) /\ UNCHANGED <<job, todo, adds, run>>

Start(w) ==
  /\ at[w] = "start"
  /\ Transition(w, "running", Onward(w, "execute"))
  /\ UNCHANGED <<time, last, queueVars, faults, historyVars>>

\* executeRun; only a run somebody canceled comes back canceled.
Execute(w) ==
  /\ at[w] = "execute"
  /\ \E o \in {"sync", "timeout"} \cup {"canceled" : x \in {i \in {run[w]} : runs[i].status = "canceled"}} :
       Goes(w, o)
  /\ UNCHANGED <<time, last, queueVars, job, todo, adds, run, runs, faults, historyVars>>

Stop(w) ==
  /\ at[w] \in {"timeout", "canceled"}
  /\ Transition(w, at[w], Leaves(w))
  /\ UNCHANGED <<time, last, queueVars, faults, historyVars>>

Sync(w) ==
  /\ at[w] = "sync"
  /\ Transition(w, "syncing", Onward(w, "record"))
  /\ UNCHANGED <<time, last, queueVars, faults, historyVars>>

\* lastDigestAt is the time it is by now, not the one the digest was due.
Record(w) ==
  /\ at[w] = "record"
  /\ LET p == job[w] IN
     last' = [last EXCEPT ![p.s] = [type |-> p.type, day |-> Today(p.s)]]
  /\ Goes(w, "hand")
  /\ UNCHANGED <<time, queueVars, job, todo, adds, run, runs, faults, historyVars>>

Hand(w) ==
  /\ at[w] = "hand"
  /\ runs' = [runs EXCEPT ![run[w]].handed = TRUE]
  /\ Leaves(w)
  /\ UNCHANGED <<time, last, queueVars, faults, historyVars>>

\* (A mistake in the next definition: the error is logged, the run left as it is.)
FailBug(w) ==
  /\ at[w] = "fail"
  /\ Leaves(w)
  /\ UNCHANGED <<time, last, queueVars, runs, faults, historyVars>>

\* The catch block; what its own transition throws ends the job as well.
Fail(w) ==
  /\ at[w] = "fail"
  /\ LET i == run[w] IN
     runs' = IF Allowed(RunNext, runs[i].status, "failed")
               THEN [runs EXCEPT ![i].status = "failed"] ELSE runs
  /\ Leaves(w)
  /\ UNCHANGED <<time, last, queueVars, faults, historyVars>>

-----------------------------------------------------------------------------
(* What else happens to a digest run, and failures.                         *)

\* The artifact processor, once it has the run.
Serve(i) ==
  /\ runs[i].handed /\ runs[i].status = "syncing"
  /\ \E to \in {"succeeded", "failed"} : runs' = [runs EXCEPT ![i].status = to]
  /\ UNCHANGED <<time, last, queueVars, workerVars, faults, historyVars>>

\* cancelRun.
Cancel(i) ==
  /\ runs[i].status # "canceled" /\ Allowed(RunNext, runs[i].status, "canceled")
  /\ runs' = [runs EXCEPT ![i].status = "canceled"]
  /\ UNCHANGED <<time, last, queueVars, workerVars, faults, historyVars>>

\* A call rejects.  Before the run is made the job fails, in the try block the
\* run does, and in the catch block nothing is written.
Rejects(w) ==
  /\ at[w] # "idle" /\ faults < MaxFaults /\ faults' = faults + 1
  /\ IF at[w] \in {"list", "each", "add", "find", "create", "fail"}
       THEN Leaves(w) ELSE Onward(w, "fail")
  /\ cut' = IF at[w] = "fail" THEN cut \cup {run[w]} ELSE cut
  /\ UNCHANGED <<time, last, queueVars, runs, suppressed>>

\* A worker dies.  A stalled job is the next one, once; the second time it is
\* given up.
Crash(w) ==
  /\ at[w] # "idle" /\ faults < MaxFaults /\ faults' = faults + 1
  /\ waiting' = IF job[w] \in stalled \/ \E i \in DOMAIN waiting : waiting[i] = job[w]
                  THEN waiting ELSE <<job[w]>> \o waiting
  /\ stalled' = stalled \cup {job[w]}
  /\ cut' = IF run[w] = 0 THEN cut ELSE cut \cup {run[w]}
  /\ Leaves(w)
  /\ UNCHANGED <<time, last, known, runs, suppressed>>

-----------------------------------------------------------------------------
Next ==
  \/ Tick \/ Schedule
  \/ \E w \in Workers :
       \/ Take(w) \/ List(w) \/ Each(w) \/ Add(w) \/ Find(w) \/ Create(w) \/ Start(w)
       \/ Execute(w) \/ Stop(w) \/ Sync(w) \/ Record(w) \/ Hand(w) \/ Fail(w)
       \/ Rejects(w) \/ Crash(w)
  \/ \E i \in DOMAIN runs : Serve(i) \/ Cancel(i)

Spec == Init /\ [][Next]_vars

-----------------------------------------------------------------------------
(* Properties.                                                              *)

\* A group gets a digest once a day and type, however many scans meet the minute
\* and whatever the rows they read said: a second run is made only when the job
\* was delivered again. (project-digest.processor.ts:60-80, 97-113)
OncePerPeriod ==
  \A p \in known :
    Cardinality({i \in DOMAIN runs : runs[i].of = p}) <= IF p \in stalled THEN 2 ELSE 1

\* A digest left out as made that day was queued that day, or an earlier day's of
\* its type was finished so late that it counts for this one.
\* (project-digest.service.ts:238-249, project-digest.processor.ts:174-182)
SuppressedIsLate ==
  \A p \in suppressed :
    \/ p \in known
    \/ \E i \in DOMAIN runs : /\ runs[i].of.s = p.s /\ runs[i].of.type = p.type
                              /\ runs[i].of.day < p.day

\* A digest run nobody works on any more is over, or the artifact queue has it,
\* although cancellations, failures and the processor's own error path meet; the
\* exceptions are a worker's death and an error while marking it failed.
\* (project-digest.processor.ts:115-200)
LeftBehindHasCause ==
  \A i \in DOMAIN runs :
    \/ runs[i].status \in Terminal
    \/ runs[i].status = "syncing" /\ runs[i].handed
    \/ i \in cut
    \/ \E w \in Workers : run[w] = i
=============================================================================
