----------------------------- MODULE DigestProofs -----------------------------
(***************************************************************************)
(* What Digest promises for any number of sessions, workers and days, any  *)
(* cron expressions and timezones, and any bounds.                         *)
(***************************************************************************)
EXTENDS Digest, SequenceTheorems, FiniteSetTheorems, TLAPS

-----------------------------------------------------------------------------
(* The inductive invariant.                                                 *)

Scanning == {"list", "each", "add"}
Starting == {"find", "create"}
Working  == {"start", "execute", "sync", "timeout", "canceled", "record", "hand", "fail"}

WorkersOK ==
  /\ at \in [Workers -> Scanning \cup Starting \cup Working \cup {"idle"}]
  /\ job \in [Workers -> Period \cup {Scan, None}]
  /\ todo \in [Workers -> SUBSET [s: Sessions, last: Last]]
  /\ adds \in [Workers -> SUBSET Period]
  /\ run \in [Workers -> Nat]

\* What a worker holds where it is: the run it made is the one of its job and, up
\* to the last call, not with the artifact queue.
Holds(w) ==
  /\ at[w] = "idle" <=> job[w] = None
  /\ at[w] \in Scanning <=> job[w] = Scan
  /\ IF at[w] \in Working
       THEN /\ run[w] \in 1..Len(runs) /\ runs[run[w]].of = job[w]
            /\ ~runs[run[w]].handed
       ELSE run[w] = 0
  /\ at[w] \in {"record", "hand"} => runs[run[w]].status = "syncing"

RunsOK == runs \in Seq([of: Period, status: RunStatus, handed: BOOLEAN])

\* A digest is in the queue or with a worker once.
QueueOK ==
  /\ waiting \in Seq(Period \cup {Scan})
  /\ \A i, j \in 1..Len(waiting) : waiting[i] = waiting[j] => i = j
  /\ \A i \in 1..Len(waiting) : waiting[i] # Scan => waiting[i] \in known
  /\ \A w \in Workers : job[w] \in Period =>
       job[w] \in known /\ \A i \in 1..Len(waiting) : waiting[i] # job[w]
  /\ \A v, w \in Workers : job[v] = job[w] /\ job[w] \in Period => v = w
  /\ known \subseteq Period /\ stalled \subseteq known \cup {Scan}

RestOK ==
  /\ time \in 0..MaxTime /\ faults \in 0..MaxFaults /\ last \in [Sessions -> Last]
  /\ suppressed \subseteq Period /\ cut \subseteq 1..Len(runs)

Made(p)   == {i \in 1..Len(runs) : runs[i].of = p}
Coming(p) == \/ \E i \in 1..Len(waiting) : waiting[i] = p
             \/ \E w \in Workers : job[w] = p /\ at[w] \in Starting
Spent(p)  == Cardinality(Made(p)) + IF Coming(p) THEN 1 ELSE 0

\* The runs of a digest and the one that is still to come are one, or two once its
\* job was delivered again.
Rationed ==
  /\ \A p \in known : Spent(p) <= IF p \in stalled THEN 2 ELSE 1
  /\ \A i \in 1..Len(runs) : runs[i].of \in known

\* No digest is queued before its day.
Due ==
  /\ \A p \in known : p.day <= Today(p.s)
  /\ \A w \in Workers : \A p \in adds[w] : p.day <= Today(p.s)

\* What a session row says of its last digest is true of a run, of that day or an
\* earlier one.
Told(s, l) ==
  l.type = "none" \/ \E i \in 1..Len(runs) :
    runs[i].of.s = s /\ runs[i].of.type = l.type /\ runs[i].of.day <= l.day

Remembered ==
  /\ \A s \in Sessions : Told(s, last[s])
  /\ \A w \in Workers : \A e \in todo[w] : Told(e.s, e.last)

Inv ==
  /\ WorkersOK /\ (\A w \in Workers : Holds(w)) /\ RunsOK /\ QueueOK /\ RestOK
  /\ Rationed /\ Due /\ Remembered /\ SuppressedIsLate /\ LeftBehindHasCause

-----------------------------------------------------------------------------
(* Queues, runs and days.                                                   *)

Job == Period \cup {Scan}
Run == [of: Period, status: RunStatus, handed: BOOLEAN]

LEMMA ScanIsNoPeriod == Scan \notin Period
BY DEF Scan, Period, Types

LEMMA TailOf ==
  ASSUME NEW s \in Seq(Job), s # <<>>
  PROVE  /\ Tail(s) \in Seq(Job) /\ Head(s) = s[1] /\ Head(s) \in Job
         /\ Len(s) \in Nat \ {0} /\ Len(Tail(s)) = Len(s) - 1
         /\ \A i \in 1..Len(Tail(s)) : Tail(s)[i] = s[i + 1]
BY HeadTailProperties, LenProperties, ElementOfSeq

LEMMA AppendOf ==
  ASSUME NEW s \in Seq(Job), NEW p \in Job
  PROVE  /\ Append(s, p) \in Seq(Job) /\ Len(s) \in Nat /\ Len(Append(s, p)) = Len(s) + 1
         /\ Append(s, p)[Len(s) + 1] = p
         /\ \A i \in 1..Len(s) : Append(s, p)[i] = s[i]
BY AppendProperties, LenProperties

LEMMA ConsOf ==
  ASSUME NEW s \in Seq(Job), NEW p \in Job, NEW t, t = <<p>> \o s
  PROVE  /\ t \in Seq(Job) /\ Len(s) \in Nat /\ Len(t) = Len(s) + 1
         /\ t[1] = p /\ \A i \in 2..(Len(s) + 1) : t[i] = s[i - 1]
<1>1. <<p>> \in Seq(Job) /\ Len(<<p>>) = 1 /\ <<p>>[1] = p
  OBVIOUS
<1>. QED  BY <1>1, ConcatProperties, LenProperties

LEMMA TodayIs ==
  ASSUME NEW s \in Sessions, time \in Nat
  PROVE  Today(s) \in Nat
<1>1. Offset[s] \in Nat /\ Hours \in Nat \ {0}
  BY DigestAssumption
<1>2. \A x \in Nat, y \in Nat \ {0} : x \div y \in Nat
  OBVIOUS
<1>3. time + Offset[s] \in Nat
  BY <1>1
<1>. QED  BY <1>1, <1>2, <1>3 DEF Today

LEMMA TodayGoesOn ==
  ASSUME NEW s \in Sessions, time \in Nat, time' \in Nat, time <= time'
  PROVE  Today(s) <= Today(s)'
<1>1. Offset[s] \in Nat /\ Hours \in Nat \ {0}
  BY DigestAssumption
<1>2. \A x, z \in Nat, y \in Nat \ {0} : x <= z => x \div y <= z \div y
  OBVIOUS
<1>3. /\ time + Offset[s] \in Nat /\ time' + Offset[s] \in Nat
      /\ time + Offset[s] <= time' + Offset[s]
  BY <1>1
<1>. QED  BY <1>1, <1>2, <1>3 DEF Today

LEMMA PeriodIs ==
  ASSUME NEW s \in Sessions, NEW t \in Types, time \in Nat
  PROVE  PeriodKey(s, t) \in Period
BY TodayIs DEF PeriodKey, Period

LEMMA RunAt ==
  ASSUME RunsOK, NEW i \in 1..Len(runs)
  PROVE  /\ runs[i] \in Run /\ runs[i].of \in Period /\ runs[i].status \in RunStatus
         /\ runs[i].handed \in BOOLEAN /\ Len(runs) \in Nat
<1>1. runs[i] \in Run /\ Len(runs) \in Nat
  BY ElementOfSeq, LenProperties DEF RunsOK, Run
<1>. QED  BY <1>1 DEF Run

LEMMA RunSet ==
  ASSUME RunsOK, NEW i \in 1..Len(runs), NEW r \in Run, runs' = [runs EXCEPT ![i] = r]
  PROVE  /\ RunsOK' /\ Len(runs') = Len(runs) /\ runs'[i] = r
         /\ \A j \in 1..Len(runs) : j # i => runs'[j] = runs[j]
<1>1. runs \in [1..Len(runs) -> Run] /\ Len(runs) \in Nat
  BY LenProperties DEF RunsOK, Run
<1>2. runs' \in Seq(Run) /\ Len(runs') = Len(runs)
  BY ExceptSeq DEF RunsOK, Run
<1>. QED  BY <1>1, <1>2 DEF RunsOK, Run

\* A status is written, or the hand-over noted.
LEMMA StatusSet ==
  ASSUME RunsOK, NEW i \in 1..Len(runs), NEW to \in RunStatus,
         runs' = [runs EXCEPT ![i].status = to]
  PROVE  /\ RunsOK' /\ Len(runs') = Len(runs)
         /\ runs'[i].status = to /\ runs'[i].of = runs[i].of
         /\ runs'[i].handed = runs[i].handed
         /\ \A j \in 1..Len(runs) : j # i => runs'[j] = runs[j]
<1>. DEFINE r == [runs[i] EXCEPT !.status = to]
<1>1. runs[i] \in Run /\ runs \in [1..Len(runs) -> Run]
  BY RunAt, LenProperties DEF RunsOK, Run
<1>2. r \in Run /\ r.status = to /\ r.of = runs[i].of /\ r.handed = runs[i].handed
  BY <1>1 DEF Run
<1>3. runs' = [runs EXCEPT ![i] = r]
  BY <1>1
<1>. HIDE DEF r
<1>. QED  BY <1>2, <1>3, RunSet

LEMMA HandedSet ==
  ASSUME RunsOK, NEW i \in 1..Len(runs), runs' = [runs EXCEPT ![i].handed = TRUE]
  PROVE  /\ RunsOK' /\ Len(runs') = Len(runs)
         /\ runs'[i].handed /\ runs'[i].of = runs[i].of
         /\ runs'[i].status = runs[i].status
         /\ \A j \in 1..Len(runs) : j # i => runs'[j] = runs[j]
<1>. DEFINE r == [runs[i] EXCEPT !.handed = TRUE]
<1>1. runs[i] \in Run /\ runs \in [1..Len(runs) -> Run]
  BY RunAt, LenProperties DEF RunsOK, Run
<1>2. r \in Run /\ r.handed /\ r.of = runs[i].of /\ r.status = runs[i].status
  BY <1>1 DEF Run
<1>3. runs' = [runs EXCEPT ![i] = r]
  BY <1>1
<1>. HIDE DEF r
<1>. QED  BY <1>2, <1>3, RunSet

LEMMA MadeFinite ==
  ASSUME RunsOK, NEW p
  PROVE  IsFiniteSet(Made(p)) /\ Cardinality(Made(p)) \in Nat
<1>1. Len(runs) \in Nat
  BY LenProperties DEF RunsOK
<1>2. IsFiniteSet(1..Len(runs))
  BY <1>1, FS_Interval
<1>3. IsFiniteSet(Made(p))
  BY <1>2, FS_Subset DEF Made
<1>. QED  BY <1>3, FS_CardinalityType

-----------------------------------------------------------------------------
(* What the parts of the invariant need of a step.                          *)

\* Runs are made and change, and stay runs of the same digest.
Keeps ==
  /\ RunsOK' /\ Len(runs) <= Len(runs')
  /\ \A i \in 1..Len(runs) : runs'[i].of = runs[i].of

Same == Keeps /\ Len(runs') = Len(runs)

LEMMA MadeSame ==
  ASSUME Same, NEW p
  PROVE  Made(p)' = Made(p)
BY DEF Same, Keeps, Made

LEMMA RationedKept ==
  ASSUME RunsOK, Rationed, Same, known' = known, known \subseteq Period, stalled \subseteq stalled' \cup {Scan},
         \A p \in known : Coming(p)' => Coming(p)
  PROVE  Rationed'
<1>1. ASSUME NEW p \in known
      PROVE  Spent(p)' <= IF p \in stalled' THEN 2 ELSE 1
  <2>1. Made(p)' = Made(p) /\ Cardinality(Made(p)) \in Nat
    BY MadeSame, MadeFinite
  <2>2. Spent(p) <= IF p \in stalled THEN 2 ELSE 1
    BY DEF Rationed
  <2>3. p \in stalled => p \in stalled'
    BY ScanIsNoPeriod
  <2>. QED  BY <2>1, <2>2, <2>3 DEF Spent
<1>2. \A i \in 1..Len(runs') : runs'[i].of \in known'
  BY DEF Rationed, Same, Keeps
<1>. QED  BY <1>1, <1>2 DEF Rationed

LEMMA DueKept ==
  ASSUME Due, known \subseteq Period, known' = known, time' = time, time \in Nat,
         \A w \in Workers : adds'[w] \subseteq adds[w]
  PROVE  Due'
BY DEF Due, Today

LEMMA ToldKept ==
  ASSUME Keeps, NEW s, NEW l, Told(s, l)
  PROVE  Told(s, l)'
<1>1. Len(runs) \in Nat /\ Len(runs') \in Nat
  BY LenProperties DEF Keeps, RunsOK
<1>. QED  BY <1>1 DEF Told, Keeps

LEMMA RememberedKept ==
  ASSUME Remembered, Keeps, last' = last, \A w \in Workers : todo'[w] \subseteq todo[w]
  PROVE  Remembered'
BY ToldKept DEF Remembered

LEMMA LateKept ==
  ASSUME SuppressedIsLate, Keeps, RunsOK, suppressed' = suppressed, known \subseteq known'
  PROVE  SuppressedIsLate'
<1>1. /\ Len(runs) \in Nat /\ Len(runs') \in Nat
      /\ DOMAIN runs = 1..Len(runs) /\ DOMAIN runs' = 1..Len(runs')
  BY LenProperties DEF Keeps, RunsOK
<1>. QED  BY <1>1 DEF SuppressedIsLate, Keeps

-----------------------------------------------------------------------------
(* A worker with a run of its own.                                          *)

\* It goes on to the next call, or is done with its job.
GoesOn(w, to) == Onward(w, to) /\ to \in Working
Settled(i) == \/ runs[i].status \in Terminal
              \/ runs[i].status = "syncing" /\ runs[i].handed
              \/ i \in cut
SettledNext(i) == \/ runs'[i].status \in Terminal
                  \/ runs'[i].status = "syncing" /\ runs'[i].handed
                  \/ i \in cut'

WorkStep(w) ==
  /\ at[w] \in Working /\ Same
  /\ \A j \in 1..Len(runs) : j # run[w] => runs'[j] = runs[j]
  /\ \/ \E to : /\ GoesOn(w, to) /\ ~runs'[run[w]].handed
                /\ to \in {"record", "hand"} => runs'[run[w]].status = "syncing"
     \/ Leaves(w) /\ SettledNext(run[w])
  /\ UNCHANGED <<time, queueVars, suppressed>>
  /\ cut \subseteq cut' /\ cut' \subseteq cut \cup {run[w]}
  /\ faults' \in 0..MaxFaults
  /\ last' \in [Sessions -> Last] /\ \A s \in Sessions : Told(s, last'[s])

\* Where the other workers are, and where this one is.
LEMMA OnwardIs ==
  ASSUME WorkersOK, NEW w \in Workers, NEW to \in Working, Onward(w, to)
  PROVE  /\ WorkersOK' /\ at'[w] = to /\ \A v \in Workers : v # w => at'[v] = at[v]
         /\ job' = job /\ todo' = todo /\ adds' = adds /\ run' = run
BY DEF WorkersOK, Onward, Goes

LEMMA LeavesIs ==
  ASSUME WorkersOK, NEW w \in Workers, Leaves(w)
  PROVE  /\ WorkersOK'
         /\ at'[w] = "idle" /\ job'[w] = None /\ todo'[w] = {} /\ adds'[w] = {} /\ run'[w] = 0
         /\ \A v \in Workers : v # w =>
              /\ at'[v] = at[v] /\ job'[v] = job[v] /\ todo'[v] = todo[v]
              /\ adds'[v] = adds[v] /\ run'[v] = run[v]
BY DEF WorkersOK, Leaves, Goes

\* Nobody else has this worker's run.
LEMMA OwnRun ==
  ASSUME WorkersOK, RunsOK, QueueOK, \A v \in Workers : Holds(v),
         NEW w \in Workers, at[w] \in Working, NEW v \in Workers, v # w
  PROVE  run[v] # run[w]
<1>1. run[w] \in 1..Len(runs) /\ runs[run[w]].of = job[w] /\ Len(runs) \in Nat
  BY LenProperties DEF Holds, RunsOK
<1>2. runs[run[w]].of \in Period /\ run[w] # 0
  BY <1>1, RunAt
<1>3. CASE at[v] \in Working
  BY <1>1, <1>2, <1>3 DEF Holds, QueueOK
<1>4. CASE at[v] \notin Working
  BY <1>2, <1>4 DEF Holds
<1>. QED  BY <1>3, <1>4

LEMMA LeftKept ==
  ASSUME LeftBehindHasCause, RunsOK, RunsOK', Len(runs') = Len(runs), NEW i,
         \A j \in 1..Len(runs) : j # i => runs'[j] = runs[j],
         cut \subseteq cut',
         \A w \in Workers, j \in 1..Len(runs) : run[w] = j /\ j # i => run'[w] = j,
         i \in 1..Len(runs) => SettledNext(i) \/ \E w \in Workers : run'[w] = i
  PROVE  LeftBehindHasCause'
<1>1. DOMAIN runs = 1..Len(runs) /\ DOMAIN runs' = 1..Len(runs)
  BY LenProperties DEF RunsOK
<1>2. SUFFICES ASSUME NEW j \in 1..Len(runs)
               PROVE  SettledNext(j) \/ \E w \in Workers : run'[w] = j
  BY <1>1 DEF LeftBehindHasCause, SettledNext
<1>3. CASE j = i
  BY <1>3
<1>4. CASE j # i
  <2>1. Settled(j) \/ \E w \in Workers : run[w] = j
    BY <1>1 DEF LeftBehindHasCause, Settled
  <2>2. runs'[j] = runs[j]
    BY <1>4
  <2>. QED  BY <1>4, <2>1, <2>2 DEF Settled, SettledNext
<1>. QED  BY <1>3, <1>4

LEMMA WorkKeeps ==
  ASSUME Inv, NEW w \in Workers, WorkStep(w)
  PROVE  Inv'
<1>1. /\ WorkersOK /\ RunsOK /\ QueueOK /\ RestOK /\ \A v \in Workers : Holds(v)
      /\ Rationed /\ Due /\ Remembered /\ SuppressedIsLate /\ LeftBehindHasCause
      /\ None \notin Period /\ None # Scan
  BY DigestAssumption DEF Inv
<1>2. /\ Same /\ Keeps /\ RunsOK' /\ Len(runs') = Len(runs) /\ Len(runs) \in Nat
      /\ at[w] \in Working
      /\ \A j \in 1..Len(runs) : j # run[w] => runs'[j] = runs[j]
  BY <1>1, LenProperties DEF WorkStep, Same, RunsOK, Keeps
<1>3. /\ run[w] \in 1..Len(runs) /\ runs[run[w]].of = job[w] /\ job[w] \in Period
  <2>1. run[w] \in 1..Len(runs) /\ runs[run[w]].of = job[w]
    BY <1>1, <1>2 DEF Holds
  <2>. QED  BY <1>1, <2>1, RunAt
<1>4. UNCHANGED <<time, waiting, known, stalled, suppressed>>
  BY DEF WorkStep, queueVars
<1>. DEFINE Elsewhere == \A v \in Workers : v # w =>
              /\ at'[v] = at[v] /\ job'[v] = job[v] /\ todo'[v] = todo[v]
              /\ adds'[v] = adds[v] /\ run'[v] = run[v]
            Moved == \/ /\ at'[w] \in Working /\ UNCHANGED <<job, todo, adds, run>>
                        /\ ~runs'[run[w]].handed
                        /\ at'[w] \in {"record", "hand"} => runs'[run[w]].status = "syncing"
                     \/ /\ at'[w] = "idle" /\ job'[w] = None /\ todo'[w] = {} /\ adds'[w] = {}
                        /\ run'[w] = 0 /\ SettledNext(run[w])
<1>5. Elsewhere /\ Moved /\ WorkersOK'
  <2>1. CASE \E to : /\ GoesOn(w, to) /\ ~runs'[run[w]].handed
                     /\ to \in {"record", "hand"} => runs'[run[w]].status = "syncing"
    <3>1. PICK to \in Working :
            /\ Onward(w, to) /\ ~runs'[run[w]].handed
            /\ to \in {"record", "hand"} => runs'[run[w]].status = "syncing"
      BY <2>1 DEF GoesOn
    <3>2. Onward(w, to)
      BY <3>1
    <3>3. /\ WorkersOK' /\ at'[w] = to /\ \A v \in Workers : v # w => at'[v] = at[v]
          /\ job' = job /\ todo' = todo /\ adds' = adds /\ run' = run
      BY <1>1, <3>2, OnwardIs
    <3>4. Elsewhere
      BY <3>3
    <3>5. Moved
      BY <3>1, <3>3
    <3>. QED  BY <3>3, <3>4, <3>5
  <2>2. CASE Leaves(w) /\ SettledNext(run[w])
    BY <1>1, <2>2, LeavesIs
  <2>. QED  BY <2>1, <2>2 DEF WorkStep
<1>6. ASSUME NEW v \in Workers PROVE Holds(v)'
  <2>1. CASE v = w
    <3>1. runs'[run[w]].of = job[w]
      BY <1>2, <1>3 DEF Keeps
    <3>. QED  BY <1>1, <1>2, <1>3, <1>5, <2>1, <3>1 DEF Holds, Working, Scanning
  <2>2. CASE v # w
    <3>1. run[v] # run[w]
      BY <1>1, <1>2, <2>2, OwnRun
    <3>2. at[v] \in Working => runs'[run[v]] = runs[run[v]]
      BY <1>1, <1>2, <3>1 DEF Holds
    <3>3. Holds(v)
      BY <1>1
    <3>. QED  BY <1>2, <1>5, <2>2, <3>2, <3>3 DEF Holds, Working
  <2>. QED  BY <2>1, <2>2
<1>7. QueueOK'
  <2>1. \A v \in Workers : job'[v] \in Period => job'[v] = job[v]
    BY <1>1, <1>5
  <2>. QED  BY <1>1, <1>4, <2>1 DEF QueueOK
<1>8. RestOK'
  BY <1>1, <1>2, <1>3, <1>4 DEF RestOK, WorkStep
<1>9. Rationed'
  <2>1. ASSUME NEW p \in known, Coming(p)' PROVE Coming(p)
    <3>1. CASE \E i \in 1..Len(waiting') : waiting'[i] = p
      BY <1>4, <3>1 DEF Coming
    <3>2. CASE \E v \in Workers : job'[v] = p /\ at'[v] \in Starting
      <4>1. PICK v \in Workers : job'[v] = p /\ at'[v] \in Starting
        BY <3>2
      <4>2. v # w
        BY <1>5, <4>1 DEF Starting, Working
      <4>. QED  BY <1>5, <4>1, <4>2 DEF Coming
    <3>. QED  BY <2>1, <3>1, <3>2 DEF Coming
  <2>. QED  BY <1>1, <1>2, <1>4, <2>1, RationedKept DEF QueueOK
<1>10. Due'
  <2>1. \A v \in Workers : adds'[v] \subseteq adds[v]
    BY <1>5
  <2>. QED  BY <1>1, <1>4, <2>1, DueKept DEF QueueOK, RestOK
<1>11. Remembered'
  <2>1. ASSUME NEW s \in Sessions PROVE Told(s, last[s])'
    <3>1. PICK l : l = last'[s]
      OBVIOUS
    <3>2. Told(s, l)
      BY <3>1 DEF WorkStep
    <3>3. Told(s, l)'
      BY <1>2, <3>2, ToldKept
    <3>. QED  BY <3>1, <3>3 DEF Told
  <2>2. \A v \in Workers : todo'[v] \subseteq todo[v]
    BY <1>5
  <2>3. ASSUME NEW v \in Workers, NEW e \in todo'[v] PROVE Told(e.s, e.last)'
    <3>1. Told(e.s, e.last)
      BY <1>1, <2>2 DEF Remembered
    <3>. QED  BY <1>2, <3>1, ToldKept
  <2>. QED  BY <2>1, <2>3 DEF Remembered
<1>12. SuppressedIsLate'
  BY <1>1, <1>2, <1>4, LateKept
<1>13. LeftBehindHasCause'
  <2>1. \A v \in Workers, j \in 1..Len(runs) : run[v] = j /\ j # run[w] => run'[v] = j
    BY <1>5
  <2>2. SettledNext(run[w]) \/ \E v \in Workers : run'[v] = run[w]
    BY <1>5
  <2>3. cut \subseteq cut'
    BY DEF WorkStep
  <2>. QED  BY <1>1, <1>2, <2>1, <2>2, <2>3, LeftKept
<1>. QED  BY <1>2, <1>5, <1>6, <1>7, <1>8, <1>9, <1>10, <1>11, <1>12, <1>13 DEF Inv

\* Every step of such a worker, short of its death, is one.
LEMMA InWorking ==
  ASSUME Inv, NEW w \in Workers, at[w] \in Working
  PROVE  /\ run[w] \in 1..Len(runs) /\ RunsOK /\ Len(runs) \in Nat
         /\ ~runs[run[w]].handed /\ runs[run[w]].status \in RunStatus
         /\ at[w] \in {"record", "hand"} => runs[run[w]].status = "syncing"
<1>1. RunsOK /\ Holds(w)
  BY DEF Inv
<1>2. run[w] \in 1..Len(runs) /\ ~runs[run[w]].handed
  BY <1>1 DEF Holds
<1>. QED  BY <1>1, <1>2, RunAt DEF Holds

LEMMA NothingElse ==
  ASSUME Inv, last' = last, faults' = faults
  PROVE  /\ faults' \in 0..MaxFaults /\ last' \in [Sessions -> Last]
         /\ \A s \in Sessions : Told(s, last'[s])
BY DEF Inv, RestOK, Remembered

LEMMA RunsUnchanged ==
  ASSUME RunsOK, runs' = runs
  PROVE  Same
<1>1. Len(runs) \in Nat
  BY LenProperties DEF RunsOK
<1>. QED  BY <1>1 DEF Same, Keeps, RunsOK

LEMMA StatusWritten ==
  ASSUME Inv, NEW w \in Workers, at[w] \in Working, NEW to \in RunStatus,
         runs' = [runs EXCEPT ![run[w]].status = to]
  PROVE  /\ Same /\ \A j \in 1..Len(runs) : j # run[w] => runs'[j] = runs[j]
         /\ runs'[run[w]].status = to /\ ~runs'[run[w]].handed
<1>1. run[w] \in 1..Len(runs) /\ RunsOK /\ ~runs[run[w]].handed /\ Len(runs) \in Nat
  BY InWorking
<1>2. /\ RunsOK' /\ Len(runs') = Len(runs)
      /\ runs'[run[w]].status = to /\ runs'[run[w]].of = runs[run[w]].of
      /\ runs'[run[w]].handed = runs[run[w]].handed
      /\ \A j \in 1..Len(runs) : j # run[w] => runs'[j] = runs[j]
  BY <1>1, StatusSet
<1>3. \A j \in 1..Len(runs) : runs'[j].of = runs[j].of
  BY <1>2
<1>. QED  BY <1>1, <1>2, <1>3 DEF Same, Keeps

\* A transition that is let through and goes on, or sends the worker to the catch block.
LEMMA Transitioned ==
  ASSUME Inv, NEW w \in Workers, at[w] \in Working, NEW to \in RunStatus, NEW next \in Working,
         Transition(w, to, Onward(w, next)),
         next \in {"record", "hand"} => to = "syncing",
         UNCHANGED <<time, last, queueVars, faults, historyVars>>
  PROVE  WorkStep(w)
<1>1. /\ last' = last /\ faults' = faults /\ time' = time /\ UNCHANGED queueVars
      /\ suppressed' = suppressed /\ cut' = cut
  BY DEF historyVars
<1>2. RunsOK /\ ~runs[run[w]].handed
  BY InWorking
<1>3. \E t : /\ GoesOn(w, t) /\ ~runs'[run[w]].handed
             /\ t \in {"record", "hand"} => runs'[run[w]].status = "syncing"
  <2>1. CASE Allowed(RunNext, runs[run[w]].status, to)
    <3>1. runs' = [runs EXCEPT ![run[w]].status = to] /\ Onward(w, next)
      BY <2>1 DEF Transition
    <3>2. runs'[run[w]].status = to /\ ~runs'[run[w]].handed
      BY <3>1, StatusWritten
    <3>3. GoesOn(w, next)
      BY <3>1 DEF GoesOn
    <3>. QED  BY <3>2, <3>3
  <2>2. CASE ~Allowed(RunNext, runs[run[w]].status, to)
    <3>1. runs' = runs /\ GoesOn(w, "fail")
      BY <2>2 DEF Transition, GoesOn, Onward, Working
    <3>2. ~runs'[run[w]].handed
      BY <1>2, <3>1
    <3>. QED  BY <3>1, <3>2
  <2>. QED  BY <2>1, <2>2
<1>4. Same /\ \A j \in 1..Len(runs) : j # run[w] => runs'[j] = runs[j]
  <2>1. CASE runs' = [runs EXCEPT ![run[w]].status = to]
    BY <2>1, StatusWritten
  <2>2. CASE runs' = runs
    BY <1>2, <2>2, RunsUnchanged
  <2>. QED  BY <2>1, <2>2 DEF Transition
<1>. QED  BY <1>1, <1>3, <1>4, NothingElse DEF WorkStep

LEMMA WorkSteps ==
  ASSUME Inv, NEW w \in Workers,
         \/ Start(w) \/ Execute(w) \/ Stop(w) \/ Sync(w) \/ Record(w) \/ Hand(w) \/ Fail(w)
         \/ (Rejects(w) /\ at[w] \in Working)
  PROVE  WorkStep(w)
<1>1. CASE Start(w)
  <2>1. at[w] \in Working /\ "execute" \in Working /\ "running" \in RunStatus
    BY <1>1 DEF Start, Working, RunStatus
  <2>. QED  BY <1>1, <2>1, Transitioned DEF Start
<1>2. CASE Sync(w)
  <2>1. at[w] \in Working /\ "record" \in Working /\ "syncing" \in RunStatus
    BY <1>2 DEF Sync, Working, RunStatus
  <2>. QED  BY <1>2, <2>1, Transitioned DEF Sync
<1>3. CASE Execute(w)
  <2>1. PICK to \in {"sync", "timeout", "canceled"} : Goes(w, to)
    BY <1>3 DEF Execute
  <2>2. /\ at[w] \in Working /\ GoesOn(w, to) /\ runs' = runs /\ last' = last /\ faults' = faults
        /\ UNCHANGED <<time, queueVars, suppressed, cut>> /\ to \notin {"record", "hand"}
    BY <1>3, <2>1 DEF Execute, GoesOn, Onward, Working, historyVars
  <2>3. RunsOK /\ ~runs[run[w]].handed
    BY <2>2, InWorking
  <2>4. Same
    BY <2>2, <2>3, RunsUnchanged
  <2>. QED  BY <2>2, <2>3, <2>4, NothingElse DEF WorkStep
<1>4. CASE Stop(w)
  <2>1. /\ at[w] \in Working /\ at[w] \in RunStatus /\ at[w] \in Terminal
        /\ Transition(w, at[w], Leaves(w)) /\ last' = last /\ faults' = faults
        /\ UNCHANGED <<time, queueVars, suppressed, cut>>
    BY <1>4 DEF Stop, Working, RunStatus, Terminal, historyVars
  <2>2. RunsOK /\ ~runs[run[w]].handed
    BY <2>1, InWorking
  <2>3. CASE Allowed(RunNext, runs[run[w]].status, at[w])
    <3>1. runs' = [runs EXCEPT ![run[w]].status = at[w]] /\ Leaves(w)
      BY <2>1, <2>3 DEF Transition
    <3>2. /\ Same /\ \A j \in 1..Len(runs) : j # run[w] => runs'[j] = runs[j]
          /\ runs'[run[w]].status = at[w]
      BY <2>1, <3>1, StatusWritten
    <3>3. SettledNext(run[w])
      BY <2>1, <3>2 DEF SettledNext
    <3>. QED  BY <2>1, <3>1, <3>2, <3>3, NothingElse DEF WorkStep
  <2>4. CASE ~Allowed(RunNext, runs[run[w]].status, at[w])
    <3>1. runs' = runs /\ GoesOn(w, "fail")
      BY <2>1, <2>4 DEF Transition, GoesOn, Onward, Working
    <3>2. Same
      BY <2>2, <3>1, RunsUnchanged
    <3>. QED  BY <2>1, <2>2, <3>1, <3>2, NothingElse DEF WorkStep
  <2>. QED  BY <2>3, <2>4
<1>5. CASE Record(w)
  <2>1. /\ at[w] = "record" /\ at[w] \in Working /\ GoesOn(w, "hand") /\ runs' = runs
        /\ faults' = faults /\ UNCHANGED <<time, queueVars, suppressed, cut>>
        /\ last' = [last EXCEPT ![job[w].s] = [type |-> job[w].type, day |-> Today(job[w].s)]]
    BY <1>5 DEF Record, GoesOn, Onward, Working, historyVars
  <2>2. /\ run[w] \in 1..Len(runs) /\ RunsOK /\ ~runs[run[w]].handed
        /\ runs[run[w]].status = "syncing"
    BY <2>1, InWorking
  <2>3. runs[run[w]].of = job[w] /\ job[w] \in Period /\ job[w] \in known
    <3>1. runs[run[w]].of = job[w]
      BY <2>1 DEF Inv, Holds
    <3>. QED  BY <2>2, <3>1, RunAt DEF Inv, QueueOK
  <2>4. /\ job[w].s \in Sessions /\ job[w].type \in Types /\ job[w].day \in Nat
        /\ job[w].day <= Today(job[w].s) /\ Today(job[w].s) \in Nat
    <3>1. time \in Nat
      BY DEF Inv, RestOK
    <3>2. job[w].s \in Sessions /\ job[w].type \in Types /\ job[w].day \in Nat
      BY <2>3 DEF Period
    <3>. QED  BY <2>3, <3>1, <3>2, TodayIs DEF Inv, Due
  <2>5. last \in [Sessions -> Last] /\ \A s \in Sessions : Told(s, last[s])
    BY DEF Inv, RestOK, Remembered
  <2>. DEFINE l == [type |-> job[w].type, day |-> Today(job[w].s)]
  <2>6. l \in Last /\ Told(job[w].s, l)
    BY <2>2, <2>3, <2>4 DEF Last, Told
  <2>7. last' \in [Sessions -> Last] /\ \A s \in Sessions : Told(s, last'[s])
    BY <2>1, <2>4, <2>5, <2>6
  <2>8. Same
    BY <2>1, <2>2, RunsUnchanged
  <2>9. faults' \in 0..MaxFaults
    BY <2>1 DEF Inv, RestOK
  <2>. QED  BY <2>1, <2>2, <2>7, <2>8, <2>9 DEF WorkStep
<1>6. CASE Hand(w)
  <2>1. /\ at[w] = "hand" /\ at[w] \in Working /\ Leaves(w)
        /\ runs' = [runs EXCEPT ![run[w]].handed = TRUE]
        /\ last' = last /\ faults' = faults /\ UNCHANGED <<time, queueVars, suppressed, cut>>
    BY <1>6 DEF Hand, Working, historyVars
  <2>2. /\ run[w] \in 1..Len(runs) /\ RunsOK /\ runs[run[w]].status = "syncing"
        /\ Len(runs) \in Nat
    BY <2>1, InWorking
  <2>3. /\ RunsOK' /\ Len(runs') = Len(runs)
        /\ runs'[run[w]].handed /\ runs'[run[w]].of = runs[run[w]].of
        /\ runs'[run[w]].status = runs[run[w]].status
        /\ \A j \in 1..Len(runs) : j # run[w] => runs'[j] = runs[j]
    BY <2>1, <2>2, HandedSet
  <2>4. Same
    BY <2>2, <2>3 DEF Same, Keeps
  <2>5. SettledNext(run[w])
    BY <2>2, <2>3 DEF SettledNext
  <2>. QED  BY <2>1, <2>3, <2>4, <2>5, NothingElse DEF WorkStep
<1>7. CASE Fail(w)
  <2>1. /\ at[w] = "fail" /\ at[w] \in Working /\ Leaves(w)
        /\ runs' = IF Allowed(RunNext, runs[run[w]].status, "failed")
                     THEN [runs EXCEPT ![run[w]].status = "failed"] ELSE runs
        /\ last' = last /\ faults' = faults /\ UNCHANGED <<time, queueVars, suppressed, cut>>
    BY <1>7 DEF Fail, Working, historyVars
  <2>2. RunsOK /\ runs[run[w]].status \in RunStatus
    BY <2>1, InWorking
  <2>3. CASE Allowed(RunNext, runs[run[w]].status, "failed")
    <3>1. runs' = [runs EXCEPT ![run[w]].status = "failed"] /\ "failed" \in RunStatus
      BY <2>1, <2>3 DEF RunStatus
    <3>2. /\ Same /\ \A j \in 1..Len(runs) : j # run[w] => runs'[j] = runs[j]
          /\ runs'[run[w]].status = "failed"
      BY <2>1, <3>1, StatusWritten
    <3>3. SettledNext(run[w])
      BY <3>2 DEF SettledNext, Terminal
    <3>. QED  BY <2>1, <3>2, <3>3, NothingElse DEF WorkStep
  <2>4. CASE ~Allowed(RunNext, runs[run[w]].status, "failed")
    <3>1. runs' = runs
      BY <2>1, <2>4
    <3>2. runs[run[w]].status \in Terminal
      BY <2>2, <2>4 DEF Allowed, RunNext, RunStatus, Terminal
    <3>3. Same /\ SettledNext(run[w])
      BY <2>2, <3>1, <3>2, RunsUnchanged DEF SettledNext
    <3>. QED  BY <2>1, <3>1, <3>3, NothingElse DEF WorkStep
  <2>. QED  BY <2>3, <2>4
<1>8. CASE Rejects(w) /\ at[w] \in Working
  <2>1. /\ at[w] \in Working /\ runs' = runs /\ last' = last
        /\ UNCHANGED <<time, queueVars, suppressed>>
        /\ faults < MaxFaults /\ faults' = faults + 1
    BY <1>8 DEF Rejects
  <2>2. RunsOK /\ ~runs[run[w]].handed /\ run[w] \in 1..Len(runs)
    BY <2>1, InWorking
  <2>3. Same
    BY <2>1, <2>2, RunsUnchanged
  <2>4. /\ faults' \in 0..MaxFaults /\ last' \in [Sessions -> Last]
        /\ \A s \in Sessions : Told(s, last'[s])
    <3>1. MaxFaults \in Nat /\ faults \in 0..MaxFaults
      BY DigestAssumption DEF Inv, RestOK
    <3>2. faults' \in 0..MaxFaults
      BY <2>1, <3>1
    <3>. QED  BY <2>1, <3>2 DEF Inv, RestOK, Remembered
  <2>5. CASE at[w] = "fail"
    <3>1. Leaves(w) /\ cut' = cut \cup {run[w]}
      BY <1>8, <2>5 DEF Rejects
    <3>2. SettledNext(run[w])
      BY <3>1 DEF SettledNext
    <3>. QED  BY <2>1, <2>3, <2>4, <3>1, <3>2 DEF WorkStep
  <2>6. CASE at[w] # "fail"
    <3>1. at[w] \notin {"list", "each", "add", "find", "create", "fail"}
      BY <2>1, <2>6 DEF Working
    <3>2. GoesOn(w, "fail") /\ cut' = cut
      BY <1>8, <3>1 DEF Rejects, GoesOn, Working
    <3>. QED  BY <2>1, <2>2, <2>3, <2>4, <3>2 DEF WorkStep
  <2>. QED  BY <2>5, <2>6
<1>. QED  BY <1>1, <1>2, <1>3, <1>4, <1>5, <1>6, <1>7, <1>8

-----------------------------------------------------------------------------
(* The other steps.                                                         *)

LEMMA Parts ==
  ASSUME Inv
  PROVE  /\ WorkersOK /\ RunsOK /\ QueueOK /\ RestOK /\ (\A v \in Workers : Holds(v))
         /\ Rationed /\ Due /\ Remembered /\ SuppressedIsLate /\ LeftBehindHasCause
         /\ Len(runs) \in Nat /\ time \in Nat /\ faults \in 0..MaxFaults
         /\ MaxFaults \in Nat /\ MaxTime \in Nat
         /\ None \notin Period /\ None # Scan /\ Scan \notin Period
<1>1. RunsOK /\ RestOK
  BY DEF Inv
<1>2. Len(runs) \in Nat
  BY <1>1, LenProperties DEF RunsOK
<1>3. time \in Nat /\ faults \in 0..MaxFaults
  BY <1>1 DEF RestOK
<1>. QED  BY <1>1, <1>2, <1>3, DigestAssumption, ScanIsNoPeriod DEF Inv

\* A worker that stays where it is, with a run that stays as it is.
LEMMA HoldsKept ==
  ASSUME NEW v \in Workers, Holds(v), at'[v] = at[v], job'[v] = job[v], run'[v] = run[v],
         Len(runs) \in Nat, Len(runs') \in Nat, Len(runs) <= Len(runs'),
         at[v] \in Working => runs'[run[v]] = runs[run[v]]
  PROVE  Holds(v)'
<1>1. {"record", "hand"} \subseteq Working
  BY DEF Working
<1>. QED  BY <1>1 DEF Holds

LEMMA QueueKept ==
  ASSUME QueueOK, waiting' = waiting, known' = known, stalled' = stalled,
         \A v \in Workers : job'[v] \in Period => job'[v] = job[v]
  PROVE  QueueOK'
BY DEF QueueOK

\* Where a run stays with its worker, it keeps its cause.
LEMMA LeftStays ==
  ASSUME LeftBehindHasCause, RunsOK, runs' = runs, cut' = cut, run' = run
  PROVE  LeftBehindHasCause'
BY DEF LeftBehindHasCause

LEMMA TickStep ==
  ASSUME Inv, Tick
  PROVE  Inv'
<1>1. /\ WorkersOK /\ RunsOK /\ QueueOK /\ RestOK /\ (\A v \in Workers : Holds(v))
      /\ Rationed /\ Due /\ Remembered /\ SuppressedIsLate /\ LeftBehindHasCause
      /\ time \in Nat /\ MaxTime \in Nat
  BY Parts
<1>2. /\ time < MaxTime /\ time' = time + 1
      /\ last' = last /\ waiting' = waiting /\ known' = known /\ stalled' = stalled
      /\ at' = at /\ job' = job /\ todo' = todo /\ adds' = adds /\ run' = run
      /\ runs' = runs /\ faults' = faults /\ suppressed' = suppressed /\ cut' = cut
  BY DEF Tick, queueVars, workerVars, historyVars
<1>3. time' \in 0..MaxTime /\ time' \in Nat /\ time <= time'
  BY <1>1, <1>2
<1>4. ASSUME NEW p \in Period, p.day <= Today(p.s) PROVE p.day <= Today(p.s)'
  <2>1. p.s \in Sessions /\ p.day \in Nat
    BY DEF Period
  <2>2. Today(p.s) <= Today(p.s)' /\ Today(p.s) \in Nat /\ Today(p.s)' \in Nat
    <3>1. Today(p.s) <= Today(p.s)' /\ Today(p.s) \in Nat
      BY <1>1, <1>3, <2>1, TodayGoesOn, TodayIs
    <3>2. Today(p.s)' \in Nat
      <4>1. Offset[p.s] \in Nat /\ Hours \in Nat \ {0}
        BY <2>1, DigestAssumption
      <4>2. \A x \in Nat, y \in Nat \ {0} : x \div y \in Nat
        OBVIOUS
      <4>3. time' + Offset[p.s] \in Nat
        BY <1>3, <4>1
      <4>. QED  BY <4>1, <4>2, <4>3 DEF Today
    <3>. QED  BY <3>1, <3>2
  <2>. QED  BY <1>4, <2>1, <2>2
<1>5. Due'
  <2>1. known \subseteq Period /\ \A w \in Workers : adds[w] \subseteq Period
    BY <1>1 DEF QueueOK, WorkersOK
  <2>2. ASSUME NEW p \in known' PROVE p.day <= Today(p.s)'
    <3>1. p \in Period /\ p.day <= Today(p.s)
      BY <1>1, <1>2, <2>1 DEF Due
    <3>. QED  BY <3>1, <1>4
  <2>3. ASSUME NEW w \in Workers, NEW p \in adds'[w] PROVE p.day <= Today(p.s)'
    <3>1. p \in Period /\ p.day <= Today(p.s)
      BY <1>1, <1>2, <2>1 DEF Due
    <3>. QED  BY <3>1, <1>4
  <2>4. (\A p \in known : p.day <= Today(p.s))'
    BY <2>2
  <2>5. (\A w \in Workers : \A p \in adds[w] : p.day <= Today(p.s))'
    BY <2>3
  <2>. QED  BY <2>4, <2>5 DEF Due
<1>6. WorkersOK' /\ RunsOK' /\ QueueOK' /\ (\A v \in Workers : Holds(v)')
  BY <1>1, <1>2 DEF WorkersOK, RunsOK, QueueOK, Holds
<1>7. RestOK'
  BY <1>1, <1>2, <1>3 DEF RestOK
<1>8. Rationed' /\ Remembered'
  BY <1>1, <1>2 DEF Rationed, Spent, Made, Coming, Remembered, Told
<1>9. SuppressedIsLate' /\ LeftBehindHasCause'
  BY <1>1, <1>2 DEF SuppressedIsLate, LeftBehindHasCause
<1>. QED  BY <1>5, <1>6, <1>7, <1>8, <1>9 DEF Inv

LEMMA ScheduleStep ==
  ASSUME Inv, Schedule
  PROVE  Inv'
<1>1. /\ WorkersOK /\ RunsOK /\ QueueOK /\ RestOK /\ (\A v \in Workers : Holds(v))
      /\ Rationed /\ Due /\ Remembered /\ SuppressedIsLate /\ LeftBehindHasCause
      /\ Len(runs) \in Nat /\ time \in Nat /\ Scan \notin Period
  BY Parts
<1>2. /\ waiting' = Append(waiting, Scan) /\ stalled' = stalled \ {Scan}
      /\ time' = time /\ last' = last /\ known' = known
      /\ at' = at /\ job' = job /\ todo' = todo /\ adds' = adds /\ run' = run
      /\ runs' = runs /\ faults' = faults /\ suppressed' = suppressed /\ cut' = cut
  BY DEF Schedule, workerVars, historyVars
<1>3. /\ waiting' \in Seq(Job) /\ Len(waiting) \in Nat /\ Len(waiting') = Len(waiting) + 1
      /\ waiting'[Len(waiting) + 1] = Scan
      /\ \A i \in 1..Len(waiting) : waiting'[i] = waiting[i]
  BY <1>1, <1>2, AppendOf DEF QueueOK, Job
<1>4. \A i \in 1..Len(waiting) : waiting[i] # Scan
  <2>1. DOMAIN waiting = 1..Len(waiting)
    BY <1>1, LenProperties DEF QueueOK
  <2>. QED  BY <2>1 DEF Schedule
<1>5. \A i \in 1..Len(waiting') : i \in 1..Len(waiting) \/ i = Len(waiting) + 1
  BY <1>3
<1>6. QueueOK'
  <2>1. \A i, j \in 1..Len(waiting') : waiting'[i] = waiting'[j] => i = j
    BY <1>1, <1>3, <1>4, <1>5 DEF QueueOK
  <2>2. \A i \in 1..Len(waiting') : waiting'[i] # Scan => waiting'[i] \in known
    BY <1>1, <1>3, <1>5 DEF QueueOK
  <2>3. \A w \in Workers : job[w] \in Period =>
          job[w] \in known /\ \A i \in 1..Len(waiting') : waiting'[i] # job[w]
    BY <1>1, <1>3, <1>5 DEF QueueOK
  <2>. QED  BY <1>1, <1>2, <1>3, <2>1, <2>2, <2>3 DEF QueueOK, Job
<1>7. Rationed'
  <2>1. Same
    BY <1>1, <1>2, RunsUnchanged
  <2>2. known \subseteq Period
    BY <1>1 DEF QueueOK
  <2>3. ASSUME NEW p \in known, Coming(p)' PROVE Coming(p)
    <3>1. p # Scan
      BY <1>1, <2>2
    <3>. QED  BY <1>2, <1>3, <1>5, <2>3, <3>1 DEF Coming
  <2>. QED  BY <1>1, <1>2, <2>1, <2>2, <2>3, RationedKept
<1>8. WorkersOK' /\ RunsOK' /\ RestOK' /\ \A v \in Workers : Holds(v)'
  BY <1>1, <1>2 DEF WorkersOK, RunsOK, RestOK, Holds
<1>9. Due' /\ Remembered' /\ SuppressedIsLate' /\ LeftBehindHasCause'
  BY <1>1, <1>2 DEF Due, Today, Remembered, Told, SuppressedIsLate, LeftBehindHasCause
<1>. QED  BY <1>6, <1>7, <1>8, <1>9 DEF Inv

LEMMA TakeStep ==
  ASSUME Inv, NEW w \in Workers, Take(w)
  PROVE  Inv'
<1>1. /\ WorkersOK /\ RunsOK /\ QueueOK /\ RestOK /\ (\A v \in Workers : Holds(v))
      /\ Rationed /\ Due /\ Remembered /\ SuppressedIsLate /\ LeftBehindHasCause
      /\ Len(runs) \in Nat /\ time \in Nat /\ None \notin Period /\ None # Scan
      /\ Scan \notin Period
  BY Parts
<1>. DEFINE p == Head(waiting)
            to == IF p = Scan THEN "list" ELSE "find"
<1>2. /\ at[w] = "idle" /\ waiting # <<>> /\ job' = [job EXCEPT ![w] = p]
      /\ waiting' = Tail(waiting) /\ at' = [at EXCEPT ![w] = to]
      /\ time' = time /\ last' = last /\ known' = known /\ stalled' = stalled
      /\ todo' = todo /\ adds' = adds /\ run' = run /\ runs' = runs /\ faults' = faults
      /\ suppressed' = suppressed /\ cut' = cut
  BY DEF Take, Goes, historyVars
<1>3. /\ Tail(waiting) \in Seq(Job) /\ p = waiting[1] /\ p \in Job
      /\ Len(waiting) \in Nat \ {0} /\ Len(Tail(waiting)) = Len(waiting) - 1
      /\ \A i \in 1..Len(Tail(waiting)) : Tail(waiting)[i] = waiting[i + 1]
  BY <1>1, <1>2, TailOf DEF QueueOK, Job
<1>. HIDE DEF p
<1>4. /\ at'[w] = to /\ job'[w] = p /\ \A v \in Workers : v # w => at'[v] = at[v] /\ job'[v] = job[v]
  BY <1>1, <1>2 DEF WorkersOK
<1>5. WorkersOK'
  BY <1>1, <1>2, <1>3 DEF WorkersOK, Scanning, Starting, Job
<1>6. ASSUME NEW v \in Workers PROVE Holds(v)'
  <2>1. CASE v = w
    <3>1. run[w] = 0
      BY <1>1, <1>2 DEF Holds, Working
    <3>2. p # None /\ to # "idle" /\ to \notin Working /\ (to \in Scanning <=> p = Scan)
          /\ to \notin {"record", "hand"}
      BY <1>1, <1>3 DEF Job, Working, Scanning
    <3>. QED  BY <1>2, <1>4, <2>1, <3>1, <3>2 DEF Holds
  <2>2. CASE v # w
    BY <1>1, <1>2, <1>4, <2>2, HoldsKept
  <2>. QED  BY <2>1, <2>2
<1>7. ASSUME NEW i \in 1..Len(waiting')
      PROVE  i + 1 \in 1..Len(waiting) /\ waiting'[i] = waiting[i + 1] /\ i + 1 # 1
  BY <1>2, <1>3
<1>8. \A i \in 1..Len(waiting') : waiting'[i] # p
  <2>1. 1 \in 1..Len(waiting)
    BY <1>3
  <2>. QED  BY <1>1, <1>3, <1>7, <2>1 DEF QueueOK
<1>9. QueueOK'
  <2>1. \A i, j \in 1..Len(waiting') : waiting'[i] = waiting'[j] => i = j
    <3>1. SUFFICES ASSUME NEW i \in 1..Len(waiting'), NEW j \in 1..Len(waiting'),
                          waiting'[i] = waiting'[j]
                   PROVE  i = j
      OBVIOUS
    <3>2. i + 1 = j + 1
      BY <1>1, <1>7, <3>1 DEF QueueOK
    <3>. QED  BY <3>2
  <2>2. \A i \in 1..Len(waiting') : waiting'[i] # Scan => waiting'[i] \in known
    BY <1>1, <1>7 DEF QueueOK
  <2>3. p \in Period => p \in known /\ \A v \in Workers : job[v] # p
    <3>1. 1 \in 1..Len(waiting)
      BY <1>3
    <3>. QED  BY <1>1, <1>3, <3>1 DEF QueueOK
  <2>4. \A v \in Workers : job'[v] \in Period =>
          job'[v] \in known /\ \A i \in 1..Len(waiting') : waiting'[i] # job'[v]
    BY <1>1, <1>4, <1>7, <1>8, <2>3 DEF QueueOK
  <2>5. \A u, v \in Workers : job'[u] = job'[v] /\ job'[v] \in Period => u = v
    BY <1>1, <1>4, <2>3 DEF QueueOK
  <2>. QED  BY <1>1, <1>2, <1>3, <2>1, <2>2, <2>4, <2>5 DEF QueueOK, Job
<1>10. Rationed'
  <2>1. Same
    BY <1>1, <1>2, RunsUnchanged
  <2>2. ASSUME NEW q \in known, Coming(q)' PROVE Coming(q)
    <3>1. CASE \E i \in 1..Len(waiting') : waiting'[i] = q
      BY <1>7, <3>1 DEF Coming
    <3>2. CASE \E v \in Workers : job'[v] = q /\ at'[v] \in Starting
      <4>1. 1 \in 1..Len(waiting)
        BY <1>3
      <4>. QED  BY <1>3, <1>4, <3>2, <4>1 DEF Coming
    <3>. QED  BY <2>2, <3>1, <3>2 DEF Coming
  <2>. QED  BY <1>1, <1>2, <2>1, <2>2, RationedKept DEF QueueOK
<1>11. RunsOK' /\ RestOK' /\ Due' /\ Remembered' /\ SuppressedIsLate' /\ LeftBehindHasCause'
  BY <1>1, <1>2
     DEF RunsOK, RestOK, Due, Today, Remembered, Told, SuppressedIsLate, LeftBehindHasCause
<1>. QED  BY <1>5, <1>6, <1>9, <1>10, <1>11 DEF Inv

\* A worker before its run is made: it goes to the next call, or leaves its job;
\* the queue and the runs stay.
LEMMA GivesUp ==
  ASSUME Inv, NEW w \in Workers, at[w] \in Scanning \cup Starting, Leaves(w),
         UNCHANGED <<time, last, queueVars, runs, suppressed, cut>>, faults' \in 0..MaxFaults
  PROVE  Inv'
<1>1. /\ WorkersOK /\ RunsOK /\ QueueOK /\ RestOK /\ (\A v \in Workers : Holds(v))
      /\ Rationed /\ Due /\ Remembered /\ SuppressedIsLate /\ LeftBehindHasCause
      /\ Len(runs) \in Nat /\ time \in Nat /\ None \notin Period /\ None # Scan
  BY Parts
<1>2. /\ time' = time /\ last' = last /\ waiting' = waiting /\ known' = known
      /\ stalled' = stalled /\ runs' = runs /\ suppressed' = suppressed /\ cut' = cut
  BY DEF queueVars
<1>3. /\ WorkersOK'
      /\ at'[w] = "idle" /\ job'[w] = None /\ todo'[w] = {} /\ adds'[w] = {} /\ run'[w] = 0
      /\ \A v \in Workers : v # w =>
           /\ at'[v] = at[v] /\ job'[v] = job[v] /\ todo'[v] = todo[v]
           /\ adds'[v] = adds[v] /\ run'[v] = run[v]
  BY <1>1, LeavesIs
<1>4. run[w] = 0
  BY <1>1 DEF Holds, Working, Scanning, Starting
<1>5. ASSUME NEW v \in Workers PROVE Holds(v)'
  <2>1. CASE v = w
    BY <1>1, <1>3, <2>1 DEF Holds, Working, Scanning
  <2>2. CASE v # w
    BY <1>1, <1>2, <1>3, <2>2, HoldsKept
  <2>. QED  BY <2>1, <2>2
<1>6. QueueOK'
  <2>1. \A v \in Workers : job'[v] \in Period => job'[v] = job[v]
    BY <1>1, <1>3
  <2>. QED  BY <1>1, <1>2, <2>1, QueueKept
<1>7. Rationed'
  <2>1. Same
    BY <1>1, <1>2, RunsUnchanged
  <2>2. ASSUME NEW q \in known, Coming(q)' PROVE Coming(q)
    <3>1. "idle" \notin Starting
      BY DEF Starting
    <3>. QED  BY <1>2, <1>3, <2>2, <3>1 DEF Coming
  <2>. QED  BY <1>1, <1>2, <2>1, <2>2, RationedKept DEF QueueOK
<1>8. Due'
  <2>1. \A v \in Workers : adds'[v] \subseteq adds[v]
    BY <1>3
  <2>. QED  BY <1>1, <1>2, <2>1, DueKept DEF QueueOK
<1>9. Remembered'
  <2>1. \A v \in Workers : todo'[v] \subseteq todo[v]
    BY <1>3
  <2>2. Keeps
    BY <1>1, <1>2, RunsUnchanged DEF Same
  <2>. QED  BY <1>1, <1>2, <2>1, <2>2, RememberedKept
<1>10. LeftBehindHasCause'
  <2>1. run' = run
    BY <1>1, <1>3, <1>4 DEF Leaves, WorkersOK
  <2>. QED  BY <1>1, <1>2, <2>1, LeftStays
<1>11. RunsOK' /\ RestOK' /\ SuppressedIsLate'
  BY <1>1, <1>2 DEF RunsOK, RestOK, SuppressedIsLate
<1>. QED  BY <1>3, <1>5, <1>6, <1>7, <1>8, <1>9, <1>10, <1>11 DEF Inv

LEMMA FindStep ==
  ASSUME Inv, NEW w \in Workers, Find(w)
  PROVE  Inv'
<1>1. /\ WorkersOK /\ RunsOK /\ QueueOK /\ RestOK /\ (\A v \in Workers : Holds(v))
      /\ Rationed /\ Due /\ Remembered /\ SuppressedIsLate /\ LeftBehindHasCause
      /\ Len(runs) \in Nat /\ time \in Nat
  BY Parts
<1>2. /\ at[w] = "find" /\ time' = time /\ last' = last /\ waiting' = waiting
      /\ known' = known /\ stalled' = stalled /\ runs' = runs /\ faults' = faults
      /\ suppressed' = suppressed /\ cut' = cut
      /\ UNCHANGED <<time, last, queueVars, runs, suppressed, cut>>
  BY DEF Find, queueVars, historyVars
<1>3. CASE Leaves(w)
  <2>1. at[w] \in Scanning \cup Starting /\ faults' \in 0..MaxFaults
    BY <1>1, <1>2 DEF Starting, RestOK
  <2>. QED  BY <1>2, <1>3, <2>1, GivesUp
<1>4. CASE Goes(w, "create") /\ UNCHANGED <<job, todo, adds, run>>
  <2>1. /\ at' = [at EXCEPT ![w] = "create"] /\ at'[w] = "create"
        /\ job' = job /\ todo' = todo /\ adds' = adds /\ run' = run
        /\ \A v \in Workers : v # w => at'[v] = at[v]
    BY <1>1, <1>4 DEF Goes, WorkersOK
  <2>2. WorkersOK'
    BY <1>1, <2>1 DEF WorkersOK, Starting
  <2>3. ASSUME NEW v \in Workers PROVE Holds(v)'
    <3>1. CASE v = w
      BY <1>1, <1>2, <2>1, <3>1 DEF Holds, Working, Scanning
    <3>2. CASE v # w
      BY <1>1, <1>2, <2>1, <3>2, HoldsKept
    <3>. QED  BY <3>1, <3>2
  <2>4. QueueOK' /\ RunsOK' /\ RestOK'
    BY <1>1, <1>2, <2>1 DEF QueueOK, RunsOK, RestOK
  <2>5. Rationed'
    <3>1. Same
      BY <1>1, <1>2, RunsUnchanged
    <3>2. ASSUME NEW q \in known, Coming(q)' PROVE Coming(q)
      <4>1. at[w] \in Starting
        BY <1>2 DEF Starting
      <4>. QED  BY <1>2, <2>1, <3>2, <4>1 DEF Coming
    <3>. QED  BY <1>1, <1>2, <3>1, <3>2, RationedKept DEF QueueOK
  <2>6. Due' /\ Remembered' /\ SuppressedIsLate' /\ LeftBehindHasCause'
    BY <1>1, <1>2, <2>1
       DEF Due, Today, Remembered, Told, SuppressedIsLate, LeftBehindHasCause
  <2>. QED  BY <2>2, <2>3, <2>4, <2>5, <2>6 DEF Inv
<1>. QED  BY <1>3, <1>4 DEF Find

LEMMA RejectsStep ==
  ASSUME Inv, NEW w \in Workers, Rejects(w)
  PROVE  Inv'
<1>1. WorkersOK /\ faults \in 0..MaxFaults /\ MaxFaults \in Nat
  BY Parts
<1>2. CASE at[w] \in Working
  BY <1>2, WorkSteps, WorkKeeps
<1>3. CASE at[w] \notin Working
  <2>1. at[w] # "idle" /\ faults < MaxFaults /\ faults' = faults + 1
    BY DEF Rejects
  <2>2. at[w] \in Scanning \cup Starting
    BY <1>1, <1>3, <2>1 DEF WorkersOK
  <2>3. at[w] \in {"list", "each", "add", "find", "create", "fail"} /\ at[w] # "fail"
    BY <2>2 DEF Scanning, Starting
  <2>4. Leaves(w) /\ UNCHANGED <<time, last, queueVars, runs, suppressed, cut>>
    BY <2>3 DEF Rejects
  <2>5. faults' \in 0..MaxFaults
    BY <1>1, <2>1
  <2>. QED  BY <2>2, <2>4, <2>5, GivesUp
<1>. QED  BY <1>2, <1>3

LEMMA ListStep ==
  ASSUME Inv, NEW w \in Workers, List(w)
  PROVE  Inv'
<1>1. /\ WorkersOK /\ RunsOK /\ QueueOK /\ RestOK /\ (\A v \in Workers : Holds(v))
      /\ Rationed /\ Due /\ Remembered /\ SuppressedIsLate /\ LeftBehindHasCause
      /\ Len(runs) \in Nat /\ time \in Nat
  BY Parts
<1>2. PICK free \in SUBSET Sessions :
        todo' = [todo EXCEPT ![w] = {[s |-> s, last |-> last[s]] : s \in free}]
  BY DEF List
<1>3. /\ at[w] = "list" /\ at' = [at EXCEPT ![w] = "each"]
      /\ time' = time /\ last' = last /\ waiting' = waiting
      /\ known' = known /\ stalled' = stalled /\ runs' = runs /\ faults' = faults
      /\ job' = job /\ adds' = adds /\ run' = run /\ suppressed' = suppressed /\ cut' = cut
  BY DEF List, Goes, queueVars, historyVars
<1>4. /\ at'[w] = "each" /\ \A v \in Workers : v # w => at'[v] = at[v] /\ todo'[v] = todo[v]
      /\ todo'[w] = {[s |-> s, last |-> last[s]] : s \in free}
  BY <1>1, <1>2, <1>3 DEF WorkersOK
<1>5. WorkersOK'
  <2>1. todo'[w] \subseteq [s: Sessions, last: Last]
    BY <1>1, <1>4 DEF RestOK
  <2>. QED  BY <1>1, <1>2, <1>3, <2>1 DEF WorkersOK, Scanning
<1>6. ASSUME NEW v \in Workers PROVE Holds(v)'
  <2>1. CASE v = w
    BY <1>1, <1>3, <1>4, <2>1 DEF Holds, Working, Scanning
  <2>2. CASE v # w
    BY <1>1, <1>3, <1>4, <2>2, HoldsKept
  <2>. QED  BY <2>1, <2>2
<1>7. QueueOK' /\ RunsOK' /\ RestOK'
  BY <1>1, <1>3 DEF QueueOK, RunsOK, RestOK
<1>8. Rationed'
  <2>1. Same
    BY <1>1, <1>3, RunsUnchanged
  <2>2. ASSUME NEW q \in known, Coming(q)' PROVE Coming(q)
    <3>1. "each" \notin Starting
      BY DEF Starting
    <3>. QED  BY <1>3, <1>4, <2>2, <3>1 DEF Coming
  <2>. QED  BY <1>1, <1>3, <2>1, <2>2, RationedKept DEF QueueOK
<1>9. Remembered'
  <2>1. ASSUME NEW v \in Workers, NEW e \in todo'[v] PROVE Told(e.s, e.last)
    <3>1. CASE v = w
      BY <1>1, <1>4, <3>1 DEF Remembered
    <3>2. CASE v # w
      BY <1>1, <1>4, <3>2 DEF Remembered
    <3>. QED  BY <3>1, <3>2
  <2>. QED  BY <1>1, <1>3, <2>1 DEF Remembered, Told
<1>10. Due' /\ SuppressedIsLate' /\ LeftBehindHasCause'
  BY <1>1, <1>3 DEF Due, Today, SuppressedIsLate, LeftBehindHasCause
<1>. QED  BY <1>5, <1>6, <1>7, <1>8, <1>9, <1>10 DEF Inv

\* A digest left out was made, or an earlier day's has its day.
LEMMA LeftOutIsLate ==
  ASSUME Inv, NEW s \in Sessions, NEW l \in Last, Told(s, l), NEW t \in Types,
         DidRunForCurrentDay(l, s, t)
  PROVE  LET p == PeriodKey(s, t) IN
         \/ p \in known
         \/ \E i \in DOMAIN runs : /\ runs[i].of.s = p.s /\ runs[i].of.type = p.type
                                   /\ runs[i].of.day < p.day
<1>1. RunsOK /\ Rationed /\ Len(runs) \in Nat /\ time \in Nat
  BY Parts
<1>2. l.type = t /\ l.day = Today(s) /\ l.type # "none"
  BY DEF DidRunForCurrentDay, Types
<1>3. PICK i \in 1..Len(runs) :
        runs[i].of.s = s /\ runs[i].of.type = t /\ runs[i].of.day <= Today(s)
  BY <1>2 DEF Told
<1>4. /\ runs[i].of \in Period /\ i \in DOMAIN runs /\ runs[i].of \in known
      /\ Today(s) \in Nat
  BY <1>1, RunAt, LenProperties, TodayIs DEF RunsOK, Rationed
<1>5. /\ PeriodKey(s, t).s = s /\ PeriodKey(s, t).type = t /\ PeriodKey(s, t).day = Today(s)
      /\ PeriodKey(s, t) \in Period
  BY <1>1, PeriodIs DEF PeriodKey
<1>6. runs[i].of.day \in Nat
  BY <1>4 DEF Period
<1>7. CASE runs[i].of.day < Today(s)
  BY <1>3, <1>4, <1>5, <1>7
<1>8. CASE runs[i].of.day = Today(s)
  <2>1. runs[i].of = PeriodKey(s, t)
    BY <1>3, <1>4, <1>8 DEF PeriodKey, Period
  <2>. QED  BY <1>4, <2>1
<1>9. runs[i].of.day < Today(s) \/ runs[i].of.day = Today(s)
  BY <1>3, <1>4, <1>6
<1>. QED  BY <1>7, <1>8, <1>9

LEMMA EachStep ==
  ASSUME Inv, NEW w \in Workers, Each(w)
  PROVE  Inv'
<1>1. /\ WorkersOK /\ RunsOK /\ QueueOK /\ RestOK /\ (\A v \in Workers : Holds(v))
      /\ Rationed /\ Due /\ Remembered /\ SuppressedIsLate /\ LeftBehindHasCause
      /\ Len(runs) \in Nat /\ time \in Nat
  BY Parts
<1>2. /\ at[w] = "each" /\ time' = time /\ last' = last /\ waiting' = waiting
      /\ known' = known /\ stalled' = stalled /\ runs' = runs /\ faults' = faults
      /\ cut' = cut
  BY DEF Each, queueVars
<1>3. CASE Leaves(w) /\ UNCHANGED suppressed
  <2>1. at[w] \in Scanning \cup Starting /\ faults' \in 0..MaxFaults
    BY <1>1, <1>2 DEF Scanning, RestOK
  <2>2. UNCHANGED <<time, last, queueVars, runs, suppressed, cut>>
    BY <1>2, <1>3 DEF queueVars
  <2>. QED  BY <1>3, <2>1, <2>2, GivesUp
<1>4. ASSUME NEW e \in todo[w], NEW out, out \subseteq Matching(e.s),
             \A t \in out : DidRunForCurrentDay(e.last, e.s, t),
             NEW in, in \subseteq Matching(e.s), NEW to \in {"each", "add"},
             todo' = [todo EXCEPT ![w] = @ \ {e}],
             adds' = [adds EXCEPT ![w] = {PeriodKey(e.s, t) : t \in in}],
             suppressed' = suppressed \cup {PeriodKey(e.s, t) : t \in out},
             Goes(w, to), UNCHANGED <<job, run>>
      PROVE  Inv'
  <2>1. /\ at' = [at EXCEPT ![w] = to] /\ at'[w] = to /\ job' = job /\ run' = run
        /\ \A v \in Workers : v # w =>
             at'[v] = at[v] /\ todo'[v] = todo[v] /\ adds'[v] = adds[v]
        /\ todo'[w] = todo[w] \ {e} /\ adds'[w] = {PeriodKey(e.s, t) : t \in in}
    BY <1>1, <1>4 DEF WorkersOK, Goes
  <2>2. /\ e.s \in Sessions /\ e.last \in Last /\ Told(e.s, e.last)
        /\ out \subseteq Types /\ in \subseteq Types
    <3>1. e \in [s: Sessions, last: Last]
      BY <1>1, <1>4 DEF WorkersOK
    <3>. QED  BY <1>1, <1>4, <3>1 DEF Remembered, Matching
  <2>3. \A t \in Types : PeriodKey(e.s, t) \in Period
    BY <1>1, <2>2, PeriodIs
  <2>4. WorkersOK'
    <3>1. adds'[w] \subseteq Period /\ todo'[w] \subseteq [s: Sessions, last: Last]
      BY <1>1, <2>1, <2>2, <2>3 DEF WorkersOK
    <3>. QED  BY <1>1, <1>4, <2>1, <3>1 DEF WorkersOK, Scanning
  <2>5. ASSUME NEW v \in Workers PROVE Holds(v)'
    <3>1. CASE v = w
      BY <1>1, <1>2, <1>4, <2>1, <3>1 DEF Holds, Working, Scanning
    <3>2. CASE v # w
      BY <1>1, <1>2, <2>1, <3>2, HoldsKept
    <3>. QED  BY <3>1, <3>2
  <2>6. QueueOK' /\ RunsOK'
    BY <1>1, <1>2, <2>1 DEF QueueOK, RunsOK
  <2>7. RestOK'
    <3>1. suppressed' \subseteq Period
      BY <1>1, <1>4, <2>2, <2>3 DEF RestOK
    <3>. QED  BY <1>1, <1>2, <3>1 DEF RestOK
  <2>8. Rationed'
    <3>1. Same
      BY <1>1, <1>2, RunsUnchanged
    <3>2. ASSUME NEW q \in known, Coming(q)' PROVE Coming(q)
      <4>1. to \notin Starting
        BY <1>4 DEF Starting
      <4>. QED  BY <1>2, <2>1, <3>2, <4>1 DEF Coming
    <3>. QED  BY <1>1, <1>2, <3>1, <3>2, RationedKept DEF QueueOK
  <2>9. Due'
    <3>1. \A p \in adds'[w] : p.day <= Today(p.s)
      <4>1. ASSUME NEW p \in adds'[w] PROVE p.day <= Today(p.s)
        <5>1. PICK t \in in : p = PeriodKey(e.s, t)
          BY <2>1
        <5>2. p.s = e.s /\ p.day = Today(e.s) /\ Today(e.s) \in Nat
          BY <1>1, <2>2, <5>1, TodayIs DEF PeriodKey
        <5>. QED  BY <5>2
      <4>. QED  BY <4>1
    <3>. QED  BY <1>1, <1>2, <2>1, <3>1 DEF Due, Today
  <2>10. Remembered'
    <3>1. \A v \in Workers : todo'[v] \subseteq todo[v]
      BY <2>1
    <3>2. Keeps
      BY <1>1, <1>2, RunsUnchanged DEF Same
    <3>. QED  BY <1>1, <1>2, <3>1, <3>2, RememberedKept
  <2>11. SuppressedIsLate'
    <3>1. ASSUME NEW p \in suppressed'
          PROVE  \/ p \in known
                 \/ \E i \in DOMAIN runs : /\ runs[i].of.s = p.s /\ runs[i].of.type = p.type
                                           /\ runs[i].of.day < p.day
      <4>1. CASE p \in suppressed
        BY <1>1, <4>1 DEF SuppressedIsLate
      <4>2. CASE p \notin suppressed
        <5>1. PICK t \in out : p = PeriodKey(e.s, t)
          BY <1>4, <4>2
        <5>2. t \in Types /\ DidRunForCurrentDay(e.last, e.s, t)
          BY <1>4, <2>2
        <5>. QED  BY <2>2, <5>1, <5>2, LeftOutIsLate
      <4>. QED  BY <4>1, <4>2
    <3>. QED  BY <1>2, <3>1 DEF SuppressedIsLate
  <2>12. LeftBehindHasCause'
    BY <1>1, <1>2, <2>1, LeftStays
  <2>. QED  BY <2>4, <2>5, <2>6, <2>7, <2>8, <2>9, <2>10, <2>11, <2>12 DEF Inv
<1>5. CASE \E e \in todo[w] :
        LET made(t) == DidRunForCurrentDay(e.last, e.s, t)
            due == {t \in Matching(e.s) : ~made(t)}
        IN /\ todo' = [todo EXCEPT ![w] = @ \ {e}]
           /\ adds' = [adds EXCEPT ![w] = {PeriodKey(e.s, t) : t \in due}]
           /\ suppressed' = suppressed \cup {PeriodKey(e.s, t) : t \in Matching(e.s) \ due}
           /\ Goes(w, IF due = {} THEN "each" ELSE "add")
           /\ UNCHANGED <<job, run>>
  <2>. DEFINE due(e) == {t \in Matching(e.s) : ~DidRunForCurrentDay(e.last, e.s, t)}
  <2>1. PICK e \in todo[w] :
          /\ todo' = [todo EXCEPT ![w] = @ \ {e}]
          /\ adds' = [adds EXCEPT ![w] = {PeriodKey(e.s, t) : t \in due(e)}]
          /\ suppressed' = suppressed \cup {PeriodKey(e.s, t) : t \in Matching(e.s) \ due(e)}
          /\ Goes(w, IF due(e) = {} THEN "each" ELSE "add")
          /\ UNCHANGED <<job, run>>
    BY <1>5
  <2>2. /\ due(e) \subseteq Matching(e.s) /\ Matching(e.s) \ due(e) \subseteq Matching(e.s)
        /\ \A t \in Matching(e.s) \ due(e) : DidRunForCurrentDay(e.last, e.s, t)
    OBVIOUS
  <2>. HIDE DEF due
  <2>3. PICK to \in {"each", "add"} : Goes(w, to)
    BY <2>1
  <2>. QED  BY <1>4, <2>1, <2>2, <2>3
<1>. QED  BY <1>3, <1>5 DEF Each

LEMMA AddStep ==
  ASSUME Inv, NEW w \in Workers, Add(w)
  PROVE  Inv'
<1>1. /\ WorkersOK /\ RunsOK /\ QueueOK /\ RestOK /\ (\A v \in Workers : Holds(v))
      /\ Rationed /\ Due /\ Remembered /\ SuppressedIsLate /\ LeftBehindHasCause
      /\ Len(runs) \in Nat /\ time \in Nat /\ Scan \notin Period
  BY Parts
<1>2. PICK p \in adds[w] :
        /\ waiting' = IF p \in known THEN waiting ELSE Append(waiting, p)
        /\ known' = known \cup {p}
        /\ adds' = [adds EXCEPT ![w] = @ \ {p}]
        /\ Goes(w, IF adds[w] = {p} THEN "each" ELSE "add")
  BY DEF Add, Foremost
<1>3. PICK to \in {"each", "add"} : at' = [at EXCEPT ![w] = to]
  BY <1>2 DEF Goes
<1>4. /\ at[w] = "add" /\ time' = time /\ last' = last /\ stalled' = stalled /\ job' = job
      /\ todo' = todo /\ run' = run /\ runs' = runs /\ faults' = faults
      /\ suppressed' = suppressed /\ cut' = cut
  BY DEF Add, historyVars
<1>5. /\ at'[w] = to /\ \A v \in Workers : v # w => at'[v] = at[v] /\ adds'[v] = adds[v]
      /\ adds'[w] = adds[w] \ {p} /\ p \in Period /\ p # Scan
      /\ to \notin Starting /\ to \notin Working /\ to # "idle" /\ to \in Scanning
  <2>1. adds[w] \subseteq Period
    BY <1>1 DEF WorkersOK
  <2>. QED  BY <1>1, <1>2, <1>3, <2>1 DEF WorkersOK, Starting, Working, Scanning
<1>6. /\ waiting' \in Seq(Job) /\ Len(waiting) \in Nat
      /\ p \in known => waiting' = waiting
      /\ p \notin known => /\ Len(waiting') = Len(waiting) + 1
                           /\ waiting'[Len(waiting) + 1] = p
                           /\ \A i \in 1..Len(waiting) : waiting'[i] = waiting[i]
  <2>1. waiting \in Seq(Job) /\ p \in Job
    BY <1>1, <1>5 DEF QueueOK, Job
  <2>. QED  BY <1>2, <2>1, AppendOf
<1>7. WorkersOK'
  <2>1. adds' \in [Workers -> SUBSET Period]
    BY <1>1, <1>2, <1>5 DEF WorkersOK
  <2>2. at' \in [Workers -> Scanning \cup Starting \cup Working \cup {"idle"}]
    BY <1>1, <1>3, <1>5 DEF WorkersOK
  <2>. QED  BY <1>1, <1>4, <2>1, <2>2 DEF WorkersOK
<1>8. ASSUME NEW v \in Workers PROVE Holds(v)'
  <2>1. CASE v = w
    <3>1. at[w] \in Scanning /\ at[w] \notin Working /\ to \notin {"record", "hand"}
      BY <1>3, <1>4 DEF Scanning, Working
    <3>2. Holds(w)
      BY <1>1
    <3>3. job[w] = Scan /\ job[w] # None /\ run[w] = 0
      BY <3>1, <3>2, <1>4 DEF Holds
    <3>. QED  BY <1>4, <1>5, <2>1, <3>1, <3>3 DEF Holds
  <2>2. CASE v # w
    BY <1>1, <1>4, <1>5, <2>2, HoldsKept
  <2>. QED  BY <2>1, <2>2
<1>9. \A i \in 1..Len(waiting') :
        \/ i \in 1..Len(waiting) /\ waiting'[i] = waiting[i]
        \/ p \notin known /\ i = Len(waiting) + 1 /\ waiting'[i] = p
  <2>1. CASE p \in known
    BY <1>6, <2>1
  <2>2. CASE p \notin known
    BY <1>6, <2>2
  <2>. QED  BY <2>1, <2>2
<1>10. QueueOK'
  <2>1. \A i \in 1..Len(waiting) : waiting[i] = p => p \in known
    BY <1>1, <1>5 DEF QueueOK
  <2>2. \A i, j \in 1..Len(waiting') : waiting'[i] = waiting'[j] => i = j
    BY <1>1, <1>9, <2>1 DEF QueueOK
  <2>3. \A i \in 1..Len(waiting') : waiting'[i] # Scan => waiting'[i] \in known'
    BY <1>1, <1>2, <1>9 DEF QueueOK
  <2>4. \A v \in Workers : job[v] \in Period =>
          job[v] \in known' /\ \A i \in 1..Len(waiting') : waiting'[i] # job[v]
    BY <1>1, <1>2, <1>9 DEF QueueOK
  <2>5. known' \subseteq Period /\ stalled \subseteq known' \cup {Scan}
    BY <1>1, <1>2, <1>5 DEF QueueOK
  <2>. QED  BY <1>1, <1>4, <1>6, <2>2, <2>3, <2>4, <2>5 DEF QueueOK, Job
<1>11. Rationed'
  <2>1. Same
    BY <1>1, <1>4, RunsUnchanged
  <2>2. ASSUME NEW q \in known, Coming(q)' PROVE Coming(q)
    <3>1. CASE \E i \in 1..Len(waiting') : waiting'[i] = q
      BY <1>9, <3>1 DEF Coming
    <3>2. CASE \E v \in Workers : job'[v] = q /\ at'[v] \in Starting
      BY <1>4, <1>5, <3>2 DEF Coming
    <3>. QED  BY <2>2, <3>1, <3>2 DEF Coming
  <2>3. \A q : Made(q)' = Made(q)
    BY <2>1, MadeSame
  <2>4. ASSUME NEW q \in known' PROVE Spent(q)' <= IF q \in stalled' THEN 2 ELSE 1
    <3>1. CASE q \in known
      <4>1. Spent(q) <= IF q \in stalled THEN 2 ELSE 1
        BY <1>1, <3>1 DEF Rationed
      <4>2. Cardinality(Made(q)) \in Nat
        BY <1>1, MadeFinite
      <4>. QED  BY <1>4, <2>2, <2>3, <3>1, <4>1, <4>2 DEF Spent
    <3>2. CASE q \notin known
      <4>1. Made(q) = {}
        BY <1>1, <3>2 DEF Made, Rationed
      <4>2. Cardinality(Made(q)') = 0
        BY <2>3, <4>1, FS_EmptySet
      <4>. QED  BY <4>2 DEF Spent
    <3>. QED  BY <3>1, <3>2
  <2>5. \A i \in 1..Len(runs') : runs'[i].of \in known'
    BY <1>1, <1>2, <1>4 DEF Rationed
  <2>. QED  BY <2>4, <2>5 DEF Rationed
<1>12. Due'
  <2>1. \A q \in known' : q.day <= Today(q.s)
    BY <1>1, <1>2 DEF Due
  <2>2. \A v \in Workers : adds'[v] \subseteq adds[v]
    BY <1>5
  <2>3. \A v \in Workers : \A q \in adds'[v] : q.day <= Today(q.s)
    BY <1>1, <2>2 DEF Due
  <2>. QED  BY <1>4, <2>1, <2>3 DEF Due, Today
<1>13. SuppressedIsLate'
  BY <1>1, <1>2, <1>4 DEF SuppressedIsLate
<1>14. RunsOK' /\ RestOK' /\ Remembered' /\ LeftBehindHasCause'
  BY <1>1, <1>4 DEF RunsOK, RestOK, Remembered, Told, LeftBehindHasCause
<1>. QED  BY <1>7, <1>8, <1>10, <1>11, <1>12, <1>13, <1>14 DEF Inv

LEMMA CreateStep ==
  ASSUME Inv, NEW w \in Workers, Create(w)
  PROVE  Inv'
<1>1. /\ WorkersOK /\ RunsOK /\ QueueOK /\ RestOK /\ (\A v \in Workers : Holds(v))
      /\ Rationed /\ Due /\ Remembered /\ SuppressedIsLate /\ LeftBehindHasCause
      /\ Len(runs) \in Nat /\ time \in Nat /\ None \notin Period /\ None # Scan
  BY Parts
<1>. DEFINE n == Len(runs) + 1
            r == [of |-> job[w], status |-> "queued", handed |-> FALSE]
<1>2. /\ at[w] = "create" /\ runs' = Append(runs, r) /\ at' = [at EXCEPT ![w] = "start"]
      /\ run' = [run EXCEPT ![w] = Len(runs')]
      /\ time' = time /\ last' = last /\ waiting' = waiting
      /\ known' = known /\ stalled' = stalled /\ faults' = faults
      /\ job' = job /\ todo' = todo /\ adds' = adds /\ suppressed' = suppressed /\ cut' = cut
  BY DEF Create, Goes, queueVars, historyVars
<1>3. /\ run[w] = 0 /\ job[w] \in Period /\ job[w] \in known
      /\ at[w] \notin Working /\ at[w] \notin Scanning /\ at[w] \in Starting
  <2>1. at[w] \notin Working /\ at[w] \notin Scanning /\ at[w] \in Starting /\ at[w] # "idle"
    BY <1>2 DEF Working, Scanning, Starting
  <2>2. job[w] \in Period
    BY <1>1, <2>1 DEF Holds, WorkersOK
  <2>. QED  BY <1>1, <2>1, <2>2 DEF Holds, QueueOK
<1>4. r \in Run /\ r.of = job[w] /\ ~r.handed
  BY <1>3 DEF Run, RunStatus
<1>. HIDE DEF r
<1>5. /\ runs' \in Seq(Run) /\ Len(runs') = n /\ runs'[n] = r
      /\ \A i \in 1..Len(runs) : runs'[i] = runs[i]
  BY <1>1, <1>2, <1>4, AppendProperties DEF RunsOK, Run
<1>6. RunsOK' /\ Keeps /\ n \in Nat /\ Len(runs) <= n
  BY <1>1, <1>5 DEF RunsOK, Keeps, Run
<1>7. /\ at'[w] = "start" /\ run'[w] = n
      /\ \A v \in Workers : v # w => at'[v] = at[v] /\ run'[v] = run[v]
  BY <1>1, <1>2, <1>5 DEF WorkersOK
<1>8. WorkersOK'
  BY <1>1, <1>2, <1>5, <1>6 DEF WorkersOK, Working
<1>9. ASSUME NEW v \in Workers PROVE Holds(v)'
  <2>1. CASE v = w
    <3>1. /\ "start" \in Working /\ "start" \notin Scanning /\ job[w] # None /\ job[w] # Scan
          /\ n \in 1..n
      BY <1>1, <1>3, <1>6, ScanIsNoPeriod DEF Working, Scanning
    <3>. QED  BY <1>2, <1>4, <1>5, <1>7, <2>1, <3>1 DEF Holds
  <2>2. CASE v # w
    <3>1. at[v] \in Working => runs'[run[v]] = runs[run[v]]
      BY <1>1, <1>5 DEF Holds
    <3>. QED  BY <1>1, <1>2, <1>5, <1>6, <1>7, <2>2, <3>1, HoldsKept
  <2>. QED  BY <2>1, <2>2
<1>10. QueueOK'
  BY <1>1, <1>2, QueueKept
<1>11. RestOK'
  <2>1. cut' \subseteq 1..Len(runs')
    BY <1>1, <1>2, <1>5 DEF RestOK
  <2>. QED  BY <1>1, <1>2, <2>1 DEF RestOK
<1>12. Rationed'
  <2>1. ASSUME NEW q \in known, Coming(q)' PROVE Coming(q) /\ q # job[w]
    <3>1. "start" \notin Starting
      BY DEF Starting
    <3>2. CASE \E i \in 1..Len(waiting') : waiting'[i] = q
      BY <1>1, <1>2, <1>3, <3>2 DEF Coming, QueueOK
    <3>3. CASE \E v \in Workers : job'[v] = q /\ at'[v] \in Starting
      <4>1. PICK v \in Workers : job[v] = q /\ at'[v] \in Starting
        BY <1>2, <3>3
      <4>2. v # w
        BY <1>7, <3>1, <4>1
      <4>3. job[v] # job[w]
        BY <1>1, <1>3, <4>2 DEF QueueOK
      <4>. QED  BY <1>7, <4>1, <4>2, <4>3 DEF Coming
    <3>. QED  BY <2>1, <3>2, <3>3 DEF Coming
  <2>2. ASSUME NEW q \in known PROVE Spent(q)' <= IF q \in stalled' THEN 2 ELSE 1
    <3>1. Spent(q) <= IF q \in stalled THEN 2 ELSE 1
      BY <1>1 DEF Rationed
    <3>2. IsFiniteSet(Made(q)) /\ Cardinality(Made(q)) \in Nat
      BY <1>1, MadeFinite
    <3>3. CASE q # job[w]
      <4>1. Made(q)' = Made(q)
        BY <1>1, <1>4, <1>5, <1>6, <3>3 DEF Made
      <4>. QED  BY <1>2, <2>1, <3>1, <3>2, <4>1 DEF Spent
    <3>4. CASE q = job[w]
      <4>1. Made(q)' = Made(q) \cup {n} /\ n \notin Made(q)
        BY <1>1, <1>4, <1>5, <1>6, <3>4 DEF Made
      <4>2. Cardinality(Made(q) \cup {n}) = Cardinality(Made(q)) + 1
        BY <3>2, <4>1, FS_AddElement
      <4>3. Coming(q)
        BY <1>3, <3>4 DEF Coming
      <4>4. ~Coming(q)'
        BY <2>1, <3>4
      <4>. QED  BY <1>2, <3>1, <3>2, <4>1, <4>2, <4>3, <4>4 DEF Spent
    <3>. QED  BY <3>3, <3>4
  <2>3. \A i \in 1..Len(runs') : runs'[i].of \in known'
    <3>1. ASSUME NEW i \in 1..Len(runs') PROVE runs'[i].of \in known
      <4>1. CASE i = n
        BY <1>3, <1>4, <1>5, <4>1
      <4>2. CASE i # n
        <5>1. i \in 1..Len(runs)
          BY <1>1, <1>5, <4>2
        <5>. QED  BY <1>1, <1>5, <5>1 DEF Rationed
      <4>. QED  BY <4>1, <4>2
    <3>. QED  BY <1>2, <3>1
  <2>. QED  BY <1>2, <2>2, <2>3 DEF Rationed
<1>13. Due'
  BY <1>1, <1>2 DEF Due, Today
<1>14. Remembered'
  BY <1>1, <1>2, <1>6, RememberedKept
<1>15. SuppressedIsLate'
  BY <1>1, <1>2, <1>6, LateKept
<1>16. LeftBehindHasCause'
  <2>1. /\ DOMAIN runs = 1..Len(runs) /\ DOMAIN runs' = 1..Len(runs')
    BY <1>1, <1>5, LenProperties DEF RunsOK
  <2>2. ASSUME NEW i \in 1..Len(runs')
        PROVE  SettledNext(i) \/ \E v \in Workers : run'[v] = i
    <3>1. CASE i = n
      BY <1>7, <3>1
    <3>2. CASE i # n
      <4>1. i \in 1..Len(runs) /\ runs'[i] = runs[i] /\ i # 0
        BY <1>1, <1>5, <3>2
      <4>2. Settled(i) \/ \E v \in Workers : run[v] = i
        BY <1>1, <2>1, <4>1 DEF LeftBehindHasCause, Settled
      <4>3. Settled(i) => SettledNext(i)
        BY <1>2, <4>1 DEF Settled, SettledNext
      <4>. QED  BY <1>3, <1>7, <4>1, <4>2, <4>3
    <3>. QED  BY <3>1, <3>2
  <2>. QED  BY <2>1, <2>2 DEF LeftBehindHasCause, SettledNext
<1>. QED  BY <1>6, <1>8, <1>9, <1>10, <1>11, <1>12, <1>13, <1>14, <1>15, <1>16 DEF Inv

\* A run gets a final status from somebody else.
LEMMA RunStep ==
  ASSUME Inv, NEW i \in DOMAIN runs, Serve(i) \/ Cancel(i)
  PROVE  Inv'
<1>1. /\ WorkersOK /\ RunsOK /\ QueueOK /\ RestOK /\ (\A v \in Workers : Holds(v))
      /\ Rationed /\ Due /\ Remembered /\ SuppressedIsLate /\ LeftBehindHasCause
      /\ Len(runs) \in Nat /\ time \in Nat
  BY Parts
<1>2. i \in 1..Len(runs)
  BY <1>1, LenProperties DEF RunsOK
<1>3. /\ time' = time /\ last' = last /\ waiting' = waiting /\ known' = known
      /\ stalled' = stalled /\ at' = at /\ job' = job /\ todo' = todo /\ adds' = adds
      /\ run' = run /\ faults' = faults /\ suppressed' = suppressed /\ cut' = cut
  BY DEF Serve, Cancel, queueVars, workerVars, historyVars
<1>4. PICK to \in Terminal : runs' = [runs EXCEPT ![i].status = to]
  BY DEF Serve, Cancel, Terminal
<1>5. /\ RunsOK' /\ Len(runs') = Len(runs)
      /\ runs'[i].status = to /\ runs'[i].of = runs[i].of /\ runs'[i].handed = runs[i].handed
      /\ \A j \in 1..Len(runs) : j # i => runs'[j] = runs[j]
  <2>1. to \in RunStatus
    BY <1>4 DEF Terminal, RunStatus
  <2>. QED  BY <1>1, <1>2, <1>4, <2>1, StatusSet
<1>6. /\ Same /\ Keeps
      /\ \A j \in 1..Len(runs) : runs'[j].of = runs[j].of /\ runs'[j].handed = runs[j].handed
  <2>1. \A j \in 1..Len(runs) : runs'[j].of = runs[j].of /\ runs'[j].handed = runs[j].handed
    BY <1>5
  <2>. QED  BY <1>1, <1>5, <2>1 DEF Same, Keeps
<1>7. runs[i].handed \/ runs[i].status # "syncing"
  BY DEF Serve, Cancel, Allowed, RunNext
<1>8. ASSUME NEW v \in Workers PROVE Holds(v)'
  <2>1. CASE at[v] \in Working
    <3>1. /\ run[v] \in 1..Len(runs) /\ runs[run[v]].of = job[v] /\ ~runs[run[v]].handed
          /\ at[v] \in {"record", "hand"} => runs[run[v]].status = "syncing"
      BY <1>1, <2>1 DEF Holds
    <3>2. at[v] \in {"record", "hand"} => runs'[run[v]].status = "syncing"
      BY <1>5, <1>7, <3>1
    <3>. QED  BY <1>1, <1>3, <1>5, <1>6, <2>1, <3>1, <3>2 DEF Holds
  <2>2. CASE at[v] \notin Working
    BY <1>1, <1>3, <1>5, <2>2, HoldsKept
  <2>. QED  BY <2>1, <2>2
<1>9. WorkersOK' /\ QueueOK' /\ RestOK'
  BY <1>1, <1>3, <1>5 DEF WorkersOK, QueueOK, RestOK
<1>10. Rationed'
  <2>1. \A q : Coming(q)' => Coming(q)
    BY <1>3 DEF Coming
  <2>. QED  BY <1>1, <1>3, <1>6, <2>1, RationedKept DEF QueueOK
<1>11. Due' /\ Remembered' /\ SuppressedIsLate'
  <2>1. Due'
    BY <1>1, <1>3 DEF Due, Today
  <2>2. Remembered'
    BY <1>1, <1>3, <1>6, RememberedKept
  <2>3. SuppressedIsLate'
    BY <1>1, <1>3, <1>6, LateKept
  <2>. QED  BY <2>1, <2>2, <2>3
<1>12. LeftBehindHasCause'
  <2>1. SettledNext(i)
    BY <1>4, <1>5 DEF SettledNext
  <2>. QED  BY <1>1, <1>3, <1>5, <2>1, LeftKept
<1>. QED  BY <1>5, <1>8, <1>9, <1>10, <1>11, <1>12 DEF Inv

LEMMA CrashStep ==
  ASSUME Inv, NEW w \in Workers, Crash(w)
  PROVE  Inv'
<1>1. /\ WorkersOK /\ RunsOK /\ QueueOK /\ RestOK /\ (\A v \in Workers : Holds(v))
      /\ Rationed /\ Due /\ Remembered /\ SuppressedIsLate /\ LeftBehindHasCause
      /\ Len(runs) \in Nat /\ time \in Nat /\ faults \in 0..MaxFaults /\ MaxFaults \in Nat
      /\ None \notin Period /\ None # Scan /\ Scan \notin Period
  BY Parts
<1>. DEFINE p == job[w]
            back == ~(p \in stalled \/ \E i \in DOMAIN waiting : waiting[i] = p)
<1>2. /\ at[w] # "idle" /\ faults < MaxFaults /\ faults' = faults + 1 /\ Leaves(w)
      /\ waiting' = IF back THEN <<p>> \o waiting ELSE waiting
      /\ stalled' = stalled \cup {p}
      /\ cut' = IF run[w] = 0 THEN cut ELSE cut \cup {run[w]}
      /\ time' = time /\ last' = last /\ known' = known
      /\ runs' = runs /\ suppressed' = suppressed
  BY DEF Crash
<1>3. /\ WorkersOK'
      /\ at'[w] = "idle" /\ job'[w] = None /\ todo'[w] = {} /\ adds'[w] = {} /\ run'[w] = 0
      /\ \A v \in Workers : v # w =>
           /\ at'[v] = at[v] /\ job'[v] = job[v] /\ todo'[v] = todo[v]
           /\ adds'[v] = adds[v] /\ run'[v] = run[v]
  BY <1>1, <1>2, LeavesIs
<1>4. /\ p \in Job
      /\ p \in Period => p \in known
      /\ p \in known \cup {Scan}
  BY <1>1, <1>2 DEF WorkersOK, Holds, QueueOK, Job
<1>5. run[w] = 0 \/ run[w] \in 1..Len(runs)
  BY <1>1 DEF Holds
<1>6. Same /\ Keeps
  BY <1>1, <1>2, RunsUnchanged DEF Same
<1>7. /\ waiting \in Seq(Job) /\ Len(waiting) \in Nat /\ DOMAIN waiting = 1..Len(waiting)
  BY <1>1, LenProperties DEF QueueOK, Job
<1>8. /\ waiting' \in Seq(Job)
      /\ back => /\ Len(waiting') = Len(waiting) + 1 /\ waiting'[1] = p
                 /\ \A i \in 2..(Len(waiting) + 1) : waiting'[i] = waiting[i - 1]
      /\ ~back => waiting' = waiting
  <2>. HIDE DEF back, p
  <2>1. CASE ~back
    BY <1>2, <1>7, <2>1
  <2>2. CASE back
    <3>1. waiting' = <<p>> \o waiting
      BY <1>2, <2>2
    <3>2. waiting \in Seq(Job) /\ p \in Job
      BY <1>4, <1>7
    <3>3. /\ waiting' \in Seq(Job) /\ Len(waiting') = Len(waiting) + 1 /\ waiting'[1] = p
          /\ \A i \in 2..(Len(waiting) + 1) : waiting'[i] = waiting[i - 1]
      BY <3>1, <3>2, ConsOf
    <3>. QED  BY <2>2, <3>3
  <2>. QED  BY <2>1, <2>2
<1>9. back => p \notin stalled /\ \A i \in 1..Len(waiting) : waiting[i] # p
  BY <1>7
<1>10. \A i \in 1..Len(waiting') :
         \/ back /\ i = 1 /\ waiting'[i] = p
         \/ back /\ i # 1 /\ i - 1 \in 1..Len(waiting) /\ waiting'[i] = waiting[i - 1]
         \/ ~back /\ i \in 1..Len(waiting) /\ waiting'[i] = waiting[i]
  <2>. HIDE DEF back, p
  <2>1. CASE ~back
    BY <1>8, <2>1
  <2>2. CASE back
    <3>1. ASSUME NEW i \in 1..Len(waiting'), i # 1
          PROVE  i - 1 \in 1..Len(waiting) /\ i \in 2..(Len(waiting) + 1)
      BY <1>7, <1>8, <2>2, <3>1
    <3>. QED  BY <1>8, <2>2, <3>1
  <2>. QED  BY <2>1, <2>2
<1>. HIDE DEF back
<1>11. ASSUME NEW v \in Workers PROVE Holds(v)'
  <2>1. CASE v = w
    BY <1>1, <1>3, <2>1 DEF Holds, Working, Scanning
  <2>2. CASE v # w
    BY <1>1, <1>2, <1>3, <2>2, HoldsKept
  <2>. QED  BY <2>1, <2>2
<1>12. QueueOK'
  <2>1. \A i, j \in 1..Len(waiting') : waiting'[i] = waiting'[j] => i = j
    <3>1. SUFFICES ASSUME NEW i \in 1..Len(waiting'), NEW j \in 1..Len(waiting'),
                          waiting'[i] = waiting'[j]
                   PROVE  i = j
      OBVIOUS
    <3>2. i \in Nat /\ j \in Nat
      BY <1>8, LenProperties
    <3>3. CASE back
      <4>1. i = 1 <=> j = 1
        BY <1>9, <1>10, <3>1, <3>3
      <4>2. i # 1 => i - 1 = j - 1
        BY <1>1, <1>10, <3>1, <3>3, <4>1 DEF QueueOK
      <4>. QED  BY <3>2, <4>1, <4>2
    <3>4. CASE ~back
      BY <1>1, <1>8, <3>1, <3>4 DEF QueueOK
    <3>. QED  BY <3>3, <3>4
  <2>2. \A i \in 1..Len(waiting') : waiting'[i] # Scan => waiting'[i] \in known
    BY <1>1, <1>4, <1>10 DEF QueueOK
  <2>3. \A v \in Workers : job'[v] \in Period => v # w /\ job'[v] = job[v]
    BY <1>1, <1>3
  <2>4. \A v \in Workers : job'[v] \in Period =>
          job'[v] \in known /\ \A i \in 1..Len(waiting') : waiting'[i] # job'[v]
    BY <1>1, <1>10, <2>3 DEF QueueOK
  <2>5. \A u, v \in Workers : job'[u] = job'[v] /\ job'[v] \in Period => u = v
    BY <1>1, <2>3 DEF QueueOK
  <2>6. stalled' \subseteq known \cup {Scan}
    BY <1>1, <1>2, <1>4 DEF QueueOK
  <2>. QED  BY <1>1, <1>2, <1>8, <2>1, <2>2, <2>4, <2>5, <2>6 DEF QueueOK, Job
<1>13. RestOK'
  <2>1. faults' \in 0..MaxFaults
    BY <1>1, <1>2
  <2>2. cut' \subseteq 1..Len(runs')
    BY <1>1, <1>2, <1>5 DEF RestOK
  <2>. QED  BY <1>1, <1>2, <2>1, <2>2 DEF RestOK
<1>14. Rationed'
  <2>1. \A q : Made(q)' = Made(q)
    BY <1>6, MadeSame
  <2>2. ASSUME NEW q \in known, Coming(q)' PROVE Coming(q) \/ q = p
    <3>1. CASE \E i \in 1..Len(waiting') : waiting'[i] = q
      BY <1>10, <3>1 DEF Coming
    <3>2. CASE \E v \in Workers : job'[v] = q /\ at'[v] \in Starting
      <4>1. PICK v \in Workers : job'[v] = q /\ at'[v] \in Starting
        BY <3>2
      <4>2. v # w
        BY <1>3, <4>1 DEF Starting
      <4>. QED  BY <1>3, <4>1, <4>2 DEF Coming
    <3>. QED  BY <2>2, <3>1, <3>2 DEF Coming
  <2>3. ASSUME NEW q \in known PROVE Spent(q)' <= IF q \in stalled' THEN 2 ELSE 1
    <3>1. Spent(q) <= IF q \in stalled THEN 2 ELSE 1
      BY <1>1 DEF Rationed
    <3>2. Cardinality(Made(q)) \in Nat
      BY <1>1, MadeFinite
    <3>3. CASE q # p
      BY <1>2, <2>1, <2>2, <3>1, <3>2, <3>3 DEF Spent
    <3>4. CASE q = p /\ q \notin stalled
      BY <1>2, <2>1, <3>1, <3>2, <3>4 DEF Spent
    <3>5. CASE q = p /\ q \in stalled
      <4>1. ~back
        BY <1>9, <3>5
      <4>2. Coming(q)' => Coming(q)
        <5>1. SUFFICES ASSUME Coming(q)' PROVE Coming(q)
          OBVIOUS
        <5>2. CASE \E i \in 1..Len(waiting') : waiting'[i] = q
          BY <1>8, <4>1, <5>2 DEF Coming
        <5>3. CASE \E v \in Workers : job'[v] = q /\ at'[v] \in Starting
          <6>1. PICK v \in Workers : job'[v] = q /\ at'[v] \in Starting
            BY <5>3
          <6>2. v # w
            BY <1>3, <6>1 DEF Starting
          <6>. QED  BY <1>3, <6>1, <6>2 DEF Coming
        <5>. QED  BY <5>1, <5>2, <5>3 DEF Coming
      <4>. QED  BY <1>2, <2>1, <3>1, <3>2, <3>5, <4>2 DEF Spent
    <3>. QED  BY <3>3, <3>4, <3>5
  <2>4. \A i \in 1..Len(runs') : runs'[i].of \in known'
    BY <1>1, <1>2 DEF Rationed
  <2>. QED  BY <1>2, <2>3, <2>4 DEF Rationed
<1>15. Due'
  <2>1. \A v \in Workers : adds'[v] \subseteq adds[v]
    BY <1>3
  <2>. QED  BY <1>1, <1>2, <2>1, DueKept DEF QueueOK
<1>16. Remembered'
  <2>1. \A v \in Workers : todo'[v] \subseteq todo[v]
    BY <1>3
  <2>. QED  BY <1>1, <1>2, <1>6, <2>1, RememberedKept
<1>17. SuppressedIsLate'
  BY <1>1, <1>2 DEF SuppressedIsLate
<1>18. LeftBehindHasCause'
  <2>1. run[w] \in 1..Len(runs) => SettledNext(run[w])
    <3>1. run[w] \in 1..Len(runs) => run[w] # 0
      BY <1>1
    <3>. QED  BY <1>2, <3>1 DEF SettledNext
  <2>2. \A v \in Workers, j \in 1..Len(runs) : run[v] = j /\ j # run[w] => run'[v] = j
    BY <1>3
  <2>3. cut \subseteq cut'
    BY <1>2
  <2>4. RunsOK' /\ Len(runs') = Len(runs) /\ \A j \in 1..Len(runs) : j # run[w] => runs'[j] = runs[j]
    BY <1>2, <1>6 DEF Keeps
  <2>. QED  BY <1>1, <2>1, <2>2, <2>3, <2>4, LeftKept
<1>19. RunsOK'
  BY <1>6 DEF Keeps
<1>. QED  BY <1>3, <1>11, <1>12, <1>13, <1>14, <1>15, <1>16, <1>17, <1>18, <1>19 DEF Inv

-----------------------------------------------------------------------------
(* The theorems.                                                            *)

LEMMA InvInit ==
  ASSUME Init
  PROVE  Inv
<1>1. /\ time = 0 /\ faults = 0 /\ last = [s \in Sessions |-> [type |-> "none", day |-> 0]]
      /\ waiting = <<>> /\ known = {} /\ stalled = {} /\ suppressed = {} /\ cut = {}
      /\ at = [w \in Workers |-> "idle"] /\ job = [w \in Workers |-> None]
      /\ todo = [w \in Workers |-> {}] /\ adds = [w \in Workers |-> {}]
      /\ run = [w \in Workers |-> 0] /\ runs = <<>>
  BY DEF Init
<1>2. MaxTime \in Nat /\ MaxFaults \in Nat /\ None \notin Period /\ None # Scan
  BY DigestAssumption
<1>3. WorkersOK
  BY <1>1 DEF WorkersOK
<1>4. \A w \in Workers : Holds(w)
  BY <1>1, <1>2 DEF Holds, Working, Scanning
<1>5. RunsOK /\ Len(runs) = 0 /\ waiting \in Seq(Period \cup {Scan}) /\ Len(waiting) = 0
      /\ DOMAIN runs = {}
  BY <1>1, EmptySeq DEF RunsOK
<1>6. QueueOK
  BY <1>1, <1>2, <1>5 DEF QueueOK
<1>7. RestOK
  BY <1>1, <1>2 DEF RestOK, Last
<1>8. Rationed /\ Due
  BY <1>1, <1>5 DEF Rationed, Due
<1>9. Remembered
  BY <1>1 DEF Remembered, Told
<1>10. SuppressedIsLate /\ LeftBehindHasCause
  BY <1>1, <1>5 DEF SuppressedIsLate, LeftBehindHasCause
<1>. QED  BY <1>3, <1>4, <1>5, <1>6, <1>7, <1>8, <1>9, <1>10 DEF Inv

LEMMA InvStep ==
  ASSUME Inv, [Next]_vars
  PROVE  Inv'
<1>1. CASE Tick
  BY <1>1, TickStep
<1>2. CASE Schedule
  BY <1>2, ScheduleStep
<1>3. ASSUME NEW w \in Workers,
             \/ Take(w) \/ List(w) \/ Each(w) \/ Add(w) \/ Find(w) \/ Create(w)
             \/ Rejects(w) \/ Crash(w)
      PROVE  Inv'
  BY <1>3, TakeStep, ListStep, EachStep, AddStep, FindStep, CreateStep, RejectsStep, CrashStep
<1>4. ASSUME NEW w \in Workers,
             \/ Start(w) \/ Execute(w) \/ Stop(w) \/ Sync(w) \/ Record(w) \/ Hand(w) \/ Fail(w)
      PROVE  Inv'
  BY <1>4, WorkSteps, WorkKeeps
<1>5. ASSUME NEW i \in DOMAIN runs, Serve(i) \/ Cancel(i)
      PROVE  Inv'
  BY <1>5, RunStep
<1>6. CASE UNCHANGED vars
  <2>1. /\ time' = time /\ last' = last /\ waiting' = waiting /\ known' = known
        /\ stalled' = stalled /\ at' = at /\ job' = job /\ todo' = todo /\ adds' = adds
        /\ run' = run /\ runs' = runs /\ faults' = faults /\ suppressed' = suppressed
        /\ cut' = cut
    BY <1>6 DEF vars, queueVars, workerVars, historyVars
  <2>2. WorkersOK' /\ (\A v \in Workers : Holds(v)') /\ RunsOK' /\ QueueOK' /\ RestOK'
    BY <2>1 DEF Inv, WorkersOK, Holds, RunsOK, QueueOK, RestOK
  <2>3. Rationed' /\ Due' /\ Remembered'
    BY <2>1 DEF Inv, Rationed, Spent, Made, Coming, Due, Today, Remembered, Told
  <2>4. SuppressedIsLate' /\ LeftBehindHasCause'
    BY <2>1 DEF Inv, SuppressedIsLate, LeftBehindHasCause
  <2>. QED  BY <2>2, <2>3, <2>4 DEF Inv
<1>. QED  BY <1>1, <1>2, <1>3, <1>4, <1>5, <1>6 DEF Next

\* The invariant holds whatever the scans, the workers, cancelRun and the artifact
\* job do between two awaits of processScan and processDigest.
THEOREM Invariance == Spec => []Inv
BY InvInit, InvStep, PTL DEF Spec

\* Types, and that a digest is in the queue or with a worker only once, with its
\* id known to the queue: addDigestJob's jobId and the queue's way with it.
THEOREM DigestTypeCorrect == Spec => []TypeOK
<1>1. ASSUME Inv PROVE TypeOK
  <2>1. /\ WorkersOK /\ RunsOK /\ QueueOK /\ RestOK /\ (\A v \in Workers : Holds(v))
        /\ Len(runs) \in Nat
    BY <1>1, Parts
  <2>2. DOMAIN waiting = 1..Len(waiting) /\ DOMAIN runs = 1..Len(runs)
    BY <2>1, LenProperties DEF QueueOK, RunsOK
  <2>3. ASSUME NEW w \in Workers
        PROVE  /\ job[w] \in Period \cup {Scan, None}
               /\ todo[w] \subseteq [s: Sessions, last: Last] /\ adds[w] \subseteq Period
               /\ run[w] \in 0..Len(runs)
               /\ at[w] = "idle" <=> job[w] = None
    <3>1. run[w] \in 0..Len(runs)
      BY <2>1 DEF Holds
    <3>. QED  BY <2>1, <3>1 DEF WorkersOK, Holds
  <2>4. /\ \A i, j \in DOMAIN waiting : waiting[i] = waiting[j] => i = j
        /\ \A i \in DOMAIN waiting : waiting[i] # Scan => waiting[i] \in known
        /\ \A w \in Workers : job[w] \in Period => \A i \in DOMAIN waiting : waiting[i] # job[w]
    BY <2>1, <2>2 DEF QueueOK
  <2>5. /\ time \in 0..MaxTime /\ faults \in 0..MaxFaults /\ last \in [Sessions -> Last]
        /\ suppressed \subseteq Period /\ cut \subseteq DOMAIN runs
    BY <2>1, <2>2 DEF RestOK
  <2>6. /\ waiting \in Seq(Period \cup {Scan}) /\ known \subseteq Period
        /\ stalled \subseteq Period \cup {Scan}
        /\ runs \in Seq([of: Period, status: RunStatus, handed: BOOLEAN])
    BY <2>1 DEF QueueOK, RunsOK
  <2>. QED  BY <2>3, <2>4, <2>5, <2>6 DEF TypeOK
<1>. QED  BY <1>1, Invariance, PTL

\* A digest of a day is made once, twice when its job was delivered again: the scans
\* of processScan and the deliveries of processDigest, whatever rows they read.
THEOREM DigestsOnce == Spec => []OncePerPeriod
<1>1. ASSUME Inv PROVE OncePerPeriod
  <2>1. RunsOK /\ Rationed
    BY <1>1, Parts
  <2>2. ASSUME NEW p \in known
        PROVE  Cardinality({i \in DOMAIN runs : runs[i].of = p}) <= IF p \in stalled THEN 2 ELSE 1
    <3>1. {i \in DOMAIN runs : runs[i].of = p} = Made(p)
      BY <2>1, LenProperties DEF RunsOK, Made
    <3>2. Spent(p) <= IF p \in stalled THEN 2 ELSE 1
      BY <2>1 DEF Rationed
    <3>3. Cardinality(Made(p)) \in Nat
      BY <2>1, MadeFinite
    <3>. QED  BY <3>1, <3>2, <3>3 DEF Spent
  <2>. QED  BY <2>2 DEF OncePerPeriod
<1>. QED  BY <1>1, Invariance, PTL

\* What didRunForCurrentDay leaves out was queued that day, or an earlier day's digest
\* took its day by ending late: lastDigestAt is the time processDigest writes it.
THEOREM SuppressionsAreLate == Spec => []SuppressedIsLate
<1>1. Inv => SuppressedIsLate
  BY DEF Inv
<1>. QED  BY <1>1, Invariance, PTL

\* processDigest leaves no run behind, except when its worker dies or the transition
\* in its catch block fails: cancelRun and the artifact processor may interfere at
\* any of its awaits.
THEOREM NothingLeftBehind == Spec => []LeftBehindHasCause
<1>1. Inv => LeftBehindHasCause
  BY DEF Inv
<1>. QED  BY <1>1, Invariance, PTL
=============================================================================
