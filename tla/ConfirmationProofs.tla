------------------------- MODULE ConfirmationProofs -------------------------
(***************************************************************************)
(* What Confirmation promises for any number of clicks, administrators and *)
(* worker processes, any redelivery limit and every fault it models.       *)
(***************************************************************************)
EXTENDS Confirmation, TLAPS

USE DecidersAssumption DEF Deciders, Tasks, eventVars, deciderVars, historyVars

-----------------------------------------------------------------------------
(* Typing                                                                   *)

\* The part of TypeOK that a step of a decider may touch.
DeciderOK ==
  /\ job \in [Clicks -> {"none", "waiting", "active", "over"}]
  /\ owner \in [Clicks -> Workers \cup {None}]
  /\ at \in [Deciders -> {"idle", "dedup", "find", "write", "submit", "refind", "expire", "over"}]
  /\ task \in [Deciders -> Tasks \cup {None}]
  /\ \A w \in Workers : task[w] \in Clicks \cup {None} /\ (at[w] = "idle" <=> task[w] = None)
  /\ \A a \in Admins : task[a] = a
  /\ read \in [Deciders -> ConfirmationStatus \cup {"absent"}]

\* A decider that is not idle is deciding something.
LEMMA BusyDecider ==
  ASSUME TypeOK, NEW p \in Deciders, at[p] # "idle" \/ p \in Admins
  PROVE  task[p] \in Tasks /\ (p \in Workers => task[p] \in Clicks)
BY DEF TypeOK

\* A handler that ends leaves the deciders well typed ...
LEMMA EndsTyped ==
  ASSUME TypeOK, NEW p \in Deciders, at[p] # "idle", Ends(p)
  PROVE  DeciderOK'
<1>1. CASE p \in Admins
  BY <1>1 DEF TypeOK, Ends, DeciderOK
<1>2. CASE p \notin Admins
  <2>1. p \in Workers /\ task[p] \in Clicks
    BY <1>2, BusyDecider
  <2>. QED  BY <1>2, <2>1 DEF TypeOK, Ends, DeciderOK
<1>. QED  BY <1>1, <1>2

\* ... and so does one that goes on ...
LEMMA GoesTyped ==
  ASSUME TypeOK, NEW p \in Deciders, at[p] # "idle" \/ p \in Admins,
         NEW to \in {"find", "submit", "refind"}, Goes(p, to)
  PROVE  DeciderOK'
BY DEF TypeOK, Goes, DeciderOK

\* ... and one whose find has returned.
LEMMA LookedTyped ==
  ASSUME TypeOK, NEW p \in Deciders, at[p] # "idle",
         NEW to \in {"write", "expire"}, Looked(p, to)
  PROVE  DeciderOK'
BY DEF TypeOK, Looked, DeciderOK

LEMMA VerdictTyped ==
  ASSUME NEW p \in Deciders
  PROVE  Verdict(p) \in {"confirmed", "rejected"}
BY DEF Verdict

LEMMA InitTyped == Init => TypeOK
<1> SUFFICES ASSUME Init
             PROVE  TypeOK
  OBVIOUS
<1>1. DeciderOK
  BY DEF Init, DeciderOK
<1>2. runs \in [Tasks -> Nat] /\ stalls \in [Clicks -> Nat]
  BY DEF Init
<1>3. crashes \in 0..MaxCrashes
  BY DEF Init
<1>. QED  BY <1>1, <1>2, <1>3 DEF Init, TypeOK, DeciderOK

LEMMA DecideTyped ==
  ASSUME TypeOK, NEW p \in Deciders, Decide(p)
  PROVE  TypeOK'
<1>a. at[p] # "idle"
  BY DEF Decide, FindRequest, WriteDecision, Submit, FindExpired, WriteExpired
<1>b. task[p] \in Tasks
  BY <1>a, BusyDecider
<1>1. CASE FindRequest(p)
  <2>1. DeciderOK'
    BY <1>1, <1>a, EndsTyped, GoesTyped, LookedTyped DEF FindRequest
  <2>. QED  BY <1>1, <1>b, <2>1 DEF FindRequest, TypeOK, DeciderOK
<1>2. CASE WriteDecision(p)
  <2>1. DeciderOK'
    BY <1>2, <1>a, EndsTyped, GoesTyped DEF WriteDecision
  <2>2. request' \in ConfirmationStatus
    BY <1>2, VerdictTyped DEF WriteDecision, ConfirmationStatus
  <2>. QED  BY <1>2, <2>1, <2>2 DEF WriteDecision, TypeOK, DeciderOK
<1>3. CASE Submit(p)
  <2>1. DeciderOK'
    BY <1>3, <1>a, EndsTyped DEF Submit
  <2>2. runs' \in [Tasks -> Nat]
    BY <1>3, <1>b DEF Submit, TypeOK
  <2>. QED  BY <1>3, <2>1, <2>2 DEF Submit, TypeOK, DeciderOK
<1>4. CASE FindExpired(p)
  <2>1. DeciderOK'
    BY <1>4, <1>a, EndsTyped, LookedTyped DEF FindExpired
  <2>. QED  BY <1>4, <2>1 DEF FindExpired, TypeOK, DeciderOK
<1>5. CASE WriteExpired(p)
  <2>1. DeciderOK'
    BY <1>5, <1>a, EndsTyped DEF WriteExpired
  <2>2. request' \in ConfirmationStatus
    BY <1>5 DEF WriteExpired, ConfirmationStatus
  <2>. QED  BY <1>5, <2>1, <2>2 DEF WriteExpired, TypeOK, DeciderOK
<1>. QED  BY <1>1, <1>2, <1>3, <1>4, <1>5 DEF Decide

LEMMA NextTyped ==
  ASSUME TypeOK, [Next]_vars
  PROVE  TypeOK'
<1>1. CASE CreateRow \/ SendCard \/ TimePasses
  <2>1. CASE CreateRow
    <3>1. request' \in ConfirmationStatus
      BY <2>1 DEF CreateRow, ConfirmationStatus
    <3>. QED  BY <2>1, <3>1 DEF CreateRow, TypeOK
  <2>2. CASE SendCard
    BY <2>2 DEF SendCard, TypeOK
  <2>3. CASE TimePasses
    BY <2>3 DEF TimePasses, TypeOK
  <2>. QED  BY <1>1, <2>1, <2>2, <2>3
<1>2. ASSUME NEW c \in Clicks, Enqueue(c)
      PROVE  TypeOK'
  BY <1>2 DEF Enqueue, TypeOK
<1>3. ASSUME NEW c \in Clicks, Stall(c)
      PROVE  TypeOK'
  BY <1>3 DEF Stall, TypeOK
<1>4. ASSUME NEW w \in Workers, NEW c \in Clicks, Take(w, c)
      PROVE  TypeOK'
  BY <1>4 DEF Take, TypeOK
<1>5. ASSUME NEW w \in Workers, Dedup(w)
      PROVE  TypeOK'
  <2>1. task[w] \in Clicks
    BY <1>5, BusyDecider DEF Dedup
  <2>2. DeciderOK'
    BY <1>5, EndsTyped, GoesTyped DEF Dedup
  <2>. QED  BY <1>5, <2>1, <2>2 DEF Dedup, TypeOK, DeciderOK
<1>6. ASSUME NEW a \in Admins, Arrive(a)
      PROVE  TypeOK'
  <2>1. DeciderOK'
    BY <1>6, GoesTyped DEF Arrive
  <2>. QED  BY <1>6, <2>1 DEF Arrive, TypeOK, DeciderOK
<1>7. ASSUME NEW p \in Deciders, Decide(p)
      PROVE  TypeOK'
  BY <1>7, DecideTyped
<1>8. ASSUME NEW p \in Deciders, Throws(p)
      PROVE  TypeOK'
  <2>1. DeciderOK' /\ (p \in Workers => task[p] \in Clicks)
    BY <1>8, EndsTyped, BusyDecider DEF Throws
  <2>. QED  BY <1>8, <2>1 DEF Throws, TypeOK, DeciderOK
<1>9. ASSUME NEW p \in Deciders, Crash(p)
      PROVE  TypeOK'
  <2>1. p \in Workers => task[p] \in Clicks
    BY <1>9, BusyDecider DEF Crash
  <2>. QED  BY <1>9, <2>1 DEF Crash, TypeOK
<1>10. CASE UNCHANGED vars
  BY <1>10 DEF vars, TypeOK
<1>. QED  BY <1>1, <1>2, <1>3, <1>4, <1>5, <1>6, <1>7, <1>8, <1>9, <1>10 DEF Next

\* Every reachable state is well typed: a worker is deciding a click exactly
\* while it is not idle.
THEOREM ConfirmationTypeCorrect == Spec => []TypeOK
<1>1. Init => TypeOK
  BY InitTyped
<1>2. TypeOK /\ [Next]_vars => TypeOK'
  BY NextTyped
<1>. QED  BY <1>1, <1>2, PTL DEF Spec
-----------------------------------------------------------------------------
(* The invariant                                                            *)

\* What DecideInv depends on.
invariantVars == <<at, task, read, choice, seen, runs, inTime>>

LEMMA InvariantFrame ==
  ASSUME DecideInv, UNCHANGED invariantVars
  PROVE  DecideInv'
BY DEF invariantVars, DecideInv, OneRunPerTask, NoLateRun, OneHandler, NothingSubmittedYet,
       LookedFirst, Handling, Verdict

\* A decider that stops deciding -- it ends, or dies -- endangers nothing.
LEMMA StopKeeps ==
  ASSUME TypeOK, DecideInv, NEW p \in Deciders, at[p] # "idle",
         at' = [at EXCEPT ![p] = IF p \in Admins THEN "over" ELSE "idle"],
         task' = IF p \in Admins THEN task ELSE [task EXCEPT ![p] = None],
         read' = [read EXCEPT ![p] = "absent"],
         UNCHANGED <<choice, seen, runs, inTime>>
  PROVE  DecideInv'
<1>1. \A q \in Deciders : q # p => at'[q] = at[q] /\ task'[q] = task[q] /\ read'[q] = read[q]
  BY DEF TypeOK
<1>2. at'[p] \in {"over", "idle"} /\ (p \in Workers => at'[p] = "idle") /\ (p \in Admins => at'[p] = "over")
  BY DEF TypeOK
<1>3. OneRunPerTask' /\ NoLateRun'
  BY DEF DecideInv, OneRunPerTask, NoLateRun
<1>4. OneHandler'
  BY <1>1, <1>2 DEF DecideInv, OneHandler, Handling
<1>5. NothingSubmittedYet'
  BY <1>1, <1>2 DEF DecideInv, NothingSubmittedYet, Handling
<1>6. LookedFirst'
  BY <1>1, <1>2 DEF DecideInv, LookedFirst, Verdict
<1>. QED  BY <1>3, <1>4, <1>5, <1>6 DEF DecideInv

LEMMA EndsStops ==
  ASSUME NEW p \in Deciders, Ends(p)
  PROVE  /\ at' = [at EXCEPT ![p] = IF p \in Admins THEN "over" ELSE "idle"]
         /\ task' = IF p \in Admins THEN task ELSE [task EXCEPT ![p] = None]
         /\ read' = [read EXCEPT ![p] = "absent"]
BY DEF Ends

\* A decider past the deduplication that goes on to another await keeps the
\* handling it has; what it is about to do must be covered by what it read.
LEMMA StepKeeps ==
  ASSUME TypeOK, DecideInv, NEW p \in Deciders, NEW to \in {"find", "write", "submit", "refind", "expire"},
         p \in Workers => Handling(p),
         p \in Admins => at[p] # "over",
         at' = [at EXCEPT ![p] = to],
         \/ UNCHANGED read
         \/ read' = [read EXCEPT ![p] = request],
         UNCHANGED <<task, choice, seen, runs>>,
         inTime \subseteq inTime',
         to = "write" => Allowed(ConfirmationNext, read'[p], Verdict(p)),
         to = "expire" => Allowed(ConfirmationNext, read'[p], "expired"),
         to = "submit" \/ (to = "write" /\ Verdict(p) = "confirmed") => task[p] \in inTime'
  PROVE  DecideInv'
<1>1. \A q \in Deciders : q # p => at'[q] = at[q] /\ read'[q] = read[q]
  BY DEF TypeOK
<1>2. at'[p] = to
  BY DEF TypeOK
<1>3. OneRunPerTask' /\ NoLateRun'
  BY DEF DecideInv, OneRunPerTask, NoLateRun
<1>4. OneHandler'
  BY <1>1, <1>2 DEF DecideInv, OneHandler, Handling
<1>5. NothingSubmittedYet'
  BY <1>1, <1>2 DEF DecideInv, NothingSubmittedYet, Handling
<1>6. LookedFirst'
  BY <1>1, <1>2 DEF DecideInv, LookedFirst, Verdict
<1>. QED  BY <1>3, <1>4, <1>5, <1>6 DEF DecideInv

LEMMA DedupKeeps ==
  ASSUME TypeOK, DecideInv, NEW w \in Workers, Dedup(w)
  PROVE  DecideInv'
<1>a. at[w] = "dedup" /\ task[w] \in Clicks
  BY BusyDecider DEF Dedup
<1>b. UNCHANGED <<choice, runs, inTime>>
  BY DEF Dedup
<1>1. CASE Ends(w) /\ seen' = seen
  BY <1>1, <1>a, <1>b, EndsStops, StopKeeps
<1>2. CASE task[w] \notin seen /\ seen' = seen \cup {task[w]} /\ Goes(w, "find")
  <2>1. \A q \in Deciders : q # w => at'[q] = at[q]
    BY <1>2 DEF Goes, TypeOK
  <2>2. at'[w] = "find" /\ UNCHANGED <<task, read>>
    BY <1>2 DEF Goes, TypeOK
  <2>3. runs[task[w]] = 0
    BY <1>2, <1>a DEF DecideInv, NothingSubmittedYet, TypeOK
  <2>4. \A v \in Workers : Handling(v) => task[v] # task[w]
    BY <1>2 DEF DecideInv, NothingSubmittedYet
  <2>5. OneRunPerTask' /\ NoLateRun'
    BY <1>b DEF DecideInv, OneRunPerTask, NoLateRun
  <2>6. OneHandler'
    BY <2>1, <2>2, <2>4 DEF DecideInv, OneHandler, Handling
  <2>7. NothingSubmittedYet'
    BY <1>2, <1>b, <2>1, <2>2, <2>3 DEF DecideInv, NothingSubmittedYet, Handling
  <2>8. LookedFirst'
    BY <1>b, <2>1, <2>2 DEF DecideInv, LookedFirst, Verdict
  <2>. QED  BY <2>5, <2>6, <2>7, <2>8 DEF DecideInv
<1>. QED  BY <1>1, <1>2 DEF Dedup

\* Only a handling that has submitted nothing so far submits.
LEMMA SubmitKeeps ==
  ASSUME TypeOK, DecideInv, NEW p \in Deciders, Submit(p)
  PROVE  DecideInv'
<1>a. at[p] = "submit" /\ task[p] \in Tasks /\ (p \in Workers => task[p] \in Clicks)
      /\ (p \in Admins => task[p] = p)
  BY BusyDecider DEF Submit, TypeOK
<1>b. UNCHANGED <<choice, seen, inTime>> /\ Ends(p)
  BY DEF Submit
<1>1. CASE UNCHANGED runs
  BY <1>1, <1>a, <1>b, EndsStops, StopKeeps
<1>2. CASE runs' = [runs EXCEPT ![task[p]] = @ + 1]
  <2>1. \A q \in Deciders : q # p => at'[q] = at[q] /\ task'[q] = task[q] /\ read'[q] = read[q]
    BY <1>b, EndsStops DEF TypeOK
  <2>2. (p \in Workers => at'[p] = "idle") /\ (p \in Admins => at'[p] = "over")
    BY <1>b, EndsStops DEF TypeOK
  <2>3. runs[task[p]] = 0
    BY <1>a DEF DecideInv, NothingSubmittedYet, Handling
  <2>4. /\ runs'[task[p]] = 1
        /\ \A t \in Tasks : t # task[p] => runs'[t] = runs[t]
    BY <1>2, <1>a, <2>3 DEF TypeOK
  <2>5. p \in Workers => \A w \in Workers : w # p /\ Handling(w) => task[w] # task[p]
    BY <1>a DEF DecideInv, OneHandler, Handling
  <2>6. OneRunPerTask'
    BY <2>4 DEF DecideInv, OneRunPerTask
  <2>7. NoLateRun'
    BY <1>a, <1>b, <2>4 DEF DecideInv, NoLateRun, LookedFirst
  <2>8. OneHandler'
    BY <2>1, <2>2 DEF DecideInv, OneHandler, Handling
  <2>9. NothingSubmittedYet'
    <3>1. ASSUME NEW w \in Workers, Handling(w)'
          PROVE  task'[w] \in seen' /\ runs'[task'[w]] = 0
      <4>1. w # p /\ Handling(w) /\ task'[w] = task[w]
        BY <3>1, <2>1, <2>2 DEF Handling
      <4>2. task[w] \in Clicks /\ task[w] # task[p]
        BY <4>1, <1>a, <2>5, BusyDecider DEF Handling
      <4>. QED  BY <4>1, <4>2, <1>b, <2>4 DEF DecideInv, NothingSubmittedYet
    <3>2. ASSUME NEW a \in Admins, at'[a] # "over"
          PROVE  runs'[a] = 0
      <4>1. a # p /\ at[a] # "over" /\ a # task[p]
        BY <3>2, <1>a, <2>1, <2>2
      <4>. QED  BY <4>1, <2>4 DEF DecideInv, NothingSubmittedYet
    <3>3. ASSUME NEW c \in Clicks, runs'[c] > 0
          PROVE  c \in seen'
      <4>1. c = task[p] => p \in Workers
        BY <1>a
      <4>. QED  BY <3>3, <4>1, <1>a, <1>b, <2>4 DEF DecideInv, NothingSubmittedYet, Handling
    <3>. QED  BY <3>1, <3>2, <3>3 DEF NothingSubmittedYet
  <2>10. LookedFirst'
    BY <1>b, <2>1, <2>2 DEF DecideInv, LookedFirst, Verdict
  <2>. QED  BY <2>6, <2>7, <2>8, <2>9, <2>10 DEF DecideInv
<1>. QED  BY <1>1, <1>2 DEF Submit

LEMMA DecideKeeps ==
  ASSUME TypeOK, DecideInv, NEW p \in Deciders, Decide(p)
  PROVE  DecideInv'
<1>a. at[p] \notin {"idle", "dedup", "over"}
  BY DEF Decide, FindRequest, WriteDecision, Submit, FindExpired, WriteExpired
<1>1. CASE FindRequest(p)
  <2>0. /\ UNCHANGED <<choice, seen, runs>>
        /\ inTime' = IF expired THEN inTime ELSE inTime \cup {task[p]}
    BY <1>1 DEF FindRequest
  <2>1. CASE Goes(p, "refind")
    BY <1>a, <2>0, <2>1, StepKeeps DEF Goes, Handling
  <2>2. CASE /\ Looked(p, "write")
             /\ Allowed(ConfirmationNext, request, Verdict(p))
             /\ ~(choice[task[p]] = "confirm" /\ expired)
    <3>1. Verdict(p) = "confirmed" => task[p] \in inTime'
      BY <2>0, <2>2 DEF Verdict
    <3>2. read'[p] = request
      BY <2>2 DEF Looked, TypeOK
    <3>. QED  BY <1>a, <2>0, <2>2, <3>1, <3>2, StepKeeps DEF Looked, Handling
  <2>3. CASE Ends(p)
    <3>1. \A t \in Tasks : runs[t] > 0 => t \in inTime'
      BY <2>0 DEF DecideInv, NoLateRun
    <3>2. \A q \in Deciders : q # p => at'[q] = at[q] /\ task'[q] = task[q] /\ read'[q] = read[q]
      BY <2>3, EndsStops DEF TypeOK
    <3>3. (p \in Workers => at'[p] = "idle") /\ (p \in Admins => at'[p] = "over")
      BY <2>3, EndsStops DEF TypeOK
    <3>4. OneRunPerTask' /\ NoLateRun'
      BY <2>0, <3>1 DEF DecideInv, OneRunPerTask, NoLateRun
    <3>5. OneHandler'
      BY <3>2, <3>3 DEF DecideInv, OneHandler, Handling
    <3>6. NothingSubmittedYet'
      BY <2>0, <3>2, <3>3 DEF DecideInv, NothingSubmittedYet, Handling
    <3>7. LookedFirst'
      BY <2>0, <3>2, <3>3 DEF DecideInv, LookedFirst, Verdict
    <3>. QED  BY <3>4, <3>5, <3>6, <3>7 DEF DecideInv
  <2>. QED  BY <1>1, <2>1, <2>2, <2>3 DEF FindRequest
<1>2. CASE WriteDecision(p)
  <2>1. UNCHANGED <<choice, seen, runs, inTime>>
    BY <1>2 DEF WriteDecision
  <2>2. CASE Verdict(p) = "confirmed" /\ Goes(p, "submit")
    <3>1. task[p] \in inTime'
      BY <1>2, <2>1, <2>2 DEF WriteDecision, DecideInv, LookedFirst
    <3>. QED  BY <1>a, <2>1, <2>2, <3>1, StepKeeps DEF Goes, Handling
  <2>3. CASE Ends(p)
    BY <1>a, <2>1, <2>3, EndsStops, StopKeeps
  <2>. QED  BY <1>2, <2>2, <2>3 DEF WriteDecision
<1>3. CASE Submit(p)
  BY <1>3, SubmitKeeps
<1>4. CASE FindExpired(p)
  <2>1. UNCHANGED <<choice, seen, runs, inTime>>
    BY <1>4 DEF FindExpired
  <2>2. CASE Looked(p, "expire") /\ Allowed(ConfirmationNext, request, "expired")
    <3>1. read'[p] = request
      BY <2>2 DEF Looked, TypeOK
    <3>. QED  BY <1>a, <2>1, <2>2, <3>1, StepKeeps DEF Looked, Handling
  <2>3. CASE Ends(p)
    BY <1>a, <2>1, <2>3, EndsStops, StopKeeps
  <2>. QED  BY <1>4, <2>2, <2>3 DEF FindExpired
<1>5. CASE WriteExpired(p)
  BY <1>5, <1>a, EndsStops, StopKeeps DEF WriteExpired
<1>. QED  BY <1>1, <1>2, <1>3, <1>4, <1>5 DEF Decide

LEMMA NextKeeps ==
  ASSUME TypeOK, DecideInv, [Next]_vars
  PROVE  DecideInv'
<1>1. CASE CreateRow \/ SendCard \/ TimePasses
  BY <1>1, InvariantFrame DEF CreateRow, SendCard, TimePasses, invariantVars
<1>2. ASSUME NEW c \in Clicks, Enqueue(c) \/ Stall(c)
      PROVE  DecideInv'
  BY <1>2, InvariantFrame DEF Enqueue, Stall, invariantVars
<1>3. ASSUME NEW w \in Workers, NEW c \in Clicks, Take(w, c)
      PROVE  DecideInv'
  <2>1. \A q \in Deciders : q # w => at'[q] = at[q] /\ task'[q] = task[q]
    BY <1>3 DEF Take, TypeOK
  <2>2. at[w] = "idle" /\ at'[w] = "dedup" /\ UNCHANGED <<read, choice, seen, runs, inTime>>
    BY <1>3 DEF Take, TypeOK
  <2>3. OneRunPerTask' /\ NoLateRun'
    BY <2>2 DEF DecideInv, OneRunPerTask, NoLateRun
  <2>4. OneHandler' /\ NothingSubmittedYet'
    BY <2>1, <2>2 DEF DecideInv, OneHandler, NothingSubmittedYet, Handling
  <2>5. LookedFirst'
    BY <2>1, <2>2 DEF DecideInv, LookedFirst, Verdict
  <2>. QED  BY <2>3, <2>4, <2>5 DEF DecideInv
<1>4. ASSUME NEW w \in Workers, Dedup(w)
      PROVE  DecideInv'
  BY <1>4, DedupKeeps
<1>5. ASSUME NEW a \in Admins, Arrive(a)
      PROVE  DecideInv'
  BY <1>5, StepKeeps DEF Arrive, Goes
<1>6. ASSUME NEW p \in Deciders, Decide(p)
      PROVE  DecideInv'
  BY <1>6, DecideKeeps
<1>7. ASSUME NEW p \in Deciders, Throws(p)
      PROVE  DecideInv'
  BY <1>7, EndsStops, StopKeeps DEF Throws
<1>8. ASSUME NEW p \in Deciders, Crash(p)
      PROVE  DecideInv'
  BY <1>8, StopKeeps DEF Crash, eventVars
<1>9. CASE UNCHANGED vars
  BY <1>9, InvariantFrame DEF vars, invariantVars
<1>. QED  BY <1>1, <1>2, <1>3, <1>4, <1>5, <1>6, <1>7, <1>8, <1>9 DEF Next

\* The invariant holds in every reachable state.
LEMMA InvariantHolds == Spec => [](TypeOK /\ DecideInv)
<1>1. Init => TypeOK /\ DecideInv
  <2> SUFFICES ASSUME Init
               PROVE  DecideInv
    BY InitTyped
  <2>1. \A p \in Deciders : at[p] = "idle"
    BY DEF Init
  <2>2. \A t \in Tasks : runs[t] = 0
    BY DEF Init
  <2>. QED  BY <2>1, <2>2 DEF DecideInv, OneRunPerTask, NoLateRun, OneHandler, Handling,
                              NothingSubmittedYet, LookedFirst
<1>2. TypeOK /\ DecideInv /\ [Next]_vars => (TypeOK /\ DecideInv)'
  BY NextTyped, NextKeeps
<1>. QED  BY <1>1, <1>2, PTL DEF Spec

\* A click or an administrator's request submits at most one run, whatever is
\* redelivered, stalls or crashes.
THEOREM SubmitsAtMostOnce == Spec => []OneRunPerTask
<1>1. DecideInv => OneRunPerTask
  BY DEF DecideInv
<1>. QED  BY <1>1, InvariantHolds, PTL

\* Nobody who comes after the request's time gets a run submitted.
THEOREM ExpiryHolds == Spec => []NoLateRun
<1>1. DecideInv => NoLateRun
  BY DEF DecideInv
<1>. QED  BY <1>1, InvariantHolds, PTL

\* No two workers are past the deduplication row of one click.
THEOREM DeduplicationExcludes == Spec => []OneHandler
<1>1. DecideInv => OneHandler
  BY DEF DecideInv
<1>. QED  BY <1>1, InvariantHolds, PTL

\* A decision is overturned only by a decider that looked before it was made.
THEOREM OnlyStaleLooksOverturn == Spec => DecisionStands
<1> DEFINE Change == request \in Decided /\ request' # request
           Stale  == \E p \in Deciders : at[p] \in {"write", "expire"} /\ read[p] # request
<1>1. TypeOK /\ DecideInv /\ [Next]_vars => (Change => Stale)
  <2> SUFFICES ASSUME TypeOK, DecideInv, Next, Change
               PROVE  Stale
    BY DEF vars
  <2>1. PICK p \in Deciders : WriteDecision(p) \/ WriteExpired(p)
    BY DEF Next, Decide, CreateRow, SendCard, TimePasses, Enqueue, Stall, Take, Dedup, Arrive,
           FindRequest, Submit, FindExpired, Throws, Crash, Decided
  <2>2. CASE WriteDecision(p)
    <3>1. at[p] = "write" /\ request' = Verdict(p) /\ Allowed(ConfirmationNext, read[p], Verdict(p))
      BY <2>2 DEF WriteDecision, DecideInv, LookedFirst
    <3>2. read[p] # request
      BY <3>1 DEF Allowed, ConfirmationNext, Decided
    <3>. QED  BY <3>1, <3>2
  <2>3. CASE WriteExpired(p)
    <3>1. at[p] = "expire" /\ request' = "expired" /\ Allowed(ConfirmationNext, read[p], "expired")
      BY <2>3 DEF WriteExpired, DecideInv, LookedFirst
    <3>2. read[p] # request
      BY <3>1 DEF Allowed, ConfirmationNext, Decided
    <3>. QED  BY <3>1, <3>2
  <2>. QED  BY <2>1, <2>2, <2>3
<1>. QED  BY <1>1, InvariantHolds, PTL DEF Spec, DecisionStands
=============================================================================
