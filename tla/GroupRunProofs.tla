---------------------------- MODULE GroupRunProofs ----------------------------
(***************************************************************************)
(* Theorems about GroupRun, for every set of runs, every set of paths and  *)
(* faults and every bound.                                                 *)
(***************************************************************************)
EXTENDS GroupRun, TLAPS

USE DEF submitVars, workVars, syncVars, cancelVars, countVars, execVars

-----------------------------------------------------------------------------
(* Typing                                                                  *)

LEMMA CallTyping ==
  ASSUME TypeOK, NEW a \in Actor, NEW r \in Runs
  PROVE  call[a][r] \in Call
BY DEF TypeOK

LEMMA SetCallTyping ==
  ASSUME TypeOK, NEW a \in Actor, NEW r \in Runs, NEW c \in Call, SetCall(a, r, c)
  PROVE  /\ call' \in [Actor -> [Runs -> Call]]
         /\ call'[a][r] = c
         /\ \A b \in Actor, s \in Runs : b # a \/ s # r => call'[b][s] = call[b][s]
BY DEF SetCall, TypeOK

LEMMA ForgetTyping ==
  ASSUME TypeOK, NEW a \in Actor, NEW r \in Runs, Forget(a, r)
  PROVE  call' \in [Actor -> [Runs -> Call]]
BY SetCallTyping DEF Forget, Idle, Call, Token, Status

\* The initial state is well typed.
LEMMA InitTyped == Init => TypeOK
BY RunsAssumption DEF Init, TypeOK, Status, Token, Session, Call, Idle, RunStatus, Point

LEMMA SubmissionTyped ==
  ASSUME TypeOK, NEW r \in Runs, Submission(r)
  PROVE  TypeOK'
<1>1. CASE SubmitApi(r)
  BY <1>1 DEF SubmitApi, TypeOK, Goto
<1>2. CASE Acquire(r)
  BY <1>2 DEF Acquire, TypeOK, Goto, Token
<1>3. CASE Decide(r)
  BY <1>3 DEF Decide, TypeOK, Goto
<1>4. CASE CreateRun(r)
  BY <1>4 DEF CreateRun, TypeOK, Goto, Status, RunStatus
<1>5. CASE MarkRunQueued(r)
  BY <1>5 DEF MarkRunQueued, TypeOK, Goto, Session, Token
<1>6. CASE EnqueueRun(r)
  BY <1>6 DEF EnqueueRun, TypeOK, Goto
<1>7. CASE Accept(r)
  BY <1>7 DEF Accept, TypeOK, Goto
<1>8. CASE SubmitThrows(r)
  BY <1>8 DEF SubmitThrows, TypeOK, Goto
<1>9. CASE ReleaseUnretained(r)
  BY <1>9 DEF ReleaseUnretained, ReleaseLock, TypeOK, Goto, Token
<1> QED
  BY <1>1, <1>2, <1>3, <1>4, <1>5, <1>6, <1>7, <1>8, <1>9 DEF Submission

LEMMA TransitionTyped ==
  ASSUME TypeOK, NEW a \in Actor, NEW r \in Runs, Transition(a, r)
  PROVE  TypeOK'
<1> DEFINE c == call[a][r]
<1>c. c \in Call
  BY CallTyping
<1>s. session.token \in Token
  BY DEF TypeOK, Session
<1> HIDE DEF c
<1>a. ASSUME NEW at \in {"write", "threw", "find", "update"}, Awaits(a, r, at)
      PROVE  call' \in [Actor -> [Runs -> Call]]
  <2>1. [c EXCEPT !.at = at] \in Call
    BY <1>c DEF Call
  <2> QED
    BY <2>1, <1>a, SetCallTyping DEF Awaits, c
<1>1. CASE TransitionRead(a, r)
  BY <1>1, <1>a DEF TransitionRead, TypeOK
<1>2. CASE TransitionWrite(a, r)
  BY <1>2, <1>a, <1>c DEF TransitionWrite, TypeOK, Call, c
<1>3. CASE CallThrows(a, r)
  <2>1. [Idle EXCEPT !.at = "threw"] \in Call
    BY DEF Idle, Call, Token, Status
  <2> QED
    BY <1>3, <2>1, SetCallTyping DEF CallThrows, TypeOK
<1>4. CASE SettleFind(a, r)
  <2>1. ASSUME NEW at \in {"release", "update"}
        PROVE  [at |-> at, to |-> c.to, token |-> session.token] \in Call
    BY <1>c, <1>s DEF Call
  <2>2. call' \in [Actor -> [Runs -> Call]]
    BY <1>4, <2>1, SetCallTyping, ForgetTyping DEF SettleFind, c
  <2> QED
    BY <1>4, <2>2 DEF SettleFind, TypeOK
<1>5. CASE SettleRelease(a, r)
  BY <1>5, <1>a DEF SettleRelease, ReleaseLock, TypeOK, Token
<1>6. CASE SettleUpdate(a, r)
  <2>1. session' \in Session
    BY <1>6 DEF SettleUpdate, TypeOK, Session, Token
  <2> QED
    BY <1>6, <2>1, ForgetTyping DEF SettleUpdate, TypeOK
<1> QED
  BY <1>1, <1>2, <1>3, <1>4, <1>5, <1>6 DEF Transition

LEMMA CallsTyping ==
  ASSUME TypeOK, NEW a \in Actor, NEW r \in Runs,
         NEW at \in {"read", "find"}, NEW to \in RunStatus, Calls(a, r, at, to)
  PROVE  call' \in [Actor -> [Runs -> Call]]
<1>1. [at |-> at, to |-> to, token |-> None] \in Call
  BY DEF Call, Token, Status
<1> QED
  BY <1>1, SetCallTyping DEF Calls

LEMMA WorksTyping ==
  ASSUME TypeOK, NEW d \in Delivery, NEW r \in Runs, NEW to \in Point, Works(d, r, to)
  PROVE  worker' \in [Delivery -> [Runs -> Point]]
BY DEF Works, Goto, TypeOK

LEMMA ProcessorTyped ==
  ASSUME TypeOK, NEW d \in Delivery, NEW r \in Runs, Processor(d, r)
  PROVE  TypeOK'
<1>a. /\ d \in Actor /\ "worker" \in Delivery /\ "worker" \in Actor
      /\ {"running", "failed", "timeout", "canceled", "syncing"} \subseteq RunStatus
  BY DEF Actor, Delivery, RunStatus
<1>b. {"off", "start", "execute", "succeeded", "canceled", "finish", "handover", "catch",
       "giveUp"} \subseteq Point
  BY DEF Point
<1>1. CASE TakeJob(r)
  BY <1>1, <1>a, <1>b, CallsTyping, WorksTyping DEF TakeJob, TypeOK
<1>2. CASE Prepare(d, r)
  <2>1. call' \in [Actor -> [Runs -> Call]]
    BY <1>2, <1>a, CallsTyping DEF Prepare, TypeOK
  <2>2. executed' \in [Runs -> Nat]
    BY <1>2 DEF Prepare, TypeOK
  <2>3. worker' \in [Delivery -> [Runs -> Point]]
    BY <1>2, <1>b, WorksTyping DEF Prepare
  <2> QED
    BY <1>2, <2>1, <2>2, <2>3 DEF Prepare, TypeOK
<1>3. CASE Executed(d, r)
  BY <1>3, <1>a, <1>b, CallsTyping, WorksTyping DEF Executed, TypeOK
<1>4. CASE CheckLatest(d, r)
  BY <1>4, <1>a, <1>b, CallsTyping, WorksTyping DEF CheckLatest, TypeOK
<1>5. CASE HandOver(d, r)
  <2>1. worker' \in [Delivery -> [Runs -> Point]]
    BY <1>5, <1>b, WorksTyping DEF HandOver, JobOver
  <2>2. job' \in [Runs -> {"none", "waiting", "active", "over"}]
    BY <1>5 DEF HandOver, JobOver, TypeOK
  <2>3. syncJobs' \in [Runs -> Nat]
    <3>1. syncJobs' = syncJobs \/ syncJobs' = [syncJobs EXCEPT ![r] = @ + 1]
      BY <1>5 DEF HandOver
    <3> QED
      BY <3>1 DEF TypeOK
  <2>4. handed' = handed \/ handed' = handed \cup {r}
    BY <1>5 DEF HandOver
  <2> QED
    BY <1>5, <2>1, <2>2, <2>3, <2>4 DEF HandOver, TypeOK
<1>6. CASE Finished(d, r)
  BY <1>6, <1>b, WorksTyping DEF Finished, JobOver, TypeOK
<1>7. CASE ProcessThrows(d, r)
  BY <1>7, <1>a, <1>b, ForgetTyping, WorksTyping DEF ProcessThrows, TypeOK
<1>8. CASE Catch(d, r)
  BY <1>8, <1>a, <1>b, CallsTyping, WorksTyping DEF Catch, TypeOK
<1>9. CASE GaveUp(d, r)
  BY <1>9, <1>a, <1>b, ForgetTyping, WorksTyping DEF GaveUp, JobOver, TypeOK
<1> QED
  BY <1>1, <1>2, <1>3, <1>4, <1>5, <1>6, <1>7, <1>8, <1>9 DEF Processor

LEMMA SyncingTyped ==
  ASSUME TypeOK, NEW r \in Runs, Syncing(r) \/ RetrySync(r)
  PROVE  TypeOK'
<1>a. "syncer" \in Actor /\ {"succeeded", "failed"} \subseteq RunStatus
  BY DEF Actor, RunStatus
<1>1. CASE TakeSyncJob(r)
  BY <1>1, <1>a, CallsTyping DEF TakeSyncJob, TypeOK
<1>2. CASE Synced(r)
  BY <1>2, <1>a, ForgetTyping DEF Synced, TypeOK
<1>3. CASE RetrySync(r)
  BY <1>3, RunsAssumption DEF RetrySync, TypeOK
<1> QED
  BY <1>1, <1>2, <1>3 DEF Syncing

LEMMA CancelTyped ==
  ASSUME TypeOK, NEW r \in Runs, Cancel(r)
  PROVE  TypeOK'
<1>a. "canceler" \in Actor /\ "canceled" \in RunStatus /\ "canceled" \in Status
  BY DEF Actor, RunStatus, Status
<1>1. CASE CancelRead(r)
  BY <1>1, RunsAssumption DEF CancelRead, TypeOK, Goto
<1>2. CASE CancelRemove(r)
  BY <1>2 DEF CancelRemove, TypeOK, Goto
<1>3. CASE CancelWriteQueued(r)
  BY <1>3, <1>a, CallsTyping DEF CancelWriteQueued, TypeOK, Goto
<1>4. CASE CancelSettled(r)
  BY <1>4, <1>a, ForgetTyping DEF CancelSettled, TypeOK, Goto
<1>5. CASE CancelKeySet(r)
  BY <1>5 DEF CancelKeySet, TypeOK, Goto
<1>6. CASE CancelWriteRunning(r)
  BY <1>6, <1>a DEF CancelWriteRunning, TypeOK, Goto
<1> QED
  BY <1>1, <1>2, <1>3, <1>4, <1>5, <1>6 DEF Cancel

LEMMA DisableTyped ==
  ASSUME TypeOK, Disable
  PROVE  TypeOK'
<1>1. CASE DisableFind
  BY <1>1, RunsAssumption DEF DisableFind, TypeOK, Session
<1>2. CASE DisableRelease
  BY <1>2 DEF DisableRelease, ReleaseLock, TypeOK, Token
<1>3. CASE DisableUpdate
  BY <1>3 DEF DisableUpdate, TypeOK, Session, Token
<1> QED
  BY <1>1, <1>2, <1>3 DEF Disable

LEMMA FaultTyped ==
  ASSUME TypeOK, Expire \/ WorkerCrash \/ ApiCrash \/ \E r \in Runs : Stall(r)
  PROVE  TypeOK'
<1>i. Idle \in Call
  BY DEF Idle, Call, Token, Status
<1>s. ASSUME NEW S, StopSubmissions(S)
      PROVE  submit' \in [Runs -> {"new", "decide", "create", "mark", "add", "reload",
                                   "release", "accepted", "failed"}]
  BY <1>s DEF StopSubmissions, TypeOK
<1>1. CASE Expire
  BY <1>1 DEF Expire, TypeOK, Token
<1>2. CASE WorkerCrash
  <2>1. call' \in [Actor -> [Runs -> Call]]
    BY <1>2, <1>i DEF WorkerCrash, TypeOK
  <2>2. syncJobs' \in [Runs -> Nat] /\ crashes' \in 0..MaxCrashes
    BY <1>2, RunsAssumption DEF WorkerCrash, TypeOK
  <2>3. submit' \in [Runs -> {"new", "decide", "create", "mark", "add", "reload",
                             "release", "accepted", "failed"}]
    BY <1>2, <1>s DEF WorkerCrash
  <2>4. worker' \in [Delivery -> [Runs -> Point]] /\ stranded' \subseteq Runs
    BY <1>2 DEF WorkerCrash, TypeOK, Point
  <2> QED
    BY <1>2, <2>1, <2>2, <2>3, <2>4 DEF WorkerCrash, TypeOK
<1>3. CASE ApiCrash
  <2>1. call' \in [Actor -> [Runs -> Call]]
    BY <1>3, <1>i DEF ApiCrash, TypeOK
  <2>2. crashes' \in 0..MaxCrashes
    BY <1>3, RunsAssumption DEF ApiCrash, TypeOK
  <2>3. submit' \in [Runs -> {"new", "decide", "create", "mark", "add", "reload",
                             "release", "accepted", "failed"}]
    BY <1>3, <1>s DEF ApiCrash
  <2> QED
    BY <1>3, <2>1, <2>2, <2>3 DEF ApiCrash, TypeOK, Token
<1>4. ASSUME NEW r \in Runs, Stall(r)
      PROVE  TypeOK'
  <2>1. call' \in [Actor -> [Runs -> Call]]
    BY <1>4, <1>i DEF Stall, TypeOK, Actor, Delivery
  <2>2. worker' \in [Delivery -> [Runs -> Point]]
    BY <1>4 DEF Stall, TypeOK, Goto, Point, Delivery
  <2>3. crashes' \in 0..MaxCrashes
    BY <1>4, RunsAssumption DEF Stall, TypeOK
  <2> QED
    BY <1>4, <2>1, <2>2, <2>3 DEF Stall, TypeOK
<1> QED
  BY <1>1, <1>2, <1>3, <1>4

LEMMA StutterTyped ==
  ASSUME TypeOK, UNCHANGED vars
  PROVE  TypeOK'
BY DEF vars, TypeOK

\* Every column and every Redis key only ever holds a value of its type, whatever
\* requests, faults and crashes interleave.
THEOREM TypeCorrect == Spec => []TypeOK
<1>1. TypeOK /\ [Next]_vars => TypeOK'
  BY SubmissionTyped, TransitionTyped, ProcessorTyped, SyncingTyped, CancelTyped,
     DisableTyped, FaultTyped, StutterTyped DEF Next
<1> QED
  BY InitTyped, <1>1, PTL DEF Spec

-----------------------------------------------------------------------------
(* The session's run and token                                             *)

\* What an action that makes a call of r leaves alone.
LEMMA OtherCalls ==
  ASSUME TypeOK, NEW a \in Actor, NEW r \in Runs, NEW c, SetCall(a, r, c)
  PROVE  /\ call'[a][r] = c
         /\ \A b \in Actor, s \in Runs : b # a \/ s # r => call'[b][s] = call[b][s]
BY DEF SetCall, TypeOK

LEMMA CallsEffect ==
  ASSUME TypeOK, NEW a \in Actor, NEW r \in Runs, NEW at, NEW to, Calls(a, r, at, to)
  PROVE  /\ call'[a][r].at = at
         /\ call'[a][r].to = to
         /\ \A b \in Actor, s \in Runs : b # a \/ s # r => call'[b][s] = call[b][s]
<1>1. PICK c : c = [at |-> at, to |-> to, token |-> None]
  OBVIOUS
<1>2. c.at = at /\ c.to = to
  BY <1>1
<1> QED
  BY <1>1, <1>2, OtherCalls DEF Calls

LEMMA ForgetEffect ==
  ASSUME TypeOK, NEW a \in Actor, NEW r \in Runs, Forget(a, r)
  PROVE  /\ call'[a][r] = Idle
         /\ \A b \in Actor, s \in Runs : b # a \/ s # r => call'[b][s] = call[b][s]
BY OtherCalls DEF Forget

LEMMA AwaitsEffect ==
  ASSUME TypeOK, NEW a \in Actor, NEW r \in Runs, NEW at, Awaits(a, r, at)
  PROVE  /\ call'[a][r].at = at
         /\ call'[a][r].to = call[a][r].to
         /\ call'[a][r].token = call[a][r].token
         /\ \A b \in Actor, s \in Runs : b # a \/ s # r => call'[b][s] = call[b][s]
<1>1. call[a][r] \in Call
  BY CallTyping
<1>2. /\ [call[a][r] EXCEPT !.at = at].at = at
      /\ [call[a][r] EXCEPT !.at = at].to = call[a][r].to
      /\ [call[a][r] EXCEPT !.at = at].token = call[a][r].token
  BY <1>1 DEF Call
<1>3. SetCall(a, r, [call[a][r] EXCEPT !.at = at])
  BY DEF Awaits
<1>4. PICK c : c = [call[a][r] EXCEPT !.at = at]
  OBVIOUS
<1>5. SetCall(a, r, c)
  BY <1>3, <1>4
<1>6. call'[a][r] = c /\ \A b \in Actor, s \in Runs : b # a \/ s # r => call'[b][s] = call[b][s]
  BY <1>5, OtherCalls
<1> QED
  BY <1>2, <1>4, <1>6

\* A step outside Transition makes no call that is about to release the lock.
LEMMA FreshCallsTokens ==
  ASSUME TypeOK, TokenNamesRun, NEW a \in Actor, NEW r \in Runs, UNCHANGED session,
         \/ \E at \in {"read", "find"}, to \in RunStatus : Calls(a, r, at, to)
         \/ Forget(a, r)
         \/ UNCHANGED call
  PROVE  TokenNamesRun'
<1>1. ASSUME NEW at \in {"read", "find"}, NEW to \in RunStatus, Calls(a, r, at, to)
      PROVE  TokenNamesRun'
  <2>1. call'[a][r].at = at
    BY <1>1, CallsEffect
  <2>2. \A b \in Actor, s \in Runs : b # a \/ s # r => call'[b][s] = call[b][s]
    BY <1>1, CallsEffect
  <2> QED
    BY <2>1, <2>2 DEF TokenNamesRun
<1>2. CASE Forget(a, r)
  BY <1>2, ForgetEffect DEF TokenNamesRun, Idle
<1>3. CASE UNCHANGED call
  BY <1>3 DEF TokenNamesRun
<1> QED
  BY <1>1, <1>2, <1>3

LEMMA TransitionTokens ==
  ASSUME TypeOK, TokenNamesRun, NEW a \in Actor, NEW r \in Runs, Transition(a, r)
  PROVE  TokenNamesRun'
<1>1. CASE TransitionRead(a, r)
  BY <1>1, AwaitsEffect DEF TransitionRead, TokenNamesRun
<1>2. CASE TransitionWrite(a, r)
  BY <1>2, AwaitsEffect DEF TransitionWrite, TokenNamesRun
<1>3. CASE CallThrows(a, r)
  BY <1>3, OtherCalls DEF CallThrows, TokenNamesRun, Idle
<1>4. CASE SettleFind(a, r)
  BY <1>4, OtherCalls, ForgetEffect DEF SettleFind, TokenNamesRun, Idle
<1>5. CASE SettleRelease(a, r)
  BY <1>5, AwaitsEffect DEF SettleRelease, TokenNamesRun
<1>6. CASE SettleUpdate(a, r)
  <2>1. session'.run = session'.token
    BY <1>6 DEF SettleUpdate, TokenNamesRun, TypeOK, Session
  <2> QED
    BY <1>6, <2>1, ForgetEffect DEF SettleUpdate, TokenNamesRun, Idle
<1> QED
  BY <1>1, <1>2, <1>3, <1>4, <1>5, <1>6 DEF Transition

LEMMA NextTokens ==
  ASSUME TypeOK, TokenNamesRun, [Next]_vars
  PROVE  TokenNamesRun'
<1>a. /\ {"worker", "syncer", "canceler"} \subseteq Actor /\ Delivery \subseteq Actor
      /\ {"running", "failed", "timeout", "canceled", "syncing", "succeeded"} \subseteq RunStatus
  BY DEF Actor, Delivery, RunStatus
<1>1. ASSUME NEW r \in Runs, Submission(r)
      PROVE  TokenNamesRun'
  <2>1. UNCHANGED call
    BY <1>1 DEF Submission, SubmitApi, Acquire, Decide, CreateRun, MarkRunQueued, EnqueueRun,
                Accept, SubmitThrows, ReleaseUnretained
  <2>2. session' = session \/ session' = [status |-> "busy", run |-> r, token |-> r]
    BY <1>1 DEF Submission, SubmitApi, Acquire, Decide, CreateRun, MarkRunQueued, EnqueueRun,
                Accept, SubmitThrows, ReleaseUnretained
  <2> QED
    BY <2>1, <2>2 DEF TokenNamesRun
<1>2. ASSUME NEW a \in Actor, NEW r \in Runs, Transition(a, r)
      PROVE  TokenNamesRun'
  BY <1>2, TransitionTokens
<1>3. ASSUME NEW d \in Delivery, NEW r \in Runs, Processor(d, r)
      PROVE  TokenNamesRun'
  <2>1. UNCHANGED session
    BY <1>3 DEF Processor, TakeJob, Prepare, Executed, CheckLatest, HandOver, Finished,
                ProcessThrows, Catch, GaveUp
  <2>2. \/ \E at \in {"read", "find"}, to \in RunStatus : Calls(d, r, at, to)
        \/ Forget(d, r)
        \/ UNCHANGED call
    BY <1>3, <1>a DEF Processor, TakeJob, Prepare, Executed, CheckLatest, HandOver, Finished,
                ProcessThrows, Catch, GaveUp
  <2> QED
    BY <2>1, <2>2, <1>a, FreshCallsTokens
<1>4. ASSUME NEW r \in Runs, Syncing(r) \/ RetrySync(r)
      PROVE  TokenNamesRun'
  BY <1>4, <1>a, FreshCallsTokens DEF Syncing, TakeSyncJob, Synced, RetrySync
<1>5. ASSUME NEW r \in Runs, Cancel(r)
      PROVE  TokenNamesRun'
  BY <1>5, <1>a, FreshCallsTokens
     DEF Cancel, CancelRead, CancelRemove, CancelWriteQueued, CancelSettled, CancelKeySet,
         CancelWriteRunning
<1>6. CASE Disable
  BY <1>6 DEF Disable, DisableFind, DisableRelease, DisableUpdate, TokenNamesRun
<1>7. CASE Expire
  BY <1>7 DEF Expire, TokenNamesRun
<1>8. CASE WorkerCrash
  BY <1>8 DEF WorkerCrash, TokenNamesRun, Idle
<1>9. ASSUME NEW r \in Runs, Stall(r)
      PROVE  TokenNamesRun'
  <2>1. \A a \in Actor, s \in Runs :
          call'[a][s] \in {call[a][s], Idle} \/ \E b \in Actor : call'[a][s] = call[b][s]
    BY <1>9, <1>a DEF Stall, TypeOK
  <2> QED
    BY <1>9, <2>1 DEF Stall, TokenNamesRun, Idle
<1>10. CASE ApiCrash
  BY <1>10 DEF ApiCrash, TokenNamesRun, Idle, TypeOK
<1>11. CASE UNCHANGED vars
  BY <1>11 DEF vars, TokenNamesRun
<1> QED
  BY <1>1, <1>2, <1>3, <1>4, <1>5, <1>6, <1>7, <1>8, <1>9, <1>10, <1>11 DEF Next

\* The session's run and token columns agree, and whoever is about to release the
\* lock for a finished run holds that run's own token: settling a run never frees a
\* lock that a later submission has taken.
THEOREM TokenCoherence == Spec => []TokenNamesRun
<1>1. Init => TokenNamesRun
  BY DEF Init, TokenNamesRun, Idle
<1>2. TypeOK /\ TokenNamesRun /\ [Next]_vars => TokenNamesRun'
  BY NextTokens
<1> QED
  BY <1>1, <1>2, TypeCorrect, PTL DEF Spec

-----------------------------------------------------------------------------
(* No run is executed twice                                                *)

Once(r) == (executed[r] > 1 => r \in overtaken) /\ NotYetExecuted(r)

LEMMA OnceInvParts == OnceInv <=> \A r \in Runs : Once(r)
BY DEF OnceInv, Once, AtMostOnce

\* Submitting: a run's row is created before it has a job.
LEMMA SubmissionOnce ==
  ASSUME TypeOK, OnceInv, NEW r \in Runs, Submission(r)
  PROVE  OnceInv'
<1> SUFFICES ASSUME NEW s \in Runs PROVE Once(s)'
  BY DEF OnceInv, Once, AtMostOnce
<1>0. Once(s) /\ Once(r)
  BY OnceInvParts
<1>w. Delivery = {"worker", "stalled"}
  BY DEF Delivery
<1> USE DEF Once, NotYetExecuted, TypeOK, Goto
<1>1. CASE SubmitApi(r)
  BY <1>0, <1>1 DEF SubmitApi
<1>2. CASE Acquire(r)
  BY <1>0, <1>2 DEF Acquire
<1>3. CASE Decide(r)
  BY <1>0, <1>3 DEF Decide
<1>4. CASE CreateRun(r)
  BY <1>0, <1>4, <1>w DEF CreateRun
<1>5. CASE MarkRunQueued(r)
  BY <1>0, <1>5 DEF MarkRunQueued
<1>6. CASE EnqueueRun(r)
  BY <1>0, <1>6 DEF EnqueueRun
<1>7. CASE Accept(r)
  BY <1>0, <1>7 DEF Accept
<1>8. CASE SubmitThrows(r)
  BY <1>0, <1>8 DEF SubmitThrows
<1>9. CASE ReleaseUnretained(r)
  BY <1>0, <1>9 DEF ReleaseUnretained
<1> QED
  BY <1>1, <1>2, <1>3, <1>4, <1>5, <1>6, <1>7, <1>8, <1>9 DEF Submission

LEMMA TransitionOnce ==
  ASSUME TypeOK, OnceInv, NEW a \in Actor, NEW r \in Runs, Transition(a, r)
  PROVE  OnceInv'
<1> SUFFICES ASSUME NEW s \in Runs PROVE Once(s)'
  BY DEF OnceInv, Once, AtMostOnce
<1>0. Once(s) /\ Once(r)
  BY OnceInvParts
<1>w. Delivery = {"worker", "stalled"} /\ Delivery \subseteq Actor
  BY DEF Actor, Delivery
<1> USE DEF Once, NotYetExecuted
<1>1. CASE TransitionRead(a, r)
  BY <1>0, <1>1, <1>w, AwaitsEffect DEF TransitionRead
<1>2. CASE TransitionWrite(a, r)
  <2>1. status'[s] = "queued" => status[s] = "queued"
    BY <1>0, <1>2 DEF TransitionWrite, TypeOK
  <2>2. s = r => status'[s] # "queued"
    BY <1>0, <1>2 DEF TransitionWrite, TypeOK
  <2>3. \A b \in Actor : call'[b][s].to = call[b][s].to
    BY <1>2, AwaitsEffect DEF TransitionWrite
  <2>4. s # r => \A b \in Actor : call'[b][s] = call[b][s]
    BY <1>2, AwaitsEffect DEF TransitionWrite
  <2> QED
    BY <1>0, <1>2, <1>w, <2>1, <2>2, <2>3, <2>4 DEF TransitionWrite
<1>3. CASE CallThrows(a, r)
  BY <1>0, <1>3, <1>w, OtherCalls DEF CallThrows, Idle
<1>4. CASE SettleFind(a, r)
  BY <1>0, <1>4, <1>w, OtherCalls, ForgetEffect DEF SettleFind, Idle
<1>5. CASE SettleRelease(a, r)
  BY <1>0, <1>5, <1>w, AwaitsEffect DEF SettleRelease
<1>6. CASE SettleUpdate(a, r)
  BY <1>0, <1>6, <1>w, ForgetEffect DEF SettleUpdate, Idle
<1> QED
  BY <1>1, <1>2, <1>3, <1>4, <1>5, <1>6 DEF Transition

\* A processor works on one run, and one delivery of it.
LEMMA WorksEffect ==
  ASSUME TypeOK, NEW d \in Delivery, NEW r \in Runs, NEW to, Works(d, r, to)
  PROVE  /\ worker'[d][r] = to
         /\ \A e \in Delivery, s \in Runs : e # d \/ s # r => worker'[e][s] = worker[e][s]
BY DEF Works, Goto, TypeOK

LEMMA ProcessorOnce ==
  ASSUME TypeOK, OnceInv, NEW d \in Delivery, NEW r \in Runs, Processor(d, r)
  PROVE  OnceInv'
<1> SUFFICES ASSUME NEW s \in Runs PROVE Once(s)'
  BY DEF OnceInv, Once, AtMostOnce
<1>0. Once(s) /\ Once(r)
  BY OnceInvParts
<1>w. Delivery = {"worker", "stalled"} /\ Delivery \subseteq Actor
  BY DEF Actor, Delivery
<1> USE DEF Once, NotYetExecuted
<1>1. CASE d = "worker" /\ TakeJob(r)
  BY <1>0, <1>1, <1>w, CallsEffect, WorksEffect DEF TakeJob, TypeOK
<1>2. CASE Prepare(d, r)
  <2>0. executed'[s] = executed[s] \/ (s = r /\ executed'[r] = executed[r] + 1)
    <3>1. executed' = executed \/ executed' = [executed EXCEPT ![r] = @ + 1]
      BY <1>2 DEF Prepare
    <3> QED
      BY <3>1 DEF TypeOK
  <2>1. /\ worker'[d][r] # "start" /\ worker[d][r] = "start" /\ call[d][r].at = "idle"
        /\ \A e \in Delivery, t \in Runs : e # d \/ t # r => worker'[e][t] = worker[e][t]
        /\ UNCHANGED <<status, submit, job, overtaken>>
    <3>1. PICK to \in {"execute", "finish", "catch"} : Works(d, r, to)
      BY <1>2 DEF Prepare
    <3> QED
      BY <1>2, <3>1, WorksEffect DEF Prepare, Returned
  <2>2. /\ \A a \in Actor : call'[a][s].to # "queued"
        /\ \A a \in Actor : a # d \/ s # r => call'[a][s] = call[a][s]
    BY <1>0, <1>2, <1>w, CallsEffect DEF Prepare
  <2>3. CASE s # r
    BY <1>0, <1>w, <2>0, <2>1, <2>2, <2>3
  <2>4. CASE s = r
    <3>1. r \notin overtaken => /\ executed[r] = 0 /\ status[r] # "queued"
                               /\ \A e \in Delivery : e # d => worker[e][r] = "off"
      BY <1>0, <1>w, <2>1
    <3>2. submit[r] \notin {"new", "decide", "create"}
      BY <1>0, <2>1
    <3> QED
      BY <1>0, <1>w, <2>0, <2>1, <2>2, <2>4, <3>1, <3>2
  <2> QED
    BY <2>3, <2>4
<1>3. CASE Executed(d, r)
  BY <1>0, <1>3, <1>w, CallsEffect, WorksEffect DEF Executed
<1>4. CASE CheckLatest(d, r)
  BY <1>0, <1>4, <1>w, CallsEffect, WorksEffect DEF CheckLatest
<1>5. CASE HandOver(d, r)
  BY <1>0, <1>5, <1>w, WorksEffect DEF HandOver, JobOver, TypeOK
<1>6. CASE Finished(d, r)
  <2>1. /\ worker'[d][r] = "off" /\ worker[d][r] = "finish"
        /\ \A e \in Delivery, t \in Runs : e # d \/ t # r => worker'[e][t] = worker[e][t]
    BY <1>6, WorksEffect DEF Finished, JobOver
  <2>2. s # r => job'[s] = job[s]
    BY <1>6 DEF Finished, JobOver, TypeOK
  <2> QED
    BY <1>0, <1>6, <1>w, <2>1, <2>2 DEF Finished
<1>7. CASE ProcessThrows(d, r)
  <2>1. /\ worker'[d][r] = "catch" /\ worker[d][r] # "off"
        /\ \A e \in Delivery, t \in Runs : e # d \/ t # r => worker'[e][t] = worker[e][t]
    BY <1>7, WorksEffect DEF ProcessThrows
  <2>2. /\ call'[d][r] = Idle
        /\ \A a \in Actor, t \in Runs : a # d \/ t # r => call'[a][t] = call[a][t]
    BY <1>7, <1>w, ForgetEffect DEF ProcessThrows
  <2> QED
    BY <1>0, <1>7, <1>w, <2>1, <2>2 DEF ProcessThrows, Idle
<1>8. CASE Catch(d, r)
  BY <1>0, <1>8, <1>w, CallsEffect, WorksEffect DEF Catch
<1>9. CASE GaveUp(d, r)
  BY <1>0, <1>9, <1>w, ForgetEffect, WorksEffect DEF GaveUp, JobOver, Idle, TypeOK
<1> QED
  BY <1>1, <1>2, <1>3, <1>4, <1>5, <1>6, <1>7, <1>8, <1>9 DEF Processor

LEMMA OthersOnce ==
  ASSUME TypeOK, OnceInv,
         \/ \E r \in Runs : Syncing(r) \/ RetrySync(r) \/ Cancel(r)
         \/ Disable \/ Expire \/ WorkerCrash \/ ApiCrash \/ UNCHANGED vars
         \/ \E r \in Runs : Stall(r)
  PROVE  OnceInv'
<1> SUFFICES ASSUME NEW s \in Runs PROVE Once(s)'
  BY DEF OnceInv, Once, AtMostOnce
<1>0. \A r \in Runs : Once(r)
  BY OnceInvParts
<1>w. /\ Delivery = {"worker", "stalled"}
      /\ Actor = {"worker", "stalled", "syncer", "canceler"}
  BY DEF Actor, Delivery
<1> USE DEF Once, NotYetExecuted
<1>1. ASSUME NEW r \in Runs, Syncing(r) PROVE Once(s)'
  <2>1. CASE TakeSyncJob(r)
    BY <1>0, <1>w, <2>1, CallsEffect DEF TakeSyncJob
  <2>2. CASE Synced(r)
    BY <1>0, <1>w, <2>2, ForgetEffect DEF Synced, Idle
  <2> QED
    BY <1>1, <2>1, <2>2 DEF Syncing
<1>2. ASSUME NEW r \in Runs, RetrySync(r) PROVE Once(s)'
  BY <1>0, <1>2 DEF RetrySync
<1>3. ASSUME NEW r \in Runs, Cancel(r) PROVE Once(s)'
  <2> USE DEF TypeOK, Goto
  <2>1. CASE CancelRead(r) \/ CancelKeySet(r)
    BY <1>0, <2>1 DEF CancelRead, CancelKeySet
  <2>2. CASE CancelRemove(r)
    BY <1>0, <2>2 DEF CancelRemove
  <2>3. CASE CancelWriteQueued(r)
    BY <1>0, <1>w, <2>3, CallsEffect DEF CancelWriteQueued
  <2>4. CASE CancelSettled(r)
    BY <1>0, <1>w, <2>4, ForgetEffect DEF CancelSettled, Idle
  <2>5. CASE CancelWriteRunning(r)
    BY <1>0, <2>5 DEF CancelWriteRunning
  <2> QED
    BY <1>3, <2>1, <2>2, <2>3, <2>4, <2>5 DEF Cancel
<1>4. CASE Disable \/ Expire \/ UNCHANGED vars
  BY <1>0, <1>4 DEF Disable, DisableFind, DisableRelease, DisableUpdate, Expire, vars
<1>5. CASE WorkerCrash
  <2>1. \A a \in Actor : call'[a][s] = Idle \/ call'[a][s] = call[a][s]
    BY <1>5 DEF WorkerCrash
  <2>2. submit'[s] \in {"new", "accepted", "failed"} \/ submit'[s] = submit[s]
    BY <1>5 DEF WorkerCrash, StopSubmissions
  <2>3. submit'[s] \in {"new", "decide", "create"} => submit'[s] = submit[s]
    BY <1>5 DEF WorkerCrash, StopSubmissions
  <2>4. \A d \in Delivery : worker'[d][s] = "off"
    BY <1>5 DEF WorkerCrash
  <2>5. job[s] = "none" => job'[s] = "none"
    BY <1>5 DEF WorkerCrash
  <2> QED
    BY <1>0, <1>5, <1>w, <2>1, <2>3, <2>4, <2>5 DEF WorkerCrash, Idle
<1>6. CASE ApiCrash
  <2>1. \A a \in Actor : call'[a][s].to # "queued"
    BY <1>0, <1>6 DEF ApiCrash, Idle, TypeOK
  <2>2. \A d \in Delivery : call'[d] = call[d]
    BY <1>6, <1>w DEF ApiCrash, TypeOK
  <2>3. submit'[s] \in {"new", "decide", "create"} => submit'[s] = submit[s]
    BY <1>6 DEF ApiCrash, StopSubmissions
  <2> QED
    BY <1>0, <1>6, <2>1, <2>2, <2>3 DEF ApiCrash
<1>7. ASSUME NEW r \in Runs, Stall(r) PROVE Once(s)'
  <2>1. s # r => (\A d \in Delivery : worker'[d][s] = worker[d][s])
                   /\ (\A a \in Actor : call'[a][s] = call[a][s]) /\ job'[s] = job[s]
    BY <1>7, <1>w DEF Stall, Goto, TypeOK
  <2>2. /\ worker'["stalled"][r] = worker["worker"][r] /\ worker'["worker"][r] = "off"
        /\ worker["stalled"][r] = "off"
        /\ call'["stalled"][r] = call["worker"][r] /\ call'["worker"][r] = Idle
        /\ \A a \in Actor \ Delivery : call'[a] = call[a]
    BY <1>7, <1>w DEF Stall, Goto, TypeOK
  <2>3. /\ overtaken \subseteq overtaken' /\ (status[r] = "queued" => r \in overtaken')
        /\ UNCHANGED <<status, submit, executed>>
    BY <1>7 DEF Stall
  <2>4. CASE s # r
    BY <1>0, <1>w, <2>1, <2>3, <2>4
  <2>5. CASE s = r
    <3>1. submit[r] \notin {"new", "decide", "create"}
      BY <1>0, <1>7 DEF Stall
    <3> QED
      BY <1>0, <1>w, <2>2, <2>3, <2>5, <3>1 DEF Idle
  <2> QED
    BY <2>4, <2>5
<1> QED
  BY <1>1, <1>2, <1>3, <1>4, <1>5, <1>6, <1>7

LEMMA InitOnce == Init => OnceInv
BY DEF Init, OnceInv, AtMostOnce, NotYetExecuted, Idle, Actor, Delivery

LEMMA NextOnce ==
  ASSUME TypeOK, OnceInv, [Next]_vars
  PROVE  OnceInv'
BY SubmissionOnce, TransitionOnce, ProcessorOnce, OthersOnce DEF Next

\* A run is executed at most once, whatever crashes and stalled processors make
\* BullMQ deliver its job again and whatever cancel requests overwrite its status
\* meanwhile, unless the job was given away before the row said running.
THEOREM ExecutedAtMostOnce == Spec => []AtMostOnce
<1>1. TypeOK /\ OnceInv /\ [Next]_vars => OnceInv'
  BY NextOnce
<1>2. OnceInv => AtMostOnce
  BY DEF OnceInv
<1> QED
  BY <1>1, <1>2, InitOnce, TypeCorrect, PTL DEF Spec

-----------------------------------------------------------------------------
(* What a step of each kind leaves alone.                                   *)

LEMMA Actors ==
  /\ Delivery = {"worker", "stalled"} /\ Delivery \subseteq Actor
  /\ Actor = {"worker", "stalled", "syncer", "canceler"}
BY DEF Actor, Delivery

LEMMA SubmissionLeaves ==
  ASSUME NEW r \in Runs, Submission(r)
  PROVE  UNCHANGED <<outputs, path, worker, syncJobs, handed, syncer, canceler, cancelKey,
                     early, disabler, call, requests, crashes, executed, overtaken, stranded>>
BY DEF Submission, SubmitApi, Acquire, Decide, CreateRun, MarkRunQueued, EnqueueRun,
       Accept, SubmitThrows, ReleaseUnretained

LEMMA TransitionLeaves ==
  ASSUME NEW a \in Actor, NEW r \in Runs, Transition(a, r)
  PROVE  UNCHANGED <<submit, path, job, worker, syncJobs, handed, syncer, canceler, cancelKey,
                     early, disabler, requests, crashes, executed, overtaken, stranded>>
BY DEF Transition, TransitionRead, TransitionWrite, CallThrows, SettleFind, SettleRelease,
       SettleUpdate

LEMMA ProcessorLeaves ==
  ASSUME NEW d \in Delivery, NEW r \in Runs, Processor(d, r)
  PROVE  /\ UNCHANGED <<status, outputs, session, lock, submit, path, syncer, canceler, early,
                        disabler, requests, crashes, overtaken, stranded>>
         /\ \/ \E at \in {"read", "find"}, to \in RunStatus : Calls(d, r, at, to)
            \/ Forget(d, r)
            \/ UNCHANGED call
<1>1. {"running", "failed", "timeout", "canceled", "syncing"} \subseteq RunStatus
  BY DEF RunStatus
<1>. QED
  BY <1>1 DEF Processor, TakeJob, Prepare, Executed, CheckLatest, HandOver, Finished,
              ProcessThrows, Catch, GaveUp

LEMMA SyncingLeaves ==
  ASSUME NEW r \in Runs, Syncing(r) \/ RetrySync(r)
  PROVE  /\ UNCHANGED <<status, outputs, session, lock, submit, path, job, worker, canceler,
                        cancelKey, early, disabler, crashes, executed, overtaken, stranded>>
         /\ \/ \E at \in {"read", "find"}, to \in RunStatus : Calls("syncer", r, at, to)
            \/ Forget("syncer", r)
            \/ UNCHANGED call
<1>1. {"succeeded", "failed"} \subseteq RunStatus
  BY DEF RunStatus
<1>. QED  BY <1>1 DEF Syncing, TakeSyncJob, Synced, RetrySync

LEMMA CancelLeaves ==
  ASSUME NEW r \in Runs, Cancel(r)
  PROVE  /\ UNCHANGED <<outputs, session, lock, submit, path, worker, syncJobs, syncer,
                        disabler, crashes, executed, overtaken, stranded>>
         /\ \/ \E at \in {"read", "find"}, to \in RunStatus : Calls("canceler", r, at, to)
            \/ Forget("canceler", r)
            \/ UNCHANGED call
<1>1. "canceled" \in RunStatus
  BY DEF RunStatus
<1>. QED
  BY <1>1 DEF Cancel, CancelRead, CancelRemove, CancelWriteQueued, CancelSettled, CancelKeySet,
              CancelWriteRunning

\* A crash forgets calls and stops submissions.
LEMMA CrashLeaves ==
  ASSUME TypeOK, WorkerCrash \/ ApiCrash, NEW s \in Runs
  PROVE  /\ UNCHANGED <<status, outputs, session, lock, path, cancelKey, early, executed,
                        overtaken>>
         /\ submit'[s] = submit[s] \/ submit'[s] = "failed"
         /\ \A a \in Actor : call'[a][s] = Idle \/ call'[a][s] = call[a][s]
<1>1. ASSUME NEW S, StopSubmissions(S)
      PROVE  submit'[s] = submit[s] \/ submit'[s] = "failed"
  BY <1>1 DEF StopSubmissions
<1>2. CASE WorkerCrash
  BY <1>1, <1>2 DEF WorkerCrash
<1>3. CASE ApiCrash
  BY <1>1, <1>3, Actors DEF ApiCrash, TypeOK
<1>. QED  BY <1>2, <1>3

\* A stall moves one delivery of r aside.
LEMMA StallEffect ==
  ASSUME TypeOK, NEW r \in Runs, Stall(r)
  PROVE  /\ UNCHANGED <<status, outputs, session, lock, submit, path, syncJobs, handed, syncer,
                        canceler, cancelKey, early, disabler, requests, executed, stranded>>
         /\ job[r] = "active" /\ worker["stalled"][r] = "off"
         /\ worker'["stalled"][r] = worker["worker"][r] /\ worker'["worker"][r] = "off"
         /\ call'["stalled"][r] = call["worker"][r] /\ call'["worker"][r] = Idle
         /\ \A a \in Actor, s \in Runs : a \notin Delivery \/ s # r => call'[a][s] = call[a][s]
         /\ \A d \in Delivery, s \in Runs : s # r => worker'[d][s] = worker[d][s]
         /\ \A s \in Runs : s # r => job'[s] = job[s]
         /\ overtaken' = IF status[r] = "queued" THEN overtaken \cup {r} ELSE overtaken
<1>1. /\ UNCHANGED <<status, outputs, session, lock, submit, path, syncJobs, handed, syncer,
                     canceler, cancelKey, early, disabler, requests, executed, stranded>>
      /\ job[r] = "active" /\ worker["stalled"][r] = "off"
      /\ overtaken' = IF status[r] = "queued" THEN overtaken \cup {r} ELSE overtaken
  BY DEF Stall
<1>2. /\ worker'["stalled"][r] = worker["worker"][r] /\ worker'["worker"][r] = "off"
      /\ \A d \in Delivery, s \in Runs : s # r => worker'[d][s] = worker[d][s]
      /\ \A s \in Runs : s # r => job'[s] = job[s]
  BY Actors DEF Stall, Goto, TypeOK
<1>3. /\ call'["stalled"][r] = call["worker"][r] /\ call'["worker"][r] = Idle
      /\ \A a \in Actor, s \in Runs : a \notin Delivery \/ s # r => call'[a][s] = call[a][s]
  BY Actors DEF Stall, TypeOK
<1>. QED  BY <1>1, <1>2, <1>3

\* A processor works on one run, and one delivery of it.
LEMMA ProcessorOthers ==
  ASSUME TypeOK, NEW d \in Delivery, NEW r \in Runs, Processor(d, r)
  PROVE  /\ \A s \in Runs : s # r => job'[s] = job[s] /\ syncJobs'[s] = syncJobs[s]
         /\ \A e \in Delivery, s \in Runs : e # d \/ s # r => worker'[e][s] = worker[e][s]
         /\ cancelKey' \subseteq cancelKey
         /\ \A a \in Actor, s \in Runs : a # d \/ s # r => call'[a][s] = call[a][s]
<1>1. /\ \A s \in Runs : s # r => job'[s] = job[s]
      /\ cancelKey' \subseteq cancelKey
  BY DEF Processor, TakeJob, Prepare, Executed, CheckLatest, HandOver, Finished, ProcessThrows,
         Catch, GaveUp, JobOver, TypeOK
<1>2. syncJobs' = syncJobs \/ syncJobs' = [syncJobs EXCEPT ![r] = @ + 1]
  BY DEF Processor, TakeJob, Prepare, Executed, CheckLatest, HandOver, Finished, ProcessThrows,
         Catch, GaveUp
<1>3. worker' = worker \/ \E to \in Point : Works(d, r, to)
  <2>1. {"off", "start", "execute", "succeeded", "canceled", "finish", "handover", "catch",
         "giveUp"} \subseteq Point
    BY DEF Point
  <2>. QED
    BY <2>1 DEF Processor, TakeJob, Prepare, Executed, CheckLatest, HandOver, Finished,
                ProcessThrows, Catch, GaveUp, JobOver
<1>4. \A a \in Actor, s \in Runs : a # d \/ s # r => call'[a][s] = call[a][s]
  BY ProcessorLeaves, CallsEffect, ForgetEffect, Actors
<1>. QED  BY <1>1, <1>2, <1>3, <1>4, WorksEffect DEF TypeOK

LEMMA SyncingOthers ==
  ASSUME TypeOK, NEW r \in Runs, Syncing(r) \/ RetrySync(r)
  PROVE  /\ \A s \in Runs : s # r => syncJobs'[s] = syncJobs[s] /\ (s \in syncer' <=> s \in syncer)
         /\ \A a \in Actor, s \in Runs : a # "syncer" \/ s # r => call'[a][s] = call[a][s]
<1>1. \A s \in Runs : s # r => syncJobs'[s] = syncJobs[s] /\ (s \in syncer' <=> s \in syncer)
  BY DEF Syncing, TakeSyncJob, Synced, RetrySync, TypeOK
<1>2. \A a \in Actor, s \in Runs : a # "syncer" \/ s # r => call'[a][s] = call[a][s]
  BY SyncingLeaves, CallsEffect, ForgetEffect, Actors
<1>. QED  BY <1>1, <1>2

LEMMA CancelOthers ==
  ASSUME TypeOK, NEW r \in Runs, Cancel(r)
  PROVE  /\ \A s \in Runs : s # r => /\ status'[s] = status[s] /\ canceler'[s] = canceler[s]
         /\ early \subseteq early'
         /\ \A a \in Actor, s \in Runs : a # "canceler" \/ s # r => call'[a][s] = call[a][s]
<1>1. /\ \A s \in Runs : s # r => /\ status'[s] = status[s] /\ canceler'[s] = canceler[s]
      /\ early \subseteq early'
  BY DEF Cancel, CancelRead, CancelRemove, CancelWriteQueued, CancelSettled, CancelKeySet,
         CancelWriteRunning, Goto, TypeOK
<1>2. \A a \in Actor, s \in Runs : a # "canceler" \/ s # r => call'[a][s] = call[a][s]
  BY CancelLeaves, CallsEffect, ForgetEffect, Actors
<1>. QED  BY <1>1, <1>2

-----------------------------------------------------------------------------
(* Runs of a chat take turns, when only crashes and failing calls disturb  *)
(* them: the model-checked runs show what each of the other faults breaks. *)

Undisturbed == Faults \cap {"expire", "cancel", "disable", "submitError", "stall"} = {}

Fits(r) ==
  /\ Unpublished(r) /\ KeepsLock(r) /\ CallFits(r) /\ WorkerFits(r) /\ SyncerFits(r)
  /\ canceler[r] = "off" /\ call["canceler"][r] = Idle
  /\ worker["stalled"][r] = "off" /\ call["stalled"][r] = Idle

LEMMA TurnInvParts ==
  TurnInv <=> TokenNamesRun /\ disabler.at = "off" /\ \A r \in Runs : Fits(r)
BY DEF TurnInv, Fits

\* Submitting: the lock is taken before the row is created and given back only
\* when no row was.
LEMMA SubmissionTurn ==
  ASSUME TypeOK, TurnInv, Undisturbed, NEW r \in Runs, Submission(r), NEW s \in Runs
  PROVE  Fits(s)'
<1>0. Fits(s) /\ Fits(r)
  BY TurnInvParts
<1> USE DEF Fits, Unpublished, KeepsLock, CallFits, WorkerFits, SyncerFits, Unfinished, Returned,
            TypeOK, Goto
<1>1. CASE SubmitApi(r)
  BY <1>0, <1>1 DEF SubmitApi
<1>2. CASE Acquire(r)
  BY <1>0, <1>2, RunsAssumption DEF Acquire
<1>3. CASE Decide(r)
  BY <1>0, <1>3 DEF Decide
<1>4. CASE CreateRun(r)
  BY <1>0, <1>4, Actors DEF CreateRun, Idle, Terminal
<1>5. CASE MarkRunQueued(r)
  BY <1>0, <1>5 DEF MarkRunQueued
<1>6. CASE EnqueueRun(r)
  BY <1>0, <1>6 DEF EnqueueRun
<1>7. CASE Accept(r)
  BY <1>0, <1>7 DEF Accept
<1>8. CASE SubmitThrows(r)
  BY <1>0, <1>8 DEF SubmitThrows, Undisturbed
<1>9. CASE ReleaseUnretained(r)
  BY <1>0, <1>9, RunsAssumption DEF ReleaseUnretained, ReleaseLock
<1> QED
  BY <1>1, <1>2, <1>3, <1>4, <1>5, <1>6, <1>7, <1>8, <1>9 DEF Submission

\* Transitions: each writes on the row it read unless it ends the run, and releases
\* the lock of a run that has ended.
LEMMA TransitionTurn ==
  ASSUME TypeOK, TurnInv, NEW a \in Actor, NEW r \in Runs, Transition(a, r), NEW s \in Runs
  PROVE  Fits(s)'
<1>0. Fits(s) /\ Fits(r)
  BY TurnInvParts
<1> USE Actors
<1> USE DEF Fits, Unpublished, KeepsLock, CallFits, WorkerFits, SyncerFits, Unfinished, Returned
<1>i. call[a][r].at # "idle" => a \in {"worker", "syncer"} /\ status[r] # "absent"
  BY <1>0 DEF Idle
<1>1. CASE TransitionRead(a, r)
  <2>1. call'[a][r].at \in {"write", "threw"} /\ call'[a][r].to = call[a][r].to
    BY <1>1, AwaitsEffect DEF TransitionRead
  <2>2. \A b \in Actor, t \in Runs : b # a \/ t # r => call'[b][t] = call[b][t]
    BY <1>1, AwaitsEffect DEF TransitionRead
  <2>3. a = "syncer" /\ call'[a][r].at = "write" => status[r] \in {"syncing"} \cup Terminal
    <3>1. CASE call[a][r].to = "failed"
      BY <1>0, <3>1
    <3>2. CASE call[a][r].to # "failed" /\ a = "syncer" /\ call'[a][r].at = "write"
      <4>1. call[a][r].at = "read" /\ call[a][r].to = "succeeded"
        BY <1>0, <1>1, <3>2 DEF TransitionRead
      <4>2. Allowed(RunNext, status[r], "succeeded")
        BY <1>1, <3>2, <4>1, AwaitsEffect DEF TransitionRead
      <4>3. status[r] \in RunStatus
        BY <1>i, <4>1 DEF TypeOK, Status
      <4>. QED  BY <4>2, <4>3 DEF Allowed, RunNext, RunStatus, Terminal
    <3> QED
      BY <3>1, <3>2
  <2> QED
    BY <1>0, <1>1, <1>i, <2>1, <2>2, <2>3 DEF TransitionRead
<1>2. CASE TransitionWrite(a, r)
  <2>1. call'[a][r].at = "find" /\ call'[a][r].to = call[a][r].to
    BY <1>2, AwaitsEffect DEF TransitionWrite
  <2>2. \A b \in Actor, t \in Runs : b # a \/ t # r => call'[b][t] = call[b][t]
    BY <1>2, AwaitsEffect DEF TransitionWrite
  <2>3. status'[r] = call[a][r].to /\ (s # r => status'[s] = status[s])
    BY <1>2 DEF TransitionWrite, TypeOK
  <2>4. UNCHANGED <<lock, submit, path, worker, syncJobs, syncer, canceler>>
    BY <1>2 DEF TransitionWrite
  <2>5. outputs' = IF call[a][r].to = "syncing" THEN outputs \cup {r} ELSE outputs
    BY <1>2 DEF TransitionWrite
  <2>6. CASE s # r
    BY <1>0, <2>2, <2>3, <2>4, <2>5, <2>6
  <2>7. CASE s = r
    <3> USE <2>7
    <3>1. Unpublished(s)'
      BY <1>0, <1>i, <1>2, <2>3, <2>4 DEF TransitionWrite, Terminal
    <3>2. KeepsLock(s)'
      BY <1>0, <1>i, <1>2, <2>3, <2>4 DEF TransitionWrite, Terminal
    <3>3. CallFits(s)'
      <4> DEFINE CallFit(b) ==
            /\ call[b][s].at \in {"read", "write"} =>
                 /\ call[b][s].to \in {"running", "syncing"} \cup Terminal
                 /\ call[b][s].to = "running" => status[s] = "queued"
                 /\ call[b][s].to = "syncing" => status[s] = "running"
            /\ call[b][s].at = "release" => call[b][s].to \in Terminal
            /\ call[b][s].at \in {"find", "release", "update"} /\ call[b][s].to \in Terminal =>
                 status[s] \in Terminal
      <4>1. CallFit(a)'
        BY <2>1, <2>3
      <4>2. ASSUME NEW b \in Actor, b # a PROVE CallFit(b)'
        <5>1. call'[b][s] = call[b][s] /\ call[b][s] = call[b][r]
          BY <2>2, <4>2
        <5>2. CASE b \in {"stalled", "canceler"}
          BY <1>0, <5>1, <5>2 DEF Idle
        <5>3. CASE a = "syncer"
          <6>1. call[a][r].to \in Terminal /\ status[r] \notin {"queued", "running"}
            BY <1>0, <1>2, <5>3 DEF TransitionWrite, Terminal
          <6> QED
            BY <1>0, <2>3, <5>1, <6>1
        <5>4. CASE b = "syncer"
          <6>1. call[b][r].at \in {"read", "write"} => call[b][r].to \in {"succeeded", "failed"}
            BY <1>0, <5>4
          <6>2. status[r] \in Terminal => call[a][r].to \in Terminal
            BY <1>0, <1>2 DEF TransitionWrite, Terminal
          <6> QED
            BY <1>0, <2>3, <5>1, <6>1, <6>2 DEF Terminal
        <5> QED
          BY <1>i, <1>2, <4>2, <5>2, <5>3, <5>4 DEF TransitionWrite
      <4> QED
        BY <4>1, <4>2
    <3>4. WorkerFits(s)'
      <4>1. CASE a = "worker"
        BY <1>0, <1>2, <2>1, <2>3, <2>4, <4>1 DEF TransitionWrite
      <4>2. CASE a = "syncer"
        <5>1. status[r] \notin {"running", "queued"}
          BY <1>0, <1>2, <4>2 DEF TransitionWrite, Terminal
        <5>2. call'["worker"][r] = call["worker"][r]
          BY <2>2, <4>2
        <5> QED
          BY <1>0, <2>4, <5>1, <5>2
      <4> QED
        BY <1>i, <1>2, <4>1, <4>2 DEF TransitionWrite
    <3>5. SyncerFits(s)'
      BY <1>0, <1>i, <1>2, <2>1, <2>2, <2>3, <2>5 DEF TransitionWrite, Terminal
    <3> QED
      BY <1>0, <1>i, <1>2, <2>2, <2>4, <3>1, <3>2, <3>3, <3>4, <3>5 DEF TransitionWrite
  <2> QED
    BY <2>6, <2>7
<1>3. CASE CallThrows(a, r)
  <2>1. call'[a][r].at = "threw" /\ call'[a][r].to = "absent"
    BY <1>3, OtherCalls DEF CallThrows, Idle
  <2>2. \A b \in Actor, t \in Runs : b # a \/ t # r => call'[b][t] = call[b][t]
    BY <1>3, OtherCalls DEF CallThrows
  <2> QED
    BY <1>0, <1>3, <1>i, <2>1, <2>2 DEF CallThrows, Terminal
<1>4. CASE SettleFind(a, r)
  <2>1. \/ call'[a][r] = Idle
        \/ /\ call'[a][r].to = call[a][r].to
           /\ call'[a][r].at = IF call[a][r].to \in Terminal THEN "release" ELSE "update"
    BY <1>4, OtherCalls, ForgetEffect DEF SettleFind
  <2>2. \A b \in Actor, t \in Runs : b # a \/ t # r => call'[b][t] = call[b][t]
    BY <1>4, OtherCalls, ForgetEffect DEF SettleFind
  <2> QED
    BY <1>0, <1>4, <1>i, <2>1, <2>2 DEF SettleFind, Idle, Terminal
<1>5. CASE SettleRelease(a, r)
  <2>1. call'[a][r].at = "update" /\ call'[a][r].to = call[a][r].to
    BY <1>5, AwaitsEffect DEF SettleRelease
  <2>2. \A b \in Actor, t \in Runs : b # a \/ t # r => call'[b][t] = call[b][t]
    BY <1>5, AwaitsEffect DEF SettleRelease
  <2>3. call[a][r].token = r
    BY <1>0, <1>5 DEF SettleRelease, TurnInv, TokenNamesRun
  <2>4. status[r] \in Terminal
    BY <1>0, <1>5 DEF SettleRelease
  <2>5. lock' = lock \/ lock = r
    BY <1>5, <2>3, RunsAssumption DEF SettleRelease, ReleaseLock
  <2>6. KeepsLock(s)'
    BY <1>0, <1>5, <2>4, <2>5 DEF SettleRelease, Terminal
  <2> QED
    BY <1>0, <1>5, <1>i, <2>1, <2>2, <2>6 DEF SettleRelease, Terminal
<1>6. CASE SettleUpdate(a, r)
  <2>1. call'[a][r] = Idle
    BY <1>6, ForgetEffect DEF SettleUpdate
  <2>2. \A b \in Actor, t \in Runs : b # a \/ t # r => call'[b][t] = call[b][t]
    BY <1>6, ForgetEffect DEF SettleUpdate
  <2> QED
    BY <1>0, <1>6, <1>i, <2>1, <2>2 DEF SettleUpdate, Idle, Terminal
<1> QED
  BY <1>1, <1>2, <1>3, <1>4, <1>5, <1>6 DEF Transition

\* A step that leaves a run and its lock alone.
LEMMA FitsElsewhere ==
  ASSUME NEW s \in Runs, Fits(s), lock = s => lock' = s,
         status'[s] = status[s], submit'[s] = submit[s], path'[s] = path[s],
         \A d \in Delivery : worker'[d][s] = worker[d][s],
         canceler'[s] = canceler[s], syncJobs'[s] = syncJobs[s],
         s \in syncer' <=> s \in syncer, s \in outputs' <=> s \in outputs,
         \A a \in Actor : call'[a][s] = call[a][s]
  PROVE  Fits(s)'
BY Actors DEF Fits, Unpublished, KeepsLock, CallFits, WorkerFits, SyncerFits, Unfinished, Returned

\* The worker: it takes a run that is queued, and asks for the next status only
\* while the run is in the one before.
LEMMA ProcessorTurn ==
  ASSUME TypeOK, TurnInv, NEW d \in Delivery, NEW r \in Runs, Processor(d, r), NEW s \in Runs
  PROVE  Fits(s)'
<1>0. Fits(s) /\ Fits(r)
  BY TurnInvParts
<1>d. d = "worker"
  BY <1>0, Actors DEF Processor, Prepare, Executed, CheckLatest, HandOver, Finished, ProcessThrows,
                      Catch, GaveUp, Fits
<1>1. UNCHANGED <<status, outputs, lock, submit, path, syncer, canceler>>
  BY ProcessorLeaves
<1>2. \A a \in Actor, t \in Runs : a # "worker" \/ t # r => call'[a][t] = call[a][t]
  BY <1>d, ProcessorOthers
<1>w. /\ worker'["stalled"][r] = worker["stalled"][r]
      /\ \A to : Works("worker", r, to) => worker'["worker"][r] = to
  BY <1>d, ProcessorOthers, WorksEffect, Actors
<1>3. CASE s # r
  BY <1>0, <1>1, <1>2, <1>3, ProcessorOthers, FitsElsewhere, Actors
<1>4. CASE s = r
  <2>0. /\ call'["syncer"][r] = call["syncer"][r] /\ call'["canceler"][r] = call["canceler"][r]
        /\ call'["stalled"][r] = call["stalled"][r]
        /\ \A a \in Actor : a # "worker" => call'[a][r] = call[a][r]
    BY <1>2, Actors
  <2> USE Actors
  <2> USE DEF Fits, Unpublished, KeepsLock, CallFits, WorkerFits, SyncerFits, Unfinished, Returned,
              TypeOK
  <2>1. CASE TakeJob(r)
    BY <1>0, <1>1, <1>w, <1>4, <2>0, <2>1, CallsEffect DEF TakeJob, Idle
  <2>2. CASE Prepare("worker", r)
    <3>1. CASE Works("worker", r, "execute") /\ call' = call
      BY <1>0, <1>1, <1>w, <1>4, <2>2, <3>1 DEF Prepare, Terminal
    <3>2. CASE Works("worker", r, "finish") /\ Calls("worker", r, "read", "failed")
      <4>1. call'["worker"][r].at = "read" /\ call'["worker"][r].to = "failed"
        BY <3>2, CallsEffect
      <4>2. worker["worker"][r] = "start" /\ worker'["worker"][r] = "finish" /\ syncJobs' = syncJobs
        BY <1>w, <2>2, <3>2 DEF Prepare
      <4>. QED  BY <1>0, <1>1, <1>w, <1>4, <2>0, <2>2, <4>1, <4>2 DEF Prepare, Terminal
    <3>3. CASE Works("worker", r, "catch") /\ call' = call
      BY <1>0, <1>1, <1>w, <1>4, <2>2, <3>3 DEF Prepare, Terminal
    <3>. QED  BY <2>2, <3>1, <3>2, <3>3 DEF Prepare
  <2>3. CASE Executed("worker", r)
    BY <1>0, <1>1, <1>w, <1>4, <2>0, <2>3, CallsEffect DEF Executed, Terminal
  <2>4. CASE CheckLatest("worker", r)
    BY <1>0, <1>1, <1>w, <1>4, <2>0, <2>4, CallsEffect, SMTT(20) DEF CheckLatest, Terminal
  <2>5. CASE HandOver("worker", r)
    BY <1>0, <1>1, <1>w, <1>4, <2>5 DEF HandOver, JobOver
  <2>6. CASE Finished("worker", r)
    BY <1>0, <1>1, <1>w, <1>4, <2>6 DEF Finished, JobOver
  <2>7. CASE ProcessThrows("worker", r)
    BY <1>0, <1>1, <1>w, <1>4, <2>0, <2>7, ForgetEffect, SMTT(20) DEF ProcessThrows, Idle, Terminal
  <2>8. CASE Catch("worker", r)
    BY <1>0, <1>1, <1>w, <1>4, <2>0, <2>8, CallsEffect, SMTT(20) DEF Catch, Terminal
  <2>9. CASE GaveUp("worker", r)
    BY <1>0, <1>1, <1>w, <1>4, <2>0, <2>9, ForgetEffect, SMTT(20)
       DEF GaveUp, JobOver, Idle, Terminal
  <2>. QED
    BY <1>d, <2>1, <2>2, <2>3, <2>4, <2>5, <2>6, <2>7, <2>8, <2>9 DEF Processor
<1>. QED  BY <1>3, <1>4

LEMMA SyncingTurn ==
  ASSUME TypeOK, TurnInv, NEW r \in Runs, Syncing(r) \/ RetrySync(r), NEW s \in Runs
  PROVE  Fits(s)'
<1>0. Fits(s) /\ Fits(r)
  BY TurnInvParts
<1>1. UNCHANGED <<status, outputs, lock, submit, path, worker, canceler>>
  BY SyncingLeaves
<1>2. \A a \in Actor, t \in Runs : a # "syncer" \/ t # r => call'[a][t] = call[a][t]
  BY SyncingOthers
<1>3. CASE s # r
  BY <1>0, <1>1, <1>2, <1>3, SyncingOthers, FitsElsewhere
<1>4. CASE s = r
  <2>0. /\ call'["worker"][r] = call["worker"][r] /\ call'["canceler"][r] = call["canceler"][r]
        /\ call'["stalled"][r] = call["stalled"][r]
        /\ \A a \in Actor : a # "syncer" => call'[a][r] = call[a][r]
    BY <1>2, Actors
  <2>1. /\ KeepsLock(r)' /\ WorkerFits(r)' /\ canceler'[r] = "off" /\ call'["canceler"][r] = Idle
        /\ worker'["stalled"][r] = "off" /\ call'["stalled"][r] = Idle
    BY <1>0, <1>1, <2>0 DEF Fits, KeepsLock, WorkerFits, Unfinished, Returned
  <2>2. Unpublished(r)' /\ CallFits(r)' /\ SyncerFits(r)'
    <3> USE DEF Fits, Unpublished, CallFits, SyncerFits
    <3>1. CASE TakeSyncJob(r)
      <4>1. PICK to \in {"succeeded", "failed"} :
              (to = "failed" => r \in outputs) /\ Calls("syncer", r, "read", to)
        BY <3>1 DEF TakeSyncJob
      <4>2. call'["syncer"][r].at = "read" /\ call'["syncer"][r].to = to
        BY <4>1, CallsEffect, Actors
      <4>3. status[r] # "absent"
        BY <1>0, <3>1 DEF TakeSyncJob
      <4>. QED  BY <1>0, <1>1, <2>0, <4>1, <4>2, <4>3 DEF Terminal
    <3>2. CASE Synced(r)
      <4>1. call'["syncer"][r] = Idle /\ r \notin syncer' /\ syncJobs' = syncJobs
        BY <3>2, ForgetEffect, Actors DEF Synced
      <4>. QED  BY <1>0, <1>1, <2>0, <4>1 DEF Idle, Terminal
    <3>3. CASE RetrySync(r)
      BY <1>0, <1>1, <3>3 DEF RetrySync
    <3>. QED  BY <3>1, <3>2, <3>3 DEF Syncing
  <2>. QED  BY <1>0, <1>4, <2>1, <2>2 DEF Fits
<1>. QED  BY <1>3, <1>4

\* Without the other faults nobody cancels, disables or lets the lock expire; a
\* crash only forgets calls and stops submissions.
LEMMA OthersTurn ==
  ASSUME TypeOK, TurnInv, Undisturbed, NEW s \in Runs,
         \/ \E r \in Runs : Cancel(r)
         \/ Disable \/ Expire \/ WorkerCrash \/ ApiCrash \/ UNCHANGED vars
         \/ \E r \in Runs : Stall(r)
  PROVE  Fits(s)'
<1>0. Fits(s)
  BY TurnInvParts
<1>1. ASSUME NEW r \in Runs, Cancel(r) PROVE FALSE
  <2>1. canceler[r] = "off"
    BY TurnInvParts DEF Fits
  <2> QED
    BY <1>1, <2>1 DEF Cancel, CancelRead, CancelRemove, CancelWriteQueued, CancelSettled,
                      CancelKeySet, CancelWriteRunning, Undisturbed
<1>2. CASE Disable \/ Expire
  BY <1>2 DEF TurnInv, Undisturbed, Disable, DisableFind, DisableRelease, DisableUpdate, Expire
<1> USE DEF Fits, Unpublished, KeepsLock, CallFits, WorkerFits, SyncerFits, Unfinished, Returned
<1>s. ASSUME NEW S, StopSubmissions(S)
      PROVE  submit'[s] \in {"new", "decide", "create", "release"} => submit'[s] = submit[s]
  BY <1>s DEF StopSubmissions
<1>3. CASE WorkerCrash
  <2>1. \A a \in Actor : call'[a][s] = Idle
    <3>1. \A a \in Actor : call'[a] = IF a = "canceler" THEN call[a] ELSE [r \in Runs |-> Idle]
      BY <1>3 DEF WorkerCrash
    <3> QED
      BY <1>0, <3>1
  <2>2. call'["worker"][s] = Idle /\ \A d \in Delivery : worker'[d][s] = "off"
    BY <1>3, Actors DEF WorkerCrash
  <2>3. submit'[s] \in {"new", "decide", "create", "release"} => submit'[s] = submit[s]
    BY <1>3, <1>s DEF WorkerCrash
  <2>4. s \notin syncer => syncJobs'[s] = syncJobs[s]
    BY <1>3 DEF WorkerCrash
  <2> QED
    BY <1>0, <1>3, <2>1, <2>2, <2>3, <2>4, Actors DEF WorkerCrash, Idle, Terminal, TypeOK
<1>4. CASE ApiCrash
  <2>1. \A a \in Actor : call'[a][s] = call[a][s]
    BY <1>0, <1>4, Actors DEF ApiCrash, TypeOK
  <2>2. submit'[s] \in {"new", "decide", "create", "release"} => submit'[s] = submit[s]
    BY <1>4, <1>s DEF ApiCrash
  <2> QED
    BY <1>0, <1>4, <2>1, <2>2, Actors DEF ApiCrash
<1>5. CASE UNCHANGED vars
  BY <1>0, <1>5 DEF vars
<1>6. ASSUME NEW r \in Runs, Stall(r) PROVE FALSE
  BY <1>6 DEF Stall, Undisturbed
<1> QED
  BY <1>1, <1>2, <1>3, <1>4, <1>5, <1>6

LEMMA NextTurn ==
  ASSUME TypeOK, TurnInv, Undisturbed, [Next]_vars
  PROVE  TurnInv'
<1>1. TokenNamesRun'
  BY NextTokens, TurnInvParts
<1>2. (disabler.at = "off")'
  <2>1. disabler.at = "off"
    BY DEF TurnInv
  <2>2. ~ Disable
    BY <2>1 DEF Undisturbed, Disable, DisableFind, DisableRelease, DisableUpdate
  <2>3. ASSUME NEW r \in Runs, Submission(r) PROVE UNCHANGED disabler
    BY <2>3 DEF Submission, SubmitApi, Acquire, Decide, CreateRun, MarkRunQueued, EnqueueRun,
                Accept, SubmitThrows, ReleaseUnretained
  <2>4. ASSUME NEW a \in Actor, NEW r \in Runs, Transition(a, r) PROVE UNCHANGED disabler
    BY <2>4 DEF Transition, TransitionRead, TransitionWrite, CallThrows, SettleFind,
                SettleRelease, SettleUpdate
  <2>5. ASSUME NEW d \in Delivery, NEW r \in Runs, Processor(d, r) PROVE UNCHANGED disabler
    BY <2>5 DEF Processor, TakeJob, Prepare, Executed, CheckLatest, HandOver, Finished,
                ProcessThrows, Catch, GaveUp
  <2>6. ASSUME NEW r \in Runs, Syncing(r) \/ RetrySync(r) \/ Cancel(r) PROVE UNCHANGED disabler
    BY <2>6 DEF Syncing, TakeSyncJob, Synced, RetrySync, Cancel, CancelRead, CancelRemove,
                CancelWriteQueued, CancelSettled, CancelKeySet, CancelWriteRunning
  <2>7. CASE Expire \/ WorkerCrash \/ UNCHANGED vars
    BY <2>1, <2>7 DEF Expire, WorkerCrash, vars
  <2>8. CASE ApiCrash
    BY <2>8 DEF ApiCrash
  <2>9. ASSUME NEW r \in Runs, Stall(r) PROVE UNCHANGED disabler
    BY <2>9 DEF Stall
  <2> QED
    BY <2>1, <2>2, <2>3, <2>4, <2>5, <2>6, <2>7, <2>8, <2>9 DEF Next
<1>3. ASSUME NEW s \in Runs PROVE Fits(s)'
  BY SubmissionTurn, TransitionTurn, ProcessorTurn, SyncingTurn, OthersTurn DEF Next
<1> QED
  BY <1>1, <1>2, <1>3, TurnInvParts DEF TurnInv, Fits

LEMMA InitTurn == Init => TurnInv
BY Actors DEF Init, TurnInv, TokenNamesRun, Unpublished, KeepsLock, CallFits, WorkerFits,
              SyncerFits, Unfinished, Returned, Idle, Terminal

LEMMA TurnInvHolds == ASSUME Undisturbed PROVE Spec => [](TypeOK /\ TurnInv)
<1>1. TypeOK /\ TurnInv /\ [Next]_vars => TurnInv'
  BY NextTurn
<1> QED
  BY <1>1, InitTurn, TypeCorrect, PTL DEF Spec

\* Two runs that went through the group lock are never unfinished together, however
\* many processes crash and however many of their calls fail on the way.
THEOREM RunsAreExclusive == ASSUME Undisturbed PROVE Spec => []ExclusiveRun
<1>1. TypeOK /\ TurnInv => ExclusiveRun
  BY DEF TurnInv, KeepsLock, ExclusiveRun, Grouped
<1> QED
  BY <1>1, TurnInvHolds, PTL

-----------------------------------------------------------------------------
(* The refinement of ChatTurn                                              *)

Turns == [r \in Runs |-> TurnOf(r)]

LEMMA TurnsStutter ==
  ASSUME NEW r \in Runs, path' = path,
         \A s \in Runs : s # r => status'[s] = status[s],
         TurnOf(r)' = TurnOf(r)
  PROVE  UNCHANGED Turns
BY DEF Turns, TurnOf, Unfinished

\* Nobody but CreateRun and a transition's write changes a run's status.
LEMMA StatusSteps ==
  ASSUME TypeOK, TurnInv, Undisturbed, [Next]_vars
  PROVE  \/ UNCHANGED <<status, path>>
         \/ \E r \in Runs : CreateRun(r)
         \/ \E r \in Runs, a \in Actor : TransitionWrite(a, r)
<1>1. ASSUME NEW r \in Runs, Submission(r) PROVE CreateRun(r) \/ UNCHANGED <<status, path>>
  BY <1>1 DEF Submission, SubmitApi, Acquire, Decide, MarkRunQueued, EnqueueRun, Accept,
              SubmitThrows, ReleaseUnretained
<1>2. ASSUME NEW a \in Actor, NEW r \in Runs, Transition(a, r)
      PROVE  TransitionWrite(a, r) \/ UNCHANGED <<status, path>>
  BY <1>2 DEF Transition, TransitionRead, CallThrows, SettleFind, SettleRelease, SettleUpdate
<1>3. ASSUME NEW d \in Delivery, NEW r \in Runs, Processor(d, r) PROVE UNCHANGED <<status, path>>
  BY <1>3 DEF Processor, TakeJob, Prepare, Executed, CheckLatest, HandOver, Finished,
              ProcessThrows, Catch, GaveUp
<1>4. ASSUME NEW r \in Runs, Syncing(r) \/ RetrySync(r) PROVE UNCHANGED <<status, path>>
  BY <1>4 DEF Syncing, TakeSyncJob, Synced, RetrySync
<1>5. ASSUME NEW r \in Runs, Cancel(r) PROVE FALSE
  <2>1. canceler[r] = "off"
    BY TurnInvParts DEF Fits
  <2> QED
    BY <1>5, <2>1 DEF Cancel, CancelRead, CancelRemove, CancelWriteQueued, CancelSettled,
                      CancelKeySet, CancelWriteRunning, Undisturbed
<1>6. CASE Disable \/ Expire \/ WorkerCrash \/ ApiCrash \/ UNCHANGED vars
  BY <1>6 DEF Disable, DisableFind, DisableRelease, DisableUpdate, Expire, WorkerCrash,
              ApiCrash, vars
<1>7. ASSUME NEW r \in Runs, Stall(r) PROVE FALSE
  BY <1>7 DEF Stall, Undisturbed
<1> QED
  BY <1>1, <1>2, <1>3, <1>4, <1>5, <1>6, <1>7 DEF Next

LEMMA CreateTakes ==
  ASSUME TypeOK, TurnInv, NEW r \in Runs, CreateRun(r)
  PROVE  [Turn!Next]_Turns
<1>1. status[r] = "absent" /\ \A s \in Runs : s # r => status'[s] = status[s]
  BY TurnInvParts DEF CreateRun, Fits, Unpublished, TypeOK
<1>2. status'[r] = "queued" /\ path' = path
  BY DEF CreateRun, TypeOK
<1>3. CASE path[r] = "api"
  BY <1>1, <1>2, <1>3, TurnsStutter DEF TurnOf
<1>4. CASE path[r] # "api"
  <2>1. \A s \in Runs : TurnOf(s) # "taken"
    <3>1. lock = r
      BY <1>4, TurnInvParts DEF Fits, KeepsLock, CreateRun
    <3>2. ASSUME NEW s \in Runs, TurnOf(s) = "taken" PROVE FALSE
      <4>1. path[s] # "api" /\ Unfinished(s)
        BY <3>2 DEF TurnOf
      <4>2. lock = s
        BY <4>1, TurnInvParts DEF Fits, KeepsLock
      <4> QED
        BY <1>1, <3>1, <4>1, <4>2 DEF Unfinished
    <3> QED
      BY <3>2
  <2>2. Turns[r] = "waiting" /\ TurnOf(r)' = "taken"
    BY <1>1, <1>2, <1>4 DEF Turns, TurnOf, Unfinished
  <2>3. \A s \in Runs : s # r => TurnOf(s)' = TurnOf(s)
    BY <1>1, <1>2 DEF TurnOf, Unfinished
  <2>4. Turns' = [Turns EXCEPT ![r] = "taken"]
    BY <2>2, <2>3 DEF Turns
  <2>5. Turn!Take(r)
    BY <2>1, <2>2, <2>4 DEF Turn!Take, Turns
  <2> QED
    BY <2>5 DEF Turn!Next
<1> QED
  BY <1>3, <1>4

LEMMA WriteLeaves ==
  ASSUME TypeOK, TurnInv, NEW r \in Runs, NEW a \in Actor, TransitionWrite(a, r)
  PROVE  [Turn!Next]_Turns
<1>1. status'[r] = call[a][r].to /\ path' = path /\ \A s \in Runs : s # r => status'[s] = status[s]
  BY DEF TransitionWrite, TypeOK
<1>2. status[r] # "absent"
  BY TurnInvParts DEF TransitionWrite, Fits, Unpublished, Idle
<1>3. /\ call[a][r].to \in {"running", "syncing"} \cup Terminal
      /\ call[a][r].to = "running" => status[r] = "queued"
      /\ call[a][r].to = "syncing" => status[r] = "running"
  BY TurnInvParts DEF TransitionWrite, Fits, CallFits
<1>4. CASE TurnOf(r)' = TurnOf(r)
  BY <1>1, <1>4, TurnsStutter
<1>5. CASE TurnOf(r)' # TurnOf(r)
  <2>1. Turns[r] = "taken" /\ TurnOf(r)' = "over"
    BY <1>1, <1>2, <1>3, <1>5 DEF Turns, TurnOf, Unfinished, Terminal
  <2>2. \A s \in Runs : s # r => TurnOf(s)' = TurnOf(s)
    BY <1>1 DEF TurnOf, Unfinished
  <2>3. Turns' = [Turns EXCEPT ![r] = "over"]
    BY <2>1, <2>2 DEF Turns
  <2>4. Turn!Leave(r)
    BY <2>1, <2>3 DEF Turn!Leave, Turns
  <2> QED
    BY <2>4 DEF Turn!Next
<1> QED
  BY <1>4, <1>5

\* The runs of a chat take turns, as ChatTurn has it: the group lock, the session
\* row and the status column together implement it in spite of crashes and failing
\* calls.
THEOREM RunsTakeTurns == ASSUME Undisturbed PROVE Spec => TakesTurns
<1>1. Init => Turn!Init
  BY DEF Init, Turn!Init, TurnOf
<1>2. TypeOK /\ TurnInv /\ [Next]_vars => [Turn!Next]_Turns
  <2> SUFFICES ASSUME TypeOK, TurnInv, [Next]_vars PROVE [Turn!Next]_Turns
    OBVIOUS
  <2>1. CASE UNCHANGED <<status, path>>
    BY <2>1 DEF Turns, TurnOf, Unfinished
  <2> QED
    BY <2>1, StatusSteps, CreateTakes, WriteLeaves
<1> QED
  BY <1>1, <1>2, TurnInvHolds, PTL DEF Spec, TakesTurns, Turn!Spec, Turns

-----------------------------------------------------------------------------
(* A submission keeps the chat until it has published its run.  Only the    *)
(* lock's expiry and an unbinding may take it away.                         *)

\* A run is neither in the session nor found by a call before it is marked.
Unmarked(r) ==
  submit[r] \in {"new", "decide", "create", "mark"} =>
    session.run # r /\ \A a \in Actor : call[a][r].at \notin {"release", "update"}

ReleasesFit(r) == \A a \in Actor : call[a][r].at = "release" => call[a][r].to \in Terminal

Marks(r) == Unmarked(r) /\ ReleasesFit(r)

\* Neither the lock's expiry nor an unbinding takes the lock from its holder.
Unforced == Faults \cap {"expire", "disable"} = {}

MarkInv == disabler.at = "off" /\ \A r \in Runs : Marks(r)

LEMMA SubmissionMarks ==
  ASSUME TypeOK, MarkInv, NEW r \in Runs, Submission(r), NEW s \in Runs
  PROVE  Marks(s)'
<1>0. Marks(s) /\ Marks(r)
  BY DEF MarkInv
<1>1. UNCHANGED call
  BY DEF Submission, SubmitApi, Acquire, Decide, CreateRun, MarkRunQueued, EnqueueRun,
         Accept, SubmitThrows, ReleaseUnretained
<1>2. CASE MarkRunQueued(r)
  BY <1>0, <1>1, <1>2 DEF MarkRunQueued, Marks, Unmarked, ReleasesFit, TypeOK, Goto
<1>3. CASE ~MarkRunQueued(r)
  <2>1. session' = session
    BY <1>3 DEF Submission, SubmitApi, Acquire, Decide, CreateRun, EnqueueRun,
                Accept, SubmitThrows, ReleaseUnretained
  <2>2. submit'[s] \in {"new", "decide", "create", "mark"}
          => submit[s] \in {"new", "decide", "create", "mark"}
    BY <1>3 DEF Submission, SubmitApi, Acquire, Decide, CreateRun, EnqueueRun,
                Accept, SubmitThrows, ReleaseUnretained, Goto, TypeOK
  <2>. QED  BY <1>0, <1>1, <2>1, <2>2 DEF Marks, Unmarked, ReleasesFit
<1>. QED  BY <1>2, <1>3

LEMMA TransitionMarks ==
  ASSUME TypeOK, MarkInv, NEW a \in Actor, NEW r \in Runs, Transition(a, r), NEW s \in Runs
  PROVE  Marks(s)'
<1>0. Marks(s) /\ Marks(r)
  BY DEF MarkInv
<1> USE DEF Marks, Unmarked, ReleasesFit
<1>1. CASE TransitionRead(a, r)
  BY <1>0, <1>1, AwaitsEffect DEF TransitionRead
<1>2. CASE TransitionWrite(a, r)
  BY <1>0, <1>2, AwaitsEffect DEF TransitionWrite
<1>3. CASE CallThrows(a, r)
  BY <1>0, <1>3, OtherCalls DEF CallThrows, Idle
<1>4. CASE SettleFind(a, r)
  BY <1>0, <1>4, OtherCalls, ForgetEffect DEF SettleFind, Idle
<1>5. CASE SettleRelease(a, r)
  BY <1>0, <1>5, AwaitsEffect DEF SettleRelease
<1>6. CASE SettleUpdate(a, r)
  <2>1. session'.run \in {None, session.run}
    BY <1>6 DEF SettleUpdate, TypeOK, Session
  <2>. QED  BY <1>0, <1>6, <2>1, RunsAssumption, ForgetEffect DEF SettleUpdate, Idle
<1>. QED  BY <1>1, <1>2, <1>3, <1>4, <1>5, <1>6 DEF Transition

\* A step that makes a call of its own, or ends one.
LEMMA FreshCallsMarks ==
  ASSUME TypeOK, MarkInv, NEW a \in Actor, NEW r \in Runs, UNCHANGED <<session, submit>>,
         \/ \E at \in {"read", "find"}, to \in RunStatus : Calls(a, r, at, to)
         \/ Forget(a, r)
         \/ UNCHANGED call,
         NEW s \in Runs
  PROVE  Marks(s)'
<1>0. Marks(s)
  BY DEF MarkInv
<1> USE DEF Marks, Unmarked, ReleasesFit
<1>1. ASSUME NEW at \in {"read", "find"}, NEW to \in RunStatus, Calls(a, r, at, to)
      PROVE  Marks(s)'
  <2>1. call'[a][r].at = at
    BY <1>1, CallsEffect
  <2>2. \A b \in Actor, t \in Runs : b # a \/ t # r => call'[b][t] = call[b][t]
    BY <1>1, CallsEffect
  <2>. QED  BY <1>0, <2>1, <2>2
<1>2. CASE Forget(a, r)
  BY <1>0, <1>2, ForgetEffect DEF Idle
<1>3. CASE UNCHANGED call
  BY <1>0, <1>3
<1>. QED  BY <1>1, <1>2, <1>3

\* While nobody is unbinding the group and the lock does not expire, neither
\* happens in the next step.
LEMMA StaysUnforced ==
  ASSUME Unforced, disabler.at = "off", [Next]_vars
  PROVE  ~Disable /\ ~Expire /\ disabler'.at = "off"
<1>1. ~Disable /\ ~Expire
  BY DEF Unforced, Disable, DisableFind, DisableRelease, DisableUpdate, Expire
<1>2. CASE WorkerCrash \/ ApiCrash \/ UNCHANGED vars
  BY <1>1, <1>2 DEF WorkerCrash, ApiCrash, vars
<1>3. ASSUME NEW r \in Runs, Stall(r) PROVE disabler' = disabler
  BY <1>3 DEF Stall
<1>. QED
  BY <1>1, <1>2, <1>3, SubmissionLeaves, TransitionLeaves, ProcessorLeaves, SyncingLeaves,
     CancelLeaves DEF Next

LEMMA NextMarks ==
  ASSUME TypeOK, MarkInv, Unforced, [Next]_vars
  PROVE  MarkInv'
<1>1. ~Disable /\ ~Expire /\ disabler'.at = "off"
  BY StaysUnforced DEF MarkInv
<1>2. ASSUME NEW s \in Runs
      PROVE  Marks(s)'
  <2>1. CASE WorkerCrash \/ ApiCrash
    <3>1. Marks(s)
      BY DEF MarkInv
    <3>. QED  BY <2>1, <3>1, CrashLeaves DEF Marks, Unmarked, ReleasesFit, Idle
  <2>2. CASE UNCHANGED vars
    BY <2>2 DEF vars, MarkInv, Marks, Unmarked, ReleasesFit
  <2>3. ASSUME NEW d \in Delivery, NEW r \in Runs, Processor(d, r) PROVE Marks(s)'
    BY <2>3, ProcessorLeaves, FreshCallsMarks, Actors
  <2>4. ASSUME NEW r \in Runs, Syncing(r) \/ RetrySync(r) PROVE Marks(s)'
    BY <2>4, SyncingLeaves, FreshCallsMarks, Actors
  <2>5. ASSUME NEW r \in Runs, Cancel(r) PROVE Marks(s)'
    BY <2>5, CancelLeaves, FreshCallsMarks, Actors
  <2>6. ASSUME NEW r \in Runs, Stall(r) PROVE Marks(s)'
    <3>1. Marks(s)
      BY DEF MarkInv
    <3>2. \A a \in Actor : call'[a][s] = Idle \/ \E b \in Actor : call'[a][s] = call[b][s]
      BY <2>6, StallEffect, Actors
    <3>. QED  BY <2>6, <3>1, <3>2, StallEffect DEF Marks, Unmarked, ReleasesFit, Idle
  <2>. QED
    BY <1>1, <2>1, <2>2, <2>3, <2>4, <2>5, <2>6, SubmissionMarks, TransitionMarks DEF Next
<1>. QED  BY <1>1, <1>2 DEF MarkInv

Unpublishing(r) == submit[r] \in {"decide", "create", "mark"}

LEMMA NextKeepsChat ==
  ASSUME TypeOK, TokenNamesRun, MarkInv, Unforced, [Next]_vars, NEW r \in Runs,
         lock = r, Unpublishing(r)
  PROVE  lock' = r \/ submit'[r] = "failed"
<1>0. lock # None /\ Unmarked(r)
  BY RunsAssumption DEF MarkInv, Marks
<1>1. ASSUME NEW s \in Runs, Submission(s) PROVE lock' = r
  BY <1>0, <1>1, RunsAssumption
     DEF Submission, SubmitApi, Acquire, Decide, CreateRun, MarkRunQueued, EnqueueRun, Accept,
         SubmitThrows, ReleaseUnretained, ReleaseLock, Unpublishing
<1>2. ASSUME NEW a \in Actor, NEW s \in Runs, Transition(a, s) PROVE lock' = r
  <2>1. CASE SettleRelease(a, s)
    <3>1. call[a][s].token = s /\ s # r
      BY <1>0, <2>1 DEF SettleRelease, MarkInv, Marks, ReleasesFit, TokenNamesRun, Unmarked,
                        Unpublishing
    <3>. QED  BY <2>1, <3>1, RunsAssumption DEF SettleRelease, ReleaseLock
  <2>2. CASE ~SettleRelease(a, s)
    BY <1>2, <2>2 DEF Transition, TransitionRead, TransitionWrite, CallThrows, SettleFind,
                      SettleUpdate
  <2>. QED  BY <2>1, <2>2
<1>3. CASE WorkerCrash \/ ApiCrash \/ UNCHANGED vars
  BY <1>3 DEF WorkerCrash, ApiCrash, vars
<1>4. ~Disable /\ ~Expire
  BY StaysUnforced DEF MarkInv
<1>5. ASSUME NEW s \in Runs, Stall(s) PROVE lock' = lock
  BY <1>5 DEF Stall
<1>. QED
  BY <1>1, <1>2, <1>3, <1>4, <1>5, ProcessorLeaves, SyncingLeaves, CancelLeaves DEF Next

\* Nobody frees the lock under a submission that has not yet published its run,
\* however many runs are being settled, canceled or redelivered meanwhile and
\* whatever crashes, unless the lock expires or the group is unbound.
\* (group-agent-session.service.ts:190-211)
THEOREM SubmissionsKeepTheChat == ASSUME Unforced PROVE Spec => SubmissionKeepsChat
<1>1. Init => MarkInv
  BY RunsAssumption DEF Init, MarkInv, Marks, Unmarked, ReleasesFit, Idle
<1>2. TypeOK /\ MarkInv /\ [Next]_vars => MarkInv'
  BY NextMarks
<1>3. TypeOK /\ TokenNamesRun /\ MarkInv /\ [Next]_vars
        => [\A r \in Runs : lock = r /\ submit[r] \in {"decide", "create", "mark"}
              => lock' = r \/ submit'[r] = "failed"]_vars
  BY NextKeepsChat DEF Unpublishing
<1>. QED  BY <1>1, <1>2, <1>3, TypeCorrect, TokenCoherence, PTL DEF Spec, SubmissionKeepsChat

-----------------------------------------------------------------------------
(* A run keeps its chat while it is executed.  Besides the lock's expiry   *)
(* and an unbinding, a submission that fails after its job was added could *)
(* take it away: its finally block releases the lock.                      *)

Unfailing == Faults \cap {"expire", "disable", "submitError"} = {}

\* Nobody knows a run before its row exists.
Unknown(r) ==
  /\ submit[r] \in {"new", "decide", "create", "release"} => status[r] = "absent"
  /\ status[r] = "absent" => /\ \A a \in Actor : call[a][r] = Idle
                             /\ \A d \in Delivery : worker[d][r] = "off"
                             /\ canceler[r] = "off" /\ syncJobs[r] = 0 /\ r \notin syncer

Working(d, r) == worker[d][r] \in {"start", "execute"}

\* A run keeps the lock until it has been executed, unless a cancel request took
\* it for still queued or its job was given away as such.
HoldsLock(r) ==
  /\ path[r] # "api" /\ r \notin early \cup overtaken
  /\ \/ submit[r] \in {"decide", "create", "release"} \/ status[r] = "queued"
     \/ \E d \in Delivery : Working(d, r)
  => lock = r

\* What a call asks for, and what a processor is at while it makes one.
CallAsks(a, r) ==
  /\ call[a][r].at \in {"read", "write", "find", "release", "update"} =>
       call[a][r].to \in {"running", "syncing"} \cup Terminal
  /\ call[a][r].at = "release" => call[a][r].to \in Terminal

ProcessorAsks(d, r) ==
  /\ worker[d][r] \in {"off", "execute", "succeeded", "canceled", "catch"} => Returned(d, r)
  /\ worker[d][r] = "start" => call[d][r].to \in {"running", "absent"}
  /\ worker[d][r] = "handover" => call[d][r].to \in {"syncing", "absent"}
  /\ worker[d][r] \in {"finish", "giveUp"} => call[d][r].to \in Terminal \cup {"absent"}

CallsAsk(r) ==
  /\ \A a \in Actor : CallAsks(a, r)
  /\ \A d \in Delivery : ProcessorAsks(d, r)
  /\ call["syncer"][r].to \in {"succeeded", "failed", "absent"}
  /\ call["syncer"][r].to = "failed" => r \in outputs
  /\ call["canceler"][r].at \notin {"read", "write"}
  /\ call["canceler"][r].at # "idle" => r \in early

\* r has been executed, or never will be.
Past(r) == status[r] \notin {"absent", "queued"} /\ \A d \in Delivery : ~Working(d, r)

PastWhen(r) ==
  /\ r \notin overtaken =>
       /\ r \in outputs \/ status[r] \in {"syncing", "succeeded"} => Past(r)
       /\ call["syncer"][r].at \in {"write", "find", "release", "update"} => Past(r)
  /\ \A d \in Delivery : call[d][r].at \in {"find", "release", "update"} => status[r] # "queued"

Holds(r) == Unknown(r) /\ HoldsLock(r) /\ CallsAsk(r) /\ PastWhen(r)

HoldInv == TokenNamesRun /\ OnceInv /\ disabler.at = "off" /\ \A r \in Runs : Holds(r)

\* Only one delivery is working, unless the job was given away as still queued.
LEMMA OneDelivery ==
  ASSUME HoldInv, NEW r \in Runs, r \notin overtaken
  PROVE  /\ worker["stalled"][r] = "off" \/ worker["worker"][r] = "off"
         /\ \A d, e \in Delivery : Working(d, r) /\ e # d => worker[e][r] = "off"
         /\ worker["stalled"][r] # "off" => status[r] # "queued"
BY Actors DEF HoldInv, OnceInv, NotYetExecuted, Working

LEMMA SubmissionHolds ==
  ASSUME TypeOK, HoldInv, Unfailing, NEW r \in Runs, Submission(r), NEW s \in Runs
  PROVE  Holds(s)'
<1>0. Holds(s) /\ Holds(r)
  BY DEF HoldInv
<1> USE DEF Holds, Unknown, HoldsLock, CallsAsk, CallAsks, ProcessorAsks, PastWhen, Past, Working,
            Returned, TypeOK, Goto
<1>1. CASE SubmitApi(r)
  BY <1>0, <1>1 DEF SubmitApi
<1>2. CASE Acquire(r)
  BY <1>0, <1>2, RunsAssumption DEF Acquire
<1>3. CASE Decide(r)
  BY <1>0, <1>3 DEF Decide
<1>4. CASE CreateRun(r)
  BY <1>0, <1>4, Actors DEF CreateRun, Idle
<1>5. CASE MarkRunQueued(r)
  BY <1>0, <1>5 DEF MarkRunQueued
<1>6. CASE EnqueueRun(r)
  BY <1>0, <1>6 DEF EnqueueRun
<1>7. CASE Accept(r)
  BY <1>0, <1>7 DEF Accept
<1>8. CASE SubmitThrows(r)
  BY <1>8 DEF SubmitThrows, Unfailing
<1>9. CASE ReleaseUnretained(r)
  BY <1>0, <1>9, RunsAssumption DEF ReleaseUnretained, ReleaseLock
<1>. QED  BY <1>1, <1>2, <1>3, <1>4, <1>5, <1>6, <1>7, <1>8, <1>9 DEF Submission

\* A call that only goes on, ends or throws.
LEMMA CallHolds ==
  ASSUME TypeOK, HoldInv, NEW a \in Actor, NEW r \in Runs, NEW s \in Runs,
         call[a][r].at # "idle",
         UNCHANGED <<status, outputs, submit, path, worker, syncJobs, syncer, canceler, early,
                     overtaken>>,
         \A b \in Actor, t \in Runs : b # a \/ t # r => call'[b][t] = call[b][t],
         \/ call'[a][r].to = call[a][r].to
         \/ call'[a][r].to = "absent" /\ call'[a][r].at \in {"idle", "threw"},
         call'[a][r].at = "release" => call[a][r].to \in Terminal,
         a = "canceler" => call'[a][r].at \notin {"read", "write"},
         call[a][r].at \in {"threw"} => call'[a][r].at \in {"threw", "idle"},
         call'[a][r].at # "read",
         a = "syncer" /\ call'[a][r].at \in {"write", "find", "release", "update"}
           => r \in overtaken \/ Past(r),
         a \in Delivery /\ call'[a][r].at \in {"find", "release", "update"}
           => status[r] # "queued",
         HoldsLock(s)'
  PROVE  Holds(s)'
<1>0. Holds(s) /\ Holds(r)
  BY DEF HoldInv
<1>1. Unknown(s)'
  BY <1>0 DEF Holds, Unknown, Idle
<1>2. CallsAsk(s)'
  <2>1. CASE s # r
    <3>1. \A b \in Actor : call'[b][s] = call[b][s]
      BY <2>1
    <3>. QED  BY <1>0, <3>1, Actors DEF Holds, CallsAsk, CallAsks, ProcessorAsks, Returned
  <2>2. CASE s = r
    <3>1. ASSUME NEW b \in Actor PROVE CallAsks(b, r)'
      <4>1. call'[a][r].at \in {"read", "write", "find", "release", "update"} =>
              call[a][r].at \in {"read", "write", "find", "release", "update"}
                /\ call'[a][r].to = call[a][r].to
        BY DEF TypeOK, Call
      <4>. QED  BY <1>0, <4>1 DEF Holds, CallsAsk, CallAsks
    <3>2. ASSUME NEW d \in Delivery PROVE ProcessorAsks(d, r)'
      <4>1. CASE d # a
        BY <1>0, <4>1, Actors DEF Holds, CallsAsk, ProcessorAsks, Returned
      <4>2. CASE d = a
        <5>1. worker[d][r] \notin {"off", "execute", "succeeded", "canceled", "catch"}
          BY <1>0, <4>2 DEF Holds, CallsAsk, ProcessorAsks, Returned
        <5>2. call'[d][r].to \in {call[d][r].to, "absent"}
          BY <4>2
        <5>. QED  BY <1>0, <5>1, <5>2 DEF Holds, CallsAsk, ProcessorAsks
      <4>. QED  BY <4>1, <4>2
    <3>3. /\ call'["syncer"][r].to \in {call["syncer"][r].to, "absent"}
          /\ call["canceler"][r].at = "idle" => call'["canceler"][r].at = "idle"
          /\ call'["canceler"][r].at \notin {"read", "write"}
      BY <1>0, Actors DEF Holds, CallsAsk
    <3>. QED  BY <1>0, <2>2, <3>1, <3>2, <3>3 DEF Holds, CallsAsk
  <2>. QED  BY <2>1, <2>2
<1>3. PastWhen(s)'
  BY <1>0, Actors DEF Holds, PastWhen, Past, Working
<1>. QED  BY <1>1, <1>2, <1>3 DEF Holds

\* The row takes the status that was asked for, whatever it has become since.
LEMMA WriteHolds ==
  ASSUME TypeOK, HoldInv, NEW a \in Actor, NEW r \in Runs, TransitionWrite(a, r), NEW s \in Runs
  PROVE  Holds(s)'
<1>0. Holds(s) /\ Holds(r)
  BY DEF HoldInv
<1>1. call[a][r].at = "write" /\ status'[r] = call[a][r].to
  BY DEF TransitionWrite, TypeOK
<1>2. \A t \in Runs : t # r => status'[t] = status[t]
  BY DEF TransitionWrite, TypeOK
<1>3. UNCHANGED <<lock, submit, path, worker, syncJobs, syncer, canceler, early, overtaken>>
  BY DEF TransitionWrite
<1>4. outputs' = IF call[a][r].to = "syncing" THEN outputs \cup {r} ELSE outputs
  BY DEF TransitionWrite
<1>5. /\ call'[a][r].at = "find" /\ call'[a][r].to = call[a][r].to
      /\ \A b \in Actor, t \in Runs : b # a \/ t # r => call'[b][t] = call[b][t]
  BY AwaitsEffect DEF TransitionWrite
<1>6. CASE s # r
  <2>1. \A b \in Actor : call'[b][s] = call[b][s]
    BY <1>5, <1>6
  <2>. QED
    BY <1>0, <1>2, <1>3, <1>4, <1>6, <2>1, Actors
       DEF Holds, Unknown, HoldsLock, CallsAsk, CallAsks, ProcessorAsks, PastWhen, Past, Working,
           Returned
<1>7. CASE s = r
  <2>1. status[r] # "absent" /\ a # "canceler"
    BY <1>0, <1>1 DEF Holds, Unknown, CallsAsk, CallAsks, ProcessorAsks, Idle
  <2>2. call[a][r].to \in {"running", "syncing"} \cup Terminal
    BY <1>0, <1>1 DEF Holds, CallsAsk, CallAsks, ProcessorAsks
  <2>3. status'[r] \notin {"absent", "queued"}
    BY <1>1, <2>2 DEF Terminal
  <2>4. Unknown(r)'
    BY <1>0, <1>3, <2>1, <2>3 DEF Holds, Unknown
  <2>5. HoldsLock(r)'
    BY <1>0, <1>3, <2>3 DEF Holds, HoldsLock, Working
  <2>6. CallsAsk(r)'
    <3>1. \A b \in Actor : call'[b][r].to = call[b][r].to
      BY <1>5
    <3>2. \A b \in Actor : b # a => call'[b][r] = call[b][r]
      BY <1>5
    <3>3. \A d \in Delivery : d = a =>
            worker[d][r] \notin {"off", "execute", "succeeded", "canceled", "catch"}
      BY <1>0, <1>1 DEF Holds, CallsAsk, CallAsks, ProcessorAsks, Returned
    <3>4. call["syncer"][r].to = "failed" => r \in outputs'
      BY <1>0, <1>4 DEF Holds, CallsAsk, CallAsks, ProcessorAsks
    <3>. QED
      BY <1>0, <1>1, <1>3, <1>5, <2>1, <3>1, <3>2, <3>3, <3>4, Actors
         DEF Holds, CallsAsk, CallAsks, ProcessorAsks, Returned
  <2>7. PastWhen(r)'
    <3> SUFFICES ASSUME r \notin overtaken
                 PROVE  /\ r \in outputs' \/ status'[r] \in {"syncing", "succeeded"} => Past(r)'
                        /\ call'["syncer"][r].at \in {"write", "find", "release", "update"}
                             => Past(r)'
      BY <1>3, <2>3 DEF PastWhen
    <3>1. a = "syncer" => Past(r)
      BY <1>0, <1>1 DEF Holds, PastWhen
    <3>2. a \in Delivery /\ Working(a, r) => call[a][r].to = "running"
      BY <1>0, <1>1, <2>2 DEF Holds, CallsAsk, CallAsks, ProcessorAsks, Returned, Working,
                              Terminal
    <3>3. Past(r) => Past(r)'
      BY <1>3, <2>3 DEF Past, Working
    <3>4. call[a][r].to # "running" => Past(r)'
      <4>1. CASE a = "syncer"
        BY <3>1, <3>3, <4>1
      <4>2. CASE a \in Delivery
        <5>1. worker[a][r] # "off"
          BY <1>0, <1>1, <4>2 DEF Holds, CallsAsk, CallAsks, ProcessorAsks, Returned
        <5>2. \A e \in Delivery : e # a => worker[e][r] = "off"
          BY <4>2, <5>1, OneDelivery, Actors
        <5>. QED  BY <1>3, <2>3, <3>2, <4>2, <5>2 DEF Past, Working
      <4>. QED  BY <2>1, <4>1, <4>2, Actors
    <3>5. r \in outputs' \/ status'[r] \in {"syncing", "succeeded"} => Past(r)'
      BY <1>0, <1>1, <1>4, <3>3, <3>4 DEF Holds, PastWhen
    <3>6. call'["syncer"][r].at \in {"write", "find", "release", "update"} => Past(r)'
      BY <1>0, <1>5, <3>1, <3>3, Actors DEF Holds, PastWhen
    <3>. QED  BY <3>5, <3>6
  <2>. QED  BY <1>7, <2>4, <2>5, <2>6, <2>7 DEF Holds
<1>. QED  BY <1>6, <1>7

LEMMA TransitionHolds ==
  ASSUME TypeOK, HoldInv, NEW a \in Actor, NEW r \in Runs, Transition(a, r), NEW s \in Runs
  PROVE  Holds(s)'
<1>0. Holds(s) /\ Holds(r)
  BY DEF HoldInv
<1>1. CASE TransitionRead(a, r)
  <2>1. /\ call'[a][r].at = IF Allowed(RunNext, status[r], call[a][r].to) THEN "write" ELSE "threw"
        /\ call'[a][r].to = call[a][r].to
        /\ \A b \in Actor, t \in Runs : b # a \/ t # r => call'[b][t] = call[b][t]
    BY <1>1, AwaitsEffect DEF TransitionRead
  <2>2. a = "syncer" /\ call'[a][r].at = "write" => r \in overtaken \/ Past(r)
    <3>1. CASE call[a][r].to = "failed"
      BY <1>0, <3>1 DEF Holds, CallsAsk, CallAsks, ProcessorAsks, PastWhen
    <3>2. CASE call[a][r].to = "succeeded"
      <4>1. status[r] \in RunStatus
        BY <1>0, <1>1 DEF TransitionRead, Holds, Unknown, Idle, TypeOK, Status
      <4>2. Allowed(RunNext, status[r], "succeeded") => status[r] \in {"syncing", "succeeded"}
        BY <4>1 DEF Allowed, RunNext, RunStatus
      <4>. QED  BY <1>0, <2>1, <3>2, <4>2 DEF Holds, PastWhen
    <3>3. a = "syncer" => call[a][r].to \in {"succeeded", "failed", "absent"}
      BY <1>0 DEF Holds, CallsAsk, CallAsks, ProcessorAsks
    <3>4. call[a][r].to # "absent"
      BY <1>0, <1>1 DEF TransitionRead, Holds, CallsAsk, CallAsks, ProcessorAsks, Terminal
    <3>. QED  BY <3>1, <3>2, <3>3, <3>4
  <2>3. a # "canceler"
    BY <1>0, <1>1 DEF TransitionRead, Holds, CallsAsk, CallAsks, ProcessorAsks
  <2>4. HoldsLock(s)'
    BY <1>0, <1>1 DEF TransitionRead, Holds, HoldsLock, Working
  <2>. QED  BY <1>1, <2>1, <2>2, <2>3, <2>4, CallHolds DEF TransitionRead
<1>2. CASE TransitionWrite(a, r)
  BY <1>2, WriteHolds
<1>3. CASE CallThrows(a, r)
  <2>1. /\ call'[a][r].at = "threw" /\ call'[a][r].to = "absent"
        /\ \A b \in Actor, t \in Runs : b # a \/ t # r => call'[b][t] = call[b][t]
    BY <1>3, OtherCalls DEF CallThrows, Idle
  <2>2. HoldsLock(s)'
    BY <1>0, <1>3 DEF CallThrows, Holds, HoldsLock, Working
  <2>. QED  BY <1>3, <2>1, <2>2, CallHolds DEF CallThrows
<1>4. CASE SettleFind(a, r)
  <2>1. /\ \/ call'[a][r].at = "idle" /\ call'[a][r].to = "absent"
           \/ /\ call'[a][r].to = call[a][r].to
              /\ call'[a][r].at = IF call[a][r].to \in Terminal THEN "release" ELSE "update"
        /\ \A b \in Actor, t \in Runs : b # a \/ t # r => call'[b][t] = call[b][t]
    BY <1>4, OtherCalls, ForgetEffect DEF SettleFind, Idle
  <2>2. HoldsLock(s)'
    BY <1>0, <1>4 DEF SettleFind, Holds, HoldsLock, Working
  <2>3. /\ a = "syncer" => r \in overtaken \/ Past(r)
        /\ a \in Delivery => status[r] # "queued"
    BY <1>0, <1>4 DEF SettleFind, Holds, PastWhen
  <2>. QED  BY <1>4, <2>1, <2>2, <2>3, CallHolds DEF SettleFind
<1>5. CASE SettleRelease(a, r)
  <2>1. /\ call'[a][r].at = "update" /\ call'[a][r].to = call[a][r].to
        /\ \A b \in Actor, t \in Runs : b # a \/ t # r => call'[b][t] = call[b][t]
    BY <1>5, AwaitsEffect DEF SettleRelease
  <2>2. call[a][r].at = "release" /\ call[a][r].to \in Terminal
    BY <1>0, <1>5 DEF SettleRelease, Holds, CallsAsk, CallAsks, ProcessorAsks
  <2>3. /\ a = "syncer" => r \in overtaken \/ Past(r)
        /\ a \in Delivery => status[r] # "queued"
    BY <1>0, <2>2 DEF Holds, PastWhen
  <2>4. lock' = lock \/ lock = r
    <3>1. call[a][r].token = r
      BY <2>2 DEF HoldInv, TokenNamesRun
    <3>. QED  BY <1>5, <3>1, RunsAssumption DEF SettleRelease, ReleaseLock
  <2>5. HoldsLock(s)'
    <3>1. UNCHANGED <<status, submit, path, worker, early, overtaken>>
      BY <1>5 DEF SettleRelease
    <3>2. CASE s # r
      BY <1>0, <2>4, <3>1, <3>2 DEF Holds, HoldsLock, Working
    <3>3. CASE s = r
      <4> SUFFICES ASSUME r \notin overtaken PROVE HoldsLock(s)'
        BY <3>1, <3>3 DEF HoldsLock
      <4>1. submit[r] \notin {"decide", "create", "release"}
        BY <1>0, <2>2 DEF Holds, Unknown, Idle
      <4>2. CASE a \in Delivery
        <5>1. worker[a][r] # "off" /\ ~Working(a, r) /\ status[r] # "queued"
          BY <1>0, <2>2, <2>3, <4>2 DEF Holds, CallsAsk, CallAsks, ProcessorAsks, Returned,
                                        Terminal, Working
        <5>2. \A e \in Delivery : ~Working(e, r)
          BY <4>2, <5>1, OneDelivery, Actors DEF Working
        <5>. QED  BY <3>1, <3>3, <4>1, <5>1, <5>2 DEF HoldsLock, Working
      <4>3. CASE a = "syncer"
        BY <2>3, <3>1, <3>3, <4>1, <4>3 DEF HoldsLock, Past, Working
      <4>4. CASE a = "canceler"
        BY <1>0, <2>2, <3>1, <3>3, <4>4 DEF Holds, CallsAsk, CallAsks, ProcessorAsks, HoldsLock
      <4>. QED  BY <4>2, <4>3, <4>4, Actors
    <3>. QED  BY <3>2, <3>3
  <2>. QED  BY <1>5, <2>1, <2>2, <2>3, <2>5, CallHolds DEF SettleRelease
<1>6. CASE SettleUpdate(a, r)
  <2>1. /\ call'[a][r].at = "idle" /\ call'[a][r].to = "absent"
        /\ \A b \in Actor, t \in Runs : b # a \/ t # r => call'[b][t] = call[b][t]
    BY <1>6, ForgetEffect DEF SettleUpdate, Idle
  <2>2. HoldsLock(s)'
    BY <1>0, <1>6 DEF SettleUpdate, Holds, HoldsLock, Working
  <2>. QED  BY <1>6, <2>1, <2>2, CallHolds DEF SettleUpdate
<1>. QED  BY <1>1, <1>2, <1>3, <1>4, <1>5, <1>6 DEF Transition

\* A step that leaves a run and its lock alone.
LEMMA HoldsElsewhere ==
  ASSUME NEW s \in Runs, Holds(s), lock = s => lock' = s,
         status'[s] = status[s], submit'[s] = submit[s], path'[s] = path[s],
         \A d \in Delivery : worker'[d][s] = worker[d][s],
         canceler'[s] = canceler[s], syncJobs'[s] = syncJobs[s],
         s \in syncer' <=> s \in syncer, s \in outputs' <=> s \in outputs,
         s \in early => s \in early',
         s \in overtaken => s \in overtaken',
         \A a \in Actor : call'[a][s] = call[a][s]
  PROVE  Holds(s)'
BY Actors DEF Holds, Unknown, HoldsLock, CallsAsk, CallAsks, ProcessorAsks, PastWhen, Past,
              Working, Returned

\* A step of a processor that is at a run, or begins one that is queued.
LEMMA WorkHolds ==
  ASSUME TypeOK, HoldInv, NEW d \in Delivery, NEW r \in Runs, status[r] # "absent",
         UNCHANGED <<status, outputs, lock, submit, path, syncer, canceler, early, overtaken>>,
         \A a \in Actor : a # d => call'[a][r] = call[a][r],
         \A e \in Delivery : e # d => worker'[e][r] = worker[e][r],
         CallAsks(d, r)', ProcessorAsks(d, r)',
         Working(d, r)' => Working(d, r) \/ status[r] = "queued",
         call'[d][r].at \in {"find", "release", "update"} => status[r] # "queued"
  PROVE  Holds(r)'
<1>0. Holds(r)
  BY DEF HoldInv
<1>1. Unknown(r)'
  BY <1>0 DEF Holds, Unknown
<1>2. (\E e \in Delivery : Working(e, r))'
        => status[r] = "queued" \/ \E e \in Delivery : Working(e, r)
  BY DEF Working
<1>3. HoldsLock(r)'
  BY <1>0, <1>2 DEF Holds, HoldsLock
<1>4. CallsAsk(r)'
  <2>1. ASSUME NEW b \in Actor PROVE CallAsks(b, r)'
    BY <1>0 DEF Holds, CallsAsk, CallAsks
  <2>2. ASSUME NEW e \in Delivery PROVE ProcessorAsks(e, r)'
    BY <1>0, Actors DEF Holds, CallsAsk, ProcessorAsks, Returned
  <2>3. call'["syncer"][r] = call["syncer"][r] /\ call'["canceler"][r] = call["canceler"][r]
    BY Actors
  <2>. QED  BY <1>0, <2>1, <2>2, <2>3 DEF Holds, CallsAsk
<1>5. PastWhen(r)'
  <2>1. Past(r) => Past(r)'
    BY <1>2 DEF Past
  <2>2. call'["syncer"][r] = call["syncer"][r]
    BY Actors
  <2>3. \A e \in Delivery : call'[e][r].at \in {"find", "release", "update"} => status[r] # "queued"
    BY <1>0, Actors DEF Holds, PastWhen
  <2>. QED  BY <1>0, <2>1, <2>2, <2>3 DEF Holds, PastWhen
<1>. QED  BY <1>1, <1>3, <1>4, <1>5 DEF Holds

LEMMA ProcessorHolds ==
  ASSUME TypeOK, HoldInv, NEW d \in Delivery, NEW r \in Runs, Processor(d, r), NEW s \in Runs
  PROVE  Holds(s)'
<1>0. Holds(s) /\ Holds(r)
  BY DEF HoldInv
<1>1. UNCHANGED <<status, outputs, lock, submit, path, syncer, canceler, early, overtaken>>
  BY ProcessorLeaves
<1>2. /\ \A a \in Actor, t \in Runs : a # d \/ t # r => call'[a][t] = call[a][t]
      /\ \A e \in Delivery, t \in Runs : e # d \/ t # r => worker'[e][t] = worker[e][t]
  BY ProcessorOthers
<1>3. CASE s # r
  BY <1>0, <1>1, <1>2, <1>3, ProcessorOthers, HoldsElsewhere
<1>4. CASE d = "worker" /\ TakeJob(r) /\ status[r] # "queued"
  <2>1. UNCHANGED <<worker, call, syncJobs>>
    BY <1>4 DEF TakeJob
  <2>. QED  BY <1>0, <1>1, <2>1, HoldsElsewhere
<1>5. CASE ~(d = "worker" /\ TakeJob(r) /\ status[r] # "queued")
  <2>0. d \in Actor
    BY Actors
  <2>w. \A to : Works(d, r, to) => worker'[d][r] = to
    BY WorksEffect
  <2>c. /\ \A at, to : Calls(d, r, at, to) => call'[d][r].at = at /\ call'[d][r].to = to
        /\ Forget(d, r) => call'[d][r] = Idle
    BY <2>0, CallsEffect, ForgetEffect
  <2>q. /\ ProcessorAsks(d, r) /\ CallAsks(d, r)
        /\ worker[d][r] # "off" => status[r] # "absent"
        /\ call[d][r].at \in {"find", "release", "update"} => status[r] # "queued"
    BY <1>0, <2>0 DEF Holds, Unknown, CallsAsk, PastWhen
  <2> DEFINE Goal == /\ CallAsks(d, r)' /\ ProcessorAsks(d, r)' /\ status[r] # "absent"
                     /\ Working(d, r)' => Working(d, r) \/ status[r] = "queued"
                     /\ call'[d][r].at \in {"find", "release", "update"} => status[r] # "queued"
  <2>10. Goal
    <3> USE DEF CallAsks, ProcessorAsks, Working, Returned, Threw, Idle
    <3>1. CASE d = "worker" /\ TakeJob(r)
      <4>1. Calls(d, r, "read", "running") /\ Works(d, r, "start") /\ status[r] = "queued"
        BY <1>5, <3>1 DEF TakeJob
      <4>. QED  BY <2>w, <2>c, <4>1
    <3>2. CASE Prepare(d, r)
      <4>1. CASE Works(d, r, "execute") /\ call' = call
        BY <3>2, <2>w, <2>q, <4>1 DEF Prepare
      <4>2. CASE Works(d, r, "finish") /\ Calls(d, r, "read", "failed")
        BY <3>2, <2>w, <2>c, <2>q, <4>2 DEF Prepare, Terminal
      <4>3. CASE Works(d, r, "catch") /\ call' = call
        BY <3>2, <2>w, <2>q, <4>3 DEF Prepare
      <4>. QED  BY <3>2, <4>1, <4>2, <4>3 DEF Prepare
    <3>3. CASE Executed(d, r)
      <4>1. CASE Works(d, r, "finish") /\ Calls(d, r, "read", "timeout")
        BY <3>3, <2>w, <2>c, <2>q, <4>1 DEF Executed, Terminal
      <4>2. ASSUME NEW to \in {"succeeded", "catch", "canceled"}, Works(d, r, to), call' = call
            PROVE  Goal
        BY <3>3, <2>w, <2>q, <4>2 DEF Executed
      <4>. QED  BY <3>3, <4>1, <4>2 DEF Executed
    <3>4. CASE CheckLatest(d, r)
      <4>1. worker[d][r] \in {"succeeded", "canceled"}
        BY <3>4 DEF CheckLatest
      <4>2. CASE Calls(d, r, "find", "canceled") /\ Works(d, r, "finish") /\ status[r] = "canceled"
        BY <2>w, <2>c, <2>q, <4>1, <4>2 DEF Terminal
      <4>3. CASE Calls(d, r, "read", "syncing") /\ Works(d, r, "handover")
        BY <2>w, <2>c, <2>q, <4>1, <4>3
      <4>4. CASE Calls(d, r, "read", "canceled") /\ Works(d, r, "finish")
        BY <2>w, <2>c, <2>q, <4>1, <4>4 DEF Terminal
      <4>. QED  BY <3>4, <4>2, <4>3, <4>4 DEF CheckLatest
    <3>5. CASE HandOver(d, r)
      <4>1. PICK to \in {"off", "catch"} : Works(d, r, to)
        BY <3>5 DEF HandOver, JobOver
      <4>. QED  BY <3>5, <2>w, <2>q, <4>1 DEF HandOver
    <3>6. CASE Finished(d, r)
      <4>1. Works(d, r, "off")
        BY <3>6 DEF Finished, JobOver
      <4>. QED  BY <3>6, <2>w, <2>q, <4>1 DEF Finished
    <3>7. CASE ProcessThrows(d, r)
      BY <3>7, <2>w, <2>c, <2>q DEF ProcessThrows
    <3>8. CASE Catch(d, r)
      <4>1. worker[d][r] = "catch" /\ Works(d, r, "giveUp")
        BY <3>8 DEF Catch
      <4>2. CASE Calls(d, r, "find", "canceled") /\ status[r] = "canceled"
        BY <2>w, <2>c, <2>q, <4>1, <4>2 DEF Terminal
      <4>3. CASE Calls(d, r, "read", "failed")
        BY <2>w, <2>c, <2>q, <4>1, <4>3 DEF Terminal
      <4>. QED  BY <3>8, <4>2, <4>3 DEF Catch
    <3>9. CASE GaveUp(d, r)
      <4>1. Works(d, r, "off") /\ Forget(d, r) /\ worker[d][r] = "giveUp"
        BY <3>9 DEF GaveUp, JobOver
      <4>. QED  BY <2>w, <2>c, <2>q, <4>1
    <3>. QED
      BY <3>1, <3>2, <3>3, <3>4, <3>5, <3>6, <3>7, <3>8, <3>9 DEF Processor
  <2>11. Holds(r)'
    BY <1>1, <1>2, <2>10, WorkHolds
  <2>. QED  BY <1>3, <2>11
<1>. QED  BY <1>4, <1>5

LEMMA SyncingHolds ==
  ASSUME TypeOK, HoldInv, NEW r \in Runs, Syncing(r) \/ RetrySync(r), NEW s \in Runs
  PROVE  Holds(s)'
<1>0. Holds(s) /\ Holds(r)
  BY DEF HoldInv
<1>1. UNCHANGED <<status, outputs, lock, submit, path, worker, canceler, early, overtaken>>
  BY SyncingLeaves
<1>2. \A a \in Actor, t \in Runs : a # "syncer" \/ t # r => call'[a][t] = call[a][t]
  BY SyncingOthers
<1>3. CASE s # r
  BY <1>0, <1>1, <1>2, <1>3, SyncingOthers, HoldsElsewhere
<1>4. CASE s = r
  <2>0. \A a \in Actor : a # "syncer" => call'[a][r] = call[a][r]
    BY <1>2
  <2> USE Actors
  <2> USE DEF Holds, Unknown, HoldsLock, CallsAsk, CallAsks, ProcessorAsks, PastWhen, Past,
              Working, Returned, TypeOK, Goto
  <2>1. CASE TakeSyncJob(r)
    <3>1. PICK to \in {"succeeded", "failed"} :
            (to = "failed" => r \in outputs) /\ Calls("syncer", r, "read", to)
      BY <2>1 DEF TakeSyncJob
    <3>2. status[r] # "absent"
      BY <1>0, <2>1 DEF TakeSyncJob
    <3>. QED
      BY <1>0, <1>1, <1>4, <2>0, <2>1, <3>1, <3>2, CallsEffect, SMTT(20) DEF TakeSyncJob, Terminal
  <2>2. CASE Synced(r)
    BY <1>0, <1>1, <1>4, <2>0, <2>2, ForgetEffect, SMTT(20) DEF Synced, Idle
  <2>3. CASE RetrySync(r)
    BY <1>0, <1>1, <1>4, <2>3 DEF RetrySync
  <2>. QED  BY <2>1, <2>2, <2>3 DEF Syncing
<1>. QED  BY <1>3, <1>4

LEMMA CancelHolds ==
  ASSUME TypeOK, HoldInv, NEW r \in Runs, Cancel(r), NEW s \in Runs
  PROVE  Holds(s)'
<1>0. Holds(s) /\ Holds(r)
  BY DEF HoldInv
<1>1. UNCHANGED <<outputs, lock, submit, path, worker, syncJobs, syncer, overtaken>>
  BY CancelLeaves
<1>2. \A a \in Actor, t \in Runs : a # "canceler" \/ t # r => call'[a][t] = call[a][t]
  BY CancelOthers
<1>3. CASE s # r
  BY <1>0, <1>1, <1>2, <1>3, CancelOthers, HoldsElsewhere
<1>4. CASE s = r
  <2>0. \A a \in Actor : a # "canceler" => call'[a][r] = call[a][r]
    BY <1>2
  <2> USE Actors
  <2> USE DEF Holds, Unknown, HoldsLock, CallsAsk, CallAsks, ProcessorAsks, PastWhen, Past,
              Working, Returned, TypeOK, Goto
  <2>1. CASE CancelRead(r)
    BY <1>0, <1>1, <1>4, <2>1 DEF CancelRead
  <2>2. CASE CancelRemove(r)
    BY <1>0, <1>1, <1>4, <2>2 DEF CancelRemove
  <2>3. CASE CancelWriteQueued(r)
    <3>1. /\ status'[r] = "canceled" /\ r \in early' /\ canceler'[r] = "settle"
          /\ call'["canceler"][r].at = "find" /\ call'["canceler"][r].to = "canceled"
      BY <2>3, CallsEffect DEF CancelWriteQueued
    <3>2. status[r] # "absent" /\ canceler[r] # "off"
      BY <1>0, <2>3 DEF CancelWriteQueued
    <3>. QED  BY <1>0, <1>1, <1>4, <2>0, <3>1, <3>2 DEF Terminal
  <2>4. CASE CancelSettled(r)
    BY <1>0, <1>1, <1>4, <2>0, <2>4, ForgetEffect DEF CancelSettled, Idle
  <2>5. CASE CancelKeySet(r)
    BY <1>0, <1>1, <1>4, <2>5 DEF CancelKeySet
  <2>6. CASE CancelWriteRunning(r)
    BY <1>0, <1>1, <1>4, <2>6 DEF CancelWriteRunning
  <2>. QED  BY <2>1, <2>2, <2>3, <2>4, <2>5, <2>6 DEF Cancel
<1>. QED  BY <1>3, <1>4

LEMMA CrashHolds ==
  ASSUME TypeOK, HoldInv, WorkerCrash \/ ApiCrash, NEW s \in Runs
  PROVE  Holds(s)'
<1>0. Holds(s)
  BY DEF HoldInv
<1>1. /\ UNCHANGED <<status, outputs, lock, path, early, overtaken>>
      /\ submit'[s] = submit[s] \/ submit'[s] = "failed"
      /\ \A a \in Actor : call'[a][s] = Idle \/ call'[a][s] = call[a][s]
  BY CrashLeaves
<1>2. CASE WorkerCrash
  <2>1. /\ \A d \in Delivery : call'[d][s] = Idle /\ worker'[d][s] = "off"
        /\ UNCHANGED canceler
    BY <1>2, Actors DEF WorkerCrash
  <2>2. s \notin syncer => syncJobs'[s] = syncJobs[s] /\ s \notin syncer'
    BY <1>2 DEF WorkerCrash
  <2>. QED
    BY <1>0, <1>1, <2>1, <2>2, Actors
       DEF Holds, Unknown, HoldsLock, CallsAsk, CallAsks, ProcessorAsks, PastWhen, Past, Working,
           Returned, Idle
<1>3. CASE ApiCrash
  <2>1. UNCHANGED <<worker, syncJobs, syncer>> /\ canceler'[s] = "off"
    BY <1>3 DEF ApiCrash
  <2>2. \A d \in Delivery : call'[d][s] = call[d][s]
    BY <1>3, Actors DEF ApiCrash, TypeOK
  <2>. QED
    BY <1>0, <1>1, <2>1, <2>2, Actors
       DEF Holds, Unknown, HoldsLock, CallsAsk, CallAsks, ProcessorAsks, PastWhen, Past, Working,
           Returned, Idle
<1>. QED  BY <1>2, <1>3

\* The delivery that goes on keeps what it asks for; the job is redelivered to a
\* processor that finds the row past queued, or to one that does not.
LEMMA StallHolds ==
  ASSUME TypeOK, HoldInv, NEW r \in Runs, Stall(r), NEW s \in Runs
  PROVE  Holds(s)'
<1>0. Holds(s) /\ Holds(r)
  BY DEF HoldInv
<1>1. /\ UNCHANGED <<status, outputs, lock, submit, path, syncJobs, syncer, canceler, early>>
      /\ overtaken \subseteq overtaken'
      /\ worker["stalled"][r] = "off"
      /\ worker'["stalled"][r] = worker["worker"][r] /\ worker'["worker"][r] = "off"
      /\ call'["stalled"][r] = call["worker"][r] /\ call'["worker"][r] = Idle
      /\ call'["syncer"][r] = call["syncer"][r] /\ call'["canceler"][r] = call["canceler"][r]
  BY StallEffect, Actors
<1>2. CASE s # r
  BY <1>0, <1>1, <1>2, StallEffect, HoldsElsewhere
<1>3. CASE s = r
  <2>1. Unknown(r)'
    BY <1>0, <1>1, Actors DEF Holds, Unknown
  <2>2. (\E d \in Delivery : Working(d, r))' => \E d \in Delivery : Working(d, r)
    BY <1>1, Actors DEF Working
  <2>3. HoldsLock(r)'
    BY <1>0, <1>1, <2>2 DEF Holds, HoldsLock
  <2>4. CallsAsk(r)'
    <3>1. ASSUME NEW a \in Actor PROVE CallAsks(a, r)'
      BY <1>0, <1>1, Actors DEF Holds, CallsAsk, CallAsks, Idle
    <3>2. ASSUME NEW d \in Delivery PROVE ProcessorAsks(d, r)'
      BY <1>0, <1>1, Actors DEF Holds, CallsAsk, ProcessorAsks, Returned, Idle
    <3>. QED  BY <1>0, <1>1, <3>1, <3>2 DEF Holds, CallsAsk
  <2>5. PastWhen(r)'
    <3>1. Past(r) => Past(r)'
      BY <1>1, <2>2 DEF Past
    <3>2. \A d \in Delivery :
            call'[d][r].at \in {"find", "release", "update"} => status[r] # "queued"
      BY <1>0, <1>1, Actors DEF Holds, PastWhen, Idle
    <3>. QED  BY <1>0, <1>1, <3>1, <3>2 DEF Holds, PastWhen
  <2>. QED  BY <1>3, <2>1, <2>3, <2>4, <2>5 DEF Holds
<1>. QED  BY <1>2, <1>3

LEMMA NextHolds ==
  ASSUME TypeOK, HoldInv, Unfailing, [Next]_vars
  PROVE  HoldInv'
<1>1. ~Disable /\ ~Expire /\ disabler'.at = "off"
  BY StaysUnforced DEF HoldInv, Unfailing, Unforced
<1>2. TokenNamesRun' /\ OnceInv'
  BY NextTokens, NextOnce DEF HoldInv
<1>3. ASSUME NEW s \in Runs
      PROVE  Holds(s)'
  <2>1. CASE WorkerCrash \/ ApiCrash
    BY <2>1, CrashHolds
  <2>2. CASE UNCHANGED vars
    BY <2>2 DEF vars, HoldInv, Holds, Unknown, HoldsLock, CallsAsk, CallAsks, ProcessorAsks,
                PastWhen, Past, Working, Returned
  <2>. QED
    BY <1>1, <2>1, <2>2, SubmissionHolds, TransitionHolds, ProcessorHolds, SyncingHolds,
       CancelHolds, StallHolds DEF Next
<1>. QED  BY <1>1, <1>2, <1>3 DEF HoldInv

LEMMA InitHolds == Init => HoldInv
<1> SUFFICES ASSUME Init PROVE HoldInv
  OBVIOUS
<1>1. \A a \in Actor, r \in Runs : call[a][r] = Idle
  BY DEF Init
<1>2. \A r \in Runs : /\ submit[r] = "new" /\ status[r] = "absent" /\ canceler[r] = "off"
                       /\ syncJobs[r] = 0 /\ \A d \in Delivery : worker[d][r] = "off"
  BY DEF Init
<1>3. syncer = {} /\ outputs = {} /\ disabler.at = "off" /\ session.run = session.token
  BY DEF Init
<1>4. ASSUME NEW r \in Runs PROVE Holds(r)
  <2>1. CallsAsk(r)
    BY <1>1, <1>2, Actors DEF CallsAsk, CallAsks, ProcessorAsks, Returned, Idle
  <2>. QED
    BY <1>1, <1>2, <1>3, <2>1, Actors DEF Holds, Unknown, HoldsLock, PastWhen, Working, Idle
<1>. QED  BY <1>1, <1>3, <1>4, InitOnce DEF HoldInv, TokenNamesRun, Idle

\* A run that is being executed keeps its chat even while a cancel request aborts
\* it or its job is delivered again beside it, whatever crashes and however many
\* calls of the worker fail: only a cancel that took it for still queued, or
\* another execution of it, frees the lock under it.
\* (agent.service.ts:293-323)
THEOREM AbortingRunsKeepTheChat == ASSUME Unfailing PROVE Spec => []AbortingRunKeepsChat
<1>1. TypeOK /\ HoldInv /\ [Next]_vars => HoldInv'
  BY NextHolds
<1>2. HoldInv => AbortingRunKeepsChat
  BY DEF HoldInv, Holds, HoldsLock, Working, AbortingRunKeepsChat, Grouped
<1>. QED  BY <1>1, <1>2, InitHolds, TypeCorrect, PTL DEF Spec

-----------------------------------------------------------------------------
(* The session is never left with a run that nobody will settle, and the    *)
(* status graph is respected, when no call is lost and nobody cancels: a    *)
(* worker that dies between a write and its settling, and a cancel that     *)
(* overwrites the status, do break them.                                    *)

Reliable == Faults \cap {"cancel", "callError", "workerCrash", "stall"} = {}

Settler(r) ==
  \E a \in Actor : call[a][r].at \in {"find", "release", "update"} /\ call[a][r].to \in Terminal

\* Nobody works on a run before it has a job, and nobody but a retry of its
\* artifacts knows it.
Unqueued(r) ==
  /\ submit[r] \in {"new", "decide", "create"} => status[r] = "absent"
  /\ status[r] = "absent" => syncJobs[r] = 0 /\ r \notin syncer
  /\ submit[r] = "mark" => status[r] = "queued"
  /\ submit[r] \in {"new", "decide", "create", "mark", "add"} => job[r] = "none"
  /\ job[r] \in {"none", "waiting"} => worker["worker"][r] = "off"
  /\ job[r] = "none" => status[r] \in {"absent", "queued"}
  /\ r \notin syncer => call["syncer"][r] = Idle

\* The worker and the status it has brought the run to.
WorkerKnows(r) ==
  LET c == call["worker"][r] IN
  /\ c.at # "threw" /\ (c.at = "idle" => c = Idle) /\ worker["worker"][r] # "canceled"
  /\ worker["worker"][r] \in {"off", "execute", "succeeded", "catch"} => c = Idle
  /\ worker["worker"][r] \in {"execute", "succeeded", "catch"} => status[r] = "running"
  /\ worker["worker"][r] = "start" =>
       /\ c = Idle \/ c.to = "running"
       /\ status[r] = IF c.at \in {"read", "write"} THEN "queued" ELSE "running"
  /\ worker["worker"][r] = "handover" =>
       /\ c = Idle \/ c.to = "syncing"
       /\ IF c.at \in {"read", "write"} THEN status[r] = "running"
                                        ELSE status[r] \in {"syncing"} \cup Terminal
  /\ worker["worker"][r] \in {"finish", "giveUp"} =>
       /\ c = Idle \/ c.to \in {"failed", "timeout"}
       /\ IF c.at \in {"read", "write"} THEN status[r] = "running"
                                        ELSE status[r] \in Terminal
  /\ c.at = "release" => c.to \in Terminal

\* A sync job ends a run only once the worker has handed over its outputs.
SyncerKnows(r) ==
  LET c == call["syncer"][r] IN
  /\ c = Idle \/ c.to \in {"succeeded", "failed"}
  /\ c.to = "failed" => r \in outputs
  /\ r \in outputs => status[r] \in {"syncing"} \cup Terminal
  /\ c.at = "write" => Allowed(RunNext, status[r], c.to)
  /\ c.at \in {"find", "release", "update"} => status[r] \in Terminal

OwnedBy(r) == session.run = r => Unfinished(r) \/ Settler(r)

Owns(r) ==
  /\ Unqueued(r) /\ WorkerKnows(r) /\ SyncerKnows(r) /\ OwnedBy(r)
  /\ canceler[r] = "off" /\ r \notin cancelKey /\ call["canceler"][r] = Idle
  /\ worker["stalled"][r] = "off" /\ call["stalled"][r] = Idle

OwnInv == \A r \in Runs : Owns(r)

\* A step that leaves a run alone.
LEMMA OwnsElsewhere ==
  ASSUME NEW s \in Runs, Owns(s), session'.run = s => session.run = s,
         status'[s] = status[s], job'[s] = job[s],
         \A d \in Delivery : worker'[d][s] = worker[d][s],
         submit'[s] = submit[s] \/ submit'[s] \in {"reload", "release", "accepted", "failed"},
         canceler'[s] = canceler[s], syncJobs'[s] = syncJobs[s] \/ status[s] # "absent",
         s \in syncer' <=> s \in syncer, s \in outputs' <=> s \in outputs,
         s \in cancelKey' => s \in cancelKey,
         \A a \in Actor : call'[a][s] = call[a][s]
  PROVE  Owns(s)'
BY Actors DEF Owns, Unqueued, WorkerKnows, SyncerKnows, OwnedBy, Unfinished, Settler

LEMMA SubmissionOwns ==
  ASSUME TypeOK, OwnInv, NEW r \in Runs, Submission(r), NEW s \in Runs
  PROVE  Owns(s)'
<1>0. Owns(s) /\ Owns(r)
  BY DEF OwnInv
<1>1. UNCHANGED <<outputs, worker, syncJobs, syncer, canceler, cancelKey, call>>
  BY SubmissionLeaves
<1> USE DEF Goto, TypeOK
<1>2. CASE CreateRun(r)
  <2>1. CASE s # r
    BY <1>0, <1>1, <1>2, <2>1, OwnsElsewhere DEF CreateRun
  <2>2. CASE s = r
    <3>1. status[r] = "absent" /\ job[r] = "none" /\ worker["worker"][r] = "off"
      BY <1>0, <1>2 DEF CreateRun, Owns, Unqueued
    <3>2. /\ status'[r] = "queued" /\ submit'[r] \in {"mark", "add"}
          /\ UNCHANGED <<job, session>>
      BY <1>2 DEF CreateRun
    <3>. QED
      BY <1>0, <1>1, <2>2, <3>1, <3>2
         DEF Owns, Unqueued, WorkerKnows, SyncerKnows, OwnedBy, Unfinished, Idle, Terminal
  <2>. QED  BY <2>1, <2>2
<1>3. CASE MarkRunQueued(r)
  <2>1. CASE s # r
    BY <1>0, <1>1, <1>3, <2>1, OwnsElsewhere DEF MarkRunQueued
  <2>2. CASE s = r
    <3>1. status[r] = "queued" /\ job[r] = "none"
      BY <1>0, <1>3 DEF MarkRunQueued, Owns, Unqueued
    <3>2. submit'[r] = "add" /\ UNCHANGED <<job, status>>
      BY <1>3 DEF MarkRunQueued
    <3>. QED
      BY <1>0, <1>1, <2>2, <3>1, <3>2
         DEF Owns, Unqueued, WorkerKnows, SyncerKnows, OwnedBy, Unfinished
  <2>. QED  BY <2>1, <2>2
<1>4. CASE EnqueueRun(r)
  <2>1. CASE s # r
    BY <1>0, <1>1, <1>4, <2>1, OwnsElsewhere DEF EnqueueRun
  <2>2. CASE s = r
    <3>1. worker["worker"][r] = "off"
      BY <1>0, <1>4 DEF EnqueueRun, Owns, Unqueued
    <3>2. /\ submit'[r] \in {"accepted", "reload"} /\ job'[r] = "waiting"
          /\ UNCHANGED <<status, session>>
      BY <1>4 DEF EnqueueRun
    <3>. QED
      BY <1>0, <1>1, <2>2, <3>1, <3>2
         DEF Owns, Unqueued, WorkerKnows, SyncerKnows, OwnedBy, Unfinished, Settler
  <2>. QED  BY <2>1, <2>2
<1>5. CASE SubmitApi(r) \/ Acquire(r) \/ Decide(r)
  <2>1. CASE s # r
    BY <1>0, <1>1, <1>5, <2>1, OwnsElsewhere DEF SubmitApi, Acquire, Decide
  <2>2. CASE s = r
    <3>1. /\ submit[r] \in {"new", "decide"}
          /\ submit'[r] \in {"decide", "create", "release", "failed"}
          /\ UNCHANGED <<status, job, session>>
      BY <1>5 DEF SubmitApi, Acquire, Decide
    <3>. QED
      BY <1>0, <1>1, <2>2, <3>1
         DEF Owns, Unqueued, WorkerKnows, SyncerKnows, OwnedBy, Unfinished, Settler
  <2>. QED  BY <2>1, <2>2
<1>6. CASE Accept(r) \/ SubmitThrows(r) \/ ReleaseUnretained(r)
  BY <1>0, <1>1, <1>6, OwnsElsewhere DEF Accept, SubmitThrows, ReleaseUnretained
<1>. QED  BY <1>2, <1>3, <1>4, <1>5, <1>6 DEF Submission

\* What a call in progress says of the run it settles.
LEMMA CallInProgress ==
  ASSUME TypeOK, NEW r \in Runs, Owns(r), NEW a \in Actor, call[a][r].at # "idle"
  PROVE  /\ a \in {"worker", "syncer"}
         /\ a = "worker" => job[r] \notin {"none", "waiting"}
                            /\ worker["worker"][r] \in {"start", "handover", "finish", "giveUp"}
         /\ a = "syncer" => r \in syncer /\ status[r] # "absent"
<1>1. a \notin {"stalled", "canceler"}
  BY DEF Owns, Idle
<1>2. CASE a = "worker"
  <2>1. worker["worker"][r] \in Point /\ worker["worker"][r] # "canceled"
    BY Actors DEF TypeOK, Owns, WorkerKnows
  <2>2. worker["worker"][r] \in {"start", "handover", "finish", "giveUp"}
    BY <1>2, <2>1 DEF Owns, WorkerKnows, Idle, Point
  <2>. QED  BY <1>2, <2>2 DEF Owns, Unqueued
<1>3. CASE a = "syncer"
  BY <1>3 DEF Owns, Unqueued, Idle
<1>. QED  BY <1>1, <1>2, <1>3, Actors

\* A call goes on from c to d while its run has status st.
Steps(c, d, st) ==
  \/ c.at = "read" /\ d.at = "write" /\ Allowed(RunNext, st, c.to)
  \/ c.at = "read" /\ d.at = "threw" /\ ~Allowed(RunNext, st, c.to)
  \/ c.at = "find" /\ (d.at = "idle" \/ d.at = IF c.to \in Terminal THEN "release" ELSE "update")
  \/ c.at = "release" /\ d.at = "update"
  \/ c.at = "update" /\ d.at = "idle"

\* A call that goes on or returns leaves the statuses alone.
LEMMA CallOwns ==
  ASSUME TypeOK, OwnInv, NEW a \in Actor, NEW r \in Runs, NEW s \in Runs,
         call[a][r].at # "idle",
         UNCHANGED <<status, outputs, submit, job, worker, syncJobs, syncer, canceler, cancelKey>>,
         \A b \in Actor, t \in Runs : b # a \/ t # r => call'[b][t] = call[b][t],
         \/ call'[a][r] = Idle
         \/ call'[a][r].to = call[a][r].to /\ call'[a][r].at # "idle",
         Steps(call[a][r], call'[a][r], status[r]),
         session'.run = s => session.run = s /\ (Settler(s) => Settler(s)')
  PROVE  Owns(s)'
<1>0. Owns(s) /\ Owns(r)
  BY DEF OwnInv
<1>1. CASE s # r
  BY <1>0, <1>1, OwnsElsewhere
<1>2. CASE s = r
  <2>1. a \in {"worker", "syncer"} /\ (a = "syncer" => r \in syncer)
    BY <1>0, CallInProgress
  <2>2. Unqueued(r)' /\ OwnedBy(r)'
    BY <1>0, <1>2, <2>1, Actors DEF Owns, Unqueued, OwnedBy, Unfinished
  <2>3. CASE a = "worker"
    <3>0. call[a][r].at = "read" => Allowed(RunNext, status[r], call[a][r].to)
      <4>1. worker["worker"][r] \in {"start", "handover", "finish", "giveUp"}
        BY <1>0, <2>3, CallInProgress
      <4>2. call[a][r].at = "read" =>
              \/ status[r] = "queued" /\ call[a][r].to = "running"
              \/ status[r] = "running" /\ call[a][r].to \in {"syncing", "failed", "timeout"}
        BY <1>0, <2>3, <4>1 DEF Owns, WorkerKnows, Idle
      <4>. QED  BY <4>2 DEF Allowed, RunNext
    <3>1. WorkerKnows(r)'
      BY <1>0, <2>3, <3>0, CallInProgress DEF Owns, WorkerKnows, Idle, Steps
    <3>2. SyncerKnows(r)' /\ call'["canceler"][r] = Idle /\ call'["stalled"][r] = Idle
      BY <1>0, <2>3, Actors DEF Owns, SyncerKnows
    <3>. QED  BY <1>0, <1>2, <2>2, <3>1, <3>2 DEF Owns
  <2>4. CASE a = "syncer"
    <3>1. WorkerKnows(r)' /\ call'["canceler"][r] = Idle /\ call'["stalled"][r] = Idle
      BY <1>0, <2>4, Actors DEF Owns, WorkerKnows
    <3>2. SyncerKnows(r)'
      BY <1>0, <2>4 DEF Owns, SyncerKnows, Idle, Steps
    <3>. QED  BY <1>0, <1>2, <2>2, <3>1, <3>2 DEF Owns
  <2>. QED  BY <2>1, <2>3, <2>4
<1>. QED  BY <1>1, <1>2

LEMMA WriteOwns ==
  ASSUME TypeOK, OwnInv, NEW a \in Actor, NEW r \in Runs, TransitionWrite(a, r), NEW s \in Runs
  PROVE  Owns(s)' /\ Allowed(RunNext, status[r], status'[r])
<1>0. Owns(s) /\ Owns(r)
  BY DEF OwnInv
<1>1. call[a][r].at = "write" /\ status'[r] = call[a][r].to
  BY DEF TransitionWrite, TypeOK
<1>2. \A t \in Runs : t # r => status'[t] = status[t]
  BY DEF TransitionWrite, TypeOK
<1>3. UNCHANGED <<session, submit, job, worker, syncJobs, syncer, canceler, cancelKey>>
  BY DEF TransitionWrite
<1>4. outputs' = IF call[a][r].to = "syncing" THEN outputs \cup {r} ELSE outputs
  BY DEF TransitionWrite
<1>5. /\ call'[a][r].at = "find" /\ call'[a][r].to = call[a][r].to
      /\ \A b \in Actor, t \in Runs : b # a \/ t # r => call'[b][t] = call[b][t]
  BY AwaitsEffect DEF TransitionWrite
<1>6. /\ a \in {"worker", "syncer"}
      /\ a = "worker" => job[r] \notin {"none", "waiting"}
                         /\ worker["worker"][r] \in {"start", "handover", "finish", "giveUp"}
      /\ a = "syncer" => r \in syncer /\ status[r] # "absent"
  BY <1>0, <1>1, CallInProgress
<1>7. CASE a = "worker"
  <2>1. \/ worker["worker"][r] = "start" /\ status[r] = "queued" /\ status'[r] = "running"
        \/ worker["worker"][r] = "handover" /\ status[r] = "running" /\ status'[r] = "syncing"
        \/ /\ worker["worker"][r] \in {"finish", "giveUp"}
           /\ status[r] = "running" /\ status'[r] \in {"failed", "timeout"}
    BY <1>0, <1>1, <1>6, <1>7 DEF Owns, WorkerKnows, Idle
  <2>2. Allowed(RunNext, status[r], status'[r])
    BY <2>1 DEF Allowed, RunNext
  <2>3. /\ call["syncer"][r].at \notin {"write", "find", "release", "update"}
        /\ r \notin outputs
    BY <1>0, <2>1 DEF Owns, SyncerKnows, Allowed, RunNext, Terminal, Idle
  <2>4. Unqueued(r)'
    BY <1>0, <1>3, <1>5, <1>6, <1>7, <2>1, Actors DEF Owns, Unqueued
  <2>5. WorkerKnows(r)'
    BY <1>0, <1>1, <1>3, <1>5, <1>7, <2>1 DEF Owns, WorkerKnows, Terminal, Idle
  <2>6. SyncerKnows(r)'
    BY <1>0, <1>1, <1>3, <1>4, <1>5, <1>7, <2>1, <2>3, Actors DEF Owns, SyncerKnows
  <2>7. OwnedBy(r)'
    BY <1>1, <1>5, <2>1 DEF OwnedBy, Unfinished, Settler, Terminal
  <2>8. Owns(r)'
    BY <1>0, <1>3, <1>5, <1>7, <2>4, <2>5, <2>6, <2>7, Actors DEF Owns
  <2>. QED  BY <1>0, <1>2, <1>3, <1>4, <1>5, <2>2, <2>8, OwnsElsewhere
<1>8. CASE a = "syncer"
  <2>1. /\ status'[r] \in {"succeeded", "failed"}
        /\ Allowed(RunNext, status[r], status'[r])
    BY <1>0, <1>1, <1>8 DEF Owns, SyncerKnows, Idle
  <2>2. status[r] \in {"syncing"} \cup Terminal
    <3>1. CASE status'[r] = "failed"
      BY <1>0, <1>1, <1>8, <3>1 DEF Owns, SyncerKnows
    <3>2. CASE status'[r] = "succeeded"
      <4>1. status[r] \in RunStatus
        BY <1>6, <1>8 DEF TypeOK, Status
      <4>. QED  BY <2>1, <3>2, <4>1 DEF Allowed, RunNext, RunStatus, Terminal
    <3>. QED  BY <2>1, <3>1, <3>2
  <2>3. status'[r] \in Terminal
    BY <2>1 DEF Terminal
  <2>4. Unqueued(r)'
    BY <1>0, <1>3, <1>5, <1>6, <1>8, <2>2, <2>3, Actors DEF Owns, Unqueued, Terminal
  <2>5. WorkerKnows(r)'
    <3>1. call'["worker"][r] = call["worker"][r]
      BY <1>5, <1>8, Actors
    <3>. QED  BY <1>0, <1>3, <2>2, <2>3, <3>1 DEF Owns, WorkerKnows, Terminal
  <2>6. SyncerKnows(r)'
    BY <1>0, <1>1, <1>4, <1>5, <1>8, <2>1, <2>3 DEF Owns, SyncerKnows, Terminal
  <2>7. OwnedBy(r)'
    BY <1>1, <1>5, <2>3 DEF OwnedBy, Settler
  <2>8. Owns(r)'
    BY <1>0, <1>3, <1>5, <1>8, <2>4, <2>5, <2>6, <2>7, Actors DEF Owns
  <2>. QED  BY <1>0, <1>2, <1>3, <1>4, <1>5, <2>1, <2>8, OwnsElsewhere
<1>. QED  BY <1>6, <1>7, <1>8

LEMMA TransitionOwns ==
  ASSUME TypeOK, OwnInv, Reliable, NEW a \in Actor, NEW r \in Runs, Transition(a, r),
         NEW s \in Runs
  PROVE  Owns(s)'
<1>1. CASE TransitionRead(a, r)
  <2>1. /\ call'[a][r].at = IF Allowed(RunNext, status[r], call[a][r].to) THEN "write" ELSE "threw"
        /\ call'[a][r].to = call[a][r].to
        /\ \A b \in Actor, t \in Runs : b # a \/ t # r => call'[b][t] = call[b][t]
    BY <1>1, AwaitsEffect DEF TransitionRead
  <2>2. Settler(s) => Settler(s)'
    BY <1>1, <2>1 DEF TransitionRead, Settler
  <2>. QED  BY <1>1, <2>1, <2>2, CallOwns DEF TransitionRead, Steps
<1>2. CASE TransitionWrite(a, r)
  BY <1>2, WriteOwns
<1>3. CASE SettleFind(a, r)
  <2>1. /\ \/ call'[a][r] = Idle /\ session.run # r
           \/ /\ call'[a][r].to = call[a][r].to
              /\ call'[a][r].at = IF call[a][r].to \in Terminal THEN "release" ELSE "update"
        /\ \A b \in Actor, t \in Runs : b # a \/ t # r => call'[b][t] = call[b][t]
    BY <1>3, OtherCalls, ForgetEffect DEF SettleFind
  <2>2. session.run = s /\ Settler(s) => Settler(s)'
    BY <1>3, <2>1 DEF SettleFind, Settler
  <2>. QED  BY <1>3, <2>1, <2>2, CallOwns DEF SettleFind, Steps, Idle
<1>4. CASE SettleRelease(a, r)
  <2>1. /\ call'[a][r].at = "update" /\ call'[a][r].to = call[a][r].to
        /\ \A b \in Actor, t \in Runs : b # a \/ t # r => call'[b][t] = call[b][t]
    BY <1>4, AwaitsEffect DEF SettleRelease
  <2>2. Settler(s) => Settler(s)'
    BY <1>4, <2>1 DEF SettleRelease, Settler
  <2>. QED  BY <1>4, <2>1, <2>2, CallOwns DEF SettleRelease, Steps
<1>5. CASE SettleUpdate(a, r)
  <2>1. /\ call'[a][r] = Idle
        /\ \A b \in Actor, t \in Runs : b # a \/ t # r => call'[b][t] = call[b][t]
    BY <1>5, ForgetEffect DEF SettleUpdate
  <2>2. session'.run = s => session.run = s /\ call[a][r].to \notin Terminal
    BY <1>5, RunsAssumption DEF SettleUpdate, TypeOK, Session
  <2>3. session'.run = s /\ Settler(s) => Settler(s)'
    BY <2>1, <2>2 DEF Settler
  <2>. QED  BY <1>5, <2>1, <2>2, <2>3, CallOwns DEF SettleUpdate, Steps, Idle
<1>. QED
  BY <1>1, <1>2, <1>3, <1>4, <1>5 DEF Transition, CallThrows, Reliable

LEMMA ProcessorOwns ==
  ASSUME TypeOK, OwnInv, Reliable, NEW d \in Delivery, NEW r \in Runs, Processor(d, r),
         NEW s \in Runs
  PROVE  Owns(s)'
<1>0. Owns(s) /\ Owns(r)
  BY DEF OwnInv
<1>d. d = "worker"
  BY <1>0, Actors DEF Processor, Prepare, Executed, CheckLatest, HandOver, Finished, ProcessThrows,
                      Catch, GaveUp, Owns
<1>1. UNCHANGED <<status, outputs, session, submit, syncer, canceler>>
  BY ProcessorLeaves
<1>2. /\ \A t \in Runs : t # r => job'[t] = job[t] /\ syncJobs'[t] = syncJobs[t]
      /\ \A e \in Delivery, t \in Runs : e # "worker" \/ t # r => worker'[e][t] = worker[e][t]
      /\ cancelKey' \subseteq cancelKey
  BY <1>d, ProcessorOthers
<1>3. \A b \in Actor, t \in Runs : b # "worker" \/ t # r => call'[b][t] = call[b][t]
  BY <1>d, ProcessorOthers
<1>w. \A to : Works("worker", r, to) => worker'["worker"][r] = to
  BY WorksEffect, Actors
<1>4. CASE s # r
  BY <1>0, <1>1, <1>2, <1>3, <1>4, OwnsElsewhere
<1>5. CASE s = r
  <2>1. Unqueued(r)' /\ WorkerKnows(r)' /\ (Settler(r) => Settler(r)')
    <3>0. \A b \in Actor : b # "worker" => call'[b][r] = call[b][r]
      BY <1>3
    <3> USE DEF Owns, Unqueued, WorkerKnows, Settler, Returned, Threw, TypeOK
    <3> USE Actors
    <3>1. CASE TakeJob(r)
      BY <1>0, <1>1, <1>w, <3>0, <3>1, CallsEffect DEF TakeJob, Idle
    <3>2. CASE Prepare("worker", r)
      <4>0. call["worker"][r] = Idle /\ status[r] = "running" /\ job[r] \notin {"none", "waiting"}
        BY <1>0, <3>2 DEF Prepare, Idle
      <4>1. CASE Works("worker", r, "execute") /\ call' = call
        BY <1>0, <1>1, <1>w, <3>0, <3>2, <4>0, <4>1 DEF Prepare, Idle
      <4>2. CASE Works("worker", r, "finish") /\ Calls("worker", r, "read", "failed")
        BY <1>0, <1>1, <1>w, <3>0, <3>2, <4>0, <4>2, CallsEffect DEF Prepare, Idle
      <4>3. CASE Works("worker", r, "catch") /\ call' = call
        BY <1>0, <1>1, <1>w, <3>0, <3>2, <4>0, <4>3 DEF Prepare, Idle
      <4>. QED  BY <3>2, <4>1, <4>2, <4>3 DEF Prepare
    <3>3. CASE Executed("worker", r)
      BY <1>0, <1>1, <1>w, <3>0, <3>3, CallsEffect DEF Executed, Idle
    <3>4. CASE CheckLatest("worker", r)
      BY <1>0, <1>1, <1>w, <3>0, <3>4, CallsEffect DEF CheckLatest, Idle
    <3>5. CASE HandOver("worker", r)
      <4>1. call["worker"][r] = Idle /\ status[r] \notin {"absent", "queued"}
        BY <1>0, <3>5 DEF HandOver, Terminal
      <4>2. JobOver("worker", r) /\ UNCHANGED call
        BY <3>5 DEF HandOver, Reliable
      <4>. QED  BY <1>0, <1>1, <1>w, <3>5, <4>1, <4>2 DEF HandOver, JobOver, Idle
    <3>6. CASE Finished("worker", r)
      BY <1>0, <1>1, <1>w, <3>0, <3>6 DEF Finished, JobOver, Idle
    <3>7. CASE ProcessThrows("worker", r)
      BY <1>0, <3>7 DEF ProcessThrows
    <3>8. CASE Catch("worker", r)
      BY <1>0, <1>1, <1>w, <3>0, <3>8, CallsEffect DEF Catch, Idle
    <3>9. CASE GaveUp("worker", r)
      BY <1>0, <1>1, <1>w, <3>0, <3>9, ForgetEffect DEF GaveUp, JobOver, Idle
    <3>. QED
      BY <1>d, <3>1, <3>2, <3>3, <3>4, <3>5, <3>6, <3>7, <3>8, <3>9 DEF Processor
  <2>2. /\ SyncerKnows(r)' /\ call'["canceler"][r] = Idle
        /\ worker'["stalled"][r] = "off" /\ call'["stalled"][r] = Idle
    BY <1>0, <1>1, <1>2, <1>3, Actors DEF Owns, SyncerKnows
  <2>3. OwnedBy(r)'
    BY <1>0, <1>1, <2>1 DEF Owns, OwnedBy, Unfinished
  <2>. QED  BY <1>0, <1>1, <1>2, <1>5, <2>1, <2>2, <2>3 DEF Owns
<1>. QED  BY <1>4, <1>5

LEMMA SyncingOwns ==
  ASSUME TypeOK, OwnInv, Reliable, NEW r \in Runs, Syncing(r) \/ RetrySync(r), NEW s \in Runs
  PROVE  Owns(s)'
<1>0. Owns(s) /\ Owns(r)
  BY DEF OwnInv
<1>1. UNCHANGED <<status, outputs, session, submit, job, worker, canceler, cancelKey>>
  BY SyncingLeaves
<1>2. /\ \A t \in Runs : t # r => syncJobs'[t] = syncJobs[t] /\ (t \in syncer' <=> t \in syncer)
      /\ status[r] # "absent"
  BY <1>0, SyncingOthers DEF Syncing, TakeSyncJob, Synced, RetrySync, TypeOK, Owns, Unqueued
<1>3. \A b \in Actor, t \in Runs : b # "syncer" \/ t # r => call'[b][t] = call[b][t]
  BY SyncingOthers
<1>4. CASE s # r
  BY <1>0, <1>1, <1>2, <1>3, <1>4, OwnsElsewhere
<1>5. CASE s = r
  <2>1. Unqueued(r)' /\ SyncerKnows(r)' /\ (Settler(r) => Settler(r)')
    <3>0. \A b \in Actor : b # "syncer" => call'[b][r] = call[b][r]
      BY <1>3
    <3> USE DEF Owns, Unqueued, SyncerKnows, Settler, Returned, Threw, TypeOK
    <3> USE Actors
    <3>1. CASE TakeSyncJob(r)
      <4>1. PICK to \in {"succeeded", "failed"} :
              (to = "failed" => r \in outputs) /\ Calls("syncer", r, "read", to)
        BY <3>1 DEF TakeSyncJob
      <4>. QED  BY <1>0, <1>1, <1>2, <3>0, <3>1, <4>1, CallsEffect DEF TakeSyncJob, Idle
    <3>2. CASE Synced(r)
      BY <1>0, <1>1, <1>2, <3>0, <3>2, ForgetEffect DEF Synced, Idle
    <3>3. CASE RetrySync(r)
      BY <1>0, <1>1, <1>2, <3>3 DEF RetrySync
    <3>. QED  BY <3>1, <3>2, <3>3 DEF Syncing
  <2>2. WorkerKnows(r)' /\ call'["canceler"][r] = Idle /\ call'["stalled"][r] = Idle
    BY <1>0, <1>1, <1>3, Actors DEF Owns, WorkerKnows
  <2>3. OwnedBy(r)'
    BY <1>0, <1>1, <2>1 DEF Owns, OwnedBy, Unfinished
  <2>. QED  BY <1>0, <1>1, <1>5, <2>1, <2>2, <2>3 DEF Owns
<1>. QED  BY <1>4, <1>5

\* Nobody cancels; unbinding and the lock's expiry take nothing but the lock and
\* the session; the API process takes its submissions with it.
LEMMA OthersOwn ==
  ASSUME TypeOK, OwnInv, Reliable, NEW s \in Runs,
         \/ \E r \in Runs : Cancel(r)
         \/ Disable \/ Expire \/ WorkerCrash \/ ApiCrash \/ UNCHANGED vars
         \/ \E r \in Runs : Stall(r)
  PROVE  Owns(s)'
<1>0. Owns(s)
  BY DEF OwnInv
<1>1. ASSUME NEW r \in Runs, Cancel(r) PROVE FALSE
  <2>1. canceler[r] = "off"
    BY DEF OwnInv, Owns
  <2>. QED
    BY <1>1, <2>1 DEF Cancel, CancelRead, CancelRemove, CancelWriteQueued, CancelSettled,
                      CancelKeySet, CancelWriteRunning, Reliable
<1>2. ~WorkerCrash /\ \A r \in Runs : ~Stall(r)
  BY DEF WorkerCrash, Stall, Reliable
<1>3. CASE Disable
  <2>1. session'.run = s => session.run = s
    BY <1>3, RunsAssumption DEF Disable, DisableFind, DisableRelease, DisableUpdate
  <2>. QED
    BY <1>0, <1>3, <2>1, OwnsElsewhere DEF Disable, DisableFind, DisableRelease, DisableUpdate
<1>4. CASE Expire \/ UNCHANGED vars
  BY <1>0, <1>4, OwnsElsewhere DEF Expire, vars
<1>5. CASE ApiCrash
  <2>1. \A a \in Actor : call'[a][s] = call[a][s]
    BY <1>0, <1>5, Actors DEF ApiCrash, TypeOK, Owns
  <2>2. canceler'[s] = canceler[s]
    BY <1>0, <1>5 DEF ApiCrash, Owns
  <2>3. submit'[s] = submit[s] \/ submit'[s] = "failed"
    BY CrashLeaves, <1>5
  <2>. QED  BY <1>0, <1>5, <2>1, <2>2, <2>3, OwnsElsewhere DEF ApiCrash
<1>. QED  BY <1>1, <1>2, <1>3, <1>4, <1>5

LEMMA NextOwns ==
  ASSUME TypeOK, OwnInv, Reliable, [Next]_vars
  PROVE  OwnInv'
<1>1. ASSUME NEW s \in Runs PROVE Owns(s)'
  BY SubmissionOwns, TransitionOwns, ProcessorOwns, SyncingOwns, OthersOwn DEF Next
<1>. QED  BY <1>1 DEF OwnInv

LEMMA InitOwns == Init => OwnInv
BY RunsAssumption, Actors
   DEF Init, OwnInv, Owns, Unqueued, WorkerKnows, SyncerKnows, OwnedBy, Idle

LEMMA OwnInvHolds == ASSUME Reliable PROVE Spec => [](TypeOK /\ OwnInv)
<1>1. TypeOK /\ OwnInv /\ [Next]_vars => OwnInv'
  BY NextOwns
<1>. QED  BY <1>1, InitOwns, TypeCorrect, PTL DEF Spec

\* The session never points at a finished run that nobody is going to settle,
\* whatever the lock's expiry, unbindings, failing submissions and crashes of the
\* API do to the group meanwhile.
\* (group-agent-session.service.ts:432-469)
THEOREM SessionsAreOwned == ASSUME Reliable PROVE Spec => []SessionOwned
<1>1. OwnInv => SessionOwned
  BY DEF OwnInv, Owns, OwnedBy, Settler, SessionOwned, Settling
<1>. QED  BY <1>1, OwnInvHolds, PTL

\* Nothing but CreateRun and a transition's write changes a run's status.
LEMMA StatusLegal ==
  ASSUME TypeOK, OwnInv, Reliable, [Next]_vars, NEW r \in Runs, status[r] # "absent"
  PROVE  Allowed(RunNext, status[r], status'[r])
<1>1. Owns(r)
  BY DEF OwnInv
<1>2. ASSUME status'[r] = status[r]
      PROVE  Allowed(RunNext, status[r], status'[r])
  BY <1>2 DEF Allowed
<1>3. ASSUME NEW s \in Runs, Submission(s)
      PROVE  status'[r] = status[r]
  <2>1. CASE CreateRun(s)
    <3>1. status[s] = "absent"
      BY <2>1 DEF OwnInv, Owns, Unqueued, CreateRun
    <3>. QED  BY <2>1, <3>1 DEF CreateRun, TypeOK
  <2>2. CASE ~CreateRun(s)
    BY <1>3, <2>2 DEF Submission, SubmitApi, Acquire, Decide, MarkRunQueued, EnqueueRun, Accept,
                      SubmitThrows, ReleaseUnretained
  <2>. QED  BY <2>1, <2>2
<1>4. ASSUME NEW a \in Actor, NEW s \in Runs, Transition(a, s)
      PROVE  Allowed(RunNext, status[r], status'[r])
  <2>1. CASE TransitionWrite(a, s)
    <3>1. CASE s = r
      BY <2>1, <3>1, WriteOwns
    <3>2. CASE s # r
      BY <1>2, <2>1, <3>2 DEF TransitionWrite, TypeOK
    <3>. QED  BY <3>1, <3>2
  <2>2. CASE ~TransitionWrite(a, s)
    BY <1>2, <1>4, <2>2 DEF Transition, TransitionRead, CallThrows, SettleFind, SettleRelease,
                            SettleUpdate
  <2>. QED  BY <2>1, <2>2
<1>5. ASSUME NEW s \in Runs, Cancel(s) PROVE FALSE
  <2>1. canceler[s] = "off"
    BY DEF OwnInv, Owns
  <2>. QED
    BY <1>5, <2>1 DEF Cancel, CancelRead, CancelRemove, CancelWriteQueued, CancelSettled,
                      CancelKeySet, CancelWriteRunning, Reliable
<1>6. CASE Disable \/ Expire \/ WorkerCrash \/ ApiCrash \/ UNCHANGED vars
  BY <1>2, <1>6 DEF Disable, DisableFind, DisableRelease, DisableUpdate, Expire, WorkerCrash,
                    ApiCrash, vars
<1>7. ASSUME NEW s \in Runs, Stall(s) PROVE FALSE
  BY <1>7 DEF Stall, Reliable
<1>. QED
  BY <1>2, <1>3, <1>4, <1>5, <1>6, <1>7, ProcessorLeaves, SyncingLeaves DEF Next

\* The status graph of state-machine.ts is respected step by step, although
\* transition() reads, checks and writes in separate awaits and the worker and
\* any number of artifact-sync jobs of the run take part.
\* (agent.service.ts:325-336, state-machine.ts)
THEOREM StatusesAreLegal == ASSUME Reliable PROVE Spec => LegalStatus
<1>1. TypeOK /\ OwnInv /\ [Next]_vars
        => [\A r \in Runs : status[r] # "absent" => Allowed(RunNext, status[r], status'[r])]_vars
  BY StatusLegal
<1>. QED  BY <1>1, OwnInvHolds, PTL DEF Spec, LegalStatus
=============================================================================
