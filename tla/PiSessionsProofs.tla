-------------------------- MODULE PiSessionsProofs --------------------------
(***************************************************************************)
(* What PiSessions promises for any number of runs, decisions, places and  *)
(* faults.                                                                 *)
(***************************************************************************)
EXTENDS PiSessions, SequenceTheorems, TLAPS

USE DEF execVars, timerVars, historyVars

LEMMA Kinds ==
  /\ Runs \subseteq Execs /\ Decisions \subseteq Execs
  /\ \A e \in Execs : e \in Runs <=> e \notin Decisions
BY PiSessionsAssumption DEF Execs

-----------------------------------------------------------------------------
(* The parts of TypeOK.                                                     *)

Stages == {"idle", "load", "create", "over", "check", "prompt", "clean"}

ObjectsOK ==
  /\ objects \in Seq([place: Places, session: Session])
  /\ cached \in 0..Len(objects) /\ raced \subseteq DOMAIN objects
  /\ cached # 0 => objects[cached].session # "disposed"

ExecsOK ==
  /\ at \in [Execs -> Stages] /\ wants \in [Execs -> Places \cup {None}]
  /\ obj \in [Execs -> 0..Len(objects)] /\ outcome \in [Execs -> Outcome]
  /\ \A e \in Execs : /\ at[e] \in {"check", "prompt", "clean", "create"} => obj[e] # 0
                      /\ at[e] = "load" => wants[e] # None

TimersOK ==
  /\ timers \subseteq {e \in Execs : at[e] = "prompt"}
  /\ polls \subseteq {r \in Runs : at[r] = "prompt"}
  /\ asking \subseteq {r \in Runs : at[r] \in {"prompt", "clean"}}

RestOK ==
  /\ flags \in [Execs -> SUBSET {"canceled", "timedOut"}]
  /\ key \subseteq Runs /\ faults \in 0..MaxFaults
  /\ aborted \subseteq Execs /\ shared \subseteq Execs

LEMMA Parts == TypeOK <=> ObjectsOK /\ ExecsOK /\ TimersOK /\ RestOK
<1>1. {"idle", "load", "create", "over"} \cup Using = Stages
  BY DEF Using, Stages
<1>2. Using \cup {"create"} = {"check", "prompt", "clean", "create"}
  BY DEF Using
<1>. QED  BY <1>1, <1>2 DEF TypeOK, ObjectsOK, ExecsOK, TimersOK, RestOK

LEMMA PartsNext == TypeOK' <=> ObjectsOK' /\ ExecsOK' /\ TimersOK' /\ RestOK'
<1>1. {"idle", "load", "create", "over"} \cup Using = Stages
  BY DEF Using, Stages
<1>2. Using \cup {"create"} = {"check", "prompt", "clean", "create"}
  BY DEF Using
<1>. QED  BY <1>1, <1>2 DEF TypeOK, ObjectsOK, ExecsOK, TimersOK, RestOK

\* An object's session changes: the sequence keeps its length and its type.
LEMMA SessionSet ==
  ASSUME ObjectsOK, NEW i \in 1..Len(objects), NEW s \in Session,
         objects' = [objects EXCEPT ![i].session = s]
  PROVE  /\ objects' \in Seq([place: Places, session: Session])
         /\ Len(objects') = Len(objects) /\ DOMAIN objects' = DOMAIN objects
         /\ objects'[i].session = s
         /\ \A j \in 1..Len(objects) : j # i => objects'[j] = objects[j]
<1>. DEFINE Object == [place: Places, session: Session]
<1>1. objects \in [1..Len(objects) -> Object] /\ Len(objects) \in Nat
  BY LenProperties DEF ObjectsOK
<1>2. objects' = [objects EXCEPT ![i] = [objects[i] EXCEPT !.session = s]]
  BY <1>1
<1>3. [objects[i] EXCEPT !.session = s] \in Object
  BY <1>1
<1>4. objects' \in Seq(Object) /\ Len(objects') = Len(objects)
  BY <1>1, <1>2, <1>3, ExceptSeq DEF ObjectsOK
<1>5. DOMAIN objects' = DOMAIN objects
  BY <1>2
<1>6. objects'[i].session = s
  BY <1>1, <1>2
<1>. QED  BY <1>1, <1>2, <1>4, <1>5, <1>6

\* An execution goes somewhere, and comes back with something.
Moves(e, to, how) ==
  at' = [at EXCEPT ![e] = to] /\ outcome' = [outcome EXCEPT ![e] = how]

LEMMA Moved ==
  ASSUME ExecsOK, NEW e \in Execs, NEW to \in Stages, NEW how \in Outcome, Moves(e, to, how),
         obj' \in [Execs -> 0..Len(objects')], wants' \in [Execs -> Places \cup {None}],
         \A x \in Execs \ {e} : obj'[x] = obj[x],
         \A x \in Execs \ {e} : wants'[x] = wants[x],
         to \in {"check", "prompt", "clean", "create"} => obj'[e] # 0,
         to = "load" => wants'[e] # None
  PROVE  ExecsOK'
BY DEF ExecsOK, Moves

-----------------------------------------------------------------------------
(* What the operators return.                                               *)

LEMMA ResultTyping ==
  ASSUME RestOK, NEW e \in Execs
  PROVE  /\ Result(e) \in Outcome \ {"none"}
         /\ Result(e) = "succeeded" => flags[e] = {}
<1>1. flags[e] \in SUBSET {"canceled", "timedOut"}
  BY DEF RestOK
<1>2. CASE "timedOut" \in flags[e]
  BY <1>1, <1>2 DEF Result, Outcome
<1>3. CASE "timedOut" \notin flags[e] /\ "canceled" \in flags[e]
  BY <1>1, <1>3 DEF Result, Outcome
<1>4. CASE flags[e] = {}
  BY <1>4 DEF Result, Outcome
<1>. QED  BY <1>1, <1>2, <1>3, <1>4

LEMMA FinallyMoves ==
  ASSUME NEW e \in Execs, NEW how, Finally(e, how)
  PROVE  /\ e \in Runs => Moves(e, "clean", how)
         /\ e \notin Runs => Moves(e, "over", how)
         /\ timers' = timers \ {e} /\ polls' = polls \ {e}
BY DEF Finally, Ends, Goes, Disarm, Moves

LEMMA PromptsMoves ==
  ASSUME ExecsOK, NEW e \in Execs, NEW i, NEW live \in BOOLEAN, Prompts(e, i, live)
  PROVE  \/ /\ Moves(e, "prompt", outcome[e])
            /\ timers' = timers \cup {e} /\ polls' = polls \cup (Runs \cap {e})
         \/ Finally(e, "error")
BY DEF ExecsOK, Prompts, Goes, Moves

\* Timers and watchers stay with prompts when one begins or ends.
LEMMA FinallyTimers ==
  ASSUME ExecsOK, TimersOK, NEW e \in Execs, NEW how, Finally(e, how),
         asking' = asking, at[e] \in {"idle", "create", "check", "prompt"}
  PROVE  TimersOK'
<1>1. PICK to \in {"clean", "over"} : /\ at' = [at EXCEPT ![e] = to] /\ (e \in Runs => to = "clean")
                                      /\ timers' = timers \ {e} /\ polls' = polls \ {e}
  <2>1. CASE e \in Runs
    BY <2>1, FinallyMoves DEF Moves
  <2>2. CASE e \notin Runs
    BY <2>2, FinallyMoves DEF Moves
  <2>. QED  BY <2>1, <2>2
<1>2. at'[e] = to
  BY <1>1 DEF ExecsOK
<1>3. \A x \in Execs \ {e} : at'[x] = at[x]
  BY <1>1 DEF ExecsOK
<1>4. timers' \subseteq {x \in Execs : at'[x] = "prompt"}
  BY <1>1, <1>3 DEF TimersOK
<1>5. polls' \subseteq {x \in Runs : at'[x] = "prompt"}
  BY <1>1, <1>3, Kinds DEF TimersOK
<1>6. asking' \subseteq {x \in Runs : at'[x] \in {"prompt", "clean"}}
  <2>1. SUFFICES ASSUME NEW x \in asking PROVE x \in Runs /\ at'[x] \in {"prompt", "clean"}
    OBVIOUS
  <2>2. x \in Runs /\ at[x] \in {"prompt", "clean"}
    BY DEF TimersOK
  <2>3. CASE x = e
    BY <1>1, <1>2, <2>2, <2>3
  <2>4. CASE x # e
    BY <1>3, <2>2, <2>4, Kinds
  <2>. QED  BY <2>3, <2>4
<1>. QED  BY <1>4, <1>5, <1>6 DEF TimersOK

LEMMA PromptsTimers ==
  ASSUME ExecsOK, TimersOK, NEW e \in Execs, NEW i, NEW live \in BOOLEAN, Prompts(e, i, live),
         asking' = asking, at[e] \in {"idle", "create", "check"}
  PROVE  TimersOK'
<1>1. CASE Finally(e, "error")
  BY <1>1, FinallyTimers
<1>2. CASE /\ Moves(e, "prompt", outcome[e])
           /\ timers' = timers \cup {e} /\ polls' = polls \cup (Runs \cap {e})
  BY <1>2, Kinds DEF TimersOK, ExecsOK, Moves
<1>. QED  BY <1>1, <1>2, PromptsMoves

LEMMA FinallyExecs ==
  ASSUME ExecsOK, NEW e \in Execs, NEW how \in Outcome, Finally(e, how), obj[e] # 0,
         UNCHANGED <<obj, wants, objects>>
  PROVE  ExecsOK'
<1>1. PICK to \in {"clean", "over"} : Moves(e, to, how)
  BY FinallyMoves
<1>2. to \in Stages /\ obj' \in [Execs -> 0..Len(objects')] /\ wants' \in [Execs -> Places \cup {None}]
  BY DEF Stages, ExecsOK
<1>. QED  BY <1>1, <1>2, Moved

\* An execution that enters has its object, and timers if it prompts at once.
LEMMA EntersTyped ==
  ASSUME ExecsOK, TimersOK, NEW e \in Execs, NEW i \in 1..Len(objects), NEW live \in BOOLEAN,
         Enters(e, i, live), at[e] \in {"idle", "create"}, asking' = asking, wants' = wants,
         Len(objects') = Len(objects), Len(objects) \in Nat, shared \subseteq Execs
  PROVE  ExecsOK' /\ TimersOK' /\ shared' \subseteq Execs
<1>1. obj' = [obj EXCEPT ![e] = i] /\ obj' \in [Execs -> 0..Len(objects')] /\ obj'[e] # 0
  BY DEF Enters, ExecsOK
<1>2. shared' \subseteq Execs
  BY DEF Enters
<1>3. wants' \in [Execs -> Places \cup {None}]
  BY DEF ExecsOK
<1>4. CASE e \in Runs
  <2>1. Moves(e, "check", outcome[e]) /\ timers' = timers /\ polls' = polls
    BY <1>4 DEF Enters, Goes, Moves, ExecsOK
  <2>2. ExecsOK'
    BY <1>1, <1>3, <2>1, Moved DEF Stages, ExecsOK
  <2>3. TimersOK'
    BY <2>1 DEF Moves, TimersOK, ExecsOK
  <2>. QED  BY <1>2, <2>2, <2>3
<1>5. CASE e \notin Runs
  <2>1. Prompts(e, i, live)
    BY <1>5 DEF Enters
  <2>2. PICK to \in {"prompt", "clean", "over"}, how \in {outcome[e], "error"} : Moves(e, to, how)
    BY <2>1, PromptsMoves, FinallyMoves
  <2>3. to \in Stages /\ how \in Outcome /\ \A x \in Execs \ {e} : obj'[x] = obj[x]
    BY <1>1 DEF Stages, Outcome, ExecsOK
  <2>4. ExecsOK'
    BY <1>1, <1>3, <2>2, <2>3, Moved
  <2>. QED  BY <1>2, <2>1, <2>4, PromptsTimers
<1>. QED  BY <1>4, <1>5

-----------------------------------------------------------------------------
(* The steps keep the types.                                                *)

LEMMA TypeInit == Init => TypeOK
<1>. SUFFICES ASSUME Init PROVE TypeOK
  OBVIOUS
<1>1. objects \in Seq([place: Places, session: Session]) /\ Len(objects) = 0
  BY DEF Init
<1>2. ObjectsOK
  BY <1>1 DEF Init, ObjectsOK
<1>3. ExecsOK
  BY <1>1 DEF Init, ExecsOK, Stages, Outcome
<1>4. TimersOK
  BY DEF Init, TimersOK
<1>5. RestOK
  BY PiSessionsAssumption DEF Init, RestOK
<1>. QED  BY <1>2, <1>3, <1>4, <1>5, Parts

LEMMA TypeReplace ==
  ASSUME TypeOK, NEW e \in Execs, NEW p \in Places, Replace(e, p)
  PROVE  TypeOK'
<1>1. ObjectsOK /\ ExecsOK /\ TimersOK /\ RestOK
  BY Parts
<1>2. CASE objects[cached].session = "none"
  <2>1. Moves(e, "over", "error") /\ UNCHANGED <<objects, cached, wants, obj>>
    BY <1>2 DEF Replace, Ends, Goes, Moves
  <2>2. ExecsOK'
    BY <1>1, <2>1, Moved DEF Stages, Outcome, ExecsOK
  <2>3. TimersOK'
    BY <1>1, <2>1 DEF Replace, Moves, TimersOK, ExecsOK
  <2>4. ObjectsOK' /\ RestOK'
    BY <1>1, <2>1 DEF Replace, ObjectsOK, RestOK
  <2>. QED  BY <2>2, <2>3, <2>4, PartsNext
<1>3. CASE objects[cached].session # "none"
  <2>1. /\ Moves(e, "load", outcome[e]) /\ wants' = [wants EXCEPT ![e] = p] /\ obj' = obj
        /\ objects' = [objects EXCEPT ![cached].session = "disposed"] /\ cached' = 0
        /\ cached \in 1..Len(objects)
    BY <1>1, <1>3 DEF Replace, Loads, Goes, Moves, ExecsOK, ObjectsOK
  <2>2. /\ objects' \in Seq([place: Places, session: Session])
        /\ Len(objects') = Len(objects) /\ DOMAIN objects' = DOMAIN objects
    BY <1>1, <2>1, SessionSet DEF Session
  <2>3. ExecsOK'
    BY <1>1, <2>1, <2>2, Moved, PiSessionsAssumption DEF Stages, ExecsOK
  <2>4. TimersOK'
    BY <1>1, <2>1 DEF Replace, Moves, TimersOK, ExecsOK
  <2>5. ObjectsOK' /\ RestOK'
    BY <1>1, <2>1, <2>2 DEF Replace, ObjectsOK, RestOK
  <2>. QED  BY <2>3, <2>4, <2>5, PartsNext
<1>. QED  BY <1>2, <1>3

LEMMA TypeReuse ==
  ASSUME TypeOK, NEW e \in Execs, NEW p \in Places, Reuse(e, p)
  PROVE  TypeOK'
<1>1. ObjectsOK /\ ExecsOK /\ TimersOK /\ RestOK
  BY Parts
<1>2. cached \in 1..Len(objects) /\ Len(objects) \in Nat /\ (objects[cached].session # "none") \in BOOLEAN
  BY <1>1 DEF Reuse, ObjectsOK
<1>3. ExecsOK' /\ TimersOK' /\ shared' \subseteq Execs
  <2>1. /\ Enters(e, cached, objects[cached].session # "none") /\ at[e] \in {"idle", "create"}
        /\ UNCHANGED <<objects, wants, asking>>
    BY DEF Reuse
  <2>. QED  BY <1>1, <1>2, <2>1, EntersTyped DEF RestOK
<1>4. ObjectsOK' /\ RestOK'
  BY <1>1, <1>3 DEF Reuse, ObjectsOK, RestOK
<1>. QED  BY <1>3, <1>4, PartsNext

LEMMA TypeCreate ==
  ASSUME TypeOK, NEW e \in Execs, NEW p \in Places, Create(e, p)
  PROVE  TypeOK'
<1>1. ObjectsOK /\ ExecsOK /\ TimersOK /\ RestOK
  BY Parts
<1>2. Moves(e, "load", outcome[e]) /\ wants' = [wants EXCEPT ![e] = p] /\ UNCHANGED <<obj, objects>>
  BY <1>1 DEF Create, Loads, Goes, Moves, ExecsOK
<1>3. ExecsOK'
  BY <1>1, <1>2, Moved, PiSessionsAssumption DEF Stages, ExecsOK
<1>4. TimersOK'
  BY <1>1, <1>2 DEF Create, Moves, TimersOK, ExecsOK
<1>5. ObjectsOK' /\ RestOK'
  BY <1>1 DEF Create, ObjectsOK, RestOK
<1>. QED  BY <1>3, <1>4, <1>5, PartsNext

LEMMA TypeCreateState ==
  ASSUME TypeOK, NEW e \in Execs, CreateState(e)
  PROVE  TypeOK'
<1>1. ObjectsOK /\ ExecsOK /\ TimersOK /\ RestOK
  BY Parts
<1>2. /\ objects' = Append(objects, [place |-> wants[e], session |-> "none"])
      /\ cached' = Len(objects') /\ obj' = [obj EXCEPT ![e] = Len(objects')]
      /\ raced' = IF cached = 0 THEN raced ELSE raced \cup {cached}
      /\ wants' = [wants EXCEPT ![e] = None] /\ Moves(e, "create", outcome[e])
  BY <1>1 DEF CreateState, Goes, Moves, ExecsOK
<1>. wants[e] \in Places
  BY <1>1 DEF CreateState, ExecsOK
<1>3. /\ objects' \in Seq([place: Places, session: Session]) /\ Len(objects') = Len(objects) + 1
      /\ objects'[Len(objects')].session = "none" /\ DOMAIN objects' = 1..Len(objects')
      /\ DOMAIN objects = 1..Len(objects) /\ Len(objects) \in Nat
  BY <1>1, <1>2 DEF ObjectsOK, Session
<1>4. obj' \in [Execs -> 0..Len(objects')] /\ obj'[e] # 0
  BY <1>1, <1>2, <1>3 DEF ExecsOK
<1>5. ExecsOK'
  BY <1>1, <1>2, <1>4, Moved DEF Stages, ExecsOK
<1>6. TimersOK'
  BY <1>1, <1>2 DEF CreateState, Moves, TimersOK, ExecsOK
<1>7. ObjectsOK' /\ RestOK'
  BY <1>1, <1>2, <1>3 DEF CreateState, ObjectsOK, RestOK
<1>. QED  BY <1>5, <1>6, <1>7, PartsNext

LEMMA TypeSessionMade ==
  ASSUME TypeOK, NEW e \in Execs, SessionMade(e)
  PROVE  TypeOK'
<1>1. ObjectsOK /\ ExecsOK /\ TimersOK /\ RestOK
  BY Parts
<1>2. obj[e] \in 1..Len(objects) /\ Len(objects) \in Nat
  BY <1>1 DEF SessionMade, ObjectsOK, ExecsOK
<1>3. /\ objects' = [objects EXCEPT ![obj[e]].session = "live"]
      /\ objects' \in Seq([place: Places, session: Session])
      /\ Len(objects') = Len(objects) /\ DOMAIN objects' = DOMAIN objects
      /\ objects'[obj[e]].session = "live"
      /\ \A j \in 1..Len(objects) : j # obj[e] => objects'[j] = objects[j]
  BY <1>1, <1>2, SessionSet DEF SessionMade, Session
<1>4. ExecsOK' /\ TimersOK' /\ shared' \subseteq Execs
  <2>1. /\ Enters(e, obj[e], TRUE) /\ at[e] \in {"idle", "create"} /\ UNCHANGED <<wants, asking>>
    BY DEF SessionMade
  <2>. QED  BY <1>1, <1>2, <1>3, <2>1, EntersTyped DEF RestOK
<1>5. ObjectsOK'
  <2>1. cached' = cached /\ raced' = raced
    BY DEF SessionMade
  <2>2. cached # 0 => objects'[cached].session # "disposed"
    BY <1>1, <1>2, <1>3 DEF ObjectsOK, Session
  <2>. QED  BY <1>1, <1>3, <2>1, <2>2 DEF ObjectsOK
<1>6. RestOK'
  BY <1>1, <1>4 DEF SessionMade, RestOK
<1>. QED  BY <1>4, <1>5, <1>6, PartsNext

LEMMA TypeNotMade ==
  ASSUME TypeOK, NEW e \in Execs, NotMade(e)
  PROVE  TypeOK'
<1>1. ObjectsOK /\ ExecsOK /\ TimersOK /\ RestOK
  BY Parts
<1>2. Moves(e, "over", "error") /\ wants' = [wants EXCEPT ![e] = None] /\ UNCHANGED <<obj, objects>>
  BY DEF NotMade, Ends, Goes, Moves
<1>3. ExecsOK'
  BY <1>1, <1>2, Moved DEF Stages, Outcome, ExecsOK
<1>4. TimersOK'
  BY <1>1, <1>2 DEF NotMade, Moves, TimersOK, ExecsOK
<1>5. ObjectsOK' /\ RestOK'
  BY <1>1, PiSessionsAssumption DEF NotMade, ObjectsOK, RestOK
<1>. QED  BY <1>3, <1>4, <1>5, PartsNext

\* A prompt that is over, or never was.
LEMMA TypeFinally ==
  ASSUME TypeOK, NEW e \in Execs, NEW how \in Outcome, Finally(e, how), RestOK',
         at[e] \in {"check", "prompt"},
         UNCHANGED <<objects, cached, wants, obj, asking, raced>>
  PROVE  TypeOK'
<1>1. ObjectsOK /\ ExecsOK /\ TimersOK
  BY Parts
<1>2. obj[e] # 0
  BY <1>1 DEF ExecsOK
<1>3. ExecsOK'
  BY <1>1, <1>2, FinallyExecs
<1>4. TimersOK'
  BY <1>1, FinallyTimers
<1>5. ObjectsOK'
  BY <1>1 DEF ObjectsOK
<1>. QED  BY <1>3, <1>4, <1>5, PartsNext

LEMMA TypePrompt ==
  ASSUME TypeOK, NEW e \in Execs, PromptEnds(e) \/ PromptFails(e)
  PROVE  TypeOK'
<1>1. RestOK
  BY Parts
<1>2. PICK how \in Outcome : Finally(e, how)
  BY <1>1, ResultTyping DEF PromptEnds, PromptFails, Outcome
<1>3. RestOK'
  BY <1>1 DEF PromptEnds, PromptFails, RestOK
<1>. QED  BY <1>2, <1>3, TypeFinally DEF PromptEnds, PromptFails

LEMMA TypeCheck ==
  ASSUME TypeOK, NEW r \in Runs, Check(r)
  PROVE  TypeOK'
<1>. DEFINE live == objects[obj[r]].session # "none"
<1>1. ObjectsOK /\ ExecsOK /\ TimersOK /\ RestOK
  BY Parts
<1>2. r \in Execs
  BY Kinds
<1>3. CASE r \in key
  <2>1. PICK how \in Outcome : Finally(r, how)
    BY <1>3 DEF Check, Outcome
  <2>2. RestOK'
    BY <1>1, <1>2, <1>3 DEF Check, RestOK
  <2>. QED  BY <1>2, <2>1, <2>2, TypeFinally DEF Check
<1>4. CASE r \notin key
  <2>1. Prompts(r, obj[r], live) /\ RestOK' /\ ObjectsOK' /\ live \in BOOLEAN
    BY <1>1, <1>4 DEF Check, RestOK, ObjectsOK
  <2>2. CASE Finally(r, "error")
    BY <1>2, <2>1, <2>2, TypeFinally DEF Check, Outcome
  <2>3. CASE ~Finally(r, "error")
    <3>1. Moves(r, "prompt", outcome[r]) /\ outcome[r] \in Outcome /\ obj[r] # 0
      BY <1>1, <1>2, <2>1, <2>3, PromptsMoves DEF Check, ExecsOK
    <3>2. ExecsOK'
      BY <1>1, <1>2, <3>1, Moved DEF Check, Stages, ExecsOK
    <3>3. TimersOK'
      BY <1>1, <1>2, <2>1, PromptsTimers DEF Check
    <3>. QED  BY <2>1, <3>2, <3>3, PartsNext
  <2>. QED  BY <2>2, <2>3
<1>. QED  BY <1>3, <1>4

LEMMA TypeCheckFails ==
  ASSUME TypeOK, NEW r \in Runs, CheckFails(r)
  PROVE  TypeOK'
<1>1. RestOK'
  BY Parts, PiSessionsAssumption DEF CheckFails, RestOK
<1>. QED  BY <1>1, Kinds, TypeFinally DEF CheckFails, Outcome

\* Nobody goes anywhere: the watcher, the timer and a cancellation.
LEMMA TypeWatch ==
  ASSUME TypeOK, NEW e \in Execs, Timeout(e) \/ (e \in Runs /\ (Poll(e) \/ Answer(e) \/ CancelRun(e)))
  PROVE  TypeOK'
<1>1. ObjectsOK /\ ExecsOK /\ TimersOK /\ RestOK
  BY Parts
<1>2. ObjectsOK' /\ ExecsOK'
  BY <1>1 DEF Timeout, Poll, Answer, CancelRun, ObjectsOK, ExecsOK
<1>3. TimersOK'
  BY <1>1 DEF Timeout, Poll, Answer, CancelRun, TimersOK
<1>4. RestOK'
  BY <1>1 DEF Timeout, Poll, Answer, CancelRun, RestOK, Abort, Prompting
<1>. QED  BY <1>2, <1>3, <1>4, PartsNext

LEMMA TypeClean ==
  ASSUME TypeOK, NEW r \in Runs, Clean(r) \/ CleanFails(r)
  PROVE  TypeOK'
<1>1. ObjectsOK /\ ExecsOK /\ TimersOK /\ RestOK /\ r \in Execs
  BY Parts, Kinds
<1>2. PICK how \in Outcome : Moves(r, "over", how)
  BY <1>1 DEF Clean, CleanFails, Ends, Goes, Moves, Outcome, ExecsOK
<1>3. UNCHANGED <<objects, wants, obj>> /\ r \notin asking /\ at[r] = "clean"
  BY DEF Clean, CleanFails
<1>4. ExecsOK'
  BY <1>1, <1>2, <1>3, Moved DEF Stages, ExecsOK
<1>5. TimersOK'
  BY <1>1, <1>2, <1>3 DEF Clean, CleanFails, Moves, TimersOK, ExecsOK
<1>6. ObjectsOK' /\ RestOK'
  BY <1>1, PiSessionsAssumption DEF Clean, CleanFails, ObjectsOK, RestOK
<1>. QED  BY <1>4, <1>5, <1>6, PartsNext

LEMMA TypeProcessDies ==
  ASSUME TypeOK, ProcessDies
  PROVE  TypeOK'
<1>. DEFINE Object == [place: Places, session: Session]
            Gone(i) == [objects[i] EXCEPT !.session = "disposed"]
<1>1. ObjectsOK /\ ExecsOK /\ TimersOK /\ RestOK
  BY Parts
<1>2. /\ objects \in [1..Len(objects) -> Object] /\ Len(objects) \in Nat
      /\ DOMAIN objects = 1..Len(objects)
  BY <1>1, LenProperties DEF ObjectsOK
<1>3. \A i \in 1..Len(objects) : Gone(i) \in Object
  BY <1>2 DEF Session
<1>4. objects' = [i \in 1..Len(objects) |-> Gone(i)]
  BY <1>2 DEF ProcessDies
<1>5. objects' \in Seq(Object)
  <2>. HIDE DEF Gone, Object
  <2>. QED  BY <1>2, <1>3, <1>4, IsASeq
<1>6. DOMAIN objects' = 1..Len(objects)
  BY <1>4
<1>7. Len(objects') = Len(objects) /\ DOMAIN objects' = DOMAIN objects
  BY <1>2, <1>5, <1>6, LenProperties
<1>8. ObjectsOK'
  BY <1>1, <1>2, <1>5, <1>7 DEF ProcessDies, ObjectsOK
<1>9. ExecsOK'
  BY <1>1, <1>7 DEF ProcessDies, ExecsOK, Stages, Outcome
<1>10. TimersOK' /\ RestOK'
  BY <1>1, PiSessionsAssumption DEF ProcessDies, TimersOK, RestOK
<1>. QED  BY <1>8, <1>9, <1>10, PartsNext

LEMMA TypeStep ==
  ASSUME TypeOK, [Next]_vars
  PROVE  TypeOK'
<1>1. CASE UNCHANGED vars
  BY <1>1 DEF vars, TypeOK
<1>2. ASSUME NEW e \in Execs, Ensure(e) PROVE TypeOK'
  BY <1>2, TypeReplace, TypeReuse, TypeCreate DEF Ensure
<1>3. ASSUME NEW e \in Execs, CreateState(e) \/ SessionMade(e) \/ NotMade(e) PROVE TypeOK'
  BY <1>3, TypeCreateState, TypeSessionMade, TypeNotMade
<1>4. ASSUME NEW e \in Execs, PromptEnds(e) \/ PromptFails(e) \/ Timeout(e) PROVE TypeOK'
  BY <1>4, TypePrompt, TypeWatch
<1>5. ASSUME NEW r \in Runs, Check(r) \/ Clean(r) \/ CleanFails(r) \/ CheckFails(r) PROVE TypeOK'
  BY <1>5, TypeCheck, TypeClean, TypeCheckFails
<1>6. ASSUME NEW r \in Runs, Poll(r) \/ Answer(r) \/ CancelRun(r) PROVE TypeOK'
  BY <1>6, TypeWatch, Kinds
<1>7. CASE ProcessDies
  BY <1>7, TypeProcessDies
<1>. QED  BY <1>1, <1>2, <1>3, <1>4, <1>5, <1>6, <1>7 DEF Next

\* Timers and watchers belong to prompts under way, objects to their
\* executions, and what the map offers was not disposed of.
\* (pi-executor.service.ts:124-199, pi-session-manager.service.ts:57-166)
THEOREM PiTypeCorrect == Spec => []TypeOK
<1>1. TypeOK /\ [Next]_vars => TypeOK'
  BY TypeStep
<1>. QED  BY <1>1, TypeInit, PTL DEF Spec

-----------------------------------------------------------------------------
(* A run that counts as succeeded was not cut short.                        *)

\* Two on one object know of each other.
MetShared ==
  \A e, x \in Execs :
    e # x /\ at[e] \in Using /\ at[x] \in Using /\ obj[e] = obj[x] => e \in shared

\* Who is aborted by nobody on its object was so by its own timer or watcher.
AbortSeen == \A e \in aborted : e \in shared \/ flags[e] # {}

\* SucceededIsWhole, from the moment the outcome is known.
WholeSoFar ==
  \A r \in Runs :
    at[r] \in {"clean", "over"} /\ outcome[r] = "succeeded" /\ r \in aborted => r \in shared

WholeInv == TypeOK /\ MetShared /\ AbortSeen /\ WholeSoFar

\* A run counts as succeeded already, or comes back now with no flag set.
Earned(r) == (at[r] \in {"clean", "over"} /\ outcome[r] = "succeeded") \/ flags[r] = {}

\* A step in which nobody enters an object or is aborted.
LEMMA Kept ==
  ASSUME WholeInv, aborted' = aborted, shared' = shared,
         \A e \in Execs : at'[e] \in Using => at[e] \in Using /\ obj'[e] = obj[e],
         \A e \in Execs : flags[e] # {} => flags'[e] # {},
         \A r \in Runs : at'[r] \in {"clean", "over"} /\ outcome'[r] = "succeeded" => Earned(r)
  PROVE  MetShared' /\ AbortSeen' /\ WholeSoFar'
<1>1. MetShared'
  BY DEF WholeInv, MetShared
<1>2. AbortSeen'
  <2>1. aborted \subseteq Execs
    BY Parts DEF WholeInv, RestOK
  <2>. QED  BY <2>1 DEF WholeInv, AbortSeen
<1>3. WholeSoFar'
  BY DEF WholeInv, AbortSeen, WholeSoFar, Earned
<1>. QED  BY <1>1, <1>2, <1>3

\* One execution moves, and none enters an object.
LEMMA KeptMoves ==
  ASSUME WholeInv, NEW e \in Execs, NEW to \in Stages, NEW how \in Outcome, Moves(e, to, how),
         to \in Using => at[e] \in Using,
         \A x \in Execs : at'[x] \in Using => obj'[x] = obj[x],
         \A x \in Execs : flags[x] # {} => flags'[x] # {},
         aborted' = aborted, shared' = shared,
         to \in {"clean", "over"} /\ how = "succeeded" => Earned(e)
  PROVE  MetShared' /\ AbortSeen' /\ WholeSoFar'
<1>1. at'[e] = to /\ outcome'[e] = how
  BY Parts DEF WholeInv, ExecsOK, Moves
<1>2. \A x \in Execs \ {e} : at'[x] = at[x] /\ outcome'[x] = outcome[x]
  BY Parts DEF WholeInv, ExecsOK, Moves
<1>3. \A x \in Execs : at'[x] \in Using => at[x] \in Using /\ obj'[x] = obj[x]
  BY <1>1, <1>2
<1>4. \A r \in Runs : at'[r] \in {"clean", "over"} /\ outcome'[r] = "succeeded" => Earned(r)
  BY <1>1, <1>2, Kinds DEF Earned
<1>. QED  BY <1>3, <1>4, Kept

LEMMA KeptFinally ==
  ASSUME WholeInv, NEW e \in Execs, NEW how \in Outcome, Finally(e, how),
         at[e] \in {"check", "prompt"}, obj' = obj, aborted' = aborted, shared' = shared,
         \A x \in Execs : flags[x] # {} => flags'[x] # {}, how = "succeeded" => flags[e] = {}
  PROVE  MetShared' /\ AbortSeen' /\ WholeSoFar'
<1>1. PICK to \in {"clean", "over"} : Moves(e, to, how)
  BY FinallyMoves
<1>2. to \in Stages /\ at[e] \in Using
  BY DEF Stages, Using
<1>. QED  BY <1>1, <1>2, KeptMoves DEF Earned

\* Whoever enters an object and those already there are marked.
LEMMA KeptEnters ==
  ASSUME WholeInv, NEW e \in Execs, NEW i, NEW live \in BOOLEAN, Enters(e, i, live),
         at[e] \in {"idle", "create"}, UNCHANGED <<flags, aborted>>
  PROVE  MetShared' /\ AbortSeen' /\ WholeSoFar'
<1>. DEFINE met == {x \in Execs \ {e} : obj[x] = i /\ at[x] \in Using}
<1>1. ExecsOK /\ RestOK
  BY Parts DEF WholeInv
<1>2. shared' = IF met = {} THEN shared ELSE shared \cup met \cup {e}
  BY DEF Enters
<1>3. PICK to, how : /\ to \in {"check", "prompt", "clean", "over"} /\ how \in {outcome[e], "error"}
                     /\ (to \in {"clean", "over"} => how = "error")
                     /\ Moves(e, to, how)
  <2>1. CASE e \in Runs
    BY <1>1, <2>1 DEF Enters, Goes, Moves, ExecsOK
  <2>2. CASE e \notin Runs
    BY <1>1, <2>2, PromptsMoves, FinallyMoves DEF Enters
  <2>. QED  BY <2>1, <2>2
<1>4. at'[e] = to /\ outcome'[e] = how
  BY <1>1, <1>3 DEF ExecsOK, Moves
<1>5. \A x \in Execs \ {e} : at'[x] = at[x] /\ outcome'[x] = outcome[x] /\ obj'[x] = obj[x]
  BY <1>1, <1>3 DEF ExecsOK, Moves, Enters
<1>6. obj'[e] = i
  BY <1>1 DEF ExecsOK, Enters
<1>7. MetShared'
  <2>1. SUFFICES ASSUME NEW x \in Execs, NEW y \in Execs, x # y, at'[x] \in Using,
                        at'[y] \in Using, obj'[x] = obj'[y]
                 PROVE  x \in shared'
    BY DEF MetShared
  <2>2. CASE x = e
    <3>1. y \in met
      BY <1>5, <1>6, <2>1, <2>2
    <3>. QED  BY <1>2, <2>2, <3>1
  <2>3. CASE y = e
    <3>1. x \in met
      BY <1>5, <1>6, <2>1, <2>3
    <3>. QED  BY <1>2, <3>1
  <2>4. CASE x # e /\ y # e
    <3>1. x \in shared
      BY <1>5, <2>1, <2>4 DEF WholeInv, MetShared
    <3>. QED  BY <1>2, <3>1
  <2>. QED  BY <2>2, <2>3, <2>4
<1>8. shared \subseteq shared'
  BY <1>2
<1>9. AbortSeen'
  BY <1>8 DEF WholeInv, AbortSeen
<1>10. WholeSoFar'
  <2>1. SUFFICES ASSUME NEW r \in Runs, at'[r] \in {"clean", "over"}, outcome'[r] = "succeeded",
                        r \in aborted
                 PROVE  r \in shared'
    BY DEF WholeSoFar
  <2>2. r # e
    BY <1>3, <1>4, <2>1
  <2>3. at[r] \in {"clean", "over"} /\ outcome[r] = "succeeded"
    BY <1>5, <2>1, <2>2, Kinds
  <2>. QED  BY <1>8, <2>1, <2>3 DEF WholeInv, WholeSoFar
<1>. QED  BY <1>7, <1>9, <1>10

\* A timer or a late answer reaches the prompts of its object: its own, which is
\* told, and those that share it.
LEMMA KeptAbort ==
  ASSUME WholeInv, NEW e \in Execs, at[e] \in Using, Abort(obj[e]), UNCHANGED execVars, shared' = shared,
         flags'[e] # {}, \A x \in Execs : flags[x] # {} => flags'[x] # {}
  PROVE  MetShared' /\ AbortSeen' /\ WholeSoFar'
<1>1. aborted' = aborted \cup Prompting(obj[e])
  BY DEF Abort
<1>2. \A x \in Prompting(obj[e]) \ {e} : x \in shared /\ at[x] = "prompt"
  BY DEF WholeInv, MetShared, Prompting, Using
<1>3. MetShared'
  BY DEF WholeInv, MetShared
<1>4. AbortSeen'
  <2>1. aborted \subseteq Execs
    BY Parts DEF WholeInv, RestOK
  <2>. QED  BY <1>1, <1>2, <2>1 DEF WholeInv, AbortSeen
<1>5. WholeSoFar'
  <2>1. \A x \in Prompting(obj[e]) : at[x] = "prompt"
    BY DEF Prompting
  <2>. QED  BY <1>1, <2>1 DEF WholeInv, WholeSoFar
<1>. QED  BY <1>3, <1>4, <1>5

LEMMA WholeEnsure ==
  ASSUME WholeInv, NEW e \in Execs, Ensure(e)
  PROVE  MetShared' /\ AbortSeen' /\ WholeSoFar'
<1>1. PICK p \in Places : Replace(e, p) \/ Reuse(e, p) \/ Create(e, p)
  BY DEF Ensure
<1>2. ExecsOK
  BY Parts DEF WholeInv
<1>3. CASE Reuse(e, p)
  <2>1. /\ Enters(e, cached, objects[cached].session # "none") /\ at[e] \in {"idle", "create"}
        /\ UNCHANGED <<flags, aborted>>
    BY <1>3 DEF Reuse
  <2>. QED  BY <2>1, KeptEnters
<1>4. CASE Replace(e, p) \/ Create(e, p)
  <2>1. PICK to \in {"load", "over"}, how \in {outcome[e], "error"} :
          Moves(e, to, how) /\ (to = "over" => how = "error")
    BY <1>2, <1>4 DEF Replace, Create, Loads, Ends, Goes, Moves, ExecsOK
  <2>2. to \in Stages /\ how \in Outcome /\ to \notin Using
    BY <1>2 DEF Stages, Outcome, Using, ExecsOK
  <2>3. UNCHANGED <<obj, flags, aborted, shared>>
    BY <1>4 DEF Replace, Create
  <2>. QED  BY <2>1, <2>2, <2>3, KeptMoves
<1>. QED  BY <1>1, <1>3, <1>4

LEMMA WholeMake ==
  ASSUME WholeInv, NEW e \in Execs, CreateState(e) \/ SessionMade(e) \/ NotMade(e)
  PROVE  MetShared' /\ AbortSeen' /\ WholeSoFar'
<1>1. ExecsOK
  BY Parts DEF WholeInv
<1>2. CASE SessionMade(e)
  <2>1. Enters(e, obj[e], TRUE) /\ at[e] \in {"idle", "create"} /\ UNCHANGED <<flags, aborted>>
    BY <1>2 DEF SessionMade
  <2>. QED  BY <2>1, KeptEnters
<1>3. CASE CreateState(e)
  <2>1. Moves(e, "create", outcome[e]) /\ outcome[e] \in Outcome /\ "create" \in Stages
    BY <1>1, <1>3 DEF CreateState, Goes, Moves, ExecsOK, Stages
  <2>2. \A x \in Execs : at'[x] \in Using => obj'[x] = obj[x]
    BY <1>1, <1>3, <2>1 DEF CreateState, Moves, ExecsOK, Using
  <2>. QED  BY <1>3, <2>1, <2>2, KeptMoves DEF CreateState, Using
<1>4. CASE NotMade(e)
  <2>1. Moves(e, "over", "error") /\ "over" \in Stages /\ "error" \in Outcome
    BY <1>4 DEF NotMade, Ends, Goes, Moves, Stages, Outcome
  <2>. QED  BY <1>4, <2>1, KeptMoves DEF NotMade, Using
<1>. QED  BY <1>2, <1>3, <1>4

LEMMA WholePrompt ==
  ASSUME WholeInv, NEW e \in Execs, PromptEnds(e) \/ PromptFails(e)
  PROVE  MetShared' /\ AbortSeen' /\ WholeSoFar'
<1>1. RestOK
  BY Parts DEF WholeInv
<1>2. PICK how \in Outcome : Finally(e, how) /\ (how = "succeeded" => flags[e] = {})
  BY <1>1, ResultTyping DEF PromptEnds, PromptFails, Outcome
<1>3. at[e] \in {"check", "prompt"} /\ UNCHANGED <<obj, flags, aborted, shared>>
  BY DEF PromptEnds, PromptFails
<1>. QED  BY <1>2, <1>3, KeptFinally

LEMMA WholeCheck ==
  ASSUME WholeInv, NEW r \in Runs, Check(r) \/ CheckFails(r)
  PROVE  MetShared' /\ AbortSeen' /\ WholeSoFar'
<1>1. ExecsOK /\ RestOK /\ r \in Execs
  BY Parts, Kinds DEF WholeInv
<1>2. at[r] \in {"check", "prompt"} /\ UNCHANGED <<obj, aborted, shared>>
  BY DEF Check, CheckFails
<1>3. \A x \in Execs : flags[x] # {} => flags'[x] # {}
  BY <1>1 DEF Check, CheckFails, RestOK
<1>4. CASE \E how \in Outcome \ {"succeeded"} : Finally(r, how)
  BY <1>1, <1>2, <1>3, <1>4, KeptFinally
<1>5. CASE ~\E how \in Outcome \ {"succeeded"} : Finally(r, how)
  <2>1. ~Finally(r, "error") /\ ~Finally(r, "canceled")
    BY <1>5 DEF Outcome
  <2>2. Check(r) /\ r \notin key
    BY <2>1 DEF Check, CheckFails
  <2>3. Prompts(r, obj[r], objects[obj[r]].session # "none")
    BY <2>2 DEF Check
  <2>4. Moves(r, "prompt", outcome[r])
    BY <1>1, <2>1, <2>3, PromptsMoves
  <2>5. "prompt" \in Stages /\ outcome[r] \in Outcome /\ at[r] \in Using
    BY <1>1, <1>2 DEF Stages, Using, ExecsOK
  <2>. QED  BY <1>1, <1>2, <1>3, <2>4, <2>5, KeptMoves
<1>. QED  BY <1>4, <1>5

LEMMA WholeClean ==
  ASSUME WholeInv, NEW r \in Runs, Clean(r) \/ CleanFails(r)
  PROVE  MetShared' /\ AbortSeen' /\ WholeSoFar'
<1>1. ExecsOK /\ r \in Execs
  BY Parts, Kinds DEF WholeInv
<1>2. PICK how \in {outcome[r], "error"} : Moves(r, "over", how)
  BY <1>1 DEF Clean, CleanFails, Ends, Goes, Moves, ExecsOK
<1>3. how \in Outcome /\ "over" \in Stages /\ "over" \notin Using
  BY <1>1 DEF Outcome, Stages, Using, ExecsOK
<1>4. at[r] = "clean" /\ UNCHANGED <<obj, flags, aborted, shared>>
  BY DEF Clean, CleanFails
<1>. QED  BY <1>1, <1>2, <1>3, <1>4, KeptMoves DEF Earned

LEMMA WholeWatch ==
  ASSUME WholeInv, NEW e \in Execs, Timeout(e) \/ (e \in Runs /\ (Poll(e) \/ Answer(e) \/ CancelRun(e)))
  PROVE  MetShared' /\ AbortSeen' /\ WholeSoFar'
<1>1. TimersOK /\ RestOK
  BY Parts DEF WholeInv
<1>2. CASE Timeout(e) \/ (Answer(e) /\ e \in Runs /\ e \in key)
  <2>1. at[e] \in Using
    BY <1>1, <1>2 DEF Timeout, Answer, TimersOK, Using
  <2>2. Abort(obj[e]) /\ UNCHANGED execVars /\ shared' = shared
    BY <1>2 DEF Timeout, Answer
  <2>3. flags'[e] # {} /\ \A x \in Execs : flags[x] # {} => flags'[x] # {}
    BY <1>1, <1>2 DEF Timeout, Answer, RestOK
  <2>. QED  BY <2>1, <2>2, <2>3, KeptAbort
<1>3. CASE Poll(e) \/ CancelRun(e) \/ (Answer(e) /\ e \notin key)
  <2>1. UNCHANGED <<at, obj, outcome, flags, aborted, shared>>
    BY <1>3 DEF Poll, CancelRun, Answer
  <2>. QED  BY <2>1 DEF WholeInv, MetShared, AbortSeen, WholeSoFar
<1>. QED  BY <1>2, <1>3

LEMMA WholeProcessDies ==
  ASSUME WholeInv, ProcessDies
  PROVE  MetShared' /\ AbortSeen' /\ WholeSoFar'
<1>1. \A e \in Execs : at'[e] \notin Using
  BY DEF ProcessDies, Using
<1>2. \A r \in Runs : at'[r] \in {"clean", "over"} /\ outcome'[r] = "succeeded" => Earned(r)
  <2>1. SUFFICES ASSUME NEW r \in Runs, at'[r] \in {"clean", "over"}, outcome'[r] = "succeeded"
                 PROVE  Earned(r)
    OBVIOUS
  <2>2. at'[r] = (IF at[r] = "idle" THEN "idle" ELSE "over")
    BY Kinds DEF ProcessDies
  <2>3. outcome'[r] = IF at[r] \in {"idle", "over"} THEN outcome[r] ELSE "error"
    BY Kinds DEF ProcessDies
  <2>. QED  BY <2>1, <2>2, <2>3 DEF Earned
<1>. QED  BY <1>1, <1>2, Kept DEF ProcessDies

LEMMA WholeStep ==
  ASSUME WholeInv, [Next]_vars
  PROVE  WholeInv'
<1>1. TypeOK'
  BY TypeStep DEF WholeInv
<1>2. CASE UNCHANGED vars
  BY <1>1, <1>2 DEF vars, WholeInv, MetShared, AbortSeen, WholeSoFar
<1>3. CASE Next
  BY <1>1, <1>3, Kinds, WholeEnsure, WholeMake, WholePrompt, WholeCheck, WholeClean, WholeWatch,
     WholeProcessDies DEF Next, WholeInv
<1>. QED  BY <1>2, <1>3

\* However runs, decisions, timers and watchers interleave, a run counted as
\* succeeded was aborted by nobody, unless another was on its session with it.
\* (pi-executor.service.ts:130-155, 185-199, 448-468)
THEOREM SucceededRunsAreWhole == Spec => []SucceededIsWhole
<1>1. Init => WholeInv
  BY TypeInit DEF Init, WholeInv, MetShared, AbortSeen, WholeSoFar, Using
<1>2. WholeInv /\ [Next]_vars => WholeInv'
  BY WholeStep
<1>3. WholeInv => SucceededIsWhole
  BY DEF WholeInv, WholeSoFar, SucceededIsWhole
<1>. QED  BY <1>1, <1>2, <1>3, PTL DEF Spec

-----------------------------------------------------------------------------
(* A live session is in the map.                                            *)

\* What is neither in the map nor pushed out of it by a second making is disposed of.
Remembered ==
  \A i \in DOMAIN objects : i = cached \/ i \in raced \/ objects[i].session = "disposed"

\* An object whose session is being made has none yet, and one that makes it.
MadeOnce ==
  \A e \in Execs : at[e] = "create" =>
    /\ objects[obj[e]].session = "none"
    /\ \A x \in Execs : at[x] = "create" /\ obj[x] = obj[e] => x = e

MapInv == TypeOK /\ Remembered /\ MadeOnce

LEMMA Indexes ==
  ASSUME TypeOK
  PROVE  /\ Len(objects) \in Nat /\ DOMAIN objects = 1..Len(objects)
         /\ cached \in 0..Len(objects)
         /\ \A e \in Execs : obj[e] \in 0..Len(objects)
         /\ \A e \in Execs : at[e] = "create" => obj[e] \in 1..Len(objects)
<1>1. ObjectsOK /\ ExecsOK
  BY Parts
<1>2. Len(objects) \in Nat /\ DOMAIN objects = 1..Len(objects)
  BY <1>1, LenProperties DEF ObjectsOK
<1>. QED  BY <1>1, <1>2 DEF ObjectsOK, ExecsOK

\* A step that makes no object, sets no session and sends nobody to make one.
LEMMA MapStays ==
  ASSUME MapInv, UNCHANGED <<objects, cached, raced>>,
         \A e \in Execs : at'[e] = "create" => at[e] = "create" /\ obj'[e] = obj[e]
  PROVE  Remembered' /\ MadeOnce'
BY DEF MapInv, Remembered, MadeOnce

\* Where whoever enters an object, and whoever leaves, is then.
LEMMA EntersElsewhere ==
  ASSUME ExecsOK, NEW e \in Execs, NEW i, NEW live \in BOOLEAN, Enters(e, i, live)
  PROVE  /\ at'[e] # "create"
         /\ \A x \in Execs \ {e} : at'[x] = at[x] /\ obj'[x] = obj[x]
<1>1. PICK to \in {"check", "prompt", "clean", "over"} : at' = [at EXCEPT ![e] = to]
  <2>1. CASE e \in Runs
    BY <2>1 DEF Enters, Goes
  <2>2. CASE e \notin Runs
    BY <2>2, PromptsMoves, FinallyMoves DEF Enters, Moves
  <2>. QED  BY <2>1, <2>2
<1>2. at'[e] = to
  BY <1>1 DEF ExecsOK
<1>. QED  BY <1>1, <1>2 DEF ExecsOK, Enters

LEMMA MapEnsure ==
  ASSUME MapInv, NEW e \in Execs, Ensure(e)
  PROVE  Remembered' /\ MadeOnce'
<1>1. PICK p \in Places : Replace(e, p) \/ Reuse(e, p) \/ Create(e, p)
  BY DEF Ensure
<1>2. ObjectsOK /\ ExecsOK
  BY Parts DEF MapInv
<1>3. CASE Reuse(e, p)
  <2>1. \A x \in Execs : at'[x] = "create" => at[x] = "create" /\ obj'[x] = obj[x]
    BY <1>2, <1>3, EntersElsewhere DEF Reuse
  <2>. QED  BY <1>3, <2>1, MapStays DEF Reuse
<1>4. CASE Create(e, p)
  <2>1. \A x \in Execs : at'[x] = "create" => at[x] = "create" /\ obj'[x] = obj[x]
    BY <1>2, <1>4 DEF Create, Loads, Goes, ExecsOK
  <2>. QED  BY <1>4, <2>1, MapStays DEF Create
<1>5. CASE Replace(e, p) /\ objects[cached].session = "none"
  <2>1. \A x \in Execs : at'[x] = "create" => at[x] = "create" /\ obj'[x] = obj[x]
    BY <1>2, <1>5 DEF Replace, Ends, Goes, ExecsOK
  <2>. QED  BY <1>5, <2>1, MapStays DEF Replace
<1>6. CASE Replace(e, p) /\ objects[cached].session # "none"
  <2>1. \A x \in Execs : at'[x] = "create" => at[x] = "create" /\ obj'[x] = obj[x]
    BY <1>2, <1>6 DEF Replace, Loads, Goes, ExecsOK
  <2>2. cached \in 1..Len(objects) /\ raced' = raced
    BY <1>6, Indexes DEF Replace, MapInv
  <2>3. /\ objects'[cached].session = "disposed" /\ DOMAIN objects' = DOMAIN objects
        /\ \A j \in 1..Len(objects) : j # cached => objects'[j] = objects[j]
    BY <1>2, <1>6, <2>2, SessionSet DEF Replace, Session
  <2>4. Remembered'
    BY <2>2, <2>3, Indexes DEF MapInv, Remembered
  <2>5. MadeOnce'
    <3>1. SUFFICES ASSUME NEW x \in Execs, at'[x] = "create"
                   PROVE  /\ objects'[obj'[x]].session = "none"
                          /\ \A y \in Execs : at'[y] = "create" /\ obj'[y] = obj'[x] => y = x
      BY DEF MadeOnce
    <3>2. at[x] = "create" /\ obj'[x] = obj[x] /\ objects[obj[x]].session = "none"
      BY <2>1, <3>1 DEF MapInv, MadeOnce
    <3>3. objects'[obj[x]] = objects[obj[x]]
      BY <1>6, <2>3, <3>2, Indexes DEF MapInv
    <3>. QED  BY <2>1, <3>2, <3>3 DEF MapInv, MadeOnce
  <2>. QED  BY <2>4, <2>5
<1>. QED  BY <1>1, <1>3, <1>4, <1>5, <1>6

LEMMA MapCreateState ==
  ASSUME MapInv, NEW e \in Execs, CreateState(e)
  PROVE  Remembered' /\ MadeOnce'
<1>. DEFINE new == Len(objects) + 1
            o == [place |-> wants[e], session |-> "none"]
<1>1. ExecsOK /\ Len(objects) \in Nat /\ DOMAIN objects = 1..Len(objects)
  BY Parts, Indexes DEF MapInv
<1>2. /\ objects' = Append(objects, o) /\ Len(objects') = new /\ DOMAIN objects' = 1..new
      /\ objects'[new] = o /\ \A j \in 1..Len(objects) : objects'[j] = objects[j]
  BY <1>1, Parts DEF CreateState, MapInv, ObjectsOK
<1>3. cached' = new /\ obj' = [obj EXCEPT ![e] = new]
  BY <1>2 DEF CreateState
<1>4. raced \subseteq raced' /\ (cached # 0 => cached \in raced')
  BY DEF CreateState
<1>5. Remembered'
  BY <1>1, <1>2, <1>3, <1>4 DEF MapInv, Remembered
<1>6. obj'[e] = new /\ \A x \in Execs \ {e} : at'[x] = at[x] /\ obj'[x] = obj[x]
  BY <1>1, <1>3 DEF CreateState, Goes, ExecsOK
<1>7. MadeOnce'
  <2>1. SUFFICES ASSUME NEW x \in Execs, at'[x] = "create"
                 PROVE  /\ objects'[obj'[x]].session = "none"
                        /\ \A y \in Execs : at'[y] = "create" /\ obj'[y] = obj'[x] => y = x
    BY DEF MadeOnce
  <2>2. \A y \in Execs \ {e} : at'[y] = "create" => obj[y] \in 1..Len(objects) /\ obj'[y] = obj[y]
    BY <1>6, Indexes DEF MapInv
  <2>3. CASE x = e
    BY <1>1, <1>2, <1>6, <2>2, <2>3
  <2>4. CASE x # e
    <3>1. at[x] = "create" /\ objects[obj[x]].session = "none"
      BY <1>6, <2>1, <2>4 DEF MapInv, MadeOnce
    <3>2. objects'[obj'[x]].session = "none"
      BY <1>2, <2>1, <2>2, <2>4, <3>1
    <3>3. \A y \in Execs \ {e} : at'[y] = "create" /\ obj'[y] = obj'[x] => y = x
      BY <1>6, <2>4, <3>1 DEF MapInv, MadeOnce
    <3>4. obj'[x] # obj'[e]
      BY <1>1, <1>6, <2>1, <2>2, <2>4
    <3>. QED  BY <3>2, <3>3, <3>4
  <2>. QED  BY <2>3, <2>4
<1>. QED  BY <1>5, <1>7

LEMMA MapSessionMade ==
  ASSUME MapInv, NEW e \in Execs, SessionMade(e)
  PROVE  Remembered' /\ MadeOnce'
<1>. DEFINE i == obj[e]
<1>1. ObjectsOK /\ ExecsOK /\ i \in 1..Len(objects) /\ DOMAIN objects = 1..Len(objects)
  BY Parts, Indexes DEF MapInv, SessionMade
<1>2. /\ objects'[i].session = "live" /\ DOMAIN objects' = DOMAIN objects
      /\ \A j \in 1..Len(objects) : j # i => objects'[j] = objects[j]
  BY <1>1, SessionSet DEF SessionMade, Session
<1>3. cached' = cached /\ raced' = raced /\ Enters(e, i, TRUE) /\ at[e] = "create"
  BY DEF SessionMade
<1>4. objects[i].session = "none" /\ (i = cached \/ i \in raced)
  BY <1>1, <1>3 DEF MapInv, MadeOnce, Remembered
<1>5. Remembered'
  BY <1>1, <1>2, <1>3, <1>4 DEF MapInv, Remembered
<1>6. at'[e] # "create" /\ \A x \in Execs \ {e} : at'[x] = at[x] /\ obj'[x] = obj[x]
  BY <1>1, <1>3, EntersElsewhere
<1>7. MadeOnce'
  <2>1. SUFFICES ASSUME NEW x \in Execs, at'[x] = "create"
                 PROVE  /\ objects'[obj'[x]].session = "none"
                        /\ \A y \in Execs : at'[y] = "create" /\ obj'[y] = obj'[x] => y = x
    BY DEF MadeOnce
  <2>2. x # e /\ at[x] = "create" /\ obj'[x] = obj[x]
    BY <1>6, <2>1
  <2>3. obj[x] # i /\ obj[x] \in 1..Len(objects) /\ objects[obj[x]].session = "none"
    BY <1>3, <2>2, Indexes DEF MapInv, MadeOnce
  <2>4. \A y \in Execs : at'[y] = "create" => at[y] = "create" /\ obj'[y] = obj[y]
    BY <1>6
  <2>. QED  BY <1>2, <2>2, <2>3, <2>4 DEF MapInv, MadeOnce
<1>. QED  BY <1>5, <1>7

LEMMA MapLeaves ==
  ASSUME MapInv, NEW e \in Execs,
         \/ NotMade(e) \/ PromptEnds(e) \/ PromptFails(e) \/ Timeout(e)
         \/ e \in Runs /\ (\/ Check(e) \/ CheckFails(e) \/ Clean(e) \/ CleanFails(e)
                          \/ Poll(e) \/ Answer(e) \/ CancelRun(e))
  PROVE  Remembered' /\ MadeOnce'
<1>1. ExecsOK
  BY Parts DEF MapInv
<1>2. UNCHANGED <<objects, cached, raced, obj>>
  BY DEF NotMade, PromptEnds, PromptFails, Timeout, Check, CheckFails, Clean, CleanFails, Poll,
         Answer, CancelRun
<1>3. \A x \in Execs : at'[x] = "create" => at[x] = "create"
  <2>1. CASE NotMade(e) \/ (e \in Runs /\ (Clean(e) \/ CleanFails(e)))
    BY <1>1, <2>1 DEF NotMade, Clean, CleanFails, Ends, Goes, ExecsOK
  <2>2. CASE Timeout(e) \/ (e \in Runs /\ (Poll(e) \/ Answer(e) \/ CancelRun(e)))
    BY <2>2 DEF Timeout, Poll, Answer, CancelRun
  <2>3. ASSUME NEW how, Finally(e, how) PROVE \A x \in Execs : at'[x] = "create" => at[x] = "create"
    BY <1>1, <2>3, FinallyMoves DEF Moves, ExecsOK
  <2>4. CASE PromptEnds(e) \/ PromptFails(e) \/ CheckFails(e)
    BY <2>3, <2>4 DEF PromptEnds, PromptFails, CheckFails
  <2>5. CASE Check(e)
    <3>1. CASE e \in key
      BY <2>3, <2>5, <3>1 DEF Check
    <3>2. CASE e \notin key
      <4>1. Prompts(e, obj[e], objects[obj[e]].session # "none")
        BY <2>5, <3>2 DEF Check
      <4>2. CASE Moves(e, "prompt", outcome[e])
        BY <1>1, <4>2 DEF Moves, ExecsOK
      <4>. QED  BY <1>1, <2>3, <4>1, <4>2, PromptsMoves
    <3>. QED  BY <3>1, <3>2
  <2>. QED  BY <2>1, <2>2, <2>4, <2>5
<1>. QED  BY <1>2, <1>3, MapStays

LEMMA MapProcessDies ==
  ASSUME MapInv, ProcessDies
  PROVE  Remembered' /\ MadeOnce'
<1>1. Remembered'
  <2>1. DOMAIN objects' = DOMAIN objects
    BY DEF ProcessDies
  <2>2. \A i \in DOMAIN objects : objects'[i] = [objects[i] EXCEPT !.session = "disposed"]
    BY DEF ProcessDies
  <2>3. \A i \in DOMAIN objects : objects[i] \in [place: Places, session: Session]
    BY Parts, LenProperties DEF MapInv, ObjectsOK
  <2>. QED  BY <2>1, <2>2, <2>3 DEF Remembered
<1>2. \A e \in Execs : at'[e] # "create"
  BY DEF ProcessDies
<1>. QED  BY <1>1, <1>2 DEF MadeOnce

LEMMA MapStep ==
  ASSUME MapInv, [Next]_vars
  PROVE  MapInv'
<1>1. TypeOK'
  BY TypeStep DEF MapInv
<1>2. CASE UNCHANGED vars
  BY <1>1, <1>2 DEF vars, MapInv, Remembered, MadeOnce
<1>3. CASE Next
  BY <1>1, <1>3, Kinds, MapEnsure, MapCreateState, MapSessionMade, MapLeaves, MapProcessDies
     DEF Next, MapInv
<1>. QED  BY <1>2, <1>3

\* A session that was made and not disposed of is in the map, unless two calls
\* made one at once: an execution that replaces it, fails on it or leaves it
\* never loses it.
\* (pi-session-manager.service.ts:57-166)
THEOREM SessionsAreRemembered == Spec => []OrphanHasCause
<1>1. Init => MapInv
  BY TypeInit DEF Init, MapInv, Remembered, MadeOnce
<1>2. MapInv /\ [Next]_vars => MapInv'
  BY MapStep
<1>3. MapInv => OrphanHasCause
  BY DEF MapInv, Remembered, OrphanHasCause
<1>. QED  BY <1>1, <1>2, <1>3, PTL DEF Spec
=============================================================================
