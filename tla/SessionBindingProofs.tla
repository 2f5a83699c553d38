------------------------- MODULE SessionBindingProofs -------------------------
(***************************************************************************)
(* What SessionBinding promises for any number of projects and requests,   *)
(* and any bounds.                                                         *)
(***************************************************************************)
EXTENDS SessionBinding, SequenceTheorems, TLAPS

-----------------------------------------------------------------------------
(* The inductive invariant: rows and requests.                              *)

\* Where a request of each kind can be.
Reading   == {"tag", "tagged", "lookup", "ask", "asked"}
Messaging == {"policy", "default", "find", "effective", "enter", "entered"}
Confirming == {"late", "confirmed"}
Adding    == {"add", "added"}
Looking   == {"check", "create"}
Placing   == {"environment", "activate", "bind"}
Filling   == {"make", "making"}
Finishing == {"rebind", "rebinding", "remake", "remaking"}
Binding   == Placing \cup {"binding"} \cup Filling \cup {"allow"} \cup Finishing
Unbinding == {"disable", "release", "silence", "close"}
Removing  == {"wipe", "unproject"}
Places == Reading \cup Messaging \cup {"source"} \cup Confirming \cup Submits \cup Adding
            \cup Looking \cup Binding \cup Unbinding \cup Removing \cup {"drop"}
            \cup {"notice", "noticed", "chosen", "edit"} \cup Waiting

Policy == [proj: Projects, on: BOOLEAN, env: Projects \cup {None}]

SessionOK ==
  session \in Session /\ issued \in Nat /\ session.id <= issued /\ (session.id = 0 => session = Absent)

RowShape ==
  /\ SessionOK
  /\ private \in [made: BOOLEAN, proj: Projects \cup {None}]
  /\ project \in [Projects -> {"none", "initializing", "active", "closed", "gone"}]
  /\ bound \in Projects \cup {None} /\ envs \subseteq Projects
  /\ lock \in Confirms \cup {None}
  /\ runs \in [Confirms -> {"none", "locked", "made", "live", "deleted", "settling", "over"}]

RequestShape ==
  /\ at \in [Handlers -> Places] /\ seen \in [Handlers -> Session]
  /\ got \in [Handlers -> Projects \cup {None}] /\ env \in [Handlers -> Projects \cup {None}]

RestShape ==
  /\ page \in [Projects -> Nat] /\ faults \in 0..MaxFaults
  /\ crossed \subseteq Projects /\ unsettled \subseteq Projects /\ hasty \subseteq Mentions
  /\ outdated \in BOOLEAN /\ orphaned \subseteq Confirms

Shape == RowShape /\ RequestShape /\ RestShape

\* Only requests of its kind come to a place, and what they work for is known there.
Kind(h) ==
  /\ at[h] \in Reading \cup Messaging \cup {"source"} => h \in Mentions
  /\ at[h] \in Confirming \cup {"submit", "acquire", "queue", "mark", "enqueue", "free", "clear"}
       => h \in Confirms
  /\ at[h] = "free" => seen[h].token = h
  /\ at[h] \in Adding => h \in Additions
  /\ at[h] \in Looking \cup Binding => h \in Projects /\ got[h] = h /\ env[h] = h
  /\ at[h] \in Unbinding => h \in Unbinds
  /\ at[h] \in Removing \cup {"drop", "notice", "noticed", "chosen", "edit"} => h \in Requests
  /\ at[h] = "chosen" => h \in Privates
  /\ at[h] \in {"refused", "handed"} => h \in Mentions \cup Confirms \cup Privates \cup Additions \cup Projects
  /\ at[h] \in Messaging \cup {"source", "submit", "chosen", "edit"} \cup Confirming
                 \cup Unbinding \cup Removing => got[h] # None
  /\ at[h] \in {"submit", "acquire", "queue", "mark", "release", "silence"} => seen[h].id # 0

RowsOK ==
  /\ Exists(bound) /\ Exists(session.proj) /\ \A p \in envs : Exists(p)
  /\ session.proj # None => session.proj # private.proj

\* A project is in nobody's hands before it is made, but its binding's.
Unmade ==
  \A p \in Projects :
    /\ project[p] = "none" => /\ at[p] \in {"off", "before", "over"} \cup Looking
                              /\ \A h \in Handlers : h # p => got[h] # p
    /\ at[p] \in Looking \cup {"off"} => project[p] = "none"

\* One policy of each project that has one, all of them there.
OnePerProject(s) ==
  /\ s \in Seq(Policy)
  /\ \A i \in 1..Len(s) : Exists(s[i].proj)
  /\ \A i, j \in 1..Len(s) : s[i].proj = s[j].proj => i = j

PoliciesOK == OnePerProject(policies)

\* A submission has the key until the session names its run, and the session's token
\* is always its run's.
LockOK ==
  /\ LockIsOwned
  /\ \A c \in Confirms : runs[c] \in {"locked", "made"} => lock = c \/ c \in orphaned
  /\ session.run # None => session.token = session.run

-----------------------------------------------------------------------------
(* The inductive invariant: who works for which project.                    *)

\* A request that may write its project, and the mode of a group at work.
Working(h) == at[h] \in Messaging \cup Confirming \cup Adding \cup Binding /\ got[h] # None
Idle == \A h \in Handlers : ~Working(h)

\* Whoever works for a project that is being unbound, or is, crossed it.
CrossedWhileWorking ==
  \A h \in Handlers : Working(h) /\ got[h] \in Parting => got[h] \in crossed

\* The binding of p has looked for the session and found it, or none.
Found(p) == at[p] \notin Placing /\ ~(at[p] = "binding" /\ seen[p].id # 0)

\* From then on the session is the bound project's, or nobody's, until another
\* project is crossed or the binding breaks off.
NamesBound ==
  bound \notin unsettled \cup {None} /\ Found(bound) => session.proj \in {None, bound} \cup crossed

\* A project that is about to be closed leaves a group at rest.
AtRest == session.mode # "active" /\ Idle

ClosesAtRest ==
  \A u \in Unbinds : at[u] = "close" /\ got[u] = bound => session.proj \in crossed \cup {None} \/ AtRest

\* A session that names an unbound project is at rest, unless the project bound
\* by now is not bound to the end; nobody removes that one then.
Stale == session.proj \notin {None, bound} \cup crossed

StaleAtRest ==
  Stale => /\ bound \in Settling \/ AtRest
           /\ \A d \in Handlers : at[d] \in Removing => got[d] # bound

-----------------------------------------------------------------------------
(* The inductive invariant: what a message finds.                           *)

\* A message of a project that was bound to the end stays one.
SettledFor ==
  \A m \in Mentions : at[m] \in Messaging \cup {"source"} /\ m \notin hasty => got[m] \notin Settling

\* The binding of p has written the session, or is about to leave it as it read it.
Tied(p) == at[p] \in Waiting \cup Finishing \cup {"allow"} \/ (at[p] = "making" /\ seen[p].proj # None)

\* Nothing crossed: the session is the bound project's.
SessionIsBound ==
  crossed = {} /\ bound \notin unsettled \cup {None} /\ Tied(bound) => session.proj = bound

\* The bound project has its environment, and its policy is the latest.
HasEnv == bound \notin unsettled \cup {None} /\ at[bound] # "environment" => bound \in envs

Allowed(p) == at[p] \in Waiting \cup Finishing

LatestIsBound ==
  bound \notin unsettled \cup {None} /\ Allowed(bound) /\ ~outdated =>
    /\ Len(policies) # 0
    /\ policies[Len(policies)].proj = bound /\ policies[Len(policies)].env = bound

\* So a message that nothing crossed has its project's environment.
Steady(m) == m \notin hasty /\ got[m] \notin crossed /\ ~outdated /\ Exists(got[m])

InItsEnvironment ==
  \A m \in Mentions : Steady(m) =>
    /\ at[m] \notin {"default", "effective"}
    /\ at[m] \in {"find", "enter", "entered", "source"} => env[m] = got[m]

-----------------------------------------------------------------------------
(* Rows and requests: what a step keeps.                                    *)

Base ==
  /\ Shape /\ (\A h \in Handlers : Kind(h)) /\ RowsOK /\ Unmade /\ PoliciesOK /\ LockOK

LEMMA AbsentIs ==
  /\ Absent \in Session /\ Absent.id = 0 /\ Absent.proj = None /\ Absent.env = None
  /\ Absent.mode = "none" /\ Absent.run = None /\ Absent.token = None
BY DEF Absent, Session

LEMMA NoneIs == None \notin Projects /\ None \notin Handlers
BY BindingAssumption DEF Handlers

\* One request moves.
MoveOf(h) ==
  /\ at' \in [Handlers -> Places] /\ seen' \in [Handlers -> Session]
  /\ got' \in [Handlers -> Projects \cup {None}] /\ env' \in [Handlers -> Projects \cup {None}]
  /\ \A g \in Handlers : g # h =>
       at'[g] = at[g] /\ seen'[g] = seen[g] /\ got'[g] = got[g] /\ env'[g] = env[g]

LEMMA MovesTo ==
  ASSUME Shape, NEW h \in Handlers, NEW to \in Places, Goes(h, to),
         NEW s \in Session, seen' = [seen EXCEPT ![h] = s],
         NEW p \in Projects \cup {None}, got' = [got EXCEPT ![h] = p],
         NEW e \in Projects \cup {None}, env' = [env EXCEPT ![h] = e]
  PROVE  MoveOf(h) /\ at'[h] = to /\ seen'[h] = s /\ got'[h] = p /\ env'[h] = e
BY DEF Shape, RequestShape, Goes, MoveOf

LEMMA Stays ==
  ASSUME Shape, NEW h \in Handlers
  PROVE  /\ seen = [seen EXCEPT ![h] = seen[h]] /\ seen[h] \in Session
         /\ got = [got EXCEPT ![h] = got[h]] /\ got[h] \in Projects \cup {None}
         /\ env = [env EXCEPT ![h] = env[h]] /\ env[h] \in Projects \cup {None}
         /\ at[h] \in Places
BY DEF Shape, RequestShape

\* It goes, and knows what it knew.
LEMMA GoesIs ==
  ASSUME Shape, NEW h \in Handlers, NEW to \in Places, Goes(h, to),
         seen' = seen, got' = got, env' = env
  PROVE  /\ MoveOf(h) /\ at'[h] = to /\ seen'[h] = seen[h] /\ got'[h] = got[h]
         /\ env'[h] = env[h]
BY Stays, MovesTo

\* It goes, to work for a project.
LEMMA TakesIs ==
  ASSUME Shape, NEW h \in Handlers, NEW to \in Places, Goes(h, to), seen' = seen,
         NEW p \in Projects \cup {None}, got' = [got EXCEPT ![h] = p],
         NEW e \in Projects \cup {None}, env' = [env EXCEPT ![h] = e]
  PROVE  MoveOf(h) /\ at'[h] = to /\ seen'[h] = seen[h] /\ got'[h] = p /\ env'[h] = e
BY DEF Shape, RequestShape, Goes, MoveOf

LEMMA TakesProject ==
  ASSUME Shape, NEW h \in Handlers, NEW to \in Places, Goes(h, to), seen' = seen,
         NEW p \in Projects \cup {None}, got' = [got EXCEPT ![h] = p], env' = env
  PROVE  MoveOf(h) /\ at'[h] = to /\ seen'[h] = seen[h] /\ got'[h] = p /\ env'[h] = env[h]
BY DEF Shape, RequestShape, Goes, MoveOf

LEMMA TakesEnv ==
  ASSUME Shape, NEW h \in Handlers, NEW to \in Places, Goes(h, to), seen' = seen,
         NEW e \in Projects \cup {None}, env' = [env EXCEPT ![h] = e], got' = got
  PROVE  MoveOf(h) /\ at'[h] = to /\ seen'[h] = seen[h] /\ got'[h] = got[h] /\ env'[h] = e
BY DEF Shape, RequestShape, Goes, MoveOf

\* It goes, and has read a row.
LEMMA ReadsIs ==
  ASSUME Shape, NEW h \in Handlers, NEW to \in Places, Goes(h, to), got' = got, env' = env,
         NEW s \in Session, seen' = [seen EXCEPT ![h] = s]
  PROVE  MoveOf(h) /\ at'[h] = to /\ seen'[h] = s /\ got'[h] = got[h] /\ env'[h] = env[h]
BY DEF Shape, RequestShape, Goes, MoveOf

LEMMA EndsIs ==
  ASSUME Shape, NEW h \in Handlers, NEW how \in Waiting, Ends(h, how)
  PROVE  MoveOf(h) /\ at'[h] = how /\ seen'[h] = Absent /\ got'[h] = None /\ env'[h] = None
<1>1. how \in Places /\ Absent \in Session
  BY AbsentIs DEF Places
<1>. QED  BY <1>1, MovesTo DEF Ends

LEMMA GoesOnIs ==
  ASSUME Shape, NEW h \in Handlers, NEW to \in Places, NEW id \in Nat, GoesOn(h, id, to)
  PROVE  /\ MoveOf(h) /\ at'[h] = to /\ seen'[h] \in Session
         /\ to = "submit" => seen'[h].id = id
         /\ to # "over" => got'[h] = got[h] /\ env'[h] = env[h]
         /\ to = "over" => got'[h] = None /\ env'[h] = None
<1>1. CASE to = "over"
  <2>1. Ends(h, "over") /\ "over" \in Waiting
    BY <1>1 DEF GoesOn, Waiting
  <2>. QED  BY <1>1, <2>1, EndsIs, AbsentIs
<1>2. CASE to # "over"
  <2>. DEFINE s == [Absent EXCEPT !.id = IF to = "submit" THEN id ELSE 0]
  <2>1. Goes(h, to) /\ seen' = [seen EXCEPT ![h] = s] /\ got' = got /\ env' = env
    BY <1>2 DEF GoesOn
  <2>2. s \in Session /\ s.id = IF to = "submit" THEN id ELSE 0
    BY DEF Absent, Session
  <2>. HIDE DEF s
  <2>3. /\ got' = [got EXCEPT ![h] = got[h]] /\ got[h] \in Projects \cup {None}
        /\ env' = [env EXCEPT ![h] = env[h]] /\ env[h] \in Projects \cup {None}
    BY <2>1, Stays
  <2>4. MoveOf(h) /\ at'[h] = to /\ seen'[h] = s /\ got'[h] = got[h] /\ env'[h] = env[h]
    BY <2>1, <2>2, <2>3, MovesTo
  <2>. QED  BY <1>2, <2>2, <2>4
<1>. QED  BY <1>1, <1>2

\* What getOrCreateSession does to the row and to the request.
GotOrCreated(h, p, md, to) ==
  /\ MoveOf(h) /\ SessionOK'
  /\ session'.proj \in {session.proj, p}
  /\ session'.proj # session.proj => p # None /\ Exists(p) /\ p # private.proj
  /\ session'.mode \in {session.mode, md}
  /\ session'.run = session.run /\ session'.token = session.token
  /\ at'[h] \in {to, "over", "refused"}
  /\ at'[h] \in {"over", "refused"} => got'[h] = None /\ env'[h] = None
  /\ at'[h] \notin {"over", "refused"} => got'[h] = got[h] /\ env'[h] = env[h]
  /\ at'[h] = "submit" => seen'[h].id # 0
  /\ at'[h] = "refused" => p \notin {None, session.proj} /\ Exists(p)
  /\ at'[h] = to /\ to # "over" /\ p # None /\ seen[h].proj = None => session'.proj = p

FilledOK(s, p, md, n) ==
  /\ n \in Session /\ n.id \in {session.id, issued + 1}
  /\ s.id = 0 => n.id = issued + 1
  /\ s.id # 0 => n.id = session.id
  /\ n.proj \in {session.proj, p} /\ n.mode \in {session.mode, md}
  /\ n.run = session.run /\ n.token = session.token
  /\ s.proj = None /\ p # None => n.proj = p

LEMMA FilledIs ==
  ASSUME Shape, NEW s \in Session, session.id = s.id,
         NEW p \in Projects \cup {None}, NEW e \in Projects \cup {None},
         NEW md \in {"pending_config", "active"}, NEW n, n = Filled(s, p, e, md)
  PROVE  FilledOK(s, p, md, n)
<1>1. CASE s.id = 0
  <2>1. n = [Absent EXCEPT !.id = issued + 1, !.proj = p, !.env = e, !.mode = md]
    BY <1>1 DEF Filled
  <2>2. session = Absent /\ issued + 1 \in Nat
    BY <1>1 DEF Shape, RowShape, SessionOK
  <2>. QED  BY <1>1, <2>1, <2>2 DEF FilledOK, Absent, Session
<1>2. CASE s.id # 0
  <2>1. n = [session EXCEPT !.proj = IF p # None /\ s.proj = None THEN p ELSE @,
                            !.env  = IF e # None /\ s.env = None THEN e ELSE @,
                            !.mode = IF md # s.mode THEN md ELSE @]
    BY <1>2 DEF Filled
  <2>2. session \in Session
    BY DEF Shape, RowShape, SessionOK
  <2>. QED  BY <1>2, <2>1, <2>2 DEF FilledOK, Session
<1>. QED  BY <1>1, <1>2

LEMMA GetOrCreateIs ==
  ASSUME Shape, NEW h \in Handlers, NEW p \in Projects \cup {None},
         NEW e \in Projects \cup {None}, NEW md \in {"pending_config", "active"},
         NEW to \in Places \ {"refused"}, GetOrCreate(h, p, e, md, to)
  PROVE  GotOrCreated(h, p, md, to)
<1>0. PICK s : s = seen[h]
  OBVIOUS
<1>n. PICK n : n = Filled(s, p, e, md)
  OBVIOUS
<1>w. PICK writes : writes = Writes(s, p, e, md)
  OBVIOUS
<1>1. s \in Session /\ s.id \in Nat /\ SessionOK /\ issued \in Nat /\ session.id \in Nat
  BY <1>0 DEF Shape, RowShape, RequestShape, SessionOK, Session
<1>2. CASE ~writes /\ GoesOn(h, s.id, to) /\ UNCHANGED <<session, issued>>
  <2>1. s.id # 0 /\ ~(p # None /\ s.proj = None)
    BY <1>w, <1>2 DEF Writes
  <2>2. /\ MoveOf(h) /\ at'[h] = to
        /\ to = "submit" => seen'[h].id = s.id
        /\ to # "over" => got'[h] = got[h] /\ env'[h] = env[h]
        /\ to = "over" => got'[h] = None /\ env'[h] = None
    BY <1>1, <1>2, GoesOnIs
  <2>3. SessionOK'
    BY <1>1, <1>2 DEF SessionOK
  <2>. QED  BY <1>0, <1>2, <2>1, <2>2, <2>3 DEF GotOrCreated
<1>3. CASE /\ writes /\ Accepted(s, n) /\ ~Clashes(n)
           /\ session' = n /\ issued' = IF n.id > issued THEN n.id ELSE issued
           /\ GoesOn(h, n.id, to)
  <2>1. session.id = s.id /\ (n.proj # session.proj => Exists(n.proj))
    BY <1>3 DEF Accepted
  <2>2. /\ n \in Session /\ n.id \in {session.id, issued + 1}
        /\ s.id = 0 => n.id = issued + 1
        /\ s.id # 0 => n.id = session.id
        /\ n.proj \in {session.proj, p} /\ n.mode \in {session.mode, md}
        /\ n.run = session.run /\ n.token = session.token
        /\ s.proj = None /\ p # None => n.proj = p
    <3>1. FilledOK(s, p, md, n)
      BY <1>1, <1>n, <2>1, FilledIs
    <3>. QED  BY <3>1 DEF FilledOK
  <2>3. n.id \in Nat /\ n.id # 0
    BY <1>1, <2>1, <2>2 DEF Session
  <2>4. /\ MoveOf(h) /\ at'[h] = to
        /\ to = "submit" => seen'[h].id = n.id
        /\ to # "over" => got'[h] = got[h] /\ env'[h] = env[h]
        /\ to = "over" => got'[h] = None /\ env'[h] = None
    BY <1>3, <2>3, GoesOnIs
  <2>5. SessionOK'
    BY <1>1, <1>3, <2>2, <2>3 DEF SessionOK
  <2>6. n.proj # session.proj => p # None /\ Exists(p) /\ p # private.proj
    <3>1. ASSUME n.proj # session.proj, p = None PROVE FALSE
      <4>1. s.id = 0 => session.proj = None
        BY <2>1, AbsentIs DEF Shape, RowShape, SessionOK
      <4>2. n.proj = None /\ session.proj # None /\ s.id # 0
        BY <2>2, <3>1, <4>1
      <4>3. n.proj = session.proj
        BY <1>n, <3>1, <4>2, <1>1 DEF Filled, Session, SessionOK
      <4>. QED  BY <3>1, <4>3
    <3>. QED  BY <1>3, <2>1, <2>2, <3>1 DEF Clashes
  <2>. QED  BY <1>0, <1>3, <2>2, <2>3, <2>4, <2>5, <2>6 DEF GotOrCreated
<1>4. CASE /\ writes /\ (~Accepted(s, n) \/ Clashes(n))
           /\ Ends(h, IF Accepted(s, n) THEN "refused" ELSE "over")
           /\ UNCHANGED <<session, issued>>
  <2>1. SessionOK'
    BY <1>1, <1>4 DEF SessionOK
  <2>2. CASE ~Accepted(s, n)
    <3>1. Ends(h, "over") /\ "over" \in Waiting
      BY <1>4, <2>2 DEF Waiting
    <3>2. MoveOf(h) /\ at'[h] = "over" /\ got'[h] = None /\ env'[h] = None
      BY <3>1, EndsIs
    <3>. QED  BY <1>4, <2>1, <3>2 DEF GotOrCreated
  <2>3. CASE Accepted(s, n) /\ Clashes(n)
    <3>1. Ends(h, "refused") /\ "refused" \in Waiting
      BY <1>4, <2>3 DEF Waiting
    <3>2. MoveOf(h) /\ at'[h] = "refused" /\ got'[h] = None /\ env'[h] = None
      BY <3>1, EndsIs
    <3>3. n.proj # session.proj /\ n.proj # None /\ Exists(n.proj) /\ session.id = s.id
      BY <2>3 DEF Accepted, Clashes
    <3>4. n.proj \in {session.proj, p}
      BY <1>1, <1>n, <3>3, FilledIs DEF FilledOK
    <3>5. p \notin {None, session.proj} /\ Exists(p)
      BY <3>3, <3>4
    <3>. QED  BY <1>4, <2>1, <3>2, <3>5 DEF GotOrCreated
  <2>. QED  BY <1>4, <2>2, <2>3
<1>5. \/ ~writes /\ GoesOn(h, s.id, to) /\ UNCHANGED <<session, issued>>
      \/ /\ writes /\ Accepted(s, n) /\ ~Clashes(n)
         /\ session' = n /\ issued' = IF n.id > issued THEN n.id ELSE issued
         /\ GoesOn(h, n.id, to)
      \/ /\ writes /\ (~Accepted(s, n) \/ Clashes(n))
         /\ Ends(h, IF Accepted(s, n) THEN "refused" ELSE "over")
         /\ UNCHANGED <<session, issued>>
  BY <1>0, <1>n, <1>w DEF GetOrCreate
<1>. QED  BY <1>2, <1>3, <1>4, <1>5

-----------------------------------------------------------------------------
(* Rows and requests: each action.                                          *)

\* One request moves, as its kind may.
Steps(h) ==
  /\ MoveOf(h) /\ Kind(h)'
  /\ got'[h] \in {got[h], h, None} \/ Exists(got'[h])
  /\ h \in Projects => \/ at'[h] = "over"
                       \/ at'[h] \in Looking /\ project[h] = "none"
                       \/ at'[h] \in Binding \cup {"refused"} /\ project[h] # "none"

LEMMA RequestsKept ==
  ASSUME Base, NEW h \in Handlers, Steps(h), RowShape',
         \A p \in Projects : project'[p] = "none" <=> project[p] = "none"
  PROVE  RequestShape' /\ (\A g \in Handlers : Kind(g)') /\ Unmade'
<1>1. RequestShape'
  BY DEF Steps, MoveOf, RequestShape
<1>2. ASSUME NEW g \in Handlers PROVE Kind(g)'
  <2>1. CASE g = h
    BY <2>1 DEF Steps
  <2>2. CASE g # h
    BY <2>2 DEF Steps, MoveOf, Kind, Base
  <2>. QED  BY <2>1, <2>2
<1>3. ASSUME NEW p \in Projects, project'[p] = "none"
      PROVE  /\ at'[p] \in {"off", "before", "over"} \cup Looking
             /\ \A g \in Handlers : g # p => got'[g] # p
  <2>1. /\ project[p] = "none" /\ p \in Handlers /\ p # None
        /\ at[p] \in {"off", "before", "over"} \cup Looking
        /\ \A g \in Handlers : g # p => got[g] # p
    BY <1>3, NoneIs DEF Base, Unmade, Handlers
  <2>2. at'[p] \in {"off", "before", "over"} \cup Looking
    BY <2>1 DEF Steps, MoveOf
  <2>3. ~Exists(p)
    BY <2>1 DEF Exists
  <2>. QED  BY <2>1, <2>2, <2>3 DEF Steps, MoveOf
<1>4. ASSUME NEW p \in Projects, at'[p] \in Looking \cup {"off"}
      PROVE  project'[p] = "none"
  <2>1. p \in Handlers
    BY DEF Handlers
  <2>2. CASE p = h
    BY <1>4, <2>2 DEF Steps, Looking, Binding, Placing, Filling, Finishing
  <2>3. CASE p # h
    BY <1>4, <2>1, <2>3 DEF Steps, MoveOf, Base, Unmade
  <2>. QED  BY <2>2, <2>3
<1>. QED  BY <1>1, <1>2, <1>3, <1>4 DEF Unmade

\* A step that leaves the rows alone.
Quiet(h) ==
  Steps(h) /\ UNCHANGED <<rowVars, runVars, orphaned>> /\ RestShape'

LEMMA QuietKeeps ==
  ASSUME Base, NEW h \in Handlers, Quiet(h)
  PROVE  Base'
<1>1. /\ UNCHANGED <<session, issued, private, project, bound, envs, policies, lock, runs, orphaned>>
      /\ Steps(h) /\ RestShape'
  BY DEF Quiet, rowVars, runVars
<1>2. RowShape' /\ RowsOK' /\ PoliciesOK' /\ LockOK'
  BY <1>1 DEF Base, Shape, RowShape, SessionOK, RowsOK, PoliciesOK, OnePerProject, LockOK, LockIsOwned, Exists
<1>3. RequestShape' /\ (\A g \in Handlers : Kind(g)') /\ Unmade'
  BY <1>1, <1>2, RequestsKept
<1>. QED  BY <1>1, <1>2, <1>3 DEF Base, Shape

\* The history that most steps leave alone.
LEMMA RestKept ==
  ASSUME Base, UNCHANGED <<page, faults, historyVars>>
  PROVE  RestShape' /\ orphaned' = orphaned
BY DEF Base, Shape, RestShape, historyVars

LEMMA RequestIs ==
  ASSUME NEW h \in Requests
  PROVE  h \in Handlers /\ h \notin Projects /\ h # None
BY BindingAssumption DEF Handlers

\* A request that is none of a project's, at a place where it has a project or
\* needs none.
LEMMA RequestSteps ==
  ASSUME Base, NEW h \in Requests, MoveOf(h), Kind(h)',
         got'[h] \in {got[h], None} \/ Exists(got'[h])
  PROVE  Steps(h)
BY RequestIs DEF Steps

LEMMA ArriveIs ==
  ASSUME Base, NEW m \in Handlers, Arrive(m)
  PROVE  /\ Quiet(m) /\ m \in Mentions /\ at[m] = "off" /\ at'[m] \in {"tag", "lookup"}
         /\ got'[m] = got[m] /\ UNCHANGED historyVars
<1>1. m \in Mentions /\ m \in Requests /\ at[m] = "off"
  BY DEF Arrive, Starts, Requests
<1>2. PICK to \in {"tag", "lookup"} : Goes(m, to)
  BY DEF Arrive
<1>3. /\ UNCHANGED <<rowVars, runVars, historyVars, page, faults>>
      /\ seen' = seen /\ got' = got /\ env' = env
  BY DEF Arrive
<1>4. MoveOf(m) /\ at'[m] = to /\ got'[m] = got[m]
  BY <1>2, <1>3, GoesIs DEF Base, Places, Reading
<1>5. Kind(m)'
  BY <1>1, <1>4 DEF Kind, Reading, Messaging, Confirming, Adding, Looking, Binding, Placing,
     Filling, Finishing, Unbinding, Removing
<1>. QED  BY <1>1, <1>3, <1>4, <1>5, RequestSteps, RestKept DEF Quiet

LEMMA LookUpIs ==
  ASSUME Base, NEW m \in Handlers, LookUp(m)
  PROVE  /\ Quiet(m) /\ m \in Mentions /\ at[m] = "lookup"
         /\ at'[m] = (IF bound = None THEN "ask" ELSE "policy")
         /\ got'[m] = bound /\ crossed' = crossed \cup Crossing(bound)
         /\ hasty' = (IF bound \in Settling THEN hasty \cup {m} ELSE hasty)
         /\ UNCHANGED <<unsettled, outdated>>
<1>0. PICK to : to = (IF bound = None THEN "ask" ELSE "policy")
  OBVIOUS
<1>p. PICK p : p = bound
  OBVIOUS
<1>1. m \in Mentions /\ m \in Requests /\ at[m] = "lookup"
  BY DEF LookUp, Base, Kind, Reading, Requests
<1>2. Goes(m, to) /\ got' = [got EXCEPT ![m] = p] /\ seen' = seen /\ env' = env
  BY <1>0, <1>p DEF LookUp
<1>3. p \in Projects \cup {None} /\ Exists(p) /\ to \in Places
  BY <1>0, <1>p DEF Places, Reading, Messaging, Base, Shape, RowShape, RowsOK
<1>4. MoveOf(m) /\ at'[m] = to /\ got'[m] = p
  BY <1>2, <1>3, TakesProject DEF Base
<1>5. Kind(m)'
  BY <1>0, <1>p, <1>1, <1>4 DEF Kind, Reading, Messaging, Confirming, Adding, Looking, Binding, Placing,
     Filling, Finishing, Unbinding, Removing
<1>6. Exists(got'[m])
  BY <1>3, <1>4
<1>7. Steps(m)
  BY <1>1, <1>4, <1>5, <1>6, RequestSteps
<1>8. Crossing(bound) \subseteq Projects
  BY DEF Crossing, Base, Shape, RowShape, SessionOK, Session, Parting
<1>9. RestShape'
  BY <1>1, <1>8 DEF LookUp, Base, Shape, RestShape
<1>. QED  BY <1>0, <1>p, <1>1, <1>4, <1>7, <1>9 DEF Quiet, LookUp

LEMMA ReadRowIs ==
  ASSUME Base, NEW h \in Handlers, ReadRow(h)
  PROVE  /\ Quiet(h) /\ at[h] \in DOMAIN AfterRead /\ at'[h] = AfterRead[at[h]]
         /\ seen'[h] = session /\ got'[h] = got[h] /\ env'[h] = env[h] /\ UNCHANGED historyVars
<1>1. /\ at[h] \in DOMAIN AfterRead /\ Goes(h, AfterRead[at[h]]) /\ got' = got /\ env' = env
      /\ seen' = [seen EXCEPT ![h] = session]
      /\ UNCHANGED <<rowVars, runVars, page, faults, historyVars>>
  BY DEF ReadRow
<1>2. session \in Session /\ AfterRead[at[h]] \in Places
  BY <1>1 DEF Base, Shape, RowShape, SessionOK, AfterRead, Places, Reading, Messaging,
     Confirming, Adding, Binding, Placing, Filling, Finishing
<1>3. /\ MoveOf(h) /\ at'[h] = AfterRead[at[h]] /\ seen'[h] = session
      /\ got'[h] = got[h] /\ env'[h] = env[h]
  BY <1>1, <1>2, ReadsIs DEF Base
<1>4. Kind(h) /\ (h \in Projects => Unmade)
  BY DEF Base
<1>5. Kind(h)'
  BY <1>1, <1>3, <1>4 DEF AfterRead, Kind, Reading, Messaging, Confirming, Adding, Looking, Binding, Placing,
     Filling, Finishing, Unbinding, Removing
<1>6. h \in Projects => at'[h] \in Binding /\ project[h] # "none"
  <2>1. h \in Projects => at[h] \in {"bind", "make", "remake"}
    BY <1>1, <1>4, RequestIs DEF AfterRead, Kind, Reading, Messaging, Confirming, Adding, Looking, Binding, Placing,
     Filling, Finishing, Unbinding, Removing, Requests
  <2>2. h \in Projects => at'[h] \in Binding
    BY <1>3, <2>1 DEF AfterRead, Binding, Placing, Filling, Finishing
  <2>. QED  BY <1>4, <2>1, <2>2 DEF Unmade, Looking
<1>7. Steps(h)
  BY <1>3, <1>5, <1>6 DEF Steps
<1>. QED  BY <1>1, <1>3, <1>7, RestKept DEF Quiet

LEMMA ReadPolicyIs ==
  ASSUME Base, NEW m \in Handlers, ReadPolicy(m)
  PROVE  /\ Quiet(m) /\ m \in Mentions /\ at[m] = "policy" /\ UNCHANGED historyVars
         /\ \/ at'[m] = "default" /\ Len(policies) = 0 /\ got'[m] = got[m]
            \/ at'[m] = "over" /\ got'[m] = None
            \/ /\ Len(policies) # 0 /\ got'[m] = got[m]
               /\ env'[m] = policies[Len(policies)].env
               /\ at'[m] \in {"effective", "find"}
               /\ at'[m] = "effective" => policies[Len(policies)].env = None
<1>1. m \in Mentions /\ m \in Requests /\ at[m] = "policy" /\ got[m] # None
  BY DEF ReadPolicy, Base, Kind, Messaging, Requests
<1>2. UNCHANGED <<rowVars, runVars, page, faults, historyVars>>
  BY DEF ReadPolicy
<1>3. policies \in Seq(Policy)
  BY DEF Base, PoliciesOK, OnePerProject
<1>4. /\ MoveOf(m) /\ at'[m] \in {"over", "default", "effective", "find"}
      /\ got'[m] \in {None, got[m]} /\ (at'[m] # "over" => got'[m] = got[m])
      /\ \/ at'[m] = "default" /\ Len(policies) = 0 /\ got'[m] = got[m]
         \/ at'[m] = "over" /\ got'[m] = None
         \/ /\ Len(policies) # 0 /\ got'[m] = got[m]
            /\ env'[m] = policies[Len(policies)].env
            /\ at'[m] \in {"effective", "find"}
            /\ at'[m] = "effective" => policies[Len(policies)].env = None
  <2>1. CASE policies = <<>>
    <3>1. Goes(m, "default") /\ seen' = seen /\ got' = got /\ env' = env /\ "default" \in Places
      BY <2>1 DEF ReadPolicy, Places, Messaging
    <3>2. MoveOf(m) /\ at'[m] = "default" /\ got'[m] = got[m]
      BY <3>1, GoesIs DEF Base
    <3>. QED  BY <2>1, <3>2
  <2>2. CASE policies # <<>>
    <3>1. PICK l : l = policies[Len(policies)]
      OBVIOUS
    <3>2. Len(policies) # 0 /\ l \in Policy
      BY <1>3, <2>2, <3>1
    <3>3. CASE ~l.on
      <4>1. Ends(m, "over") /\ "over" \in Waiting
        BY <2>2, <3>1, <3>3 DEF ReadPolicy, Waiting
      <4>2. MoveOf(m) /\ at'[m] = "over" /\ got'[m] = None
        BY <4>1, EndsIs DEF Base
      <4>. QED  BY <4>2
    <3>4. CASE l.on
      <4>1. PICK to : to = IF l.env = None THEN "effective" ELSE "find"
        OBVIOUS
      <4>2. /\ Goes(m, to) /\ seen' = seen /\ got' = got
            /\ env' = [env EXCEPT ![m] = l.env]
        BY <2>2, <3>1, <3>4, <4>1 DEF ReadPolicy
      <4>3. PICK e : e = l.env
        OBVIOUS
      <4>4. e \in Projects \cup {None} /\ to \in Places
        BY <3>2, <4>1, <4>3 DEF Policy, Places, Messaging
      <4>5. MoveOf(m) /\ at'[m] = to /\ got'[m] = got[m] /\ env'[m] = e
        BY <4>2, <4>3, <4>4, TakesEnv DEF Base
      <4>. QED  BY <3>1, <3>2, <4>1, <4>3, <4>5
    <3>. QED  BY <3>3, <3>4
  <2>. QED  BY <2>1, <2>2
<1>5. Kind(m)'
  BY <1>1, <1>4 DEF Kind, Reading, Messaging, Confirming, Adding, Looking, Binding, Placing,
     Filling, Finishing, Unbinding, Removing
<1>6. Steps(m)
  BY <1>1, <1>4, <1>5, RequestSteps
<1>. QED  BY <1>1, <1>2, <1>4, <1>6, RestKept DEF Quiet

LEMMA FindEnvIs ==
  ASSUME Base, NEW m \in Handlers, FindEnv(m)
  PROVE  /\ Quiet(m) /\ m \in Mentions /\ at[m] = "find" /\ UNCHANGED historyVars
         /\ \/ at'[m] = "enter" /\ got'[m] = got[m] /\ env'[m] = env[m]
            \/ at'[m] = "over" /\ got'[m] = None
<1>1. m \in Mentions /\ m \in Requests /\ at[m] = "find" /\ got[m] # None
  BY DEF FindEnv, Base, Kind, Messaging, Requests
<1>2. UNCHANGED <<rowVars, runVars, page, faults, historyVars>>
  BY DEF FindEnv
<1>3. /\ MoveOf(m)
      /\ \/ at'[m] = "enter" /\ got'[m] = got[m] /\ env'[m] = env[m]
         \/ at'[m] = "over" /\ got'[m] = None
  <2>1. CASE Exists(env[m])
    <3>1. Goes(m, "enter") /\ seen' = seen /\ got' = got /\ env' = env /\ "enter" \in Places
      BY <2>1 DEF FindEnv, Places, Messaging
    <3>. QED  BY <3>1, GoesIs DEF Base
  <2>2. CASE ~Exists(env[m])
    <3>1. Ends(m, "over") /\ "over" \in Waiting
      BY <2>2 DEF FindEnv, Waiting
    <3>. QED  BY <3>1, EndsIs DEF Base
  <2>. QED  BY <2>1, <2>2
<1>4. Kind(m)'
  BY <1>1, <1>3 DEF Kind, Reading, Messaging, Confirming, Adding, Looking, Binding, Placing,
     Filling, Finishing, Unbinding, Removing
<1>5. Steps(m)
  BY <1>1, <1>3, <1>4, RequestSteps
<1>. QED  BY <1>1, <1>2, <1>3, <1>5, RestKept DEF Quiet

LEMMA EffectiveIs ==
  ASSUME Base, NEW m \in Handlers, Effective(m)
  PROVE  /\ Quiet(m) /\ m \in Mentions /\ at[m] = "effective" /\ UNCHANGED historyVars
         /\ \/ at'[m] = "enter" /\ got'[m] = got[m]
            \/ at'[m] = "over" /\ got'[m] = None
<1>1. m \in Mentions /\ m \in Requests /\ at[m] = "effective" /\ got[m] # None
  BY DEF Effective, Base, Kind, Messaging, Requests
<1>2. UNCHANGED <<rowVars, runVars, page, faults, historyVars>>
  BY DEF Effective
<1>3. PICK e : e = IF session.env # None THEN session.env ELSE DefaultEnv(got[m])
  OBVIOUS
<1>4. e \in Projects \cup {None}
  BY <1>3, Stays DEF Base, Shape, RowShape, SessionOK, Session, DefaultEnv
<1>5. /\ MoveOf(m)
      /\ \/ at'[m] = "enter" /\ got'[m] = got[m]
         \/ at'[m] = "over" /\ got'[m] = None
  <2>1. CASE e # None
    <3>1. /\ Goes(m, "enter") /\ seen' = seen /\ got' = got /\ env' = [env EXCEPT ![m] = e]
          /\ "enter" \in Places
      BY <1>3, <2>1 DEF Effective, Places, Messaging
    <3>. QED  BY <1>4, <3>1, TakesEnv DEF Base
  <2>2. CASE e = None
    <3>1. Ends(m, "over") /\ "over" \in Waiting
      BY <1>3, <2>2 DEF Effective, Waiting
    <3>. QED  BY <3>1, EndsIs DEF Base
  <2>. QED  BY <2>1, <2>2
<1>6. Kind(m)'
  BY <1>1, <1>5 DEF Kind, Reading, Messaging, Confirming, Adding, Looking, Binding, Placing,
     Filling, Finishing, Unbinding, Removing
<1>7. Steps(m)
  BY <1>1, <1>5, <1>6, RequestSteps
<1>. QED  BY <1>1, <1>2, <1>5, <1>7, RestKept DEF Quiet

LEMMA SourceIs ==
  ASSUME Base, NEW m \in Handlers, Source(m)
  PROVE  /\ Quiet(m) /\ m \in Mentions /\ at[m] = "source" /\ UNCHANGED historyVars
         /\ \/ /\ at'[m] = "handed" /\ got'[m] = got[m] /\ env'[m] = env[m]
               /\ Exists(got[m])
            \/ at'[m] = "over" /\ got'[m] = None
<1>1. m \in Mentions /\ m \in Requests /\ at[m] = "source" /\ got[m] # None
  BY DEF Source, Base, Kind, Requests
<1>2. UNCHANGED <<rowVars, runVars, page, faults, historyVars>>
  BY DEF Source
<1>3. /\ MoveOf(m)
      /\ \/ at'[m] = "handed" /\ got'[m] = got[m] /\ env'[m] = env[m] /\ Exists(got[m])
         \/ at'[m] = "over" /\ got'[m] = None
  <2>1. CASE Exists(got[m]) /\ Exists(env[m])
    <3>1. Goes(m, "handed") /\ seen' = seen /\ got' = got /\ env' = env /\ "handed" \in Places
      BY <2>1 DEF Source, Places, Submits, Waiting
    <3>. QED  BY <2>1, <3>1, GoesIs DEF Base
  <2>2. CASE ~(Exists(got[m]) /\ Exists(env[m]))
    <3>1. Ends(m, "over") /\ "over" \in Waiting
      BY <2>2 DEF Source, Waiting
    <3>. QED  BY <3>1, EndsIs DEF Base
  <2>. QED  BY <2>1, <2>2
<1>4. Kind(m)'
  BY <1>1, <1>3 DEF Kind, Reading, Messaging, Confirming, Adding, Looking, Binding, Placing,
     Filling, Finishing, Unbinding, Removing
<1>5. Steps(m)
  BY <1>1, <1>3, <1>4, RequestSteps
<1>. QED  BY <1>1, <1>2, <1>3, <1>5, RestKept DEF Quiet

\* A project to work for, that is there, and a new place.
LEMMA TakesKeeps ==
  ASSUME Base, NEW h \in Requests, NEW to \in Places, Goes(h, to), seen' = seen,
         NEW p \in Projects \cup {None}, got' = [got EXCEPT ![h] = p], Exists(p),
         NEW e \in Projects \cup {None}, env' = [env EXCEPT ![h] = e] \/ env' = env,
         UNCHANGED <<rowVars, runVars, orphaned>>, RestShape',
         at'[h] = to /\ got'[h] = p => Kind(h)'
  PROVE  Quiet(h) /\ at'[h] = to /\ got'[h] = p /\ seen'[h] = seen[h]
<1>1. h \in Handlers /\ Shape
  BY RequestIs DEF Base
<1>2. MoveOf(h) /\ at'[h] = to /\ got'[h] = p /\ seen'[h] = seen[h]
  <2>1. CASE env' = env
    BY <1>1, <2>1, TakesProject
  <2>2. CASE env' = [env EXCEPT ![h] = e]
    BY <1>1, <2>2, TakesIs
  <2>. QED  BY <2>1, <2>2
<1>3. Exists(got'[h])
  BY <1>2
<1>. QED  BY <1>2, <1>3, RequestSteps DEF Quiet

LEMMA ConfirmIs ==
  ASSUME Base, NEW c \in Handlers, Confirm(c)
  PROVE  /\ Quiet(c) /\ c \in Confirms /\ at[c] = "off" /\ at'[c] = "late"
         /\ got'[c] \in envs /\ crossed' = crossed \cup Crossing(got'[c])
         /\ UNCHANGED <<unsettled, hasty, outdated>>
<1>1. c \in Confirms /\ c \in Requests /\ at[c] = "off" /\ Goes(c, "late") /\ "late" \in Places
  BY DEF Confirm, Starts, Requests, Places, Confirming
<1>2. PICK p \in envs : /\ got' = [got EXCEPT ![c] = p] /\ env' = [env EXCEPT ![c] = p]
                        /\ crossed' = crossed \cup Crossing(p)
  BY DEF Confirm
<1>3. p \in Projects /\ Exists(p) /\ p # None
  BY NoneIs DEF Base, Shape, RowShape, RowsOK
<1>4. /\ UNCHANGED <<rowVars, runVars, seen, page, faults, unsettled, hasty, outdated, orphaned>>
  BY DEF Confirm
<1>5. Crossing(p) \subseteq Projects
  BY DEF Crossing, Base, Shape, RowShape, SessionOK, Session, Parting
<1>6. RestShape'
  BY <1>2, <1>4, <1>5 DEF Base, Shape, RestShape
<1>7. at'[c] = "late" /\ got'[c] = p => Kind(c)'
  BY <1>1, <1>3 DEF Kind, Reading, Messaging, Confirming, Adding, Looking, Binding, Placing,
     Filling, Finishing, Unbinding, Removing
<1>8. Quiet(c) /\ at'[c] = "late" /\ got'[c] = p
  BY <1>1, <1>2, <1>3, <1>4, <1>6, <1>7, TakesKeeps
<1>. QED  BY <1>1, <1>2, <1>4, <1>8

LEMMA NoticeIs ==
  ASSUME Base, NEW n \in Handlers, Notice(n)
  PROVE  /\ Quiet(n) /\ at[n] = "off" /\ at'[n] = "notice" /\ got'[n] = got[n]
         /\ n \in Requests /\ UNCHANGED historyVars
<1>1. n \in Notices /\ n \in Requests /\ at[n] = "off" /\ Goes(n, "notice") /\ "notice" \in Places
  BY DEF Notice, Starts, Requests, Places
<1>2. /\ UNCHANGED <<rowVars, runVars, page, faults, historyVars>>
      /\ seen' = seen /\ got' = got /\ env' = env
  BY DEF Notice
<1>3. MoveOf(n) /\ at'[n] = "notice" /\ got'[n] = got[n]
  BY <1>1, <1>2, GoesIs DEF Base
<1>4. Kind(n)'
  BY <1>1, <1>3 DEF Kind, Reading, Messaging, Confirming, Adding, Looking, Binding, Placing,
     Filling, Finishing, Unbinding, Removing
<1>. QED  BY <1>1, <1>2, <1>3, <1>4, RequestSteps, RestKept DEF Quiet

LEMMA AddIs ==
  ASSUME Base, NEW a \in Handlers, Add(a)
  PROVE  /\ Quiet(a) /\ a \in Additions /\ at[a] = "off" /\ at'[a] = "add" /\ got'[a] = bound
         /\ crossed' = crossed \cup Crossing(bound) /\ UNCHANGED <<unsettled, hasty, outdated>>
<1>1. a \in Additions /\ a \in Requests /\ at[a] = "off" /\ Goes(a, "add") /\ "add" \in Places
  BY DEF Add, Starts, Requests, Places, Adding
<1>2. PICK p : p = bound
  OBVIOUS
<1>3. PICK e : e = DefaultEnv(p)
  OBVIOUS
<1>4. /\ got' = [got EXCEPT ![a] = p] /\ env' = [env EXCEPT ![a] = e] /\ seen' = seen
      /\ crossed' = crossed \cup Crossing(p)
      /\ UNCHANGED <<rowVars, runVars, page, faults, unsettled, hasty, outdated, orphaned>>
  BY <1>2, <1>3 DEF Add
<1>5. p \in Projects \cup {None} /\ Exists(p) /\ e \in Projects \cup {None}
  BY <1>2, <1>3 DEF Base, Shape, RowShape, RowsOK, DefaultEnv
<1>6. Crossing(p) \subseteq Projects
  BY DEF Crossing, Base, Shape, RowShape, SessionOK, Session, Parting
<1>7. RestShape'
  BY <1>4, <1>6 DEF Base, Shape, RestShape
<1>8. at'[a] = "add" /\ got'[a] = p => Kind(a)'
  BY <1>1 DEF Kind, Reading, Messaging, Confirming, Adding, Looking, Binding, Placing,
     Filling, Finishing, Unbinding, Removing
<1>9. UNCHANGED <<rowVars, runVars, orphaned>>
  BY <1>4
<1>10. Quiet(a) /\ at'[a] = "add" /\ got'[a] = p
  BY <1>1, <1>4, <1>5, <1>7, <1>8, <1>9, TakesKeeps
<1>. QED  BY <1>1, <1>2, <1>4, <1>10

LEMMA SelectIs ==
  ASSUME Base, NEW d \in Handlers, Select(d)
  PROVE  /\ Quiet(d) /\ d \in Requests /\ at[d] = "off" /\ at'[d] = "chosen"
         /\ UNCHANGED historyVars
<1>1. d \in Privates /\ d \in Requests /\ at[d] = "off" /\ Goes(d, "chosen") /\ "chosen" \in Places
  BY DEF Select, Starts, Requests, Places
<1>2. PICK p \in Projects : project[p] = "active" /\ got' = [got EXCEPT ![d] = p]
  BY DEF Select
<1>3. UNCHANGED <<rowVars, runVars, page, faults, historyVars>> /\ seen' = seen /\ env' = env
  BY DEF Select
<1>4. p # None /\ Exists(p) /\ None \in Projects \cup {None}
  BY <1>2, NoneIs DEF Exists
<1>5. at'[d] = "chosen" /\ got'[d] = p => Kind(d)'
  BY <1>1, <1>4 DEF Kind, Reading, Messaging, Confirming, Adding, Looking, Binding, Placing,
     Filling, Finishing, Unbinding, Removing
<1>6. RestShape' /\ orphaned' = orphaned
  BY <1>3, RestKept
<1>7. Quiet(d) /\ at'[d] = "chosen"
  BY <1>1, <1>2, <1>3, <1>4, <1>5, <1>6, TakesKeeps
<1>. QED  BY <1>1, <1>3, <1>7

LEMMA UnbindIs ==
  ASSUME Base, NEW u \in Handlers, Unbind(u)
  PROVE  /\ Quiet(u) /\ u \in Unbinds /\ u \in Requests /\ at[u] = "off" /\ at'[u] = "disable"
         /\ got'[u] = bound /\ bound # None /\ UNCHANGED historyVars
<1>1. /\ u \in Unbinds /\ u \in Requests /\ at[u] = "off" /\ Goes(u, "disable")
      /\ "disable" \in Places
  BY DEF Unbind, Starts, Requests, Places, Unbinding
<1>2. PICK p : p = bound
  OBVIOUS
<1>3. /\ UNCHANGED <<rowVars, runVars, page, faults, historyVars>> /\ seen' = seen /\ env' = env
      /\ got' = [got EXCEPT ![u] = p] /\ p # None
  BY <1>2 DEF Unbind
<1>4. p \in Projects \cup {None} /\ Exists(p)
  BY <1>2 DEF Base, Shape, RowShape, RowsOK
<1>5. at'[u] = "disable" /\ got'[u] = p => Kind(u)'
  BY <1>1, <1>3 DEF Kind, Reading, Messaging, Confirming, Adding, Looking, Binding, Placing,
     Filling, Finishing, Unbinding, Removing
<1>6. RestShape' /\ orphaned' = orphaned
  BY <1>3, RestKept
<1>7. Quiet(u) /\ at'[u] = "disable" /\ got'[u] = p
  BY <1>1, <1>3, <1>4, <1>5, <1>6, TakesKeeps
<1>. QED  BY <1>1, <1>2, <1>3, <1>7

LEMMA RemoveIs ==
  ASSUME Base, NEW d \in Handlers, Remove(d)
  PROVE  /\ Quiet(d) /\ d \in Requests /\ at[d] = "off" /\ UNCHANGED historyVars
         /\ got'[d] = session.proj
         /\ at'[d] = (IF session.proj = None THEN "drop" ELSE "wipe")
<1>1. d \in Deletes \cup Resets /\ d \in Requests /\ at[d] = "off"
  BY DEF Remove, Starts, Requests
<1>2. PICK p : p = session.proj
  OBVIOUS
<1>3. PICK to : to = IF p = None THEN "drop" ELSE "wipe"
  OBVIOUS
<1>4. /\ UNCHANGED <<rowVars, runVars, page, faults, historyVars>> /\ seen' = seen /\ env' = env
      /\ got' = [got EXCEPT ![d] = p] /\ Goes(d, to)
  BY <1>2, <1>3 DEF Remove
<1>5. p \in Projects \cup {None} /\ Exists(p)
  BY <1>2 DEF Base, Shape, RowShape, RowsOK, SessionOK, Session
<1>6. to \in Places
  BY <1>3 DEF Places, Removing
<1>7. at'[d] = to /\ got'[d] = p => Kind(d)'
  BY <1>1, <1>3 DEF Kind, Reading, Messaging, Confirming, Adding, Looking, Binding, Placing,
     Filling, Finishing, Unbinding, Removing
<1>8. RestShape' /\ orphaned' = orphaned
  BY <1>4, RestKept
<1>9. Quiet(d) /\ at'[d] = to /\ got'[d] = p
  BY <1>1, <1>4, <1>5, <1>6, <1>7, <1>8, TakesKeeps
<1>. QED  BY <1>1, <1>2, <1>3, <1>4, <1>9

LEMMA DisableIs ==
  ASSUME Base, NEW u \in Handlers, Disable(u)
  PROVE  /\ Quiet(u) /\ u \in Unbinds /\ u \in Requests /\ at[u] = "disable"
         /\ got'[u] = got[u] /\ seen'[u] = session
         /\ at'[u] = (IF session.id = 0 THEN "close" ELSE "release")
         /\ crossed' = (IF session.id = 0 THEN crossed \cup UnderWay(u) ELSE crossed)
         /\ UNCHANGED <<unsettled, hasty, outdated>>
<1>1. u \in Unbinds /\ u \in Requests /\ at[u] = "disable" /\ got[u] # None
  BY DEF Disable, Base, Kind, Unbinding, Requests
<1>2. PICK to : to = IF session.id = 0 THEN "close" ELSE "release"
  OBVIOUS
<1>3. /\ UNCHANGED <<rowVars, runVars, page, faults, unsettled, hasty, outdated, orphaned>>
      /\ got' = got /\ env' = env /\ Goes(u, to) /\ seen' = [seen EXCEPT ![u] = session]
      /\ crossed' = (IF session.id = 0 THEN crossed \cup UnderWay(u) ELSE crossed)
  BY <1>2 DEF Disable
<1>4. session \in Session /\ to \in Places
  BY <1>2 DEF Base, Shape, RowShape, SessionOK, Places, Unbinding
<1>5. MoveOf(u) /\ at'[u] = to /\ got'[u] = got[u] /\ seen'[u] = session
  BY <1>3, <1>4, ReadsIs DEF Base
<1>6. UnderWay(u) \subseteq Projects
  BY <1>4, Stays DEF UnderWay, Base, Shape, Session
<1>7. RestShape'
  BY <1>3, <1>6 DEF Base, Shape, RestShape
<1>8. Kind(u)'
  BY <1>1, <1>2, <1>5 DEF Kind, Reading, Messaging, Confirming, Adding, Looking, Binding, Placing,
     Filling, Finishing, Unbinding, Removing
<1>9. Steps(u)
  BY <1>1, <1>5, <1>8, RequestSteps
<1>. QED  BY <1>1, <1>2, <1>3, <1>5, <1>7, <1>9 DEF Quiet

\* What a request of a project brings to the steps of its binding.
LEMMA BindingIs ==
  ASSUME Base, NEW p \in Handlers, at[p] \in Looking \cup Binding
  PROVE  /\ p \in Projects /\ got[p] = p /\ env[p] = p /\ p # None
         /\ at[p] \in Looking => project[p] = "none"
         /\ at[p] \in Binding => project[p] # "none"
<1>1. p \in Projects /\ got[p] = p /\ env[p] = p /\ p # None
  BY NoneIs DEF Base, Kind
<1>. QED  BY <1>1 DEF Base, Unmade, Looking, Binding, Placing, Filling, Finishing

LEMMA BindingSteps ==
  ASSUME Base, NEW p \in Projects, MoveOf(p), got'[p] \in {p, None},
         at'[p] \in {"over", "refused"} => got'[p] = None,
         at'[p] \notin {"over", "refused"} => got'[p] = p /\ env'[p] = p,
         \/ at'[p] = "over"
         \/ at'[p] \in Looking /\ project[p] = "none"
         \/ at'[p] \in Binding \cup {"refused"} /\ project[p] # "none"
  PROVE  Steps(p)
<1>1. Kind(p)'
  BY DEF Kind, Reading, Messaging, Confirming, Adding, Looking, Binding, Placing,
     Filling, Finishing, Unbinding, Removing
<1>. QED  BY <1>1 DEF Steps

LEMMA BeginIs ==
  ASSUME Base, NEW p \in Handlers, Begin(p)
  PROVE  /\ Quiet(p) /\ p \in Projects /\ at[p] = "off" /\ at'[p] = "check" /\ got'[p] = p
         /\ project[p] = "none" /\ UNCHANGED historyVars
<1>1. p \in Projects /\ at[p] = "off" /\ Goes(p, "check") /\ "check" \in Places
  BY DEF Begin, Starts, Places, Looking
<1>2. /\ UNCHANGED <<rowVars, runVars, faults, historyVars>> /\ seen' = seen
      /\ got' = [got EXCEPT ![p] = p] /\ env' = [env EXCEPT ![p] = p]
      /\ page' = page \/ page' = [page EXCEPT ![p] = session.id]
  BY DEF Begin
<1>3. MoveOf(p) /\ at'[p] = "check" /\ got'[p] = p /\ env'[p] = p
  BY <1>1, <1>2, TakesIs DEF Base
<1>4. project[p] = "none"
  BY <1>1 DEF Base, Unmade
<1>5. Steps(p)
  BY <1>1, <1>3, <1>4, BindingSteps DEF Looking
<1>6. session.id \in Nat
  BY DEF Base, Shape, RowShape, SessionOK, Session
<1>7. RestShape' /\ orphaned' = orphaned
  BY <1>2, <1>6 DEF Base, Shape, RestShape, historyVars
<1>. QED  BY <1>1, <1>2, <1>3, <1>4, <1>5, <1>7 DEF Quiet

LEMMA CheckIs ==
  ASSUME Base, NEW p \in Handlers, Check(p)
  PROVE  /\ Quiet(p) /\ p \in Projects /\ at[p] = "check" /\ UNCHANGED historyVars
         /\ at'[p] \in {"create", "over"} /\ project[p] = "none"
         /\ got'[p] \in {None, p}
<1>1. /\ at[p] = "check" /\ p \in Projects /\ got[p] = p /\ env[p] = p /\ p # None
      /\ project[p] = "none"
  BY BindingIs DEF Check, Looking
<1>2. UNCHANGED <<rowVars, runVars, page, faults, historyVars>>
  BY DEF Check
<1>3. /\ MoveOf(p)
      /\ \/ at'[p] = "create" /\ got'[p] = got[p] /\ env'[p] = env[p]
         \/ at'[p] = "over" /\ got'[p] = None
  <2>1. CASE bound = None
    <3>1. Goes(p, "create") /\ seen' = seen /\ got' = got /\ env' = env /\ "create" \in Places
      BY <2>1 DEF Check, Places, Looking
    <3>. QED  BY <3>1, GoesIs DEF Base
  <2>2. CASE bound # None
    <3>1. Ends(p, "over") /\ "over" \in Waiting
      BY <2>2 DEF Check, Waiting
    <3>. QED  BY <3>1, EndsIs DEF Base
  <2>. QED  BY <2>1, <2>2
<1>4. Steps(p)
  BY <1>1, <1>3, BindingSteps DEF Looking
<1>. QED  BY <1>1, <1>2, <1>3, <1>4, RestKept DEF Quiet

LEMMA ReadPageIs ==
  ASSUME Base, NEW p \in Handlers, ReadPage(p)
  PROVE  /\ Quiet(p) /\ p \in Projects /\ at[p] = "rebind" /\ at'[p] = "rebinding"
         /\ got'[p] = p /\ got[p] = p /\ seen'[p] \in {session, Absent} /\ UNCHANGED historyVars
<1>1. /\ at[p] = "rebind" /\ p \in Projects /\ got[p] = p /\ env[p] = p /\ p # None
      /\ project[p] # "none"
  BY BindingIs DEF ReadPage, Binding, Finishing
<1>2. PICK s : s = IF session.id = page[p] THEN session ELSE Absent
  OBVIOUS
<1>3. /\ UNCHANGED <<rowVars, runVars, faults, historyVars>> /\ got' = got /\ env' = env
      /\ seen' = [seen EXCEPT ![p] = s] /\ page' = [page EXCEPT ![p] = 0]
      /\ Goes(p, "rebinding") /\ "rebinding" \in Places
  BY <1>2 DEF ReadPage, Places, Binding, Finishing
<1>4. s \in Session /\ s \in {session, Absent}
  BY <1>2, AbsentIs DEF Base, Shape, RowShape, SessionOK
<1>5. /\ MoveOf(p) /\ at'[p] = "rebinding" /\ got'[p] = got[p] /\ env'[p] = env[p]
      /\ seen'[p] = s
  BY <1>3, <1>4, ReadsIs DEF Base
<1>6. Steps(p)
  BY <1>1, <1>5, BindingSteps DEF Binding, Finishing
<1>7. RestShape' /\ orphaned' = orphaned
  BY <1>3 DEF Base, Shape, RestShape, historyVars
<1>. QED  BY <1>1, <1>3, <1>4, <1>5, <1>6, <1>7 DEF Quiet

LEMMA FailsIs ==
  ASSUME Shape, NEW c \in Handlers, Fails(c)
  PROVE  /\ MoveOf(c) /\ at'[c] = "over" /\ got'[c] = got[c]
         /\ orphaned' = orphaned \cup {c}
BY AbsentIs, ReadsIs DEF Fails, Places, Waiting

LEMMA RejectsIs ==
  ASSUME Base, NEW h \in Handlers, Rejects(h)
  PROVE  /\ Base' /\ Steps(h) /\ UNCHANGED rowVars
         /\ (at[h] \notin Waiting \/ h \notin Projects) /\ at'[h] = "over"
         /\ UNCHANGED <<crossed, hasty, outdated>>
         /\ unsettled' = (IF h \in Projects THEN unsettled \cup {h} ELSE unsettled)
<1>1. /\ "over" \in Waiting /\ (at[h] \notin Waiting \/ at[h] \in Settles)
      /\ faults' = faults + 1 /\ faults < MaxFaults
      /\ UNCHANGED <<rowVars, runVars, page, crossed, hasty, outdated>>
      /\ \/ h \in Projects /\ BreaksOff(h) /\ UNCHANGED orphaned
         \/ h \in Confirms /\ Fails(h) /\ UNCHANGED unsettled
         \/ h \notin Projects \cup Confirms /\ Ends(h, "over") /\ UNCHANGED <<unsettled, orphaned>>
  BY DEF Rejects, Waiting
<1>2. h \in Confirms => h \notin Projects
  BY RequestIs DEF Requests
<1>3. /\ MoveOf(h) /\ at'[h] = "over" /\ got'[h] \in {got[h], None}
      /\ unsettled' = (IF h \in Projects THEN unsettled \cup {h} ELSE unsettled)
      /\ orphaned' = (IF h \in Confirms THEN orphaned \cup {h} ELSE orphaned)
  <2>1. CASE h \in Projects
    BY <1>1, <1>2, <2>1, EndsIs DEF Base, BreaksOff
  <2>2. CASE h \in Confirms
    BY <1>1, <1>2, <2>2, FailsIs DEF Base
  <2>3. CASE h \notin Projects \cup Confirms
    BY <1>1, <2>3, EndsIs DEF Base
  <2>. QED  BY <2>1, <2>2, <2>3
<1>4. Kind(h)'
  BY <1>3 DEF Kind, Reading, Messaging, Confirming, Adding, Looking, Binding, Placing,
     Filling, Finishing, Unbinding, Removing
<1>5. at[h] \notin Waiting \/ h \notin Projects
  BY <1>1, <1>2 DEF Settles, Base, Kind
<1>6. Steps(h)
  BY <1>3, <1>4 DEF Steps
<1>7. faults' \in 0..MaxFaults
  BY <1>1, BindingAssumption DEF Base, Shape, RestShape
<1>8. RestShape'
  BY <1>1, <1>3, <1>7 DEF Base, Shape, RestShape
<1>9. UNCHANGED <<session, issued, private, project, bound, envs, policies, lock, runs>>
  BY <1>1 DEF rowVars, runVars
<1>10. RowShape' /\ RowsOK' /\ PoliciesOK' /\ LockOK'
  BY <1>3, <1>9 DEF Base, Shape, RowShape, SessionOK, RowsOK, PoliciesOK, OnePerProject, LockOK,
     LockIsOwned, Exists
<1>11. RequestShape' /\ (\A g \in Handlers : Kind(g)') /\ Unmade'
  BY <1>6, <1>9, <1>10, RequestsKept
<1>. QED  BY <1>1, <1>3, <1>5, <1>6, <1>8, <1>10, <1>11 DEF Base, Shape

-----------------------------------------------------------------------------
(* Rows and requests: writes to the session.                                *)

\* A step that leaves the session's run alone, and the other rows.
LEMMA SessionKeeps ==
  ASSUME Base, NEW h \in Handlers, Steps(h), SessionOK', RestShape',
         UNCHANGED <<private, project, bound, envs, policies, runVars, orphaned>>,
         Exists(session'.proj),
         session'.proj # session.proj /\ session'.proj # None => session'.proj # private.proj,
         session'.run = session.run, session'.token = session.token
  PROVE  Base'
<1>1. UNCHANGED <<private, project, bound, envs, policies, lock, runs, orphaned>>
  BY DEF runVars
<1>2. RowShape'
  BY <1>1 DEF Base, Shape, RowShape
<1>3. RowsOK' /\ PoliciesOK' /\ LockOK'
  BY <1>1 DEF Base, RowsOK, PoliciesOK, OnePerProject, LockOK, LockIsOwned, Exists
<1>4. RequestShape' /\ (\A g \in Handlers : Kind(g)') /\ Unmade'
  BY <1>1, <1>2, RequestsKept
<1>. QED  BY <1>2, <1>3, <1>4 DEF Base, Shape

\* getOrCreateSession by a request of no project's binding.
Asks(h, p, md, to) == Steps(h) /\ GotOrCreated(h, p, md, to) /\ UNCHANGED Others

LEMMA AsksKeeps ==
  ASSUME Base, NEW h \in Requests, NEW p \in Projects \cup {None}, NEW e \in Projects \cup {None},
         NEW md \in {"pending_config", "active"}, NEW to \in Places \ {"refused"},
         GetOrCreate(h, p, e, md, to), UNCHANGED Others,
         GotOrCreated(h, p, md, to) => Kind(h)'
  PROVE  Base' /\ Asks(h, p, md, to)
<1>1. h \in Handlers /\ Shape
  BY RequestIs DEF Base
<1>2. GotOrCreated(h, p, md, to)
  BY <1>1, GetOrCreateIs
<1>3. MoveOf(h) /\ Kind(h)' /\ got'[h] \in {got[h], None}
  BY <1>2 DEF GotOrCreated
<1>4. Steps(h)
  BY <1>3, RequestSteps
<1>5. UNCHANGED <<private, project, bound, envs, policies, runVars, page, faults, historyVars>>
  BY DEF Others
<1>6. RestShape' /\ orphaned' = orphaned
  BY <1>5, RestKept
<1>7. Exists(session'.proj)
  BY <1>2 DEF GotOrCreated, Base, RowsOK
<1>8. SessionOK' /\ session'.run = session.run /\ session'.token = session.token
      /\ (session'.proj # session.proj /\ session'.proj # None => session'.proj # private.proj)
  BY <1>2 DEF GotOrCreated
<1>9. Base'
  BY <1>1, <1>4, <1>5, <1>6, <1>7, <1>8, SessionKeeps
<1>. QED  BY <1>2, <1>4, <1>9 DEF Asks

LEMMA TagIs ==
  ASSUME Base, NEW m \in Handlers, Tag(m)
  PROVE  Base' /\ m \in Mentions /\ at[m] = "tagged" /\ Asks(m, None, "pending_config", "lookup")
<1>1. /\ m \in Mentions /\ m \in Requests /\ at[m] = "tagged" /\ UNCHANGED Others
      /\ GetOrCreate(m, None, None, "pending_config", "lookup") /\ "lookup" \in Places \ {"refused"}
  BY DEF Tag, Base, Kind, Reading, Requests, Places
<1>2. GotOrCreated(m, None, "pending_config", "lookup") => Kind(m)'
  BY <1>1 DEF GotOrCreated, Kind, Reading, Messaging, Confirming, Adding, Looking, Binding, Placing,
     Filling, Finishing, Unbinding, Removing
<1>. QED  BY <1>1, <1>2, AsksKeeps

LEMMA PendIs ==
  ASSUME Base, NEW m \in Handlers, Pend(m)
  PROVE  Base' /\ m \in Mentions /\ at[m] = "asked" /\ Asks(m, None, "pending_config", "over")
<1>1. /\ m \in Mentions /\ m \in Requests /\ at[m] = "asked" /\ UNCHANGED Others
      /\ GetOrCreate(m, None, None, "pending_config", "over") /\ "over" \in Places \ {"refused"}
  BY DEF Pend, Base, Kind, Reading, Requests, Places, Submits, Waiting
<1>2. GotOrCreated(m, None, "pending_config", "over") => Kind(m)'
  BY <1>1 DEF GotOrCreated, Kind, Reading, Messaging, Confirming, Adding, Looking, Binding, Placing,
     Filling, Finishing, Unbinding, Removing
<1>. QED  BY <1>1, <1>2, AsksKeeps

LEMMA NoticedIs ==
  ASSUME Base, NEW n \in Handlers, Noticed(n)
  PROVE  Base' /\ n \in Requests /\ at[n] = "noticed" /\ Asks(n, None, "pending_config", "over")
<1>1. /\ n \in Requests /\ at[n] = "noticed" /\ UNCHANGED Others
      /\ GetOrCreate(n, None, None, "pending_config", "over") /\ "over" \in Places \ {"refused"}
  BY DEF Noticed, Base, Kind, Places, Submits, Waiting
<1>2. GotOrCreated(n, None, "pending_config", "over") => Kind(n)'
  BY <1>1 DEF GotOrCreated, Kind, Reading, Messaging, Confirming, Adding, Looking, Binding, Placing,
     Filling, Finishing, Unbinding, Removing
<1>. QED  BY <1>1, <1>2, AsksKeeps

LEMMA EnterIs ==
  ASSUME Base, NEW m \in Handlers, Enter(m)
  PROVE  /\ Base' /\ m \in Mentions /\ at[m] = "entered" /\ got[m] \in Projects
         /\ Asks(m, got[m], "active", "source")
<1>1. /\ m \in Mentions /\ m \in Requests /\ at[m] = "entered" /\ got[m] # None /\ UNCHANGED Others
      /\ GetOrCreate(m, got[m], env[m], "active", "source") /\ "source" \in Places \ {"refused"}
  BY DEF Enter, Base, Kind, Messaging, Requests, Places
<1>2. PICK p, e : p = got[m] /\ e = env[m]
  OBVIOUS
<1>3. p \in Projects \cup {None} /\ e \in Projects \cup {None}
  BY <1>2, RequestIs, <1>1, Stays DEF Base
<1>4. GetOrCreate(m, p, e, "active", "source")
  BY <1>1, <1>2
<1>5. GotOrCreated(m, p, "active", "source") => Kind(m)'
  BY <1>1 DEF GotOrCreated, Kind, Reading, Messaging, Confirming, Adding, Looking, Binding, Placing,
     Filling, Finishing, Unbinding, Removing
<1>6. Base' /\ Asks(m, p, "active", "source")
  BY <1>1, <1>3, <1>4, <1>5, AsksKeeps
<1>. QED  BY <1>1, <1>2, <1>3, <1>6

LEMMA ReopenIs ==
  ASSUME Base, NEW c \in Handlers, Reopen(c)
  PROVE  /\ Base' /\ c \in Confirms /\ at[c] = "confirmed" /\ got[c] \in Projects
         /\ Asks(c, got[c], "active", "submit")
<1>1. /\ c \in Confirms /\ c \in Requests /\ at[c] = "confirmed" /\ got[c] # None /\ UNCHANGED Others
      /\ GetOrCreate(c, got[c], env[c], "active", "submit") /\ "submit" \in Places \ {"refused"}
  BY DEF Reopen, Base, Kind, Confirming, Requests, Places, Submits
<1>2. PICK p, e : p = got[c] /\ e = env[c]
  OBVIOUS
<1>3. p \in Projects \cup {None} /\ e \in Projects \cup {None}
  BY <1>2, RequestIs, <1>1, Stays DEF Base
<1>4. GetOrCreate(c, p, e, "active", "submit")
  BY <1>1, <1>2
<1>5. GotOrCreated(c, p, "active", "submit") => Kind(c)'
  BY <1>1 DEF GotOrCreated, Kind, Reading, Messaging, Confirming, Adding, Looking, Binding, Placing,
     Filling, Finishing, Unbinding, Removing
<1>6. Base' /\ Asks(c, p, "active", "submit")
  BY <1>1, <1>3, <1>4, <1>5, AsksKeeps
<1>. QED  BY <1>1, <1>2, <1>3, <1>6

LEMMA AddedIs ==
  ASSUME Base, NEW a \in Handlers, Added(a)
  PROVE  /\ Base' /\ a \in Additions /\ at[a] = "added"
         /\ \/ got[a] = None /\ Asks(a, None, "pending_config", "over")
            \/ got[a] \in Projects /\ Asks(a, got[a], "active", "over")
<1>1. PICK p, e, md : p = got[a] /\ e = env[a] /\ md = IF got[a] = None THEN "pending_config" ELSE "active"
  OBVIOUS
<1>2. /\ a \in Additions /\ a \in Requests /\ at[a] = "added" /\ UNCHANGED Others
      /\ GetOrCreate(a, p, e, md, "over") /\ "over" \in Places \ {"refused"}
  BY <1>1 DEF Added, Base, Kind, Adding, Requests, Places, Submits, Waiting
<1>3. p \in Projects \cup {None} /\ e \in Projects \cup {None} /\ md \in {"pending_config", "active"}
  BY <1>1, RequestIs, <1>2, Stays DEF Base
<1>4. GotOrCreated(a, p, md, "over") => Kind(a)'
  BY <1>2 DEF GotOrCreated, Kind, Reading, Messaging, Confirming, Adding, Looking, Binding, Placing,
     Filling, Finishing, Unbinding, Removing
<1>5. Base' /\ Asks(a, p, md, "over")
  BY <1>2, <1>3, <1>4, AsksKeeps
<1>. QED  BY <1>1, <1>2, <1>3, <1>5

LEMMA MakeIs ==
  ASSUME Base, NEW p \in Handlers, Make(p)
  PROVE  /\ Base' /\ Steps(p) /\ p \in Projects /\ got[p] = p /\ at[p] \in {"making", "remaking"}
         /\ GotOrCreated(p, p, "active", IF at[p] = "making" THEN "allow" ELSE "over")
         /\ unsettled' = (IF at'[p] = "refused" \/ (at[p] = "making" /\ at'[p] = "over")
                          THEN unsettled \cup {p} ELSE unsettled)
         /\ UNCHANGED <<private, project, bound, envs, policies, runVars, crossed, hasty, outdated>>
<1>1. PICK to : to = IF at[p] = "making" THEN "allow" ELSE "over"
  OBVIOUS
<1>2. /\ at[p] \in {"making", "remaking"} /\ p \in Projects /\ got[p] = p /\ env[p] = p /\ p # None
      /\ project[p] # "none" /\ to \in Places \ {"refused"}
  BY <1>1, BindingIs DEF Make, Binding, Filling, Finishing, Places, Submits, Waiting
<1>3. /\ GetOrCreate(p, p, p, "active", to)
      /\ unsettled' = (IF at'[p] = "refused" \/ (at[p] = "making" /\ at'[p] = "over")
                       THEN unsettled \cup {p} ELSE unsettled)
      /\ UNCHANGED <<private, project, bound, envs, policies, runVars, page, faults, crossed, hasty,
                     outdated, orphaned>>
  BY <1>1 DEF Make
<1>4. GotOrCreated(p, p, "active", to)
  BY <1>2, <1>3, GetOrCreateIs DEF Base
<1>5. Steps(p)
  BY <1>1, <1>2, <1>4, BindingSteps DEF GotOrCreated, Binding
<1>6. RestShape'
  BY <1>2, <1>3 DEF Base, Shape, RestShape
<1>7. Exists(session'.proj)
  BY <1>4 DEF GotOrCreated, Base, RowsOK
<1>8. SessionOK' /\ session'.run = session.run /\ session'.token = session.token
      /\ (session'.proj # session.proj /\ session'.proj # None => session'.proj # private.proj)
  BY <1>4 DEF GotOrCreated
<1>9. Base'
  BY <1>3, <1>5, <1>6, <1>7, <1>8, SessionKeeps
<1>. QED  BY <1>1, <1>2, <1>3, <1>4, <1>5, <1>9

LEMMA BindIs ==
  ASSUME Base, NEW p \in Handlers, Bind(p)
  PROVE  /\ Base' /\ Steps(p) /\ p \in Projects /\ got[p] = p /\ at[p] \in {"binding", "rebinding"}
         /\ UNCHANGED <<private, project, bound, envs, policies, runVars, crossed, hasty, outdated>>
         /\ \/ /\ seen[p].id = 0 /\ at'[p] = (IF at[p] = "binding" THEN "make" ELSE "remake")
               /\ got'[p] = p /\ session' = session /\ unsettled' = unsettled
            \/ /\ seen[p].id # 0 /\ at'[p] = (IF at[p] = "binding" THEN "allow" ELSE "over")
               /\ at'[p] = "allow" => got'[p] = p
               /\ at'[p] = "over" => got'[p] = None
               /\ session'.proj = p /\ session'.mode = "active" /\ unsettled' = unsettled
               /\ session.proj # p => Exists(p)
            \/ /\ at'[p] = "over" /\ got'[p] = None /\ session' = session
               /\ unsettled' = unsettled \cup {p}
<1>1. PICK to, n : /\ to = (IF at[p] = "binding" THEN "allow" ELSE "over")
                   /\ n = [session EXCEPT !.proj = p, !.env = p, !.mode = "active"]
  OBVIOUS
<1>2. PICK mk : mk = IF at[p] = "binding" THEN "make" ELSE "remake"
  OBVIOUS
<1>3. /\ at[p] \in {"binding", "rebinding"} /\ p \in Projects /\ got[p] = p /\ env[p] = p /\ p # None
      /\ project[p] # "none" /\ {to, mk} \subseteq Places
  BY <1>1, <1>2, BindingIs DEF Bind, Binding, Filling, Finishing, Places, Submits, Waiting
<1>4. /\ SessionOK /\ session.id \in Nat /\ (session.proj # None => session.proj # private.proj)
      /\ Exists(session.proj)
  BY DEF Base, Shape, RowShape, SessionOK, Session, RowsOK
<1>5. /\ UNCHANGED <<issued, private, project, bound, envs, policies, runVars, page, faults, crossed,
                     hasty, outdated, orphaned>>
      /\ \/ /\ seen[p].id = 0 /\ GoesOn(p, 0, mk) /\ UNCHANGED <<session, unsettled>>
         \/ /\ seen[p].id # 0 /\ Accepted(seen[p], n) /\ ~Clashes(n)
            /\ session' = n /\ GoesOn(p, 0, to) /\ unsettled' = unsettled
         \/ /\ BreaksOff(p) /\ UNCHANGED session
  BY <1>1, <1>2 DEF Bind
<1>6. RestShape'
  BY <1>3, <1>5 DEF Base, Shape, RestShape, BreaksOff
<1>7. CASE seen[p].id = 0 /\ GoesOn(p, 0, mk) /\ UNCHANGED <<session, unsettled>>
  <2>1. MoveOf(p) /\ at'[p] = mk /\ got'[p] = p /\ env'[p] = p
    BY <1>2, <1>3, <1>7, GoesOnIs DEF Base
  <2>2. Steps(p)
    BY <1>2, <1>3, <2>1, BindingSteps DEF Binding, Filling, Finishing
  <2>3. Base'
    BY <1>4, <1>5, <1>6, <1>7, <2>2, SessionKeeps DEF SessionOK
  <2>. QED  BY <1>2, <1>3, <1>5, <1>7, <2>1, <2>2, <2>3
<1>8. CASE /\ seen[p].id # 0 /\ Accepted(seen[p], n) /\ ~Clashes(n)
           /\ session' = n /\ GoesOn(p, 0, to) /\ unsettled' = unsettled
  <2>1. /\ MoveOf(p) /\ at'[p] = to /\ (to = "allow" => got'[p] = p /\ env'[p] = p)
        /\ to = "over" => got'[p] = None
    BY <1>1, <1>3, <1>8, GoesOnIs DEF Base
  <2>2. Steps(p)
    BY <1>1, <1>3, <2>1, BindingSteps DEF Binding
  <2>3. /\ n.proj = p /\ n.mode = "active" /\ n.id = session.id /\ n.run = session.run
        /\ n.token = session.token /\ n \in Session
    BY <1>1, <1>3, <1>4 DEF SessionOK, Session
  <2>4. session.id = seen[p].id /\ session.id # 0 /\ (session.proj # p => Exists(p) /\ p # private.proj)
    BY <1>3, <1>8, <2>3 DEF Accepted, Clashes
  <2>5. SessionOK'
    BY <1>4, <1>5, <1>8, <2>3, <2>4 DEF SessionOK
  <2>6. Base'
    BY <1>4, <1>5, <1>6, <1>8, <2>2, <2>3, <2>4, <2>5, SessionKeeps
  <2>. QED  BY <1>1, <1>3, <1>5, <1>8, <2>1, <2>2, <2>3, <2>4, <2>6
<1>9. CASE BreaksOff(p) /\ UNCHANGED session
  <2>1. Ends(p, "over") /\ unsettled' = unsettled \cup {p} /\ "over" \in Waiting
    BY <1>9 DEF BreaksOff, Waiting
  <2>2. MoveOf(p) /\ at'[p] = "over" /\ got'[p] = None
    BY <2>1, EndsIs DEF Base
  <2>3. Steps(p)
    BY <1>3, <2>2, BindingSteps
  <2>4. Base'
    BY <1>4, <1>5, <1>6, <1>9, <2>3, SessionKeeps DEF SessionOK
  <2>. QED  BY <1>3, <1>5, <1>9, <2>1, <2>2, <2>3, <2>4
<1>. QED  BY <1>5, <1>7, <1>8, <1>9

-----------------------------------------------------------------------------
(* Rows and requests: policies.                                             *)

\* A step that makes or moves policies.
LEMMA PoliciesKeep ==
  ASSUME Base, NEW h \in Handlers, Steps(h), RestShape', PoliciesOK',
         UNCHANGED <<session, issued, private, project, bound, envs, runVars, orphaned>>
  PROVE  Base'
<1>1. UNCHANGED <<session, issued, private, project, bound, envs, lock, runs, orphaned>>
  BY DEF runVars
<1>2. RowShape' /\ RowsOK' /\ LockOK'
  BY <1>1 DEF Base, Shape, RowShape, SessionOK, RowsOK, LockOK, LockIsOwned, Exists
<1>3. RequestShape' /\ (\A g \in Handlers : Kind(g)') /\ Unmade'
  BY <1>1, <1>2, RequestsKept
<1>. QED  BY <1>2, <1>3 DEF Base, Shape

LEMMA RemovedIs ==
  ASSUME NEW S, NEW s \in Seq(S), NEW k \in 1..Len(s)
  PROVE  /\ Seqs!RemoveAt(s, k) \in Seq(S) /\ Len(Seqs!RemoveAt(s, k)) = Len(s) - 1
         /\ \A i \in 1..(Len(s) - 1) :
              Seqs!RemoveAt(s, k)[i] = IF i < k THEN s[i] ELSE s[i + 1]
<1>. DEFINE a == SubSeq(s, 1, k - 1)
            b == SubSeq(s, k + 1, Len(s))
<1>1. Len(s) \in Nat /\ \A i \in 1..Len(s) : s[i] \in S
  OBVIOUS
<1>2. a \in Seq(S) /\ Len(a) = k - 1 /\ \A i \in 1..(k - 1) : a[i] = s[i]
  <2>1. 1 \in Int /\ k - 1 \in Int /\ \A i \in 1..(k - 1) : s[i] \in S
    BY <1>1
  <2>. HIDE DEF a
  <2>2. /\ a \in Seq(S) /\ Len(a) = IF 1 <= k - 1 THEN (k - 1) - 1 + 1 ELSE 0
        /\ \A i \in 1..((k - 1) - 1 + 1) : a[i] = s[1 + i - 1]
    BY <2>1, SubSeqProperties DEF a
  <2>. QED  BY <1>1, <2>2
<1>3. b \in Seq(S) /\ Len(b) = Len(s) - k /\ \A i \in 1..(Len(s) - k) : b[i] = s[k + i]
  <2>1. k + 1 \in Int /\ Len(s) \in Int /\ \A i \in (k + 1)..Len(s) : s[i] \in S
    BY <1>1
  <2>. HIDE DEF b
  <2>2. /\ b \in Seq(S) /\ Len(b) = IF k + 1 <= Len(s) THEN Len(s) - (k + 1) + 1 ELSE 0
        /\ \A i \in 1..(Len(s) - (k + 1) + 1) : b[i] = s[(k + 1) + i - 1]
    BY <2>1, SubSeqProperties DEF b
  <2>. QED  BY <1>1, <2>2
<1>4. Seqs!RemoveAt(s, k) = a \o b
  BY DEF Seqs!RemoveAt
<1>. HIDE DEF a, b
<1>5. /\ a \o b \in Seq(S) /\ Len(a \o b) = Len(a) + Len(b)
      /\ \A i \in 1..(Len(a) + Len(b)) : (a \o b)[i] = IF i <= Len(a) THEN a[i] ELSE b[i - Len(a)]
  BY <1>2, <1>3, ConcatProperties
<1>6. ASSUME NEW i \in 1..(Len(s) - 1)
      PROVE  (a \o b)[i] = IF i < k THEN s[i] ELSE s[i + 1]
  <2>1. i \in 1..(Len(a) + Len(b)) /\ i \in Nat /\ k \in Nat
    BY <1>1, <1>2, <1>3
  <2>2. CASE i < k
    BY <1>2, <1>5, <2>1, <2>2
  <2>3. CASE i >= k
    <3>1. (a \o b)[i] = b[i - (k - 1)] /\ i - (k - 1) \in 1..(Len(s) - k)
      BY <1>1, <1>2, <1>5, <2>1, <2>3
    <3>2. b[i - (k - 1)] = s[k + (i - (k - 1))]
      BY <1>3, <3>1
    <3>3. k + (i - (k - 1)) = i + 1 /\ ~(i < k)
      BY <2>1, <2>3
    <3>. QED  BY <3>1, <3>2, <3>3
  <2>. QED  BY <2>1, <2>2, <2>3
<1>7. Len(a) + Len(b) = Len(s) - 1
  BY <1>1, <1>2, <1>3
<1>. QED  BY <1>4, <1>5, <1>6, <1>7

\* The policies without p's.
LEMMA WithoutIs ==
  ASSUME PoliciesOK, NEW p \in Projects
  PROVE  /\ OnePerProject(Without(p))
         /\ \A i \in 1..Len(Without(p)) : Without(p)[i].proj # p
<1>1. policies \in Seq(Policy) /\ DOMAIN policies = 1..Len(policies) /\ Len(policies) \in Nat
  BY DEF PoliciesOK, OnePerProject
<1>2. CASE \E i \in DOMAIN policies : policies[i].proj = p
  <2>1. PICK k : k = CHOOSE i \in DOMAIN policies : policies[i].proj = p
    OBVIOUS
  <2>2. k \in 1..Len(policies) /\ policies[k].proj = p
    BY <1>1, <1>2, <2>1
  <2>3. PICK w : w = Without(p)
    OBVIOUS
  <2>4. w = Seqs!RemoveAt(policies, k)
    BY <1>2, <2>1, <2>3 DEF Without
  <2>8. /\ w \in Seq(Policy) /\ Len(w) = Len(policies) - 1
        /\ \A i \in 1..Len(w) : w[i] = IF i < k THEN policies[i] ELSE policies[i + 1]
    BY <1>1, <2>2, <2>4, RemovedIs
  <2>9. \A i \in 1..Len(w) : \E j \in 1..Len(policies) : j # k /\ w[i] = policies[j]
    BY <1>1, <2>2, <2>8
  <2>10. \A i \in 1..Len(w) : w[i].proj # p
    BY <1>1, <2>2, <2>9 DEF PoliciesOK, OnePerProject
  <2>11. ASSUME NEW i \in 1..Len(w), NEW j \in 1..Len(w), w[i].proj = w[j].proj
         PROVE  i = j
    <3>1. PICK was : was = [l \in 1..Len(w) |-> IF l < k THEN l ELSE l + 1]
      OBVIOUS
    <3>2. \A l \in 1..Len(w) : was[l] \in 1..Len(policies) /\ w[l] = policies[was[l]]
      BY <1>1, <2>2, <2>8, <3>1
    <3>3. was[i] = was[j]
      BY <2>11, <3>2 DEF PoliciesOK, OnePerProject
    <3>. QED  BY <1>1, <2>2, <2>8, <3>1, <3>3
  <2>. QED  BY <1>1, <2>3, <2>8, <2>9, <2>10, <2>11 DEF PoliciesOK, OnePerProject
<1>3. CASE ~\E i \in DOMAIN policies : policies[i].proj = p
  <2>1. Without(p) = policies
    BY <1>3 DEF Without
  <2>. QED  BY <1>1, <1>3, <2>1 DEF PoliciesOK, OnePerProject
<1>. QED  BY <1>2, <1>3

\* A policy of p put at the end.
LEMMA LaterIs ==
  ASSUME PoliciesOK, NEW p \in Projects, Exists(p), NEW r \in Policy, r.proj = p,
         NEW s, s = Append(Without(p), r)
  PROVE  OnePerProject(s) /\ Len(s) # 0 /\ s[Len(s)] = r
<1>1. PICK w : w = Without(p)
  OBVIOUS
<1>2. OnePerProject(w) /\ \A i \in 1..Len(w) : w[i].proj # p
  BY <1>1, WithoutIs
<1>3. /\ w \in Seq(Policy) /\ s \in Seq(Policy) /\ Len(s) = Len(w) + 1 /\ s[Len(w) + 1] = r
      /\ \A i \in 1..Len(w) : s[i] = w[i]
  BY <1>1, <1>2, AppendProperties DEF OnePerProject
<1>4. Len(w) \in Nat
  BY <1>3, LenProperties
<1>5. ASSUME NEW i \in 1..Len(s), NEW j \in 1..Len(s), s[i].proj = s[j].proj
      PROVE  i = j
  <2>1. CASE i \in 1..Len(w) /\ j \in 1..Len(w)
    BY <1>2, <1>3, <1>5, <2>1 DEF OnePerProject
  <2>2. i \in 1..Len(w) <=> j \in 1..Len(w)
    BY <1>2, <1>3, <1>4, <1>5
  <2>. QED  BY <1>3, <1>4, <2>1, <2>2
<1>6. ASSUME NEW i \in 1..Len(s)
      PROVE  Exists(s[i].proj)
  <2>1. i \in 1..Len(w) \/ i = Len(w) + 1
    BY <1>3, <1>4
  <2>2. CASE i \in 1..Len(w)
    BY <1>2, <1>3, <2>2 DEF OnePerProject
  <2>. QED  BY <1>3, <2>1, <2>2
<1>7. OnePerProject(s)
  BY <1>3, <1>5, <1>6 DEF OnePerProject
<1>. QED  BY <1>3, <1>4, <1>7

LEMMA EnsuredIs ==
  ASSUME PoliciesOK, NEW p \in Projects, Exists(p), NEW s, s = Ensured(p)
  PROVE  OnePerProject(s) /\ Len(s) # 0 /\ s[Len(s)].proj = p /\ s[Len(s)].env = DefaultEnv(p)
<1>1. PICK r : r = [proj |-> p, env |-> DefaultEnv(p),
                    on |-> \A i \in DOMAIN policies : policies[i].proj = p => policies[i].on]
  OBVIOUS
<1>2. r \in Policy /\ r.proj = p /\ r.env = DefaultEnv(p)
  BY <1>1 DEF Policy, DefaultEnv
<1>3. s = Append(Without(p), r)
  BY <1>1 DEF Ensured
<1>4. OnePerProject(s) /\ Len(s) # 0 /\ s[Len(s)] = r
  BY <1>2, <1>3, LaterIs
<1>. QED  BY <1>2, <1>4

LEMMA MakePolicyIs ==
  ASSUME Base, NEW m \in Handlers, MakePolicy(m)
  PROVE  /\ Base' /\ Steps(m) /\ m \in Mentions /\ at[m] = "default" /\ got'[m] = got[m]
         /\ at'[m] \in {"effective", "find"}
         /\ UNCHANGED <<session, private, project, bound, envs, runVars, historyVars>>
         /\ \/ policies' = policies
            \/ /\ bound # None /\ Len(policies') # 0 /\ policies'[Len(policies')].proj = bound
               /\ policies'[Len(policies')].env = DefaultEnv(bound)
<1>1. m \in Mentions /\ m \in Requests /\ at[m] = "default" /\ got[m] # None
  BY DEF MakePolicy, Base, Kind, Messaging, Requests
<1>2. PICK b, e : b = bound /\ e = DefaultEnv(bound)
  OBVIOUS
<1>3. PICK to : to = IF e = None THEN "effective" ELSE "find"
  OBVIOUS
<1>4. /\ UNCHANGED <<session, issued, private, project, bound, envs, runVars, page, faults, historyVars>>
      /\ seen' = seen /\ got' = got
      /\ \/ b = None /\ Goes(m, "effective") /\ policies' = policies /\ env' = env
         \/ b # None /\ policies' = Ensured(b) /\ env' = [env EXCEPT ![m] = e] /\ Goes(m, to)
  BY <1>2, <1>3 DEF MakePolicy
<1>5. /\ b \in Projects \cup {None} /\ Exists(b) /\ e \in Projects \cup {None}
      /\ to \in Places /\ "effective" \in Places /\ PoliciesOK
  BY <1>2, <1>3 DEF Base, Shape, RowShape, RowsOK, DefaultEnv, Places, Messaging
<1>6. MoveOf(m) /\ at'[m] \in {"effective", "find"} /\ got'[m] = got[m]
  <2>1. CASE Goes(m, "effective") /\ env' = env
    BY <1>4, <1>5, <2>1, GoesIs DEF Base
  <2>2. CASE env' = [env EXCEPT ![m] = e] /\ Goes(m, to)
    BY <1>3, <1>4, <1>5, <2>2, TakesEnv DEF Base
  <2>. QED  BY <1>4, <2>1, <2>2
<1>7. Kind(m)'
  BY <1>1, <1>6 DEF Kind, Reading, Messaging, Confirming, Adding, Looking, Binding, Placing,
     Filling, Finishing, Unbinding, Removing
<1>8. Steps(m)
  BY <1>1, <1>6, <1>7, RequestSteps
<1>9. /\ OnePerProject(policies')
      /\ \/ policies' = policies
         \/ /\ b # None /\ Len(policies') # 0 /\ policies'[Len(policies')].proj = b
            /\ policies'[Len(policies')].env = DefaultEnv(b)
  <2>1. CASE policies' = policies
    BY <1>5, <2>1 DEF PoliciesOK
  <2>2. CASE b # None /\ policies' = Ensured(b)
    BY <1>5, <2>2, EnsuredIs
  <2>. QED  BY <1>4, <2>1, <2>2
<1>10. PoliciesOK'
  BY <1>4, <1>9 DEF PoliciesOK, OnePerProject, Exists
<1>11. RestShape' /\ orphaned' = orphaned
  BY <1>4, RestKept
<1>12. Base'
  BY <1>4, <1>8, <1>10, <1>11, PoliciesKeep
<1>. QED  BY <1>1, <1>2, <1>4, <1>6, <1>8, <1>9, <1>12

LEMMA EditIs ==
  ASSUME Base, NEW e \in Handlers, Edit(e)
  PROVE  /\ Base' /\ Steps(e) /\ e \in Requests /\ at[e] = "off" /\ at'[e] = "edit"
         /\ UNCHANGED <<session, private, project, bound, envs, runVars, historyVars>>
         /\ \/ policies' = policies
            \/ /\ bound # None /\ Len(policies') # 0 /\ policies'[Len(policies')].proj = bound
               /\ policies'[Len(policies')].env = DefaultEnv(bound)
<1>1. e \in Edits /\ e \in Requests /\ at[e] = "off" /\ Goes(e, "edit") /\ "edit" \in Places
  BY DEF Edit, Starts, Requests, Places
<1>2. PICK p : p = IF policies = <<>> THEN bound ELSE policies[Len(policies)].proj
  OBVIOUS
<1>3. /\ p # None /\ got' = [got EXCEPT ![e] = p] /\ seen' = seen /\ env' = env
      /\ policies' = (IF policies = <<>> THEN Ensured(p) ELSE policies)
      /\ UNCHANGED <<session, issued, private, project, bound, envs, runVars, page, faults, historyVars>>
  BY <1>2 DEF Edit
<1>4. /\ bound \in Projects \cup {None} /\ Exists(bound) /\ PoliciesOK
  BY DEF Base, Shape, RowShape, RowsOK
<1>5. p \in Projects /\ Exists(p) /\ (policies = <<>> => p = bound)
  <2>1. CASE policies = <<>>
    BY <1>2, <1>3, <1>4, <2>1
  <2>2. CASE policies # <<>>
    <3>1. Len(policies) \in 1..Len(policies) /\ policies[Len(policies)] \in Policy
      BY <1>4, <2>2 DEF PoliciesOK, OnePerProject
    <3>. QED  BY <1>2, <1>4, <2>2, <3>1 DEF PoliciesOK, OnePerProject, Policy
  <2>. QED  BY <2>1, <2>2
<1>6. MoveOf(e) /\ at'[e] = "edit" /\ got'[e] = p
  BY <1>1, <1>3, <1>5, TakesProject DEF Base
<1>7. Kind(e)'
  BY <1>1, <1>3, <1>6 DEF Kind, Reading, Messaging, Confirming, Adding, Looking, Binding, Placing,
     Filling, Finishing, Unbinding, Removing
<1>8. Exists(got'[e])
  BY <1>5, <1>6
<1>9. Steps(e)
  BY <1>1, <1>6, <1>7, <1>8, RequestSteps
<1>10. /\ OnePerProject(policies')
       /\ \/ policies' = policies
          \/ /\ p = bound /\ Len(policies') # 0 /\ policies'[Len(policies')].proj = p
             /\ policies'[Len(policies')].env = DefaultEnv(p)
  <2>1. CASE policies # <<>>
    BY <1>3, <1>4, <2>1 DEF PoliciesOK
  <2>2. CASE policies = <<>>
    <3>1. policies' = Ensured(p)
      BY <1>3, <2>2
    <3>. QED  BY <1>4, <1>5, <2>2, <3>1, EnsuredIs
  <2>. QED  BY <2>1, <2>2
<1>11. PoliciesOK'
  BY <1>3, <1>10 DEF PoliciesOK, OnePerProject, Exists
<1>12. RestShape' /\ orphaned' = orphaned
  BY <1>3, RestKept
<1>13. Base'
  BY <1>3, <1>9, <1>11, <1>12, PoliciesKeep
<1>. QED  BY <1>1, <1>3, <1>6, <1>9, <1>10, <1>13

LEMMA EditedIs ==
  ASSUME Base, NEW e \in Handlers, Edited(e)
  PROVE  /\ Base' /\ Steps(e) /\ e \in Requests /\ at[e] = "edit" /\ at'[e] = "over" /\ got'[e] = None
         /\ UNCHANGED <<session, private, project, bound, envs, runVars, crossed, unsettled, hasty>>
         /\ outdated' = (outdated \/ got[e] # bound)
         /\ \/ policies' = policies
            \/ /\ Len(policies') # 0 /\ policies'[Len(policies')].proj = got[e]
               /\ \E i \in 1..Len(policies) : /\ policies[i].proj = got[e]
                                              /\ policies'[Len(policies')].env = policies[i].env
<1>1. e \in Requests /\ at[e] = "edit" /\ got[e] # None
  BY DEF Edited, Base, Kind
<1>2. PICK p : p = got[e]
  OBVIOUS
<1>3. /\ Ends(e, "over") /\ "over" \in Waiting /\ outdated' = (outdated \/ p # bound)
      /\ UNCHANGED <<session, issued, private, project, bound, envs, runVars, page, faults, crossed,
                     unsettled, hasty, orphaned>>
      /\ \/ policies' = policies
         \/ \E i \in DOMAIN policies, on \in BOOLEAN :
              policies[i].proj = p /\ policies' = Append(Without(p), [policies[i] EXCEPT !.on = on])
  BY <1>2 DEF Edited, Waiting
<1>4. PoliciesOK /\ p \in Projects
  BY <1>1, <1>2, Stays DEF Base
<1>5. MoveOf(e) /\ at'[e] = "over" /\ got'[e] = None
  BY <1>3, EndsIs DEF Base
<1>6. Kind(e)'
  BY <1>5 DEF Kind, Reading, Messaging, Confirming, Adding, Looking, Binding, Placing,
     Filling, Finishing, Unbinding, Removing
<1>7. Steps(e)
  BY <1>1, <1>5, <1>6, RequestSteps
<1>8. /\ OnePerProject(policies')
      /\ \/ policies' = policies
         \/ /\ Len(policies') # 0 /\ policies'[Len(policies')].proj = p
            /\ \E i \in 1..Len(policies) : /\ policies[i].proj = p
                                           /\ policies'[Len(policies')].env = policies[i].env
  <2>1. CASE policies' = policies
    BY <1>4, <2>1 DEF PoliciesOK
  <2>2. CASE \E i \in DOMAIN policies, on \in BOOLEAN :
              policies[i].proj = p /\ policies' = Append(Without(p), [policies[i] EXCEPT !.on = on])
    <3>1. PICK i \in DOMAIN policies, on \in BOOLEAN :
              policies[i].proj = p /\ policies' = Append(Without(p), [policies[i] EXCEPT !.on = on])
      BY <2>2
    <3>2. i \in 1..Len(policies) /\ policies[i] \in Policy /\ Exists(p)
      BY <1>4, <3>1 DEF PoliciesOK, OnePerProject
    <3>3. PICK r : r = [policies[i] EXCEPT !.on = on]
      OBVIOUS
    <3>4. r \in Policy /\ r.proj = p /\ r.env = policies[i].env
      BY <3>1, <3>2, <3>3 DEF Policy
    <3>5. OnePerProject(policies') /\ Len(policies') # 0 /\ policies'[Len(policies')] = r
      BY <1>4, <3>1, <3>2, <3>3, <3>4, LaterIs
    <3>. QED  BY <3>1, <3>2, <3>4, <3>5
  <2>. QED  BY <1>3, <2>1, <2>2
<1>9. PoliciesOK'
  BY <1>3, <1>8 DEF PoliciesOK, OnePerProject, Exists
<1>10. outdated' \in BOOLEAN
  BY <1>3 DEF Base, Shape, RestShape
<1>11. RestShape'
  BY <1>3, <1>10 DEF Base, Shape, RestShape
<1>12. Base'
  BY <1>3, <1>7, <1>9, <1>11, PoliciesKeep
<1>. QED  BY <1>1, <1>2, <1>3, <1>5, <1>7, <1>8, <1>12

LEMMA AllowIs ==
  ASSUME Base, NEW p \in Handlers, Allow(p)
  PROVE  /\ Base' /\ Steps(p) /\ p \in Projects /\ at[p] = "allow" /\ got[p] = p
         /\ UNCHANGED <<session, private, project, bound, envs, runVars, crossed, hasty>>
         /\ outdated' = (outdated \/ p # bound)
         /\ \/ /\ at'[p] \in {"over", "rebind"} /\ unsettled' = unsettled
               /\ at'[p] = "over" => got'[p] = None
               /\ at'[p] = "rebind" => got'[p] = p
               /\ Len(policies') # 0 /\ policies'[Len(policies')].proj = p
               /\ policies'[Len(policies')].env = DefaultEnv(p)
            \/ /\ at'[p] = "over" /\ unsettled' = unsettled \cup {p} /\ policies' = policies
               /\ got'[p] = None
<1>1. /\ at[p] = "allow" /\ p \in Projects /\ got[p] = p /\ env[p] = p /\ p # None
      /\ project[p] # "none"
  BY BindingIs DEF Allow, Binding
<1>2. PICK to : to = IF page[p] = 0 THEN "over" ELSE "rebind"
  OBVIOUS
<1>3. /\ UNCHANGED <<session, issued, private, project, bound, envs, runVars, page, faults, crossed,
                     hasty, orphaned>>
      /\ outdated' = (outdated \/ p # bound)
      /\ \/ Exists(p) /\ policies' = Ensured(p) /\ GoesOn(p, 0, to) /\ unsettled' = unsettled
         \/ BreaksOff(p) /\ policies' = policies
  BY <1>2 DEF Allow
<1>4. PoliciesOK /\ to \in Places
  BY <1>2 DEF Base, Places, Binding, Finishing, Waiting
<1>5. outdated' \in BOOLEAN
  BY <1>3 DEF Base, Shape, RestShape
<1>6. CASE Exists(p) /\ policies' = Ensured(p) /\ GoesOn(p, 0, to) /\ unsettled' = unsettled
  <2>1. /\ MoveOf(p) /\ at'[p] = to /\ (to = "over" => got'[p] = None)
        /\ to # "over" => got'[p] = p /\ env'[p] = p
    BY <1>1, <1>4, <1>6, GoesOnIs DEF Base
  <2>2. Steps(p)
    BY <1>1, <1>2, <2>1, BindingSteps DEF Binding, Finishing
  <2>3. /\ OnePerProject(policies') /\ Len(policies') # 0 /\ policies'[Len(policies')].proj = p
        /\ policies'[Len(policies')].env = DefaultEnv(p)
    BY <1>1, <1>4, <1>6, EnsuredIs
  <2>4. PoliciesOK'
    BY <1>3, <2>3 DEF PoliciesOK, OnePerProject, Exists
  <2>5. RestShape'
    BY <1>3, <1>5, <1>6 DEF Base, Shape, RestShape
  <2>6. Base'
    BY <1>3, <2>2, <2>4, <2>5, PoliciesKeep
  <2>. QED  BY <1>1, <1>2, <1>3, <1>6, <2>1, <2>2, <2>3, <2>6
<1>7. CASE BreaksOff(p) /\ policies' = policies
  <2>1. Ends(p, "over") /\ unsettled' = unsettled \cup {p} /\ "over" \in Waiting
    BY <1>7 DEF BreaksOff, Waiting
  <2>2. MoveOf(p) /\ at'[p] = "over" /\ got'[p] = None
    BY <2>1, EndsIs DEF Base
  <2>3. Steps(p)
    BY <1>1, <2>2, BindingSteps
  <2>4. PoliciesOK'
    BY <1>3, <1>4, <1>7 DEF PoliciesOK, OnePerProject, Exists
  <2>5. RestShape'
    BY <1>1, <1>3, <1>5, <2>1 DEF Base, Shape, RestShape
  <2>6. Base'
    BY <1>3, <2>3, <2>4, <2>5, PoliciesKeep
  <2>. QED  BY <1>1, <1>3, <1>7, <2>1, <2>2, <2>3, <2>6
<1>. QED  BY <1>3, <1>6, <1>7

-----------------------------------------------------------------------------
(* Rows and requests: the lock, the runs and the private chat.              *)

\* A step of a run's submission or settling: the session's project and mode stay.
Executes(c) ==
  /\ Steps(c) /\ c \in Confirms /\ c \in Requests /\ at'[c] \in Submits \cup {"handed", "free", "clear", "over"}
  /\ got'[c] \in {got[c], None}
  /\ session'.proj = session.proj /\ session'.mode = session.mode
  /\ UNCHANGED <<private, project, bound, envs, policies, crossed, unsettled, hasty, outdated>>

LEMMA ExecutesKeeps ==
  ASSUME Base, NEW c \in Handlers, c \in Confirms, MoveOf(c), Kind(c)',
         at'[c] \in Submits \cup {"handed", "free", "clear", "over"}, got'[c] \in {got[c], None},
         SessionOK', session'.proj = session.proj, session'.mode = session.mode,
         lock' \in Confirms \cup {None},
         runs' \in [Confirms -> {"none", "locked", "made", "live", "deleted", "settling", "over"}],
         orphaned' \subseteq Confirms, LockOK',
         UNCHANGED <<private, project, bound, envs, policies, page, faults, crossed, unsettled, hasty,
                     outdated>>
  PROVE  Base' /\ Executes(c)
<1>1. c \in Requests
  BY DEF Requests
<1>2. Steps(c)
  BY <1>1, RequestSteps
<1>3. RowShape' /\ RestShape' /\ RowsOK' /\ PoliciesOK'
  BY DEF Base, Shape, RowShape, RestShape, RowsOK, PoliciesOK, OnePerProject, Exists
<1>4. RequestShape' /\ (\A g \in Handlers : Kind(g)') /\ Unmade'
  BY <1>2, <1>3, RequestsKept
<1>. QED  BY <1>1, <1>2, <1>3, <1>4 DEF Base, Shape, Executes

\* One that leaves rows and key alone.
LEMMA ExecutesQuietly ==
  ASSUME Base, NEW c \in Handlers, c \in Confirms, MoveOf(c), Kind(c)',
         at'[c] \in Submits \cup {"handed", "free", "clear", "over"}, got'[c] \in {got[c], None},
         UNCHANGED <<rowVars, runVars, page, faults, historyVars>>
  PROVE  Base' /\ Executes(c)
<1>1. Steps(c) /\ c \in Requests
  BY RequestSteps DEF Requests
<1>2. Quiet(c)
  BY <1>1, RestKept DEF Quiet
<1>. QED  BY <1>1, <1>2, QuietKeeps DEF Executes, rowVars, historyVars

LEMMA SubmitIs ==
  ASSUME Base, NEW c \in Handlers, Submit(c) \/ Enqueue(c)
  PROVE  Base' /\ Executes(c)
<1>1. /\ c \in Confirms /\ at[c] \in {"submit", "enqueue"}
      /\ UNCHANGED <<rowVars, runVars, page, faults, historyVars>>
      /\ {"over", "acquire", "handed"} \subseteq Places
  BY DEF Submit, Enqueue, Base, Kind, Places, Submits, Waiting
<1>2. /\ MoveOf(c) /\ at'[c] \in {"over", "acquire", "handed"} /\ got'[c] \in {got[c], None}
      /\ at'[c] = "acquire" => seen'[c] = seen[c] /\ at[c] = "submit"
  <2>1. CASE at[c] = "submit" /\ Goes(c, "acquire") /\ seen' = seen /\ got' = got /\ env' = env
    BY <1>1, <2>1, GoesIs DEF Base
  <2>2. CASE Ends(c, "over")
    BY <1>1, <2>2, EndsIs DEF Base, Waiting
  <2>3. CASE GoesOn(c, 0, "handed")
    BY <1>1, <2>3, GoesOnIs DEF Base
  <2>. QED  BY <2>1, <2>2, <2>3 DEF Submit, Enqueue
<1>3. Kind(c)'
  BY <1>1, <1>2 DEF Base, Kind, Reading, Messaging, Confirming, Adding, Looking, Binding, Placing,
     Filling, Finishing, Unbinding, Removing
<1>. QED  BY <1>1, <1>2, <1>3, ExecutesQuietly DEF Submits

LEMMA AcquireIs ==
  ASSUME Base, NEW c \in Handlers, Acquire(c)
  PROVE  Base' /\ Executes(c)
<1>1. /\ c \in Confirms /\ at[c] = "acquire" /\ UNCHANGED <<rowVars, page, faults, historyVars>>
      /\ {"over", "queue"} \subseteq Places
  BY DEF Acquire, Base, Kind, Places, Submits, Waiting
<1>2. CASE /\ lock = None /\ lock' = c /\ runs' = [runs EXCEPT ![c] = "locked"]
           /\ Goes(c, "queue") /\ seen' = seen /\ got' = got /\ env' = env
  <2>1. MoveOf(c) /\ at'[c] = "queue" /\ got'[c] = got[c] /\ seen'[c] = seen[c]
    BY <1>1, <1>2, GoesIs DEF Base
  <2>2. Kind(c)'
    BY <1>1, <2>1 DEF Base, Kind, Reading, Messaging, Confirming, Adding, Looking, Binding, Placing,
     Filling, Finishing, Unbinding, Removing
  <2>3. /\ UNCHANGED <<session, issued, private, project, bound, envs, policies, page, faults, crossed,
                        unsettled, hasty, outdated, orphaned>>
    BY <1>1 DEF rowVars, historyVars
  <2>4. SessionOK' /\ lock' \in Confirms \cup {None} /\ orphaned' \subseteq Confirms
        /\ runs' \in [Confirms -> {"none", "locked", "made", "live", "deleted", "settling", "over"}]
    BY <1>1, <1>2, <2>3 DEF Base, Shape, RowShape, RestShape, SessionOK
  <2>5. LockOK'
    <3>1. \A d \in Confirms : d # None /\ (d # c => runs'[d] = runs[d])
      BY <1>2, NoneIs DEF Base, Shape, RowShape, Handlers, Requests
    <3>2. runs'[c] = "locked"
      BY <1>1, <1>2 DEF Base, Shape, RowShape
    <3>. QED  BY <1>1, <1>2, <2>3, <3>1, <3>2 DEF Base, LockOK, LockIsOwned
  <2>. QED  BY <1>1, <2>1, <2>2, <2>3, <2>4, <2>5, ExecutesKeeps DEF Submits
<1>3. CASE Ends(c, "over") /\ UNCHANGED runVars
  <2>1. MoveOf(c) /\ at'[c] = "over" /\ got'[c] = None
    BY <1>3, EndsIs DEF Base, Waiting
  <2>2. Kind(c)'
    BY <2>1 DEF Kind, Reading, Messaging, Confirming, Adding, Looking, Binding, Placing,
     Filling, Finishing, Unbinding, Removing
  <2>. QED  BY <1>1, <1>3, <2>1, <2>2, ExecutesQuietly
<1>. QED  BY <1>2, <1>3 DEF Acquire

LEMMA QueueIs ==
  ASSUME Base, NEW c \in Handlers, Queue(c)
  PROVE  Base' /\ Executes(c)
<1>1. /\ c \in Confirms /\ at[c] = "queue" /\ runs[c] = "locked" /\ "mark" \in Places
      /\ UNCHANGED <<session, issued, private, project, bound, envs, policies, lock, page, faults, crossed,
                     unsettled, hasty, outdated>>
  BY DEF Queue, Base, Kind, Places, Submits, rowVars
<1>2. SessionOK' /\ lock' \in Confirms \cup {None}
  BY <1>1 DEF Base, Shape, RowShape, SessionOK
<1>3. CASE /\ runs' = [runs EXCEPT ![c] = "made"] /\ Goes(c, "mark")
           /\ seen' = seen /\ got' = got /\ env' = env /\ orphaned' = orphaned
  <2>1. MoveOf(c) /\ at'[c] = "mark" /\ got'[c] = got[c] /\ seen'[c] = seen[c]
    BY <1>1, <1>3, GoesIs DEF Base
  <2>2. Kind(c)'
    BY <1>1, <2>1 DEF Base, Kind, Reading, Messaging, Confirming, Adding, Looking, Binding, Placing,
     Filling, Finishing, Unbinding, Removing
  <2>3. /\ orphaned' \subseteq Confirms
        /\ runs' \in [Confirms -> {"none", "locked", "made", "live", "deleted", "settling", "over"}]
    BY <1>1, <1>3 DEF Base, Shape, RowShape, RestShape
  <2>4. LockOK'
    BY <1>1, <1>3 DEF Base, Shape, RowShape, LockOK, LockIsOwned
  <2>. QED  BY <1>1, <1>2, <2>1, <2>2, <2>3, <2>4, ExecutesKeeps DEF Submits
<1>4. CASE Fails(c) /\ runs' = runs
  <2>1. MoveOf(c) /\ at'[c] = "over" /\ got'[c] = got[c] /\ orphaned' = orphaned \cup {c}
    BY <1>4, FailsIs DEF Base
  <2>2. Kind(c)'
    BY <2>1 DEF Kind, Reading, Messaging, Confirming, Adding, Looking, Binding, Placing,
     Filling, Finishing, Unbinding, Removing
  <2>3. /\ orphaned' \subseteq Confirms
        /\ runs' \in [Confirms -> {"none", "locked", "made", "live", "deleted", "settling", "over"}]
    BY <1>1, <1>4, <2>1 DEF Base, Shape, RowShape, RestShape
  <2>4. LockOK'
    BY <1>1, <1>4, <2>1 DEF Base, LockOK, LockIsOwned
  <2>. QED  BY <1>1, <1>2, <2>1, <2>2, <2>3, <2>4, ExecutesKeeps
<1>. QED  BY <1>3, <1>4 DEF Queue

LEMMA MarkIs ==
  ASSUME Base, NEW c \in Handlers, Mark(c)
  PROVE  Base' /\ Executes(c)
<1>1. /\ c \in Confirms /\ at[c] = "mark" /\ "enqueue" \in Places /\ lock' = lock /\ SessionOK
      /\ UNCHANGED <<issued, private, project, bound, envs, policies, page, faults, crossed,
                     unsettled, hasty, outdated>>
      /\ env[c] \in Projects \cup {None}
  BY DEF Mark, Base, Kind, Places, Submits, Shape, RowShape, RequestShape
<1>2. lock' \in Confirms \cup {None}
  BY <1>1 DEF Base, Shape, RowShape
<1>3. CASE /\ session.id = seen[c].id /\ runs[c] = "made" /\ runs' = [runs EXCEPT ![c] = "live"]
           /\ session' = [session EXCEPT !.run = c, !.token = c, !.env = env[c]]
           /\ orphaned' = (IF c \in orphaned THEN orphaned \cup ({session.run} \ {None}) ELSE orphaned)
           /\ Goes(c, "enqueue") /\ seen' = seen /\ got' = got /\ env' = env
  <2>1. MoveOf(c) /\ at'[c] = "enqueue" /\ got'[c] = got[c]
    BY <1>1, <1>3, GoesIs DEF Base
  <2>2. Kind(c)'
    BY <1>1, <2>1 DEF Kind, Reading, Messaging, Confirming, Adding, Looking, Binding, Placing,
     Filling, Finishing, Unbinding, Removing
  <2>3. /\ session' \in Session /\ session'.id = session.id
        /\ session'.proj = session.proj /\ session'.mode = session.mode
        /\ session'.run = c /\ session'.token = c
    BY <1>1, <1>3 DEF SessionOK, Session
  <2>4. session.id # 0
    BY <1>1, <1>3 DEF Base, Kind
  <2>5. SessionOK'
    BY <1>1, <2>3, <2>4 DEF SessionOK
  <2>6. /\ orphaned' \subseteq Confirms
        /\ runs' \in [Confirms -> {"none", "locked", "made", "live", "deleted", "settling", "over"}]
    BY <1>1, <1>3 DEF Base, Shape, RowShape, RestShape, SessionOK, Session
  <2>7. lock = c \/ c \in orphaned
    BY <1>1, <1>3 DEF Base, LockOK
  <2>8. ASSUME NEW d \in Confirms, d # c PROVE runs'[d] = runs[d]
    BY <1>3, <2>8 DEF Base, Shape, RowShape
  <2>9. runs'[c] = "live"
    BY <1>1, <1>3 DEF Base, Shape, RowShape
  <2>10. LockIsOwned'
    <3>1. CASE lock = c
      BY <1>1, <2>3, <2>9, <3>1 DEF LockIsOwned
    <3>2. CASE lock # c /\ lock # None
      <4>1. runs'[lock] = runs[lock]
        BY <2>8, <3>2, <1>1, <1>2
      <4>2. \/ lock \in orphaned \/ runs[lock] \in {"locked", "made"}
            \/ session.run = lock
        BY <3>2 DEF Base, LockOK, LockIsOwned
      <4>3. session.run = lock => lock \in orphaned'
        BY <1>3, <2>7, <3>2
      <4>. QED  BY <1>1, <1>3, <4>1, <4>2, <4>3 DEF LockIsOwned
    <3>. QED  BY <1>1, <3>1, <3>2 DEF LockIsOwned
  <2>11. LockOK'
    BY <1>1, <1>3, <2>3, <2>8, <2>9, <2>10 DEF Base, LockOK
  <2>. QED  BY <1>1, <1>2, <2>1, <2>2, <2>3, <2>5, <2>6, <2>11, ExecutesKeeps DEF Submits
<1>4. CASE Fails(c) /\ session' = session /\ runs' = runs
  <2>1. MoveOf(c) /\ at'[c] = "over" /\ got'[c] = got[c] /\ orphaned' = orphaned \cup {c}
    BY <1>4, FailsIs DEF Base
  <2>2. Kind(c)'
    BY <2>1 DEF Kind, Reading, Messaging, Confirming, Adding, Looking, Binding, Placing,
     Filling, Finishing, Unbinding, Removing
  <2>3. /\ orphaned' \subseteq Confirms /\ SessionOK'
        /\ runs' \in [Confirms -> {"none", "locked", "made", "live", "deleted", "settling", "over"}]
    BY <1>1, <1>4, <2>1 DEF Base, Shape, RowShape, RestShape, SessionOK
  <2>4. LockOK'
    BY <1>1, <1>4, <2>1 DEF Base, LockOK, LockIsOwned
  <2>. QED  BY <1>1, <1>2, <1>4, <2>1, <2>2, <2>3, <2>4, ExecutesKeeps
<1>. QED  BY <1>3, <1>4 DEF Mark

LEMMA SettleIs ==
  ASSUME Base, NEW c \in Handlers, Settle(c)
  PROVE  Base' /\ Executes(c)
<1>1. /\ c \in Confirms /\ runs[c] \in {"live", "deleted"} /\ {"free", "over"} \subseteq Places /\ SessionOK
      /\ UNCHANGED <<session, issued, private, project, bound, envs, policies, lock, page, faults, crossed,
                     unsettled, hasty, outdated, orphaned>>
      /\ got' = got /\ env' = env
  BY DEF Settle, Base, Shape, RowShape, Places, Waiting, rowVars, historyVars
<1>2. SessionOK' /\ lock' \in Confirms \cup {None} /\ orphaned' \subseteq Confirms
  BY <1>1 DEF Base, Shape, RowShape, RestShape, SessionOK
<1>3. CASE /\ runs[c] = "live" /\ session.run = c /\ runs' = [runs EXCEPT ![c] = "settling"]
           /\ seen' = [seen EXCEPT ![c] = session] /\ Goes(c, "free")
  <2>1. MoveOf(c) /\ at'[c] = "free" /\ got'[c] = got[c] /\ seen'[c] = session
    BY <1>1, <1>3, ReadsIs DEF Base, SessionOK
  <2>2. session.token = c
    BY <1>1, <1>3, NoneIs DEF Base, LockOK, Handlers, Requests
  <2>3. Kind(c)'
    BY <1>1, <2>1, <2>2 DEF Kind, Reading, Messaging, Confirming, Adding, Looking, Binding, Placing,
     Filling, Finishing, Unbinding, Removing
  <2>4. runs' \in [Confirms -> {"none", "locked", "made", "live", "deleted", "settling", "over"}]
    BY <1>1, <1>3 DEF Base, Shape, RowShape
  <2>5. LockOK'
    BY <1>1, <1>3, <2>2 DEF Base, Shape, RowShape, LockOK, LockIsOwned
  <2>. QED  BY <1>1, <1>2, <2>1, <2>3, <2>4, <2>5, ExecutesKeeps
<1>4. CASE /\ ~(runs[c] = "live" /\ session.run = c) /\ Goes(c, "over") /\ seen' = seen
           /\ runs' = [runs EXCEPT ![c] = IF runs[c] = "live" THEN "over" ELSE runs[c]]
  <2>1. MoveOf(c) /\ at'[c] = "over" /\ got'[c] = got[c]
    BY <1>1, <1>4, GoesIs DEF Base
  <2>2. Kind(c)'
    BY <2>1 DEF Kind, Reading, Messaging, Confirming, Adding, Looking, Binding, Placing,
     Filling, Finishing, Unbinding, Removing
  <2>3. runs' \in [Confirms -> {"none", "locked", "made", "live", "deleted", "settling", "over"}]
    BY <1>1, <1>4 DEF Base, Shape, RowShape
  <2>4. LockOK'
    BY <1>1, <1>4 DEF Base, Shape, RowShape, LockOK, LockIsOwned
  <2>. QED  BY <1>1, <1>2, <2>1, <2>2, <2>3, <2>4, ExecutesKeeps
<1>. QED  BY <1>3, <1>4 DEF Settle

LEMMA FreeIs ==
  ASSUME Base, NEW c \in Handlers, Free(c)
  PROVE  Base' /\ Executes(c)
<1>1. /\ c \in Confirms /\ at[c] = "free" /\ runs[c] \in {"settling", "deleted"} /\ "clear" \in Places
      /\ UNCHANGED <<session, issued, private, project, bound, envs, policies, page, faults, crossed,
                     unsettled, hasty, outdated, orphaned>>
      /\ seen' = seen /\ got' = got /\ env' = env /\ Goes(c, "clear")
      /\ runs' = [runs EXCEPT ![c] = IF runs[c] = "settling" THEN "over" ELSE runs[c]]
  BY DEF Free, Base, Kind, Places, Waiting, rowVars, historyVars
<1>2. lock' = (IF lock = c THEN None ELSE lock)
  BY <1>1, NoneIs DEF Free, Released, Base, Kind, Handlers, Requests
<1>3. MoveOf(c) /\ at'[c] = "clear" /\ got'[c] = got[c]
  BY <1>1, GoesIs DEF Base
<1>4. Kind(c)'
  BY <1>1, <1>3 DEF Kind, Reading, Messaging, Confirming, Adding, Looking, Binding, Placing,
     Filling, Finishing, Unbinding, Removing
<1>5. /\ SessionOK' /\ lock' \in Confirms \cup {None} /\ orphaned' \subseteq Confirms
      /\ runs' \in [Confirms -> {"none", "locked", "made", "live", "deleted", "settling", "over"}]
  BY <1>1, <1>2 DEF Base, Shape, RowShape, RestShape, SessionOK
<1>6. LockOK'
  BY <1>1, <1>2 DEF Base, Shape, RowShape, LockOK, LockIsOwned
<1>. QED  BY <1>1, <1>3, <1>4, <1>5, <1>6, ExecutesKeeps

LEMMA ClearIs ==
  ASSUME Base, NEW c \in Handlers, Clear(c)
  PROVE  Base' /\ Executes(c)
<1>1. /\ c \in Confirms /\ at[c] = "clear" /\ runs[c] \in {"over", "deleted"} /\ "over" \in Places /\ SessionOK
      /\ UNCHANGED <<issued, private, project, bound, envs, policies, lock, runs, page, faults, crossed,
                     unsettled, hasty, outdated>>
      /\ Goes(c, "over") /\ seen' = [seen EXCEPT ![c] = Absent] /\ got' = got /\ env' = env
      /\ \/ /\ session' = [session EXCEPT !.run = None, !.token = None]
            /\ orphaned' = orphaned \cup ({session.run} \ {None, c})
         \/ session' = session /\ orphaned' = orphaned
  BY DEF Clear, Base, Kind, Shape, RowShape, Places, Waiting, runVars
<1>2. MoveOf(c) /\ at'[c] = "over" /\ got'[c] = got[c]
  BY <1>1, AbsentIs, ReadsIs DEF Base
<1>3. Kind(c)'
  BY <1>2 DEF Kind, Reading, Messaging, Confirming, Adding, Looking, Binding, Placing,
     Filling, Finishing, Unbinding, Removing
<1>4. /\ SessionOK' /\ session'.proj = session.proj /\ session'.mode = session.mode
      /\ session' = session \/ session'.run = None
  BY <1>1, AbsentIs DEF SessionOK, Session, Absent
<1>5. /\ lock' \in Confirms \cup {None} /\ orphaned' \subseteq Confirms
      /\ runs' \in [Confirms -> {"none", "locked", "made", "live", "deleted", "settling", "over"}]
  BY <1>1 DEF Base, Shape, RowShape, RestShape, SessionOK, Session
<1>6. lock = c => c \in orphaned
  BY <1>1, NoneIs DEF Base, LockOK, LockIsOwned, Handlers, Requests
<1>7. LockOK'
  BY <1>1, <1>4, <1>6 DEF Base, LockOK, LockIsOwned
<1>. QED  BY <1>1, <1>2, <1>3, <1>4, <1>5, <1>7, ExecutesKeeps

LEMMA ExecutionIs ==
  ASSUME Base, NEW c \in Handlers, Execution(c)
  PROVE  Base' /\ Executes(c)
BY SubmitIs, AcquireIs, QueueIs, MarkIs, SettleIs, FreeIs, ClearIs DEF Execution

LEMMA ExpireIs ==
  ASSUME Base, Expire
  PROVE  Base' /\ UNCHANGED <<session, private, project, bound, envs, policies, requestVars, historyVars>>
<1>1. /\ lock' = None /\ (runs[lock] \in {"locked", "made"} => lock \in orphaned)
      /\ UNCHANGED <<session, issued, private, project, bound, envs, policies, runs, at, seen, got, env,
                     page, faults, crossed, unsettled, hasty, outdated, orphaned>>
  BY DEF Expire, rowVars, requestVars, historyVars
<1>2. RowShape' /\ RowsOK' /\ PoliciesOK' /\ LockOK'
  BY <1>1 DEF Base, Shape, RowShape, SessionOK, RowsOK, PoliciesOK, OnePerProject, Exists, LockOK, LockIsOwned
<1>3. RequestShape' /\ RestShape' /\ Unmade' /\ (\A g \in Handlers : Kind(g)')
  BY <1>1 DEF Base, Shape, RequestShape, RestShape, Unmade, Kind
<1>. QED  BY <1>1, <1>2, <1>3 DEF Base, Shape, requestVars, historyVars

LEMMA ReleaseIs ==
  ASSUME Base, NEW u \in Handlers, Release(u)
  PROVE  /\ Base' /\ Steps(u) /\ u \in Unbinds /\ at[u] = "release" /\ at'[u] = "silence"
         /\ got'[u] = got[u] /\ seen'[u] = seen[u]
         /\ UNCHANGED <<rowVars, page, crossed, unsettled, hasty, outdated>>
<1>1. /\ u \in Unbinds /\ u \in Requests /\ at[u] = "release" /\ got[u] # None
      /\ lock' = Released(seen[u].token) /\ Goes(u, "silence") /\ "silence" \in Places
      /\ orphaned' = orphaned \cup ({lock} \ {None, lock'})
      /\ UNCHANGED <<rowVars, runs, page, faults, crossed, unsettled, hasty, outdated>>
      /\ seen' = seen /\ got' = got /\ env' = env
  BY DEF Release, Base, Kind, Unbinding, Requests, Places
<1>2. MoveOf(u) /\ at'[u] = "silence" /\ got'[u] = got[u] /\ seen'[u] = seen[u]
  BY <1>1, GoesIs DEF Base
<1>3. Kind(u)'
  BY <1>1, <1>2 DEF Base, Kind, Reading, Messaging, Confirming, Adding, Looking, Binding, Placing,
     Filling, Finishing, Unbinding, Removing
<1>4. Steps(u)
  BY <1>1, <1>2, <1>3, RequestSteps
<1>5. /\ UNCHANGED <<session, issued, private, project, bound, envs, policies>>
      /\ lock' \in {None, lock} /\ orphaned' \subseteq Confirms
  BY <1>1 DEF rowVars, Released, Base, Shape, RowShape, RestShape
<1>6. RestShape'
  BY <1>1, <1>5 DEF Base, Shape, RestShape
<1>7. RowShape' /\ RowsOK' /\ PoliciesOK'
  BY <1>1, <1>5 DEF Base, Shape, RowShape, SessionOK, RowsOK, PoliciesOK, OnePerProject, Exists
<1>8. LockOK'
  <2>1. LockIsOwned'
    BY <1>1, <1>5 DEF Base, LockOK, LockIsOwned
  <2>2. ASSUME NEW c \in Confirms, runs[c] \in {"locked", "made"}
        PROVE  lock' = c \/ c \in orphaned'
    <3>1. lock = c \/ c \in orphaned
      BY <2>2 DEF Base, LockOK
    <3>2. c # None
      BY NoneIs DEF Handlers, Requests
    <3>. QED  BY <1>1, <3>1, <3>2
  <2>. QED  BY <1>1, <1>5, <2>1, <2>2 DEF Base, LockOK
<1>9. RequestShape' /\ (\A g \in Handlers : Kind(g)') /\ Unmade'
  BY <1>4, <1>5, <1>7, RequestsKept
<1>. QED  BY <1>1, <1>2, <1>4, <1>6, <1>7, <1>8, <1>9 DEF Base, Shape

LEMMA PrivateIs ==
  ASSUME Base, NEW d \in Handlers, Private(d)
  PROVE  /\ Base' /\ Steps(d) /\ d \in Requests /\ at[d] = "chosen"
         /\ at'[d] \in {"over", "refused", "handed"}
         /\ UNCHANGED <<session, project, bound, envs, policies, runVars, historyVars>>
<1>1. d \in Requests /\ at[d] = "chosen" /\ got[d] # None
  BY DEF Private, Base, Kind
<1>2. PICK p : p = got[d]
  OBVIOUS
<1>3. /\ UNCHANGED <<session, issued, project, bound, envs, policies, runVars, page, faults, historyVars>>
      /\ \/ Ends(d, IF Exists(p) THEN "refused" ELSE "over") /\ private' = private
         \/ /\ Exists(p) /\ (private.proj = None => session.proj # p)
            /\ private' = [made |-> TRUE, proj |-> IF private.proj = None THEN p ELSE private.proj]
            /\ Goes(d, "handed") /\ seen' = seen /\ got' = got /\ env' = env
  BY <1>2 DEF Private
<1>4. p \in Projects
  BY <1>1, <1>2, RequestIs, Stays DEF Base
<1>5. /\ MoveOf(d) /\ got'[d] \in {None, got[d]} /\ at'[d] \in {"over", "refused", "handed"}
  <2>1. CASE Ends(d, IF Exists(p) THEN "refused" ELSE "over")
    <3>1. PICK how : how = IF Exists(p) THEN "refused" ELSE "over"
      OBVIOUS
    <3>2. how \in Waiting /\ Ends(d, how)
      BY <2>1, <3>1 DEF Waiting
    <3>. QED  BY <1>1, <3>1, <3>2, RequestIs, EndsIs DEF Base
  <2>2. CASE Goes(d, "handed") /\ seen' = seen /\ got' = got /\ env' = env
    <3>1. "handed" \in Places
      BY DEF Places, Submits, Waiting
    <3>. QED  BY <1>1, <2>2, <3>1, RequestIs, GoesIs DEF Base
  <2>. QED  BY <1>3, <2>1, <2>2
<1>6. d \in Privates
  BY <1>1, RequestIs DEF Base, Kind
<1>7. Kind(d)'
  BY <1>1, <1>5, <1>6 DEF Kind, Reading, Messaging, Confirming, Adding, Looking, Binding, Placing,
     Filling, Finishing, Unbinding, Removing
<1>8. Steps(d)
  BY <1>1, <1>5, <1>7, RequestSteps
<1>9. private' \in [made: BOOLEAN, proj: Projects \cup {None}]
      /\ (session.proj # None => session.proj # private'.proj)
  <2>1. /\ private \in [made: BOOLEAN, proj: Projects \cup {None}]
        /\ session.proj # None => session.proj # private.proj
    BY DEF Base, Shape, RowShape, RowsOK
  <2>2. CASE private' = private
    BY <2>1, <2>2
  <2>3. CASE /\ private.proj = None => session.proj # p
             /\ private' = [made |-> TRUE, proj |-> IF private.proj = None THEN p ELSE private.proj]
    <3>1. PICK q : q = IF private.proj = None THEN p ELSE private.proj
      OBVIOUS
    <3>2. private' = [made |-> TRUE, proj |-> q] /\ q \in Projects \cup {None}
      BY <1>4, <2>1, <2>3, <3>1
    <3>3. session.proj # None => session.proj # q
      BY <2>1, <2>3, <3>1
    <3>. QED  BY <3>2, <3>3
  <2>. QED  BY <1>3, <2>2, <2>3
<1>10. RestShape' /\ orphaned' = orphaned
  BY <1>3, RestKept
<1>11. RowShape' /\ RowsOK' /\ PoliciesOK' /\ LockOK'
  BY <1>3, <1>9, <1>10 DEF Base, Shape, RowShape, SessionOK, RowsOK, PoliciesOK, OnePerProject, Exists,
     LockOK, LockIsOwned, runVars
<1>12. RequestShape' /\ (\A g \in Handlers : Kind(g)') /\ Unmade'
  BY <1>1, <1>3, <1>8, <1>11, RequestsKept, RequestIs
<1>13. Base'
  BY <1>10, <1>11, <1>12 DEF Base, Shape
<1>. QED  BY <1>1, <1>3, <1>5, <1>8, <1>13

-----------------------------------------------------------------------------
(* Rows and requests: projects.                                             *)

\* A project that changes its status, and what may follow.
LEMMA ProjectsKeep ==
  ASSUME Base, NEW h \in Handlers, Steps(h), RestShape', RowShape',
         UNCHANGED <<private, runVars, orphaned>>,
         \A p \in Projects : project'[p] = "none" <=> project[p] = "none",
         RowsOK', PoliciesOK', session'.run = session.run, session'.token = session.token
  PROVE  Base'
<1>1. RequestShape' /\ (\A g \in Handlers : Kind(g)') /\ Unmade'
  BY RequestsKept
<1>2. LockOK'
  BY DEF Base, LockOK, LockIsOwned, runVars
<1>. QED  BY <1>1, <1>2 DEF Base, Shape

LEMMA RowsAre ==
  ASSUME Base
  PROVE  /\ bound \in Projects \cup {None} /\ session.proj \in Projects \cup {None}
         /\ private.proj \in Projects \cup {None} /\ envs \subseteq Projects
         /\ session.id \in Nat /\ SessionOK
         /\ \A i \in 1..Len(policies) : policies[i].proj \in Projects
<1>1. \A i \in 1..Len(policies) : policies[i] \in Policy
  BY DEF Base, PoliciesOK, OnePerProject
<1>. QED  BY <1>1 DEF Base, Shape, RowShape, SessionOK, Session, Policy

LEMMA CreateProjectIs ==
  ASSUME Base, NEW p \in Handlers, CreateProject(p)
  PROVE  /\ Base' /\ MoveOf(p) /\ p \in Projects /\ at[p] = "create" /\ got[p] = p
         /\ project[p] = "none"
         /\ UNCHANGED <<session, private, envs, policies, runVars, historyVars>>
         /\ \/ /\ bound = None /\ bound' = p /\ at'[p] = "environment" /\ got'[p] = p
               /\ project' = [project EXCEPT ![p] = "initializing"]
            \/ /\ bound' = bound /\ project' = project /\ at'[p] = "over" /\ got'[p] = None
<1>1. /\ at[p] = "create" /\ p \in Projects /\ got[p] = p /\ env[p] = p /\ p # None
      /\ project[p] = "none"
      /\ UNCHANGED <<session, issued, private, envs, policies, runVars, page, faults, historyVars>>
  BY BindingIs DEF CreateProject, Looking
<1>2. RestShape' /\ orphaned' = orphaned
  BY <1>1, RestKept
<1>3. CASE /\ bound = None /\ project' = [project EXCEPT ![p] = "initializing"] /\ bound' = p
           /\ Goes(p, "environment") /\ UNCHANGED <<seen, got, env>>
  <2>1. MoveOf(p) /\ at'[p] = "environment" /\ got'[p] = p /\ env'[p] = p /\ seen'[p] = seen[p]
    BY <1>1, <1>3, GoesIs DEF Base, Places, Binding, Placing
  <2>2. /\ project' \in [Projects -> {"none", "initializing", "active", "closed", "gone"}]
        /\ project'[p] = "initializing" /\ \A q \in Projects : q # p => project'[q] = project[q]
    BY <1>1, <1>3 DEF Base, Shape, RowShape
  <2>3. \A q \in Projects \cup {None} : Exists(q) => (q = None \/ project'[q] \notin {"none", "gone"})
    BY <2>2 DEF Exists
  <2>4. RowShape' /\ RowsOK'
    <3>1. RowShape'
      BY <1>1, <1>3, <2>2 DEF Base, Shape, RowShape, SessionOK, runVars
    <3>. QED  BY <1>1, <1>3, <2>2, <2>3, <3>1, RowsAre DEF Base, RowsOK, Exists
  <2>5. PoliciesOK'
    BY <1>1, <2>3, RowsAre DEF Base, PoliciesOK, OnePerProject, Exists
  <2>6. LockOK'
    BY <1>1, <1>2 DEF Base, LockOK, LockIsOwned, runVars
  <2>7. ASSUME NEW g \in Handlers PROVE Kind(g)'
    <3>1. CASE g = p
      BY <1>1, <2>1, <3>1 DEF Kind, Reading, Messaging, Confirming, Adding, Looking, Binding, Placing,
     Filling, Finishing, Unbinding, Removing
    <3>2. CASE g # p
      BY <2>1, <3>2 DEF MoveOf, Base, Kind
    <3>. QED  BY <3>1, <3>2
  <2>8. Unmade'
    <3>1. \A q \in Projects : q \in Handlers
      BY DEF Handlers
    <3>. QED  BY <1>1, <2>1, <2>2, <3>1 DEF MoveOf, Base, Unmade, Looking
  <2>9. RequestShape'
    BY <2>1 DEF MoveOf, RequestShape
  <2>. QED  BY <1>1, <1>2, <1>3, <2>1, <2>4, <2>5, <2>6, <2>7, <2>8, <2>9 DEF Base, Shape
<1>4. CASE Ends(p, "over") /\ UNCHANGED <<project, bound>>
  <2>1. MoveOf(p) /\ at'[p] = "over" /\ got'[p] = None
    BY <1>4, EndsIs DEF Base, Waiting
  <2>2. Steps(p)
    BY <1>1, <2>1, BindingSteps
  <2>3. Quiet(p)
    BY <1>1, <1>2, <1>4, <2>2 DEF Quiet, rowVars
  <2>4. Base'
    BY <2>3, QuietKeeps
  <2>. QED  BY <1>1, <1>4, <2>1, <2>4
<1>. QED  BY <1>3, <1>4 DEF CreateProject

LEMMA CreateEnvIs ==
  ASSUME Base, NEW p \in Handlers, CreateEnv(p)
  PROVE  /\ Base' /\ Steps(p) /\ p \in Projects /\ at[p] = "environment" /\ got[p] = p
         /\ UNCHANGED <<session, private, project, bound, policies, runVars, crossed, hasty, outdated>>
         /\ \/ /\ envs' = envs \cup {p} /\ at'[p] = "activate" /\ got'[p] = p
               /\ unsettled' = unsettled
            \/ /\ envs' = envs /\ at'[p] = "over" /\ got'[p] = None
               /\ unsettled' = unsettled \cup {p}
<1>1. /\ at[p] = "environment" /\ p \in Projects /\ got[p] = p /\ env[p] = p /\ p # None
      /\ project[p] # "none"
      /\ UNCHANGED <<session, issued, private, project, bound, policies, runVars, page, faults, crossed,
                     hasty, outdated, orphaned>>
  BY BindingIs DEF CreateEnv, Binding, Placing
<1>2. CASE /\ Exists(p) /\ envs' = envs \cup {p} /\ Goes(p, "activate")
           /\ UNCHANGED <<seen, got, env, unsettled>>
  <2>1. MoveOf(p) /\ at'[p] = "activate" /\ got'[p] = p /\ env'[p] = p
    BY <1>1, <1>2, GoesIs DEF Base, Places, Binding, Placing
  <2>2. Steps(p)
    BY <1>1, <2>1, BindingSteps DEF Binding, Placing
  <2>3. RowShape' /\ RowsOK' /\ PoliciesOK'
    BY <1>1, <1>2 DEF Base, Shape, RowShape, SessionOK, RowsOK, PoliciesOK, OnePerProject, Exists, runVars
  <2>4. RestShape'
    BY <1>1, <1>2 DEF Base, Shape, RestShape
  <2>5. Base'
    BY <1>1, <2>2, <2>3, <2>4, ProjectsKeep
  <2>. QED  BY <1>1, <1>2, <2>1, <2>2, <2>5
<1>3. CASE BreaksOff(p) /\ envs' = envs
  <2>1. Ends(p, "over") /\ unsettled' = unsettled \cup {p} /\ "over" \in Waiting
    BY <1>3 DEF BreaksOff, Waiting
  <2>2. MoveOf(p) /\ at'[p] = "over" /\ got'[p] = None
    BY <2>1, EndsIs DEF Base
  <2>3. Steps(p)
    BY <1>1, <2>2, BindingSteps
  <2>4. RestShape'
    BY <1>1, <2>1 DEF Base, Shape, RestShape
  <2>5. Quiet(p)
    BY <1>1, <1>3, <2>3, <2>4 DEF Quiet, rowVars
  <2>6. Base'
    BY <2>5, QuietKeeps
  <2>. QED  BY <1>1, <1>3, <2>1, <2>2, <2>3, <2>6
<1>. QED  BY <1>2, <1>3 DEF CreateEnv

LEMMA ActivateIs ==
  ASSUME Base, NEW p \in Handlers, Activate(p)
  PROVE  /\ Base' /\ Steps(p) /\ p \in Projects /\ at[p] = "activate" /\ got[p] = p
         /\ UNCHANGED <<session, private, bound, envs, policies, runVars, crossed, hasty, outdated>>
         /\ \/ /\ Exists(p) /\ project' = [project EXCEPT ![p] = "active"] /\ at'[p] = "bind"
               /\ got'[p] = p /\ unsettled' = unsettled
            \/ /\ project' = project /\ at'[p] = "over" /\ got'[p] = None
               /\ unsettled' = unsettled \cup {p}
<1>1. /\ at[p] = "activate" /\ p \in Projects /\ got[p] = p /\ env[p] = p /\ p # None
      /\ project[p] # "none"
      /\ UNCHANGED <<session, issued, private, bound, envs, policies, runVars, page, faults, crossed,
                     hasty, outdated, orphaned>>
  BY BindingIs DEF Activate, Binding, Placing
<1>2. CASE /\ Exists(p) /\ project' = [project EXCEPT ![p] = "active"] /\ Goes(p, "bind")
           /\ UNCHANGED <<seen, got, env, unsettled>>
  <2>1. MoveOf(p) /\ at'[p] = "bind" /\ got'[p] = p /\ env'[p] = p
    BY <1>1, <1>2, GoesIs DEF Base, Places, Binding, Placing
  <2>2. Steps(p)
    BY <1>1, <2>1, BindingSteps DEF Binding, Placing
  <2>3. /\ project' \in [Projects -> {"none", "initializing", "active", "closed", "gone"}]
        /\ project'[p] = "active" /\ \A q \in Projects : q # p => project'[q] = project[q]
    BY <1>1, <1>2 DEF Base, Shape, RowShape
  <2>4. /\ \A q \in Projects \cup {None} : Exists(q) => (q = None \/ project'[q] \notin {"none", "gone"})
        /\ \A q \in Projects : project'[q] = "none" <=> project[q] = "none"
    BY <1>1, <2>3 DEF Exists
  <2>5. RowShape' /\ RowsOK'
    <3>1. RowShape'
      BY <1>1, <2>3 DEF Base, Shape, RowShape, SessionOK, runVars
    <3>. QED  BY <1>1, <2>4, <3>1, RowsAre DEF Base, RowsOK, Exists
  <2>6. PoliciesOK'
    BY <1>1, <2>4, RowsAre DEF Base, PoliciesOK, OnePerProject, Exists
  <2>7. RestShape'
    BY <1>1, <1>2 DEF Base, Shape, RestShape
  <2>8. Base'
    BY <1>1, <2>2, <2>4, <2>5, <2>6, <2>7, ProjectsKeep
  <2>. QED  BY <1>1, <1>2, <2>1, <2>2, <2>8
<1>3. CASE BreaksOff(p) /\ project' = project
  <2>1. Ends(p, "over") /\ unsettled' = unsettled \cup {p} /\ "over" \in Waiting
    BY <1>3 DEF BreaksOff, Waiting
  <2>2. MoveOf(p) /\ at'[p] = "over" /\ got'[p] = None
    BY <2>1, EndsIs DEF Base
  <2>3. Steps(p)
    BY <1>1, <2>2, BindingSteps
  <2>4. RestShape'
    BY <1>1, <2>1 DEF Base, Shape, RestShape
  <2>5. Quiet(p)
    BY <1>1, <1>3, <2>3, <2>4 DEF Quiet, rowVars
  <2>6. Base'
    BY <2>5, QuietKeeps
  <2>. QED  BY <1>1, <1>3, <2>1, <2>2, <2>3, <2>6
<1>. QED  BY <1>2, <1>3 DEF Activate

LEMMA CloseIs ==
  ASSUME Base, NEW u \in Handlers, Close(u)
  PROVE  /\ Base' /\ Steps(u) /\ u \in Unbinds /\ at[u] = "close" /\ got[u] \in Projects
         /\ at'[u] = "over" /\ got'[u] = None
         /\ project' = (IF Exists(got[u]) THEN [project EXCEPT ![got[u]] = "closed"] ELSE project)
         /\ bound' = (IF bound = got[u] THEN None ELSE bound)
         /\ UNCHANGED <<session, private, envs, policies, runVars, historyVars>>
<1>1. /\ u \in Unbinds /\ u \in Requests /\ at[u] = "close" /\ got[u] # None
      /\ Ends(u, "over") /\ "over" \in Waiting
      /\ UNCHANGED <<session, issued, private, envs, policies, runVars, page, faults, historyVars>>
  BY DEF Close, Base, Kind, Unbinding, Requests, Waiting
<1>2. PICK p : p = got[u]
  OBVIOUS
<1>3. p \in Projects
  BY <1>1, <1>2, Stays DEF Base
<1>4. /\ project' = (IF Exists(p) THEN [project EXCEPT ![p] = "closed"] ELSE project)
      /\ bound' = (IF bound = p THEN None ELSE bound)
  BY <1>2 DEF Close
<1>5. MoveOf(u) /\ at'[u] = "over" /\ got'[u] = None
  BY <1>1, EndsIs DEF Base
<1>6. Kind(u)'
  BY <1>5 DEF Kind, Reading, Messaging, Confirming, Adding, Looking, Binding, Placing,
     Filling, Finishing, Unbinding, Removing
<1>7. Steps(u)
  BY <1>1, <1>5, <1>6, RequestSteps
<1>8. /\ project' \in [Projects -> {"none", "initializing", "active", "closed", "gone"}]
      /\ \A q \in Projects \cup {None} : Exists(q) => (q = None \/ project'[q] \notin {"none", "gone"})
      /\ \A q \in Projects : project'[q] = "none" <=> project[q] = "none"
  BY <1>3, <1>4, NoneIs DEF Base, Shape, RowShape, Exists
<1>9. RowShape' /\ RowsOK'
  <2>1. RowShape'
    BY <1>1, <1>4, <1>8 DEF Base, Shape, RowShape, SessionOK, runVars
  <2>. QED  BY <1>1, <1>4, <1>8, <2>1, RowsAre DEF Base, RowsOK, Exists
<1>10. PoliciesOK'
  BY <1>1, <1>8, RowsAre DEF Base, PoliciesOK, OnePerProject, Exists
<1>11. RestShape' /\ orphaned' = orphaned
  BY <1>1, RestKept
<1>12. Base'
  BY <1>1, <1>7, <1>8, <1>9, <1>10, <1>11, ProjectsKeep
<1>. QED  BY <1>1, <1>2, <1>3, <1>4, <1>5, <1>7, <1>12

-----------------------------------------------------------------------------
(* Rows and requests: removals.                                             *)

LEMMA SilenceIs ==
  ASSUME Base, NEW u \in Handlers, Silence(u)
  PROVE  /\ Base' /\ Steps(u) /\ u \in Unbinds /\ at[u] = "silence"
         /\ UNCHANGED <<private, project, bound, envs, policies, runVars, unsettled, hasty, outdated>>
         /\ \/ /\ session'.proj = session.proj /\ session'.mode = "disabled" /\ at'[u] = "close"
               /\ got'[u] = got[u] /\ crossed' = crossed \cup UnderWay(u)
            \/ session' = session /\ at'[u] = "over" /\ got'[u] = None /\ crossed' = crossed
<1>1. /\ u \in Unbinds /\ u \in Requests /\ at[u] = "silence" /\ got[u] # None
      /\ UNCHANGED <<issued, private, project, bound, envs, policies, runVars, page, faults, unsettled,
                     hasty, outdated>>
      /\ {"over", "close"} \subseteq Places /\ SessionOK
  BY RowsAre DEF Silence, Base, Kind, Unbinding, Requests, Places, Submits, Waiting
<1>2. CASE /\ session' = [session EXCEPT !.mode = "disabled", !.run = None, !.token = None]
           /\ orphaned' = orphaned \cup ({session.run} \ {None})
           /\ crossed' = crossed \cup UnderWay(u)
           /\ GoesOn(u, 0, "close") /\ session.id = seen[u].id
  <2>1. MoveOf(u) /\ at'[u] = "close" /\ got'[u] = got[u]
    BY <1>1, <1>2, GoesOnIs DEF Base
  <2>2. Kind(u)'
    BY <1>1, <2>1 DEF Kind, Reading, Messaging, Confirming, Adding, Looking, Binding, Placing,
     Filling, Finishing, Unbinding, Removing
  <2>3. Steps(u)
    BY <1>1, <2>1, <2>2, RequestSteps
  <2>4. UnderWay(u) \subseteq Projects
    BY RowsAre, Stays DEF UnderWay, Base
  <2>5. orphaned' \subseteq Confirms
    BY <1>1, <1>2 DEF Base, Shape, RestShape, SessionOK, Session
  <2>6. RestShape'
    BY <1>1, <1>2, <2>4, <2>5 DEF Base, Shape, RestShape
  <2>7. session' \in Session /\ session'.proj = session.proj /\ session'.mode = "disabled"
        /\ session'.run = None /\ session'.id = session.id
    BY <1>1, <1>2 DEF SessionOK, Session
  <2>8. SessionOK'
    <3>1. session.id # 0
      BY <1>1, <1>2 DEF Base, Kind
    <3>. QED  BY <1>1, <2>7, <3>1 DEF SessionOK
  <2>9. Exists(session'.proj)
    BY <2>7 DEF Base, RowsOK
  <2>10. RowShape'
    BY <1>1, <2>8 DEF Base, Shape, RowShape, runVars
  <2>11. RowsOK' /\ PoliciesOK'
    BY <1>1, <2>7, <2>9 DEF Base, RowsOK, PoliciesOK, OnePerProject, Exists
  <2>12. LockOK'
    <3>1. lock' = lock /\ runs' = runs
      BY <1>1 DEF runVars
    <3>2. lock # None => lock \in orphaned \/ runs[lock] \in {"locked", "made"} \/ session.run = lock
      BY DEF Base, LockOK, LockIsOwned
    <3>3. lock # None => lock \in orphaned' \/ runs[lock] \in {"locked", "made"}
      BY <1>2, <3>2
    <3>. QED  BY <1>2, <2>7, <3>1, <3>3 DEF Base, LockOK, LockIsOwned
  <2>13. RequestShape' /\ (\A g \in Handlers : Kind(g)') /\ Unmade'
    BY <1>1, <2>3, <2>10, RequestsKept
  <2>14. Base'
    BY <2>6, <2>10, <2>11, <2>12, <2>13 DEF Base, Shape
  <2>. QED  BY <1>1, <1>2, <2>1, <2>3, <2>7, <2>14
<1>3. CASE Ends(u, "over") /\ UNCHANGED <<session, orphaned, crossed>>
  <2>1. MoveOf(u) /\ at'[u] = "over" /\ got'[u] = None
    BY <1>3, EndsIs DEF Base, Waiting
  <2>2. Kind(u)'
    BY <2>1 DEF Kind, Reading, Messaging, Confirming, Adding, Looking, Binding, Placing,
     Filling, Finishing, Unbinding, Removing
  <2>3. Steps(u)
    BY <1>1, <2>1, <2>2, RequestSteps
  <2>4. RestShape'
    BY <1>1, <1>3 DEF Base, Shape, RestShape
  <2>5. Quiet(u)
    BY <1>1, <1>3, <2>3, <2>4 DEF Quiet, rowVars
  <2>6. Base'
    BY <2>5, QuietKeeps
  <2>. QED  BY <1>1, <1>3, <2>1, <2>3, <2>6
<1>. QED  BY <1>2, <1>3 DEF Silence

LEMMA WipeIs ==
  ASSUME Base, NEW d \in Handlers, Wipe(d)
  PROVE  /\ Base' /\ Steps(d) /\ d \in Requests /\ at[d] = "wipe" /\ at'[d] = "unproject"
         /\ got'[d] = got[d] /\ session'.proj = session.proj /\ session'.mode = session.mode
         /\ UNCHANGED <<private, project, bound, envs, policies, crossed, unsettled, hasty, outdated>>
<1>1. PICK gone : gone = {c \in Rows : got[c] = got[d]}
  OBVIOUS
<1>2. /\ d \in Requests /\ at[d] = "wipe" /\ got[d] # None /\ gone \subseteq Confirms
      /\ runs' = [c \in Confirms |-> IF c \in gone THEN "deleted" ELSE runs[c]]
      /\ session' = (IF session.run \in gone THEN [session EXCEPT !.run = None] ELSE session)
      /\ orphaned' = orphaned \cup gone
      /\ Goes(d, "unproject") /\ "unproject" \in Places /\ seen' = seen /\ got' = got /\ env' = env
      /\ UNCHANGED <<issued, private, project, bound, envs, policies, lock, page, faults, crossed,
                     unsettled, hasty, outdated>>
      /\ SessionOK
  BY <1>1, RowsAre DEF Wipe, Rows, Base, Kind, Removing, Places
<1>3. MoveOf(d) /\ at'[d] = "unproject" /\ got'[d] = got[d]
  BY <1>2, RequestIs, GoesIs DEF Base
<1>4. Kind(d)'
  BY <1>2, <1>3 DEF Kind, Reading, Messaging, Confirming, Adding, Looking, Binding, Placing,
     Filling, Finishing, Unbinding, Removing
<1>5. Steps(d)
  BY <1>2, <1>3, <1>4, RequestSteps
<1>6. /\ SessionOK' /\ session'.proj = session.proj /\ session'.mode = session.mode
      /\ session'.token = session.token /\ session'.run \in {session.run, None}
      /\ (session.run \notin gone => session'.run = session.run)
  BY <1>2, AbsentIs DEF SessionOK, Session, Absent
<1>7. RowShape'
  BY <1>2, <1>6 DEF Base, Shape, RowShape
<1>8. LockOK'
  BY <1>2, <1>6 DEF Base, Shape, RowShape, LockOK, LockIsOwned
<1>9. RowsOK' /\ PoliciesOK'
  BY <1>2, <1>6 DEF Base, RowsOK, PoliciesOK, OnePerProject, Exists
<1>10. RestShape'
  BY <1>2 DEF Base, Shape, RestShape
<1>11. RequestShape' /\ (\A g \in Handlers : Kind(g)') /\ Unmade'
  BY <1>2, <1>5, <1>7, RequestsKept, RequestIs
<1>12. Base'
  BY <1>7, <1>8, <1>9, <1>10, <1>11 DEF Base, Shape
<1>. QED  BY <1>2, <1>3, <1>5, <1>6, <1>12

LEMMA UnprojectIs ==
  ASSUME Base, NEW d \in Handlers, Unproject(d)
  PROVE  /\ Base' /\ Steps(d) /\ d \in Requests /\ at[d] = "unproject" /\ got[d] \in Projects
         /\ UNCHANGED historyVars
         /\ \/ /\ at'[d] = "over" /\ got'[d] = None
               /\ UNCHANGED <<session, private, project, bound, envs, policies>>
            \/ /\ at'[d] = "drop" /\ got'[d] = got[d] /\ policies' = Without(got[d])
               /\ project' = [project EXCEPT ![got[d]] = "gone"] /\ envs' = envs \ {got[d]}
               /\ bound' = (IF bound = got[d] THEN None ELSE bound)
               /\ session'.proj = (IF session.proj = got[d] THEN None ELSE session.proj)
               /\ session'.mode = session.mode
<1>1. PICK p : p = got[d]
  OBVIOUS
<1>2. /\ d \in Requests /\ at[d] = "unproject" /\ p # None
      /\ UNCHANGED <<issued, runVars, page, faults, historyVars>>
      /\ {"over", "drop"} \subseteq Places
  BY <1>1 DEF Unproject, Base, Kind, Removing, Places, Submits, Waiting
<1>3. p \in Projects /\ SessionOK /\ d \in Handlers /\ project[p] # "none"
  <2>1. p \in Projects /\ SessionOK /\ d \in Handlers /\ d \notin Projects
    BY <1>1, <1>2, RequestIs, RowsAre, Stays DEF Base
  <2>. QED  BY <1>1, <2>1 DEF Base, Unmade
<1>4. RestShape' /\ orphaned' = orphaned
  BY <1>2, RestKept
<1>5. CASE /\ Ends(d, "over") /\ UNCHANGED <<session, private, project, bound, envs, policies>>
  <2>1. MoveOf(d) /\ at'[d] = "over" /\ got'[d] = None
    BY <1>5, EndsIs DEF Base, Waiting
  <2>2. Kind(d)'
    BY <2>1 DEF Kind, Reading, Messaging, Confirming, Adding, Looking, Binding, Placing,
     Filling, Finishing, Unbinding, Removing
  <2>3. Steps(d)
    BY <1>2, <2>1, <2>2, RequestSteps
  <2>4. Quiet(d)
    BY <1>2, <1>4, <1>5, <2>3 DEF Quiet, rowVars
  <2>5. Base'
    BY <2>4, QuietKeeps
  <2>. QED  BY <1>1, <1>2, <1>3, <1>5, <2>1, <2>3, <2>5
<1>6. CASE /\ project' = [project EXCEPT ![p] = "gone"]
           /\ bound' = IF bound = p THEN None ELSE bound
           /\ envs' = envs \ {p}
           /\ policies' = Without(p)
           /\ session' = [session EXCEPT !.proj = IF @ = p THEN None ELSE @,
                                         !.env  = IF @ = p THEN None ELSE @]
           /\ private' = [private EXCEPT !.proj = IF @ = p THEN None ELSE @]
           /\ Goes(d, "drop") /\ UNCHANGED <<seen, got, env>>
  <2>1. MoveOf(d) /\ at'[d] = "drop" /\ got'[d] = got[d]
    BY <1>2, <1>3, <1>6, GoesIs DEF Base
  <2>2. Kind(d)'
    BY <1>2, <2>1 DEF Kind, Reading, Messaging, Confirming, Adding, Looking, Binding, Placing,
     Filling, Finishing, Unbinding, Removing
  <2>3. Steps(d)
    BY <1>2, <2>1, <2>2, RequestSteps
  <2>4. /\ SessionOK' /\ session'.proj = (IF session.proj = p THEN None ELSE session.proj)
        /\ session'.mode = session.mode /\ session'.run = session.run /\ session'.token = session.token
    <3>1. /\ session' \in Session /\ session'.id = session.id
          /\ session'.proj = (IF session.proj = p THEN None ELSE session.proj)
          /\ session'.mode = session.mode /\ session'.run = session.run
          /\ session'.token = session.token
      BY <1>3, <1>6 DEF SessionOK, Session
    <3>2. ASSUME session = Absent PROVE session' = Absent
      <4>1. session.proj = None /\ session.env = None
        BY <3>2, AbsentIs
      <4>2. session' = [session EXCEPT !.proj = None, !.env = None]
        BY <1>6, <4>1
      <4>. QED  BY <3>2, <4>2 DEF Absent
    <3>. QED  BY <1>2, <1>3, <3>1, <3>2 DEF SessionOK
  <2>5. /\ private' \in [made: BOOLEAN, proj: Projects \cup {None}]
        /\ private'.proj = (IF private.proj = p THEN None ELSE private.proj)
    BY <1>6 DEF Base, Shape, RowShape
  <2>6. /\ project' \in [Projects -> {"none", "initializing", "active", "closed", "gone"}]
        /\ \A q \in Projects : q # p => project'[q] = project[q]
        /\ \A q \in Projects : project'[q] = "none" <=> project[q] = "none"
    BY <1>3, <1>6 DEF Base, Shape, RowShape
  <2>7. \A q \in Projects \cup {None} : q # p /\ Exists(q) => (q = None \/ project'[q] \notin {"none", "gone"})
    BY <2>6 DEF Exists
  <2>8. RowShape'
    BY <1>2, <1>6, <2>4, <2>5, <2>6 DEF Base, Shape, RowShape, runVars
  <2>9. RowsOK'
    BY <1>2, <1>6, <2>4, <2>5, <2>7, RowsAre DEF Base, RowsOK, Exists
  <2>10. PoliciesOK'
    <3>1. OnePerProject(policies') /\ \A i \in 1..Len(policies') : policies'[i].proj # p
      BY <1>3, <1>6, WithoutIs DEF Base
    <3>2. \A i \in 1..Len(policies') : policies'[i] \in Policy
      BY <3>1 DEF OnePerProject
    <3>3. \A i \in 1..Len(policies') : policies'[i].proj \in Projects
      BY <3>2 DEF Policy
    <3>. QED  BY <2>7, <3>1, <3>3 DEF PoliciesOK, OnePerProject, Exists
  <2>11. Base'
    <3>1. RequestShape' /\ (\A g \in Handlers : Kind(g)') /\ Unmade'
      BY <1>3, <2>3, <2>6, <2>8, RequestsKept
    <3>2. LockOK'
      BY <1>2, <1>4, <2>4 DEF Base, LockOK, LockIsOwned, runVars
    <3>. QED  BY <1>4, <2>8, <2>9, <2>10, <3>1, <3>2 DEF Base, Shape
  <2>. QED  BY <1>1, <1>2, <1>3, <1>6, <2>1, <2>3, <2>4, <2>11
<1>. QED  BY <1>1, <1>5, <1>6 DEF Unproject

LEMMA DropIs ==
  ASSUME Base, NEW d \in Handlers, Drop(d)
  PROVE  /\ Base' /\ Steps(d) /\ d \in Requests /\ at[d] = "drop" /\ at'[d] = "over"
         /\ got'[d] = None
         /\ session'.proj = None /\ session'.mode \in {"none", "pending_config"}
         /\ unsettled' = unsettled \cup ({bound} \ {None})
         /\ hasty' = hasty \cup {m \in Mentions : at[m] \notin Waiting}
         /\ UNCHANGED <<private, project, bound, envs, policies, crossed, outdated>>
<1>1. /\ d \in Requests /\ at[d] = "drop" /\ Ends(d, "over") /\ SessionOK /\ d \in Handlers
      /\ session' = (IF session.id = 0 THEN session
                     ELSE IF d \in Deletes THEN Absent
                     ELSE [session EXCEPT !.proj = None, !.env = None, !.mode = "pending_config"])
      /\ orphaned' = (IF d \in Deletes THEN orphaned \cup ({session.run} \ {None}) ELSE orphaned)
      /\ unsettled' = unsettled \cup ({bound} \ {None})
      /\ hasty' = hasty \cup {m \in Mentions : at[m] \notin Waiting}
      /\ UNCHANGED <<issued, private, project, bound, envs, policies, runVars, page, faults, crossed,
                     outdated>>
  BY RowsAre DEF Drop, Base, Kind
<1>2. MoveOf(d) /\ at'[d] = "over" /\ got'[d] = None
  BY <1>1, EndsIs DEF Base, Waiting
<1>3. Kind(d)'
  BY <1>2 DEF Kind, Reading, Messaging, Confirming, Adding, Looking, Binding, Placing,
     Filling, Finishing, Unbinding, Removing
<1>4. Steps(d)
  BY <1>1, <1>2, <1>3, RequestSteps
<1>5. /\ SessionOK' /\ session'.proj = None /\ session'.mode \in {"none", "pending_config"}
      /\ d \notin Deletes => session'.run = session.run /\ session'.token = session.token
      /\ session'.run \in {session.run, None}
  <2>1. CASE session.id = 0
    BY <1>1, <2>1, AbsentIs DEF SessionOK
  <2>2. CASE session.id # 0 /\ d \in Deletes
    BY <1>1, <2>2, AbsentIs DEF SessionOK
  <2>3. CASE session.id # 0 /\ d \notin Deletes
    BY <1>1, <2>3 DEF SessionOK, Session
  <2>. QED  BY <2>1, <2>2, <2>3
<1>6. RestShape'
  <2>1. orphaned' \subseteq Confirms /\ unsettled' \subseteq Projects /\ hasty' \subseteq Mentions
    BY <1>1, RowsAre DEF Base, Shape, RestShape, SessionOK, Session
  <2>. QED  BY <1>1, <2>1 DEF Base, Shape, RestShape
<1>7. RowShape'
  BY <1>1, <1>5 DEF Base, Shape, RowShape, runVars
<1>8. RowsOK' /\ PoliciesOK'
  BY <1>1, <1>5 DEF Base, RowsOK, PoliciesOK, OnePerProject, Exists
<1>9. LockOK'
  <2>1. lock' = lock /\ runs' = runs
    BY <1>1 DEF runVars
  <2>2. orphaned \subseteq orphaned' /\ (d \in Deletes /\ session.run # None => session.run \in orphaned')
    BY <1>1
  <2>3. LockIsOwned'
    <3>1. CASE d \in Deletes
      BY <2>1, <2>2, <3>1 DEF Base, LockOK, LockIsOwned
    <3>2. CASE d \notin Deletes
      BY <1>5, <2>1, <2>2, <3>2 DEF Base, LockOK, LockIsOwned
    <3>. QED  BY <3>1, <3>2
  <2>4. session'.run # None => session'.token = session'.run
    <3>1. session.run # None => session.token = session.run
      BY DEF Base, LockOK
    <3>2. session.id = 0 \/ d \in Deletes => session' = session \/ session' = Absent
      BY <1>1
    <3>. QED  BY <1>5, <3>1, <3>2, <1>1, AbsentIs
  <2>5. \A c \in Confirms : runs'[c] \in {"locked", "made"} => lock' = c \/ c \in orphaned'
    BY <2>1, <2>2 DEF Base, LockOK
  <2>. QED  BY <2>3, <2>4, <2>5 DEF LockOK
<1>10. RequestShape' /\ (\A g \in Handlers : Kind(g)') /\ Unmade'
  BY <1>1, <1>4, <1>7, RequestsKept
<1>11. Base'
  BY <1>6, <1>7, <1>8, <1>9, <1>10 DEF Base, Shape
<1>. QED  BY <1>1, <1>2, <1>4, <1>5, <1>11

-----------------------------------------------------------------------------
(* Rows and requests: every behaviour.                                      *)

LEMMA BaseInit ==
  ASSUME Init
  PROVE  Base
<1>1. PICK p \in Projects \cup {None} :
        /\ session = IF p = None THEN Absent
                     ELSE [Absent EXCEPT !.id = 1, !.proj = p, !.env = p, !.mode = "active"]
        /\ issued = session.id
        /\ project = [q \in Projects |-> IF q = p THEN "active" ELSE "none"]
        /\ bound = p /\ envs = {p} \ {None}
        /\ policies = IF p = None THEN <<>> ELSE <<[proj |-> p, on |-> TRUE, env |-> p]>>
        /\ at = [h \in Handlers |-> IF h = p THEN "before" ELSE "off"]
  BY DEF Init
<1>2. /\ private = [made |-> FALSE, proj |-> None]
      /\ lock = None /\ runs = [c \in Confirms |-> "none"]
      /\ seen = [h \in Handlers |-> Absent]
      /\ got = [h \in Handlers |-> None] /\ env = [h \in Handlers |-> None]
      /\ page = [q \in Projects |-> 0]
      /\ faults = 0 /\ crossed = {} /\ unsettled = {} /\ hasty = {} /\ outdated = FALSE
      /\ orphaned = {}
  BY DEF Init
<1>3. /\ session \in Session /\ session.proj = p /\ session.id \in Nat
      /\ session.id = 0 => session = Absent
  <2>1. CASE p = None
    BY <1>1, <2>1, AbsentIs
  <2>2. CASE p # None
    <3>1. session = [Absent EXCEPT !.id = 1, !.proj = p, !.env = p, !.mode = "active"]
      BY <1>1, <2>2
    <3>2. /\ session.id = 1 /\ session.proj = p
          /\ session = [id |-> 1, proj |-> p, env |-> p, mode |-> "active", run |-> None, token |-> None]
      BY <3>1 DEF Absent
    <3>. QED  BY <3>2 DEF Session
  <2>. QED  BY <2>1, <2>2
<1>4. RowShape
  BY <1>1, <1>2, <1>3 DEF RowShape, SessionOK
<1>5. RequestShape
  BY <1>1, <1>2, AbsentIs DEF RequestShape, Places, Submits, Waiting
<1>6. RestShape
  <2>1. page \in [Projects -> Nat] /\ faults \in 0..MaxFaults
    BY <1>2, BindingAssumption
  <2>2. /\ crossed \subseteq Projects /\ unsettled \subseteq Projects /\ hasty \subseteq Mentions
        /\ outdated \in BOOLEAN /\ orphaned \subseteq Confirms
    BY <1>2
  <2>. QED  BY <2>1, <2>2 DEF RestShape
<1>7. \A h \in Handlers : at[h] \in {"off", "before"} /\ got[h] = None
  BY <1>1, <1>2
<1>8. \A h \in Handlers : Kind(h)
  BY <1>7 DEF Kind, Reading, Messaging, Confirming, Adding, Looking, Binding, Placing,
     Filling, Finishing, Unbinding, Removing
<1>9. RowsOK
  BY <1>1, <1>2, <1>3, NoneIs DEF RowsOK, Exists
<1>10. Unmade
  BY <1>1, <1>2, NoneIs DEF Unmade, Handlers, Looking
<1>11. PoliciesOK
  <2>1. CASE p = None
    BY <1>1, <2>1 DEF PoliciesOK, OnePerProject
  <2>2. CASE p # None
    <3>1. PICK r : r = [proj |-> p, on |-> TRUE, env |-> p]
      OBVIOUS
    <3>2. r \in Policy /\ r.proj = p
      BY <2>2, <3>1 DEF Policy
    <3>3. policies = <<r>>
      BY <1>1, <2>2, <3>1
    <3>4. policies \in Seq(Policy) /\ Len(policies) = 1 /\ policies[1] = r
      BY <3>2, <3>3
    <3>5. Exists(p)
      BY <1>1 DEF Exists
    <3>. QED  BY <3>2, <3>4, <3>5 DEF PoliciesOK, OnePerProject
  <2>. QED  BY <2>1, <2>2
<1>12. LockOK
  <2>1. session.run = None
    BY <1>1, AbsentIs DEF Absent
  <2>. QED  BY <1>2, <2>1 DEF LockOK, LockIsOwned
<1>. QED  BY <1>4, <1>5, <1>6, <1>8, <1>9, <1>10, <1>11, <1>12 DEF Base, Shape

LEMMA BaseStep ==
  ASSUME Base, [Next]_vars
  PROVE  Base'
<1>1. CASE UNCHANGED vars
  BY <1>1 DEF vars, rowVars, runVars, requestVars, historyVars, Base, Shape, RowShape, SessionOK,
     RequestShape, RestShape, Kind, RowsOK, Unmade, PoliciesOK, OnePerProject, LockOK, LockIsOwned, Exists
<1>2. ASSUME NEW h \in Handlers, ReadRow(h) \/ Rejects(h)
      PROVE  Base'
  BY <1>2, ReadRowIs, RejectsIs, QuietKeeps
<1>7. ASSUME NEW h \in Handlers, Execution(h)
      PROVE  Base'
  BY <1>7, ExecutionIs
<1>3. ASSUME NEW h \in Handlers, Message(h)
      PROVE  Base'
  <2>1. CASE Arrive(h) \/ LookUp(h) \/ ReadPolicy(h) \/ FindEnv(h) \/ Effective(h) \/ Source(h)
    BY <2>1, ArriveIs, LookUpIs, ReadPolicyIs, FindEnvIs, EffectiveIs, SourceIs, QuietKeeps
  <2>2. CASE Tag(h) \/ Pend(h) \/ MakePolicy(h) \/ Enter(h)
    BY <2>2, TagIs, PendIs, MakePolicyIs, EnterIs
  <2>. QED  BY <1>3, <2>1, <2>2 DEF Message
<1>4. ASSUME NEW h \in Handlers, Configure(h)
      PROVE  Base'
  <2>1. CASE Begin(h) \/ Check(h) \/ ReadPage(h)
    BY <2>1, BeginIs, CheckIs, ReadPageIs, QuietKeeps
  <2>2. CASE CreateProject(h) \/ CreateEnv(h) \/ Activate(h) \/ Bind(h) \/ Make(h) \/ Allow(h)
    BY <2>2, CreateProjectIs, CreateEnvIs, ActivateIs, BindIs, MakeIs, AllowIs
  <2>. QED  BY <1>4, <2>1, <2>2 DEF Configure
<1>5. ASSUME NEW h \in Handlers, Event(h)
      PROVE  Base'
  <2>1. CASE Confirm(h) \/ Notice(h) \/ Add(h) \/ Select(h)
    BY <2>1, ConfirmIs, NoticeIs, AddIs, SelectIs, QuietKeeps
  <2>2. CASE Reopen(h) \/ Noticed(h)
    BY <2>2, ReopenIs, NoticedIs
  <2>3. CASE Added(h) \/ Private(h) \/ Edit(h) \/ Edited(h)
    BY <2>3, AddedIs, PrivateIs, EditIs, EditedIs
  <2>. QED  BY <1>5, <2>1, <2>2, <2>3 DEF Event
<1>6. ASSUME NEW h \in Handlers, Administer(h)
      PROVE  Base'
  <2>1. CASE Unbind(h) \/ Disable(h) \/ Remove(h)
    BY <2>1, UnbindIs, DisableIs, RemoveIs, QuietKeeps
  <2>2. CASE Release(h) \/ Silence(h) \/ Close(h) \/ Wipe(h) \/ Unproject(h) \/ Drop(h)
    BY <2>2, ReleaseIs, SilenceIs, CloseIs, WipeIs, UnprojectIs, DropIs
  <2>. QED  BY <1>6, <2>1, <2>2 DEF Administer
<1>. QED  BY <1>1, <1>2, <1>3, <1>4, <1>5, <1>6, <1>7, ExpireIs DEF Next

-----------------------------------------------------------------------------
(* Who works for which project: what a step keeps.                          *)

Crossed == CrossedWhileWorking /\ NamesBound /\ ClosesAtRest /\ StaleAtRest

LEMMA PartingShrinks ==
  ASSUME NEW h \in Handlers, MoveOf(h), bound' = bound,
         \A p \in Projects : Exists(p)' => Exists(p),
         at'[h] = "close" => at[h] = "close" /\ got'[h] = got[h]
  PROVE  Parting' \subseteq Parting
<1>1. Unbinds \subseteq Handlers
  BY DEF Handlers, Requests
<1>. QED  BY <1>1 DEF Parting, MoveOf

\* A step of a request that writes no project and starts to work for none.
Calm(h) ==
  /\ MoveOf(h)
  /\ session'.proj = session.proj /\ (session'.mode = "active" => session.mode = "active")
  /\ bound' = bound /\ crossed' = crossed /\ unsettled \subseteq unsettled'
  /\ \A p \in Projects : Exists(p)' => Exists(p)
  /\ Working(h)' => Working(h) /\ got'[h] = got[h]
  /\ at'[h] = "close" => at[h] = "close" /\ got'[h] = got[h]
  /\ at'[h] \in Removing => at[h] \in Removing /\ got'[h] = got[h]
  /\ h \in Projects /\ Found(h)' => Found(h) \/ h \in unsettled' \/ session.proj = None

\* Once the bound project's binding is over, the session names it.
LEMMA StaleIsSettling ==
  ASSUME NamesBound, Stale, Found(bound), bound # None
  PROVE  bound \in unsettled
BY DEF NamesBound, Stale

\* A binding that is over is found.
LEMMA OverIsFound ==
  ASSUME NEW p, at[p] \in Waiting
  PROVE  Found(p)
BY DEF Found, Waiting, Placing

LEMMA CalmKeeps ==
  ASSUME Base, Crossed, NEW h \in Handlers, Calm(h)
  PROVE  Crossed'
<1>1. /\ MoveOf(h) /\ session'.proj = session.proj /\ bound' = bound /\ crossed' = crossed
      /\ unsettled \subseteq unsettled' /\ (session'.mode = "active" => session.mode = "active")
  BY DEF Calm
<1>2. Parting' \subseteq Parting
  BY PartingShrinks DEF Calm
<1>3. \A g \in Handlers : Working(g)' => Working(g) /\ got'[g] = got[g]
  BY DEF Calm, MoveOf, Working
<1>4. Idle => Idle'
  BY <1>3 DEF Idle
<1>5. AtRest => AtRest'
  BY <1>1, <1>4 DEF AtRest
<1>6. CrossedWhileWorking'
  BY <1>1, <1>2, <1>3 DEF Crossed, CrossedWhileWorking
<1>7. bound \in Projects \cup {None} /\ \A p \in Projects : p \in Handlers
  BY RowsAre DEF Handlers
<1>8. bound # None /\ Found(bound)' => Found(bound) \/ bound \in unsettled' \/ session.proj = None
  <2>1. CASE bound = h
    BY <1>7, <2>1 DEF Calm
  <2>2. CASE bound # h
    BY <1>7, <2>2 DEF Calm, MoveOf, Found
  <2>. QED  BY <2>1, <2>2
<1>9. NamesBound'
  BY <1>1, <1>8 DEF Crossed, NamesBound, Found
<1>10. ClosesAtRest'
  <2>1. ASSUME NEW u \in Unbinds, at'[u] = "close", got'[u] = bound
        PROVE  session.proj \in crossed \cup {None} \/ AtRest
    <3>1. u \in Handlers
      BY DEF Handlers, Requests
    <3>2. at[u] = "close" /\ got[u] = bound
      BY <2>1, <3>1 DEF Calm, MoveOf
    <3>. QED  BY <3>2 DEF Crossed, ClosesAtRest
  <2>. QED  BY <1>1, <1>5, <2>1 DEF ClosesAtRest
<1>11. ASSUME Stale'
       PROVE  /\ bound \in Settling' \/ AtRest'
              /\ \A d \in Handlers : at'[d] \in Removing => got'[d] # bound
  <2>1. Stale
    BY <1>1, <1>11 DEF Stale
  <2>2. \A d \in Handlers : at'[d] \in Removing => got'[d] # bound
    BY <2>1 DEF Crossed, StaleAtRest, Calm, MoveOf
  <2>3. ASSUME bound \in Settling, bound \notin Settling' PROVE FALSE
    <3>1. bound \in Projects /\ at'[bound] \in Waiting /\ bound \notin unsettled'
      BY <1>1, <1>7, <2>3 DEF Settling, Base, Shape, RestShape
    <3>2. Found(bound)'
      BY <1>1, <3>1 DEF Found, Waiting, Placing
    <3>. QED  BY <1>1, <1>7, <1>9, <1>11, <3>1, <3>2, NoneIs DEF NamesBound, Stale, Found
  <2>4. bound \in Settling \/ AtRest
    BY <2>1 DEF Crossed, StaleAtRest
  <2>. QED  BY <1>5, <2>2, <2>3, <2>4
<1>12. StaleAtRest'
  BY <1>1, <1>11 DEF StaleAtRest
<1>. QED  BY <1>6, <1>9, <1>10, <1>12 DEF Crossed

\* Nobody moves.
LEMMA StillKeeps ==
  ASSUME Crossed, session'.proj = session.proj, session'.mode = session.mode,
         UNCHANGED <<project, bound, requestVars, historyVars>>
  PROVE  Crossed'
<1>1. UNCHANGED <<project, bound, at, seen, got, crossed, unsettled>>
  BY DEF requestVars, historyVars
<1>. QED  BY <1>1 DEF Crossed, CrossedWhileWorking, NamesBound, ClosesAtRest, StaleAtRest, Stale, AtRest,
     Idle, Working, Parting, Settling, Found, Exists

\* A step that writes the project it works for into the session.
Write(h) ==
  /\ MoveOf(h) /\ Working(h)
  /\ session'.proj \in {session.proj, got[h]} /\ (session'.proj # session.proj => Exists(got[h]))
  /\ UNCHANGED <<project, bound, crossed>> /\ unsettled \subseteq unsettled'
  /\ Working(h)' => got'[h] = got[h]
  /\ at'[h] \notin Removing \cup {"close"}
  /\ h \in Projects /\ Found(h)' => Found(h) \/ h \in unsettled' \/ session'.proj = h

LEMMA WriteKeeps ==
  ASSUME Base, Crossed, NEW h \in Handlers, Write(h)
  PROVE  Crossed'
<1>1. /\ MoveOf(h) /\ project' = project /\ bound' = bound /\ crossed' = crossed
      /\ unsettled \subseteq unsettled'
  BY DEF Write
<1>2. Parting' \subseteq Parting
  BY <1>1, PartingShrinks DEF Write, Exists
<1>3. \A g \in Handlers : Working(g)' => Working(g) /\ got'[g] = got[g]
  BY DEF Write, MoveOf, Working
<1>4. CrossedWhileWorking'
  BY <1>1, <1>2, <1>3 DEF Crossed, CrossedWhileWorking
<1>5. bound \in Projects \cup {None} /\ \A p \in Projects : p \in Handlers
  BY RowsAre DEF Handlers
<1>6. got[h] \in Projects /\ ~AtRest
  BY Stays DEF Write, Working, Base, AtRest, Idle
\* What it writes is the bound project, or one that was crossed.
<1>7. session'.proj # session.proj => session'.proj = bound \/ session'.proj \in crossed
  <2>1. ASSUME session'.proj # session.proj, session'.proj # bound PROVE session'.proj \in crossed
    <3>1. session'.proj = got[h] /\ Exists(got[h])
      BY <2>1 DEF Write
    <3>2. got[h] \in Parting
      BY <1>6, <2>1, <3>1 DEF Parting
    <3>. QED  BY <3>1, <3>2 DEF Write, Crossed, CrossedWhileWorking
  <2>. QED  BY <2>1
<1>8. bound # None /\ Found(bound)' => Found(bound) \/ bound \in unsettled' \/ session'.proj = bound
  <2>1. CASE bound = h
    BY <1>5, <2>1 DEF Write
  <2>2. CASE bound # h
    BY <1>5, <2>2 DEF Write, MoveOf, Found
  <2>. QED  BY <2>1, <2>2
<1>9. NamesBound'
  BY <1>1, <1>7, <1>8 DEF Crossed, NamesBound, Found
<1>10. ClosesAtRest'
  <2>1. ASSUME NEW u \in Unbinds, at'[u] = "close", got'[u] = bound
        PROVE  session'.proj \in crossed \cup {None}
    <3>1. u \in Handlers
      BY DEF Handlers, Requests
    <3>2. at[u] = "close" /\ got[u] = bound
      BY <2>1, <3>1 DEF Write, MoveOf
    <3>3. session.proj \in crossed \cup {None}
      BY <1>6, <3>2 DEF Crossed, ClosesAtRest
    <3>4. bound \in Projects => bound \in Parting
      BY <3>2 DEF Parting
    <3>5. session'.proj = got[h] /\ got[h] = bound => session'.proj \in crossed
      BY <1>6, <3>4 DEF Write, Crossed, CrossedWhileWorking
    <3>. QED  BY <1>7, <3>3, <3>5 DEF Write
  <2>. QED  BY <1>1, <2>1 DEF ClosesAtRest
<1>11. ASSUME Stale'
       PROVE  /\ bound \in Settling'
              /\ \A d \in Handlers : at'[d] \in Removing => got'[d] # bound
  <2>1. session'.proj = session.proj /\ Stale
    BY <1>1, <1>7, <1>11 DEF Stale
  <2>2. \A d \in Handlers : at'[d] \in Removing => got'[d] # bound
    BY <2>1 DEF Crossed, StaleAtRest, Write, MoveOf
  <2>3. ASSUME bound \in Settling, bound \notin Settling' PROVE FALSE
    <3>1. bound \in Projects /\ at'[bound] \in Waiting /\ bound \notin unsettled'
      BY <1>1, <1>5, <2>3 DEF Settling, Base, Shape, RestShape
    <3>2. Found(bound)'
      BY <1>1, <3>1 DEF Found, Waiting, Placing
    <3>. QED  BY <1>1, <1>5, <1>9, <1>11, <3>1, <3>2, NoneIs DEF NamesBound, Stale, Found
  <2>4. bound \in Settling
    BY <1>6, <2>1 DEF Crossed, StaleAtRest
  <2>. QED  BY <2>2, <2>3, <2>4
<1>12. StaleAtRest'
  BY <1>1, <1>11 DEF StaleAtRest
<1>. QED  BY <1>4, <1>9, <1>10, <1>12 DEF Crossed

\* A request starts to work for a project.
Join(h) ==
  /\ MoveOf(h) /\ h \in Requests
  /\ UNCHANGED <<session, project, bound, unsettled>>
  /\ crossed' = crossed \cup Crossing(got'[h])
  /\ at'[h] \notin Removing \cup {"close"}
  /\ Exists(got'[h])

LEMMA JoinKeeps ==
  ASSUME Base, Crossed, NEW h \in Handlers, Join(h)
  PROVE  Crossed'
<1>1. /\ MoveOf(h) /\ session' = session /\ project' = project /\ bound' = bound
      /\ unsettled' = unsettled /\ crossed' = crossed \cup Crossing(got'[h])
      /\ h \in Requests /\ Exists(got'[h])
  BY DEF Join
<1>2. Parting' \subseteq Parting
  BY <1>1, PartingShrinks DEF Join, Exists
<1>3. got'[h] \in Projects \cup {None} /\ h \notin Projects
  BY <1>1, RequestIs DEF MoveOf
<1>4. CrossedWhileWorking'
  <2>1. ASSUME NEW g \in Handlers, Working(g)', got'[g] \in Parting'
        PROVE  got'[g] \in crossed'
    <3>1. CASE g = h
      <4>1. got'[h] \in Parting /\ got'[h] # None
        BY <1>2, <2>1, <3>1, NoneIs DEF Parting
      <4>2. got'[h] \in Crossing(got'[h])
        BY <4>1 DEF Crossing
      <4>. QED  BY <1>1, <3>1, <4>2
    <3>2. CASE g # h
      <4>1. Working(g) /\ got[g] \in Parting /\ got'[g] = got[g]
        BY <1>1, <1>2, <2>1, <3>2 DEF MoveOf, Working
      <4>. QED  BY <1>1, <4>1 DEF Crossed, CrossedWhileWorking
    <3>. QED  BY <3>1, <3>2
  <2>. QED  BY <2>1 DEF CrossedWhileWorking
<1>5. bound \in Projects \cup {None} /\ session.proj \in Projects \cup {None}
  BY RowsAre
<1>6. bound # None => (Found(bound)' <=> Found(bound)) /\ (bound \in Settling' <=> bound \in Settling)
  <2>1. bound # None => bound \in Handlers /\ bound # h
    BY <1>3, <1>5 DEF Handlers
  <2>. QED  BY <1>1, <2>1 DEF MoveOf, Found, Settling
<1>7. NamesBound'
  BY <1>1, <1>6 DEF Crossed, NamesBound, Found
\* If it works, the project it works for is crossed with the session's, or is bound.
<1>8. Working(h)' => \/ session.proj \in crossed' \cup {None}
                     \/ got'[h] = bound /\ got'[h] \notin Parting
  <2>1. ASSUME Working(h)', session.proj # None, got'[h] \in Parting
        PROVE  session.proj \in crossed'
    BY <1>1, <2>1 DEF Crossing
  <2>2. ASSUME Working(h)', got'[h] \notin Parting
        PROVE  got'[h] = bound
    BY <1>1, <1>3, <2>2 DEF Working, Parting
  <2>. QED  BY <2>1, <2>2
<1>9. AtRest => AtRest' \/ Working(h)'
  BY <1>1 DEF AtRest, Idle, MoveOf, Working
<1>10. ClosesAtRest'
  <2>1. ASSUME NEW u \in Unbinds, at'[u] = "close", got'[u] = bound
        PROVE  session.proj \in crossed' \cup {None} \/ AtRest'
    <3>1. u \in Handlers
      BY DEF Handlers, Requests
    <3>2. at[u] = "close" /\ got[u] = bound
      BY <2>1, <3>1 DEF Join, MoveOf
    <3>3. session.proj \in crossed \cup {None} \/ AtRest
      BY <3>2 DEF Crossed, ClosesAtRest
    <3>4. bound \in Parting \/ bound = None
      BY <1>5, <3>2 DEF Parting
    <3>5. Working(h)' => got'[h] # None
      BY DEF Working
    <3>. QED  BY <1>1, <1>8, <1>9, <3>3, <3>4, <3>5
  <2>. QED  BY <1>1, <2>1 DEF ClosesAtRest
<1>11. ASSUME Stale'
       PROVE  /\ bound \in Settling' \/ AtRest'
              /\ \A d \in Handlers : at'[d] \in Removing => got'[d] # bound
  <2>1. Stale
    BY <1>1, <1>11 DEF Stale
  <2>2. \A d \in Handlers : at'[d] \in Removing => got'[d] # bound
    BY <2>1 DEF Crossed, StaleAtRest, Join, MoveOf
  <2>3. bound \in Settling \/ AtRest
    BY <2>1 DEF Crossed, StaleAtRest
  <2>4. ASSUME Working(h)', bound \notin Settling PROVE FALSE
    <3>1. bound \in Projects
      <4>1. got'[h] = bound /\ got'[h] # None
        BY <1>1, <1>8, <1>11, <2>4 DEF Stale, Working
      <4>. QED  BY <1>5, <4>1
    <3>2. at[bound] \in Waiting /\ bound \notin unsettled
      BY <2>4, <3>1 DEF Settling
    <3>. QED  BY <2>1, <3>1, <3>2, OverIsFound, StaleIsSettling, NoneIs DEF Crossed
  <2>5. bound # None \/ bound \notin Settling
    BY NoneIs DEF Settling, Base, Shape, RestShape
  <2>. QED  BY <1>6, <1>9, <2>2, <2>3, <2>4, <2>5
<1>12. StaleAtRest'
  BY <1>1, <1>11 DEF StaleAtRest
<1>. QED  BY <1>4, <1>7, <1>10, <1>12 DEF Crossed

\* An unbinding leaves the session disabled, or finds none, and is about to close
\* its project.
Shut(u) ==
  /\ MoveOf(u) /\ u \in Unbinds /\ ~Working(u) /\ ~Working(u)'
  /\ at'[u] = "close" /\ got'[u] = got[u]
  /\ session'.proj = session.proj /\ session'.mode # "active"
  /\ UNCHANGED <<project, bound, unsettled>> /\ crossed' = crossed \cup UnderWay(u)

LEMMA ShutKeeps ==
  ASSUME Base, Crossed, NEW u \in Handlers, Shut(u)
  PROVE  Crossed'
<1>1. /\ MoveOf(u) /\ session'.proj = session.proj /\ session'.mode # "active"
      /\ project' = project /\ bound' = bound /\ unsettled' = unsettled
      /\ crossed' = crossed \cup UnderWay(u) /\ at'[u] = "close" /\ got'[u] = got[u]
  BY DEF Shut
<1>2. u \notin Projects /\ bound \in Projects \cup {None}
  BY RequestIs, RowsAre DEF Shut, Requests
<1>3. \A g \in Handlers : Working(g)' => g # u /\ Working(g) /\ got'[g] = got[g]
  BY DEF Shut, MoveOf, Working
<1>4. Parting' \subseteq Parting \cup {got[u]}
  <2>1. Unbinds \subseteq Handlers
    BY DEF Handlers, Requests
  <2>. QED  BY <1>1, <2>1 DEF Parting, MoveOf, Exists
\* A request at work crosses the project and the session's.
<1>5. ASSUME NEW g \in Handlers, g # u, Working(g)
      PROVE  {got[u], session.proj} \ {None} \subseteq crossed'
  <2>1. at[g] \notin Waiting /\ got[g] # None
    BY <1>5 DEF Working, Messaging, Confirming, Adding, Binding, Placing, Filling, Finishing, Waiting
  <2>2. at[g] \notin Submits
    BY <1>5 DEF Working, Messaging, Confirming, Adding, Binding, Placing, Filling, Finishing, Submits
  <2>. QED  BY <1>1, <1>5, <2>1, <2>2 DEF UnderWay
<1>6. CrossedWhileWorking'
  <2>1. ASSUME NEW g \in Handlers, Working(g)', got'[g] \in Parting'
        PROVE  got'[g] \in crossed'
    <3>1. g # u /\ Working(g) /\ got'[g] = got[g]
      BY <1>3, <2>1
    <3>2. CASE got[g] \in Parting
      BY <1>1, <3>1, <3>2 DEF Crossed, CrossedWhileWorking
    <3>3. CASE got[g] = got[u]
      <4>1. got[g] # None
        BY <3>1 DEF Working
      <4>. QED  BY <1>5, <3>1, <3>3, <4>1
    <3>. QED  BY <1>4, <2>1, <3>1, <3>2, <3>3
  <2>. QED  BY <2>1 DEF CrossedWhileWorking
<1>7. bound # None => (Found(bound)' <=> Found(bound)) /\ (bound \in Settling' <=> bound \in Settling)
  <2>1. bound # None => bound \in Handlers /\ bound # u
    BY <1>2 DEF Handlers
  <2>. QED  BY <1>1, <2>1 DEF MoveOf, Found, Settling
<1>8. NamesBound'
  BY <1>1, <1>7 DEF Crossed, NamesBound, Found
<1>9. session.proj \in crossed' \cup {None} \/ AtRest'
  <2>1. CASE \E g \in Handlers : g # u /\ Working(g)
    BY <1>5, <2>1
  <2>2. CASE \A g \in Handlers : g # u => ~Working(g)
    <3>1. Idle'
      BY <1>3, <2>2 DEF Idle
    <3>. QED  BY <1>1, <3>1 DEF AtRest
  <2>. QED  BY <2>1, <2>2
<1>10. ClosesAtRest'
  BY <1>1, <1>9 DEF ClosesAtRest
<1>11. StaleAtRest'
  <2>1. ASSUME Stale'
        PROVE  AtRest' /\ \A d \in Handlers : at'[d] \in Removing => got'[d] # bound
    <3>1. Stale /\ session.proj \notin crossed' \cup {None}
      BY <1>1, <2>1 DEF Stale
    <3>2. \A d \in Handlers : at'[d] \in Removing => at[d] \in Removing /\ got'[d] = got[d]
      BY <1>1 DEF MoveOf, Removing
    <3>. QED  BY <1>9, <3>1, <3>2 DEF Crossed, StaleAtRest
  <2>. QED  BY <1>1, <2>1 DEF StaleAtRest
<1>. QED  BY <1>6, <1>8, <1>10, <1>11 DEF Crossed

LEMMA CloseCrosses ==
  ASSUME Base, Crossed, NEW u \in Handlers, Close(u)
  PROVE  Crossed'
<1>1. PICK p : p = got[u]
  OBVIOUS
<1>2. /\ MoveOf(u) /\ u \in Unbinds /\ at[u] = "close" /\ p \in Projects /\ at'[u] = "over"
      /\ got'[u] = None /\ session' = session /\ crossed' = crossed /\ unsettled' = unsettled
      /\ project' = (IF Exists(p) THEN [project EXCEPT ![p] = "closed"] ELSE project)
      /\ bound' = (IF bound = p THEN None ELSE bound)
  BY <1>1, CloseIs DEF Steps, historyVars
<1>3. u \notin Projects /\ bound \in Projects \cup {None}
  BY <1>2, RequestIs, RowsAre DEF Requests
<1>4. \A q \in Projects : Exists(q)' <=> Exists(q)
  BY <1>2 DEF Base, Shape, RowShape, Exists
<1>5. Parting' \subseteq Parting
  <2>1. Unbinds \subseteq Handlers /\ p \in Parting
    BY <1>1, <1>2 DEF Handlers, Requests, Parting
  <2>2. \A q \in Projects : q # bound' /\ Exists(q)' => q \in Parting
    BY <1>2, <1>4, <2>1 DEF Parting
  <2>3. \A q \in Projects : (\E v \in Unbinds : at'[v] = "close" /\ got'[v] = q) => q \in Parting
    BY <1>2, <2>1 DEF Parting, MoveOf
  <2>. QED  BY <2>2, <2>3 DEF Parting
<1>6. \A g \in Handlers : Working(g)' => Working(g) /\ got'[g] = got[g]
  BY <1>2 DEF MoveOf, Working
<1>7. CrossedWhileWorking'
  BY <1>2, <1>5, <1>6 DEF Crossed, CrossedWhileWorking
<1>8. AtRest => AtRest'
  BY <1>2, <1>6 DEF AtRest, Idle
<1>9. \A b \in Projects : (Found(b)' <=> Found(b)) /\ (b \in Settling' <=> b \in Settling)
  <2>1. \A b \in Projects : b \in Handlers /\ b # u
    BY <1>3 DEF Handlers
  <2>. QED  BY <1>2, <2>1 DEF MoveOf, Found, Settling
<1>10. NamesBound'
  BY <1>2, <1>3, <1>9 DEF Crossed, NamesBound
<1>11. \A v \in Unbinds : at'[v] = "close" /\ got'[v] = bound' => at[v] = "close" /\ got[v] = bound /\ bound' = bound
  <2>1. \A v \in Unbinds : v \in Handlers /\ (at[v] = "close" => got[v] # None)
    BY DEF Handlers, Requests, Base, Kind, Unbinding
  <2>. QED  BY <1>2, <2>1 DEF MoveOf
<1>12. ClosesAtRest'
  BY <1>2, <1>8, <1>11 DEF Crossed, ClosesAtRest
<1>13. StaleAtRest'
  <2>1. \A d \in Handlers : at'[d] \in Removing => at[d] \in Removing /\ got'[d] = got[d] /\ got[d] # None
    BY <1>2 DEF MoveOf, Removing, Base, Kind
  <2>2. CASE bound = p
    <3>1. Stale' => AtRest
      BY <1>1, <1>2, <2>2 DEF Stale, Crossed, ClosesAtRest
    <3>. QED  BY <1>2, <1>8, <2>1, <2>2, <3>1 DEF StaleAtRest
  <2>3. CASE bound # p
    <3>1. bound' = bound /\ (Stale' => Stale)
      BY <1>2, <2>3 DEF Stale
    <3>2. bound \in Settling => bound # None
      BY NoneIs DEF Settling, Base, Shape, RestShape
    <3>. QED  BY <1>3, <1>8, <1>9, <2>1, <3>1, <3>2 DEF Crossed, StaleAtRest
  <2>. QED  BY <2>2, <2>3
<1>. QED  BY <1>7, <1>10, <1>12, <1>13 DEF Crossed

LEMMA RemoveCrosses ==
  ASSUME Base, Crossed, NEW d \in Handlers, Remove(d)
  PROVE  Crossed'
<1>1. /\ MoveOf(d) /\ d \in Requests /\ at[d] = "off" /\ got'[d] = session.proj
      /\ at'[d] \in {"drop", "wipe"} /\ session' = session /\ project' = project /\ bound' = bound
      /\ crossed' = crossed /\ unsettled' = unsettled
  BY RemoveIs DEF Quiet, Steps, rowVars, historyVars
<1>2. d \notin Projects /\ bound \in Projects \cup {None}
  BY <1>1, RequestIs, RowsAre
<1>3. Parting' \subseteq Parting
  BY <1>1, PartingShrinks DEF Exists
<1>4. \A g \in Handlers : Working(g)' => Working(g) /\ got'[g] = got[g]
  BY <1>1 DEF MoveOf, Working, Messaging, Confirming, Adding, Binding, Placing, Filling, Finishing
<1>5. CrossedWhileWorking'
  BY <1>1, <1>3, <1>4 DEF Crossed, CrossedWhileWorking
<1>6. AtRest => AtRest'
  BY <1>1, <1>4 DEF AtRest, Idle
<1>7. bound # None => (Found(bound)' <=> Found(bound)) /\ (bound \in Settling' <=> bound \in Settling)
  <2>1. bound # None => bound \in Handlers /\ bound # d
    BY <1>2 DEF Handlers
  <2>. QED  BY <1>1, <2>1 DEF MoveOf, Found, Settling
<1>8. NamesBound'
  BY <1>1, <1>7 DEF Crossed, NamesBound, Found
<1>9. ClosesAtRest'
  <2>1. \A u \in Unbinds : at'[u] = "close" /\ got'[u] = bound => at[u] = "close" /\ got[u] = bound
    BY <1>1 DEF MoveOf, Handlers, Requests
  <2>. QED  BY <1>1, <1>6, <2>1 DEF Crossed, ClosesAtRest
<1>10. StaleAtRest'
  <2>1. bound \in Settling => bound # None
    BY NoneIs DEF Settling, Base, Shape, RestShape
  <2>2. Stale' => Stale /\ session.proj # bound
    BY <1>1 DEF Stale
  <2>. QED  BY <1>1, <1>6, <1>7, <2>1, <2>2 DEF Crossed, StaleAtRest, MoveOf
<1>. QED  BY <1>5, <1>8, <1>9, <1>10 DEF Crossed

LEMMA DropCrosses ==
  ASSUME Base, Crossed, NEW d \in Handlers, Drop(d)
  PROVE  Crossed'
<1>1. /\ MoveOf(d) /\ at'[d] = "over" /\ session'.proj = None /\ project' = project /\ bound' = bound
      /\ crossed' = crossed
  BY DropIs DEF Steps
<1>2. Parting' \subseteq Parting
  BY <1>1, PartingShrinks DEF Exists
<1>3. \A g \in Handlers : Working(g)' => Working(g) /\ got'[g] = got[g]
  BY <1>1 DEF MoveOf, Working, Messaging, Confirming, Adding, Binding, Placing, Filling, Finishing
<1>4. CrossedWhileWorking'
  BY <1>1, <1>2, <1>3 DEF Crossed, CrossedWhileWorking
<1>. QED  BY <1>1, <1>4 DEF Crossed, NamesBound, ClosesAtRest, StaleAtRest, Stale

LEMMA CreateProjectCrosses ==
  ASSUME Base, Crossed, NEW p \in Handlers, CreateProject(p)
  PROVE  Crossed'
<1>1. /\ MoveOf(p) /\ p \in Projects /\ at[p] = "create" /\ got[p] = p /\ project[p] = "none"
      /\ session' = session /\ crossed' = crossed /\ unsettled' = unsettled
      /\ \/ /\ bound = None /\ bound' = p /\ at'[p] = "environment" /\ got'[p] = p
            /\ project' = [project EXCEPT ![p] = "initializing"]
         \/ /\ bound' = bound /\ project' = project /\ at'[p] = "over" /\ got'[p] = None
  BY CreateProjectIs DEF historyVars
<1>2. CASE bound' = bound /\ project' = project /\ at'[p] = "over" /\ got'[p] = None
  <2>1. Calm(p)
    BY <1>1, <1>2 DEF Calm, Exists, Working, Messaging, Confirming, Adding, Binding, Placing, Filling,
       Finishing, Removing, Found
  <2>. QED  BY <2>1, CalmKeeps
<1>3. CASE /\ bound = None /\ bound' = p /\ at'[p] = "environment" /\ got'[p] = p
           /\ project' = [project EXCEPT ![p] = "initializing"]
  <2>1. p # None /\ \A g \in Handlers : g # p => got[g] # p /\ got'[g] = got[g] /\ at'[g] = at[g]
    BY <1>1, NoneIs DEF Base, Unmade, MoveOf
  <2>2. \A q \in Projects : q # p => (Exists(q)' <=> Exists(q))
    BY <1>1, <1>3 DEF Base, Shape, RowShape, Exists
  <2>3. Parting' \subseteq Parting \ {p}
    <3>1. Unbinds \subseteq Handlers
      BY DEF Handlers, Requests
    <3>2. \A v \in Unbinds : at'[v] = "close" => got'[v] # p /\ at[v] = "close" /\ got[v] = got'[v]
      BY <1>3, <2>1, <3>1
    <3>3. \A q \in Projects : q \in Parting' => q # p
      BY <1>3, <3>2 DEF Parting
    <3>4. \A q \in Projects : q \in Parting' => q \in Parting
      BY <1>3, <2>2, <3>2, <3>3, NoneIs DEF Parting
    <3>. QED  BY <3>3, <3>4 DEF Parting
  <2>4. CrossedWhileWorking'
    <3>1. \A g \in Handlers : Working(g)' /\ got'[g] \in Parting' => Working(g) /\ got'[g] = got[g]
      BY <1>3, <2>1, <2>3 DEF Working
    <3>. QED  BY <1>1, <2>3, <3>1 DEF Crossed, CrossedWhileWorking
  <2>5. NamesBound'
    BY <1>3 DEF NamesBound, Found, Placing
  <2>6. ClosesAtRest'
    <3>1. \A v \in Unbinds : ~(at'[v] = "close" /\ got'[v] = p)
      BY <1>3, <2>1 DEF Handlers, Requests
    <3>. QED  BY <1>3, <3>1 DEF ClosesAtRest
  <2>7. StaleAtRest'
    <3>1. \A d \in Handlers : at'[d] \in Removing => got'[d] # p
      BY <1>3, <2>1 DEF Removing
    <3>2. p \in Settling'
      BY <1>1, <1>3 DEF Settling, Waiting
    <3>. QED  BY <1>3, <3>1, <3>2 DEF StaleAtRest
  <2>. QED  BY <2>4, <2>5, <2>6, <2>7 DEF Crossed
<1>. QED  BY <1>1, <1>2, <1>3

LEMMA UnprojectCrosses ==
  ASSUME Base, Crossed, NEW d \in Handlers, Unproject(d)
  PROVE  Crossed'
<1>1. PICK p : p = got[d]
  OBVIOUS
<1>2. /\ MoveOf(d) /\ d \in Requests /\ at[d] = "unproject" /\ p \in Projects
      /\ crossed' = crossed /\ unsettled' = unsettled
      /\ \/ /\ at'[d] = "over" /\ got'[d] = None /\ session' = session /\ project' = project
            /\ bound' = bound
         \/ /\ at'[d] = "drop" /\ got'[d] = p /\ project' = [project EXCEPT ![p] = "gone"]
            /\ bound' = (IF bound = p THEN None ELSE bound)
            /\ session'.proj = (IF session.proj = p THEN None ELSE session.proj)
            /\ session'.mode = session.mode
  BY <1>1, UnprojectIs DEF Steps, historyVars
<1>3. d \notin Projects /\ bound \in Projects \cup {None} /\ p # None
  BY <1>2, RequestIs, RowsAre, NoneIs
<1>4. CASE /\ at'[d] = "over" /\ got'[d] = None /\ session' = session /\ project' = project
           /\ bound' = bound
  <2>1. Calm(d)
    BY <1>2, <1>3, <1>4 DEF Calm, Exists, Working, Messaging, Confirming, Adding, Binding, Placing,
       Filling, Finishing, Removing, Found
  <2>. QED  BY <2>1, CalmKeeps
<1>5. CASE /\ at'[d] = "drop" /\ got'[d] = p /\ project' = [project EXCEPT ![p] = "gone"]
           /\ bound' = (IF bound = p THEN None ELSE bound)
           /\ session'.proj = (IF session.proj = p THEN None ELSE session.proj)
           /\ session'.mode = session.mode
  <2>1. \A q \in Projects : Exists(q)' => Exists(q) /\ q # p
    BY <1>2, <1>3, <1>5 DEF Base, Shape, RowShape, Exists
  <2>2. Parting' \subseteq Parting
    <3>1. Unbinds \subseteq Handlers
      BY DEF Handlers, Requests
    <3>. QED  BY <1>2, <1>5, <2>1, <3>1 DEF Parting, MoveOf
  <2>3. \A g \in Handlers : Working(g)' => Working(g) /\ got'[g] = got[g]
    BY <1>2, <1>5 DEF MoveOf, Working, Messaging, Confirming, Adding, Binding, Placing, Filling, Finishing
  <2>4. CrossedWhileWorking'
    BY <1>2, <2>2, <2>3 DEF Crossed, CrossedWhileWorking
  <2>5. AtRest => AtRest'
    BY <1>5, <2>3 DEF AtRest, Idle
  <2>6. \A b \in Projects : (Found(b)' <=> Found(b)) /\ (b \in Settling' <=> b \in Settling)
    <3>1. \A b \in Projects : b \in Handlers /\ b # d
      BY <1>3 DEF Handlers
    <3>. QED  BY <1>2, <3>1 DEF MoveOf, Found, Settling
  <2>7. NamesBound'
    BY <1>2, <1>3, <1>5, <2>6 DEF Crossed, NamesBound
  <2>8. \A v \in Unbinds : at'[v] = "close" /\ got'[v] = bound' => at[v] = "close" /\ got[v] = bound
    <3>1. \A v \in Unbinds : v \in Handlers /\ (at[v] = "close" => got[v] # None)
      BY DEF Handlers, Requests, Base, Kind, Unbinding
    <3>. QED  BY <1>2, <1>5, <3>1 DEF MoveOf
  <2>9. ClosesAtRest'
    BY <1>2, <1>5, <2>5, <2>8 DEF Crossed, ClosesAtRest
  <2>10. StaleAtRest'
    <3>1. \A g \in Handlers : at'[g] \in Removing => at[g] \in Removing /\ got'[g] = got[g]
      BY <1>2, <1>5 DEF MoveOf, Removing
    <3>2. ASSUME Stale' PROVE Stale /\ bound' = bound
      <4>1. session'.proj = session.proj /\ session.proj # p
        BY <1>5, <3>2 DEF Stale
      <4>2. CASE bound = p
        <5>1. Stale
          BY <1>2, <3>2, <4>1, <4>2 DEF Stale
        <5>2. at[d] \in Removing /\ got[d] = bound
          BY <1>1, <1>2, <4>2 DEF Removing
        <5>. QED  BY <5>1, <5>2 DEF Crossed, StaleAtRest
      <4>3. CASE bound # p
        BY <1>2, <1>5, <3>2, <4>1, <4>3 DEF Stale
      <4>. QED  BY <4>2, <4>3
    <3>3. bound \in Settling => bound # None
      BY NoneIs DEF Settling, Base, Shape, RestShape
    <3>. QED  BY <1>3, <2>5, <2>6, <3>1, <3>2, <3>3 DEF Crossed, StaleAtRest
  <2>. QED  BY <2>4, <2>7, <2>9, <2>10 DEF Crossed
<1>. QED  BY <1>2, <1>4, <1>5

LEMMA AsksNothing ==
  ASSUME Base, NEW h \in Requests, NEW to \in {"lookup", "over"}, Asks(h, None, "pending_config", to)
  PROVE  Calm(h)
<1>1. /\ MoveOf(h) /\ session'.proj = session.proj
      /\ session'.mode \in {session.mode, "pending_config"}
      /\ at'[h] \in {"lookup", "over", "refused"}
  BY DEF Asks, GotOrCreated
<1>2. UNCHANGED <<project, bound, crossed, unsettled>>
  BY DEF Asks, Others, historyVars
<1>. QED  BY <1>1, <1>2, RequestIs DEF Calm, Exists, Found, Working, Messaging, Confirming, Adding, Binding, Placing, Filling,
       Finishing, Removing

LEMMA AsksProject ==
  ASSUME Base, NEW h \in Requests, NEW to \in {"source", "submit", "over"}, Working(h),
         Asks(h, got[h], "active", to)
  PROVE  Write(h)
<1>1. /\ MoveOf(h) /\ session'.proj \in {session.proj, got[h]}
      /\ session'.proj # session.proj => Exists(got[h])
      /\ at'[h] \in {"source", "submit", "over", "refused"}
  BY DEF Asks, GotOrCreated
<1>2. UNCHANGED <<project, bound, crossed, unsettled>>
  BY DEF Asks, Others, historyVars
<1>. QED  BY <1>1, <1>2, RequestIs DEF Write, Working, Messaging, Confirming, Adding, Binding, Placing, Filling,
       Finishing, Removing

LEMMA MessageCrosses ==
  ASSUME Base, Crossed, NEW m \in Handlers, Message(m)
  PROVE  Crossed'
<1>1. CASE Arrive(m)
  <2>1. Calm(m)
    BY <1>1, ArriveIs, RequestIs DEF Quiet, Steps, rowVars, historyVars, Requests, Calm, Exists, Found, Working, Messaging, Confirming, Adding, Binding, Placing, Filling,
       Finishing, Removing
  <2>. QED  BY <2>1, CalmKeeps
<1>2. CASE Tag(m) \/ Pend(m)
  <2>1. m \in Requests /\ \E to \in {"lookup", "over"} : Asks(m, None, "pending_config", to)
    BY <1>2, TagIs, PendIs DEF Requests
  <2>. QED  BY <2>1, AsksNothing, CalmKeeps
<1>3. CASE LookUp(m)
  <2>1. Join(m)
    <3>1. Exists(bound)
      BY DEF Base, RowsOK
    <3>2. /\ Quiet(m) /\ m \in Requests /\ at'[m] \in {"ask", "policy"} /\ got'[m] = bound
          /\ crossed' = crossed \cup Crossing(bound) /\ unsettled' = unsettled
      BY <1>3, LookUpIs DEF Requests
    <3>. QED  BY <3>1, <3>2 DEF Join, Quiet, Steps, rowVars, Removing
  <2>. QED  BY <2>1, JoinKeeps
<1>4. CASE ReadPolicy(m)
  <2>1. Calm(m)
    BY <1>4, ReadPolicyIs, RequestIs DEF Quiet, Steps, rowVars, historyVars, Requests, Calm, Exists, Found, Working, Messaging, Confirming, Adding, Binding, Placing, Filling,
       Finishing, Removing
  <2>. QED  BY <2>1, CalmKeeps
<1>5. CASE MakePolicy(m)
  <2>1. Calm(m)
    BY <1>5, MakePolicyIs, RequestIs DEF Steps, historyVars, Requests, Calm, Exists, Found, Working, Messaging, Confirming, Adding, Binding, Placing, Filling,
       Finishing, Removing
  <2>. QED  BY <2>1, CalmKeeps
<1>6. CASE FindEnv(m)
  <2>1. Calm(m)
    BY <1>6, FindEnvIs, RequestIs DEF Quiet, Steps, rowVars, historyVars, Requests, Calm, Exists, Found, Working, Messaging, Confirming, Adding, Binding, Placing, Filling,
       Finishing, Removing
  <2>. QED  BY <2>1, CalmKeeps
<1>7. CASE Effective(m)
  <2>1. Calm(m)
    BY <1>7, EffectiveIs, RequestIs DEF Quiet, Steps, rowVars, historyVars, Requests, Calm, Exists, Found, Working, Messaging, Confirming, Adding, Binding, Placing, Filling,
       Finishing, Removing
  <2>. QED  BY <2>1, CalmKeeps
<1>8. CASE Enter(m)
  <2>1. m \in Requests /\ Asks(m, got[m], "active", "source") /\ Working(m)
    BY <1>8, EnterIs, NoneIs DEF Requests, Working, Messaging
  <2>. QED  BY <2>1, AsksProject, WriteKeeps
<1>9. CASE Source(m)
  <2>1. Calm(m)
    BY <1>9, SourceIs, RequestIs DEF Quiet, Steps, rowVars, historyVars, Requests, Calm, Exists, Found, Working, Messaging, Confirming, Adding, Binding, Placing, Filling,
       Finishing, Removing
  <2>. QED  BY <2>1, CalmKeeps
<1>. QED  BY <1>1, <1>2, <1>3, <1>4, <1>5, <1>6, <1>7, <1>8, <1>9 DEF Message

LEMMA ConfigureCrosses ==
  ASSUME Base, Crossed, NEW p \in Handlers, Configure(p)
  PROVE  Crossed'
<1>1. CASE Begin(p)
  <2>1. Calm(p)
    BY <1>1, BeginIs DEF Quiet, Steps, rowVars, historyVars, Calm, Exists, Found, Working, Messaging, Confirming, Adding, Binding, Placing, Filling,
       Finishing, Removing
  <2>. QED  BY <2>1, CalmKeeps
<1>2. CASE Check(p)
  <2>1. Calm(p)
    BY <1>2, CheckIs DEF Quiet, Steps, rowVars, historyVars, Calm, Exists, Found, Working, Messaging, Confirming, Adding, Binding, Placing, Filling,
       Finishing, Removing
  <2>. QED  BY <2>1, CalmKeeps
<1>3. CASE CreateProject(p)
  BY <1>3, CreateProjectCrosses
<1>4. CASE CreateEnv(p)
  <2>1. Calm(p)
    BY <1>4, CreateEnvIs, NoneIs DEF Steps, Calm, Exists, Found, Working, Messaging, Confirming, Adding, Binding, Placing, Filling,
       Finishing, Removing
  <2>. QED  BY <2>1, CalmKeeps
<1>5. CASE Activate(p)
  <2>1. \A q \in Projects : Exists(q)' => Exists(q)
    BY <1>5, ActivateIs DEF Base, Shape, RowShape, Exists
  <2>2. Calm(p)
    BY <1>5, <2>1, ActivateIs, NoneIs DEF Steps, Calm, Working, Messaging, Confirming, Adding, Binding, Placing, Filling,
       Finishing, Removing, Found
  <2>. QED  BY <2>2, CalmKeeps
<1>6. CASE ReadPage(p)
  <2>1. Calm(p)
    BY <1>6, ReadPageIs, NoneIs DEF Quiet, Steps, rowVars, historyVars, Calm, Exists, Found, Working, Messaging, Confirming, Adding, Binding, Placing, Filling,
       Finishing, Removing
  <2>. QED  BY <2>1, CalmKeeps
<1>7. CASE Bind(p)
  <2>1. /\ MoveOf(p) /\ p \in Projects /\ got[p] = p /\ p # None /\ Working(p)
        /\ UNCHANGED <<project, bound, crossed>> /\ at[p] \in {"binding", "rebinding"}
    BY <1>7, BindIs, NoneIs DEF Steps, Working, Binding, Finishing
  <2>2. CASE /\ seen[p].id # 0 /\ at'[p] = (IF at[p] = "binding" THEN "allow" ELSE "over")
             /\ at'[p] = "allow" => got'[p] = p
             /\ at'[p] = "over" => got'[p] = None
             /\ session'.proj = p /\ session'.mode = "active" /\ unsettled' = unsettled
             /\ session.proj # p => Exists(p)
    <3>1. Write(p)
      BY <2>1, <2>2 DEF Write, Working, Messaging, Confirming, Adding, Binding, Placing, Filling,
       Finishing, Removing
    <3>. QED  BY <3>1, WriteKeeps
  <2>3. CASE /\ seen[p].id = 0 /\ at'[p] = (IF at[p] = "binding" THEN "make" ELSE "remake")
             /\ got'[p] = p /\ session' = session /\ unsettled' = unsettled
    <3>1. Calm(p)
      BY <2>1, <2>3 DEF Calm, Exists, Found, Working, Messaging, Confirming, Adding, Binding, Placing, Filling,
       Finishing, Removing
    <3>. QED  BY <3>1, CalmKeeps
  <2>4. CASE /\ at'[p] = "over" /\ got'[p] = None /\ session' = session
             /\ unsettled' = unsettled \cup {p}
    <3>1. Calm(p)
      BY <2>1, <2>4 DEF Calm, Exists, Found, Working, Messaging, Confirming, Adding, Binding, Placing, Filling,
       Finishing, Removing
    <3>. QED  BY <3>1, CalmKeeps
  <2>. QED  BY <1>7, <2>2, <2>3, <2>4, BindIs
<1>8. CASE Make(p)
  <2>1. /\ p \in Projects /\ got[p] = p /\ p # None /\ at[p] \in {"making", "remaking"}
        /\ GotOrCreated(p, p, "active", IF at[p] = "making" THEN "allow" ELSE "over")
        /\ unsettled \subseteq unsettled' /\ UNCHANGED <<project, bound, crossed>>
    BY <1>8, MakeIs, NoneIs
  <2>2. /\ MoveOf(p) /\ session'.proj \in {session.proj, p} /\ (session'.proj # session.proj => Exists(p))
        /\ at'[p] \in {"allow", "over", "refused"}
        /\ at'[p] = "allow" => got'[p] = p
    BY <2>1 DEF GotOrCreated
  <2>3. Write(p)
    BY <2>1, <2>2 DEF Write, Working, Messaging, Confirming, Adding, Binding, Placing, Filling,
       Finishing, Removing, Found
  <2>. QED  BY <2>3, WriteKeeps
<1>9. CASE Allow(p)
  <2>1. Calm(p)
    BY <1>9, AllowIs, NoneIs DEF Steps, Calm, Exists, Found, Working, Messaging, Confirming, Adding, Binding, Placing, Filling,
       Finishing, Removing
  <2>. QED  BY <2>1, CalmKeeps
<1>. QED  BY <1>1, <1>2, <1>3, <1>4, <1>5, <1>6, <1>7, <1>8, <1>9 DEF Configure

LEMMA EventCrosses ==
  ASSUME Base, Crossed, NEW h \in Handlers, Event(h)
  PROVE  Crossed'
<1>1. CASE Confirm(h)
  <2>1. /\ Quiet(h) /\ h \in Requests /\ at'[h] = "late" /\ got'[h] \in envs
        /\ crossed' = crossed \cup Crossing(got'[h]) /\ unsettled' = unsettled
    BY <1>1, ConfirmIs DEF Requests
  <2>2. Exists(got'[h])
    BY <2>1 DEF Base, RowsOK
  <2>3. Join(h)
    BY <2>1, <2>2 DEF Join, Quiet, Steps, rowVars, Removing
  <2>. QED  BY <2>3, JoinKeeps
<1>2. CASE Reopen(h)
  <2>1. h \in Requests /\ Asks(h, got[h], "active", "submit") /\ Working(h)
    BY <1>2, ReopenIs, NoneIs DEF Requests, Working, Confirming
  <2>. QED  BY <2>1, AsksProject, WriteKeeps
<1>5. CASE Notice(h)
  <2>1. Calm(h)
    BY <1>5, NoticeIs, RequestIs DEF Quiet, Steps, rowVars, historyVars, Calm, Exists, Found, Working, Messaging, Confirming, Adding, Binding, Placing, Filling,
       Finishing, Removing
  <2>. QED  BY <2>1, CalmKeeps
<1>6. CASE Noticed(h)
  <2>1. h \in Requests /\ Asks(h, None, "pending_config", "over")
    BY <1>6, NoticedIs
  <2>. QED  BY <2>1, AsksNothing, CalmKeeps
<1>7. CASE Add(h)
  <2>1. /\ Quiet(h) /\ h \in Requests /\ at'[h] = "add" /\ got'[h] = bound
        /\ crossed' = crossed \cup Crossing(bound) /\ unsettled' = unsettled
    BY <1>7, AddIs DEF Requests
  <2>2. Exists(got'[h])
    BY <2>1 DEF Base, RowsOK
  <2>3. Join(h)
    BY <2>1, <2>2 DEF Join, Quiet, Steps, rowVars, Removing
  <2>. QED  BY <2>3, JoinKeeps
<1>8. CASE Added(h)
  <2>1. h \in Requests /\ at[h] = "added"
    BY <1>8, AddedIs DEF Requests
  <2>2. CASE Asks(h, None, "pending_config", "over")
    BY <2>1, <2>2, AsksNothing, CalmKeeps
  <2>3. CASE got[h] \in Projects /\ Asks(h, got[h], "active", "over")
    <3>1. Working(h)
      BY <2>1, <2>3, NoneIs DEF Working, Adding
    <3>. QED  BY <2>1, <2>3, <3>1, AsksProject, WriteKeeps
  <2>. QED  BY <1>8, <2>2, <2>3, AddedIs
<1>9. CASE Select(h)
  <2>1. Calm(h)
    BY <1>9, SelectIs, RequestIs DEF Quiet, Steps, rowVars, historyVars, Calm, Exists, Found, Working, Messaging, Confirming, Adding, Binding, Placing, Filling,
       Finishing, Removing
  <2>. QED  BY <2>1, CalmKeeps
<1>10. CASE Private(h)
  <2>1. Calm(h)
    BY <1>10, PrivateIs, RequestIs DEF Steps, historyVars, Calm, Exists, Found, Working, Messaging, Confirming, Adding, Binding, Placing, Filling,
       Finishing, Removing
  <2>. QED  BY <2>1, CalmKeeps
<1>11. CASE Edit(h)
  <2>1. Calm(h)
    BY <1>11, EditIs, RequestIs DEF Steps, historyVars, Calm, Exists, Found, Working, Messaging, Confirming, Adding, Binding, Placing, Filling,
       Finishing, Removing
  <2>. QED  BY <2>1, CalmKeeps
<1>12. CASE Edited(h)
  <2>1. Calm(h)
    BY <1>12, EditedIs, RequestIs DEF Steps, Calm, Exists, Found, Working, Messaging, Confirming, Adding, Binding, Placing, Filling,
       Finishing, Removing
  <2>. QED  BY <2>1, CalmKeeps
<1>. QED  BY <1>1, <1>2, <1>5, <1>6, <1>7, <1>8, <1>9, <1>10, <1>11, <1>12 DEF Event

LEMMA ExecutionCrosses ==
  ASSUME Base, Crossed, NEW c \in Handlers, Execution(c)
  PROVE  Crossed'
<1>1. Executes(c)
  BY ExecutionIs
<1>2. Calm(c)
  BY <1>1, RequestIs DEF Executes, Steps, Submits, Calm, Exists, Working, Messaging, Confirming, Adding,
     Binding, Placing, Filling, Finishing, Removing
<1>. QED  BY <1>2, CalmKeeps

LEMMA AdministerCrosses ==
  ASSUME Base, Crossed, NEW h \in Handlers, Administer(h)
  PROVE  Crossed'
<1>1. CASE Unbind(h)
  <2>1. Calm(h)
    BY <1>1, UnbindIs, RequestIs DEF Quiet, Steps, rowVars, historyVars, Calm, Exists, Found, Working, Messaging, Confirming, Adding, Binding, Placing, Filling,
       Finishing, Removing
  <2>. QED  BY <2>1, CalmKeeps
<1>2. CASE Disable(h)
  <2>1. /\ Quiet(h) /\ h \in Unbinds /\ h \in Requests /\ at[h] = "disable" /\ got'[h] = got[h]
        /\ at'[h] = (IF session.id = 0 THEN "close" ELSE "release")
        /\ crossed' = (IF session.id = 0 THEN crossed \cup UnderWay(h) ELSE crossed)
        /\ unsettled' = unsettled
    BY <1>2, DisableIs
  <2>2. MoveOf(h) /\ UNCHANGED <<session, project, bound>>
    BY <2>1 DEF Quiet, Steps, rowVars
  <2>3. CASE session.id = 0
    <3>1. session.mode # "active"
      BY <2>3, AbsentIs DEF Base, Shape, RowShape, SessionOK
    <3>2. Shut(h)
      BY <2>1, <2>2, <2>3, <3>1 DEF Shut, Working, Messaging, Confirming, Adding, Binding, Placing, Filling,
       Finishing, Removing
    <3>. QED  BY <3>2, ShutKeeps
  <2>4. CASE session.id # 0
    <3>1. Calm(h)
      BY <2>1, <2>2, <2>4, RequestIs DEF Calm, Exists, Found, Working, Messaging, Confirming, Adding, Binding, Placing, Filling,
       Finishing, Removing
    <3>. QED  BY <3>1, CalmKeeps
  <2>. QED  BY <2>3, <2>4
<1>3. CASE Release(h)
  <2>1. Calm(h)
    BY <1>3, ReleaseIs, RequestIs DEF Steps, rowVars, Requests, Calm, Exists, Found, Working, Messaging, Confirming, Adding, Binding, Placing, Filling,
       Finishing, Removing
  <2>. QED  BY <2>1, CalmKeeps
<1>4. CASE Silence(h)
  <2>1. /\ MoveOf(h) /\ h \in Unbinds /\ h \in Requests /\ at[h] = "silence"
        /\ UNCHANGED <<project, bound, unsettled>>
    BY <1>4, SilenceIs DEF Steps, Requests
  <2>2. CASE /\ session'.proj = session.proj /\ session'.mode = "disabled" /\ at'[h] = "close"
             /\ got'[h] = got[h] /\ crossed' = crossed \cup UnderWay(h)
    <3>1. Shut(h)
      BY <2>1, <2>2 DEF Shut, Working, Messaging, Confirming, Adding, Binding, Placing, Filling,
       Finishing, Removing
    <3>. QED  BY <3>1, ShutKeeps
  <2>3. CASE session' = session /\ at'[h] = "over" /\ got'[h] = None /\ crossed' = crossed
    <3>1. Calm(h)
      BY <2>1, <2>3, RequestIs DEF Calm, Exists, Found, Working, Messaging, Confirming, Adding, Binding, Placing, Filling,
       Finishing, Removing
    <3>. QED  BY <3>1, CalmKeeps
  <2>. QED  BY <1>4, <2>2, <2>3, SilenceIs
<1>5. CASE Close(h)
  BY <1>5, CloseCrosses
<1>6. CASE Remove(h)
  BY <1>6, RemoveCrosses
<1>7. CASE Wipe(h)
  <2>1. Calm(h)
    BY <1>7, WipeIs, RequestIs DEF Steps, Calm, Exists, Found, Working, Messaging, Confirming, Adding, Binding, Placing, Filling,
       Finishing, Removing
  <2>. QED  BY <2>1, CalmKeeps
<1>8. CASE Unproject(h) \/ Drop(h)
  BY <1>8, UnprojectCrosses, DropCrosses
<1>. QED  BY <1>1, <1>2, <1>3, <1>4, <1>5, <1>6, <1>7, <1>8 DEF Administer

LEMMA CrossedStep ==
  ASSUME Base, Crossed, [Next]_vars
  PROVE  Crossed'
<1>1. CASE UNCHANGED vars
  <2>1. /\ session' = session
        /\ UNCHANGED <<project, bound, requestVars, historyVars>>
    BY <1>1 DEF vars, rowVars
  <2>. QED  BY <2>1, StillKeeps
<1>2. ASSUME NEW h \in Handlers, ReadRow(h) PROVE Crossed'
  <2>1. /\ MoveOf(h) /\ at[h] \in DOMAIN AfterRead /\ at'[h] = AfterRead[at[h]] /\ seen'[h] = session
        /\ got'[h] = got[h] /\ UNCHANGED <<session, project, bound, crossed, unsettled>>
    BY <1>2, ReadRowIs DEF Quiet, Steps, rowVars, historyVars
  <2>2. session.id = 0 => session.proj = None
    BY AbsentIs DEF Base, Shape, RowShape, SessionOK
  <2>3. Calm(h)
    BY <2>1, <2>2 DEF AfterRead, Calm, Exists, Found, Working, Messaging, Confirming, Adding, Binding, Placing, Filling,
       Finishing, Removing
  <2>. QED  BY <2>3, CalmKeeps
<1>3. ASSUME NEW h \in Handlers, Rejects(h) PROVE Crossed'
  <2>1. Calm(h)
    BY <1>3, RejectsIs DEF Steps, rowVars, Calm, Exists, Found, Working, Messaging, Confirming, Adding, Binding, Placing, Filling,
       Finishing, Removing
  <2>. QED  BY <2>1, CalmKeeps
<1>4. CASE Expire
  BY <1>4, ExpireIs, StillKeeps
<1>. QED  BY <1>1, <1>2, <1>3, <1>4, MessageCrosses, ConfigureCrosses, EventCrosses, ExecutionCrosses,
             AdministerCrosses DEF Next

LEMMA CrossedInit ==
  ASSUME Init
  PROVE  Crossed
<1>1. /\ \A h \in Handlers : at[h] \in {"off", "before"} /\ got[h] = None
      /\ session.proj = bound
  <2>1. PICK p \in Projects \cup {None} :
          /\ session = IF p = None THEN Absent
                       ELSE [Absent EXCEPT !.id = 1, !.proj = p, !.env = p, !.mode = "active"]
          /\ bound = p /\ at = [h \in Handlers |-> IF h = p THEN "before" ELSE "off"]
    BY DEF Init
  <2>2. session.proj = p
    BY <2>1, AbsentIs DEF Absent
  <2>. QED  BY <2>1, <2>2 DEF Init
<1>2. Unbinds \subseteq Handlers
  BY DEF Handlers, Requests
<1>. QED  BY <1>1, <1>2 DEF Crossed, CrossedWhileWorking, NamesBound, ClosesAtRest, StaleAtRest, Stale, Working

-----------------------------------------------------------------------------
(* What a message finds in the session: what a step keeps.                  *)

Named == SettledFor /\ SessionIsBound /\ RefusedWhileUnsettled

Meant == Messaging \cup {"source"}

\* A step that settles nothing for a message under way, writes into the session
\* the project it works for, if any, and has no message refused without a cause.
Bears(h) ==
  /\ MoveOf(h)
  /\ crossed \subseteq crossed' /\ unsettled \subseteq unsettled' /\ hasty \subseteq hasty'
  /\ \A p \in Settling' : p \in Settling \/ (p \in Projects /\ project[p] = "none")
  /\ at'[h] \in Meant => \/ at[h] \in Meant /\ got'[h] = got[h]
                         \/ h \in hasty' \/ got'[h] \notin Settling'
  /\ bound' \in {bound, None} \/ ~Tied(bound)'
  /\ session'.proj # session.proj => \/ session'.proj = got[h] /\ Working(h) /\ Exists(got[h])
                                     \/ h \in Requests /\ session.proj # bound'
  /\ h \in Projects /\ Tied(h)' => Tied(h) \/ h \in unsettled' \/ session'.proj = h \/ h # bound'
                                   \/ crossed # {}
  /\ h \in Mentions /\ at'[h] = "refused" => at[h] = "refused" \/ h \in hasty' \/ crossed' # {}

LEMMA BearsKeeps ==
  ASSUME Base, Crossed, Named, NEW h \in Handlers, Bears(h)
  PROVE  Named'
<1>1. SettledFor'
  <2>1. SUFFICES ASSUME NEW m \in Mentions, at'[m] \in Meant, m \notin hasty'
                 PROVE  got'[m] \notin Settling'
    BY DEF SettledFor, Meant
  <2>2. m \in Handlers /\ m \notin Projects /\ m \notin hasty
    BY <2>1, RequestIs DEF Requests, Bears
  <2>3. CASE at[m] \in Meant /\ got'[m] = got[m]
    <3>1. got[m] \notin Settling
      BY <2>2, <2>3 DEF Named, SettledFor, Meant
    <3>2. \A p \in Projects : project[p] = "none" => got[m] # p
      BY <2>2 DEF Base, Unmade
    <3>. QED  BY <2>3, <3>1, <3>2 DEF Bears
  <2>. QED  BY <2>1, <2>2, <2>3 DEF Bears, MoveOf
<1>2. SessionIsBound'
  <2>1. SUFFICES ASSUME crossed' = {}, bound' \notin unsettled' \cup {None}, Tied(bound)'
                 PROVE  session'.proj = bound'
    BY DEF SessionIsBound, Tied
  <2>2. PICK b : b = bound
    OBVIOUS
  <2>3. bound' = b /\ crossed = {} /\ b \notin unsettled \cup {None} /\ b \in Projects /\ b \in Handlers
    BY <2>1, <2>2, RowsAre DEF Bears, Handlers
  <2>4. Tied(b)'
    BY <2>1, <2>3 DEF Tied
  <2>5. CASE Tied(b)
    <3>1. session.proj = b
      BY <2>2, <2>3, <2>5 DEF Named, SessionIsBound
    <3>2. CASE session'.proj = got[h] /\ Working(h) /\ Exists(got[h])
      <4>1. got[h] \in Projects
        BY <3>2 DEF Working, Base, Shape, RequestShape
      <4>2. got[h] \notin Parting
        BY <2>3, <3>2 DEF Crossed, CrossedWhileWorking
      <4>. QED  BY <2>2, <2>3, <3>2, <4>1, <4>2 DEF Parting
    <3>. QED  BY <2>3, <3>1, <3>2 DEF Bears
  <2>6. CASE ~Tied(b)
    <3>1. h = b
      BY <2>3, <2>4, <2>6 DEF Bears, MoveOf, Tied
    <3>. QED  BY <2>1, <2>3, <2>4, <2>6, <3>1 DEF Bears
  <2>. QED  BY <2>5, <2>6
<1>3. RefusedWhileUnsettled'
  <2>1. ASSUME NEW m \in Mentions, at'[m] = "refused" PROVE m \in hasty' \/ crossed' # {}
    <3>1. m \in Handlers
      BY DEF Handlers, Requests
    <3>2. at[m] = "refused" => m \in hasty' \/ crossed' # {}
      BY DEF Bears, Named, RefusedWhileUnsettled
    <3>. QED  BY <2>1, <3>1, <3>2 DEF Bears, MoveOf
  <2>. QED  BY <2>1 DEF RefusedWhileUnsettled
<1>. QED  BY <1>1, <1>2, <1>3 DEF Named

\* A request of no project's binding.
LEMMA RequestBears ==
  ASSUME Base, NEW h \in Requests, MoveOf(h),
         crossed \subseteq crossed', unsettled' = unsettled, hasty \subseteq hasty',
         bound' \in {bound, None},
         at'[h] \in Meant => \/ at[h] \in Meant /\ got'[h] = got[h]
                             \/ h \in hasty' \/ got'[h] \notin Settling,
         \/ session'.proj = session.proj \/ session.proj # bound'
         \/ session'.proj = got[h] /\ Working(h) /\ Exists(got[h]),
         at'[h] = "refused" => at[h] = "refused" \/ h \in hasty' \/ crossed' # {} \/ h \notin Mentions
  PROVE  Bears(h)
<1>1. h \in Handlers /\ h \notin Projects
  BY RequestIs
<1>2. Settling' = Settling
  <2>1. \A p \in Projects : at'[p] = at[p]
    BY <1>1 DEF MoveOf, Handlers
  <2>. QED  BY <2>1 DEF Settling
<1>. QED  BY <1>1, <1>2 DEF Bears

\* A project's own binding.
LEMMA BindingBears ==
  ASSUME Base, NEW h \in Projects, MoveOf(h), at[h] \notin Waiting \/ project[h] = "none",
         UNCHANGED <<bound, crossed, hasty>>, unsettled \subseteq unsettled', unsettled' \subseteq unsettled \cup {h},
         at'[h] \notin Meant,
         \/ session'.proj = session.proj
         \/ session'.proj = got[h] /\ Working(h) /\ Exists(got[h]),
         Tied(h)' => Tied(h) \/ h \in unsettled' \/ session'.proj = h \/ h # bound \/ crossed # {}
  PROVE  Bears(h)
<1>1. h \in Handlers /\ h \notin Mentions
  BY RequestIs DEF Handlers, Requests
<1>2. \A p \in Settling' : p \in Settling \/ (p \in Projects /\ project[p] = "none")
  <2>1. \A p \in Projects : p \in Handlers
    BY DEF Handlers
  <2>. QED  BY <2>1 DEF MoveOf, Settling
<1>. QED  BY <1>1, <1>2 DEF Bears

LEMMA AsksBears ==
  ASSUME Base, NEW h \in Requests, NEW to \in {"lookup", "over", "submit"}, at[h] # "refused",
         NEW md \in {"pending_config", "active"},
         \/ Asks(h, None, md, to)
         \/ Asks(h, got[h], md, to) /\ Working(h) /\ h \notin Mentions
  PROVE  Bears(h)
<1>1. /\ MoveOf(h) /\ at'[h] \in {"lookup", "over", "submit", "refused"}
      /\ \/ session'.proj = session.proj
         \/ session'.proj = got[h] /\ Working(h) /\ Exists(got[h])
      /\ at'[h] = "refused" => h \notin Mentions
  BY DEF Asks, GotOrCreated
<1>2. UNCHANGED <<project, bound, crossed, unsettled, hasty>>
  BY DEF Asks, Others, historyVars
<1>. QED  BY <1>1, <1>2, RequestBears DEF Meant, Messaging

\* A message that nothing crossed finds the session bound to its project.
LEMMA EnterBears ==
  ASSUME Base, Crossed, Named, NEW m \in Handlers, Enter(m)
  PROVE  Bears(m)
<1>1. m \in Mentions /\ m \in Requests /\ at[m] = "entered" /\ got[m] \in Projects /\ Working(m)
  BY EnterIs, NoneIs DEF Requests, Working, Messaging
<1>2. /\ MoveOf(m) /\ at'[m] \in {"source", "over", "refused"}
      /\ at'[m] = "source" => got'[m] = got[m]
      /\ session'.proj \in {session.proj, got[m]}
      /\ session'.proj # session.proj => Exists(got[m])
      /\ at'[m] = "refused" => got[m] # session.proj /\ Exists(got[m])
      /\ UNCHANGED <<project, bound, crossed, unsettled, hasty>>
  BY EnterIs DEF Asks, GotOrCreated, Others, historyVars
<1>3. ASSUME at'[m] = "refused", m \notin hasty, crossed = {} PROVE FALSE
  <2>1. got[m] \notin Settling
    BY <1>1, <1>3 DEF Named, SettledFor, Messaging
  <2>2. got[m] \notin Parting
    BY <1>1, <1>3 DEF Crossed, CrossedWhileWorking
  <2>3. got[m] = bound
    BY <1>1, <1>2, <1>3, <2>2 DEF Parting
  <2>4. bound \notin unsettled \cup {None} /\ at[bound] \in Waiting
    BY <1>1, <2>1, <2>3, NoneIs DEF Settling
  <2>5. session.proj = bound
    BY <1>3, <2>4 DEF Named, SessionIsBound, Tied
  <2>. QED  BY <1>2, <1>3, <2>3, <2>5
<1>. QED  BY <1>1, <1>2, <1>3, RequestBears DEF Meant, Messaging

LEMMA MessageBears ==
  ASSUME Base, Crossed, Named, NEW m \in Handlers, Message(m)
  PROVE  Bears(m)
<1>1. CASE Arrive(m) \/ ReadPolicy(m) \/ FindEnv(m) \/ Effective(m) \/ Source(m)
  <2>1. /\ m \in Requests /\ MoveOf(m)
        /\ UNCHANGED <<session, bound, crossed, unsettled, hasty>> /\ at'[m] # "refused"
        /\ at'[m] \in Meant => at[m] \in Meant /\ got'[m] = got[m]
    <3>1. CASE Arrive(m)
      BY <3>1, ArriveIs DEF Quiet, Steps, rowVars, historyVars, Requests, Meant, Messaging
    <3>2. CASE ReadPolicy(m)
      BY <3>2, ReadPolicyIs DEF Quiet, Steps, rowVars, historyVars, Requests, Meant, Messaging
    <3>3. CASE FindEnv(m)
      BY <3>3, FindEnvIs DEF Quiet, Steps, rowVars, historyVars, Requests, Meant, Messaging
    <3>4. CASE Effective(m)
      BY <3>4, EffectiveIs DEF Quiet, Steps, rowVars, historyVars, Requests, Meant, Messaging
    <3>5. CASE Source(m)
      BY <3>5, SourceIs DEF Quiet, Steps, rowVars, historyVars, Requests, Meant, Messaging
    <3>. QED  BY <1>1, <3>1, <3>2, <3>3, <3>4, <3>5
  <2>. QED  BY <2>1, RequestBears
<1>2. CASE Tag(m) \/ Pend(m)
  <2>1. m \in Requests /\ at[m] # "refused"
        /\ \E to \in {"lookup", "over", "submit"} : Asks(m, None, "pending_config", to)
    BY <1>2, TagIs, PendIs DEF Requests
  <2>. QED  BY <2>1, AsksBears
<1>3. CASE LookUp(m)
  <2>1. /\ m \in Requests /\ MoveOf(m) /\ UNCHANGED <<session, bound, unsettled>>
        /\ crossed \subseteq crossed' /\ at'[m] \in {"ask", "policy"} /\ got'[m] = bound
        /\ hasty' = IF bound \in Settling THEN hasty \cup {m} ELSE hasty
    BY <1>3, LookUpIs DEF Quiet, Steps, rowVars, Requests
  <2>2. m \in hasty' \/ got'[m] \notin Settling
    BY <2>1
  <2>3. hasty \subseteq hasty'
    BY <2>1
  <2>. QED  BY <2>1, <2>2, <2>3, RequestBears
<1>4. CASE MakePolicy(m)
  <2>1. /\ m \in Requests /\ MoveOf(m) /\ UNCHANGED <<session, bound, crossed, unsettled, hasty>>
        /\ at[m] \in Meant /\ at'[m] \in {"effective", "find"} /\ got'[m] = got[m]
    BY <1>4, MakePolicyIs DEF Steps, historyVars, Requests, Meant, Messaging
  <2>. QED  BY <2>1, RequestBears
<1>5. CASE Enter(m)
  BY <1>5, EnterBears
<1>. QED  BY <1>1, <1>2, <1>3, <1>4, <1>5 DEF Message

LEMMA ConfigureBears ==
  ASSUME Base, Crossed, Named, NEW p \in Handlers, Configure(p)
  PROVE  Bears(p)
<1>1. CASE Begin(p) \/ Check(p)
  <2>1. /\ p \in Projects /\ MoveOf(p) /\ project[p] = "none"
        /\ UNCHANGED <<session, bound, crossed, unsettled, hasty>> /\ at'[p] \in {"check", "create", "over"}
    BY <1>1, BeginIs, CheckIs DEF Quiet, Steps, rowVars, historyVars
  <2>2. p # bound
    BY <2>1, NoneIs DEF Base, RowsOK, Exists
  <2>. QED  BY <2>1, <2>2, BindingBears DEF Meant, Messaging
<1>2. CASE CreateProject(p)
  <2>1. /\ p \in Projects /\ MoveOf(p) /\ project[p] = "none" /\ at[p] = "create"
        /\ UNCHANGED <<session, crossed, unsettled, hasty>>
        /\ \/ bound' = p /\ at'[p] = "environment"
           \/ bound' = bound /\ at'[p] = "over"
    BY <1>2, CreateProjectIs DEF historyVars
  <2>2. p # bound
    BY <2>1, NoneIs DEF Base, RowsOK, Exists
  <2>3. CASE bound' = p /\ at'[p] = "environment"
    <3>1. ~Tied(bound)'
      BY <2>3 DEF Tied, Waiting, Finishing
    <3>2. ~Tied(p)'
      BY <2>3 DEF Tied, Waiting, Finishing
    <3>3. \A q \in Settling' : q \in Settling
      <4>1. \A q \in Projects : q \in Handlers
        BY DEF Handlers
      <4>. QED  BY <2>1, <4>1 DEF MoveOf, Settling, Waiting
    <3>4. p \notin Mentions
      BY <2>1, RequestIs DEF Requests
    <3>. QED  BY <2>1, <2>3, <3>1, <3>2, <3>3, <3>4 DEF Bears, Meant, Messaging
  <2>4. CASE bound' = bound /\ at'[p] = "over"
    BY <2>1, <2>2, <2>4, BindingBears DEF Meant, Messaging
  <2>. QED  BY <2>1, <2>3, <2>4
<1>3. CASE CreateEnv(p) \/ Activate(p)
  <2>1. /\ p \in Projects /\ MoveOf(p) /\ at[p] \notin Waiting
        /\ UNCHANGED <<session, bound, crossed, hasty>>
        /\ \/ at'[p] \in {"activate", "bind"} /\ unsettled' = unsettled
           \/ at'[p] = "over" /\ unsettled' = unsettled \cup {p}
    BY <1>3, CreateEnvIs, ActivateIs DEF Steps, Waiting
  <2>. QED  BY <2>1, BindingBears DEF Meant, Messaging, Tied, Waiting, Finishing
<1>4. CASE ReadPage(p)
  <2>1. /\ p \in Projects /\ MoveOf(p) /\ at[p] = "rebind" /\ at'[p] = "rebinding"
        /\ UNCHANGED <<session, bound, crossed, unsettled, hasty>>
    BY <1>4, ReadPageIs DEF Quiet, Steps, rowVars, historyVars
  <2>. QED  BY <2>1, BindingBears DEF Meant, Messaging, Tied, Waiting, Finishing
<1>5. CASE Bind(p)
  <2>1. /\ p \in Projects /\ MoveOf(p) /\ at[p] \in {"binding", "rebinding"} /\ got[p] = p /\ Working(p)
        /\ UNCHANGED <<bound, crossed, hasty>>
        /\ \/ at'[p] = (IF at[p] = "binding" THEN "make" ELSE "remake") /\ session' = session
              /\ unsettled' = unsettled
           \/ /\ at'[p] \in {"allow", "over"} /\ session'.proj = p /\ unsettled' = unsettled
              /\ session.proj # p => Exists(p)
           \/ at'[p] = "over" /\ session' = session /\ unsettled' = unsettled \cup {p}
    BY <1>5, BindIs, NoneIs DEF Steps, Working, Binding, Finishing
  <2>. QED  BY <2>1, BindingBears DEF Meant, Messaging, Tied, Waiting, Finishing
<1>6. CASE Make(p)
  <2>1. /\ p \in Projects /\ got[p] = p /\ p # None /\ at[p] \in {"making", "remaking"} /\ Working(p)
        /\ GotOrCreated(p, p, "active", IF at[p] = "making" THEN "allow" ELSE "over")
        /\ unsettled' = (IF at'[p] = "refused" \/ (at[p] = "making" /\ at'[p] = "over")
                         THEN unsettled \cup {p} ELSE unsettled)
        /\ UNCHANGED <<project, bound, crossed, hasty>>
    BY <1>6, MakeIs, NoneIs DEF Working, Binding, Filling, Finishing
  <2>2. /\ MoveOf(p) /\ session'.proj \in {session.proj, p}
        /\ session'.proj # session.proj => Exists(p)
        /\ at'[p] \in {"allow", "over", "refused"}
        /\ at[p] = "making" /\ at'[p] = "allow" /\ seen[p].proj = None => session'.proj = p
    BY <2>1 DEF GotOrCreated
  <2>. QED  BY <2>1, <2>2, BindingBears DEF Meant, Messaging, Tied, Waiting, Finishing
<1>7. CASE Allow(p)
  <2>1. /\ p \in Projects /\ MoveOf(p) /\ at[p] = "allow"
        /\ UNCHANGED <<session, bound, crossed, hasty>> /\ at'[p] \in {"over", "rebind"}
        /\ unsettled' \in {unsettled, unsettled \cup {p}}
    BY <1>7, AllowIs DEF Steps
  <2>. QED  BY <2>1, BindingBears DEF Meant, Messaging, Tied, Waiting, Finishing
<1>. QED  BY <1>1, <1>2, <1>3, <1>4, <1>5, <1>6, <1>7 DEF Configure

LEMMA EventBears ==
  ASSUME Base, NEW h \in Handlers, Event(h)
  PROVE  Bears(h)
<1>1. CASE Reopen(h)
  <2>1. /\ h \in Requests /\ h \notin Mentions /\ Asks(h, got[h], "active", "submit") /\ Working(h)
        /\ at[h] = "confirmed"
    BY <1>1, ReopenIs, NoneIs, BindingAssumption DEF Requests, Working, Confirming
  <2>. QED  BY <2>1, AsksBears
<1>2. CASE Noticed(h)
  <2>1. h \in Requests /\ at[h] = "noticed" /\ Asks(h, None, "pending_config", "over")
    BY <1>2, NoticedIs
  <2>. QED  BY <2>1, AsksBears
<1>3. CASE Added(h)
  <2>1. h \in Requests /\ h \notin Mentions /\ at[h] = "added"
    BY <1>3, AddedIs, BindingAssumption DEF Requests
  <2>2. CASE Asks(h, None, "pending_config", "over")
    BY <2>1, <2>2, AsksBears
  <2>3. CASE got[h] \in Projects /\ Asks(h, got[h], "active", "over")
    <3>1. Working(h)
      BY <2>1, <2>3, NoneIs DEF Working, Adding
    <3>. QED  BY <2>1, <2>3, <3>1, AsksBears
  <2>. QED  BY <1>3, <2>2, <2>3, AddedIs
<1>4. CASE Confirm(h) \/ Notice(h) \/ Add(h) \/ Select(h) \/ Private(h) \/ Edit(h) \/ Edited(h)
  <2>1. /\ h \in Requests /\ MoveOf(h) /\ session'.proj = session.proj
        /\ UNCHANGED <<bound, unsettled, hasty>> /\ crossed \subseteq crossed'
        /\ at'[h] \notin Meant /\ (at'[h] = "refused" => h \notin Mentions)
    <3>1. CASE Confirm(h)
      BY <3>1, ConfirmIs DEF Quiet, Steps, rowVars, Requests, Meant, Messaging
    <3>3. CASE Notice(h)
      BY <3>3, NoticeIs DEF Quiet, Steps, rowVars, historyVars, Meant, Messaging
    <3>4. CASE Add(h)
      BY <3>4, AddIs DEF Quiet, Steps, rowVars, Requests, Meant, Messaging
    <3>5. CASE Select(h)
      BY <3>5, SelectIs DEF Quiet, Steps, rowVars, historyVars, Meant, Messaging
    <3>6. CASE Private(h)
      <4>1. h \in Privates
        BY <3>6, PrivateIs DEF Base, Kind
      <4>. QED  BY <3>6, <4>1, PrivateIs, BindingAssumption DEF Steps, historyVars, Meant, Messaging
    <3>7. CASE Edit(h)
      BY <3>7, EditIs DEF Steps, historyVars, Meant, Messaging
    <3>8. CASE Edited(h)
      BY <3>8, EditedIs DEF Steps, Meant, Messaging
    <3>. QED  BY <1>4, <3>1, <3>3, <3>4, <3>5, <3>6, <3>7, <3>8
  <2>. QED  BY <2>1, RequestBears
<1>. QED  BY <1>1, <1>2, <1>3, <1>4 DEF Event

LEMMA ExecutionBears ==
  ASSUME Base, NEW c \in Handlers, Execution(c)
  PROVE  Bears(c)
<1>1. Executes(c)
  BY ExecutionIs
<1>. QED  BY <1>1, RequestBears DEF Executes, Steps, Submits, Meant, Messaging

LEMMA AdministerBears ==
  ASSUME Base, NEW h \in Handlers, Administer(h), ~Drop(h)
  PROVE  Bears(h)
<1>1. CASE Unbind(h) \/ Disable(h) \/ Release(h) \/ Silence(h) \/ Close(h) \/ Remove(h) \/ Wipe(h)
  <2>1. /\ h \in Requests /\ MoveOf(h) /\ session'.proj = session.proj
        /\ UNCHANGED <<unsettled, hasty>> /\ bound' \in {bound, None} /\ crossed \subseteq crossed'
        /\ at'[h] \notin Meant \cup {"refused"}
    <3>1. CASE Unbind(h)
      BY <3>1, UnbindIs DEF Quiet, Steps, rowVars, historyVars, Meant, Messaging
    <3>2. CASE Disable(h)
      BY <3>2, DisableIs DEF Quiet, Steps, rowVars, Meant, Messaging
    <3>3. CASE Release(h)
      BY <3>3, ReleaseIs DEF Steps, rowVars, historyVars, Requests, Meant, Messaging
    <3>4. CASE Silence(h)
      BY <3>4, SilenceIs DEF Steps, Requests, Meant, Messaging
    <3>5. CASE Close(h)
      BY <3>5, CloseIs DEF Steps, historyVars, Requests, Meant, Messaging
    <3>6. CASE Remove(h)
      BY <3>6, RemoveIs DEF Quiet, Steps, rowVars, historyVars, Meant, Messaging
    <3>7. CASE Wipe(h)
      BY <3>7, WipeIs DEF Steps, Meant, Messaging
    <3>. QED  BY <1>1, <3>1, <3>2, <3>3, <3>4, <3>5, <3>6, <3>7
  <2>. QED  BY <2>1, RequestBears
<1>2. CASE Unproject(h)
  <2>1. PICK p : p = got[h]
    OBVIOUS
  <2>2. /\ h \in Requests /\ MoveOf(h) /\ p \in Projects
        /\ UNCHANGED <<crossed, unsettled, hasty>> /\ at'[h] \in {"over", "drop"}
        /\ \/ session' = session /\ bound' = bound
           \/ /\ bound' = (IF bound = p THEN None ELSE bound)
              /\ session'.proj = (IF session.proj = p THEN None ELSE session.proj)
    BY <1>2, <2>1, UnprojectIs DEF Steps, historyVars
  <2>3. p # None
    BY <2>2, NoneIs
  <2>. QED  BY <2>2, <2>3, RequestBears DEF Meant, Messaging
<1>. QED  BY <1>1, <1>2 DEF Administer

\* A removal unsettles the binding, and whoever is under way.
LEMMA DropNames ==
  ASSUME Base, Named, NEW d \in Handlers, Drop(d)
  PROVE  Named'
<1>1. /\ d \in Requests /\ MoveOf(d) /\ at'[d] = "over"
      /\ unsettled' = unsettled \cup ({bound} \ {None})
      /\ hasty' = hasty \cup {m \in Mentions : at[m] \notin Waiting}
      /\ UNCHANGED <<bound, crossed>>
  BY DropIs DEF Steps
<1>2. SettledFor'
  <2>1. ASSUME NEW m \in Mentions, at'[m] \in Meant PROVE m \in hasty'
    <3>1. m \in Handlers /\ m # d
      BY <1>1, <2>1 DEF Handlers, Requests, Meant, Messaging
    <3>. QED  BY <1>1, <2>1, <3>1 DEF MoveOf, Meant, Messaging, Waiting
  <2>. QED  BY <2>1 DEF SettledFor, Meant
<1>3. SessionIsBound'
  BY <1>1 DEF SessionIsBound
<1>4. RefusedWhileUnsettled'
  <2>1. \A m \in Mentions : m \in Handlers
    BY DEF Handlers, Requests
  <2>. QED  BY <1>1, <2>1 DEF RefusedWhileUnsettled, Named, MoveOf
<1>. QED  BY <1>2, <1>3, <1>4 DEF Named

LEMMA NamedStill ==
  ASSUME Named, session'.proj = session.proj, UNCHANGED <<bound, requestVars, historyVars>>
  PROVE  Named'
<1>1. Settling' = Settling
  BY DEF Settling, requestVars, historyVars
<1>. QED  BY <1>1 DEF Named, SettledFor, SessionIsBound, RefusedWhileUnsettled, Tied, requestVars, historyVars

LEMMA NamedStep ==
  ASSUME Base, Crossed, Named, [Next]_vars
  PROVE  Named'
<1>1. CASE UNCHANGED vars
  <2>1. session' = session /\ UNCHANGED <<bound, requestVars, historyVars>>
    BY <1>1 DEF vars, rowVars
  <2>. QED  BY <2>1, NamedStill
<1>2. ASSUME NEW h \in Handlers, ReadRow(h) PROVE Named'
  <2>1. /\ MoveOf(h) /\ at[h] \in DOMAIN AfterRead /\ at'[h] = AfterRead[at[h]] /\ seen'[h] = session
        /\ got'[h] = got[h] /\ UNCHANGED <<session, project, bound, crossed, unsettled, hasty>>
        /\ Kind(h) /\ at[h] \notin Waiting /\ at'[h] # "refused"
    BY <1>2, ReadRowIs DEF Quiet, Steps, rowVars, historyVars, AfterRead, Base, Waiting
  <2>2. CASE h \in Requests
    <3>1. at'[h] \in Meant => at[h] \in Meant /\ got'[h] = got[h]
      BY <2>1 DEF AfterRead, Meant, Messaging
    <3>. QED  BY <2>1, <2>2, <3>1, RequestBears, BearsKeeps
  <2>3. CASE h \in Projects
    <3>1. at'[h] \notin Meant
      <4>1. h \notin Mentions
        BY <2>3, RequestIs DEF Requests
      <4>. QED  BY <2>1, <4>1 DEF AfterRead, Kind, Meant, Messaging
    <3>2. ASSUME Tied(h)', ~Tied(h), h = bound, h \notin unsettled, crossed = {} PROVE session.proj = h
      <4>1. at[h] = "make" /\ session.proj # None
        BY <2>1, <3>2 DEF AfterRead, Tied, Waiting, Finishing
      <4>2. Found(bound) /\ bound # None
        BY <2>3, <3>2, <4>1, NoneIs DEF Found, Placing
      <4>. QED  BY <3>2, <4>1, <4>2 DEF Crossed, NamesBound
    <3>3. Tied(h)' => Tied(h) \/ h \in unsettled' \/ session'.proj = h \/ h # bound \/ crossed # {}
      BY <2>1, <3>2
    <3>. QED  BY <2>1, <2>3, <3>1, <3>3, BindingBears, BearsKeeps
  <2>. QED  BY <2>2, <2>3 DEF Handlers
<1>3. ASSUME NEW h \in Handlers, Rejects(h) PROVE Named'
  <2>1. /\ MoveOf(h) /\ (at[h] \notin Waiting \/ h \notin Projects) /\ at'[h] = "over"
        /\ UNCHANGED <<session, bound, crossed, hasty>>
        /\ unsettled' = (IF h \in Projects THEN unsettled \cup {h} ELSE unsettled)
    BY <1>3, RejectsIs DEF Steps, rowVars
  <2>2. CASE h \in Requests
    BY <2>1, <2>2, RequestIs, RequestBears, BearsKeeps DEF Meant, Messaging
  <2>3. CASE h \in Projects
    BY <2>1, <2>3, BindingBears, BearsKeeps DEF Meant, Messaging
  <2>. QED  BY <2>2, <2>3 DEF Handlers
<1>4. CASE Expire
  BY <1>4, ExpireIs, NamedStill
<1>5. ASSUME NEW h \in Handlers, Execution(h) PROVE Named'
  BY <1>5, ExecutionBears, BearsKeeps
<1>. QED  BY <1>1, <1>2, <1>3, <1>4, <1>5, MessageBears, ConfigureBears, EventBears, AdministerBears,
             DropNames, BearsKeeps DEF Next

LEMMA NamedInit ==
  ASSUME Init
  PROVE  Named
<1>1. /\ \A h \in Handlers : at[h] \in {"off", "before"}
      /\ session.proj = bound
  <2>1. PICK p \in Projects \cup {None} :
          /\ session = IF p = None THEN Absent
                       ELSE [Absent EXCEPT !.id = 1, !.proj = p, !.env = p, !.mode = "active"]
          /\ bound = p /\ at = [h \in Handlers |-> IF h = p THEN "before" ELSE "off"]
    BY DEF Init
  <2>2. session.proj = p
    BY <2>1, AbsentIs DEF Absent
  <2>. QED  BY <2>1, <2>2
<1>2. Mentions \subseteq Handlers
  BY DEF Handlers, Requests
<1>. QED  BY <1>1, <1>2 DEF Named, SettledFor, SessionIsBound, RefusedWhileUnsettled, Messaging

-----------------------------------------------------------------------------
(* Which environment a message comes to work in: what a step keeps.         *)

Served == HasEnv /\ LatestIsBound /\ InItsEnvironment /\ RunsInItsEnvironment

Known  == {"find", "enter", "entered", "source"}
Unsure == {"default", "effective"}

\* What becomes of the environment a message h works in.
Carries(h) ==
  \/ at'[h] \notin Known \cup Unsure \cup {"handed"}
  \/ /\ at[h] \in Known /\ at'[h] \in Known \cup {"handed"}
     /\ got'[h] = got[h] /\ env'[h] = env[h] /\ (at'[h] = "handed" => Exists(got[h]))
  \/ at[h] \in Unsure /\ at'[h] \in Known \cup Unsure /\ got'[h] = got[h]
  \/ /\ at'[h] \in Known \cup Unsure /\ got'[h] = got[h]
     /\ Steady(h) => at'[h] \in Known /\ env'[h] = got[h]

\* A step that takes no environment from the bound project, and gives a message
\* none but its own.
Serves(h) ==
  /\ MoveOf(h)
  /\ crossed \subseteq crossed' /\ unsettled \subseteq unsettled' /\ hasty \subseteq hasty'
  /\ outdated => outdated'
  /\ \A p \in Projects : Exists(p)' => Exists(p) \/ project[p] = "none"
  /\ bound' \in {bound, None} \/ at[bound]' = "environment"
  /\ bound \in envs => bound \in envs' \/ bound' = None
  /\ h \in Projects /\ h = bound =>
       /\ at[h] = "environment" => at'[h] = "environment" \/ h \in unsettled' \/ h \in envs'
       /\ Allowed(h)' => Allowed(h) \/ h \in unsettled' \/ at[h] = "allow"
  /\ h \in Mentions => Carries(h)

\* Without a new policy, the latest stays.
LEMMA LatestKept ==
  ASSUME Base, Served, NEW h \in Handlers, Serves(h), at[h] # "allow", policies' = policies
  PROVE  LatestIsBound'
<1>1. SUFFICES ASSUME bound' \notin unsettled' \cup {None}, Allowed(bound)', ~outdated'
               PROVE  /\ Len(policies) # 0
                      /\ policies[Len(policies)].proj = bound' /\ policies[Len(policies)].env = bound'
  BY DEF LatestIsBound
<1>2. PICK b : b = bound
  OBVIOUS
<1>3. bound' = b
  BY <1>1, <1>2 DEF Serves, Allowed, Waiting, Finishing
<1>4. b \in Projects /\ b \in Handlers /\ b \notin unsettled /\ Allowed(b)' /\ ~outdated
  BY <1>1, <1>2, <1>3, RowsAre DEF Serves, Handlers, Allowed
<1>5. Allowed(b)
  BY <1>1, <1>2, <1>3, <1>4 DEF Serves, MoveOf, Allowed
<1>. QED  BY <1>1, <1>2, <1>3, <1>4, <1>5 DEF Served, LatestIsBound

LEMMA ServesKeeps ==
  ASSUME Base, Served, NEW h \in Handlers, Serves(h), LatestIsBound'
  PROVE  Served'
<1>1. HasEnv'
  <2>1. SUFFICES ASSUME bound' \notin unsettled' \cup {None}, at[bound]' # "environment"
                 PROVE  bound' \in envs'
    BY DEF HasEnv
  <2>2. PICK b : b = bound
    OBVIOUS
  <2>3. bound' = b /\ b \in Projects /\ b \in Handlers /\ b \notin unsettled \cup {None}
    BY <2>1, <2>2, RowsAre DEF Serves, Handlers
  <2>4. at'[b] # "environment"
    BY <2>1, <2>3
  <2>5. CASE at[b] # "environment"
    BY <2>1, <2>2, <2>3, <2>5 DEF Serves, Served, HasEnv
  <2>6. CASE at[b] = "environment"
    <3>1. b = h
      BY <2>3, <2>4, <2>6 DEF Serves, MoveOf
    <3>. QED  BY <2>1, <2>2, <2>3, <2>4, <2>6, <3>1 DEF Serves
  <2>. QED  BY <2>5, <2>6
<1>2. ASSUME NEW m \in Mentions, got'[m] = got[m], Steady(m)' PROVE Steady(m)
  <2>1. m \in Handlers /\ m \notin Projects
    BY RequestIs DEF Requests
  <2>2. got[m] \in Projects \cup {None} /\ (\A p \in Projects : project[p] = "none" => got[m] # p)
    BY <2>1 DEF Base, Shape, RequestShape, Unmade
  <2>3. PICK p \in Projects \cup {None} : p = got[m]
    BY <2>2
  <2>4. Exists(p)' /\ (project[p] = "none" => p \notin Projects)
    BY <1>2, <2>2, <2>3 DEF Steady, Exists
  <2>5. Exists(p)
    BY <2>4 DEF Serves, Exists
  <2>. QED  BY <1>2, <2>3, <2>5 DEF Steady, Serves
<1>3. InItsEnvironment'
  <2>1. SUFFICES ASSUME NEW m \in Mentions, Steady(m)'
                 PROVE  at'[m] \notin Unsure /\ (at'[m] \in Known => env'[m] = got'[m])
    BY DEF InItsEnvironment, Unsure, Known
  <2>2. m \in Handlers
    BY DEF Handlers, Requests
  <2>3. Steady(m) => at[m] \notin Unsure /\ (at[m] \in Known => env[m] = got[m])
    BY DEF Served, InItsEnvironment, Unsure, Known
  <2>4. CASE m # h
    BY <1>2, <2>1, <2>2, <2>3, <2>4 DEF Serves, MoveOf
  <2>5. CASE m = h
    BY <1>2, <2>1, <2>3, <2>5 DEF Serves, Carries, Known, Unsure
  <2>. QED  BY <2>4, <2>5
<1>4. RunsInItsEnvironment'
  <2>1. SUFFICES ASSUME NEW m \in Mentions, at'[m] = "handed"
                 PROVE  env'[m] = got'[m] \/ m \in hasty' \/ got'[m] \in crossed' \/ outdated'
    BY DEF RunsInItsEnvironment
  <2>2. m \in Handlers
    BY DEF Handlers, Requests
  <2>3. CASE m # h
    <3>1. at[m] = "handed" /\ got'[m] = got[m] /\ env'[m] = env[m]
      BY <2>1, <2>2, <2>3 DEF Serves, MoveOf
    <3>. QED  BY <3>1 DEF Serves, Served, RunsInItsEnvironment
  <2>4. CASE m = h
    <3>1. at[m] \in Known /\ got'[m] = got[m] /\ env'[m] = env[m] /\ Exists(got[m])
      BY <2>1, <2>4 DEF Serves, Carries, Known, Unsure
    <3>2. Steady(m) => env[m] = got[m]
      BY <3>1 DEF Served, InItsEnvironment, Known
    <3>. QED  BY <3>1, <3>2 DEF Serves, Steady
  <2>. QED  BY <2>3, <2>4
<1>. QED  BY <1>1, <1>3, <1>4 DEF Served

\* A request of no project's binding, that leaves policies and environments alone.
LEMMA RequestServes ==
  ASSUME Base, Served, NEW h \in Requests, MoveOf(h), h \in Mentions => Carries(h),
         crossed \subseteq crossed', unsettled \subseteq unsettled', hasty \subseteq hasty',
         \A p \in Projects : Exists(p)' => Exists(p),
         bound' \in {bound, None}, UNCHANGED <<envs, policies, outdated>>
  PROVE  Served'
<1>1. h \in Handlers /\ h \notin Projects /\ at[h] # "allow"
  BY RequestIs DEF Base, Kind, Binding
<1>2. Serves(h)
  BY <1>1 DEF Serves
<1>. QED  BY <1>1, <1>2, LatestKept, ServesKeeps

\* A project's own binding, before its policy and after it.
LEMMA BindingServes ==
  ASSUME Base, Served, NEW p \in Projects, MoveOf(p), at[p] # "allow",
         UNCHANGED <<crossed, hasty, outdated, policies>>, unsettled \subseteq unsettled',
         \A q \in Projects : Exists(q)' => Exists(q) \/ project[q] = "none",
         bound' = bound \/ at[bound]' = "environment", envs \subseteq envs',
         p = bound /\ at[p] = "environment" => at'[p] = "environment" \/ p \in unsettled' \/ p \in envs',
         p = bound /\ Allowed(p)' => Allowed(p) \/ p \in unsettled'
  PROVE  Served'
<1>1. p \in Handlers /\ p \notin Mentions
  BY RequestIs DEF Handlers, Requests
<1>2. Serves(p)
  BY <1>1 DEF Serves
<1>. QED  BY <1>1, <1>2, LatestKept, ServesKeeps

LEMMA AsksServes ==
  ASSUME Base, Served, NEW h \in Requests, NEW p, NEW md, NEW to \in Places, Asks(h, p, md, to),
         h \in Mentions => \/ at[h] \in {"tagged", "asked"} /\ to \in {"lookup", "over"}
                           \/ at[h] = "entered" /\ to = "source"
  PROVE  Served'
<1>1. /\ MoveOf(h) /\ UNCHANGED <<project, bound, envs, policies, historyVars>>
      /\ at'[h] \in {to, "over", "refused"}
  BY DEF Asks, GotOrCreated, Others
<1>2. ASSUME h \in Mentions PROVE Carries(h)
  <2>1. CASE at'[h] = "source"
    <3>1. at[h] = "entered" /\ got'[h] = got[h]
      BY <1>2, <2>1 DEF Asks, GotOrCreated
    <3>2. env'[h] = env[h]
      BY <2>1 DEF Asks, GotOrCreated
    <3>. QED  BY <2>1, <3>1, <3>2 DEF Carries, Known
  <2>2. CASE at'[h] # "source"
    BY <1>1, <1>2, <2>2 DEF Carries, Known, Unsure
  <2>. QED  BY <2>1, <2>2
<1>. QED  BY <1>1, <1>2, RequestServes DEF historyVars, Exists

\* The bound project's policy is the latest: a message gets its environment.
LEMMA ReadPolicyServes ==
  ASSUME Base, Crossed, Named, Served, NEW m \in Handlers, ReadPolicy(m)
  PROVE  Served'
<1>1. /\ m \in Mentions /\ m \in Requests /\ MoveOf(m) /\ at[m] = "policy" /\ got[m] # None
      /\ UNCHANGED <<project, bound, envs, policies, historyVars>>
  BY ReadPolicyIs DEF Quiet, Steps, rowVars, Requests, Base, Kind, Messaging
<1>2. got[m] \in Projects /\ Working(m)
  BY <1>1 DEF Base, Shape, RequestShape, Handlers, Working, Messaging
<1>3. ASSUME Steady(m)
      PROVE  Len(policies) # 0 /\ policies[Len(policies)].env = got[m]
  <2>1. got[m] \notin Settling
    BY <1>1, <1>3 DEF Named, SettledFor, Messaging, Steady
  <2>2. got[m] \notin Parting
    BY <1>2, <1>3 DEF Crossed, CrossedWhileWorking, Steady
  <2>3. got[m] = bound
    BY <1>2, <1>3, <2>2 DEF Parting, Steady
  <2>4. bound \notin unsettled \cup {None} /\ Allowed(bound)
    BY <1>1, <1>2, <2>1, <2>3 DEF Settling, Allowed
  <2>. QED  BY <1>3, <2>3, <2>4 DEF Served, LatestIsBound, Steady
<1>4. Carries(m)
  <2>1. CASE at'[m] = "over"
    BY <2>1 DEF Carries, Known, Unsure
  <2>2. CASE at'[m] = "default" /\ Len(policies) = 0 /\ got'[m] = got[m]
    BY <1>3, <2>2 DEF Carries, Known, Unsure
  <2>3. CASE /\ Len(policies) # 0 /\ got'[m] = got[m]
             /\ env'[m] = policies[Len(policies)].env
             /\ at'[m] \in {"effective", "find"}
             /\ at'[m] = "effective" => policies[Len(policies)].env = None
    BY <1>1, <1>3, <2>3 DEF Carries, Known, Unsure
  <2>. QED  BY <2>1, <2>2, <2>3, ReadPolicyIs
<1>. QED  BY <1>1, <1>4, RequestServes DEF historyVars, Exists

\* The policies change, a message or an edit of nobody's binding goes on.
LEMMA PoliciesServe ==
  ASSUME Base, Served, NEW h \in Requests, MoveOf(h), h \in Mentions => Carries(h),
         UNCHANGED <<project, bound, envs, crossed, unsettled, hasty>>, outdated => outdated',
         LatestIsBound'
  PROVE  Served'
<1>1. h \in Handlers /\ h \notin Projects
  BY RequestIs
<1>2. Serves(h)
  BY <1>1 DEF Serves, Exists
<1>. QED  BY <1>1, <1>2, ServesKeeps

\* A policy of the bound project, made now, has its environment.
LEMMA MadeIsLatest ==
  ASSUME Base, Served, NEW h \in Requests, MoveOf(h), UNCHANGED <<bound, envs, unsettled, outdated>>,
         \/ policies' = policies
         \/ /\ bound # None /\ Len(policies') # 0 /\ policies'[Len(policies')].proj = bound
            /\ policies'[Len(policies')].env = DefaultEnv(bound)
  PROVE  LatestIsBound'
<1>1. SUFFICES ASSUME bound \notin unsettled \cup {None}, Allowed(bound)', ~outdated
               PROVE  /\ Len(policies') # 0
                      /\ policies'[Len(policies')].proj = bound /\ policies'[Len(policies')].env = bound
  BY DEF LatestIsBound
<1>2. bound \in Projects /\ bound \in Handlers /\ h # bound
  BY <1>1, RowsAre, RequestIs DEF Handlers
<1>3. Allowed(bound)
  BY <1>1, <1>2 DEF MoveOf, Allowed
<1>4. bound \in envs
  BY <1>1, <1>3 DEF Served, HasEnv, Allowed, Waiting, Finishing
<1>. QED  BY <1>1, <1>3, <1>4 DEF Served, LatestIsBound, DefaultEnv

LEMMA EditedServes ==
  ASSUME Base, Served, NEW e \in Handlers, Edited(e)
  PROVE  Served'
<1>1. /\ e \in Requests /\ MoveOf(e) /\ at'[e] = "over"
      /\ UNCHANGED <<project, bound, envs, crossed, unsettled, hasty>>
      /\ outdated' = (outdated \/ got[e] # bound)
      /\ \/ policies' = policies
         \/ /\ Len(policies') # 0 /\ policies'[Len(policies')].proj = got[e]
            /\ \E i \in 1..Len(policies) : /\ policies[i].proj = got[e]
                                           /\ policies'[Len(policies')].env = policies[i].env
  BY EditedIs DEF Steps
<1>2. LatestIsBound'
  <2>1. SUFFICES ASSUME bound \notin unsettled \cup {None}, Allowed(bound)', ~outdated'
                 PROVE  /\ Len(policies') # 0
                        /\ policies'[Len(policies')].proj = bound
                        /\ policies'[Len(policies')].env = bound
    BY <1>1 DEF LatestIsBound
  <2>2. bound \in Projects /\ bound \in Handlers /\ e # bound /\ got[e] = bound /\ ~outdated
    BY <1>1, <2>1, RowsAre, RequestIs DEF Handlers
  <2>3. Allowed(bound)
    BY <1>1, <2>1, <2>2 DEF MoveOf, Allowed
  <2>4. /\ Len(policies) # 0
        /\ policies[Len(policies)].proj = bound /\ policies[Len(policies)].env = bound
    BY <2>1, <2>2, <2>3 DEF Served, LatestIsBound
  <2>5. ASSUME NEW i \in 1..Len(policies), policies[i].proj = bound PROVE policies[i].env = bound
    <3>1. Len(policies) \in 1..Len(policies)
      BY <2>4 DEF Base, PoliciesOK, OnePerProject
    <3>2. i = Len(policies)
      BY <2>4, <2>5, <3>1 DEF Base, PoliciesOK, OnePerProject
    <3>. QED  BY <2>4, <3>2
  <2>. QED  BY <1>1, <2>2, <2>4, <2>5
<1>3. Carries(e)
  BY <1>1 DEF Carries, Known, Unsure
<1>. QED  BY <1>1, <1>2, <1>3, PoliciesServe

LEMMA MessageServes ==
  ASSUME Base, Crossed, Named, Served, NEW m \in Handlers, Message(m)
  PROVE  Served'
<1>1. CASE Arrive(m)
  <2>1. /\ m \in Requests /\ MoveOf(m) /\ UNCHANGED <<project, bound, envs, policies, historyVars>>
        /\ at'[m] \in {"tag", "lookup"}
    BY <1>1, ArriveIs DEF Quiet, Steps, rowVars, Requests
  <2>. QED  BY <2>1, RequestServes DEF Carries, Known, Unsure, historyVars, Exists
<1>2. CASE Tag(m) \/ Pend(m)
  <2>1. /\ m \in Requests /\ at[m] \in {"tagged", "asked"}
        /\ \E to \in {"lookup", "over"} : Asks(m, None, "pending_config", to)
    BY <1>2, TagIs, PendIs DEF Requests
  <2>2. PICK to \in {"lookup", "over"} : Asks(m, None, "pending_config", to)
    BY <2>1
  <2>3. to \in Places
    BY DEF Places, Reading, Waiting
  <2>. QED  BY <2>1, <2>2, <2>3, AsksServes
<1>3. CASE LookUp(m)
  <2>1. /\ m \in Requests /\ MoveOf(m) /\ UNCHANGED <<project, bound, envs, policies, unsettled, outdated>>
        /\ crossed \subseteq crossed' /\ hasty \subseteq hasty' /\ at'[m] \in {"ask", "policy"}
    BY <1>3, LookUpIs DEF Quiet, Steps, rowVars, Requests
  <2>. QED  BY <2>1, RequestServes DEF Carries, Known, Unsure, Exists
<1>4. CASE ReadPolicy(m)
  BY <1>4, ReadPolicyServes
<1>5. CASE MakePolicy(m)
  <2>1. /\ m \in Requests /\ MoveOf(m) /\ at[m] = "default" /\ at'[m] \in {"effective", "find"}
        /\ got'[m] = got[m]
        /\ UNCHANGED <<project, bound, envs, historyVars>>
        /\ \/ policies' = policies
           \/ /\ bound # None /\ Len(policies') # 0 /\ policies'[Len(policies')].proj = bound
              /\ policies'[Len(policies')].env = DefaultEnv(bound)
    BY <1>5, MakePolicyIs DEF Steps, Requests
  <2>2. LatestIsBound'
    BY <2>1, MadeIsLatest DEF historyVars
  <2>3. Carries(m)
    BY <2>1 DEF Carries, Known, Unsure
  <2>. QED  BY <2>1, <2>2, <2>3, PoliciesServe DEF historyVars
<1>6. CASE FindEnv(m) \/ Effective(m) \/ Source(m)
  <2>1. /\ m \in Requests /\ MoveOf(m) /\ UNCHANGED <<project, bound, envs, policies, historyVars>>
    BY <1>6, FindEnvIs, EffectiveIs, SourceIs DEF Quiet, Steps, rowVars, Requests
  <2>2. Carries(m)
    BY <1>6, FindEnvIs, EffectiveIs, SourceIs DEF Carries, Known, Unsure
  <2>. QED  BY <2>1, <2>2, RequestServes DEF historyVars, Exists
<1>7. CASE Enter(m)
  <2>1. m \in Requests /\ at[m] = "entered" /\ Asks(m, got[m], "active", "source")
    BY <1>7, EnterIs DEF Requests
  <2>. QED  BY <2>1, AsksServes DEF Places
<1>. QED  BY <1>1, <1>2, <1>3, <1>4, <1>5, <1>6, <1>7 DEF Message

\* Whichever policy goes, the latest stays the latest if it is another's.
LEMMA LatestStays ==
  ASSUME PoliciesOK, NEW p \in Projects, Len(policies) # 0, policies[Len(policies)].proj # p,
         NEW w, w = Without(p)
  PROVE  Len(w) # 0 /\ w[Len(w)] = policies[Len(policies)]
<1>1. policies \in Seq(Policy) /\ DOMAIN policies = 1..Len(policies) /\ Len(policies) \in Nat
  BY DEF PoliciesOK, OnePerProject
<1>2. CASE \E i \in DOMAIN policies : policies[i].proj = p
  <2>1. PICK k : k = CHOOSE i \in DOMAIN policies : policies[i].proj = p
    OBVIOUS
  <2>2. k \in 1..Len(policies) /\ policies[k].proj = p /\ k # Len(policies)
    BY <1>1, <1>2, <2>1
  <2>3. w = Seqs!RemoveAt(policies, k)
    BY <1>2, <2>1 DEF Without
  <2>4. /\ w \in Seq(Policy) /\ Len(w) = Len(policies) - 1
        /\ \A i \in 1..Len(w) : w[i] = IF i < k THEN policies[i] ELSE policies[i + 1]
    BY <1>1, <2>2, <2>3, RemovedIs
  <2>5. Len(w) \in 1..Len(w) /\ ~(Len(w) < k) /\ Len(w) + 1 = Len(policies)
    BY <1>1, <2>2, <2>4
  <2>. QED  BY <2>4, <2>5
<1>3. CASE ~\E i \in DOMAIN policies : policies[i].proj = p
  BY <1>3 DEF Without
<1>. QED  BY <1>2, <1>3

LEMMA UnprojectServes ==
  ASSUME Base, Served, NEW d \in Handlers, Unproject(d)
  PROVE  Served'
<1>1. PICK p : p = got[d]
  OBVIOUS
<1>2. /\ d \in Requests /\ MoveOf(d) /\ at[d] = "unproject" /\ p \in Projects
      /\ UNCHANGED historyVars /\ at'[d] \in {"over", "drop"}
      /\ \/ UNCHANGED <<project, bound, envs, policies>>
         \/ /\ policies' = Without(p)
            /\ project' = [project EXCEPT ![p] = "gone"] /\ envs' = envs \ {p}
            /\ bound' = (IF bound = p THEN None ELSE bound)
  BY <1>1, UnprojectIs DEF Steps
<1>3. d \in Handlers /\ d \notin Projects /\ Carries(d)
  BY <1>2, RequestIs DEF Carries, Known, Unsure
<1>4. CASE UNCHANGED <<project, bound, envs, policies>>
  BY <1>2, <1>3, <1>4, RequestServes DEF historyVars, Exists
<1>5. CASE /\ policies' = Without(p)
           /\ project' = [project EXCEPT ![p] = "gone"] /\ envs' = envs \ {p}
           /\ bound' = (IF bound = p THEN None ELSE bound)
  <2>1. \A q \in Projects : Exists(q)' => Exists(q)
    BY <1>2, <1>5 DEF Base, Shape, RowShape, Exists
  <2>2. Serves(d)
    BY <1>2, <1>3, <1>5, <2>1 DEF Serves, historyVars
  <2>3. LatestIsBound'
    <3>1. SUFFICES ASSUME bound' \notin unsettled \cup {None}, Allowed(bound)', ~outdated
                   PROVE  /\ Len(policies') # 0
                          /\ policies'[Len(policies')].proj = bound'
                          /\ policies'[Len(policies')].env = bound'
      BY <1>2 DEF LatestIsBound, historyVars
    <3>2. bound' = bound /\ bound # p /\ bound \in Projects /\ bound \in Handlers /\ d # bound
      BY <1>3, <1>5, <3>1, RowsAre DEF Handlers
    <3>3. Allowed(bound)
      BY <1>2, <3>1, <3>2 DEF MoveOf, Allowed
    <3>4. /\ Len(policies) # 0
          /\ policies[Len(policies)].proj = bound /\ policies[Len(policies)].env = bound
      BY <3>1, <3>2, <3>3 DEF Served, LatestIsBound
    <3>5. Len(policies') # 0 /\ policies'[Len(policies')] = policies[Len(policies)]
      BY <1>2, <1>5, <3>2, <3>4, LatestStays DEF Base
    <3>. QED  BY <3>2, <3>4, <3>5
  <2>. QED  BY <2>2, <2>3, ServesKeeps
<1>. QED  BY <1>2, <1>4, <1>5

LEMMA AllowServes ==
  ASSUME Base, Served, NEW p \in Handlers, Allow(p)
  PROVE  Served'
<1>1. /\ MoveOf(p) /\ p \in Projects /\ at[p] = "allow"
      /\ UNCHANGED <<project, bound, envs, crossed, hasty>>
      /\ outdated' = (outdated \/ p # bound)
      /\ \/ /\ at'[p] \in {"over", "rebind"} /\ unsettled' = unsettled
            /\ Len(policies') # 0 /\ policies'[Len(policies')].proj = p
            /\ policies'[Len(policies')].env = DefaultEnv(p)
         \/ at'[p] = "over" /\ unsettled' = unsettled \cup {p}
  BY AllowIs DEF Steps
<1>2. Serves(p)
  <2>1. p \notin Mentions
    BY <1>1, RequestIs DEF Requests
  <2>. QED  BY <1>1, <2>1 DEF Serves, Exists
<1>3. LatestIsBound'
  <2>1. SUFFICES ASSUME bound \notin unsettled' \cup {None}, ~outdated'
                 PROVE  /\ Len(policies') # 0
                        /\ policies'[Len(policies')].proj = bound
                        /\ policies'[Len(policies')].env = bound
    BY <1>1 DEF LatestIsBound
  <2>2. p = bound /\ bound \notin unsettled
    BY <1>1, <2>1
  <2>3. bound \in envs
    BY <1>1, <2>1, <2>2 DEF Served, HasEnv
  <2>. QED  BY <1>1, <2>1, <2>2, <2>3 DEF DefaultEnv
<1>. QED  BY <1>2, <1>3, ServesKeeps

LEMMA ConfigureServes ==
  ASSUME Base, Served, NEW p \in Handlers, Configure(p)
  PROVE  Served'
<1>1. CASE Begin(p) \/ Check(p)
  <2>1. /\ p \in Projects /\ MoveOf(p) /\ project[p] = "none" /\ at[p] # "allow"
        /\ UNCHANGED <<project, bound, envs, policies, historyVars>>
    BY <1>1, BeginIs, CheckIs DEF Quiet, Steps, rowVars
  <2>2. p # bound
    BY <2>1, NoneIs DEF Base, RowsOK, Exists
  <2>. QED  BY <2>1, <2>2, BindingServes DEF historyVars, Exists
<1>2. CASE CreateProject(p)
  <2>1. /\ p \in Projects /\ MoveOf(p) /\ project[p] = "none" /\ at[p] = "create"
        /\ UNCHANGED <<envs, policies, historyVars>>
        /\ \/ /\ bound' = p /\ at'[p] = "environment"
              /\ project' = [project EXCEPT ![p] = "initializing"]
           \/ bound' = bound /\ project' = project /\ at'[p] = "over"
    BY <1>2, CreateProjectIs
  <2>2. p # bound
    BY <2>1, NoneIs DEF Base, RowsOK, Exists
  <2>3. \A q \in Projects : Exists(q)' => Exists(q) \/ project[q] = "none"
    BY <2>1 DEF Base, Shape, RowShape, Exists
  <2>4. bound' = bound \/ at[bound]' = "environment"
    BY <2>1
  <2>. QED  BY <2>1, <2>2, <2>3, <2>4, BindingServes DEF historyVars
<1>3. CASE CreateEnv(p) \/ Activate(p)
  <2>1. /\ p \in Projects /\ MoveOf(p) /\ at[p] \in {"environment", "activate"}
        /\ UNCHANGED <<bound, policies, crossed, hasty, outdated>>
        /\ at[p] = "environment" => p \in envs' \/ p \in unsettled'
        /\ at'[p] = "over" => p \in unsettled'
        /\ at'[p] \in {"activate", "bind", "over"}
        /\ envs \subseteq envs' /\ unsettled \subseteq unsettled'
        /\ \A q \in Projects : Exists(q)' => Exists(q)
    <3>1. CASE CreateEnv(p)
      BY <3>1, CreateEnvIs DEF Steps, Exists
    <3>2. CASE Activate(p)
      BY <3>2, ActivateIs DEF Steps, Exists, Base, Shape, RowShape
    <3>. QED  BY <1>3, <3>1, <3>2
  <2>. QED  BY <2>1, BindingServes DEF Allowed, Waiting, Finishing
<1>4. CASE ReadPage(p)
  <2>1. /\ p \in Projects /\ MoveOf(p) /\ at[p] = "rebind"
        /\ UNCHANGED <<project, bound, envs, policies, historyVars>>
    BY <1>4, ReadPageIs DEF Quiet, Steps, rowVars
  <2>. QED  BY <2>1, BindingServes DEF Allowed, Waiting, Finishing, historyVars, Exists
<1>5. CASE Bind(p)
  <2>1. /\ p \in Projects /\ MoveOf(p) /\ at[p] \in {"binding", "rebinding"}
        /\ UNCHANGED <<project, bound, envs, policies, crossed, hasty, outdated>>
        /\ unsettled \subseteq unsettled'
        /\ at[p] = "binding" => at'[p] \in {"make", "allow"} \/ p \in unsettled'
    BY <1>5, BindIs DEF Steps
  <2>. QED  BY <2>1, BindingServes DEF Allowed, Waiting, Finishing, Exists
<1>6. CASE Make(p)
  <2>1. /\ p \in Projects /\ at[p] \in {"making", "remaking"}
        /\ GotOrCreated(p, p, "active", IF at[p] = "making" THEN "allow" ELSE "over")
        /\ unsettled' = (IF at'[p] = "refused" \/ (at[p] = "making" /\ at'[p] = "over")
                         THEN unsettled \cup {p} ELSE unsettled)
        /\ UNCHANGED <<project, bound, envs, policies, crossed, hasty, outdated>>
    BY <1>6, MakeIs
  <2>2. MoveOf(p) /\ at'[p] \in {"allow", "over", "refused"}
    BY <2>1 DEF GotOrCreated
  <2>. QED  BY <2>1, <2>2, BindingServes DEF Allowed, Waiting, Finishing, Exists
<1>7. CASE Allow(p)
  BY <1>7, AllowServes
<1>. QED  BY <1>1, <1>2, <1>3, <1>4, <1>5, <1>6, <1>7 DEF Configure

\* A request that is no message, and leaves policies and environments alone.
LEMMA OtherServes ==
  ASSUME Base, Served, NEW h \in Requests, MoveOf(h),
         at'[h] \notin Known \cup Unsure \cup {"handed"} \/ h \notin Mentions,
         crossed \subseteq crossed', unsettled \subseteq unsettled', hasty \subseteq hasty',
         \A p \in Projects : Exists(p)' => Exists(p),
         bound' \in {bound, None}, UNCHANGED <<envs, policies, outdated>>
  PROVE  Served'
<1>1. h \in Mentions => Carries(h)
  BY DEF Carries
<1>. QED  BY <1>1, RequestServes

LEMMA EventServes ==
  ASSUME Base, Served, NEW h \in Handlers, Event(h)
  PROVE  Served'
<1>1. CASE Reopen(h) \/ Noticed(h) \/ Added(h)
  <2>1. /\ h \in Requests /\ (h \in Mentions => at[h] = "noticed")
        /\ \E p, md, to : to \in {"submit", "over"} /\ Asks(h, p, md, to)
    BY <1>1, ReopenIs, NoticedIs, AddedIs, BindingAssumption DEF Requests
  <2>2. PICK p, md, to : to \in {"submit", "over"} /\ Asks(h, p, md, to)
    BY <2>1
  <2>3. /\ MoveOf(h) /\ UNCHANGED <<project, bound, envs, policies, historyVars>>
        /\ at'[h] \in {"submit", "over", "refused"}
    BY <2>2 DEF Asks, GotOrCreated, Others
  <2>. QED  BY <2>1, <2>3, OtherServes DEF historyVars, Exists, Known, Unsure
<1>2. CASE Confirm(h) \/ Notice(h) \/ Add(h) \/ Select(h) \/ Private(h)
  <2>1. /\ h \in Requests /\ MoveOf(h) /\ UNCHANGED <<project, bound, envs, policies, outdated, unsettled, hasty>>
        /\ crossed \subseteq crossed'
        /\ at'[h] \notin Known \cup Unsure \cup {"handed"} \/ h \notin Mentions
    <3>1. CASE Confirm(h)
      BY <3>1, ConfirmIs DEF Quiet, Steps, rowVars, Requests, Known, Unsure
    <3>3. CASE Notice(h)
      BY <3>3, NoticeIs DEF Quiet, Steps, rowVars, historyVars, Known, Unsure
    <3>4. CASE Add(h)
      BY <3>4, AddIs DEF Quiet, Steps, rowVars, Requests, Known, Unsure
    <3>5. CASE Select(h)
      BY <3>5, SelectIs DEF Quiet, Steps, rowVars, historyVars, Known, Unsure
    <3>6. CASE Private(h)
      <4>1. h \in Privates
        BY <3>6, PrivateIs DEF Base, Kind
      <4>. QED  BY <3>6, <4>1, PrivateIs, BindingAssumption DEF Steps, historyVars
    <3>. QED  BY <1>2, <3>1, <3>3, <3>4, <3>5, <3>6
  <2>. QED  BY <2>1, OtherServes DEF Exists
<1>3. CASE Edit(h)
  <2>1. /\ h \in Requests /\ MoveOf(h) /\ at'[h] = "edit"
        /\ UNCHANGED <<project, bound, envs, historyVars>>
        /\ \/ policies' = policies
           \/ /\ bound # None /\ Len(policies') # 0 /\ policies'[Len(policies')].proj = bound
              /\ policies'[Len(policies')].env = DefaultEnv(bound)
    BY <1>3, EditIs DEF Steps
  <2>2. LatestIsBound'
    BY <2>1, MadeIsLatest DEF historyVars
  <2>3. Carries(h)
    BY <2>1 DEF Carries, Known, Unsure
  <2>. QED  BY <2>1, <2>2, <2>3, PoliciesServe DEF historyVars
<1>4. CASE Edited(h)
  BY <1>4, EditedServes
<1>. QED  BY <1>1, <1>2, <1>3, <1>4 DEF Event

LEMMA AdministerServes ==
  ASSUME Base, Served, NEW h \in Handlers, Administer(h)
  PROVE  Served'
<1>1. CASE Unbind(h) \/ Disable(h) \/ Release(h) \/ Silence(h) \/ Close(h) \/ Remove(h) \/ Wipe(h) \/ Drop(h)
  <2>1. /\ h \in Requests /\ MoveOf(h) /\ UNCHANGED <<envs, policies, outdated>>
        /\ bound' \in {bound, None}
        /\ crossed \subseteq crossed' /\ unsettled \subseteq unsettled' /\ hasty \subseteq hasty'
        /\ at'[h] \notin Known \cup Unsure \cup {"handed"}
        /\ \A p \in Projects : Exists(p)' => Exists(p)
    <3>1. CASE Unbind(h)
      BY <3>1, UnbindIs DEF Quiet, Steps, rowVars, historyVars, Known, Unsure, Exists
    <3>2. CASE Disable(h)
      BY <3>2, DisableIs DEF Quiet, Steps, rowVars, Known, Unsure, Exists
    <3>3. CASE Release(h)
      BY <3>3, ReleaseIs DEF Steps, rowVars, Requests, Known, Unsure, Exists
    <3>4. CASE Silence(h)
      BY <3>4, SilenceIs DEF Steps, Requests, Known, Unsure, Exists
    <3>5. CASE Close(h)
      <4>1. \A p \in Projects : Exists(p)' => Exists(p)
        BY <3>5, CloseIs DEF Base, Shape, RowShape, Exists
      <4>. QED  BY <3>5, <4>1, CloseIs DEF Steps, historyVars, Requests, Known, Unsure
    <3>6. CASE Remove(h)
      BY <3>6, RemoveIs DEF Quiet, Steps, rowVars, historyVars, Known, Unsure, Exists
    <3>7. CASE Wipe(h)
      BY <3>7, WipeIs DEF Steps, Known, Unsure, Exists
    <3>8. CASE Drop(h)
      BY <3>8, DropIs DEF Steps, Known, Unsure, Exists
    <3>. QED  BY <1>1, <3>1, <3>2, <3>3, <3>4, <3>5, <3>6, <3>7, <3>8
  <2>. QED  BY <2>1, OtherServes
<1>2. CASE Unproject(h)
  BY <1>2, UnprojectServes
<1>. QED  BY <1>1, <1>2 DEF Administer

LEMMA ServedStill ==
  ASSUME Served, UNCHANGED <<project, bound, envs, policies, requestVars, historyVars>>
  PROVE  Served'
BY DEF Served, HasEnv, LatestIsBound, Allowed, InItsEnvironment, Steady, RunsInItsEnvironment, Exists,
       requestVars, historyVars

LEMMA ServedStep ==
  ASSUME Base, Crossed, Named, Served, [Next]_vars
  PROVE  Served'
<1>1. CASE UNCHANGED vars
  <2>1. UNCHANGED <<project, bound, envs, policies, requestVars, historyVars>>
    BY <1>1 DEF vars, rowVars
  <2>. QED  BY <2>1, ServedStill
<1>2. ASSUME NEW h \in Handlers, ReadRow(h) PROVE Served'
  <2>1. /\ MoveOf(h) /\ at[h] \in DOMAIN AfterRead /\ at'[h] = AfterRead[at[h]]
        /\ got'[h] = got[h] /\ env'[h] = env[h] /\ Kind(h)
        /\ UNCHANGED <<project, bound, envs, policies, historyVars>>
    BY <1>2, ReadRowIs DEF Quiet, Steps, rowVars, Base
  <2>2. CASE h \in Requests
    <3>1. Carries(h)
      BY <2>1 DEF AfterRead, Carries, Known, Unsure
    <3>. QED  BY <2>1, <2>2, <3>1, RequestServes DEF historyVars, Exists
  <2>3. CASE h \in Projects
    <3>1. at[h] # "allow" /\ at[h] # "environment" /\ (Allowed(h)' => Allowed(h))
      BY <2>1 DEF AfterRead, Allowed, Waiting, Finishing
    <3>. QED  BY <2>1, <2>3, <3>1, BindingServes DEF historyVars, Exists
  <2>. QED  BY <2>2, <2>3 DEF Handlers
<1>3. ASSUME NEW h \in Handlers, Rejects(h) PROVE Served'
  <2>1. /\ MoveOf(h) /\ at'[h] = "over"
        /\ UNCHANGED <<project, bound, envs, policies, crossed, hasty, outdated>>
        /\ unsettled' = (IF h \in Projects THEN unsettled \cup {h} ELSE unsettled)
    BY <1>3, RejectsIs DEF Steps, rowVars
  <2>2. CASE h \in Requests
    BY <2>1, <2>2, RequestIs, OtherServes DEF Known, Unsure, Exists
  <2>3. CASE h \in Projects
    <3>1. h \notin Mentions
      BY <2>3, RequestIs DEF Requests
    <3>2. Serves(h)
      BY <2>1, <2>3, <3>1 DEF Serves, Exists
    <3>3. CASE at[h] # "allow"
      BY <2>1, <3>2, <3>3, LatestKept, ServesKeeps
    <3>4. CASE at[h] = "allow"
      <4>1. LatestIsBound'
        <5>1. SUFFICES ASSUME bound \notin unsettled' \cup {None}, Allowed(bound)', ~outdated
                       PROVE  /\ Len(policies) # 0 /\ policies[Len(policies)].proj = bound
                              /\ policies[Len(policies)].env = bound
          BY <2>1 DEF LatestIsBound
        <5>2. bound \in Handlers /\ bound # h /\ bound \notin unsettled
          BY <2>1, <2>3, <5>1, RowsAre DEF Handlers
        <5>3. Allowed(bound)
          BY <2>1, <5>1, <5>2 DEF MoveOf, Allowed
        <5>. QED  BY <5>1, <5>2, <5>3 DEF Served, LatestIsBound
      <4>. QED  BY <3>2, <4>1, ServesKeeps
    <3>. QED  BY <3>3, <3>4
  <2>. QED  BY <2>2, <2>3 DEF Handlers
<1>4. CASE Expire
  BY <1>4, ExpireIs, ServedStill
<1>5. ASSUME NEW h \in Handlers, Execution(h) PROVE Served'
  <2>1. Executes(h)
    BY <1>5, ExecutionIs
  <2>2. h \notin Mentions
    BY <2>1, BindingAssumption DEF Executes
  <2>. QED  BY <2>1, <2>2, OtherServes DEF Executes, Steps, Exists
<1>. QED  BY <1>1, <1>2, <1>3, <1>4, <1>5, MessageServes, ConfigureServes, EventServes, AdministerServes
          DEF Next

LEMMA ServedInit ==
  ASSUME Init
  PROVE  Served
<1>1. PICK p \in Projects \cup {None} :
        /\ bound = p /\ envs = {p} \ {None}
        /\ policies = IF p = None THEN <<>> ELSE <<[proj |-> p, on |-> TRUE, env |-> p]>>
        /\ at = [h \in Handlers |-> IF h = p THEN "before" ELSE "off"]
  BY DEF Init
<1>2. HasEnv
  BY <1>1 DEF HasEnv
<1>3. LatestIsBound
  <2>1. ASSUME bound # None
        PROVE  Len(policies) # 0 /\ policies[Len(policies)].proj = bound /\ policies[Len(policies)].env = bound
    <3>1. policies = <<[proj |-> p, on |-> TRUE, env |-> p]>> /\ bound = p
      BY <1>1, <2>1
    <3>. QED  BY <3>1
  <2>. QED  BY <2>1 DEF LatestIsBound
<1>4. InItsEnvironment /\ RunsInItsEnvironment
  <2>1. \A m \in Mentions : at[m] \in {"off", "before"}
    BY <1>1 DEF Handlers, Requests
  <2>. QED  BY <2>1 DEF InItsEnvironment, RunsInItsEnvironment
<1>. QED  BY <1>2, <1>3, <1>4 DEF Served

-----------------------------------------------------------------------------
(* Every behaviour.                                                         *)

Inv == Base /\ Crossed /\ Named /\ Served

\* The invariant holds of the rows, of every request under way and of what the
\* group's messages find, after any interleaving of the requests' queries.
\* (feishu-event.service.ts:128-170, group-agent-session.service.ts:48-92,
\* project.service.ts:326-344)
THEOREM Invariance == Spec => []Inv
<1>1. Init => Inv
  BY BaseInit, CrossedInit, NamedInit, ServedInit DEF Inv
<1>2. Inv /\ [Next]_vars => Inv'
  BY BaseStep, CrossedStep, NamedStep, ServedStep DEF Inv
<1>. QED  BY <1>1, <1>2, PTL DEF Spec

\* Every variable keeps its type, and the unique indexes hold: a project has the
\* session of one chat, and one policy for the chat.
\* (schema.prisma:334, 368)
THEOREM BindingTypeCorrect == Spec => []TypeOK
<1>1. Inv => TypeOK
  <2>1. SUFFICES ASSUME Inv PROVE TypeOK
    OBVIOUS
  <2>2. /\ session \in Session /\ issued \in Nat /\ session.id <= issued
        /\ private \in [made: BOOLEAN, proj: Projects \cup {None}]
        /\ project \in [Projects -> {"none", "initializing", "active", "closed", "gone"}]
        /\ bound \in Projects \cup {None} /\ Exists(bound)
        /\ envs \subseteq Projects
        /\ lock \in Confirms \cup {None}
        /\ runs \in [Confirms -> {"none", "locked", "made", "live", "deleted", "settling", "over"}]
        /\ session.proj # None => session.proj # private.proj
    BY <2>1 DEF Inv, Base, RowsOK, Shape, RowShape, SessionOK
  <2>3. /\ page \in [Projects -> Nat] /\ faults \in 0..MaxFaults
        /\ crossed \cup unsettled \subseteq Projects /\ hasty \subseteq Mentions
        /\ outdated \in BOOLEAN /\ orphaned \subseteq Confirms
    BY <2>1 DEF Inv, Base, Shape, RestShape
  <2>4. \A h \in Handlers : seen[h] \in Session /\ {got[h], env[h]} \subseteq Projects \cup {None}
    BY <2>1 DEF Inv, Base, Shape, RequestShape
  <2>5. /\ policies \in Seq([proj: Projects, on: BOOLEAN, env: Projects \cup {None}])
        /\ \A i, j \in DOMAIN policies : policies[i].proj = policies[j].proj => i = j
    BY <2>1 DEF Inv, Base, PoliciesOK, OnePerProject, Policy
  <2>. QED  BY <2>2, <2>3, <2>4, <2>5 DEF TypeOK
<1>. QED  BY <1>1, Invariance, PTL

\* The chat's Redis key is that of a run being submitted, or of the live run the
\* session names, or of a run that lost the chat to one of the causes that
\* `orphaned` records, however the awaits of submissions, settlings, removals and
\* unbindings interleave.
\* (agent.service.ts:249-276, group-agent-session.service.ts:446-492,
\* admin.service.ts:141-231, 237-291)
THEOREM LocksAreOwned == Spec => []LockIsOwned
<1>1. Inv => LockIsOwned
  BY DEF Inv, Base, LockOK
<1>. QED  BY <1>1, Invariance, PTL

\* The session of an unbound project is active again only through a request that
\* crossed the unbinding, or a later binding that has not come to its end.
\* (group-agent-session.service.ts:67-69, project.service.ts:326-344)
THEOREM ReopenedOnlyByCrossing == Spec => []ReopenedByCrossing
<1>1. Inv => ReopenedByCrossing
  BY DEF Inv, Crossed, StaleAtRest, Stale, AtRest, ReopenedByCrossing
<1>. QED  BY <1>1, Invariance, PTL

\* No message of a project that is bound to the end is refused by the unique index
\* on the session's project, unless an unbinding was crossed.
\* (schema.prisma:334, group-agent-session.service.ts:80-92)
THEOREM RefusedOnlyWhileUnsettled == Spec => []RefusedWhileUnsettled
<1>1. Inv => RefusedWhileUnsettled
  BY DEF Inv, Named
<1>. QED  BY <1>1, Invariance, PTL

\* A message is handed over with its own project's environment, unless it came
\* while the project was being bound or unbound or another's policy was written.
\* (feishu-event.service.ts:149-165, group-policy.service.ts:91-101)
THEOREM MessagesRunAtHome == Spec => []RunsInItsEnvironment
<1>1. Inv => RunsInItsEnvironment
  BY DEF Inv, Served
<1>. QED  BY <1>1, Invariance, PTL
=============================================================================
