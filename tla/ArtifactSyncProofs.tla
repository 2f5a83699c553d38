------------------------- MODULE ArtifactSyncProofs -------------------------
(***************************************************************************)
(* What ArtifactSync promises for any number of jobs, retries, contents,   *)
(* outputs and writes, and under every fault it models.                    *)
(***************************************************************************)
EXTENDS ArtifactSync, FiniteSetTheorems, TLAPS

USE DEF Syncers, syncerVars, historyVars

-----------------------------------------------------------------------------
(* Typing                                                                   *)

LEMMA OutputTyping ==
  ASSUME NEW s \in Syncers
  PROVE  /\ Outputs[s] \in Seq(Artifacts)
         /\ Len(Outputs[s]) \in Nat
         /\ DOMAIN Outputs[s] = 1..Len(Outputs[s])
         /\ \A i \in DOMAIN Outputs[s] : Outputs[s][i] \in Artifacts
BY SyncersAssumption

\* A syncer at work is working on a content.
LEMMA ItemTyping ==
  ASSUME TypeOK, NEW s \in Syncers, at[s] \notin {"off", "over"}
  PROVE  pos[s] \in 1..Len(Outputs[s]) /\ Item(s) \in Artifacts /\ artifact[Item(s)] \in ArtifactStatus \cup {"absent"}
BY OutputTyping DEF TypeOK, Item

\* The part of TypeOK that belongs to the syncers.
SyncersOK ==
  /\ at \in [Syncers -> {"off", "find", "create", "load", "write", "fail",
                         "mark", "synced", "skip", "skipped", "over"}]
  /\ pos \in [Syncers -> Nat]
  /\ done \in [Syncers -> Nat]
  /\ read \in [Syncers -> ArtifactStatus \cup {"absent"}]
  /\ failures \subseteq Syncers
  /\ outcome \in [Syncers -> {"none", "succeeded", "failed", "escaped"}]
  /\ \A s \in Syncers : at[s] \notin {"off", "over"} => pos[s] \in DOMAIN Outputs[s]

LEMMA GoesTyped ==
  ASSUME TypeOK, NEW s \in Syncers, at[s] \notin {"off", "over"},
         NEW to \in {"create", "load", "write", "fail", "mark", "synced", "skip", "skipped"},
         Goes(s, to),
         done' \in [Syncers -> Nat],
         read' \in [Syncers -> ArtifactStatus \cup {"absent"}]
  PROVE  SyncersOK'
BY DEF TypeOK, Goes, SyncersOK

LEMMA StopsTyped ==
  ASSUME TypeOK, NEW s \in Syncers, NEW to \in {"off", "over"}, Stops(s, to),
         outcome' \in [Syncers -> {"none", "succeeded", "failed", "escaped"}]
  PROVE  SyncersOK'
BY DEF TypeOK, Stops, SyncersOK

LEMMA EndsTyped ==
  ASSUME TypeOK, NEW s \in Syncers, NEW how \in {"succeeded", "failed", "escaped"}, Ends(s, how)
  PROVE  SyncersOK'
BY StopsTyped DEF TypeOK, Ends

LEMMA TurnsTyped ==
  ASSUME TypeOK, NEW s \in Syncers, NEW n \in Nat \ {0}, NEW F \in SUBSET Syncers, Turns(s, n, F)
  PROVE  SyncersOK'
<1>1. CASE n <= Len(Outputs[s])
  <2>1. n \in DOMAIN Outputs[s]
    BY <1>1, OutputTyping
  <2>2. /\ at' = [at EXCEPT ![s] = "find"] /\ pos' = [pos EXCEPT ![s] = n]
        /\ done' = [done EXCEPT ![s] = 0] /\ read' = [read EXCEPT ![s] = "absent"]
        /\ failures' = F /\ outcome' = outcome
    BY <1>1 DEF Turns
  <2>. QED  BY <2>1, <2>2 DEF TypeOK, SyncersOK
<1>2. CASE ~(n <= Len(Outputs[s]))
  BY <1>2, EndsTyped DEF Turns
<1>. QED  BY <1>1, <1>2

LEMMA BreaksTyped ==
  ASSUME TypeOK, NEW s \in Syncers, Breaks(s)
  PROVE  breaks' \in [Artifacts -> Nat]
<1>1. CASE Attempting(s)
  <2>1. Item(s) \in Artifacts
    BY <1>1, ItemTyping DEF Attempting
  <2>2. breaks' = [breaks EXCEPT ![Item(s)] = @ + 1]
    BY <1>1 DEF Breaks
  <2>. QED  BY <2>1, <2>2 DEF TypeOK
<1>2. CASE ~Attempting(s)
  BY <1>2 DEF Breaks, TypeOK
<1>. QED  BY <1>1, <1>2

LEMMA InitTyped == Init => TypeOK
<1> SUFFICES ASSUME Init
             PROVE  TypeOK
  OBVIOUS
<1>1. SyncersOK
  BY DEF Init, SyncersOK
<1>2. artifact \in [Artifacts -> ArtifactStatus \cup {"absent"}]
  BY DEF Init
<1>3. /\ written \in [Artifacts -> Nat] /\ overlaps \in [Artifacts -> Nat]
      /\ breaks \in [Artifacts -> Nat] /\ crashes \in 0..MaxCrashes
  BY SyncersAssumption DEF Init
<1>. QED  BY <1>1, <1>2, <1>3 DEF Init, TypeOK, SyncersOK

LEMMA AttemptsTyped ==
  ASSUME TypeOK, NEW s \in Syncers, at[s] = "load", Attempts(s)
  PROVE  SyncersOK' /\ overlaps' \in [Artifacts -> Nat]
<1>1. Item(s) \in Artifacts /\ artifact[Item(s)] \in ArtifactStatus \cup {"absent"}
  BY ItemTyping
<1>2. read' \in [Syncers -> ArtifactStatus \cup {"absent"}] /\ done' = done
  BY <1>1 DEF Attempts, TypeOK
<1>3. PICK to \in {"mark", "write", "skip"} : Goes(s, to)
  BY DEF Attempts, Choices
<1>4. SyncersOK'
  BY <1>2, <1>3, GoesTyped DEF TypeOK
<1>5. overlaps' \in [Artifacts -> Nat]
  BY <1>1 DEF Attempts, TypeOK
<1>. QED  BY <1>4, <1>5

LEMMA SyncTyped ==
  ASSUME TypeOK, NEW s \in Syncers, Sync(s)
  PROVE  TypeOK'
<1>a. at[s] \notin {"off", "over"}
  BY DEF Sync, FindExisting, Create, Load, Write, WriteRejects, MarkFailed, MarkFind, MarkWrite, Settled
<1>b. Item(s) \in Artifacts /\ artifact[Item(s)] \in ArtifactStatus \cup {"absent"}
      /\ pos[s] + 1 \in Nat \ {0}
  BY <1>a, ItemTyping DEF TypeOK
<1>c. done \in [Syncers -> Nat] /\ read \in [Syncers -> ArtifactStatus \cup {"absent"}]
      /\ failures \in SUBSET Syncers /\ failures \cup {s} \in SUBSET Syncers
  BY DEF TypeOK
<1>1. CASE FindExisting(s)
  <2>1. SyncersOK'
    BY <1>1, <1>a, <1>c, GoesTyped DEF FindExisting
  <2>. QED  BY <1>1, <2>1 DEF FindExisting, TypeOK, SyncersOK
<1>2. CASE Create(s)
  <2>1. SyncersOK'
    BY <1>2, <1>a, <1>c, GoesTyped, EndsTyped DEF Create
  <2>2. artifact' \in [Artifacts -> ArtifactStatus \cup {"absent"}]
    BY <1>2, <1>b DEF Create, TypeOK, ArtifactStatus
  <2>. QED  BY <1>2, <2>1, <2>2 DEF Create, TypeOK, SyncersOK
<1>3. CASE Load(s)
  <2>1. SyncersOK' /\ overlaps' \in [Artifacts -> Nat]
    <3>1. CASE artifact[Item(s)] \in Settled
      <4>1. Turns(s, pos[s] + 1, failures) /\ UNCHANGED overlaps
        BY <1>3, <3>1 DEF Load
      <4>. QED  BY <4>1, <1>b, <1>c, TurnsTyped DEF TypeOK
    <3>2. CASE artifact[Item(s)] \notin Settled
      BY <1>3, <3>2, AttemptsTyped DEF Load
    <3>. QED  BY <3>1, <3>2
  <2>. QED  BY <1>3, <2>1 DEF Load, TypeOK, SyncersOK
<1>4. CASE Write(s)
  <2>1. SyncersOK'
    <3>1. done' \in [Syncers -> Nat]
      BY <1>4, <1>c DEF Write
    <3>2. CASE Goes(s, "mark")
      BY <1>4, <1>a, <1>c, <3>1, <3>2, GoesTyped DEF Write
    <3>3. CASE UNCHANGED <<at, pos, failures, outcome, complete>>
      BY <1>4, <3>1, <3>3 DEF Write, TypeOK, SyncersOK
    <3>. QED  BY <1>4, <3>2, <3>3 DEF Write
  <2>2. written' \in [Artifacts -> Nat] /\ complete' \subseteq Artifacts
    BY <1>4, <1>b DEF Write, TypeOK
  <2>. QED  BY <1>4, <2>1, <2>2 DEF Write, TypeOK, SyncersOK
<1>5. CASE WriteRejects(s)
  <2>1. done' \in [Syncers -> Nat] /\ written' \in [Artifacts -> Nat]
    BY <1>5, <1>b, <1>c DEF WriteRejects, TypeOK
  <2>2. SyncersOK'
    BY <1>5, <1>a, <1>c, <2>1, GoesTyped DEF WriteRejects
  <2>. QED  BY <1>5, <2>1, <2>2 DEF WriteRejects, TypeOK, SyncersOK
<1>6. CASE MarkFailed(s)
  <2>1. SyncersOK'
    BY <1>6, <1>b, <1>c, TurnsTyped DEF MarkFailed
  <2>2. artifact' \in [Artifacts -> ArtifactStatus \cup {"absent"}]
    BY <1>6, <1>b DEF MarkFailed, TypeOK, ArtifactStatus
  <2>3. breaks' \in [Artifacts -> Nat]
    BY <1>6, BreaksTyped DEF MarkFailed
  <2>. QED  BY <1>6, <2>1, <2>2, <2>3 DEF MarkFailed, TypeOK, SyncersOK
<1>7. CASE MarkFind(s)
  <2>1. SyncersOK' /\ breaks' \in [Artifacts -> Nat]
    <3>1. CASE Ends(s, "escaped") /\ Breaks(s)
      BY <3>1, EndsTyped, BreaksTyped
    <3>2. CASE /\ \E to \in {"synced", "skipped"} : Goes(s, to)
               /\ read' = [read EXCEPT ![s] = artifact[Item(s)]]
               /\ UNCHANGED <<done, breaks>>
      <4>1. read' \in [Syncers -> ArtifactStatus \cup {"absent"}]
        BY <3>2, <1>b, <1>c
      <4>. QED  BY <3>2, <4>1, <1>a, <1>c, GoesTyped DEF TypeOK
    <3>. QED  BY <1>7, <3>1, <3>2 DEF MarkFind
  <2>. QED  BY <1>7, <2>1 DEF MarkFind, TypeOK, SyncersOK
<1>8. CASE MarkWrite(s)
  <2>1. SyncersOK'
    BY <1>8, <1>b, <1>c, TurnsTyped DEF MarkWrite
  <2>2. /\ artifact' \in [Artifacts -> ArtifactStatus \cup {"absent"}]
        /\ declined' \subseteq Artifacts
    BY <1>8, <1>b DEF MarkWrite, TypeOK, ArtifactStatus, Settled
  <2>. QED  BY <1>8, <2>1, <2>2 DEF MarkWrite, TypeOK, SyncersOK
<1>. QED  BY <1>1, <1>2, <1>3, <1>4, <1>5, <1>6, <1>7, <1>8 DEF Sync

LEMMA NextTyped ==
  ASSUME TypeOK, [Next]_vars
  PROVE  TypeOK'
<1>1. ASSUME NEW s \in Syncers, Begin(s)
      PROVE  TypeOK'
  <2>1. SyncersOK'
    BY <1>1, TurnsTyped DEF Begin, TypeOK
  <2>. QED  BY <1>1, <2>1 DEF Begin, TypeOK, SyncersOK
<1>2. ASSUME NEW s \in Syncers, Request(s)
      PROVE  TypeOK'
  <2>1. SyncersOK'
    <3>1. CASE Ends(s, "succeeded")
      BY <3>1, EndsTyped
    <3>2. CASE /\ at' = [at EXCEPT ![s] = "load"]
               /\ pos' = [pos EXCEPT ![s] = 1]
               /\ UNCHANGED <<done, read, failures, outcome>>
      <4>1. 1 \in DOMAIN Outputs[s]
        BY <1>2, SyncersAssumption, OutputTyping DEF Request
      <4>. QED  BY <3>2, <4>1 DEF TypeOK, SyncersOK
    <3>. QED  BY <1>2, <3>1, <3>2 DEF Request
  <2>. QED  BY <1>2, <2>1 DEF Request, TypeOK, SyncersOK
<1>3. ASSUME NEW s \in Syncers, Sync(s)
      PROVE  TypeOK'
  BY <1>3, SyncTyped
<1>4. ASSUME NEW s \in Syncers, Throws(s)
      PROVE  TypeOK'
  <2>1. SyncersOK' /\ breaks' \in [Artifacts -> Nat]
    BY <1>4, EndsTyped, BreaksTyped DEF Throws
  <2>. QED  BY <1>4, <2>1 DEF Throws, TypeOK, SyncersOK
<1>5. ASSUME NEW s \in Syncers, Crash(s)
      PROVE  TypeOK'
  <2>1. SyncersOK' /\ breaks' \in [Artifacts -> Nat]
    BY <1>5, StopsTyped, BreaksTyped DEF Crash, TypeOK
  <2>2. crashes' \in 0..MaxCrashes
    BY <1>5, SyncersAssumption DEF Crash, TypeOK
  <2>. QED  BY <1>5, <2>1, <2>2 DEF Crash, TypeOK, SyncersOK
<1>6. CASE UNCHANGED vars
  BY <1>6 DEF vars, TypeOK
<1>. QED  BY <1>1, <1>2, <1>3, <1>4, <1>5, <1>6 DEF Next

\* Every reachable state is well typed: a syncer at work is at one of its outputs.
THEOREM ArtifactTypeCorrect == Spec => []TypeOK
<1>1. Init => TypeOK
  BY InitTyped
<1>2. TypeOK /\ [Next]_vars => TypeOK'
  BY NextTyped
<1>. QED  BY <1>1, <1>2, PTL DEF Spec

-----------------------------------------------------------------------------
(* The invariant                                                            *)

\* No syncer but s moves.
OthersStay(s) ==
  \A t \in Syncers : t # s =>
    /\ at'[t] = at[t] /\ pos'[t] = pos[t] /\ outcome'[t] = outcome[t]
    /\ (t \in failures' <=> t \in failures)

LEMMA GoesAlone ==
  ASSUME TypeOK, NEW s \in Syncers, NEW to, Goes(s, to)
  PROVE  OthersStay(s) /\ at'[s] = to /\ UNCHANGED <<pos, failures, outcome>>
BY DEF Goes, OthersStay, TypeOK

LEMMA StopsAlone ==
  ASSUME TypeOK, NEW s \in Syncers, NEW to, NEW how, Stops(s, to),
         outcome' = [outcome EXCEPT ![s] = how]
  PROVE  OthersStay(s) /\ at'[s] = to /\ outcome'[s] = how
BY DEF Stops, OthersStay, TypeOK

LEMMA EndsAlone ==
  ASSUME TypeOK, NEW s \in Syncers, NEW how, Ends(s, how)
  PROVE  OthersStay(s) /\ at'[s] = "over" /\ outcome'[s] = how
BY StopsAlone DEF Ends

\* What is written or declined stays so.
LEMMA ServedStays ==
  ASSUME NEW o, complete \subseteq complete', declined \subseteq declined'
  PROVE  (Full(o) => Full(o)') /\ (Served(o) => Served(o)')
BY DEF Full, Served

\* It is enough to look at the rows and at the syncer that moves.
LEMMA OneMoves ==
  ASSUME ServedSoFar, NEW s \in Syncers, OthersStay(s),
         complete \subseteq complete', declined \subseteq declined',
         RowsTrue',
         at'[s] \in {"mark", "synced"} => Full(Item(s))',
         at'[s] # "over" => outcome'[s] = "none",
         s \in Jobs => \A i \in DOMAIN Outputs[s] : (Served(Outputs[s][i]) \/ Excused(s, i))'
  PROVE  ServedSoFar'
<1>1. ASSUME NEW t \in Syncers
      PROVE  (/\ at[t] \in {"mark", "synced"} => Full(Item(t))
              /\ at[t] # "over" => outcome[t] = "none")'
  <2>1. CASE t = s
    BY <2>1
  <2>2. CASE t # s
    BY <2>2 DEF ServedSoFar, WritesMade, OthersStay, Item, Full
  <2>. QED  BY <2>1, <2>2
<1>2. ASSUME NEW j \in Jobs, NEW i \in DOMAIN Outputs[j]
      PROVE  (Served(Outputs[j][i]) \/ Excused(j, i))'
  <2>1. CASE j = s
    BY <2>1
  <2>2. CASE j # s
    <3>1. Served(Outputs[j][i]) \/ Excused(j, i)
      BY DEF ServedSoFar, PastServed
    <3>2. Excused(j, i) => Excused(j, i)'
      BY <2>2 DEF Excused, OthersStay
    <3>. QED  BY <3>1, <3>2, ServedStays
  <2>. QED  BY <2>1, <2>2
<1>. QED  BY <1>1, <1>2 DEF ServedSoFar, WritesMade, PastServed

LEMMA GoesKeeps ==
  ASSUME TypeOK, ServedSoFar, NEW s \in Syncers, at[s] \notin {"off", "over"},
         NEW to \in {"create", "load", "write", "fail", "mark", "synced", "skip", "skipped"},
         Goes(s, to),
         complete \subseteq complete', declined \subseteq declined', RowsTrue',
         to \in {"mark", "synced"} => Full(Item(s))'
  PROVE  ServedSoFar'
<1>1. OthersStay(s) /\ at'[s] = to /\ UNCHANGED <<pos, failures, outcome>>
  BY GoesAlone
<1>2. outcome'[s] = "none"
  BY <1>1 DEF ServedSoFar, WritesMade
<1>3. ASSUME s \in Jobs, NEW i \in DOMAIN Outputs[s]
      PROVE  (Served(Outputs[s][i]) \/ Excused(s, i))'
  <2>1. Served(Outputs[s][i]) \/ Excused(s, i)
    BY <1>3 DEF ServedSoFar, PastServed
  <2>2. Excused(s, i) => Excused(s, i)'
    BY <1>1 DEF Excused
  <2>. QED  BY <2>1, <2>2, ServedStays
<1>4. at'[s] \in {"mark", "synced"} => Full(Item(s))'
  BY <1>1
<1>. QED  BY <1>1, <1>2, <1>3, <1>4, OneMoves

LEMMA EscapeKeeps ==
  ASSUME TypeOK, ServedSoFar, NEW s \in Syncers, Ends(s, "escaped"),
         complete \subseteq complete', declined \subseteq declined', RowsTrue'
  PROVE  ServedSoFar'
BY EndsAlone, OneMoves DEF Excused

\* Turning to the n-th output, s must leave the outputs before it served, or
\* count itself among the failures.
LEMMA TurnsKeeps ==
  ASSUME TypeOK, ServedSoFar, NEW s \in Syncers, at[s] # "over",
         NEW n \in Nat, NEW F, failures \subseteq F, F \subseteq failures \cup {s},
         Turns(s, n, F),
         complete \subseteq complete', declined \subseteq declined', RowsTrue',
         s \in Jobs => \A i \in DOMAIN Outputs[s] : i < n => Served(Outputs[s][i])' \/ s \in F
  PROVE  ServedSoFar'
<1>0. outcome[s] = "none"
  BY DEF ServedSoFar, WritesMade
<1>1. CASE n <= Len(Outputs[s])
  <2>1. /\ at' = [at EXCEPT ![s] = "find"] /\ pos' = [pos EXCEPT ![s] = n]
        /\ failures' = F /\ outcome' = outcome
    BY <1>1 DEF Turns
  <2>2. OthersStay(s) /\ at'[s] = "find" /\ pos'[s] = n
    BY <2>1 DEF OthersStay, TypeOK
  <2>3. ASSUME s \in Jobs, NEW i \in DOMAIN Outputs[s]
        PROVE  (Served(Outputs[s][i]) \/ Excused(s, i))'
    <3>1. i \in Nat
      BY OutputTyping
    <3>. QED  BY <2>1, <2>2, <2>3, <3>1 DEF Excused
  <2>. QED  BY <1>0, <2>1, <2>2, <2>3, OneMoves
<1>2. CASE ~(n <= Len(Outputs[s]))
  <2>1. Ends(s, IF s \in F THEN "failed" ELSE "succeeded")
    BY <1>2 DEF Turns
  <2>2. OthersStay(s) /\ at'[s] = "over" /\ outcome'[s] = IF s \in F THEN "failed" ELSE "succeeded"
    BY <2>1, EndsAlone
  <2>3. ASSUME s \in Jobs, NEW i \in DOMAIN Outputs[s]
        PROVE  (Served(Outputs[s][i]) \/ Excused(s, i))'
    <3>1. i < n
      BY <1>2, OutputTyping
    <3>. QED  BY <2>2, <2>3, <3>1 DEF Excused
  <2>. QED  BY <2>2, <2>3, OneMoves
<1>. QED  BY <1>1, <1>2

\* A syncer that is through with an output turns to the next one.
LEMMA NextOutputKeeps ==
  ASSUME TypeOK, ServedSoFar, NEW s \in Syncers, at[s] \notin {"off", "over"},
         NEW F, failures \subseteq F, F \subseteq failures \cup {s},
         Turns(s, pos[s] + 1, F),
         complete \subseteq complete', declined \subseteq declined', RowsTrue',
         NEW o, o = Item(s), Served(o)' \/ s \in F
  PROVE  ServedSoFar'
<1>a. pos[s] + 1 \in Nat /\ outcome[s] = "none" /\ at[s] # "over"
  BY DEF TypeOK, ServedSoFar, WritesMade
<1>1. ASSUME s \in Jobs, NEW i \in DOMAIN Outputs[s], i < pos[s] + 1
      PROVE  Served(Outputs[s][i])' \/ s \in F
  <2>1. i \in Nat /\ pos[s] \in Nat
    <3>1. i \in Nat
      BY <1>1, OutputTyping
    <3>. QED  BY <3>1 DEF TypeOK
  <2>2. CASE i = pos[s]
    BY <2>2 DEF Item
  <2>3. CASE i # pos[s]
    <3>1. ~(i >= pos[s])
      BY <1>1, <2>1, <2>3
    <3>2. Served(Outputs[s][i]) \/ Excused(s, i)
      BY <1>1 DEF ServedSoFar, PastServed
    <3>3. Excused(s, i) => s \in failures
      BY <3>1 DEF Excused
    <3>. QED  BY <3>2, <3>3, ServedStays
  <2>. QED  BY <2>2, <2>3
<1>. QED  BY <1>a, <1>1, TurnsKeeps

-----------------------------------------------------------------------------
LEMMA InitServed == Init => ServedSoFar
BY DEF Init, ServedSoFar, RowsTrue, WritesMade, PastServed, Excused

\* Rows that nobody touches go on telling the truth.
LEMMA RowsStay ==
  ASSUME ServedSoFar, UNCHANGED artifact,
         complete \subseteq complete', declined \subseteq declined'
  PROVE  RowsTrue'
BY DEF ServedSoFar, RowsTrue, Full

\* Nor does a row lie once it is written truthfully.
LEMMA RowsWritten ==
  ASSUME TypeOK, ServedSoFar, NEW o \in Artifacts, NEW new,
         artifact' = [artifact EXCEPT ![o] = new],
         complete \subseteq complete', declined \subseteq declined',
         new = "synced" => Full(o)', new = "skipped" => o \in declined'
  PROVE  RowsTrue'
BY DEF TypeOK, ServedSoFar, RowsTrue, Full

LEMMA AttemptsKeeps ==
  ASSUME TypeOK, ServedSoFar, NEW s \in Syncers, at[s] = "load", Attempts(s),
         UNCHANGED <<artifact, complete, declined>>
  PROVE  ServedSoFar'
<1>1. RowsTrue'
  BY RowsStay
<1>2. CASE Writes[Item(s)] = 0
  <2>1. Goes(s, "mark")
    BY <1>2 DEF Attempts, Choices
  <2>2. Full(Item(s))
    BY <1>2 DEF Full
  <2>3. Full(Item(s))'
    BY <2>1, <2>2, GoesAlone DEF Item, Full
  <2>. QED  BY <1>1, <2>1, <2>3, GoesKeeps
<1>3. CASE Writes[Item(s)] # 0
  <2>1. PICK to \in {"write", "skip"} : Goes(s, to)
    BY <1>3 DEF Attempts, Choices
  <2>. QED  BY <1>1, <2>1, GoesKeeps
<1>. QED  BY <1>2, <1>3

LEMMA SyncServed ==
  ASSUME TypeOK, ServedSoFar, NEW s \in Syncers, Sync(s)
  PROVE  ServedSoFar'
<1>a. at[s] \notin {"off", "over"}
  BY DEF Sync, FindExisting, Create, Load, Write, WriteRejects, MarkFailed, MarkFind, MarkWrite, Settled
<1>b. Item(s) \in Artifacts /\ pos[s] \in 1..Len(Outputs[s])
  BY <1>a, ItemTyping
<1>c. PICK o \in Artifacts : o = Item(s)
  BY <1>b
<1>1. CASE FindExisting(s)
  <2>1. UNCHANGED <<artifact, complete, declined>>
    BY <1>1 DEF FindExisting
  <2>2. PICK to \in {"create", "load"} : Goes(s, to)
    BY <1>1 DEF FindExisting
  <2>. QED  BY <1>a, <2>1, <2>2, RowsStay, GoesKeeps
<1>2. CASE Create(s)
  <2>1. UNCHANGED <<complete, declined>>
    BY <1>2 DEF Create
  <2>2. CASE artifact[Item(s)] = "absent"
    <3>1. artifact' = [artifact EXCEPT ![Item(s)] = "pending"] /\ Goes(s, "load")
      BY <1>2, <2>2 DEF Create
    <3>2. RowsTrue'
      BY <1>b, <2>1, <3>1, RowsWritten
    <3>. QED  BY <1>a, <2>1, <3>1, <3>2, GoesKeeps
  <2>3. CASE artifact[Item(s)] # "absent"
    <3>1. Ends(s, "escaped") /\ UNCHANGED artifact
      BY <1>2, <2>3 DEF Create
    <3>. QED  BY <2>1, <3>1, RowsStay, EscapeKeeps
  <2>. QED  BY <2>2, <2>3
<1>3. CASE Load(s)
  <2>1. UNCHANGED <<artifact, complete, declined>>
    BY <1>3 DEF Load
  <2>2. CASE artifact[Item(s)] \in Settled
    <3>1. Turns(s, pos[s] + 1, failures)
      BY <1>3, <2>2 DEF Load
    <3>2. Served(o)'
      BY <1>c, <2>1, <2>2 DEF Settled, Served, Full, ServedSoFar, RowsTrue
    <3>. QED  BY <1>a, <1>c, <2>1, <3>1, <3>2, RowsStay, NextOutputKeeps
  <2>3. CASE artifact[Item(s)] \notin Settled
    <3>1. Attempts(s) /\ at[s] = "load"
      BY <1>3, <2>3 DEF Load
    <3>. QED  BY <2>1, <3>1, AttemptsKeeps
  <2>. QED  BY <2>2, <2>3
<1>4. CASE Write(s)
  <2>1. UNCHANGED <<artifact, declined>> /\ complete \subseteq complete'
    BY <1>4 DEF Write
  <2>2. CASE done[s] + 1 = Writes[Item(s)]
    <3>1. Goes(s, "mark") /\ Item(s) \in complete'
      BY <1>4, <2>2 DEF Write
    <3>2. Full(Item(s))'
      BY <3>1, GoesAlone DEF Full, Item
    <3>. QED  BY <1>a, <2>1, <3>1, <3>2, RowsStay, GoesKeeps
  <2>3. CASE done[s] + 1 # Writes[Item(s)]
    <3>1. UNCHANGED <<at, pos, failures, outcome>>
      BY <1>4, <2>3 DEF Write
    <3>2. OthersStay(s)
      BY <3>1 DEF OthersStay
    <3>3. RowsTrue' /\ at'[s] = "write" /\ outcome'[s] = "none"
      BY <1>4, <2>1, <3>1, RowsStay DEF Write, ServedSoFar, WritesMade
    <3>4. ASSUME s \in Jobs, NEW i \in DOMAIN Outputs[s]
          PROVE  (Served(Outputs[s][i]) \/ Excused(s, i))'
      <4>1. Served(Outputs[s][i]) \/ Excused(s, i)
        BY <3>4 DEF ServedSoFar, PastServed
      <4>2. Excused(s, i) => Excused(s, i)'
        BY <3>1 DEF Excused
      <4>. QED  BY <2>1, <4>1, <4>2, ServedStays
    <3>. QED  BY <2>1, <3>2, <3>3, <3>4, OneMoves
  <2>. QED  BY <2>2, <2>3
<1>5. CASE WriteRejects(s)
  <2>1. UNCHANGED <<artifact, complete, declined>> /\ Goes(s, "fail")
    BY <1>5 DEF WriteRejects
  <2>. QED  BY <1>a, <2>1, RowsStay, GoesKeeps
<1>6. CASE MarkFailed(s)
  <2>1. /\ artifact' = [artifact EXCEPT ![Item(s)] = "failed"]
        /\ Turns(s, pos[s] + 1, failures \cup {s})
        /\ UNCHANGED <<complete, declined>>
    BY <1>6 DEF MarkFailed
  <2>2. RowsTrue'
    BY <1>b, <2>1, RowsWritten
  <2>. QED  BY <1>a, <1>c, <2>1, <2>2, NextOutputKeeps
<1>7. CASE MarkFind(s)
  <2>1. UNCHANGED <<artifact, complete, declined>>
    BY <1>7 DEF MarkFind
  <2>2. RowsTrue'
    BY <2>1, RowsStay
  <2>3. CASE Ends(s, "escaped")
    BY <2>1, <2>2, <2>3, EscapeKeeps
  <2>4. CASE at[s] = "mark" /\ Goes(s, "synced")
    <3>1. Full(Item(s))'
      BY <2>1, <2>4, GoesAlone DEF ServedSoFar, WritesMade, Full, Item
    <3>. QED  BY <1>a, <2>1, <2>2, <2>4, <3>1, GoesKeeps
  <2>5. CASE Goes(s, "skipped")
    BY <1>a, <2>1, <2>2, <2>5, GoesKeeps
  <2>. QED  BY <1>7, <2>3, <2>4, <2>5 DEF MarkFind
<1>8. CASE MarkWrite(s)
  <2>1. /\ artifact' = [artifact EXCEPT ![Item(s)] = at[s]]
        /\ Turns(s, pos[s] + 1, failures)
        /\ complete' = complete
        /\ declined \subseteq declined'
        /\ at[s] \in {"synced", "skipped"}
    BY <1>8 DEF MarkWrite, Settled
  <2>2. /\ at[s] = "synced" => Full(o)'
        /\ at[s] = "skipped" => o \in declined'
    BY <1>8, <1>c, <2>1 DEF MarkWrite, ServedSoFar, WritesMade, Full
  <2>3. RowsTrue'
    BY <1>c, <2>1, <2>2, RowsWritten
  <2>4. Served(o)'
    BY <2>1, <2>2 DEF Served
  <2>. QED  BY <1>a, <1>c, <2>1, <2>3, <2>4, NextOutputKeeps
<1>. QED  BY <1>1, <1>2, <1>3, <1>4, <1>5, <1>6, <1>7, <1>8 DEF Sync

LEMMA NextServed ==
  ASSUME TypeOK, ServedSoFar, [Next]_vars
  PROVE  ServedSoFar'
<1>1. ASSUME NEW s \in Syncers, Begin(s)
      PROVE  ServedSoFar'
  <2>1. /\ at[s] = "off" /\ Turns(s, 1, failures)
        /\ UNCHANGED <<artifact, complete, declined>>
    BY <1>1 DEF Begin
  <2>2. \A i \in DOMAIN Outputs[s] : ~(i < 1)
    BY OutputTyping
  <2>. QED  BY <2>1, <2>2, RowsStay, TurnsKeeps
<1>2. ASSUME NEW s \in Syncers, Request(s)
      PROVE  ServedSoFar'
  <2>1. UNCHANGED <<artifact, complete, declined>> /\ at[s] = "off" /\ s \notin Jobs
    BY <1>2, SyncersAssumption DEF Request
  <2>2. RowsTrue'
    BY <2>1, RowsStay
  <2>3. CASE Ends(s, "succeeded")
    BY <2>1, <2>2, <2>3, EndsAlone, OneMoves
  <2>4. CASE /\ at' = [at EXCEPT ![s] = "load"] /\ pos' = [pos EXCEPT ![s] = 1]
             /\ UNCHANGED <<failures, outcome>>
    <3>1. OthersStay(s) /\ at'[s] = "load" /\ outcome'[s] = "none"
      BY <2>1, <2>4 DEF OthersStay, TypeOK, ServedSoFar, WritesMade
    <3>. QED  BY <2>1, <2>2, <3>1, OneMoves
  <2>. QED  BY <1>2, <2>3, <2>4 DEF Request
<1>3. ASSUME NEW s \in Syncers, Sync(s)
      PROVE  ServedSoFar'
  BY <1>3, SyncServed
<1>4. ASSUME NEW s \in Syncers, Throws(s)
      PROVE  ServedSoFar'
  <2>1. UNCHANGED <<artifact, complete, declined>> /\ Ends(s, "escaped")
    BY <1>4 DEF Throws
  <2>. QED  BY <2>1, RowsStay, EscapeKeeps
<1>5. ASSUME NEW s \in Syncers, Crash(s)
      PROVE  ServedSoFar'
  <2>1. /\ UNCHANGED <<artifact, complete, declined, outcome>>
        /\ at[s] # "over"
        /\ Stops(s, IF s \in Jobs THEN "off" ELSE "over")
    BY <1>5 DEF Crash
  <2>2. outcome[s] = "none" /\ outcome' = [outcome EXCEPT ![s] = "none"]
    BY <2>1 DEF ServedSoFar, WritesMade, TypeOK
  <2>3. OthersStay(s) /\ at'[s] = (IF s \in Jobs THEN "off" ELSE "over") /\ outcome'[s] = "none"
    BY <2>1, <2>2, StopsAlone
  <2>. QED  BY <2>1, <2>3, RowsStay, OneMoves DEF Excused
<1>6. CASE UNCHANGED vars
  BY <1>6 DEF vars, ServedSoFar, RowsTrue, WritesMade, PastServed, Served, Full, Excused, Item
<1>. QED  BY <1>1, <1>2, <1>3, <1>4, <1>5, <1>6 DEF Next

\* The invariant behind the two theorems below, for any number of interrupted,
\* repeated and concurrent syncers.
THEOREM ServedInvariant == Spec => [](TypeOK /\ ServedSoFar)
<1>1. Init => TypeOK /\ ServedSoFar
  BY InitTyped, InitServed
<1>2. TypeOK /\ ServedSoFar /\ [Next]_vars => (TypeOK /\ ServedSoFar)'
  BY NextTyped, NextServed
<1>. QED  BY <1>1, <1>2, PTL DEF Spec

\* A row says synced only when one syncer wrote its content completely.
THEOREM SyncedRowsAreWritten == Spec => []SyncedIsWritten
<1>1. ServedSoFar => SyncedIsWritten
  BY DEF ServedSoFar, RowsTrue, SyncedIsWritten
<1>. QED  BY <1>1, ServedInvariant, PTL

\* A job that lets its run succeed has left every output of it written or declined.
THEOREM SucceededRunsAreServed == Spec => []SucceededIsServed
<1>1. ASSUME ServedSoFar
      PROVE  SucceededIsServed
  <2>1. ASSUME NEW j \in Jobs, outcome[j] = "succeeded", NEW i \in DOMAIN Outputs[j]
        PROVE  Served(Outputs[j][i])
    <3>1. at[j] = "over"
      BY <1>1, <2>1 DEF ServedSoFar, WritesMade
    <3>. QED  BY <1>1, <2>1, <3>1 DEF ServedSoFar, PastServed, Excused
  <2>. QED  BY <2>1 DEF SucceededIsServed, Served
<1>. QED  BY <1>1, ServedInvariant, PTL

-----------------------------------------------------------------------------
(* Repeated writes                                                          *)

On(s, o) == Attempting(s) /\ Item(s) = o

\* The writes the syncers at o may still make in the attempts they are in.
Open(o) ==
  {w \in Syncers \X Nat :
     at[w[1]] = "write" /\ Item(w[1]) = o /\ done[w[1]] <= w[2] /\ w[2] < Writes[o]}

\* Nobody is at o and the next syncer to load its row will be.
Awaiting(o) == artifact[o] \notin Settled /\ ~\E s \in Syncers : On(s, o)

\* What o may have been written: one attempt's writes, and as many for each
\* attempt that overlapped another or broke off.
Allowance(o) == Writes[o] * (1 + overlaps[o] + breaks[o])

\* The writes made, those open, and those of the attempt to come if one is due,
\* are within what o may be written.  An attempt that neither overlaps nor
\* breaks off settles the row, and then none is due.
Paid(o) ==
  /\ IsFiniteSet(Open(o))
  /\ written[o] + Cardinality(Open(o)) + (IF Awaiting(o) THEN Writes[o] ELSE 0) <= Allowance(o)

\* A syncer that is writing has a write left; the count starts anew elsewhere.
CountsWrites ==
  \A s \in Syncers : IF at[s] = "write" THEN done[s] < Writes[Item(s)] ELSE done[s] = 0

Budget == CountsWrites /\ \A o \in Artifacts : Paid(o)

LEMMA AllowanceTyped ==
  ASSUME TypeOK, NEW o \in Artifacts
  PROVE  Allowance(o) \in Nat /\ Writes[o] \in Nat /\ written[o] \in Nat
<1>1. Writes[o] \in Nat /\ 1 + overlaps[o] + breaks[o] \in Nat /\ written[o] \in Nat
  BY SyncersAssumption DEF TypeOK
<1>. QED  BY <1>1 DEF Allowance

\* Each attempt that overlaps or breaks off pays for another.
LEMMA AllowanceGrows ==
  ASSUME TypeOK, TypeOK', NEW o \in Artifacts,
         overlaps'[o] + breaks'[o] = overlaps[o] + breaks[o] + 1
  PROVE  Allowance(o)' = Allowance(o) + Writes[o]
<1>1. PICK w \in Nat : w = Writes[o]
  BY SyncersAssumption
<1>2. PICK n \in Nat : n = 1 + overlaps[o] + breaks[o]
  BY DEF TypeOK
<1>3. n + 1 = 1 + overlaps'[o] + breaks'[o]
  BY <1>2 DEF TypeOK
<1>4. w * (n + 1) = w * n + w
  OBVIOUS
<1>. QED  BY <1>1, <1>2, <1>3, <1>4 DEF Allowance

\* s moves alone, and no other syncer comes to a content or leaves one.
MovesAlone(s) == OthersStay(s) /\ \A t \in Syncers : t # s => done'[t] = done[t]

LEMMA OthersOn ==
  ASSUME NEW s \in Syncers, MovesAlone(s), NEW t \in Syncers, t # s, NEW o
  PROVE  On(t, o)' <=> On(t, o)
BY DEF MovesAlone, OthersStay, On, Attempting, Item

LEMMA OthersOpen ==
  ASSUME NEW s \in Syncers, MovesAlone(s), NEW o, NEW w, w[1] # s
  PROVE  w \in Open(o)' <=> w \in Open(o)
BY DEF MovesAlone, OthersStay, Open, Item

\* Only a syncer that is writing o has writes of o open.
LEMMA OpenIsOn ==
  ASSUME NEW o, NEW w \in Open(o)
  PROVE  w \in Syncers \X Nat /\ w[1] \in Syncers /\ On(w[1], o) /\ at[w[1]] = "write"
BY DEF Open, On, Attempting

LEMMA OpenIsOnNext ==
  ASSUME NEW o, NEW w \in Open(o)'
  PROVE  w \in Syncers \X Nat /\ w[1] \in Syncers /\ On(w[1], o)' /\ at'[w[1]] = "write"
BY DEF Open, On, Attempting

\* A step that leaves a content alone.
LEMMA PaidElsewhere ==
  ASSUME TypeOK, NEW o \in Artifacts, Paid(o), NEW s \in Syncers, MovesAlone(s),
         ~On(s, o), ~On(s, o)',
         written'[o] = written[o], overlaps'[o] = overlaps[o], breaks'[o] = breaks[o],
         artifact'[o] \in Settled <=> artifact[o] \in Settled
  PROVE  Paid(o)'
<1>1. Open(o)' = Open(o)
  <2>1. ASSUME NEW w \in Open(o)' PROVE w \in Open(o)
    BY OpenIsOnNext, OthersOpen
  <2>2. ASSUME NEW w \in Open(o) PROVE w \in Open(o)'
    BY OpenIsOn, OthersOpen
  <2>. QED  BY <2>1, <2>2
<1>2. Awaiting(o)' <=> Awaiting(o)
  BY OthersOn DEF Awaiting
<1>3. Allowance(o)' = Allowance(o)
  BY DEF Allowance
<1>. QED  BY <1>1, <1>2, <1>3 DEF Paid

\* No more writes open than before.
LEMMA OpenShrinks ==
  ASSUME NEW o, IsFiniteSet(Open(o)), NEW S, S \subseteq Open(o)
  PROVE  IsFiniteSet(S) /\ Cardinality(S) \in Nat /\ Cardinality(Open(o)) \in Nat
         /\ Cardinality(S) <= Cardinality(Open(o))
BY FS_Subset, FS_CardinalityType

\* A syncer that leaves a content has no write of it open.
LEMMA OpenAfterLeaving ==
  ASSUME NEW o, NEW s \in Syncers, MovesAlone(s), ~On(s, o)'
  PROVE  Open(o)' \subseteq Open(o)
BY OpenIsOnNext, OthersOpen

\* An attempt breaks off: it pays for the one that comes after it.
LEMMA PaidBreaking ==
  ASSUME TypeOK, TypeOK', NEW o \in Artifacts, Paid(o), NEW s \in Syncers, MovesAlone(s),
         ~On(s, o)', written'[o] = written[o],
         overlaps'[o] = overlaps[o], breaks'[o] = breaks[o] + 1
  PROVE  Paid(o)'
<1>1. PICK S : S = Open(o)'
  OBVIOUS
<1>2. S \subseteq Open(o)
  BY <1>1, OpenAfterLeaving
<1>3. /\ IsFiniteSet(S) /\ Cardinality(S) \in Nat /\ Cardinality(Open(o)) \in Nat
      /\ Cardinality(S) <= Cardinality(Open(o))
  BY <1>2, OpenShrinks DEF Paid
<1>4. Allowance(o)' = Allowance(o) + Writes[o]
  <2>1. overlaps'[o] + breaks'[o] = overlaps[o] + breaks[o] + 1
    BY DEF TypeOK
  <2>. QED  BY <2>1, AllowanceGrows
<1>5. written[o] + Cardinality(S) + (IF Awaiting(o)' THEN Writes[o] ELSE 0) <= Allowance(o)'
  BY <1>3, <1>4, AllowanceTyped DEF Paid
<1>. QED  BY <1>1, <1>3, <1>5 DEF Paid

\* An attempt settles its row: no other is due.
LEMMA PaidSettling ==
  ASSUME TypeOK, NEW o \in Artifacts, Paid(o), NEW s \in Syncers, MovesAlone(s),
         ~On(s, o)', artifact'[o] \in Settled, written'[o] = written[o],
         overlaps'[o] = overlaps[o], breaks'[o] = breaks[o]
  PROVE  Paid(o)'
<1>1. PICK S : S = Open(o)'
  OBVIOUS
<1>2. S \subseteq Open(o)
  BY <1>1, OpenAfterLeaving
<1>3. /\ IsFiniteSet(S) /\ Cardinality(S) \in Nat /\ Cardinality(Open(o)) \in Nat
      /\ Cardinality(S) <= Cardinality(Open(o))
  BY <1>2, OpenShrinks DEF Paid
<1>4. Allowance(o)' = Allowance(o) /\ ~Awaiting(o)'
  BY DEF Allowance, Awaiting
<1>5. written[o] + Cardinality(S) <= Allowance(o)
  BY <1>3, AllowanceTyped DEF Paid
<1>. QED  BY <1>1, <1>3, <1>4, <1>5, AllowanceTyped DEF Paid

\* An attempt goes on and makes no write.
LEMMA PaidGoingOn ==
  ASSUME TypeOK, NEW o \in Artifacts, Paid(o), NEW s \in Syncers, On(s, o), On(s, o)',
         Open(o)' \subseteq Open(o), written'[o] = written[o],
         overlaps'[o] = overlaps[o], breaks'[o] = breaks[o]
  PROVE  Paid(o)'
<1>1. PICK S : S = Open(o)'
  OBVIOUS
<1>3. /\ IsFiniteSet(S) /\ Cardinality(S) \in Nat /\ Cardinality(Open(o)) \in Nat
      /\ Cardinality(S) <= Cardinality(Open(o))
  BY <1>1, OpenShrinks DEF Paid
<1>4. Allowance(o)' = Allowance(o) /\ ~Awaiting(o)' /\ ~Awaiting(o)
  BY DEF Allowance, Awaiting
<1>5. written[o] + Cardinality(S) <= Allowance(o)
  BY <1>3, <1>4, AllowanceTyped DEF Paid
<1>. QED  BY <1>1, <1>3, <1>4, <1>5, AllowanceTyped DEF Paid

\* An attempt makes a write, which is open no more.
LEMMA PaidWriting ==
  ASSUME TypeOK, NEW o \in Artifacts, Paid(o), NEW s \in Syncers, On(s, o), On(s, o)',
         NEW w \in Open(o), Open(o)' \subseteq Open(o) \ {w}, written'[o] = written[o] + 1,
         overlaps'[o] = overlaps[o], breaks'[o] = breaks[o]
  PROVE  Paid(o)'
<1>1. PICK S : S = Open(o)'
  OBVIOUS
<1>2. /\ IsFiniteSet(Open(o) \ {w}) /\ Cardinality(Open(o) \ {w}) = Cardinality(Open(o)) - 1
      /\ Cardinality(Open(o)) \in Nat
  BY FS_RemoveElement, FS_CardinalityType DEF Paid
<1>3. /\ IsFiniteSet(S) /\ Cardinality(S) \in Nat /\ Cardinality(S) <= Cardinality(Open(o)) - 1
  BY <1>1, <1>2, FS_Subset, FS_CardinalityType
<1>4. Allowance(o)' = Allowance(o) /\ ~Awaiting(o)' /\ ~Awaiting(o)
  BY DEF Allowance, Awaiting
<1>5. written[o] + 1 + Cardinality(S) <= Allowance(o)
  BY <1>2, <1>3, <1>4, AllowanceTyped DEF Paid
<1>. QED  BY <1>1, <1>3, <1>4, <1>5, AllowanceTyped DEF Paid

\* The writes of one attempt are as many as the content needs.
LEMMA OneAttempt ==
  ASSUME NEW s \in Syncers, NEW n \in Nat, NEW A, A = {s} \X (0..(n - 1))
  PROVE  IsFiniteSet(A) /\ Cardinality(A) = n
<1>1. IsFiniteSet(0..(n - 1)) /\ Cardinality(0..(n - 1)) = n
  BY FS_Interval
<1>2. IsFiniteSet({s}) /\ Cardinality({s}) = 1
  BY FS_Singleton
<1>3. IsFiniteSet(A) /\ Cardinality(A) = Cardinality({s}) * Cardinality(0..(n - 1))
  BY <1>1, <1>2, FS_Product
<1>. QED  BY <1>1, <1>2, <1>3

\* An attempt begins: it was due, or it overlaps another.
LEMMA PaidBeginning ==
  ASSUME TypeOK, TypeOK', NEW o \in Artifacts, Paid(o), NEW s \in Syncers, MovesAlone(s),
         On(s, o)', artifact[o] \notin Settled,
         written'[o] = written[o], breaks'[o] = breaks[o],
         IF \E t \in Syncers : t # s /\ On(t, o)
           THEN overlaps'[o] = overlaps[o] + 1
           ELSE overlaps'[o] = overlaps[o] /\ ~On(s, o)
  PROVE  Paid(o)'
<1>1. PICK S : S = Open(o)'
  OBVIOUS
<1>2. PICK A : A = {s} \X (0..(Writes[o] - 1))
  OBVIOUS
<1>3. IsFiniteSet(A) /\ Cardinality(A) = Writes[o]
  BY <1>2, OneAttempt, AllowanceTyped
<1>4. S \subseteq Open(o) \cup A
  <2>1. ASSUME NEW w \in S, w[1] # s PROVE w \in Open(o)
    BY <1>1, <2>1, OthersOpen
  <2>2. ASSUME NEW w \in S, w[1] = s PROVE w \in A
    <3>1. w \in Syncers \X Nat /\ w[2] < Writes[o]
      BY <1>1 DEF Open
    <3>2. w = <<s, w[2]>> /\ w[2] \in Nat
      BY <2>2, <3>1
    <3>3. w[2] \in 0..(Writes[o] - 1)
      BY <3>1, <3>2, AllowanceTyped
    <3>. QED  BY <1>2, <3>2, <3>3
  <2>. QED  BY <2>1, <2>2
<1>5. /\ IsFiniteSet(Open(o) \cup A) /\ Cardinality(Open(o)) \in Nat
      /\ Cardinality(Open(o) \cup A) <= Cardinality(Open(o)) + Writes[o]
      /\ Cardinality(Open(o) \cup A) \in Nat
  <2>1. /\ IsFiniteSet(Open(o) \cup A) /\ Cardinality(Open(o) \cap A) \in Nat
        /\ Cardinality(Open(o) \cup A)
             = Cardinality(Open(o)) + Cardinality(A) - Cardinality(Open(o) \cap A)
    BY <1>3, FS_Union, FS_Intersection, FS_CardinalityType DEF Paid
  <2>2. Cardinality(Open(o)) \in Nat /\ Cardinality(Open(o) \cup A) \in Nat
    BY <2>1, FS_CardinalityType DEF Paid
  <2>. QED  BY <1>3, <2>1, <2>2, AllowanceTyped
<1>6. IsFiniteSet(S) /\ Cardinality(S) \in Nat
      /\ Cardinality(S) <= Cardinality(Open(o)) + Writes[o]
  <2>1. IsFiniteSet(S) /\ Cardinality(S) \in Nat /\ Cardinality(S) <= Cardinality(Open(o) \cup A)
    BY <1>4, <1>5, FS_Subset, FS_CardinalityType
  <2>. QED  BY <1>5, <2>1, AllowanceTyped
<1>7. ~Awaiting(o)'
  BY DEF Awaiting
<1>8. written[o] + Cardinality(S) <= Allowance(o)'
  <2>1. CASE \E t \in Syncers : t # s /\ On(t, o)
    <3>1. ~Awaiting(o)
      BY <2>1 DEF Awaiting
    <3>2. overlaps'[o] + breaks'[o] = overlaps[o] + breaks[o] + 1
      BY <2>1 DEF TypeOK
    <3>3. Allowance(o)' = Allowance(o) + Writes[o]
      BY <3>2, AllowanceGrows
    <3>. QED  BY <1>5, <1>6, <3>1, <3>3, AllowanceTyped DEF Paid
  <2>2. CASE ~\E t \in Syncers : t # s /\ On(t, o)
    <3>1. Awaiting(o) /\ Allowance(o)' = Allowance(o)
      BY <2>2 DEF Awaiting, Allowance
    <3>. QED  BY <1>5, <1>6, <3>1, AllowanceTyped DEF Paid
  <2>. QED  BY <2>1, <2>2
<1>. QED  BY <1>1, <1>6, <1>7, <1>8, AllowanceTyped DEF Paid

-----------------------------------------------------------------------------
LEMMA GoesMoves ==
  ASSUME TypeOK, NEW s \in Syncers, NEW to, Goes(s, to),
         done' = done \/ \E n : done' = [done EXCEPT ![s] = n]
  PROVE  MovesAlone(s) /\ at'[s] = to /\ pos' = pos /\ Item(s)' = Item(s)
BY GoesAlone DEF MovesAlone, TypeOK, Item

LEMMA StopsMoves ==
  ASSUME TypeOK, NEW s \in Syncers, NEW to, Stops(s, to),
         outcome' = outcome \/ \E how : outcome' = [outcome EXCEPT ![s] = how]
  PROVE  MovesAlone(s) /\ at'[s] = to /\ done'[s] = 0
BY DEF Stops, OthersStay, TypeOK, MovesAlone

LEMMA EndsMoves ==
  ASSUME TypeOK, NEW s \in Syncers, NEW how, Ends(s, how)
  PROVE  MovesAlone(s) /\ at'[s] = "over" /\ done'[s] = 0
BY StopsMoves DEF Ends

LEMMA TurnsMoves ==
  ASSUME TypeOK, NEW s \in Syncers, NEW n, NEW F, failures \subseteq F, F \subseteq failures \cup {s},
         Turns(s, n, F)
  PROVE  MovesAlone(s) /\ at'[s] \in {"find", "over"} /\ done'[s] = 0
<1>1. CASE n <= Len(Outputs[s])
  BY <1>1 DEF Turns, MovesAlone, OthersStay, TypeOK
<1>2. CASE ~(n <= Len(Outputs[s]))
  BY <1>2, EndsMoves DEF Turns
<1>. QED  BY <1>1, <1>2

\* The counts of the others stand.
LEMMA CountsStay ==
  ASSUME CountsWrites, NEW s \in Syncers, MovesAlone(s),
         IF at'[s] = "write" THEN done'[s] < Writes[Item(s)'] ELSE done'[s] = 0
  PROVE  CountsWrites'
<1>1. ASSUME NEW t \in Syncers, t # s
      PROVE  (IF at[t] = "write" THEN done[t] < Writes[Item(t)] ELSE done[t] = 0)'
  BY <1>1 DEF CountsWrites, MovesAlone, OthersStay, Item
<1>. QED  BY <1>1 DEF CountsWrites

\* What a step of s leaves as it is: every content s is not at, before or after.
Leaves(o) ==
  /\ written'[o] = written[o] /\ overlaps'[o] = overlaps[o] /\ breaks'[o] = breaks[o]
  /\ artifact'[o] \in Settled <=> artifact[o] \in Settled

\* A step of s between its attempts.
LEMMA BetweenAttempts ==
  ASSUME TypeOK, Budget, NEW s \in Syncers, MovesAlone(s),
         ~Attempting(s), at'[s] \in {"off", "find", "create", "load", "over"}, done'[s] = 0,
         \A o \in Artifacts : Leaves(o)
  PROVE  Budget'
<1>1. CountsWrites'
  BY CountsStay DEF Budget
<1>2. ASSUME NEW o \in Artifacts
      PROVE  Paid(o)'
  BY <1>2, PaidElsewhere DEF Budget, On, Attempting, Leaves
<1>. QED  BY <1>1, <1>2 DEF Budget

\* A step of s within an attempt, or at the end of one.
LEMMA WithinAttempt ==
  ASSUME TypeOK, Budget, NEW s \in Syncers, MovesAlone(s),
         Attempting(s)' => Item(s)' = Item(s),
         IF at'[s] = "write" THEN done'[s] < Writes[Item(s)'] ELSE done'[s] = 0,
         NEW i \in Artifacts, i = Item(s), Paid(i)',
         \A o \in Artifacts : o # i => Leaves(o)
  PROVE  Budget'
<1>1. CountsWrites'
  BY CountsStay DEF Budget
<1>2. ASSUME NEW o \in Artifacts, o # i
      PROVE  Paid(o)'
  <2>1. ~On(s, o) /\ ~On(s, o)'
    BY <1>2 DEF On
  <2>. QED  BY <1>2, <2>1, PaidElsewhere DEF Budget, Leaves
<1>. QED  BY <1>1, <1>2 DEF Budget

LEMMA BreaksPays ==
  ASSUME TypeOK, NEW s \in Syncers, Breaks(s), NEW i \in Artifacts, i = Item(s)
  PROVE  /\ Attempting(s) => breaks'[i] = breaks[i] + 1
         /\ ~Attempting(s) => breaks' = breaks
         /\ \A o \in Artifacts : o # i => breaks'[o] = breaks[o]
BY DEF Breaks, TypeOK

\* s leaves what it is at unfinished, if it is at something.
LEMMA BreaksKeeps ==
  ASSUME TypeOK, TypeOK', Budget, NEW s \in Syncers, at[s] \notin {"off", "over"},
         MovesAlone(s), Breaks(s),
         at'[s] \in {"off", "find", "over"}, done'[s] = 0,
         written' = written, overlaps' = overlaps,
         \A o \in Artifacts : o # Item(s) => artifact'[o] = artifact[o],
         Attempting(s) \/ artifact' = artifact
  PROVE  Budget'
<1>1. PICK i \in Artifacts : i = Item(s)
  BY ItemTyping
<1>2. /\ Attempting(s) => breaks'[i] = breaks[i] + 1
      /\ ~Attempting(s) => breaks' = breaks
      /\ \A o \in Artifacts : o # i => breaks'[o] = breaks[o]
  BY <1>1, BreaksPays
<1>3. \A o \in Artifacts : o # i => Leaves(o)
  BY <1>1, <1>2 DEF Leaves
<1>4. ~Attempting(s)' /\ at'[s] # "write"
  BY DEF Attempting
<1>5. CASE Attempting(s)
  <2>1. Paid(i)'
    BY <1>1, <1>2, <1>4, <1>5, PaidBreaking DEF Budget, On
  <2>. QED  BY <1>1, <1>3, <1>4, <2>1, WithinAttempt
<1>6. CASE ~Attempting(s)
  <2>1. \A o \in Artifacts : Leaves(o)
    BY <1>2, <1>6 DEF Leaves
  <2>. QED  BY <1>6, <2>1, BetweenAttempts
<1>. QED  BY <1>5, <1>6

LEMMA LoadPays ==
  ASSUME TypeOK, TypeOK', Budget, NEW s \in Syncers, Load(s)
  PROVE  Budget'
<1>1. PICK i \in Artifacts : i = Item(s)
  BY ItemTyping DEF Load
<1>2. /\ UNCHANGED <<artifact, written, breaks>> /\ ~Attempting(s) /\ at[s] = "load"
  BY DEF Load, Attempting
<1>3. CASE artifact[i] \in Settled
  <2>1. Turns(s, pos[s] + 1, failures) /\ UNCHANGED overlaps
    BY <1>1, <1>3 DEF Load
  <2>2. MovesAlone(s) /\ at'[s] \in {"find", "over"} /\ done'[s] = 0
    BY <2>1, TurnsMoves
  <2>. QED  BY <1>2, <2>1, <2>2, BetweenAttempts DEF Leaves
<1>4. CASE artifact[i] \notin Settled
  <2>1. Attempts(s)
    BY <1>1, <1>4 DEF Load
  <2>2. PICK to \in Choices(i) : Goes(s, to)
    BY <1>1, <2>1 DEF Attempts
  <2>3. MovesAlone(s) /\ at'[s] = to /\ Item(s)' = i /\ done' = done
    BY <1>1, <2>1, <2>2, GoesMoves DEF Attempts
  <2>4. to \in {"write", "mark", "skip"} /\ (to = "write" => Writes[i] # 0)
    BY <2>2 DEF Choices
  <2>5. done'[s] = 0 /\ (to = "write" => 0 < Writes[i])
    BY <1>1, <1>2, <2>3, <2>4, AllowanceTyped DEF Budget, CountsWrites
  <2>6. On(s, i)' /\ ~On(s, i)
    BY <1>2, <2>3, <2>4 DEF On, Attempting
  <2>7. /\ IF \E t \in Syncers : t # s /\ On(t, i)
             THEN overlaps'[i] = overlaps[i] + 1 ELSE overlaps'[i] = overlaps[i]
        /\ \A o \in Artifacts : o # i => overlaps'[o] = overlaps[o]
    BY <1>1, <2>1 DEF Attempts, On, TypeOK
  <2>8. Paid(i)'
    BY <1>2, <1>4, <2>3, <2>6, <2>7, PaidBeginning DEF Budget
  <2>9. \A o \in Artifacts : o # i => Leaves(o)
    BY <1>2, <2>7 DEF Leaves
  <2>10. IF at'[s] = "write" THEN done'[s] < Writes[Item(s)'] ELSE done'[s] = 0
    BY <2>3, <2>5
  <2>. QED  BY <1>1, <2>3, <2>8, <2>9, <2>10, WithinAttempt
<1>. QED  BY <1>3, <1>4

\* The next write of a syncer that is writing is open.
LEMMA NextWriteOpen ==
  ASSUME TypeOK, Budget, NEW s \in Syncers, at[s] = "write", NEW i, i = Item(s)
  PROVE  <<s, done[s]>> \in Open(i) /\ done[s] \in Nat
BY DEF TypeOK, Budget, CountsWrites, Open

LEMMA WritePays ==
  ASSUME TypeOK, TypeOK', Budget, NEW s \in Syncers, Write(s)
  PROVE  Budget'
<1>1. PICK i \in Artifacts : i = Item(s)
  BY ItemTyping DEF Write
<1>2. /\ UNCHANGED <<artifact, overlaps, breaks>> /\ at[s] = "write"
      /\ written'[i] = written[i] + 1 /\ \A o \in Artifacts : o # i => written'[o] = written[o]
  BY <1>1 DEF Write, TypeOK
<1>3. PICK w : w = <<s, done[s]>>
  OBVIOUS
<1>4. w \in Open(i) /\ On(s, i) /\ done[s] \in Nat /\ done[s] < Writes[i] /\ Writes[i] \in Nat
  BY <1>1, <1>2, <1>3, NextWriteOpen, AllowanceTyped DEF On, Attempting, Budget, CountsWrites
<1>5. \A o \in Artifacts : o # i => Leaves(o)
  BY <1>2 DEF Leaves
<1>6. CASE done[s] + 1 = Writes[i]
  <2>1. Goes(s, "mark") /\ done' = [done EXCEPT ![s] = 0]
    BY <1>1, <1>6 DEF Write
  <2>2. MovesAlone(s) /\ at'[s] = "mark" /\ Item(s)' = i /\ done'[s] = 0
    BY <1>1, <2>1, GoesMoves DEF TypeOK
  <2>3. On(s, i)'
    BY <2>2 DEF On, Attempting
  <2>4. Open(i)' \subseteq Open(i) \ {w}
    <3>1. ASSUME NEW v \in Open(i)' PROVE v \in Open(i) /\ v # w
      BY <1>3, <2>2, OpenIsOnNext, OthersOpen
    <3>. QED  BY <3>1
  <2>5. Paid(i)'
    BY <1>2, <1>4, <2>3, <2>4, PaidWriting DEF Budget
  <2>. QED  BY <1>1, <1>5, <2>2, <2>5, WithinAttempt
<1>7. CASE done[s] + 1 # Writes[i]
  <2>1. UNCHANGED <<at, pos, failures, outcome>> /\ done' = [done EXCEPT ![s] = @ + 1]
    BY <1>1, <1>7 DEF Write
  <2>2. MovesAlone(s) /\ at'[s] = "write" /\ Item(s)' = i /\ done'[s] = done[s] + 1
    BY <1>1, <1>2, <2>1 DEF TypeOK, MovesAlone, OthersStay, Item
  <2>3. On(s, i)'
    BY <2>2 DEF On, Attempting
  <2>4. Open(i)' \subseteq Open(i) \ {w}
    <3>1. ASSUME NEW v \in Open(i)' PROVE v \in Open(i) /\ v # w
      <4>1. v \in Syncers \X Nat /\ (v[1] = s => done[s] + 1 <= v[2])
        BY <2>2 DEF Open
      <4>2. v # w
        BY <1>3, <1>4, <4>1
      <4>3. CASE v[1] = s
        <5>1. v[2] \in Nat /\ done[s] <= v[2] /\ v[2] < Writes[i]
          BY <1>4, <4>1, <4>3 DEF Open
        <5>. QED  BY <1>1, <1>2, <4>1, <4>2, <4>3, <5>1 DEF Open
      <4>4. CASE v[1] # s
        BY <2>2, <4>2, <4>4, OthersOpen
      <4>. QED  BY <4>3, <4>4
    <3>. QED  BY <3>1
  <2>5. Paid(i)'
    BY <1>2, <1>4, <2>3, <2>4, PaidWriting DEF Budget
  <2>6. done'[s] < Writes[i]
    BY <1>4, <1>7, <2>2
  <2>. QED  BY <1>1, <1>5, <2>2, <2>5, <2>6, WithinAttempt
<1>. QED  BY <1>6, <1>7

LEMMA WriteRejectsPays ==
  ASSUME TypeOK, TypeOK', Budget, NEW s \in Syncers, WriteRejects(s)
  PROVE  Budget'
<1>1. PICK i \in Artifacts : i = Item(s)
  BY ItemTyping DEF WriteRejects
<1>2. /\ UNCHANGED <<artifact, overlaps, breaks>> /\ at[s] = "write"
      /\ written'[i] \in {written[i], written[i] + 1}
      /\ \A o \in Artifacts : o # i => written'[o] = written[o]
  BY <1>1 DEF WriteRejects, TypeOK
<1>3. PICK w : w = <<s, done[s]>>
  OBVIOUS
<1>4. w \in Open(i) /\ On(s, i)
  BY <1>1, <1>2, <1>3, NextWriteOpen DEF On, Attempting
<1>5. \A o \in Artifacts : o # i => Leaves(o)
  BY <1>2 DEF Leaves
<1>6. Goes(s, "fail") /\ done' = [done EXCEPT ![s] = 0]
  BY DEF WriteRejects
<1>7. MovesAlone(s) /\ at'[s] = "fail" /\ Item(s)' = i /\ done'[s] = 0
  BY <1>1, <1>6, GoesMoves DEF TypeOK
<1>8. On(s, i)'
  BY <1>7 DEF On, Attempting
<1>9. Open(i)' \subseteq Open(i) \ {w}
  <2>1. ASSUME NEW v \in Open(i)' PROVE v \in Open(i) /\ v # w
    BY <1>3, <1>7, OpenIsOnNext, OthersOpen
  <2>. QED  BY <2>1
<1>10. ASSUME written'[i] = written[i] + 1 PROVE Paid(i)'
  BY <1>2, <1>4, <1>8, <1>9, <1>10, PaidWriting DEF Budget
<1>11. ASSUME written'[i] = written[i] PROVE Paid(i)'
  <2>1. Open(i)' \subseteq Open(i)
    BY <1>9
  <2>. QED  BY <1>2, <1>4, <1>8, <1>11, <2>1, PaidGoingOn DEF Budget
<1>12. Paid(i)'
  BY <1>2, <1>10, <1>11
<1>. QED  BY <1>1, <1>5, <1>7, <1>12, WithinAttempt

LEMMA MarkFindPays ==
  ASSUME TypeOK, TypeOK', Budget, NEW s \in Syncers, MarkFind(s)
  PROVE  Budget'
<1>1. PICK i \in Artifacts : i = Item(s)
  BY ItemTyping DEF MarkFind
<1>2. UNCHANGED <<artifact, written, overlaps>> /\ at[s] \in {"mark", "skip"}
  BY DEF MarkFind
<1>3. CASE Ends(s, "escaped") /\ Breaks(s)
  BY <1>2, <1>3, EndsMoves, BreaksKeeps
<1>4. CASE (\E to \in {"synced", "skipped"} : Goes(s, to)) /\ UNCHANGED <<done, breaks>>
  <2>1. PICK to \in {"synced", "skipped"} : Goes(s, to)
    BY <1>4
  <2>2. MovesAlone(s) /\ at'[s] = to /\ Item(s)' = i /\ done' = done
    BY <1>1, <1>4, <2>1, GoesMoves
  <2>3. done'[s] = 0
    BY <1>2, <2>2 DEF Budget, CountsWrites
  <2>4. On(s, i) /\ On(s, i)'
    BY <1>1, <1>2, <2>2 DEF On, Attempting
  <2>5. Open(i)' \subseteq Open(i)
    BY <2>2, OpenIsOnNext, OthersOpen
  <2>6. Paid(i)'
    BY <1>2, <1>4, <2>4, <2>5, PaidGoingOn DEF Budget
  <2>7. \A o \in Artifacts : Leaves(o)
    BY <1>2, <1>4 DEF Leaves
  <2>. QED  BY <1>1, <2>2, <2>3, <2>6, <2>7, WithinAttempt
<1>. QED  BY <1>3, <1>4 DEF MarkFind

LEMMA MarkWritePays ==
  ASSUME TypeOK, TypeOK', Budget, NEW s \in Syncers, MarkWrite(s)
  PROVE  Budget'
<1>1. PICK i \in Artifacts : i = Item(s)
  BY ItemTyping DEF MarkWrite, Settled
<1>2. /\ UNCHANGED <<written, overlaps, breaks>> /\ Turns(s, pos[s] + 1, failures)
      /\ artifact'[i] \in Settled /\ \A o \in Artifacts : o # i => artifact'[o] = artifact[o]
  BY <1>1 DEF MarkWrite, TypeOK
<1>3. MovesAlone(s) /\ at'[s] \in {"find", "over"} /\ done'[s] = 0
  BY <1>2, TurnsMoves
<1>4. ~Attempting(s)' /\ at'[s] # "write"
  BY <1>3 DEF Attempting
<1>5. Paid(i)'
  BY <1>2, <1>3, <1>4, PaidSettling DEF Budget, On
<1>6. \A o \in Artifacts : o # i => Leaves(o)
  BY <1>2 DEF Leaves
<1>. QED  BY <1>1, <1>3, <1>4, <1>5, <1>6, WithinAttempt

LEMMA SyncPays ==
  ASSUME TypeOK, TypeOK', Budget, NEW s \in Syncers, Sync(s)
  PROVE  Budget'
<1>1. CASE FindExisting(s)
  <2>1. UNCHANGED <<artifact, done, historyVars>> /\ at[s] = "find"
    BY <1>1 DEF FindExisting
  <2>2. PICK to \in {"create", "load"} : Goes(s, to)
    BY <1>1 DEF FindExisting
  <2>3. MovesAlone(s) /\ at'[s] = to /\ done'[s] = 0
    BY <2>1, <2>2, GoesMoves DEF Budget, CountsWrites
  <2>. QED  BY <2>1, <2>3, BetweenAttempts DEF Attempting, Leaves
<1>2. CASE Create(s)
  <2>1. UNCHANGED historyVars /\ at[s] = "create"
    BY <1>2 DEF Create
  <2>2. CASE artifact[Item(s)] = "absent"
    <3>1. artifact' = [artifact EXCEPT ![Item(s)] = "pending"] /\ Goes(s, "load") /\ done' = done
      BY <1>2, <2>2 DEF Create
    <3>2. MovesAlone(s) /\ at'[s] = "load" /\ done'[s] = 0
      BY <2>1, <3>1, GoesMoves DEF Budget, CountsWrites
    <3>3. \A o \in Artifacts : Leaves(o)
      BY <2>1, <2>2, <3>1 DEF Leaves, TypeOK, Settled
    <3>. QED  BY <2>1, <3>2, <3>3, BetweenAttempts DEF Attempting
  <2>3. CASE artifact[Item(s)] # "absent"
    <3>1. Ends(s, "escaped") /\ UNCHANGED artifact
      BY <1>2, <2>3 DEF Create
    <3>2. MovesAlone(s) /\ at'[s] = "over" /\ done'[s] = 0
      BY <3>1, EndsMoves
    <3>. QED  BY <2>1, <3>1, <3>2, BetweenAttempts DEF Attempting, Leaves
  <2>. QED  BY <2>2, <2>3
<1>3. CASE Load(s)
  BY <1>3, LoadPays
<1>4. CASE Write(s)
  BY <1>4, WritePays
<1>5. CASE WriteRejects(s)
  BY <1>5, WriteRejectsPays
<1>6. CASE MarkFailed(s)
  <2>1. /\ artifact' = [artifact EXCEPT ![Item(s)] = "failed"] /\ Breaks(s)
        /\ Turns(s, pos[s] + 1, failures \cup {s}) /\ UNCHANGED <<written, overlaps>>
        /\ at[s] = "fail"
    BY <1>6 DEF MarkFailed
  <2>2. MovesAlone(s) /\ at'[s] \in {"find", "over"} /\ done'[s] = 0
    BY <2>1, TurnsMoves
  <2>3. /\ \A o \in Artifacts : o # Item(s) => artifact'[o] = artifact[o]
        /\ Attempting(s)
    BY <2>1 DEF TypeOK, Attempting
  <2>. QED  BY <2>1, <2>2, <2>3, BreaksKeeps
<1>7. CASE MarkFind(s)
  BY <1>7, MarkFindPays
<1>8. CASE MarkWrite(s)
  BY <1>8, MarkWritePays
<1>. QED  BY <1>1, <1>2, <1>3, <1>4, <1>5, <1>6, <1>7, <1>8 DEF Sync

LEMMA InitPays == Init => Budget
<1> SUFFICES ASSUME Init PROVE Budget
  OBVIOUS
<1>1. TypeOK
  BY InitTyped
<1>2. CountsWrites
  BY DEF Init, CountsWrites
<1>3. ASSUME NEW o \in Artifacts
      PROVE  Paid(o)
  <2>1. Open(o) = {}
    BY DEF Init, Open
  <2>2. IsFiniteSet(Open(o)) /\ Cardinality(Open(o)) = 0
    BY <2>1, FS_EmptySet
  <2>3. PICK w \in Nat : w = Writes[o]
    BY <1>1, AllowanceTyped
  <2>4. written[o] = 0 /\ Allowance(o) = w * (1 + 0 + 0)
    BY <2>3 DEF Init, Allowance
  <2>5. Allowance(o) = w
    BY <2>4
  <2>. QED  BY <2>2, <2>3, <2>4, <2>5 DEF Paid
<1>. QED  BY <1>2, <1>3 DEF Budget

LEMMA NextPays ==
  ASSUME TypeOK, TypeOK', Budget, [Next]_vars
  PROVE  Budget'
<1>1. ASSUME NEW s \in Syncers, Begin(s)
      PROVE  Budget'
  <2>1. UNCHANGED <<artifact, historyVars>> /\ at[s] = "off" /\ Turns(s, 1, failures)
    BY <1>1 DEF Begin
  <2>2. MovesAlone(s) /\ at'[s] \in {"find", "over"} /\ done'[s] = 0
    BY <2>1, TurnsMoves
  <2>. QED  BY <2>1, <2>2, BetweenAttempts DEF Attempting, Leaves
<1>2. ASSUME NEW s \in Syncers, Request(s)
      PROVE  Budget'
  <2>1. UNCHANGED <<artifact, historyVars>> /\ at[s] = "off"
    BY <1>2 DEF Request
  <2>2. MovesAlone(s) /\ at'[s] \in {"load", "over"} /\ done'[s] = 0
    <3>1. CASE Ends(s, "succeeded")
      BY <3>1, EndsMoves
    <3>2. CASE /\ at' = [at EXCEPT ![s] = "load"] /\ pos' = [pos EXCEPT ![s] = 1]
               /\ UNCHANGED <<done, failures, outcome>>
      BY <2>1, <3>2 DEF MovesAlone, OthersStay, TypeOK, Budget, CountsWrites
    <3>. QED  BY <1>2, <3>1, <3>2 DEF Request
  <2>. QED  BY <2>1, <2>2, BetweenAttempts DEF Attempting, Leaves
<1>3. ASSUME NEW s \in Syncers, Sync(s)
      PROVE  Budget'
  BY <1>3, SyncPays
<1>4. ASSUME NEW s \in Syncers, Throws(s)
      PROVE  Budget'
  <2>1. /\ UNCHANGED <<artifact, written, overlaps>> /\ Ends(s, "escaped") /\ Breaks(s)
        /\ at[s] \notin {"off", "over"}
    BY <1>4 DEF Throws
  <2>. QED  BY <2>1, EndsMoves, BreaksKeeps
<1>5. ASSUME NEW s \in Syncers, Crash(s)
      PROVE  Budget'
  <2>1. /\ UNCHANGED <<artifact, written, overlaps, outcome>> /\ Breaks(s)
        /\ Stops(s, IF s \in Jobs THEN "off" ELSE "over") /\ at[s] \notin {"off", "over"}
    BY <1>5 DEF Crash
  <2>2. MovesAlone(s) /\ at'[s] \in {"off", "over"} /\ done'[s] = 0
    BY <2>1, StopsMoves
  <2>. QED  BY <2>1, <2>2, BreaksKeeps
<1>6. CASE UNCHANGED vars
  BY <1>6 DEF vars, Budget, CountsWrites, Paid, Open, Awaiting, On, Attempting, Allowance, Item
<1>. QED  BY <1>1, <1>2, <1>3, <1>4, <1>5, <1>6 DEF Next

\* Nothing is written to Feishu twice without a reason, for any number of
\* syncers, contents and writes: every write beyond those a content needs is
\* paid for by an attempt that broke off or by one that overlapped another.
\* (artifact.service.ts:60-133)
THEOREM RepeatsArePaid == Spec => []RepeatsHaveCause
<1>1. Init => TypeOK /\ Budget
  BY InitTyped, InitPays
<1>2. TypeOK /\ Budget /\ [Next]_vars => (TypeOK /\ Budget)'
  BY NextTyped, NextPays
<1>3. ASSUME TypeOK, Budget
      PROVE  RepeatsHaveCause
  <2>1. ASSUME NEW o \in Artifacts
        PROVE  written[o] <= Allowance(o)
    <3>1. Paid(o) /\ Cardinality(Open(o)) \in Nat
      BY <1>3, FS_CardinalityType DEF Budget, Paid
    <3>. QED  BY <1>3, <3>1, AllowanceTyped DEF Paid
  <2>. QED  BY <2>1 DEF RepeatsHaveCause, Allowance
<1>. QED  BY <1>1, <1>2, <1>3, PTL DEF Spec
=============================================================================
