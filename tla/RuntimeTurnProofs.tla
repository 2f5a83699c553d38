------------------------- MODULE RuntimeTurnProofs -------------------------
(***************************************************************************)
(* What RuntimeTurn promises for any number of mentions, wake-ups,         *)
(* profiles and faults and any window.                                     *)
(***************************************************************************)
EXTENDS RuntimeTurn, SequenceTheorems, FiniteSetTheorems, WellFoundedInduction,
        NaturalsInduction, TLAPS

-----------------------------------------------------------------------------
(* Finite sets of natural numbers: what the two CHOOSEs of the model find.  *)

LEMMA LeastNatural ==
  ASSUME NEW S \in SUBSET Nat, S # {}
  PROVE  \E x \in S : \A y \in S : x <= y
<1>. DEFINE R == OpToRel(<, Nat)
<1>1. IsWellFoundedOn(R, Nat)
  BY NatLessThanWellFounded
<1>2. PICK x \in S : \A y \in S : ~(<<y, x>> \in R)
  BY <1>1, WFMin
<1>3. \A y \in S : y < x => <<y, x>> \in R
  BY DEF OpToRel
<1>4. ASSUME NEW y \in S PROVE x <= y
  <2>1. ~(y < x)
    BY <1>2, <1>3
  <2>2. x \in Nat /\ y \in Nat
    BY <1>2
  <2>. QED  BY <2>1, <2>2
<1>. QED  BY <1>2, <1>4

\* A finite set of numbers that is not empty has a greatest element.
LEMMA GreatestNatural ==
  ASSUME NEW T \in SUBSET Nat, IsFiniteSet(T), T # {}
  PROVE  \E x \in T : \A y \in T : y <= x
<1>. DEFINE HasMax(U) == \E x \in U : \A y \in U : y <= x
            Sizes == {c \in Nat : \E U \in SUBSET Nat :
                        IsFiniteSet(U) /\ U # {} /\ Cardinality(U) = c /\ ~HasMax(U)}
<1>1. SUFFICES ASSUME Sizes # {} PROVE FALSE
  <2>1. Cardinality(T) \in Nat
    BY FS_CardinalityType
  <2>. QED  BY <1>1, <2>1
<1>2. PICK c \in Sizes : \A d \in Sizes : c <= d
  BY <1>1, LeastNatural
<1>3. PICK U \in SUBSET Nat : IsFiniteSet(U) /\ U # {} /\ Cardinality(U) = c /\ ~HasMax(U)
  BY <1>2
<1>4. PICK u \in U : TRUE
  BY <1>3
<1>5. /\ IsFiniteSet(U \ {u}) /\ Cardinality(U \ {u}) = c - 1 /\ U \ {u} \in SUBSET Nat
      /\ c - 1 \in Nat /\ c - 1 < c
  <2>1. IsFiniteSet(U \ {u}) /\ Cardinality(U \ {u}) = Cardinality(U) - 1
    BY <1>3, <1>4, FS_RemoveElement
  <2>2. Cardinality(U \ {u}) \in Nat
    BY <2>1, FS_CardinalityType
  <2>3. c \in Nat
    BY <1>2
  <2>. QED  BY <1>3, <2>1, <2>2, <2>3
<1>6. CASE U \ {u} = {}
  BY <1>3, <1>4, <1>6
<1>7. CASE U \ {u} # {}
  <2>1. HasMax(U \ {u})
    <3>1. SUFFICES ASSUME ~HasMax(U \ {u}) PROVE FALSE
      OBVIOUS
    <3>2. c - 1 \in Sizes
      BY <1>5, <1>7, <3>1
    <3>. QED  BY <1>2, <1>5, <3>2
  <2>2. PICK x \in U \ {u} : \A y \in U \ {u} : y <= x
    BY <2>1
  <2>3. CASE u <= x
    BY <1>3, <2>2, <2>3
  <2>4. CASE ~(u <= x)
    <3>1. \A y \in U : y <= u
      BY <1>3, <1>4, <2>2, <2>4
    <3>. QED  BY <1>3, <1>4, <3>1
  <2>. QED  BY <2>3, <2>4
<1>. QED  BY <1>6, <1>7

Upto(T, n) == {k \in T : k <= n}

\* It has an element of every rank.
LEMMA RankedNatural ==
  ASSUME NEW T \in SUBSET Nat, IsFiniteSet(T), NEW r \in 1..Cardinality(T)
  PROVE  \E n \in T : Cardinality(Upto(T, n)) = r
<1>. DEFINE High == {n \in T : Cardinality(Upto(T, n)) >= r}
<1>1. Cardinality(T) \in Nat /\ T # {}
  BY FS_CardinalityType, FS_EmptySet
<1>2. \A n : IsFiniteSet(Upto(T, n)) /\ Cardinality(Upto(T, n)) \in Nat
  BY FS_Subset, FS_CardinalityType DEF Upto
<1>3. High # {}
  <2>1. PICK x \in T : \A y \in T : y <= x
    BY <1>1, GreatestNatural
  <2>2. Upto(T, x) = T
    BY <2>1 DEF Upto
  <2>. QED  BY <1>1, <2>2
<1>4. PICK n \in High : \A y \in High : n <= y
  BY <1>3, LeastNatural
<1>. DEFINE Below == Upto(T, n) \ {n}
<1>5. IsFiniteSet(Below) /\ Cardinality(Below) = Cardinality(Upto(T, n)) - 1
  <2>1. n \in Upto(T, n)
    BY DEF Upto
  <2>. QED  BY <1>2, <2>1, FS_RemoveElement
<1>6. Cardinality(Below) < r
  <2>1. SUFFICES ASSUME Cardinality(Below) >= r PROVE FALSE
    BY <1>2, <1>5
  <2>2. Below # {}
    BY <2>1, FS_EmptySet
  <2>3. Below \in SUBSET Nat
    BY DEF Upto
  <2>4. PICK x \in Below : \A y \in Below : y <= x
    BY <1>5, <2>2, <2>3, GreatestNatural
  <2>5. x \in T /\ n \in T /\ x < n
    BY <2>4 DEF Upto
  <2>7. ASSUME NEW k \in Upto(T, x) PROVE k \in Below
    <3>1. k \in Nat /\ x \in Nat /\ n \in Nat /\ k \in T /\ k <= x
      BY <2>5 DEF Upto
    <3>2. k <= n /\ k # n
      BY <2>5, <3>1
    <3>. QED  BY <3>1, <3>2 DEF Upto
  <2>8. Below \subseteq Upto(T, x)
    BY <2>4 DEF Upto
  <2>9. Upto(T, x) = Below
    BY <2>7, <2>8
  <2>6. x \in High
    BY <2>1, <2>5, <2>9
  <2>. QED  BY <1>4, <2>5, <2>6
<1>. QED  BY <1>2, <1>4, <1>5, <1>6

-----------------------------------------------------------------------------
\* Hydration finds a number, and unless the log is longer than the window no
\* number of the log is greater.
LEMMA HydratedIs ==
  ASSUME log \in SUBSET Nat, IsFiniteSet(log)
  PROVE  /\ Hydrated \in Nat
         /\ Cardinality(log) <= Window => \A k \in log : k <= Hydrated
<1>. DEFINE r == IF Cardinality(log) <= Window THEN Cardinality(log) ELSE Window
<1>1. CASE log = {}
  BY <1>1 DEF Hydrated
<1>2. CASE log # {}
  <2>1. Cardinality(log) \in Nat /\ Cardinality(log) # 0
    BY <1>2, FS_CardinalityType, FS_EmptySet
  <2>2. r \in 1..Cardinality(log)
    BY <2>1, RuntimeAssumption
  <2>3. \E n \in log : Cardinality(Upto(log, n)) = r
    BY <2>2, RankedNatural
  <2>4. Hydrated \in log /\ Cardinality(Upto(log, Hydrated)) = r
    BY <1>2, <2>3 DEF Hydrated, Upto
  <2>5. ASSUME Cardinality(log) <= Window PROVE \A k \in log : k <= Hydrated
    <3>1. Upto(log, Hydrated) \in SUBSET log
      BY DEF Upto
    <3>2. Upto(log, Hydrated) = log
      BY <2>4, <2>5, <3>1, FS_Subset
    <3>. QED  BY <3>2 DEF Upto
  <2>. QED  BY <2>4, <2>5
<1>. QED  BY <1>1, <1>2

\* transitionTo's number is one.
LEMMA NextSequenceIs ==
  ASSUME log \in SUBSET Nat, IsFiniteSet(log), stateLog \subseteq log
  PROVE  NextSequence \in Nat
<1>1. CASE stateLog = {}
  BY <1>1 DEF NextSequence
<1>2. CASE stateLog # {}
  <2>1. \E n \in stateLog : \A k \in stateLog : k <= n
    BY <1>2, GreatestNatural, FS_Subset
  <2>. DEFINE last == CHOOSE n \in stateLog : \A k \in stateLog : k <= n
  <2>2. last \in stateLog
    BY <2>1
  <2>3. NextSequence = 1 + last
    BY <1>2 DEF NextSequence
  <2>4. last \in Nat
    BY <2>2
  <2>. HIDE DEF last
  <2>. QED  BY <2>3, <2>4
<1>. QED  BY <1>1, <1>2
-----------------------------------------------------------------------------
(* The inductive invariant.                                                 *)

\* The worker takes one mention at a time.
OneHandler ==
  \A m, n \in Messages : at[m] \in Handling /\ at[n] \in Handling => m = n

\* The object that a handler or a prompt holds has not gone.
Placed ==
  \A m \in Messages :
    /\ at[m] \in {"hydrate", "record"} => on[m] \in 1..Len(states)
    /\ turnAt[m] = "prompt" => ranOn[m] \in 1..Len(states)

\* A mention has no turn before its event is stored.
NotStarted ==
  \A m \in Messages :
    at[m] \in {"new", "ensure", "create", "hydrate", "record"} => turnAt[m] = "none"

\* What is left of a result while one of its actions is awaited, and that its
\* turn has replied, or was in trouble, once nothing is left.
Left(m) ==
  /\ turnAt[m] = "sending" => plan[m] \in {<<"done">>, <<"ask", "done">>, <<"stopped">>}
  /\ turnAt[m] = "asking" => plan[m] \in {<<"done">>, <<"reply", "done">>, <<"stopped">>}
  /\ turnAt[m] = "asking" => m \in answered \cup troubled \/ plan[m] = <<"reply", "done">>
  /\ turnAt[m] \in {"completing", "failing", "over"} => m \in answered \cup troubled

PlanFits == \A m \in Messages : Left(m)

Shape == TypeOK /\ IsFiniteSet(log) /\ OneHandler /\ Placed /\ NotStarted /\ PlanFits

\* One session object at most, no call failed, and no log was too long to read.
Calm == Len(states) <= 1 /\ faults = 0 /\ ~cut

\* Where the log begins: with the number 1, taken by the first mention, so that
\* transitionTo, which would take it again, stores nothing.
Begun ==
  /\ stateLog = {} /\ (log # {} => 1 \in log)
  /\ \A m \in Messages : at[m] \in {"state", "insert"} \/ turnAt[m] \in InTurn => log # {}
  /\ \A m \in Messages : log = {} /\ at[m] = "record" => num[m] = 1
  /\ \A i \in 1..Len(states) :
       log = {} /\ states[i].seq # 0 => \E m \in Messages : at[m] = "record"

\* An object that has counted is past every number of the log, and past those
\* that a mention or a turn has taken and not stored yet; no two are the same.
Counted ==
  /\ \A i \in 1..Len(states) : states[i].seq # 0 => \A k \in log : k <= states[i].seq
  /\ \A m \in Messages : at[m] = "hydrate" => states[on[m]].seq = 0
  /\ \A m \in Messages : turnAt[m] \in InTurn => states[on[m]].seq # 0
  /\ \A m \in Messages : at[m] = "record" =>
       num[m] \in 1..states[on[m]].seq /\ num[m] \notin log
  /\ \A m \in Messages : turnAt[m] \in Recording =>
       /\ turnNum[m] \in 1..states[on[m]].seq /\ turnNum[m] \notin log
       /\ \A n \in Messages : at[n] = "record" => num[n] # turnNum[m]

Inv == Shape /\ TurnInv /\ (Calm => Begun /\ Counted)

\* Before a mention's reaction is set, the last one's was taken back.
Cleared ==
  faults = 0 => \A m \in Messages : at[m] = "attach" => reactions = {}

-----------------------------------------------------------------------------
(* Sequences of session objects.                                            *)

LEMMA ObjectSet ==
  ASSUME NEW s \in Seq(Object), NEW i \in 1..Len(s), NEW o \in Object,
         NEW t, t = [s EXCEPT ![i] = o]
  PROVE  /\ t \in Seq(Object) /\ Len(t) = Len(s)
         /\ t[i] = o /\ \A j \in 1..Len(s) : j # i => t[j] = s[j]
<1>1. s \in [1..Len(s) -> Object] /\ Len(s) \in Nat
  BY LenProperties
<1>2. t \in Seq(Object) /\ Len(t) = Len(s)
  BY ExceptSeq
<1>. QED  BY <1>1, <1>2

LEMMA ObjectAdded ==
  ASSUME NEW s \in Seq(Object), NEW o \in Object, NEW t, t = Append(s, o)
  PROVE  /\ t \in Seq(Object) /\ Len(t) = Len(s) + 1
         /\ t[Len(s) + 1] = o /\ \A j \in 1..Len(s) : t[j] = s[j]
BY AppendProperties

LEMMA ObjectAt ==
  ASSUME NEW s \in Seq(Object), NEW i \in 1..Len(s)
  PROVE  s[i] \in Object
BY ElementOfSeq

LEMMA ObjectCounts ==
  ASSUME NEW r \in Object
  PROVE  LET o == [r EXCEPT !.seq = r.seq + 1] IN
         o \in Object /\ o.turn = r.turn /\ o.seq = r.seq + 1
<1>1. r.seq \in Nat
  BY DEF Object
<1>2. PICK n \in Nat : n = r.seq + 1
  BY <1>1
<1>. QED  BY <1>2 DEF Object

\* The objects with another execution, profile or waiting mark.
Alike(s) ==
  /\ s \in Seq(Object) /\ Len(s) = Len(states)
  /\ \A i \in 1..Len(states) : s[i].turn = states[i].turn /\ s[i].seq = states[i].seq

\* A turn goes on to another place: it takes a number where it is about to store
\* an event, and leaves its object when it is over.
Moves(m, to) ==
  /\ states' \in Seq(Object) /\ Len(states') = Len(states)
  /\ \A i \in 1..Len(states) :
       /\ states'[i].turn = IF to = "over" /\ i = on[m] THEN None ELSE states[i].turn
       /\ states'[i].seq = IF to \in Recording /\ i = on[m] THEN states[i].seq + 1
                           ELSE states[i].seq
  /\ to \in Recording \cup {"sending", "over"}
  /\ turnAt' = [turnAt EXCEPT ![m] = to]
  /\ turnNum' = [turnNum EXCEPT ![m] = IF to \in Recording THEN states[on[m]].seq + 1
                                       ELSE IF to = "over" THEN 0 ELSE turnNum[m]]

LEMMA RecordsMoves ==
  ASSUME NEW m \in Messages, NEW s, Alike(s), on[m] \in 1..Len(states),
         NEW to \in Recording, Records(m, s, to)
  PROVE  Moves(m, to)
<1>. DEFINE i == on[m]
            o == [s[i] EXCEPT !.seq = s[i].seq + 1]
<1>1. s \in Seq(Object) /\ Len(s) = Len(states) /\ s[i] \in Object /\ i \in 1..Len(s)
  BY ElementOfSeq DEF Alike
<1>2. o \in Object /\ o.turn = s[i].turn /\ o.seq = s[i].seq + 1
  BY <1>1, ObjectCounts
<1>3. states' = [s EXCEPT ![i] = o]
  BY <1>1, LenProperties DEF Records
<1>4. /\ states' \in Seq(Object) /\ Len(states') = Len(s)
      /\ states'[i] = o /\ \A j \in 1..Len(s) : j # i => states'[j] = s[j]
  BY <1>1, <1>2, <1>3, ObjectSet
<1>5. to # "over" /\ to \in Recording
  BY DEF Recording
<1>. HIDE DEF o
<1>. QED  BY <1>1, <1>2, <1>4, <1>5 DEF Records, Moves, Alike

LEMMA FinishesMoves ==
  ASSUME NEW m \in Messages, NEW s, Alike(s), on[m] \in 1..Len(states), Finishes(m, s)
  PROVE  Moves(m, "over")
<1>. DEFINE i == on[m]
            o == [s[i] EXCEPT !.turn = None]
<1>1. s \in Seq(Object) /\ Len(s) = Len(states) /\ s[i] \in Object /\ i \in 1..Len(s)
  BY ElementOfSeq DEF Alike
<1>2. o \in Object /\ o.turn = None /\ o.seq = s[i].seq
  BY <1>1 DEF Object
<1>3. states' = [s EXCEPT ![i] = o]
  BY <1>1, LenProperties DEF Finishes
<1>4. /\ states' \in Seq(Object) /\ Len(states') = Len(s)
      /\ states'[i] = o /\ \A j \in 1..Len(s) : j # i => states'[j] = s[j]
  BY <1>1, <1>2, <1>3, ObjectSet
<1>5. "over" \notin Recording
  BY DEF Recording
<1>. HIDE DEF o
<1>. QED  BY <1>1, <1>2, <1>4, <1>5 DEF Finishes, Moves, Alike

LEMMA WaitsAlike ==
  ASSUME NEW s, Alike(s), NEW i \in 1..Len(states)
  PROVE  Alike([s EXCEPT ![i].waiting = TRUE])
<1>. DEFINE o == [s[i] EXCEPT !.waiting = TRUE]
<1>1. s \in Seq(Object) /\ Len(s) = Len(states) /\ s[i] \in Object /\ i \in 1..Len(s)
  BY ElementOfSeq DEF Alike
<1>2. o \in Object /\ o.turn = s[i].turn /\ o.seq = s[i].seq
  BY <1>1 DEF Object
<1>3. [s EXCEPT ![i].waiting = TRUE] = [s EXCEPT ![i] = o]
  BY <1>1, LenProperties
<1>. HIDE DEF o
<1>4. LET t == [s EXCEPT ![i] = o] IN
      /\ t \in Seq(Object) /\ Len(t) = Len(s)
      /\ t[i] = o /\ \A j \in 1..Len(s) : j # i => t[j] = s[j]
  BY <1>1, <1>2, ObjectSet
<1>. QED  BY <1>1, <1>2, <1>3, <1>4 DEF Alike

\* executeGroupRuntimePrompt's finally.
LEMMA ClearedAlike ==
  ASSUME states \in Seq(Object), NEW i \in 1..Len(states)
  PROVE  Alike([states EXCEPT ![i].exec = None, ![i].profile = None])
<1>. DEFINE p == [states[i] EXCEPT !.exec = None]
            o == [p EXCEPT !.profile = None]
            s == [states EXCEPT ![i] = p]
            t == [s EXCEPT ![i] = o]
<1>1. states[i] \in Object /\ states \in [1..Len(states) -> Object]
  BY ElementOfSeq, LenProperties
<1>2. p \in Object /\ p.turn = states[i].turn /\ p.seq = states[i].seq
  BY <1>1 DEF Object
<1>3. o \in Object /\ o.turn = p.turn /\ o.seq = p.seq
  BY <1>2 DEF Object
<1>4. [states EXCEPT ![i].exec = None, ![i].profile = None] = t
  BY <1>1
<1>. HIDE DEF p, o
<1>5. /\ s \in Seq(Object) /\ Len(s) = Len(states)
      /\ s[i] = p /\ \A j \in 1..Len(states) : j # i => s[j] = states[j]
  BY <1>1, <1>2, ObjectSet
<1>. HIDE DEF s
<1>6. /\ t \in Seq(Object) /\ Len(t) = Len(s)
      /\ t[i] = o /\ \A j \in 1..Len(s) : j # i => t[j] = s[j]
  BY <1>3, <1>5, ObjectSet
<1>. HIDE DEF t
<1>. QED  BY <1>2, <1>3, <1>4, <1>5, <1>6 DEF Alike

\* Where the next of a result's actions takes the turn.
Awaits(action, to) ==
  /\ action = "reply" <=> to = "sending"
  /\ action \in {"ask", "askUnknown"} <=> to = "asking"
  /\ to # "failing"

LEMMA AppliesMoves ==
  ASSUME NEW m \in Messages, NEW s, Alike(s), on[m] \in 1..Len(states),
         turnNum \in [Messages -> Nat], NEW rest, Applies(m, s, rest)
  PROVE  /\ plan' = [plan EXCEPT ![m] = Tail(rest)]
         /\ \E to : Moves(m, to) /\ Awaits(Head(rest), to)
<1>. DEFINE i == on[m]
            waits == [s EXCEPT ![i].waiting = TRUE]
<1>1. Alike(waits)
  BY WaitsAlike
<1>. HIDE DEF waits
<1>2. CASE Head(rest) = "reply"
  <2>1. /\ turnAt' = [turnAt EXCEPT ![m] = "sending"] /\ states' = s /\ UNCHANGED turnNum
    BY <1>2 DEF Applies
  <2>2. Moves(m, "sending")
    BY <2>1 DEF Moves, Alike, Recording
  <2>3. Awaits("reply", "sending")
    BY DEF Awaits
  <2>. QED  BY <1>2, <2>2, <2>3 DEF Applies
<1>3. CASE Head(rest) = "ask"
  <2>1. Records(m, waits, "asking")
    BY <1>3 DEF Applies, waits
  <2>2. Moves(m, "asking")
    BY <1>1, <2>1, RecordsMoves DEF Recording
  <2>3. Awaits("ask", "asking")
    BY DEF Awaits
  <2>. QED  BY <1>3, <2>2, <2>3 DEF Applies
<1>4. CASE Head(rest) = "askUnknown"
  <2>1. Records(m, s, "asking")
    BY <1>4 DEF Applies
  <2>2. Moves(m, "asking")
    BY <2>1, RecordsMoves DEF Recording
  <2>3. Awaits("askUnknown", "asking")
    BY DEF Awaits
  <2>. QED  BY <1>4, <2>2, <2>3 DEF Applies
<1>5. CASE Head(rest) \notin {"reply", "ask", "askUnknown"}
  <2>1. Finishes(m, s) \/ Records(m, s, "completing")
    BY <1>5 DEF Applies
  <2>2. \E to \in {"over", "completing"} : Moves(m, to)
    BY <2>1, RecordsMoves, FinishesMoves DEF Recording
  <2>3. \A to \in {"over", "completing"} : Awaits(Head(rest), to)
    BY <1>5 DEF Awaits
  <2>. QED  BY <2>2, <2>3 DEF Applies
<1>. QED  BY <1>2, <1>3, <1>4, <1>5

\* The plans a prompt can leave, and what can be left of one.
LEMMA PlanParts ==
  /\ \A a, b : Head(<<a, b>>) = a /\ Tail(<<a, b>>) = <<b>>
  /\ \A a, b, c : Head(<<a, b, c>>) = a /\ Tail(<<a, b, c>>) = <<b, c>>
  /\ \A a : Head(<<a>>) = a /\ Tail(<<a>>) = <<>>
  /\ <<>> \in Seq(Steps)
  /\ \A a \in Steps : <<a>> \in Seq(Steps)
  /\ \A a, b \in Steps : <<a, b>> \in Seq(Steps)
OBVIOUS

Silent == Succeeded \cup {<<"reply", "done">>}
Others == TimedOut \cup {<<"done">>, <<"ask", "done">>}
Fitting(rest) ==
  /\ Tail(rest) \in Seq(Steps)
  /\ Head(rest) = "reply" => Tail(rest) \in {<<"done">>, <<"ask", "done">>, <<"stopped">>}
  /\ Head(rest) \in {"ask", "askUnknown"} =>
       Tail(rest) \in {<<"done">>, <<"reply", "done">>, <<"stopped">>}

\* A plan that has not replied yet begins with a reply, or asks and replies then.
LEMMA SilentFits ==
  ASSUME NEW rest \in Silent
  PROVE  /\ Fitting(rest)
         /\ \/ Head(rest) = "reply"
            \/ Head(rest) \in {"ask", "askUnknown"} /\ Tail(rest) = <<"reply", "done">>
<1>0. {"reply", "ask", "askUnknown", "done"} \subseteq Steps
  BY DEF Steps
<1>1. CASE rest = <<"reply", "done">>
  <2>1. Head(rest) = "reply" /\ Tail(rest) = <<"done">>
    BY <1>1, PlanParts
  <2>. QED  BY <1>0, <2>1, PlanParts DEF Fitting
<1>2. CASE rest = <<"reply", "ask", "done">>
  <2>1. Head(rest) = "reply" /\ Tail(rest) = <<"ask", "done">>
    BY <1>2, PlanParts
  <2>. QED  BY <1>0, <2>1, PlanParts DEF Fitting
<1>3. CASE rest = <<"ask", "reply", "done">>
  <2>1. Head(rest) = "ask" /\ Tail(rest) = <<"reply", "done">>
    BY <1>3, PlanParts
  <2>. QED  BY <1>0, <2>1, PlanParts DEF Fitting
<1>4. CASE rest = <<"askUnknown", "reply", "done">>
  <2>1. Head(rest) = "askUnknown" /\ Tail(rest) = <<"reply", "done">>
    BY <1>4, PlanParts
  <2>. QED  BY <1>0, <2>1, PlanParts DEF Fitting
<1>. QED  BY <1>1, <1>2, <1>3, <1>4 DEF Silent, Succeeded

LEMMA OthersFit ==
  ASSUME NEW rest \in Others
  PROVE  Fitting(rest)
<1>0. {"reply", "ask", "stopped", "done"} \subseteq Steps
  BY DEF Steps
<1>1. CASE rest \in {<<"done">>, <<"stopped">>}
  <2>1. Head(rest) \in {"done", "stopped"} /\ Tail(rest) = <<>>
    BY <1>1, PlanParts
  <2>. QED  BY <2>1, PlanParts DEF Fitting
<1>2. CASE rest \in {<<"reply", "stopped">>, <<"ask", "stopped">>}
  <2>1. Tail(rest) = <<"stopped">>
    BY <1>2, PlanParts
  <2>. QED  BY <1>0, <2>1, PlanParts DEF Fitting
<1>3. CASE rest = <<"ask", "done">>
  <2>1. Head(rest) = "ask" /\ Tail(rest) = <<"done">>
    BY <1>3, PlanParts
  <2>. QED  BY <1>0, <2>1, PlanParts DEF Fitting
<1>. QED  BY <1>1, <1>2, <1>3 DEF Others, TimedOut

\* A turn goes to a place that what is left of its result fits.
MovesOn(m) ==
  /\ \E to : Moves(m, to)
  /\ Left(m)' /\ plan' \in [Messages -> Seq(Steps)]
  /\ \A n \in Messages : n # m => plan'[n] = plan[n]

LEMMA AppliesFits ==
  ASSUME NEW m \in Messages, NEW s, Alike(s), on[m] \in 1..Len(states),
         turnAt \in [Messages -> InTurn \cup {"none", "over", "lost"}],
         turnNum \in [Messages -> Nat], plan \in [Messages -> Seq(Steps)],
         NEW rest \in Silent \cup Others, Applies(m, s, rest),
         m \in answered' \cup troubled' \/ rest \in Silent
  PROVE  MovesOn(m)
<1>1. PICK to : Moves(m, to) /\ Awaits(Head(rest), to)
  BY AppliesMoves
<1>2. plan' = [plan EXCEPT ![m] = Tail(rest)]
  BY AppliesMoves
<1>3. Fitting(rest)
  BY SilentFits, OthersFit
<1>4. turnAt'[m] = to /\ plan'[m] = Tail(rest)
  BY <1>1, <1>2 DEF Moves
<1>5. Left(m)'
  <2>1. CASE m \in answered' \cup troubled'
    BY <1>1, <1>3, <1>4, <2>1 DEF Left, Awaits, Fitting
  <2>2. CASE rest \in Silent
    <3>1. \/ Head(rest) = "reply"
          \/ Head(rest) \in {"ask", "askUnknown"} /\ Tail(rest) = <<"reply", "done">>
      BY <2>2, SilentFits
    <3>. QED  BY <1>1, <1>3, <1>4, <3>1 DEF Left, Awaits, Fitting
  <2>. QED  BY <2>1, <2>2
<1>6. plan' \in [Messages -> Seq(Steps)] /\ \A n \in Messages : n # m => plan'[n] = plan[n]
  BY <1>2, <1>3 DEF Fitting
<1>. QED  BY <1>1, <1>5, <1>6 DEF MovesOn

-----------------------------------------------------------------------------
(* A step of a turn once its prompt has begun.                              *)

\* What else a turn's step does: it may reply, be in trouble, leave its prompt
\* and store the number it has taken.
Effects(m) ==
  /\ turnAt[m] \in InTurn
  /\ answered' \in {answered, answered \cup {m}}
  /\ troubled' \in {troubled, troubled \cup {m}}
  /\ ranOn' \in {ranOn, [ranOn EXCEPT ![m] = 0]}
  /\ \/ log' = log
     \/ turnAt[m] \in Recording /\ turnNum[m] \notin log /\ log' = log \cup {turnNum[m]}
  /\ faults' \in faults..MaxFaults
  /\ UNCHANGED <<cached, fixedVars, handlerVars, wakeAt, stateLog, rowVars, cut>>

Ready(m) == Shape /\ TurnInv /\ turnAt[m] \in InTurn

LEMMA ReadyFacts ==
  ASSUME NEW m \in Messages, Ready(m)
  PROVE  /\ on[m] \in 1..Len(states) /\ states \in Seq(Object) /\ Alike(states)
         /\ turnAt \in [Messages -> InTurn \cup {"none", "over", "lost"}]
         /\ turnNum \in [Messages -> Nat] /\ plan \in [Messages -> Seq(Steps)]
         /\ faults \in 0..MaxFaults /\ MaxFaults \in Nat
BY RuntimeAssumption DEF Ready, Shape, TypeOK, TurnInv, Alike

LEMMA FailsFits ==
  ASSUME NEW m \in Messages, Ready(m), NEW s, Alike(s), Fails(m, s)
  PROVE  MovesOn(m) /\ troubled' = troubled \cup {m}
<1>1. Moves(m, "failing")
  BY ReadyFacts, RecordsMoves DEF Fails, Recording
<1>2. turnAt'[m] = "failing"
  BY <1>1, ReadyFacts DEF Moves
<1>3. Left(m)'
  BY <1>2 DEF Fails, Left
<1>4. plan' \in [Messages -> Seq(Steps)] /\ \A n \in Messages : n # m => plan'[n] = plan[n]
  BY ReadyFacts, PlanParts DEF Fails
<1>. QED  BY <1>1, <1>3, <1>4 DEF Fails, MovesOn

LEMMA PromptGoesOn ==
  ASSUME NEW m \in Messages, Ready(m), PromptEnds(m)
  PROVE  MovesOn(m) /\ Effects(m)
<1>. DEFINE objects == [states EXCEPT ![ranOn[m]].exec = None, ![ranOn[m]].profile = None]
<1>1. turnAt[m] = "prompt" /\ ranOn[m] \in 1..Len(states)
  BY DEF PromptEnds, Ready, Shape, Placed
<1>2. Alike(objects)
  BY <1>1, ReadyFacts, ClearedAlike
<1>. DEFINE Rest == /\ ranOn' = [ranOn EXCEPT ![m] = 0]
                    /\ UNCHANGED <<cached, fixedVars, handlerVars, wakeAt, storeVars,
                                   answered, cut>>
<1>3. Rest
  BY DEF PromptEnds
<1>4. \/ \E p \in Succeeded : Applies(m, objects, p) /\ UNCHANGED <<troubled, faults>>
      \/ \E p \in TimedOut : /\ Applies(m, objects, p)
                             /\ troubled' = troubled \cup {m} /\ UNCHANGED faults
      \/ (CallFails \/ UNCHANGED faults) /\ Fails(m, objects)
  BY DEF PromptEnds
<1>. HIDE DEF objects
<1>5. CASE \E p \in Succeeded : Applies(m, objects, p) /\ UNCHANGED <<troubled, faults>>
  <2>1. PICK p \in Silent : Applies(m, objects, p) /\ UNCHANGED <<troubled, faults>>
    BY <1>5 DEF Silent
  <2>2. MovesOn(m)
    BY <1>1, <1>2, <2>1, AppliesFits, ReadyFacts
  <2>3. Effects(m)
    BY <1>1, <1>3, <2>1, ReadyFacts DEF Effects, InTurn, storeVars, rowVars
  <2>. QED  BY <2>2, <2>3
<1>6. CASE \E p \in TimedOut : /\ Applies(m, objects, p)
                               /\ troubled' = troubled \cup {m} /\ UNCHANGED faults
  <2>1. PICK p \in Others : Applies(m, objects, p)
                            /\ troubled' = troubled \cup {m} /\ UNCHANGED faults
    BY <1>6 DEF Others
  <2>2. MovesOn(m)
    BY <1>1, <1>2, <2>1, AppliesFits, ReadyFacts
  <2>3. Effects(m)
    BY <1>1, <1>3, <2>1, ReadyFacts DEF Effects, InTurn, storeVars, rowVars
  <2>. QED  BY <2>2, <2>3
<1>7. CASE (CallFails \/ UNCHANGED faults) /\ Fails(m, objects)
  <2>1. MovesOn(m)
    BY <1>2, <1>7, FailsFits
  <2>2. Effects(m)
    BY <1>1, <1>3, <1>7, FailsFits, <1>2, ReadyFacts
       DEF Effects, InTurn, storeVars, rowVars, CallFails
  <2>. QED  BY <2>1, <2>2
<1>. QED  BY <1>4, <1>5, <1>6, <1>7

LEMMA SendGoesOn ==
  ASSUME NEW m \in Messages, Ready(m), SendReply(m)
  PROVE  MovesOn(m) /\ Effects(m)
<1>1. turnAt[m] = "sending" /\ Left(m)
  BY DEF SendReply, Ready, Shape, PlanFits
<1>2. plan[m] \in Others
  BY <1>1 DEF Left, Others, TimedOut
<1>3. UNCHANGED <<cached, fixedVars, handlerVars, ranOn, wakeAt, storeVars, cut>>
  BY DEF SendReply
<1>4. CASE /\ answered' = answered \cup {m}
           /\ Applies(m, states, plan[m])
           /\ UNCHANGED <<troubled, faults>>
  <2>1. MovesOn(m)
    BY <1>2, <1>4, AppliesFits, ReadyFacts
  <2>2. Effects(m)
    BY <1>1, <1>3, <1>4, ReadyFacts DEF Effects, InTurn, storeVars, rowVars
  <2>. QED  BY <2>1, <2>2
<1>5. CASE CallFails /\ Fails(m, states) /\ UNCHANGED answered
  <2>1. MovesOn(m)
    BY <1>5, FailsFits, ReadyFacts
  <2>2. Effects(m)
    BY <1>1, <1>3, <1>5, FailsFits, ReadyFacts
       DEF Effects, InTurn, storeVars, rowVars, CallFails
  <2>. QED  BY <2>1, <2>2
<1>. QED  BY <1>4, <1>5 DEF SendReply

LEMMA AskGoesOn ==
  ASSUME NEW m \in Messages, Ready(m), StoreAsk(m)
  PROVE  MovesOn(m) /\ Effects(m)
<1>1. turnAt[m] = "asking" /\ Left(m)
  BY DEF StoreAsk, Ready, Shape, PlanFits
<1>2. plan[m] \in Silent \cup Others /\ (m \in answered \cup troubled \/ plan[m] \in Silent)
  BY <1>1 DEF Left, Others, TimedOut, Silent
<1>3. UNCHANGED <<cached, fixedVars, handlerVars, ranOn, wakeAt, stateLog, rowVars,
                  answered, cut>>
  BY DEF StoreAsk
<1>4. CASE Stores(turnNum[m]) /\ Applies(m, states, plan[m]) /\ UNCHANGED troubled
  <2>1. MovesOn(m)
    BY <1>2, <1>3, <1>4, AppliesFits, ReadyFacts
  <2>2. Effects(m)
    BY <1>1, <1>3, <1>4, ReadyFacts DEF Effects, InTurn, Recording, Stores
  <2>. QED  BY <2>1, <2>2
<1>5. CASE Refuses(turnNum[m]) /\ Fails(m, states)
  <2>1. MovesOn(m)
    BY <1>5, FailsFits, ReadyFacts
  <2>2. Effects(m)
    BY <1>1, <1>3, <1>5, FailsFits, ReadyFacts
       DEF Effects, InTurn, Recording, Refuses, CallFails
  <2>. QED  BY <2>1, <2>2
<1>. QED  BY <1>4, <1>5 DEF StoreAsk

LEMMA CompletedGoesOn ==
  ASSUME NEW m \in Messages, Ready(m), StoreCompleted(m)
  PROVE  MovesOn(m) /\ Effects(m)
<1>1. turnAt[m] = "completing" /\ Left(m)
  BY DEF StoreCompleted, Ready, Shape, PlanFits
<1>3. UNCHANGED <<cached, fixedVars, handlerVars, ranOn, wakeAt, stateLog, rowVars,
                  answered, cut>>
  BY DEF StoreCompleted
<1>4. CASE Stores(turnNum[m]) /\ Finishes(m, states) /\ UNCHANGED <<plan, troubled>>
  <2>1. Moves(m, "over")
    BY <1>4, ReadyFacts, FinishesMoves
  <2>2. turnAt'[m] = "over"
    BY <2>1, ReadyFacts DEF Moves
  <2>3. Left(m)'
    BY <1>1, <1>3, <1>4, <2>2 DEF Left
  <2>4. MovesOn(m)
    BY <1>4, <2>1, <2>3, ReadyFacts DEF MovesOn
  <2>5. Effects(m)
    BY <1>1, <1>3, <1>4, ReadyFacts DEF Effects, InTurn, Recording, Stores
  <2>. QED  BY <2>4, <2>5
<1>5. CASE Refuses(turnNum[m]) /\ Fails(m, states)
  <2>1. MovesOn(m)
    BY <1>5, FailsFits, ReadyFacts
  <2>2. Effects(m)
    BY <1>1, <1>3, <1>5, FailsFits, ReadyFacts
       DEF Effects, InTurn, Recording, Refuses, CallFails
  <2>. QED  BY <2>1, <2>2
<1>. QED  BY <1>4, <1>5 DEF StoreCompleted

LEMMA FailedGoesOn ==
  ASSUME NEW m \in Messages, Ready(m), StoreFailed(m)
  PROVE  MovesOn(m) /\ Effects(m)
<1>1. turnAt[m] = "failing" /\ Left(m)
  BY DEF StoreFailed, Ready, Shape, PlanFits
<1>2. /\ UNCHANGED <<cached, fixedVars, handlerVars, ranOn, plan, wakeAt, stateLog, rowVars>>
      /\ UNCHANGED <<answered, troubled, cut>>
      /\ Stores(turnNum[m]) \/ Refuses(turnNum[m])
  BY DEF StoreFailed, historyVars
<1>3. Moves(m, "over")
  BY ReadyFacts, FinishesMoves DEF StoreFailed
<1>4. turnAt'[m] = "over"
  BY <1>3, ReadyFacts DEF Moves
<1>5. Left(m)'
  BY <1>1, <1>2, <1>4 DEF Left
<1>6. MovesOn(m)
  BY <1>2, <1>3, <1>5, ReadyFacts DEF MovesOn
<1>7. Effects(m)
  BY <1>1, <1>2, ReadyFacts DEF Effects, InTurn, Recording, Stores, Refuses, CallFails
<1>. QED  BY <1>6, <1>7

-----------------------------------------------------------------------------
(* The invariant in parts.                                                  *)

ObjectsOK == states \in Seq(Object) /\ cached \in Nat /\ cached <= Len(states)
MentionsOK ==
  /\ at \in [Messages -> Handling \cup {"new", "over", "rejected", "lost"}]
  /\ on \in [Messages -> Nat] /\ num \in [Messages -> Nat]
  /\ mem \in [Messages -> RuntimeState \cup {None}]
TurnsOK ==
  /\ turnAt \in [Messages -> InTurn \cup {"none", "over", "lost"}]
  /\ ranOn \in [Messages -> Nat] /\ turnNum \in [Messages -> Nat]
  /\ plan \in [Messages -> Seq(Steps)]
StoreOK ==
  /\ log \in SUBSET Nat /\ IsFiniteSet(log) /\ stateLog \subseteq log
  /\ row \in [state: RuntimeState, reaction: Messages \cup {None}]
  /\ reactions \subseteq Messages
  /\ faults = 0 => reactions \subseteq {row.reaction}
RestOK ==
  /\ profile \in [Messages -> Profiles] /\ cwd \in Dirs
  /\ wakeAt \in [Wakeups -> {"new", "create", "over", "lost"}]
  /\ faults \in 0..MaxFaults
  /\ answered \subseteq Messages /\ troubled \subseteq Messages /\ cut \in BOOLEAN

LEMMA Parts ==
  Shape <=> /\ ObjectsOK /\ MentionsOK /\ TurnsOK /\ StoreOK /\ RestOK
            /\ OneHandler /\ Placed /\ NotStarted /\ PlanFits
BY DEF Shape, TypeOK, ObjectsOK, MentionsOK, TurnsOK, StoreOK, RestOK

LEMMA PartsNext ==
  Shape' <=> /\ ObjectsOK' /\ MentionsOK' /\ TurnsOK' /\ StoreOK' /\ RestOK'
             /\ OneHandler' /\ Placed' /\ NotStarted' /\ PlanFits'
BY DEF Shape, TypeOK, ObjectsOK, MentionsOK, TurnsOK, StoreOK, RestOK

\* What moving on leaves as it was.
LEMMA MovedFacts ==
  ASSUME NEW m \in Messages, Ready(m), MovesOn(m)
  PROVE  /\ states' \in Seq(Object) /\ Len(states') = Len(states)
         /\ \A n \in Messages : n # m => turnAt'[n] = turnAt[n] /\ turnNum'[n] = turnNum[n]
         /\ turnAt'[m] \in Recording \cup {"sending", "over"}
         /\ turnAt' \in [Messages -> InTurn \cup {"none", "over", "lost"}]
         /\ turnNum' \in [Messages -> Nat]
<1>1. PICK to : Moves(m, to)
  BY DEF MovesOn
<1>2. states[on[m]].seq \in Nat /\ turnNum[m] \in Nat
  <2>1. states[on[m]] \in Object
    BY ReadyFacts, ElementOfSeq
  <2>. QED  BY <2>1, ReadyFacts DEF Object
<1>. QED  BY <1>1, <1>2, ReadyFacts DEF Moves, InTurn, Recording

LEMMA TurnShape ==
  ASSUME NEW m \in Messages, Ready(m), MovesOn(m), Effects(m)
  PROVE  Shape'
<1>1. /\ ObjectsOK /\ MentionsOK /\ TurnsOK /\ StoreOK /\ RestOK
      /\ OneHandler /\ Placed /\ NotStarted /\ PlanFits
  BY Parts DEF Ready
<1>2. ObjectsOK'
  BY <1>1, MovedFacts DEF ObjectsOK, Effects
<1>3. MentionsOK' /\ OneHandler'
  BY <1>1 DEF MentionsOK, Effects, handlerVars, OneHandler
<1>4. TurnsOK'
  <2>1. ranOn' \in [Messages -> Nat]
    <3>1. ranOn' \in {ranOn, [ranOn EXCEPT ![m] = 0]} /\ ranOn \in [Messages -> Nat]
      BY <1>1 DEF TurnsOK, Effects
    <3>. QED  BY <3>1
  <2>2. plan' \in [Messages -> Seq(Steps)]
    BY DEF MovesOn
  <2>. QED  BY <2>1, <2>2, MovedFacts DEF TurnsOK
<1>5. StoreOK'
  <2>1. IsFiniteSet(log') /\ log' \in SUBSET Nat /\ log \subseteq log'
    <3>1. IsFiniteSet(log) /\ log \in SUBSET Nat /\ turnNum[m] \in Nat
      BY <1>1 DEF StoreOK, TurnsOK
    <3>2. log' = log \/ log' = log \cup {turnNum[m]}
      BY DEF Effects
    <3>3. IsFiniteSet(log \cup {turnNum[m]})
      BY <3>1, FS_AddElement
    <3>. QED  BY <3>1, <3>2, <3>3
  <2>2. faults' = 0 => faults = 0
    BY <1>1 DEF Effects, RestOK
  <2>. QED  BY <1>1, <2>1, <2>2 DEF StoreOK, Effects, rowVars
<1>6. RestOK'
  BY <1>1 DEF RestOK, Effects, fixedVars
<1>7. Placed'
  BY <1>1, MovedFacts DEF Placed, Effects, handlerVars, TurnsOK, InTurn, Recording
<1>8. NotStarted'
  BY <1>1, MovedFacts DEF NotStarted, Effects, handlerVars, InTurn, Recording
<1>9. PlanFits'
  <2>1. \A n \in Messages : n # m => plan'[n] = plan[n] /\ turnAt'[n] = turnAt[n]
    BY MovedFacts DEF MovesOn
  <2>2. answered \cup troubled \subseteq answered' \cup troubled'
    BY DEF Effects
  <2>3. ASSUME NEW n \in Messages, n # m PROVE Left(n)'
    BY <1>1, <2>1, <2>2, <2>3 DEF PlanFits, Left
  <2>4. Left(m)'
    BY DEF MovesOn
  <2>. QED  BY <2>3, <2>4 DEF PlanFits
<1>. QED  BY <1>2, <1>3, <1>4, <1>5, <1>6, <1>7, <1>8, <1>9, PartsNext

LEMMA TurnKeeps ==
  ASSUME NEW m \in Messages, Ready(m), MovesOn(m), Effects(m)
  PROVE  TurnInv'
<1>1. PICK to : Moves(m, to)
  BY DEF MovesOn
<1>2. on' = on /\ Len(states') = Len(states) /\ TurnInv
  BY MovedFacts DEF Effects, handlerVars, Ready
<1>3. ASSUME NEW n \in Messages, turnAt'[n] \in InTurn
      PROVE  on'[n] \in 1..Len(states') /\ states'[on'[n]].turn = n
  <2>1. turnAt[n] \in InTurn
    BY <1>3, MovedFacts DEF Ready, Effects
  <2>2. on[n] \in 1..Len(states) /\ states[on[n]].turn = n
    BY <1>2, <2>1 DEF TurnInv
  <2>3. ~(to = "over" /\ on[n] = on[m])
    <3>1. SUFFICES ASSUME to = "over", on[n] = on[m] PROVE FALSE
      OBVIOUS
    <3>2. n = m
      BY <1>2, <2>2, <3>1 DEF TurnInv, Ready
    <3>3. turnAt'[m] = "over"
      BY <1>1, <3>1, ReadyFacts DEF Moves
    <3>. QED  BY <1>3, <3>2, <3>3 DEF InTurn, Recording
  <2>. QED  BY <1>1, <1>2, <2>2, <2>3 DEF Moves
<1>4. ASSUME NEW i \in 1..Len(states'), states'[i].turn # None
      PROVE  turnAt'[states'[i].turn] \in InTurn /\ on'[states'[i].turn] = i
  <2>1. i \in 1..Len(states) /\ states'[i].turn = states[i].turn /\ ~(to = "over" /\ i = on[m])
    BY <1>1, <1>2, <1>4 DEF Moves
  <2>. DEFINE n == states[i].turn
  <2>2. turnAt[n] \in InTurn /\ on[n] = i /\ n \in Messages
    <3>1. states[i] \in Object
      BY <2>1, ReadyFacts, ElementOfSeq
    <3>. QED  BY <1>2, <1>4, <2>1, <3>1 DEF TurnInv, Object
  <2>3. CASE n # m
    BY <1>2, <2>1, <2>2, <2>3, MovedFacts
  <2>4. CASE n = m
    <3>1. to # "over"
      BY <2>1, <2>2, <2>4
    <3>2. turnAt'[m] = to /\ to \in Recording \cup {"sending"}
      BY <1>1, <3>1, ReadyFacts DEF Moves
    <3>. QED  BY <1>2, <2>1, <2>2, <2>4, <3>2 DEF InTurn
  <2>. QED  BY <2>3, <2>4
<1>. QED  BY <1>3, <1>4 DEF TurnInv

LEMMA SeqOfObject ==
  ASSUME states \in Seq(Object), NEW i \in 1..Len(states)
  PROVE  states[i].seq \in Nat
BY ObjectAt DEF Object

LEMMA TurnNumbers ==
  ASSUME Inv, NEW m \in Messages, MovesOn(m), Effects(m), Calm'
  PROVE  Begun' /\ Counted'
<1>0. Ready(m)
  BY DEF Inv, Ready, Effects
<1>1. Calm /\ Begun /\ Counted /\ Shape /\ TurnInv
  <2>1. faults' \in faults..MaxFaults /\ faults \in 0..MaxFaults /\ MaxFaults \in Nat
    BY <1>0, ReadyFacts DEF Effects
  <2>2. Len(states') = Len(states) /\ cut' = cut
    BY <1>0, MovedFacts DEF Effects
  <2>. QED  BY <2>1, <2>2 DEF Inv, Calm
<1>2. PICK to : Moves(m, to)
  BY DEF MovesOn
<1>. DEFINE i == on[m]
            q == states[i].seq
<1>3. i \in 1..Len(states) /\ \A j \in 1..Len(states) : j = i
  <2>1. i \in 1..Len(states) /\ Len(states) \in Nat
    BY <1>0, ReadyFacts, LenProperties
  <2>. QED  BY <1>1, <2>1 DEF Calm
<1>4. ASSUME NEW n \in Messages, turnAt[n] \in InTurn PROVE n = m
  <2>1. on[n] = i
    BY <1>1, <1>3, <1>4 DEF TurnInv
  <2>. QED  BY <1>0, <1>1, <1>4, <2>1 DEF TurnInv, Ready
<1>5. q \in Nat /\ q # 0
  BY <1>0, <1>1, <1>3, ReadyFacts, SeqOfObject DEF Counted, Ready
<1>6. /\ states'[i].seq = IF to \in Recording THEN q + 1 ELSE q
      /\ Len(states') = Len(states) /\ on' = on /\ at' = at /\ num' = num
      /\ stateLog' = stateLog
  BY <1>2, <1>3 DEF Moves, Effects, handlerVars
<1>. HIDE DEF q
<1>7. /\ turnAt'[m] = to /\ \A n \in Messages : n # m => turnAt'[n] = turnAt[n]
      /\ to \in Recording => turnNum'[m] = q + 1
  BY <1>0, <1>2, ReadyFacts, MovedFacts DEF Moves, q
<1>8. /\ log' = log
      \/ /\ turnAt[m] \in Recording /\ turnNum[m] \in 1..q /\ turnNum[m] \notin log
         /\ log' = log \cup {turnNum[m]}
         /\ \A n \in Messages : at[n] = "record" => num[n] # turnNum[m]
  BY <1>1 DEF Effects, Counted, q
<1>9. log \in SUBSET Nat /\ \A k \in log : k <= q
  BY <1>1, <1>3, <1>5 DEF Counted, q, Shape, TypeOK
<1>10. log # {}
  BY <1>0, <1>1 DEF Begun, Ready
<1>11. Begun'
  BY <1>1, <1>6, <1>8, <1>10 DEF Begun
<1>12. log' \in SUBSET Nat /\ \A k \in log' : k <= q
  <2>1. CASE log' = log
    BY <1>9, <2>1
  <2>2. CASE turnNum[m] \in 1..q /\ log' = log \cup {turnNum[m]}
    <3>1. turnNum[m] \in Nat /\ turnNum[m] <= q
      BY <1>5, <2>2
    <3>2. log' = log \cup {turnNum[m]}
      BY <2>2
    <3>. HIDE <2>2
    <3>. QED  BY <1>9, <3>1, <3>2
  <2>. QED  BY <1>8, <2>1, <2>2
<1>13. \A n \in Messages : at[n] \in {"hydrate", "record"} => on[n] = i
  BY <1>1, <1>3 DEF Shape, Placed
<1>14. \A j \in 1..Len(states') : states'[j].seq # 0 => \A k \in log' : k <= states'[j].seq
  <2>1. q <= states'[i].seq
    BY <1>5, <1>6
  <2>2. \A k \in log' : k <= states'[i].seq
    BY <1>5, <1>6, <1>12, <2>1
  <2>. QED  BY <1>3, <1>6, <2>2
<1>15. \A n \in Messages : at'[n] # "hydrate"
  BY <1>1, <1>5, <1>6, <1>13 DEF Counted, q
<1>16. \A n \in Messages : turnAt'[n] \in InTurn => states'[on'[n]].seq # 0
  BY <1>4, <1>5, <1>6, <1>7
<1>17. ASSUME NEW n \in Messages, at'[n] = "record"
       PROVE  num'[n] \in 1..states'[on'[n]].seq /\ num'[n] \notin log'
  <2>1. on[n] = i /\ num[n] \in 1..q /\ num[n] \notin log
    BY <1>1, <1>6, <1>13, <1>17 DEF Counted, q
  <2>2. num[n] \notin log'
    BY <1>6, <1>8, <1>17, <2>1
  <2>. QED  BY <1>5, <1>6, <2>1, <2>2
<1>18. ASSUME NEW n \in Messages, turnAt'[n] \in Recording
       PROVE  /\ turnNum'[n] \in 1..states'[on'[n]].seq /\ turnNum'[n] \notin log'
              /\ \A x \in Messages : at'[x] = "record" => num'[x] # turnNum'[n]
  <2>1. n = m
    BY <1>4, <1>7, <1>18 DEF InTurn
  <2>2. turnNum'[n] = q + 1 /\ states'[on'[n]].seq = q + 1
    BY <1>6, <1>7, <1>18, <2>1
  <2>3. q + 1 \notin log'
    BY <1>5, <1>12
  <2>4. \A x \in Messages : at[x] = "record" => num[x] \in 1..q
    BY <1>1, <1>13 DEF Counted, q
  <2>. QED  BY <1>5, <1>6, <2>2, <2>3, <2>4
<1>19. Counted'
  BY <1>14, <1>15, <1>16, <1>17, <1>18 DEF Counted
<1>. QED  BY <1>11, <1>19

-----------------------------------------------------------------------------
(* The steps of a handler that leave the objects and the turns alone.       *)

Late == {"state", "insert", "sync", "clear", "attach"}

\* The handler of m goes from one place to another; it stores what fits the
\* types, and no number where nothing has gone wrong.
Aside(m) ==
  /\ \E to \in Late \cup {"ensure", "over", "rejected"} :
       /\ at' = [at EXCEPT ![m] = to]
       /\ \/ at[m] = "new" /\ to = "ensure" /\ \A n \in Messages : at[n] \notin Handling
          \/ at[m] \in Late /\ to # "ensure"
       /\ to \in {"state", "insert"} => at[m] = "state"
  /\ mem' \in [Messages -> RuntimeState \cup {None}]
  /\ StoreOK' /\ faults' \in faults..MaxFaults
  /\ UNCHANGED <<states, cached, fixedVars, on, num, turnVars, wakeAt, historyVars>>
  /\ Calm' => log' = log /\ stateLog' = stateLog

LEMMA AsideCalm ==
  ASSUME Shape, NEW m \in Messages, Aside(m), Calm'
  PROVE  Calm
<1>1. faults' \in faults..MaxFaults /\ faults \in 0..MaxFaults /\ MaxFaults \in Nat
  BY RuntimeAssumption DEF Shape, TypeOK, Aside
<1>. QED  BY <1>1 DEF Aside, Calm, historyVars

LEMMA AsideShape ==
  ASSUME Shape, NEW m \in Messages, Aside(m)
  PROVE  Shape'
<1>1. /\ ObjectsOK /\ MentionsOK /\ TurnsOK /\ StoreOK /\ RestOK
      /\ OneHandler /\ Placed /\ NotStarted /\ PlanFits
  BY Parts
<1>2. PICK to \in Late \cup {"ensure", "over", "rejected"} :
        /\ at' = [at EXCEPT ![m] = to]
        /\ \/ at[m] = "new" /\ to = "ensure" /\ \A n \in Messages : at[n] \notin Handling
           \/ at[m] \in Late /\ to # "ensure"
  BY DEF Aside
<1>3. /\ at'[m] = to /\ \A n \in Messages : n # m => at'[n] = at[n]
      /\ at' \in [Messages -> Handling \cup {"new", "over", "rejected", "lost"}]
  BY <1>1, <1>2 DEF MentionsOK, Handling, Late
<1>4. ObjectsOK' /\ TurnsOK' /\ PlanFits'
  BY <1>1 DEF Aside, ObjectsOK, TurnsOK, turnVars, PlanFits, Left, historyVars
<1>5. MentionsOK'
  BY <1>1, <1>3 DEF Aside, MentionsOK
<1>6. OneHandler'
  <2>1. CASE at[m] = "new" /\ \A n \in Messages : at[n] \notin Handling
    BY <1>3, <2>1 DEF OneHandler
  <2>2. CASE at[m] \in Late
    BY <1>1, <1>3, <2>2 DEF OneHandler, Late, Handling
  <2>. QED  BY <1>2, <2>1, <2>2
<1>7. Placed'
  BY <1>1, <1>2, <1>3 DEF Placed, Aside, turnVars, Late
<1>8. NotStarted'
  BY <1>1, <1>2, <1>3 DEF NotStarted, Aside, turnVars, Late
<1>9. StoreOK' /\ RestOK'
  <2>1. faults' \in 0..MaxFaults
    BY <1>1, RuntimeAssumption DEF Aside, RestOK
  <2>. QED  BY <1>1, <2>1 DEF Aside, RestOK, fixedVars, historyVars
<1>. QED  BY <1>4, <1>5, <1>6, <1>7, <1>8, <1>9, PartsNext

LEMMA AsideKeeps ==
  ASSUME TurnInv, NEW m \in Messages, Aside(m)
  PROVE  TurnInv'
BY DEF TurnInv, Aside, turnVars

LEMMA AsideNumbers ==
  ASSUME Inv, NEW m \in Messages, Aside(m), Calm'
  PROVE  Begun' /\ Counted'
<1>1. Shape /\ Calm /\ Begun /\ Counted /\ at \in [Messages -> Handling \cup {"new", "over", "rejected", "lost"}]
  BY AsideCalm DEF Inv, Shape, TypeOK
<1>2. /\ UNCHANGED <<states, on, num, turnAt, turnNum>>
      /\ log' = log /\ stateLog' = stateLog
  BY DEF Aside, turnVars
<1>3. PICK to \in Late \cup {"ensure", "over", "rejected"} :
        /\ at' = [at EXCEPT ![m] = to] /\ at[m] \in Late \cup {"new"}
        /\ to \in {"state", "insert"} => at[m] = "state"
  BY DEF Aside
<1>4. \A n \in Messages : /\ at'[n] = "record" <=> at[n] = "record"
                          /\ at'[n] = "hydrate" <=> at[n] = "hydrate"
                          /\ at'[n] \in {"state", "insert"} => at[n] \in {"state", "insert"}
  BY <1>1, <1>3 DEF Late
<1>5. Begun'
  BY <1>1, <1>2, <1>4 DEF Begun
<1>6. Counted'
  BY <1>1, <1>2, <1>4 DEF Counted
<1>. QED  BY <1>5, <1>6

LEMMA TakeAside ==
  ASSUME Shape, NEW m \in Messages, Take(m)
  PROVE  Aside(m)
<1>1. StoreOK /\ MentionsOK /\ RestOK
  BY Parts
<1>2. StoreOK' /\ mem' = mem /\ faults' = faults
  BY <1>1 DEF Take, StoreOK, storeVars, rowVars
<1>3. faults' \in faults..MaxFaults
  BY <1>1, <1>2, RuntimeAssumption DEF RestOK
<1>4. /\ at' = [at EXCEPT ![m] = "ensure"] /\ at[m] = "new"
      /\ \A n \in Messages : at[n] \notin Handling
  BY DEF Take
<1>5. /\ UNCHANGED <<states, cached, fixedVars, on, num, turnVars, wakeAt, historyVars>>
      /\ log' = log /\ stateLog' = stateLog
  BY DEF Take, storeVars
<1>6. mem' \in [Messages -> RuntimeState \cup {None}]
  BY <1>1, <1>2 DEF MentionsOK
<1>7. \E to \in Late \cup {"ensure", "over", "rejected"} :
        /\ at' = [at EXCEPT ![m] = to]
        /\ \/ at[m] = "new" /\ to = "ensure" /\ \A n \in Messages : at[n] \notin Handling
           \/ at[m] \in Late /\ to # "ensure"
        /\ to \in {"state", "insert"} => at[m] = "state"
  <2>. WITNESS "ensure" \in Late \cup {"ensure", "over", "rejected"}
  <2>. QED  BY <1>4
<1>. QED  BY <1>2, <1>3, <1>5, <1>6, <1>7 DEF Aside

LEMMA MemoryTyped ==
  ASSUME ObjectsOK
  PROVE  MemoryState \in RuntimeState \cup {None}
BY DEF MemoryState, RuntimeState

LEMMA UpdateAside ==
  ASSUME Shape, NEW m \in Messages, UpdateState(m)
  PROVE  Aside(m)
<1>1. ObjectsOK /\ StoreOK /\ MentionsOK /\ RestOK
  BY Parts
<1>2. \E to \in {"insert", "sync", "rejected"} : at' = [at EXCEPT ![m] = to]
  BY DEF UpdateState, ReadsMemory, Rejects
<1>3. mem' \in [Messages -> RuntimeState \cup {None}]
  BY <1>1, MemoryTyped DEF UpdateState, ReadsMemory, MentionsOK
<1>4. faults' \in faults..MaxFaults
  BY <1>1, RuntimeAssumption DEF UpdateState, CallFails, RestOK
<1>5. StoreOK'
  <2>1. row' \in [state: RuntimeState, reaction: Messages \cup {None}] /\ row'.reaction = row.reaction
    BY <1>1 DEF UpdateState, StoreOK, RuntimeState
  <2>2. faults' = 0 => faults = 0
    BY <1>1, <1>4 DEF RestOK
  <2>. QED  BY <1>1, <2>1, <2>2 DEF UpdateState, StoreOK
<1>. QED  BY <1>2, <1>3, <1>4, <1>5 DEF UpdateState, Aside, Late

LEMMA TransitionAside ==
  ASSUME Inv, NEW m \in Messages, StoreTransition(m)
  PROVE  Aside(m)
<1>1. ObjectsOK /\ StoreOK /\ MentionsOK /\ RestOK
  BY Parts DEF Inv
<1>2. \E to \in {"sync", "rejected"} : at' = [at EXCEPT ![m] = to]
  BY DEF StoreTransition, ReadsMemory, Rejects
<1>3. mem' \in [Messages -> RuntimeState \cup {None}]
  BY <1>1, MemoryTyped DEF StoreTransition, ReadsMemory, MentionsOK
<1>4. faults' \in faults..MaxFaults
  BY <1>1, RuntimeAssumption DEF StoreTransition, Stores, Refuses, CallFails, RestOK
<1>5. /\ NextSequence \in Nat
      /\ \/ log' = log /\ stateLog' = stateLog
         \/ /\ NextSequence \notin log /\ log' = log \cup {NextSequence}
            /\ stateLog' = stateLog \cup {NextSequence}
  BY <1>1, NextSequenceIs DEF StoreTransition, Stores, Refuses, StoreOK
<1>6. StoreOK'
  <2>1. log' \in SUBSET Nat /\ IsFiniteSet(log') /\ stateLog' \subseteq log'
    <3>1. IsFiniteSet(log \cup {NextSequence})
      BY <1>1, FS_AddElement DEF StoreOK
    <3>. QED  BY <1>1, <1>5, <3>1 DEF StoreOK
  <2>2. faults' = 0 => faults = 0
    BY <1>1, <1>4 DEF RestOK
  <2>. QED  BY <1>1, <2>1, <2>2 DEF StoreTransition, StoreOK, rowVars
<1>7. Calm' => log' = log /\ stateLog' = stateLog
  <2>1. SUFFICES ASSUME Calm' PROVE NextSequence \in log
    BY <1>5
  <2>2. Calm
    <3>1. faults' = 0 => faults = 0
      BY <1>1, <1>4 DEF RestOK
    <3>. QED  BY <2>1, <3>1 DEF Calm, StoreTransition, historyVars
  <2>3. stateLog = {} /\ 1 \in log
    BY <2>2 DEF Inv, Begun, StoreTransition
  <2>. QED  BY <2>3 DEF NextSequence
<1>. QED  BY <1>2, <1>3, <1>4, <1>6, <1>7 DEF StoreTransition, Aside, Late

LEMMA SyncAside ==
  ASSUME Shape, NEW m \in Messages, SyncRow(m)
  PROVE  Aside(m)
<1>1. ObjectsOK /\ StoreOK /\ MentionsOK /\ RestOK
  BY Parts
<1>2. \E to \in {"clear", "rejected"} : at' = [at EXCEPT ![m] = to]
  BY DEF SyncRow, Rejects
<1>3. mem' \in [Messages -> RuntimeState \cup {None}]
  BY <1>1 DEF SyncRow, MentionsOK
<1>4. faults' \in faults..MaxFaults
  BY <1>1, RuntimeAssumption DEF SyncRow, CallFails, RestOK
<1>5. StoreOK'
  <2>1. row' \in [state: RuntimeState, reaction: Messages \cup {None}] /\ row'.reaction = row.reaction
    BY <1>1 DEF SyncRow, StoreOK, MentionsOK
  <2>2. faults' = 0 => faults = 0
    BY <1>1, <1>4 DEF RestOK
  <2>. QED  BY <1>1, <2>1, <2>2 DEF SyncRow, StoreOK
<1>. QED  BY <1>2, <1>3, <1>4, <1>5 DEF SyncRow, Aside, Late

LEMMA ClearAside ==
  ASSUME Shape, NEW m \in Messages, ClearReaction(m)
  PROVE  Aside(m)
<1>1. ObjectsOK /\ StoreOK /\ MentionsOK /\ RestOK
  BY Parts
<1>2. \E to \in {"attach", "rejected"} : at' = [at EXCEPT ![m] = to]
  BY DEF ClearReaction, Rejects
<1>3. mem' \in [Messages -> RuntimeState \cup {None}]
  BY <1>1 DEF ClearReaction, MentionsOK
<1>4. faults' \in faults..MaxFaults
  BY <1>1, RuntimeAssumption DEF ClearReaction, CallFails, RestOK
<1>5. StoreOK'
  <2>1. reactions' \subseteq reactions /\ row' = row
    BY DEF ClearReaction
  <2>2. faults' = 0 => faults = 0
    BY <1>1, <1>4 DEF RestOK
  <2>. QED  BY <1>1, <2>1, <2>2 DEF ClearReaction, StoreOK
<1>. QED  BY <1>2, <1>3, <1>4, <1>5 DEF ClearReaction, Aside, Late

LEMMA AttachAside ==
  ASSUME Inv, Cleared, NEW m \in Messages, AttachReaction(m)
  PROVE  Aside(m)
<1>1. ObjectsOK /\ StoreOK /\ MentionsOK /\ RestOK
  BY Parts DEF Inv
<1>2. at' = [at EXCEPT ![m] = "over"]
  BY DEF AttachReaction
<1>3. mem' \in [Messages -> RuntimeState \cup {None}]
  BY <1>1 DEF AttachReaction, MentionsOK
<1>4. faults' \in faults..MaxFaults
  BY <1>1, RuntimeAssumption DEF AttachReaction, CallFails, RestOK
<1>5. StoreOK'
  <2>1. row' = [row EXCEPT !.reaction = m] \/ row' = row
    BY DEF AttachReaction
  <2>2. row' \in [state: RuntimeState, reaction: Messages \cup {None}]
    BY <1>1, <2>1 DEF StoreOK
  <2>3. reactions' \subseteq reactions \cup {m}
    BY DEF AttachReaction
  <2>4. faults' = 0 => reactions' \subseteq {row'.reaction}
    <3>1. SUFFICES ASSUME faults' = 0 PROVE reactions' \subseteq {row'.reaction}
      OBVIOUS
    <3>2. faults = 0 /\ ~CallFails
      BY <1>1, <1>4, <3>1 DEF RestOK, CallFails
    <3>3. reactions' = reactions \cup {m} /\ row' = [row EXCEPT !.reaction = m]
      BY <3>2 DEF AttachReaction
    <3>4. reactions = {}
      BY <3>2 DEF Cleared, AttachReaction
    <3>. QED  BY <1>1, <3>3, <3>4 DEF StoreOK
  <2>. QED  BY <1>1, <2>2, <2>3, <2>4 DEF AttachReaction, StoreOK
<1>. QED  BY <1>2, <1>3, <1>4, <1>5 DEF AttachReaction, Aside, Late

-----------------------------------------------------------------------------
(* The steps of a handler that find, make and fill an object.               *)

LEMMA SubmitsObject ==
  ASSUME states \in Seq(Object), NEW i \in 1..Len(states), NEW m, profile[m] \in Profiles,
         NEW last \in Nat, Submits(m, i, last)
  PROVE  /\ states' \in Seq(Object) /\ Len(states') = Len(states)
         /\ states'[i].turn = states[i].turn /\ states'[i].seq = last + 1
         /\ \A j \in 1..Len(states) : j # i => states'[j] = states[j]
<1>. DEFINE p == [states[i] EXCEPT !.profile = profile[m]]
            o == [p EXCEPT !.seq = last + 1]
            s == [states EXCEPT ![i] = p]
            t == [s EXCEPT ![i] = o]
<1>1. states[i] \in Object /\ states \in [1..Len(states) -> Object]
  BY ElementOfSeq, LenProperties
<1>2. p \in Object /\ p.turn = states[i].turn
  BY <1>1 DEF Object
<1>3. o \in Object /\ o.turn = p.turn /\ o.seq = last + 1
  <2>1. PICK n \in Nat : n = last + 1
    OBVIOUS
  <2>. HIDE DEF p
  <2>. QED  BY <1>2, <2>1 DEF Object
<1>4. states' = t
  BY <1>1 DEF Submits
<1>. HIDE DEF p, o
<1>5. /\ s \in Seq(Object) /\ Len(s) = Len(states)
      /\ s[i] = p /\ \A j \in 1..Len(states) : j # i => s[j] = states[j]
  BY <1>1, <1>2, ObjectSet
<1>. HIDE DEF s
<1>6. /\ t \in Seq(Object) /\ Len(t) = Len(s)
      /\ t[i] = o /\ \A j \in 1..Len(s) : j # i => t[j] = s[j]
  BY <1>3, <1>5, ObjectSet
<1>. HIDE DEF t
<1>. QED  BY <1>2, <1>3, <1>4, <1>5, <1>6

LEMMA NewObjectTyped ==
  ASSUME NEW d \in Dirs, NEW p \in Profiles \cup {None}, NEW m \in Messages \cup {None}
  PROVE  NewObject(d, p, m) \in Object
BY DEF NewObject, Object

\* An object is found or made for m, or the step rejects, before m's event is stored.
Prepares(m, to) ==
  /\ at[m] \in {"ensure", "create", "hydrate"} /\ at' = [at EXCEPT ![m] = to]
  /\ to \in {"create", "hydrate", "record", "rejected"}
  /\ states' \in Seq(Object) /\ Len(states) <= Len(states')
  /\ \A i \in 1..Len(states) : states'[i].turn = states[i].turn
  /\ \A i \in 1..Len(states') : i > Len(states) => states'[i].turn = None
  /\ on' \in [Messages -> Nat] /\ \A n \in Messages : n # m => on'[n] = on[n]
  /\ to \in {"hydrate", "record"} => on'[m] \in 1..Len(states')
  /\ num' \in [Messages -> Nat] /\ \A n \in Messages : n # m => num'[n] = num[n]
  /\ cached' \in 0..Len(states') /\ faults' \in faults..MaxFaults
  /\ cut' \in BOOLEAN /\ (cut => cut')
  /\ UNCHANGED <<fixedVars, mem, turnVars, wakeAt, storeVars, answered, troubled>>

LEMMA PreparesShape ==
  ASSUME Shape, NEW m \in Messages, NEW to, Prepares(m, to)
  PROVE  Shape'
<1>1. /\ ObjectsOK /\ MentionsOK /\ TurnsOK /\ StoreOK /\ RestOK
      /\ OneHandler /\ Placed /\ NotStarted /\ PlanFits
  BY Parts
<1>2. /\ at'[m] = to /\ \A n \in Messages : n # m => at'[n] = at[n]
      /\ at' \in [Messages -> Handling \cup {"new", "over", "rejected", "lost"}]
  BY <1>1 DEF MentionsOK, Handling, Prepares
<1>3. ObjectsOK' /\ TurnsOK' /\ PlanFits'
  <2>1. cached' \in Nat /\ cached' <= Len(states')
    BY LenProperties DEF Prepares
  <2>. QED  BY <1>1, <2>1 DEF Prepares, ObjectsOK, TurnsOK, turnVars, PlanFits, Left
<1>4. MentionsOK'
  BY <1>1, <1>2 DEF Prepares, MentionsOK
<1>5. OneHandler'
  BY <1>1, <1>2 DEF OneHandler, Handling, Prepares
<1>6. Placed'
  <2>1. Len(states) \in Nat /\ Len(states') \in Nat /\ Len(states) <= Len(states')
    BY <1>1, LenProperties DEF ObjectsOK, Prepares
  <2>2. ASSUME NEW n \in Messages, at'[n] \in {"hydrate", "record"}
        PROVE  on'[n] \in 1..Len(states')
    <3>1. CASE n = m
      BY <1>2, <2>2, <3>1 DEF Prepares
    <3>2. CASE n # m
      BY <1>1, <1>2, <2>1, <2>2, <3>2 DEF Prepares, Placed
    <3>. QED  BY <3>1, <3>2
  <2>3. ASSUME NEW n \in Messages, turnAt'[n] = "prompt"
        PROVE  ranOn'[n] \in 1..Len(states')
    BY <1>1, <2>1, <2>3 DEF Prepares, Placed, turnVars
  <2>. QED  BY <2>2, <2>3 DEF Placed
<1>7. NotStarted'
  BY <1>1, <1>2 DEF NotStarted, Prepares, turnVars
<1>8. StoreOK' /\ RestOK'
  <2>1. faults' \in 0..MaxFaults /\ (faults' = 0 => faults = 0)
    BY <1>1, RuntimeAssumption DEF Prepares, RestOK
  <2>. QED  BY <1>1, <2>1 DEF Prepares, StoreOK, RestOK, fixedVars, storeVars, rowVars
<1>. QED  BY <1>3, <1>4, <1>5, <1>6, <1>7, <1>8, PartsNext

LEMMA PreparesKeeps ==
  ASSUME Shape, TurnInv, NEW m \in Messages, NEW to, Prepares(m, to)
  PROVE  TurnInv'
<1>1. turnAt[m] = "none" /\ turnAt' = turnAt
  BY DEF Shape, NotStarted, Prepares, turnVars
<1>2. Len(states) \in Nat /\ Len(states') \in Nat /\ Len(states) <= Len(states')
  BY LenProperties DEF Shape, TypeOK, Prepares
<1>3. ASSUME NEW n \in Messages, turnAt'[n] \in InTurn
      PROVE  on'[n] \in 1..Len(states') /\ states'[on'[n]].turn = n
  <2>1. n # m
    BY <1>1, <1>3 DEF InTurn, Recording
  <2>2. on'[n] = on[n] /\ on[n] \in 1..Len(states) /\ states[on[n]].turn = n
    BY <1>1, <1>3, <2>1 DEF TurnInv, Prepares
  <2>. QED  BY <1>2, <2>2 DEF Prepares
<1>4. ASSUME NEW i \in 1..Len(states'), states'[i].turn # None
      PROVE  turnAt'[states'[i].turn] \in InTurn /\ on'[states'[i].turn] = i
  <2>1. i \in 1..Len(states)
    BY <1>2, <1>4 DEF Prepares
  <2>. DEFINE n == states[i].turn
  <2>2. states'[i].turn = n /\ n # None
    BY <1>4, <2>1 DEF Prepares
  <2>3. n \in Messages
    <3>1. states[i] \in Object
      BY <2>1, ObjectAt DEF Shape, TypeOK
    <3>. QED  BY <2>2, <3>1 DEF Object
  <2>4. turnAt[n] \in InTurn /\ on[n] = i
    BY <2>1, <2>2 DEF TurnInv
  <2>5. n # m
    BY <1>1, <2>4 DEF InTurn, Recording
  <2>. QED  BY <1>1, <2>2, <2>3, <2>4, <2>5 DEF Prepares
<1>. QED  BY <1>3, <1>4 DEF TurnInv

LEMMA PreparesCalm ==
  ASSUME Shape, NEW m \in Messages, NEW to, Prepares(m, to), Calm'
  PROVE  Calm
<1>1. faults' \in faults..MaxFaults /\ faults \in 0..MaxFaults /\ MaxFaults \in Nat
  BY RuntimeAssumption DEF Shape, TypeOK, Prepares
<1>2. Len(states) \in Nat /\ Len(states') \in Nat
  BY LenProperties DEF Shape, TypeOK, Prepares
<1>. QED  BY <1>1, <1>2 DEF Prepares, Calm

\* No number is taken before the object is filled.
Uncounted(m, to) ==
  /\ to \in {"create", "hydrate"} /\ num' = num
  /\ \A i \in 1..Len(states) : states'[i].seq = states[i].seq
  /\ \A i \in 1..Len(states') : i > Len(states) => states'[i].seq = 0
  /\ to = "hydrate" => states'[on'[m]].seq = 0

LEMMA UncountedNumbers ==
  ASSUME Inv, NEW m \in Messages, NEW to, Prepares(m, to), Uncounted(m, to), Calm'
  PROVE  Begun' /\ Counted'
<1>1. Calm /\ Begun /\ Counted /\ Shape /\ TurnInv /\ OneHandler /\ Placed
  BY PreparesCalm DEF Inv, Shape
<1>2. /\ at'[m] = to /\ \A n \in Messages : n # m => at'[n] = at[n]
      /\ at[m] \in {"ensure", "create", "hydrate"} /\ to \in {"create", "hydrate"}
  BY <1>1 DEF Shape, TypeOK, Prepares, Uncounted
<1>3. /\ turnAt' = turnAt /\ turnNum' = turnNum /\ log' = log /\ stateLog' = stateLog
      /\ num' = num /\ turnAt[m] = "none"
  BY <1>1 DEF Prepares, Uncounted, turnVars, storeVars, Shape, NotStarted
<1>4. /\ Len(states) \in Nat /\ Len(states') \in Nat
      /\ \A i \in 1..Len(states') : \/ i \in 1..Len(states) /\ states'[i].seq = states[i].seq
                                    \/ states'[i].seq = 0
  <2>1. Len(states) \in Nat
    BY <1>1, LenProperties DEF Shape, TypeOK
  <2>2. Len(states') \in Nat
    BY <1>1, LenProperties DEF Shape, TypeOK, Prepares
  <2>3. ASSUME NEW i \in 1..Len(states')
        PROVE  \/ i \in 1..Len(states) /\ states'[i].seq = states[i].seq
               \/ states'[i].seq = 0
    <3>1. i \in 1..Len(states) \/ i > Len(states)
      BY <2>1, <2>2
    <3>. QED  BY <3>1 DEF Uncounted
  <2>. QED  BY <2>1, <2>2, <2>3
<1>5. \A n \in Messages : at'[n] = "record" <=> at[n] = "record"
  BY <1>2
<1>6. \A n \in Messages : n # m => at[n] \notin Handling
  BY <1>1, <1>2 DEF OneHandler, Handling
<1>7. Begun'
  <2>1. ASSUME NEW i \in 1..Len(states'), log' = {}, states'[i].seq # 0
        PROVE  \E n \in Messages : at'[n] = "record"
    BY <1>1, <1>3, <1>4, <1>5, <2>1 DEF Begun
  <2>2. ASSUME NEW n \in Messages, at'[n] \in {"state", "insert"} \/ turnAt'[n] \in InTurn
        PROVE  log' # {}
    BY <1>1, <1>2, <1>3, <2>2 DEF Begun
  <2>. QED  BY <1>1, <1>3, <1>5, <2>1, <2>2 DEF Begun
<1>8. Counted'
  <2>1. ASSUME NEW i \in 1..Len(states'), states'[i].seq # 0
        PROVE  \A k \in log' : k <= states'[i].seq
    BY <1>1, <1>3, <1>4, <2>1 DEF Counted
  <2>2. ASSUME NEW n \in Messages, at'[n] = "hydrate" PROVE states'[on'[n]].seq = 0
    BY <1>2, <1>6, <2>2 DEF Uncounted, Handling
  <2>3. ASSUME NEW n \in Messages, turnAt'[n] \in InTurn
        PROVE  /\ on'[n] = on[n] /\ turnAt[n] \in InTurn
               /\ states'[on[n]].seq = states[on[n]].seq
    <3>1. n # m /\ turnAt[n] \in InTurn
      BY <1>3, <2>3 DEF InTurn, Recording
    <3>2. on'[n] = on[n] /\ on[n] \in 1..Len(states)
      BY <1>1, <3>1 DEF Prepares, TurnInv
    <3>. QED  BY <3>1, <3>2 DEF Uncounted
  <2>4. \A n \in Messages : turnAt'[n] \in InTurn => states'[on'[n]].seq # 0
    BY <1>1, <2>3 DEF Counted
  <2>5. \A n \in Messages : at'[n] # "record"
    BY <1>2, <1>6 DEF Handling
  <2>6. ASSUME NEW n \in Messages, turnAt'[n] \in Recording
        PROVE  turnNum'[n] \in 1..states'[on'[n]].seq /\ turnNum'[n] \notin log'
    BY <1>1, <1>3, <2>3, <2>6 DEF Counted, InTurn
  <2>. QED  BY <2>1, <2>2, <2>4, <2>5, <2>6 DEF Counted
<1>. QED  BY <1>7, <1>8

\* The object counts one more and the mention takes the number.
Counts(m, last) ==
  LET i == on'[m] IN
  /\ i \in 1..Len(states) /\ Len(states') = Len(states)
  /\ states'[i].seq = last + 1 /\ num'[m] = last + 1
  /\ \A j \in 1..Len(states) : j # i => states'[j].seq = states[j].seq
  /\ \/ at[m] = "ensure" /\ states[i].seq # 0 /\ last = states[i].seq
     \/ at[m] = "hydrate" /\ i = on[m] /\ last = Hydrated /\ (Cardinality(log) > Window => cut')

LEMMA CountsNumbers ==
  ASSUME Inv, NEW m \in Messages, Prepares(m, "record"), NEW last, Counts(m, last), Calm'
  PROVE  Begun' /\ Counted'
<1>1. /\ Calm /\ Begun /\ Counted /\ Shape /\ TurnInv /\ OneHandler /\ Placed
      /\ log \in SUBSET Nat /\ IsFiniteSet(log)
  BY PreparesCalm DEF Inv, Shape, TypeOK
<1>2. /\ at'[m] = "record" /\ \A n \in Messages : n # m => at'[n] = at[n]
      /\ at[m] \in {"ensure", "hydrate"}
  BY <1>1 DEF Shape, TypeOK, Prepares, Counts
<1>3. /\ turnAt' = turnAt /\ turnNum' = turnNum /\ log' = log /\ stateLog' = stateLog
      /\ turnAt[m] = "none"
  BY <1>1 DEF Prepares, turnVars, storeVars, Shape, NotStarted
<1>. DEFINE i == on'[m]
            q == states[i].seq
<1>4. i \in 1..Len(states) /\ \A j \in 1..Len(states) : j = i
  <2>1. i \in 1..Len(states) /\ Len(states) \in Nat
    BY <1>1, LenProperties DEF Counts, Shape, TypeOK
  <2>. QED  BY <1>1, <2>1 DEF Calm
<1>5. /\ q \in Nat
      /\ \/ at[m] = "ensure" /\ q # 0 /\ last = q
         \/ at[m] = "hydrate" /\ q = 0 /\ last = Hydrated
  <2>1. q \in Nat
    BY <1>1, <1>4, SeqOfObject DEF Shape, TypeOK
  <2>. QED  BY <1>1, <2>1 DEF Counts, Counted
<1>6. \A n \in Messages : n # m => at[n] \notin Handling
  BY <1>1, <1>2 DEF OneHandler, Handling
<1>7. last \in Nat /\ q <= last /\ \A k \in log : k <= last
  <2>1. CASE at[m] = "ensure" /\ q # 0 /\ last = q
    BY <1>1, <1>4, <1>5, <2>1 DEF Counted
  <2>2. CASE at[m] = "hydrate" /\ q = 0 /\ last = Hydrated
    <3>1. Cardinality(log) <= Window
      <4>1. ~cut' /\ Cardinality(log) \in Nat /\ Window \in Nat
        BY <1>1, FS_CardinalityType, RuntimeAssumption DEF Calm
      <4>. QED  BY <2>2, <4>1 DEF Counts
    <3>2. Hydrated \in Nat /\ \A k \in log : k <= Hydrated
      BY <1>1, <3>1, HydratedIs
    <3>. QED  BY <2>2, <3>2
  <2>. QED  BY <1>5, <2>1, <2>2
<1>8. log = {} => last = 0
  <2>1. CASE q # 0 /\ log = {}
    <3>1. PICK n \in Messages : at[n] = "record"
      BY <1>1, <1>4, <2>1 DEF Begun
    <3>. QED  BY <1>2, <1>6, <3>1 DEF Handling
  <2>2. CASE q = 0 /\ log = {}
    BY <1>5, <2>2 DEF Hydrated
  <2>. QED  BY <2>1, <2>2
<1>9. /\ states'[i].seq = last + 1 /\ num'[m] = last + 1 /\ Len(states') = Len(states)
  BY DEF Counts
<1>. HIDE DEF q
<1>10. Begun'
  <2>1. ASSUME NEW n \in Messages, at'[n] \in {"state", "insert"} \/ turnAt'[n] \in InTurn
        PROVE  log' # {}
    BY <1>1, <1>2, <1>3, <2>1 DEF Begun
  <2>2. ASSUME NEW n \in Messages, log' = {}, at'[n] = "record" PROVE num'[n] = 1
    BY <1>2, <1>3, <1>6, <1>8, <1>9, <2>2 DEF Handling
  <2>. QED  BY <1>1, <1>2, <1>3, <2>1, <2>2 DEF Begun
<1>11. Counted'
  <2>1. \A k \in log : k <= last + 1 /\ k # last + 1
    BY <1>1, <1>7
  <2>2. ASSUME NEW n \in Messages, turnAt'[n] \in InTurn
        PROVE  on'[n] = i /\ on[n] = i /\ n # m /\ turnAt[n] \in InTurn /\ q # 0
    <3>1. n # m /\ turnAt[n] \in InTurn
      BY <1>3, <2>2 DEF InTurn, Recording
    <3>2. on'[n] = on[n] /\ on[n] \in 1..Len(states)
      BY <1>1, <3>1 DEF Prepares, TurnInv
    <3>. QED  BY <1>1, <1>4, <3>1, <3>2 DEF Counted, q
  <2>3. ASSUME NEW n \in Messages, turnAt'[n] \in Recording
        PROVE  /\ turnNum'[n] \in 1..(last + 1) /\ turnNum'[n] \notin log' /\ on'[n] = i
               /\ \A x \in Messages : at'[x] = "record" => num'[x] # turnNum'[n]
    <3>1. turnNum[n] \in 1..q /\ turnNum[n] \notin log /\ on'[n] = i
      BY <1>1, <1>3, <2>2, <2>3 DEF Counted, InTurn, q
    <3>2. turnNum[n] # last + 1 /\ turnNum[n] \in 1..(last + 1)
      BY <1>5, <1>7, <3>1
    <3>3. \A x \in Messages : at'[x] = "record" => x = m
      BY <1>2, <1>6 DEF Handling
    <3>. QED  BY <1>3, <1>9, <3>1, <3>2, <3>3
  <2>4. \A n \in Messages : at'[n] # "hydrate"
    BY <1>2, <1>6 DEF Handling
  <2>5. ASSUME NEW n \in Messages, at'[n] = "record"
        PROVE  num'[n] \in 1..states'[on'[n]].seq /\ num'[n] \notin log'
    <3>1. n = m
      BY <1>2, <1>6, <2>5 DEF Handling
    <3>. QED  BY <1>3, <1>7, <1>9, <2>1, <3>1
  <2>6. \A j \in 1..Len(states') : states'[j].seq # 0 => \A k \in log' : k <= states'[j].seq
    BY <1>3, <1>4, <1>9, <2>1
  <2>7. \A n \in Messages : turnAt'[n] \in InTurn => states'[on'[n]].seq # 0
    BY <1>7, <1>9, <2>2
  <2>8. \A n \in Messages : turnAt'[n] \in Recording =>
          /\ turnNum'[n] \in 1..states'[on'[n]].seq /\ turnNum'[n] \notin log'
          /\ \A x \in Messages : at'[x] = "record" => num'[x] # turnNum'[n]
    BY <1>9, <2>3
  <2>. QED  BY <2>4, <2>5, <2>6, <2>7, <2>8 DEF Counted
<1>. QED  BY <1>10, <1>11

LEMMA CachedFits ==
  ASSUME ObjectsOK, NEW d, NEW p, Fits(d, p)
  PROVE  cached \in 1..Len(states)
BY LenProperties DEF Fits, ObjectsOK

LEMMA AppendPrepares ==
  ASSUME ObjectsOK, NEW d \in Dirs, NEW p \in Profiles \cup {None},
         NEW m \in Messages \cup {None}, states' = Append(states, NewObject(d, p, m))
  PROVE  /\ states' \in Seq(Object) /\ Len(states') = Len(states) + 1
         /\ \A i \in 1..Len(states) : states'[i] = states[i]
         /\ states'[Len(states) + 1].turn = None /\ states'[Len(states) + 1].seq = 0
         /\ \A i \in 1..Len(states') : i \in 1..Len(states) \/ i = Len(states) + 1
         /\ Len(states) \in Nat
<1>. DEFINE o == NewObject(d, p, m)
<1>1. o \in Object
  BY NewObjectTyped
<1>2. o.turn = None /\ o.seq = 0 /\ states' = Append(states, o)
  BY DEF NewObject
<1>. HIDE DEF o
<1>3. /\ states' \in Seq(Object) /\ Len(states') = Len(states) + 1
      /\ states'[Len(states) + 1] = o /\ \A j \in 1..Len(states) : states'[j] = states[j]
  BY <1>1, <1>2, ObjectAdded DEF ObjectsOK
<1>4. Len(states) \in Nat
  BY LenProperties DEF ObjectsOK
<1>. QED  BY <1>2, <1>3, <1>4

\* What a handler's step before the event is stored does to the invariant.
LEMMA EnsurePrepares ==
  ASSUME Shape, NEW m \in Messages, Ensure(m)
  PROVE  \/ \E to : Prepares(m, to) /\ Uncounted(m, to)
         \/ \E last : Prepares(m, "record") /\ Counts(m, last)
<1>1. ObjectsOK /\ MentionsOK /\ StoreOK /\ RestOK
  BY Parts
<1>2. Len(states) \in Nat /\ faults \in faults..MaxFaults /\ profile[m] \in Profiles
  BY <1>1, LenProperties, RuntimeAssumption DEF ObjectsOK, RestOK
<1>3. /\ UNCHANGED <<fixedVars, mem, turnVars, wakeAt, storeVars, answered, troubled, cut>>
      /\ faults' = faults /\ at[m] = "ensure"
  BY DEF Ensure, historyVars
<1>4. CASE /\ Fits(cwd, profile[m]) /\ on' = [on EXCEPT ![m] = cached]
           /\ states[cached].seq = 0
           /\ at' = [at EXCEPT ![m] = "hydrate"] /\ UNCHANGED <<states, num, cached>>
  <2>1. cached \in 1..Len(states)
    BY <1>1, <1>4, CachedFits
  <2>2. Prepares(m, "hydrate")
    BY <1>1, <1>2, <1>3, <1>4, <2>1 DEF Prepares, ObjectsOK, MentionsOK, RestOK
  <2>3. Uncounted(m, "hydrate")
    BY <1>1, <1>2, <1>4, <2>1 DEF Uncounted, MentionsOK
  <2>. QED  BY <2>2, <2>3
<1>5. CASE /\ Fits(cwd, profile[m]) /\ on' = [on EXCEPT ![m] = cached]
           /\ states[cached].seq # 0 /\ UNCHANGED cached
           /\ Submits(m, cached, states[cached].seq)
  <2>. DEFINE last == states[cached].seq
  <2>1. cached \in 1..Len(states) /\ last \in Nat
    BY <1>1, <1>5, CachedFits, SeqOfObject DEF ObjectsOK
  <2>2. /\ states' \in Seq(Object) /\ Len(states') = Len(states)
        /\ states'[cached].turn = states[cached].turn /\ states'[cached].seq = last + 1
        /\ \A j \in 1..Len(states) : j # cached => states'[j] = states[j]
    BY <1>1, <1>2, <1>5, <2>1, SubmitsObject DEF ObjectsOK
  <2>3. /\ at' = [at EXCEPT ![m] = "record"] /\ num' = [num EXCEPT ![m] = last + 1]
        /\ on' = [on EXCEPT ![m] = cached] /\ cached' = cached /\ last # 0
    BY <1>5 DEF Submits
  <2>. HIDE DEF last
  <2>4. num' \in [Messages -> Nat] /\ on' \in [Messages -> Nat] /\ num'[m] = last + 1 /\ on'[m] = cached
    BY <1>1, <2>1, <2>3 DEF MentionsOK
  <2>5. Prepares(m, "record")
    BY <1>1, <1>2, <1>3, <2>1, <2>2, <2>3, <2>4 DEF Prepares, RestOK, MentionsOK
  <2>6. Counts(m, last)
    BY <1>3, <2>1, <2>2, <2>3, <2>4 DEF Counts, last
  <2>. QED  BY <2>5, <2>6
<1>6. CASE /\ cached' = 0 /\ at' = [at EXCEPT ![m] = "create"] /\ UNCHANGED <<states, on, num>>
  <2>1. Prepares(m, "create")
    BY <1>1, <1>2, <1>3, <1>6 DEF Prepares, ObjectsOK, MentionsOK, RestOK
  <2>2. Uncounted(m, "create")
    BY <1>2, <1>6 DEF Uncounted
  <2>. QED  BY <2>1, <2>2
<1>. QED  BY <1>4, <1>5, <1>6 DEF Ensure

LEMMA CreatePrepares ==
  ASSUME Shape, NEW m \in Messages, CreateForMention(m)
  PROVE  \/ \E to : Prepares(m, to) /\ Uncounted(m, to)
         \/ Prepares(m, "rejected") /\ ~Calm'
<1>1. ObjectsOK /\ MentionsOK /\ StoreOK /\ RestOK
  BY Parts
<1>2. Len(states) \in Nat /\ faults \in 0..MaxFaults /\ MaxFaults \in Nat
  BY <1>1, LenProperties, RuntimeAssumption DEF ObjectsOK, RestOK
<1>3. /\ UNCHANGED <<fixedVars, mem, turnVars, wakeAt, storeVars, answered, troubled, cut>>
      /\ num' = num /\ at[m] = "create"
  BY DEF CreateForMention, historyVars
<1>4. CASE /\ states' = Append(states, NewObject(cwd, profile[m], None))
           /\ cached' = Len(states) + 1
           /\ on' = [on EXCEPT ![m] = Len(states) + 1]
           /\ at' = [at EXCEPT ![m] = "hydrate"]
           /\ UNCHANGED faults
  <2>1. /\ states' \in Seq(Object) /\ Len(states') = Len(states) + 1
        /\ \A i \in 1..Len(states) : states'[i] = states[i]
        /\ states'[Len(states) + 1].turn = None /\ states'[Len(states) + 1].seq = 0
        /\ \A i \in 1..Len(states') : i \in 1..Len(states) \/ i = Len(states) + 1
    BY <1>1, <1>4, AppendPrepares DEF RestOK
  <2>2. on' \in [Messages -> Nat] /\ on'[m] = Len(states) + 1 /\ \A n \in Messages : n # m => on'[n] = on[n]
    BY <1>1, <1>2, <1>4 DEF MentionsOK
  <2>3. Prepares(m, "hydrate")
    BY <1>1, <1>2, <1>3, <1>4, <2>1, <2>2 DEF Prepares, MentionsOK, RestOK
  <2>4. Uncounted(m, "hydrate")
    BY <1>2, <1>3, <2>1, <2>2 DEF Uncounted
  <2>. QED  BY <2>3, <2>4
<1>5. CASE CallFails /\ Rejects(m) /\ UNCHANGED <<states, cached, on>>
  <2>1. Prepares(m, "rejected")
    BY <1>1, <1>2, <1>3, <1>5 DEF Prepares, MentionsOK, RestOK, ObjectsOK, CallFails, Rejects
  <2>2. ~Calm'
    BY <1>2, <1>5 DEF Calm, CallFails
  <2>. QED  BY <2>1, <2>2
<1>. QED  BY <1>4, <1>5 DEF CreateForMention

LEMMA HydratePrepares ==
  ASSUME Shape, NEW m \in Messages, Hydrate(m)
  PROVE  \/ \E last : Prepares(m, "record") /\ Counts(m, last)
         \/ Prepares(m, "rejected") /\ ~Calm'
<1>1. ObjectsOK /\ MentionsOK /\ StoreOK /\ RestOK /\ Placed
  BY Parts
<1>2. /\ Len(states) \in Nat /\ faults \in 0..MaxFaults /\ MaxFaults \in Nat
      /\ profile[m] \in Profiles
  BY <1>1, LenProperties, RuntimeAssumption DEF ObjectsOK, RestOK
<1>3. /\ UNCHANGED <<fixedVars, mem, turnVars, wakeAt, storeVars, answered, troubled, cached>>
      /\ on' = on /\ at[m] = "hydrate"
  BY DEF Hydrate
<1>4. CASE /\ Submits(m, on[m], Hydrated)
           /\ cut' = (cut \/ Cardinality(log) > Window)
           /\ UNCHANGED faults
  <2>. DEFINE i == on[m]
              last == Hydrated
  <2>1. i \in 1..Len(states) /\ last \in Nat
    BY <1>1, <1>3, HydratedIs DEF Placed, StoreOK
  <2>2. /\ states' \in Seq(Object) /\ Len(states') = Len(states)
        /\ states'[i].turn = states[i].turn /\ states'[i].seq = last + 1
        /\ \A j \in 1..Len(states) : j # i => states'[j] = states[j]
    BY <1>1, <1>2, <1>4, <2>1, SubmitsObject DEF ObjectsOK
  <2>3. /\ at' = [at EXCEPT ![m] = "record"] /\ num' = [num EXCEPT ![m] = last + 1]
    BY <1>4 DEF Submits
  <2>. HIDE DEF last
  <2>4. num' \in [Messages -> Nat] /\ num'[m] = last + 1
    BY <1>1, <2>1, <2>3 DEF MentionsOK
  <2>5. cut' \in BOOLEAN /\ (cut => cut') /\ (Cardinality(log) > Window => cut')
    BY <1>1, <1>4 DEF RestOK
  <2>8. \A j \in 1..Len(states) : states'[j].turn = states[j].turn
    BY <2>2
  <2>9. cached' \in 0..Len(states') /\ faults' \in faults..MaxFaults
    BY <1>1, <1>2, <1>3, <1>4, <2>2 DEF ObjectsOK
  <2>10. on' \in [Messages -> Nat] /\ on'[m] \in 1..Len(states')
    BY <1>1, <1>3, <2>1, <2>2 DEF MentionsOK
  <2>6. Prepares(m, "record")
    BY <1>2, <1>3, <2>2, <2>3, <2>4, <2>5, <2>8, <2>9, <2>10 DEF Prepares
  <2>7. Counts(m, last)
    BY <1>3, <2>1, <2>2, <2>3, <2>4, <2>5 DEF Counts, last
  <2>. QED  BY <2>6, <2>7
<1>5. CASE CallFails /\ Rejects(m) /\ UNCHANGED <<states, num, cut>>
  <2>1. Prepares(m, "rejected")
    BY <1>1, <1>2, <1>3, <1>5 DEF Prepares, MentionsOK, RestOK, ObjectsOK, CallFails, Rejects
  <2>2. ~Calm'
    BY <1>2, <1>5 DEF Calm, CallFails
  <2>. QED  BY <2>1, <2>2
<1>. QED  BY <1>4, <1>5 DEF Hydrate

-----------------------------------------------------------------------------
(* The step that stores a mention's event and may start its turn.           *)

LEMMA EntersObject ==
  ASSUME states \in Seq(Object), NEW i \in 1..Len(states), NEW m \in Messages,
         NEW t, t = [states EXCEPT ![i].turn = m]
  PROVE  /\ t \in Seq(Object) /\ Len(t) = Len(states)
         /\ t[i].turn = m /\ t[i].seq = states[i].seq
         /\ \A j \in 1..Len(states) : j # i => t[j] = states[j]
<1>. DEFINE o == [states[i] EXCEPT !.turn = m]
<1>1. states[i] \in Object /\ states \in [1..Len(states) -> Object]
  BY ElementOfSeq, LenProperties
<1>2. o \in Object /\ o.turn = m /\ o.seq = states[i].seq
  BY <1>1 DEF Object
<1>3. t = [states EXCEPT ![i] = o]
  BY <1>1
<1>. HIDE DEF o
<1>4. /\ t \in Seq(Object) /\ Len(t) = Len(states)
      /\ t[i] = o /\ \A j \in 1..Len(states) : j # i => t[j] = states[j]
  <2>1. o \in Object
    BY <1>2
  <2>. QED  BY <1>3, <2>1, ObjectSet
<1>. QED  BY <1>2, <1>4

LEMMA PromptsObject ==
  ASSUME NEW s \in Seq(Object), NEW i \in 1..Len(s), NEW m \in Messages,
         profile[m] \in Profiles, Prompts(m, s, i)
  PROVE  /\ states' \in Seq(Object) /\ Len(states') = Len(s)
         /\ \A j \in 1..Len(s) : states'[j].turn = s[j].turn /\ states'[j].seq = s[j].seq
<1>. DEFINE p == [s[i] EXCEPT !.exec = m]
            o == [p EXCEPT !.profile = profile[m]]
            r == [s EXCEPT ![i] = p]
            t == [r EXCEPT ![i] = o]
<1>1. s[i] \in Object /\ s \in [1..Len(s) -> Object]
  BY ElementOfSeq, LenProperties
<1>2. p \in Object /\ p.turn = s[i].turn /\ p.seq = s[i].seq
  BY <1>1 DEF Object
<1>3. o \in Object /\ o.turn = p.turn /\ o.seq = p.seq
  BY <1>2 DEF Object
<1>4. states' = t
  BY <1>1 DEF Prompts
<1>. HIDE DEF p, o
<1>5. /\ r \in Seq(Object) /\ Len(r) = Len(s)
      /\ r[i] = p /\ \A j \in 1..Len(s) : j # i => r[j] = s[j]
  BY <1>1, <1>2, ObjectSet
<1>. HIDE DEF r
<1>6. /\ t \in Seq(Object) /\ Len(t) = Len(r)
      /\ t[i] = o /\ \A j \in 1..Len(r) : j # i => t[j] = r[j]
  BY <1>3, <1>5, ObjectSet
<1>. HIDE DEF t
<1>. QED  BY <1>2, <1>3, <1>4, <1>5, <1>6

\* The event of m is stored, or m's handler rejects.
Leaves(m, to) ==
  /\ at[m] = "record" /\ at' = [at EXCEPT ![m] = to] /\ num' = [num EXCEPT ![m] = 0]
  /\ \/ to = "state" /\ num[m] \notin log /\ log' = log \cup {num[m]}
     \/ to = "rejected" /\ log' \in {log, log \cup {num[m]}} /\ (num[m] \in log \/ faults' # 0)
  /\ cached' \in 0..Len(states) /\ faults' \in faults..MaxFaults
  /\ UNCHANGED <<fixedVars, on, mem, plan, turnNum, wakeAt, stateLog, rowVars, historyVars>>

Stays == UNCHANGED <<states, turnAt, ranOn>>

\* Its turn starts on the object it was submitted to, where there was none.
Enters(m) ==
  /\ states' \in Seq(Object) /\ Len(states') = Len(states)
  /\ states[on[m]].turn = None /\ states'[on[m]].turn = m
  /\ \A i \in 1..Len(states) : states'[i].seq = states[i].seq
  /\ \A i \in 1..Len(states) : i # on[m] => states'[i].turn = states[i].turn
  /\ \E to \in {"create", "prompt"} :
       /\ turnAt' = [turnAt EXCEPT ![m] = to]
       /\ to = "prompt" => ranOn'[m] \in 1..Len(states)
  /\ ranOn' \in [Messages -> Nat] /\ \A n \in Messages : n # m => ranOn'[n] = ranOn[n]

LEMMA StartsEnters ==
  ASSUME Shape, NEW m \in Messages, at[m] = "record", states[on[m]].turn = None, StartsTurn(m)
  PROVE  Enters(m) /\ cached' \in 0..Len(states)
<1>1. ObjectsOK /\ TurnsOK /\ RestOK /\ Placed /\ Len(states) \in Nat
  BY Parts, LenProperties DEF ObjectsOK
<1>. DEFINE i == on[m]
            t == [states EXCEPT ![i].turn = m]
<1>2. i \in 1..Len(states) /\ profile[m] \in Profiles
  BY <1>1 DEF Placed, RestOK
<1>3. /\ t \in Seq(Object) /\ Len(t) = Len(states)
      /\ t[i].turn = m /\ t[i].seq = states[i].seq
      /\ \A j \in 1..Len(states) : j # i => t[j] = states[j]
  <2>1. states \in Seq(Object)
    BY <1>1 DEF ObjectsOK
  <2>2. PICK u : u = [states EXCEPT ![i].turn = m]
    OBVIOUS
  <2>3. /\ u \in Seq(Object) /\ Len(u) = Len(states)
        /\ u[i].turn = m /\ u[i].seq = states[i].seq
        /\ \A j \in 1..Len(states) : j # i => u[j] = states[j]
    BY <1>2, <2>1, <2>2, EntersObject
  <2>. QED  BY <2>2, <2>3
<1>4. CASE /\ Fits(cwd, profile[m]) /\ Prompts(m, t, cached) /\ UNCHANGED cached
  <2>. HIDE DEF t
  <2>1. cached \in 1..Len(states)
    BY <1>1, <1>4, CachedFits
  <2>2. /\ states' \in Seq(Object) /\ Len(states') = Len(t)
        /\ \A j \in 1..Len(t) : states'[j].turn = t[j].turn /\ states'[j].seq = t[j].seq
    BY <1>2, <1>3, <1>4, <2>1, PromptsObject
  <2>3. ranOn' = [ranOn EXCEPT ![m] = cached] /\ turnAt' = [turnAt EXCEPT ![m] = "prompt"]
    BY <1>4 DEF Prompts
  <2>4. ranOn' \in [Messages -> Nat] /\ ranOn'[m] = cached /\ \A n \in Messages : n # m => ranOn'[n] = ranOn[n]
    BY <1>1, <2>3 DEF TurnsOK, ObjectsOK
  <2>5. Enters(m)
    BY <1>2, <1>3, <2>1, <2>2, <2>3, <2>4 DEF Enters
  <2>. QED  BY <1>1, <1>4, <2>1, <2>5
<1>5. CASE /\ cached' = 0 /\ states' = t
           /\ turnAt' = [turnAt EXCEPT ![m] = "create"]
           /\ UNCHANGED ranOn
  <2>. HIDE DEF t
  <2>1. Enters(m)
    BY <1>1, <1>2, <1>3, <1>5 DEF Enters, TurnsOK
  <2>. QED  BY <1>1, <1>5, <2>1
<1>. QED  BY <1>4, <1>5 DEF StartsTurn

LEMMA SubmittedLeaves ==
  ASSUME Shape, NEW m \in Messages, StoreSubmitted(m)
  PROVE  \E to : Leaves(m, to) /\ (Stays \/ (to = "state" /\ Enters(m)))
<1>1. ObjectsOK /\ RestOK
  BY Parts
<1>2. /\ faults \in 0..MaxFaults /\ MaxFaults \in Nat /\ cached \in 0..Len(states)
      /\ at[m] = "record" /\ num' = [num EXCEPT ![m] = 0]
      /\ UNCHANGED <<fixedVars, on, mem, plan, turnNum, wakeAt, stateLog, rowVars, historyVars>>
  BY <1>1, LenProperties, RuntimeAssumption DEF ObjectsOK, RestOK, StoreSubmitted
<1>3. CASE /\ Stores(num[m]) /\ at' = [at EXCEPT ![m] = "state"]
           /\ UNCHANGED <<states, cached, turnAt, ranOn>>
  <2>1. Leaves(m, "state") /\ Stays
    BY <1>2, <1>3 DEF Leaves, Stays, Stores
  <2>. QED  BY <2>1
<1>4. CASE /\ Stores(num[m]) /\ at' = [at EXCEPT ![m] = "state"]
           /\ states[on[m]].turn = None /\ StartsTurn(m)
  <2>1. Enters(m) /\ cached' \in 0..Len(states)
    BY <1>2, <1>4, StartsEnters
  <2>2. Leaves(m, "state")
    BY <1>2, <1>4, <2>1 DEF Leaves, Stores
  <2>. QED  BY <2>1, <2>2
<1>5. CASE Refuses(num[m]) /\ Rejects(m) /\ UNCHANGED <<states, cached, turnAt, ranOn>>
  <2>1. Leaves(m, "rejected") /\ Stays
    BY <1>2, <1>5 DEF Leaves, Stays, Refuses, Rejects, CallFails
  <2>. QED  BY <2>1
<1>6. CASE /\ log' = log \cup {num[m]} /\ CallFails /\ Rejects(m)
           /\ UNCHANGED <<states, cached, turnAt, ranOn>>
  <2>1. Leaves(m, "rejected") /\ Stays
    BY <1>2, <1>6 DEF Leaves, Stays, Rejects, CallFails
  <2>. QED  BY <2>1
<1>. QED  BY <1>3, <1>4, <1>5, <1>6 DEF StoreSubmitted

\* Staying or entering, seen from the turns.
LEMMA EnteredFacts ==
  ASSUME Shape, NEW m \in Messages, at[m] = "record", Stays \/ Enters(m)
  PROVE  /\ states' \in Seq(Object) /\ Len(states') = Len(states) /\ Len(states) \in Nat
         /\ \A i \in 1..Len(states) : states'[i].seq = states[i].seq
         /\ on[m] \in 1..Len(states) /\ turnAt[m] = "none"
         /\ \A n \in Messages : n # m => turnAt'[n] = turnAt[n] /\ ranOn'[n] = ranOn[n]
         /\ turnAt'[m] \in {"none", "create", "prompt"}
         /\ turnAt'[m] # "none" => Enters(m)
         /\ turnAt' \in [Messages -> InTurn \cup {"none", "over", "lost"}]
         /\ ranOn' \in [Messages -> Nat]
<1>1. /\ ObjectsOK /\ TurnsOK /\ Len(states) \in Nat
      /\ on[m] \in 1..Len(states) /\ turnAt[m] = "none"
  BY Parts, LenProperties DEF ObjectsOK, Placed, NotStarted
<1>2. CASE Stays
  BY <1>1, <1>2 DEF Stays, ObjectsOK, TurnsOK
<1>3. CASE Enters(m)
  <2>1. PICK to \in {"create", "prompt"} : turnAt' = [turnAt EXCEPT ![m] = to]
    BY <1>3 DEF Enters
  <2>2. /\ turnAt'[m] = to /\ \A n \in Messages : n # m => turnAt'[n] = turnAt[n]
        /\ turnAt' \in [Messages -> InTurn \cup {"none", "over", "lost"}]
    BY <1>1, <2>1 DEF TurnsOK, InTurn
  <2>. QED  BY <1>1, <1>3, <2>2 DEF Enters
<1>. QED  BY <1>2, <1>3

LEMMA LeavesShape ==
  ASSUME Shape, NEW m \in Messages, NEW to, Leaves(m, to),
         Stays \/ (to = "state" /\ Enters(m))
  PROVE  Shape'
<1>1. /\ ObjectsOK /\ MentionsOK /\ TurnsOK /\ StoreOK /\ RestOK
      /\ OneHandler /\ Placed /\ NotStarted /\ PlanFits
  BY Parts
<1>2. /\ at'[m] = to /\ \A n \in Messages : n # m => at'[n] = at[n]
      /\ at' \in [Messages -> Handling \cup {"new", "over", "rejected", "lost"}]
      /\ to \in {"state", "rejected"} /\ at[m] = "record"
  BY <1>1 DEF MentionsOK, Handling, Leaves
<1>3. /\ states' \in Seq(Object) /\ Len(states') = Len(states) /\ Len(states) \in Nat
      /\ turnAt[m] = "none"
      /\ \A n \in Messages : n # m => turnAt'[n] = turnAt[n] /\ ranOn'[n] = ranOn[n]
      /\ turnAt'[m] \in {"none", "create", "prompt"}
      /\ turnAt'[m] # "none" => Enters(m)
      /\ turnAt' \in [Messages -> InTurn \cup {"none", "over", "lost"}]
      /\ ranOn' \in [Messages -> Nat]
  BY <1>2, EnteredFacts
<1>4. ObjectsOK'
  <2>1. cached' \in Nat /\ cached' <= Len(states)
    BY <1>3 DEF Leaves
  <2>. QED  BY <1>3, <2>1 DEF ObjectsOK
<1>5. TurnsOK'
  BY <1>1, <1>3 DEF TurnsOK, Leaves
<1>6. PlanFits'
  BY <1>1, <1>3 DEF PlanFits, Left, Leaves, historyVars
<1>7. MentionsOK'
  BY <1>1, <1>2 DEF Leaves, MentionsOK
<1>8. OneHandler'
  BY <1>1, <1>2 DEF OneHandler, Handling
<1>9. Placed'
  <2>1. turnAt'[m] = "prompt" => ranOn'[m] \in 1..Len(states)
    BY <1>1, <1>3 DEF Enters, TurnsOK
  <2>. QED  BY <1>1, <1>2, <1>3, <2>1 DEF Placed, Leaves
<1>10. NotStarted'
  BY <1>1, <1>2, <1>3 DEF NotStarted
<1>11. StoreOK' /\ RestOK'
  <2>1. faults' \in 0..MaxFaults /\ (faults' = 0 => faults = 0)
    BY <1>1, RuntimeAssumption DEF Leaves, RestOK
  <2>2. log' \in SUBSET Nat /\ IsFiniteSet(log') /\ log \subseteq log'
    <3>1. IsFiniteSet(log \cup {num[m]}) /\ num[m] \in Nat
      BY <1>1, FS_AddElement DEF StoreOK, MentionsOK
    <3>2. log' = log \/ log' = log \cup {num[m]}
      BY DEF Leaves
    <3>. QED  BY <1>1, <3>1, <3>2 DEF StoreOK
  <2>. QED  BY <1>1, <2>1, <2>2 DEF Leaves, StoreOK, RestOK, fixedVars, rowVars, historyVars
<1>. QED  BY <1>4, <1>5, <1>6, <1>7, <1>8, <1>9, <1>10, <1>11, PartsNext

LEMMA LeavesKeeps ==
  ASSUME Shape, TurnInv, NEW m \in Messages, NEW to, Leaves(m, to), Stays \/ Enters(m)
  PROVE  TurnInv'
<1>1. on' = on /\ at[m] = "record"
  BY DEF Leaves
<1>2. CASE Stays
  BY <1>1, <1>2 DEF Stays, TurnInv
<1>3. CASE Enters(m)
  <2>1. /\ Len(states') = Len(states) /\ on[m] \in 1..Len(states) /\ turnAt[m] = "none"
        /\ \A n \in Messages : n # m => turnAt'[n] = turnAt[n]
        /\ states \in Seq(Object)
    BY <1>1, <1>3, EnteredFacts DEF Shape, TypeOK
  <2>2. turnAt'[m] \in InTurn
    <3>1. PICK p \in {"create", "prompt"} : turnAt' = [turnAt EXCEPT ![m] = p]
      BY <1>3 DEF Enters
    <3>. QED  BY <3>1 DEF Shape, TypeOK, InTurn
  <2>3. ASSUME NEW n \in Messages, turnAt'[n] \in InTurn
        PROVE  on'[n] \in 1..Len(states') /\ states'[on'[n]].turn = n
    <3>1. CASE n = m
      BY <1>1, <1>3, <2>1, <3>1 DEF Enters
    <3>2. CASE n # m
      <4>1. on[n] \in 1..Len(states) /\ states[on[n]].turn = n
        BY <2>1, <2>3, <3>2 DEF TurnInv
      <4>2. on[n] # on[m]
        BY <1>3, <4>1, RuntimeAssumption DEF Enters
      <4>. QED  BY <1>1, <1>3, <2>1, <4>1, <4>2 DEF Enters
    <3>. QED  BY <3>1, <3>2
  <2>4. ASSUME NEW i \in 1..Len(states'), states'[i].turn # None
        PROVE  turnAt'[states'[i].turn] \in InTurn /\ on'[states'[i].turn] = i
    <3>1. CASE i = on[m]
      BY <1>1, <1>3, <2>2, <3>1 DEF Enters
    <3>2. CASE i # on[m]
      <4>. DEFINE n == states[i].turn
      <4>1. i \in 1..Len(states) /\ states'[i].turn = n
        BY <1>3, <2>1, <2>4, <3>2 DEF Enters
      <4>2. turnAt[n] \in InTurn /\ on[n] = i
        BY <2>4, <4>1 DEF TurnInv
      <4>3. n \in Messages
        <5>1. states[i] \in Object
          BY <2>1, <4>1, ObjectAt
        <5>. QED  BY <2>4, <4>1, <5>1 DEF Object
      <4>4. n # m
        BY <3>2, <4>2
      <4>. QED  BY <1>1, <2>1, <4>1, <4>2, <4>3, <4>4
    <3>. QED  BY <3>1, <3>2
  <2>. QED  BY <2>3, <2>4 DEF TurnInv
<1>. QED  BY <1>2, <1>3

LEMMA LeavesNumbers ==
  ASSUME Inv, NEW m \in Messages, NEW to, Leaves(m, to), Stays \/ Enters(m), Calm'
  PROVE  Begun' /\ Counted'
<1>0. at[m] = "record" /\ Shape
  BY DEF Leaves, Inv
<1>1. /\ states' \in Seq(Object) /\ Len(states') = Len(states) /\ Len(states) \in Nat
      /\ \A i \in 1..Len(states) : states'[i].seq = states[i].seq
      /\ on[m] \in 1..Len(states) /\ turnAt[m] = "none"
      /\ \A n \in Messages : n # m => turnAt'[n] = turnAt[n]
      /\ turnAt'[m] \in {"none", "create", "prompt"}
  BY <1>0, EnteredFacts
<1>2. /\ Calm /\ Begun /\ Counted /\ TurnInv /\ OneHandler
      /\ log \in SUBSET Nat
  <2>1. faults' \in faults..MaxFaults /\ faults \in 0..MaxFaults /\ MaxFaults \in Nat
    BY <1>0, RuntimeAssumption DEF Leaves, Shape, TypeOK
  <2>2. cut' = cut
    BY DEF Leaves, historyVars
  <2>3. Calm
    BY <1>1, <2>1, <2>2 DEF Calm
  <2>. QED  BY <2>3 DEF Inv, Shape, TypeOK
<1>. DEFINE i == on[m]
            q == states[i].seq
<1>3. \A j \in 1..Len(states) : j = i
  BY <1>1, <1>2 DEF Calm
<1>4. q \in Nat /\ num[m] \in 1..q /\ num[m] \notin log /\ (log = {} => num[m] = 1)
  <2>1. q \in Nat
    BY <1>0, <1>1, SeqOfObject DEF Shape, TypeOK
  <2>. QED  BY <1>0, <1>2, <2>1 DEF Counted, Begun
<1>5. to = "state" /\ log' = log \cup {num[m]} /\ on' = on /\ stateLog' = stateLog
      /\ turnNum' = turnNum
  BY <1>4 DEF Leaves, Calm
<1>6. /\ at'[m] = "state" /\ num'[m] = 0
      /\ \A n \in Messages : n # m => at'[n] = at[n] /\ num'[n] = num[n]
  BY <1>0, <1>5 DEF Leaves, Shape, TypeOK
<1>7. \A n \in Messages : at'[n] \notin {"hydrate", "record"}
  BY <1>0, <1>2, <1>6 DEF OneHandler, Handling
<1>8. q # 0 /\ \A k \in log' : k <= q
  <2>1. q # 0
    BY <1>4
  <2>2. \A k \in log : k <= q
    BY <1>1, <1>2, <2>1 DEF Counted
  <2>3. num[m] <= q
    BY <1>4
  <2>. QED  BY <1>5, <2>1, <2>2, <2>3
<1>9. Begun'
  <2>1. log' # {} /\ 1 \in log'
    BY <1>2, <1>4, <1>5 DEF Begun
  <2>. QED  BY <1>2, <1>5, <2>1 DEF Begun
<1>. HIDE DEF q
<1>10. Counted'
  <2>1. \A j \in 1..Len(states') : states'[j].seq # 0 => \A k \in log' : k <= states'[j].seq
    BY <1>1, <1>3, <1>8 DEF q
  <2>2. ASSUME NEW n \in Messages, turnAt'[n] \in InTurn
        PROVE  on[n] = i
    <3>1. CASE n = m
      BY <3>1
    <3>2. CASE n # m
      BY <1>1, <1>2, <1>3, <2>2, <3>2 DEF TurnInv
    <3>. QED  BY <3>1, <3>2
  <2>3. ASSUME NEW n \in Messages, turnAt'[n] \in InTurn
        PROVE  states'[on'[n]].seq # 0
    BY <1>1, <1>5, <1>8, <2>2, <2>3 DEF q
  <2>4. ASSUME NEW n \in Messages, turnAt'[n] \in Recording
        PROVE  turnNum'[n] \in 1..states'[on'[n]].seq /\ turnNum'[n] \notin log'
    <3>1. n # m /\ turnAt[n] \in Recording
      BY <1>1, <2>4 DEF Recording
    <3>2. turnNum[n] \in 1..states[on[n]].seq /\ turnNum[n] \notin log /\ turnNum[n] # num[m]
      BY <1>0, <1>2, <3>1 DEF Counted
    <3>3. on[n] = i
      BY <2>2, <2>4 DEF InTurn
    <3>. QED  BY <1>1, <1>5, <3>2, <3>3
  <2>. QED  BY <1>7, <2>1, <2>3, <2>4 DEF Counted
<1>. QED  BY <1>9, <1>10

-----------------------------------------------------------------------------
(* The rest of the steps.                                                   *)

\* An object that nobody works with is added, and mentions stay where they are.
Grows ==
  /\ states' \in Seq(Object) /\ Len(states') = Len(states) + 1
  /\ \A i \in 1..Len(states) : states'[i].turn = states[i].turn /\ states'[i].seq = states[i].seq
  /\ states'[Len(states) + 1].turn = None /\ states'[Len(states) + 1].seq = 0
  /\ cached' = Len(states) + 1
  /\ UNCHANGED <<fixedVars, handlerVars, turnNum, plan, storeVars, faults, historyVars>>

LEMMA GrowsKeeps ==
  ASSUME Shape, TurnInv, Grows,
         \A n \in Messages : turnAt'[n] \in InTurn <=> turnAt[n] \in InTurn
  PROVE  TurnInv'
<1>1. /\ Len(states) \in Nat /\ Len(states') = Len(states) + 1 /\ on' = on
      /\ \A i \in 1..Len(states') : i \in 1..Len(states) \/ i = Len(states) + 1
  BY LenProperties DEF Shape, TypeOK, Grows, handlerVars
<1>2. ASSUME NEW n \in Messages, turnAt'[n] \in InTurn
      PROVE  on'[n] \in 1..Len(states') /\ states'[on'[n]].turn = n
  <2>1. on[n] \in 1..Len(states) /\ states[on[n]].turn = n
    BY <1>2 DEF TurnInv
  <2>. QED  BY <1>1, <2>1 DEF Grows
<1>3. ASSUME NEW i \in 1..Len(states'), states'[i].turn # None
      PROVE  turnAt'[states'[i].turn] \in InTurn /\ on'[states'[i].turn] = i
  <2>1. i \in 1..Len(states) /\ states'[i].turn = states[i].turn
    BY <1>1, <1>3 DEF Grows
  <2>2. turnAt[states[i].turn] \in InTurn /\ on[states[i].turn] = i
    BY <1>3, <2>1 DEF TurnInv
  <2>3. states[i].turn \in Messages
    <3>1. states[i] \in Object
      BY <2>1, ObjectAt DEF Shape, TypeOK
    <3>. QED  BY <1>3, <2>1, <3>1 DEF Object
  <2>. QED  BY <1>1, <2>1, <2>2, <2>3
<1>. QED  BY <1>2, <1>3 DEF TurnInv

LEMMA GrowsShape ==
  ASSUME Shape, Grows, TurnsOK', Placed', NotStarted', PlanFits',
         wakeAt' \in [Wakeups -> {"new", "create", "over", "lost"}]
  PROVE  Shape'
<1>1. /\ ObjectsOK /\ MentionsOK /\ StoreOK /\ RestOK /\ OneHandler
  BY Parts
<1>2. ObjectsOK'
  BY LenProperties DEF Grows, ObjectsOK
<1>3. MentionsOK' /\ OneHandler'
  BY <1>1 DEF Grows, MentionsOK, OneHandler, handlerVars
<1>4. StoreOK' /\ RestOK'
  BY <1>1 DEF Grows, StoreOK, RestOK, storeVars, rowVars, historyVars, fixedVars
<1>. QED  BY <1>2, <1>3, <1>4, PartsNext

LEMMA GrowsPlaced ==
  ASSUME Shape, Grows,
         \A n \in Messages : turnAt'[n] = "prompt" =>
           \/ turnAt[n] = "prompt" /\ ranOn'[n] = ranOn[n]
           \/ ranOn'[n] = Len(states) + 1
  PROVE  Placed'
<1>1. /\ Len(states) \in Nat /\ Len(states') = Len(states) + 1 /\ on' = on /\ at' = at /\ Placed
  BY LenProperties DEF Shape, TypeOK, Grows, handlerVars
<1>. QED  BY <1>1 DEF Placed

LEMMA CreatesForTurn ==
  ASSUME Inv, NEW m \in Messages, CreateForTurn(m)
  PROVE  \/ MovesOn(m) /\ Effects(m)
         \/ Shape' /\ TurnInv' /\ ~Calm'
<1>1. /\ ObjectsOK /\ MentionsOK /\ TurnsOK /\ StoreOK /\ RestOK
      /\ OneHandler /\ Placed /\ NotStarted /\ PlanFits /\ Shape /\ TurnInv
  BY Parts DEF Inv
<1>2. turnAt[m] = "create" /\ Ready(m) /\ profile[m] \in Profiles
  BY <1>1 DEF CreateForTurn, Ready, InTurn, RestOK
<1>3. CASE /\ cached' = Len(states) + 1
           /\ Prompts(m, Append(states, NewObject(cwd, profile[m], m)), Len(states) + 1)
           /\ UNCHANGED <<turnNum, plan, troubled, faults>>
           /\ UNCHANGED <<fixedVars, handlerVars, wakeAt, storeVars, answered, cut>>
  <2>. DEFINE o == NewObject(cwd, profile[m], m)
              s == Append(states, o)
  <2>1. o \in Object /\ o.turn = None /\ o.seq = 0 /\ Len(states) \in Nat
    BY <1>1, <1>2, NewObjectTyped, LenProperties DEF RestOK, ObjectsOK, NewObject
  <2>. HIDE DEF o
  <2>2. /\ s \in Seq(Object) /\ Len(s) = Len(states) + 1
        /\ s[Len(states) + 1] = o /\ \A j \in 1..Len(states) : s[j] = states[j]
    BY <1>1, <2>1, ObjectAdded DEF ObjectsOK
  <2>3. Prompts(m, s, Len(states) + 1)
    BY <1>3 DEF o
  <2>. HIDE DEF s
  <2>4. /\ states' \in Seq(Object) /\ Len(states') = Len(s)
        /\ \A j \in 1..Len(s) : states'[j].turn = s[j].turn /\ states'[j].seq = s[j].seq
    BY <1>2, <2>1, <2>2, <2>3, PromptsObject
  <2>5. Grows
    BY <1>3, <2>1, <2>2, <2>4 DEF Grows, historyVars
  <2>6. /\ turnAt' = [turnAt EXCEPT ![m] = "prompt"]
        /\ ranOn' = [ranOn EXCEPT ![m] = Len(states) + 1]
    BY <2>3 DEF Prompts
  <2>7. /\ turnAt'[m] = "prompt" /\ ranOn'[m] = Len(states) + 1
        /\ \A n \in Messages : n # m => turnAt'[n] = turnAt[n] /\ ranOn'[n] = ranOn[n]
        /\ TurnsOK'
    BY <1>1, <1>3, <2>1, <2>6 DEF TurnsOK, InTurn
  <2>8. TurnInv'
    <3>1. \A n \in Messages : turnAt'[n] \in InTurn <=> turnAt[n] \in InTurn
      BY <1>2, <2>7 DEF InTurn
    <3>. QED  BY <1>1, <2>5, <3>1, GrowsKeeps
  <2>9. Placed'
    <3>1. \A n \in Messages : turnAt'[n] = "prompt" =>
            \/ turnAt[n] = "prompt" /\ ranOn'[n] = ranOn[n]
            \/ ranOn'[n] = Len(states) + 1
      BY <2>7
    <3>. QED  BY <1>1, <2>5, <3>1, GrowsPlaced
  <2>10. NotStarted' /\ PlanFits'
    BY <1>1, <1>2, <1>3, <2>7 DEF NotStarted, PlanFits, Left, handlerVars
  <2>11. Shape'
    BY <1>1, <1>3, <2>5, <2>7, <2>9, <2>10, GrowsShape DEF RestOK
  <2>12. ~Calm'
    <3>1. on[m] \in 1..Len(states)
      BY <1>2, ReadyFacts
    <3>. QED  BY <2>1, <2>5, <3>1 DEF Calm, Grows
  <2>. QED  BY <2>8, <2>11, <2>12
<1>4. CASE /\ CallFails /\ Fails(m, states) /\ UNCHANGED <<cached, ranOn>>
           /\ UNCHANGED <<fixedVars, handlerVars, wakeAt, storeVars, answered, cut>>
  <2>1. MovesOn(m)
    BY <1>2, <1>4, FailsFits, ReadyFacts
  <2>2. Effects(m)
    BY <1>2, <1>4, FailsFits, ReadyFacts
       DEF Effects, InTurn, storeVars, rowVars, CallFails
  <2>. QED  BY <2>1, <2>2
<1>. QED  BY <1>3, <1>4 DEF CreateForTurn

LEMMA WakeKeeps ==
  ASSUME Inv, NEW k \in Wakeups, Wake(k)
  PROVE  Inv'
<1>1. /\ ObjectsOK /\ MentionsOK /\ TurnsOK /\ StoreOK /\ RestOK
      /\ OneHandler /\ Placed /\ NotStarted /\ PlanFits /\ TurnInv
  BY Parts DEF Inv
<1>2. UNCHANGED <<states, fixedVars, handlerVars, turnVars, storeVars, faults, historyVars>>
  BY DEF Wake
<1>3. (cached' = cached \/ cached' = 0)
      /\ wakeAt' \in [Wakeups -> {"new", "create", "over", "lost"}]
  BY <1>1 DEF Wake, RestOK
<1>4. ObjectsOK' /\ RestOK'
  BY <1>1, <1>2, <1>3, LenProperties DEF ObjectsOK, RestOK, fixedVars, historyVars
<1>5. MentionsOK' /\ OneHandler' /\ TurnsOK'
  BY <1>1, <1>2 DEF MentionsOK, OneHandler, TurnsOK, handlerVars, turnVars
<1>6. StoreOK'
  BY <1>1, <1>2 DEF StoreOK, storeVars, rowVars
<1>7. Placed' /\ NotStarted' /\ PlanFits'
  BY <1>1, <1>2 DEF Placed, NotStarted, PlanFits, Left, handlerVars, turnVars, historyVars
<1>8. TurnInv'
  BY <1>1, <1>2 DEF TurnInv, handlerVars, turnVars
<1>9. Calm' => Begun' /\ Counted'
  BY <1>2 DEF Inv, Calm, Begun, Counted, handlerVars, turnVars, storeVars, historyVars
<1>. QED  BY <1>4, <1>5, <1>6, <1>7, <1>8, <1>9, PartsNext DEF Inv

LEMMA CreateForWakeKeeps ==
  ASSUME Inv, NEW k \in Wakeups, CreateForWake(k)
  PROVE  Inv'
<1>1. /\ ObjectsOK /\ MentionsOK /\ TurnsOK /\ StoreOK /\ RestOK
      /\ OneHandler /\ Placed /\ NotStarted /\ PlanFits /\ TurnInv /\ Shape
  BY Parts DEF Inv
<1>2. Grows /\ turnVars' = turnVars
  <2>1. /\ states' \in Seq(Object) /\ Len(states') = Len(states) + 1
        /\ \A i \in 1..Len(states) : states'[i] = states[i]
        /\ states'[Len(states) + 1].turn = None /\ states'[Len(states) + 1].seq = 0
    BY <1>1, AppendPrepares DEF CreateForWake, Dirs
  <2>. QED  BY <2>1 DEF Grows, CreateForWake, turnVars
<1>3. wakeAt' \in [Wakeups -> {"new", "create", "over", "lost"}]
  BY <1>1 DEF CreateForWake, RestOK
<1>4. Placed'
  BY <1>1, <1>2, GrowsPlaced DEF turnVars
<1>5. TurnsOK' /\ NotStarted' /\ PlanFits'
  BY <1>1, <1>2 DEF TurnsOK, NotStarted, PlanFits, Left, turnVars, Grows, handlerVars, historyVars
<1>6. Shape'
  BY <1>1, <1>2, <1>3, <1>4, <1>5, GrowsShape
<1>7. TurnInv'
  BY <1>1, <1>2, GrowsKeeps DEF turnVars
<1>8. ASSUME Calm' PROVE Begun' /\ Counted'
  <2>1. Len(states) \in Nat /\ Len(states') = Len(states) + 1 /\ Len(states') <= 1
    BY <1>1, <1>2, <1>8, LenProperties DEF ObjectsOK, Grows, Calm
  <2>2. Len(states) = 0 /\ \A i \in 1..Len(states') : i = Len(states) + 1
    BY <2>1
  <2>3. /\ \A n \in Messages : at[n] \notin {"hydrate", "record"} /\ turnAt[n] \notin InTurn
        /\ \A i \in 1..Len(states') : states'[i].seq = 0
    BY <1>1, <1>2, <2>2 DEF Placed, TurnInv, Grows
  <2>4. Calm
    BY <1>2, <1>8, <2>2 DEF Calm, Grows, historyVars
  <2>5. /\ UNCHANGED <<at, on, num, turnAt, turnNum, log, stateLog>>
    BY <1>2 DEF Grows, handlerVars, turnVars, storeVars
  <2>6. \A n \in Messages : turnAt[n] \notin Recording
    BY <2>3 DEF InTurn
  <2>7. Begun'
    BY <2>3, <2>4, <2>5 DEF Inv, Begun
  <2>8. Counted'
    BY <2>3, <2>5, <2>6 DEF Counted
  <2>. QED  BY <2>7, <2>8
<1>. QED  BY <1>6, <1>7, <1>8 DEF Inv

LEMMA CrashKeeps ==
  ASSUME Inv, Crash
  PROVE  Inv'
<1>1. /\ ObjectsOK /\ MentionsOK /\ TurnsOK /\ StoreOK /\ RestOK
      /\ OneHandler /\ Placed /\ NotStarted /\ PlanFits /\ TurnInv
  BY Parts DEF Inv
<1>2. /\ at' = [m \in Messages |-> IF at[m] \in Handling THEN "lost" ELSE at[m]]
      /\ turnAt' = [m \in Messages |-> IF turnAt[m] \in InTurn THEN "lost" ELSE turnAt[m]]
      /\ \A m \in Messages : at'[m] \notin Handling /\ turnAt'[m] \notin InTurn
  BY DEF Crash, Handling, InTurn, Recording
<1>3. ObjectsOK'
  <2>1. states' = <<>> /\ cached' = 0
    BY DEF Crash
  <2>2. <<>> \in Seq(Object) /\ Len(<<>>) = 0
    BY EmptySeq
  <2>. QED  BY <2>1, <2>2 DEF ObjectsOK
<1>4. MentionsOK' /\ OneHandler'
  BY <1>1, <1>2 DEF MentionsOK, OneHandler, Crash, Handling
<1>5. TurnsOK'
  <2>1. plan' \in [Messages -> Seq(Steps)]
    BY PlanParts DEF Crash
  <2>. QED  BY <1>1, <1>2, <2>1 DEF TurnsOK, Crash
<1>6. StoreOK' /\ RestOK' /\ faults' # 0
  <2>1. faults' \in 0..MaxFaults /\ faults' # 0
    BY <1>1, RuntimeAssumption DEF RestOK, Crash
  <2>2. wakeAt' \in [Wakeups -> {"new", "create", "over", "lost"}]
    BY <1>1 DEF RestOK, Crash
  <2>. QED  BY <1>1, <2>1, <2>2 DEF StoreOK, RestOK, Crash, storeVars, rowVars, fixedVars, historyVars
<1>7. Placed'
  BY <1>2 DEF Placed, Handling, InTurn
<1>8. NotStarted'
  <2>1. ASSUME NEW m \in Messages, at'[m] \in {"new", "ensure", "create", "hydrate", "record"}
        PROVE  turnAt'[m] = "none"
    <3>1. at'[m] = "new" /\ at[m] = "new"
      BY <1>2, <2>1 DEF Handling
    <3>2. turnAt[m] = "none"
      BY <1>1, <3>1 DEF NotStarted
    <3>. QED  BY <1>2, <3>2 DEF InTurn, Recording
  <2>. QED  BY <2>1 DEF NotStarted
<1>9. PlanFits'
  <2>1. \A m \in Messages : turnAt'[m] = "over" => turnAt[m] = "over"
    BY <1>2
  <2>. QED  BY <1>1, <1>2, <2>1 DEF PlanFits, Left, InTurn, Recording, Crash, historyVars
<1>10. TurnInv'
  <2>1. Len(states') = 0
    BY DEF Crash
  <2>. QED  BY <1>2, <2>1 DEF TurnInv
<1>11. ~Calm'
  BY <1>6 DEF Calm
<1>. QED  BY <1>3, <1>4, <1>5, <1>6, <1>7, <1>8, <1>9, <1>10, <1>11, PartsNext DEF Inv

-----------------------------------------------------------------------------
(* The theorems.                                                            *)

LEMMA InvInit == Init => Inv
<1>. SUFFICES ASSUME Init PROVE Inv
  OBVIOUS
<1>1. ObjectsOK
  BY EmptySeq DEF Init, ObjectsOK
<1>2. MentionsOK /\ OneHandler /\ Placed /\ NotStarted /\ PlanFits
  BY DEF Init, MentionsOK, OneHandler, Placed, NotStarted, PlanFits, Left, Handling, RuntimeState
<1>3. TurnsOK
  BY PlanParts DEF Init, TurnsOK
<1>4. StoreOK
  <2>1. IsFiniteSet(log) /\ log \in SUBSET Nat
    <3>1. PICK n \in Nat : log = 1..n
      BY RuntimeAssumption DEF Init
    <3>2. 1..n \in SUBSET Nat /\ \A k \in 1..n : k <= n
      OBVIOUS
    <3>. QED  BY <3>1, <3>2, FS_BoundedSetOfNaturals
  <2>. QED  BY <2>1 DEF Init, StoreOK, RuntimeState
<1>5. RestOK
  <2>1. faults = 0 /\ 0 \in 0..MaxFaults
    BY RuntimeAssumption DEF Init
  <2>2. wakeAt \in [Wakeups -> {"new", "create", "over", "lost"}]
    BY DEF Init
  <2>3. profile \in [Messages -> Profiles] /\ cwd \in Dirs
    BY DEF Init
  <2>4. answered = {} /\ troubled = {} /\ cut = FALSE
    BY DEF Init
  <2>. QED  BY <2>1, <2>2, <2>3, <2>4 DEF RestOK
<1>6. Len(states) = 0 /\ \A m \in Messages : turnAt[m] \notin InTurn
  BY DEF Init, InTurn, Recording
<1>7. TurnInv
  BY <1>6 DEF TurnInv
<1>8. Begun
  <2>1. log # {} => 1 \in log
    <3>1. PICK n \in Nat : log = 1..n
      BY RuntimeAssumption DEF Init
    <3>. QED  BY <3>1
  <2>. QED  BY <1>6, <2>1 DEF Init, Begun
<1>9. Counted
  BY <1>6 DEF Init, Counted, InTurn
<1>. QED  BY <1>1, <1>2, <1>3, <1>4, <1>5, <1>7, <1>8, <1>9, Parts DEF Inv

LEMMA TurnsStep ==
  ASSUME Inv, NEW m \in Messages, Turns(m)
  PROVE  Inv'
<1>1. CASE MovesOn(m) /\ Effects(m)
  <2>1. Ready(m)
    BY <1>1 DEF Inv, Ready, Effects
  <2>. QED  BY <1>1, <2>1, TurnShape, TurnKeeps, TurnNumbers DEF Inv
<1>2. CASE CreateForTurn(m)
  BY <1>1, <1>2, CreatesForTurn DEF Inv
<1>3. CASE turnAt[m] \in InTurn /\ ~CreateForTurn(m)
  <2>1. Ready(m)
    BY <1>3 DEF Inv, Ready
  <2>2. MovesOn(m) /\ Effects(m)
    BY <1>3, <2>1, PromptGoesOn, SendGoesOn, AskGoesOn, CompletedGoesOn, FailedGoesOn DEF Turns
  <2>. QED  BY <1>1, <2>2
<1>. QED
  BY <1>2, <1>3
  DEF Turns, PromptEnds, SendReply, StoreAsk, StoreCompleted, StoreFailed, InTurn, Recording

LEMMA AsideStep ==
  ASSUME Inv, NEW m \in Messages, Aside(m)
  PROVE  Inv'
BY AsideShape, AsideKeeps, AsideNumbers DEF Inv

LEMMA PreparesStep ==
  ASSUME Inv, NEW m \in Messages, Ensure(m) \/ CreateForMention(m) \/ Hydrate(m)
  PROVE  Inv'
<1>1. CASE \E to : Prepares(m, to) /\ Uncounted(m, to)
  BY <1>1, PreparesShape, PreparesKeeps, UncountedNumbers DEF Inv
<1>2. CASE \E last : Prepares(m, "record") /\ Counts(m, last)
  BY <1>2, PreparesShape, PreparesKeeps, CountsNumbers DEF Inv
<1>3. CASE Prepares(m, "rejected") /\ ~Calm'
  BY <1>3, PreparesShape, PreparesKeeps DEF Inv
<1>. QED  BY <1>1, <1>2, <1>3, EnsurePrepares, CreatePrepares, HydratePrepares DEF Inv

LEMMA HandlesStep ==
  ASSUME Inv, Cleared, NEW m \in Messages, Handles(m)
  PROVE  Inv'
<1>1. CASE Ensure(m) \/ CreateForMention(m) \/ Hydrate(m)
  BY <1>1, PreparesStep
<1>2. CASE StoreSubmitted(m)
  <2>1. PICK to : Leaves(m, to) /\ (Stays \/ (to = "state" /\ Enters(m)))
    BY <1>2, SubmittedLeaves DEF Inv
  <2>2. Shape' /\ TurnInv'
    BY <2>1, LeavesShape, LeavesKeeps DEF Inv
  <2>3. Calm' => Begun' /\ Counted'
    BY <2>1, LeavesNumbers
  <2>. QED  BY <2>2, <2>3 DEF Inv
<1>3. CASE \/ UpdateState(m) \/ StoreTransition(m) \/ SyncRow(m)
           \/ ClearReaction(m) \/ AttachReaction(m)
  BY <1>3, AsideStep, UpdateAside, TransitionAside, SyncAside, ClearAside, AttachAside DEF Inv
<1>. QED  BY <1>1, <1>2, <1>3 DEF Handles

\* A step after which the same mentions are about to set their reaction, or fewer, and
\* that leaves the chat alone.
LEMMA ClearedKept ==
  ASSUME Cleared, faults \in Nat, faults' # 0 \/ faults = 0, reactions' = reactions,
         \A n \in Messages : at'[n] = "attach" => at[n] = "attach"
  PROVE  Cleared'
BY DEF Cleared

LEMMA ClearedStep ==
  ASSUME Inv, Cleared, [Next]_vars
  PROVE  Cleared'
<1>1. /\ at \in [Messages -> Handling \cup {"new", "over", "rejected", "lost"}]
      /\ faults \in Nat /\ (faults = 0 => reactions \subseteq {row.reaction})
  BY RuntimeAssumption DEF Inv, Shape, TypeOK
<1>2. faults' # 0 \/ faults = 0
  <2>. USE <1>1 DEF CallFails
  <2>1. ASSUME NEW m \in Messages, Take(m) \/ Ensure(m) \/ CreateForMention(m) \/ Hydrate(m)
        PROVE  faults' # 0 \/ faults = 0
    BY <2>1 DEF Take, Ensure, CreateForMention, Hydrate
  <2>2. ASSUME NEW m \in Messages,
               \/ StoreSubmitted(m) \/ UpdateState(m) \/ StoreTransition(m) \/ SyncRow(m)
               \/ ClearReaction(m) \/ AttachReaction(m)
        PROVE  faults' # 0 \/ faults = 0
    BY <2>2 DEF StoreSubmitted, UpdateState, StoreTransition, SyncRow, ClearReaction,
      AttachReaction, Stores, Refuses
  <2>3. ASSUME NEW m \in Messages, CreateForTurn(m) \/ PromptEnds(m) \/ SendReply(m)
        PROVE  faults' # 0 \/ faults = 0
    BY <2>3 DEF CreateForTurn, PromptEnds, SendReply
  <2>4. ASSUME NEW m \in Messages, StoreAsk(m) \/ StoreCompleted(m) \/ StoreFailed(m)
        PROVE  faults' # 0 \/ faults = 0
    BY <2>4 DEF StoreAsk, StoreCompleted, StoreFailed, Stores, Refuses
  <2>. QED
    BY <2>1, <2>2, <2>3, <2>4 DEF Next, vars, Handles, Turns, Wake, CreateForWake, Crash
<1>3. ASSUME NEW m \in Messages, Take(m)
      PROVE  Cleared'
  BY <1>1, <1>2, <1>3, ClearedKept DEF Take, storeVars, rowVars
<1>4. ASSUME NEW m \in Messages, Turns(m)
      PROVE  Cleared'
  <2>1. UNCHANGED <<at, reactions>>
    BY <1>4 DEF Turns, CreateForTurn, PromptEnds, SendReply, StoreAsk, StoreCompleted,
      StoreFailed, handlerVars, storeVars, rowVars
  <2>. QED  BY <1>1, <1>2, <2>1, ClearedKept
<1>5. ASSUME NEW m \in Messages, Ensure(m) \/ CreateForMention(m) \/ Hydrate(m) \/ StoreSubmitted(m)
      PROVE  Cleared'
  <2>1. reactions' = reactions
    BY <1>5 DEF Ensure, CreateForMention, Hydrate, StoreSubmitted, storeVars, rowVars
  <2>2. \E to \in {"hydrate", "record", "create", "rejected", "state"} :
          at' = [at EXCEPT ![m] = to]
    BY <1>5 DEF Ensure, CreateForMention, Hydrate, StoreSubmitted, Submits, Rejects
  <2>. QED  BY <1>1, <1>2, <2>1, <2>2, ClearedKept
<1>6. ASSUME NEW m \in Messages,
             UpdateState(m) \/ StoreTransition(m) \/ SyncRow(m) \/ AttachReaction(m)
      PROVE  Cleared'
  <2>1. \E to \in {"insert", "sync", "clear", "over", "rejected"} : at' = [at EXCEPT ![m] = to]
    BY <1>6 DEF UpdateState, StoreTransition, SyncRow, AttachReaction, ReadsMemory, Rejects
  <2>2. CASE reactions' = reactions
    BY <1>1, <1>2, <2>1, <2>2, ClearedKept
  <2>3. CASE AttachReaction(m)
    <3>1. OneHandler /\ at[m] = "attach"
      BY <2>3 DEF AttachReaction, Inv, Shape
    <3>2. \A n \in Messages : at'[n] # "attach"
      BY <1>1, <2>1, <3>1 DEF OneHandler, Handling
    <3>. QED  BY <3>2 DEF Cleared
  <2>. QED  BY <1>6, <2>2, <2>3 DEF UpdateState, StoreTransition, SyncRow, rowVars
<1>7. ASSUME NEW m \in Messages, ClearReaction(m)
      PROVE  Cleared'
  <2>1. CASE faults' # 0
    BY <2>1 DEF Cleared
  <2>2. CASE faults' = 0
    <3>1. faults = 0 /\ ~CallFails
      BY <1>1, <1>2, <2>2 DEF CallFails
    <3>2. reactions' = reactions \ {row.reaction}
      BY <1>7, <3>1 DEF ClearReaction
    <3>. QED  BY <1>1, <3>1, <3>2 DEF Cleared
  <2>. QED  BY <2>1, <2>2
<1>8. ASSUME NEW k \in Wakeups, Wake(k) \/ CreateForWake(k)
      PROVE  Cleared'
  BY <1>1, <1>2, <1>8, ClearedKept DEF Wake, CreateForWake, handlerVars, storeVars, rowVars
<1>9. CASE Crash
  BY <1>1, <1>9 DEF Crash, Cleared
<1>10. CASE UNCHANGED vars
  BY <1>1, <1>2, <1>10, ClearedKept DEF vars, handlerVars, storeVars, rowVars
<1>. QED  BY <1>3, <1>4, <1>5, <1>6, <1>7, <1>8, <1>9, <1>10 DEF Next, Handles

LEMMA InvStep == Inv /\ Cleared /\ [Next]_vars => Inv'
<1>. SUFFICES ASSUME Inv, Cleared, [Next]_vars PROVE Inv'
  OBVIOUS
<1>1. CASE \E m \in Messages : Take(m)
  BY <1>1, TakeAside, AsideStep DEF Inv
<1>2. CASE \E m \in Messages : Handles(m)
  BY <1>2, HandlesStep
<1>3. CASE \E m \in Messages : Turns(m)
  BY <1>3, TurnsStep
<1>4. CASE \E k \in Wakeups : Wake(k) \/ CreateForWake(k)
  BY <1>4, WakeKeeps, CreateForWakeKeeps
<1>5. CASE Crash
  BY <1>5, CrashKeeps
<1>6. CASE UNCHANGED vars
  <2>1. /\ UNCHANGED <<states, cached, at, on, num, mem, turnAt, ranOn, plan, turnNum>>
        /\ UNCHANGED <<wakeAt, cwd, profile, log, stateLog, row, reactions, faults>>
        /\ UNCHANGED <<answered, troubled, cut>>
    BY <1>6 DEF vars, fixedVars, handlerVars, turnVars, storeVars, rowVars, historyVars
  <2>2. Shape'
    BY <2>1 DEF Inv, Shape, TypeOK, OneHandler, Placed, NotStarted, PlanFits, Left
  <2>. QED  BY <2>1, <2>2 DEF Inv, TurnInv, Calm, Begun, Counted
<1>. QED  BY <1>1, <1>2, <1>3, <1>4, <1>5, <1>6 DEF Next

LEMMA InvAlways == Spec => []Inv
<1>1. Init => Inv /\ Cleared
  BY InvInit DEF Init, Cleared
<1>2. (Inv /\ Cleared) /\ [Next]_vars => (Inv /\ Cleared)'
  BY InvStep, ClearedStep
<1>. QED  BY <1>1, <1>2, PTL DEF Spec

\* Every variable has its type, and while no call has failed the chat shows the
\* processing reaction on no mention but the one the row remembers
\* (attachProcessingReaction, clearProcessingReaction).
THEOREM RuntimeTypeCorrect == Spec => []TypeOK
<1>1. Inv => TypeOK
  BY DEF Inv, Shape
<1>. QED  BY <1>1, InvAlways, PTL

\* A session object names a turn exactly while the turn is in progress on it,
\* whatever calls fail, whichever objects are replaced meanwhile and however
\* often the worker dies (submitMessage, runRuntimeTurn's finally).
THEOREM TurnsOwnTheirObject == Spec => []TurnInv
<1>1. Inv => TurnInv
  BY DEF Inv
<1>. QED  BY <1>1, InvAlways, PTL

\* As long as the group has one object, no call failed and the log fits the window
\* that hydrateRuntimeState reads, what the adapter stores has a number that the log
\* does not hold, and what transitionTo stores has one that it holds: the unique index
\* refuses the latter always and the former never.
THEOREM CollisionsAreKnown == Spec => []KnownCollisions
<1>1. Inv => KnownCollisions
  <2>. SUFFICES ASSUME Inv, ~Disturbed, NEW m \in Messages
                PROVE  /\ at[m] = "record" => num[m] \notin log
                       /\ turnAt[m] \in Recording => turnNum[m] \notin log
                       /\ at[m] = "insert" => NextSequence \in log
    BY DEF KnownCollisions
  <2>1. Len(states) \in Nat /\ faults \in Nat
    BY LenProperties, RuntimeAssumption DEF Inv, Shape, TypeOK
  <2>2. Calm
    BY <2>1 DEF Calm, Disturbed
  <2>3. at[m] = "insert" => stateLog = {} /\ 1 \in log
    BY <2>2 DEF Inv, Begun
  <2>4. at[m] = "insert" => NextSequence \in log
    BY <2>3 DEF NextSequence
  <2>. QED  BY <2>2, <2>4 DEF Inv, Counted
<1>. QED  BY <1>1, InvAlways, PTL

\* A turn that met no timeout, no failing call and no taken number has replied
\* to the group when it is over (ensureGroupRuntimeReplyAction).
THEOREM TurnsAnswer == Spec => []TurnAnswers
<1>1. Inv => TurnAnswers
  BY DEF Inv, Shape, PlanFits, Left, TurnAnswers
<1>. QED  BY <1>1, InvAlways, PTL
=============================================================================
