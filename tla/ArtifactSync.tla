---------------------------- MODULE ArtifactSync ----------------------------
(***************************************************************************)
(* Writing what a run produced to Feishu: the artifact rows of a project,  *)
(* the artifact-sync jobs of the worker and the retries the API process    *)
(* serves at the same time.  A row is keyed by the hash of its content, so *)
(* jobs of different runs and repeated jobs of one run may share it.       *)
(*                                                                         *)
(* A write to Feishu cannot be taken back, and a call that rejects may     *)
(* have been carried out all the same.                                     *)
(***************************************************************************)
EXTENDS RunStates, Naturals, Sequences

CONSTANTS
  Jobs,       \* deliveries of artifact-sync jobs: of several runs, or of one run again
  Retries,    \* POST api/artifacts/:id/retry-sync requests
  Artifacts,  \* contents: project, type and hash
  Outputs,    \* the artifacts a job's run lists in rawOutputs; the one a retry names
  Writes,     \* the Feishu calls an artifact needs: one per task, two for a document,
              \* one for a file, none for a summary or a log
  Faults,     \* what the environment may do, a subset of AllFaults
  MaxCrashes  \* bound: process crashes in one behaviour

\* feishuError: a call to Feishu rejects; callError: a call to Postgres rejects;
\* crash: the process working for a syncer dies.
AllFaults == {"feishuError", "callError", "crash"}

Syncers == Jobs \cup Retries

ASSUME SyncersAssumption ==
  /\ Jobs \cap Retries = {}
  /\ Outputs \in [Syncers -> Seq(Artifacts)]
  /\ \A r \in Retries : Len(Outputs[r]) = 1
  /\ Writes \in [Artifacts -> Nat]
  /\ Faults \subseteq AllFaults
  /\ MaxCrashes \in Nat

VARIABLES
  artifact,  \* Artifact.status of each content, "absent" before the row exists
  at,        \* program counter of each syncer
  pos,       \* the output it is working on
  done,      \* the writes it has made for that output
  read,      \* the status it read last
  failures,  \* the syncers one of whose outputs came back failed
  outcome,   \* what a job made of its run: the status it transitions to, or an escape
  crashes,
  written,   \* history: writes to Feishu for each content
  complete,  \* history: contents one syncer wrote completely
  declined,  \* history: contents that were skipped
  overlaps,  \* history: how often a syncer started on a content another was at
  breaks     \* history: how often a syncer left a content unfinished

syncerVars  == <<at, pos, done, read, failures, outcome>>
historyVars == <<written, complete, declined, overlaps, breaks>>
vars == <<artifact, syncerVars, crashes, historyVars>>

Settled == {"synced", "skipped"}

\* The content s is working on.
Item(s) == Outputs[s][pos[s]]

\* Between reading the row of its content and recording the result.
Attempting(s) == at[s] \in {"write", "fail", "mark", "synced", "skip", "skipped"}

TypeOK ==
  /\ artifact \in [Artifacts -> ArtifactStatus \cup {"absent"}]
  /\ at \in [Syncers -> {"off", "find", "create", "load", "write", "fail",
                         "mark", "synced", "skip", "skipped", "over"}]
  /\ pos \in [Syncers -> Nat]
  /\ done \in [Syncers -> Nat]
  /\ read \in [Syncers -> ArtifactStatus \cup {"absent"}]
  /\ failures \subseteq Syncers
  /\ outcome \in [Syncers -> {"none", "succeeded", "failed", "escaped"}]
  /\ crashes \in 0..MaxCrashes
  /\ written \in [Artifacts -> Nat]
  /\ complete \subseteq Artifacts /\ declined \subseteq Artifacts
  /\ overlaps \in [Artifacts -> Nat] /\ breaks \in [Artifacts -> Nat]
  /\ \A s \in Syncers : at[s] \notin {"off", "over"} => pos[s] \in DOMAIN Outputs[s]

Init ==
  /\ artifact = [o \in Artifacts |-> "absent"]
  /\ at = [s \in Syncers |-> "off"]
  /\ pos = [s \in Syncers |-> 0]
  /\ done = [s \in Syncers |-> 0]
  /\ read = [s \in Syncers |-> "absent"]
  /\ failures = {}
  /\ outcome = [s \in Syncers |-> "none"]
  /\ crashes = 0
  /\ written = [o \in Artifacts |-> 0]
  /\ complete = {} /\ declined = {}
  /\ overlaps = [o \in Artifacts |-> 0]
  /\ breaks = [o \in Artifacts |-> 0]

-----------------------------------------------------------------------------
Goes(s, to) == at' = [at EXCEPT ![s] = to] /\ UNCHANGED <<pos, failures, outcome>>

\* s ends, forgetting what it was working on.
Stops(s, to) ==
  /\ at' = [at EXCEPT ![s] = to]
  /\ pos' = [pos EXCEPT ![s] = 0]
  /\ done' = [done EXCEPT ![s] = 0]
  /\ read' = [read EXCEPT ![s] = "absent"]
  /\ failures' = failures \ {s}

\* s returns what it has, or throws.
Ends(s, how) == Stops(s, "over") /\ outcome' = [outcome EXCEPT ![s] = how]

\* s starts on its n-th output, or is through and looks at the results: one
\* failed output fails the run.
Turns(s, n, failed) ==
  IF n <= Len(Outputs[s])
    THEN /\ at' = [at EXCEPT ![s] = "find"]
         /\ pos' = [pos EXCEPT ![s] = n]
         /\ done' = [done EXCEPT ![s] = 0]
         /\ read' = [read EXCEPT ![s] = "absent"]
         /\ failures' = failed
         /\ UNCHANGED outcome
    ELSE Ends(s, IF s \in failed THEN "failed" ELSE "succeeded")

\* s leaves the content it was working on unfinished.
Breaks(s) ==
  breaks' = IF Attempting(s) THEN [breaks EXCEPT ![Item(s)] = @ + 1] ELSE breaks

\* (A mistake in the next definition: outputs are counted from zero.)
BeginBug(j) ==
  /\ j \in Jobs /\ at[j] = "off"
  /\ Turns(j, 0, failures)
  /\ UNCHANGED <<artifact, crashes, historyVars>>

\* The worker takes the job of j's run.
Begin(j) ==
  /\ j \in Jobs /\ at[j] = "off"
  /\ Turns(j, 1, failures)
  /\ UNCHANGED <<artifact, crashes, historyVars>>

\* retrySync: a row that is synced is returned, any other is loaded again.
Request(r) ==
  /\ r \in Retries /\ at[r] = "off"
  /\ artifact[Outputs[r][1]] # "absent"
  /\ IF artifact[Outputs[r][1]] = "synced"
       THEN Ends(r, "succeeded")
       ELSE /\ at' = [at EXCEPT ![r] = "load"]
            /\ pos' = [pos EXCEPT ![r] = 1]
            /\ UNCHANGED <<done, read, failures, outcome>>
  /\ UNCHANGED <<artifact, crashes, historyVars>>

\* createFromOutput: a row with this content may exist already ...
FindExisting(s) ==
  /\ at[s] = "find"
  /\ Goes(s, IF artifact[Item(s)] = "absent" THEN "create" ELSE "load")
  /\ UNCHANGED <<artifact, done, read, crashes, historyVars>>

\* ... and if another job creates it meanwhile the unique key makes this one throw.
Create(s) ==
  /\ at[s] = "create"
  /\ IF artifact[Item(s)] = "absent"
       THEN /\ artifact' = [artifact EXCEPT ![Item(s)] = "pending"]
            /\ Goes(s, "load") /\ UNCHANGED <<done, read>>
       ELSE Ends(s, "escaped") /\ UNCHANGED artifact
  /\ UNCHANGED <<crashes, historyVars>>

\* Summaries and logs need no write; whether anything else is written or skipped
\* depends on the output's flags and target and on the group's policy, which may
\* have changed since the last attempt.
Choices(o) == IF Writes[o] = 0 THEN {"mark"} ELSE {"write", "skip"}

\* s begins an attempt on its content, perhaps next to another syncer.
Attempts(s) ==
  /\ read' = [read EXCEPT ![s] = artifact[Item(s)]]
  /\ \E to \in Choices(Item(s)) : Goes(s, to)
  /\ overlaps' = IF \E t \in Syncers : t # s /\ Attempting(t) /\ Item(t) = Item(s)
                   THEN [overlaps EXCEPT ![Item(s)] = @ + 1] ELSE overlaps
  /\ UNCHANGED done

\* (A mistake in the next definition: a settled row is synced again.)
LoadBug(s) ==
  /\ at[s] = "load"
  /\ Attempts(s)
  /\ UNCHANGED <<artifact, crashes, written, complete, declined, breaks>>

\* syncArtifact: a settled row is returned as it is.
Load(s) ==
  /\ at[s] = "load"
  /\ IF artifact[Item(s)] \in Settled
       THEN Turns(s, pos[s] + 1, failures) /\ UNCHANGED overlaps
       ELSE Attempts(s)
  /\ UNCHANGED <<artifact, crashes, written, complete, declined, breaks>>

\* One call to Feishu; the last one completes the artifact.
Write(s) ==
  /\ at[s] = "write"
  /\ written' = [written EXCEPT ![Item(s)] = @ + 1]
  /\ IF done[s] + 1 = Writes[Item(s)]
       THEN /\ Goes(s, "mark")
            /\ done' = [done EXCEPT ![s] = 0]
            /\ complete' = complete \cup {Item(s)}
       ELSE /\ done' = [done EXCEPT ![s] = @ + 1]
            /\ UNCHANGED <<at, pos, failures, outcome, complete>>
  /\ UNCHANGED <<artifact, read, crashes, declined, overlaps, breaks>>

\* The call rejects, carried out or not, or the policy read before the first one does.
WriteRejects(s) ==
  /\ at[s] = "write"
  /\ \/ "feishuError" \in Faults /\ written' = [written EXCEPT ![Item(s)] = @ + 1]
     \/ "feishuError" \in Faults /\ UNCHANGED written
     \/ "callError" \in Faults /\ done[s] = 0 /\ UNCHANGED written
  /\ Goes(s, "fail")
  /\ done' = [done EXCEPT ![s] = 0]
  /\ UNCHANGED <<artifact, read, crashes, complete, declined, overlaps, breaks>>

\* (A mistake in the next definition: the failure is not handed to the job.)
MarkFailedBug(s) ==
  /\ at[s] = "fail"
  /\ artifact' = [artifact EXCEPT ![Item(s)] = "failed"]
  /\ Breaks(s)
  /\ Turns(s, pos[s] + 1, failures)
  /\ UNCHANGED <<crashes, written, complete, declined, overlaps>>

\* The catch block asserts on the status read before the writes, which is
\* pending or failed, and overwrites whatever the row holds by now.
MarkFailed(s) ==
  /\ at[s] = "fail"
  /\ Allowed(ArtifactNext, read[s], "failed")
  /\ artifact' = [artifact EXCEPT ![Item(s)] = "failed"]
  /\ Breaks(s)
  /\ Turns(s, pos[s] + 1, failures \cup {s})
  /\ UNCHANGED <<crashes, written, complete, declined, overlaps>>

\* markSynced and markSkipped find the row again and assert.  They are returned,
\* not awaited, so a failure in them escapes the catch block and the job.
MarkFind(s) ==
  /\ at[s] \in {"mark", "skip"}
  /\ LET to == IF at[s] = "mark" THEN "synced" ELSE "skipped"
     IN  IF Allowed(ArtifactNext, artifact[Item(s)], to)
           THEN /\ Goes(s, to)
                /\ read' = [read EXCEPT ![s] = artifact[Item(s)]]
                /\ UNCHANGED <<done, breaks>>
           ELSE Ends(s, "escaped") /\ Breaks(s)
  /\ UNCHANGED <<artifact, crashes, written, complete, declined, overlaps>>

MarkWrite(s) ==
  /\ at[s] \in Settled
  /\ artifact' = [artifact EXCEPT ![Item(s)] = at[s]]
  /\ declined' = IF at[s] = "skipped" THEN declined \cup {Item(s)} ELSE declined
  /\ Turns(s, pos[s] + 1, failures)
  /\ UNCHANGED <<crashes, written, complete, overlaps, breaks>>

\* A call to Postgres outside the try block, or in its catch block, rejects.
Throws(s) ==
  /\ "callError" \in Faults
  /\ at[s] \in {"find", "create", "load", "fail", "mark", "synced", "skip", "skipped"}
  /\ Ends(s, "escaped")
  /\ Breaks(s)
  /\ UNCHANGED <<artifact, crashes, written, complete, declined, overlaps>>

\* The process dies; BullMQ delivers a job again, from its first output.
Crash(s) ==
  /\ "crash" \in Faults /\ crashes < MaxCrashes
  /\ at[s] \notin {"off", "over"}
  /\ crashes' = crashes + 1
  /\ Stops(s, IF s \in Jobs THEN "off" ELSE "over")
  /\ Breaks(s)
  /\ UNCHANGED <<artifact, outcome, written, complete, declined, overlaps>>

-----------------------------------------------------------------------------
Sync(s) ==
  \/ FindExisting(s) \/ Create(s) \/ Load(s) \/ Write(s) \/ WriteRejects(s)
  \/ MarkFailed(s) \/ MarkFind(s) \/ MarkWrite(s)

Next == \E s \in Syncers : Begin(s) \/ Request(s) \/ Sync(s) \/ Throws(s) \/ Crash(s)

Spec == Init /\ [][Next]_vars

-----------------------------------------------------------------------------
(* Properties.                                                              *)

\* All the writes a content needs were made by one syncer in one go.
Full(o) == Writes[o] = 0 \/ o \in complete

\* A row says synced only when its content is in Feishu completely: what
\* several interrupted syncers wrote never adds up to a synced row.
\* (artifact.service.ts:60-133)
SyncedIsWritten == \A o \in Artifacts : artifact[o] = "synced" => Full(o)

\* A job that lets its run succeed leaves none of its outputs behind: each one
\* was written completely, by this job or another, or declined.
\* (artifact-sync.processor.ts:44-79)
SucceededIsServed ==
  \A j \in Jobs : outcome[j] = "succeeded" =>
    \A i \in DOMAIN Outputs[j] : Full(Outputs[j][i]) \/ Outputs[j][i] \in declined

Served(o) == Full(o) \/ o \in declined

\* What job j has yet to see to, or need not: everything while it is not started,
\* the outputs it has not passed, and all of them once its run fails.
Excused(j, i) ==
  \/ at[j] = "off" \/ (at[j] # "over" /\ (i >= pos[j] \/ j \in failures))
  \/ at[j] = "over" /\ outcome[j] # "succeeded"

\* Settled rows tell the truth.
RowsTrue == \A o \in Artifacts : /\ artifact[o] = "synced" => Full(o)
                                 /\ artifact[o] = "skipped" => o \in declined

\* A syncer past its writes has made them all; only who ended has an outcome.
WritesMade == \A s \in Syncers : /\ at[s] \in {"mark", "synced"} => Full(Item(s))
                                 /\ at[s] # "over" => outcome[s] = "none"

\* A job past an output leaves it served, or will fail its run.
PastServed ==
  \A j \in Jobs : \A i \in DOMAIN Outputs[j] : Served(Outputs[j][i]) \/ Excused(j, i)

\* The inductive invariant behind the two properties above.
ServedSoFar == RowsTrue /\ WritesMade /\ PastServed

\* Nothing is written twice without a reason: each repetition is paid for by an
\* attempt that broke off or by two syncers that were at the same content.
RepeatsHaveCause ==
  \A o \in Artifacts : written[o] <= Writes[o] * (1 + overlaps[o] + breaks[o])
=============================================================================
