--------------------------- MODULE MCArtifactSync ---------------------------
(* Two jobs that share a content with two writes, one of them with a summary *)
(* besides, and a retry of the shared content.                               *)
EXTENDS ArtifactSync

CONSTANTS j1, j2, r1, tasks, summary

TwoOutputs == [s \in Syncers |-> IF s = j1 THEN <<tasks, summary>> ELSE <<tasks>>]
TwoTasks   == [o \in Artifacts |-> IF o = tasks THEN 2 ELSE 0]
=============================================================================
