------------------------------ MODULE RunStates ------------------------------
(***************************************************************************)
(* The status graphs of the three durable records a run leaves behind      *)
(* (agent run, artifact, confirmation request) and the one guard every     *)
(* status change is supposed to go through: assertTransition.              *)
(* Translated from src/common/state/state-machine.ts.                      *)
(***************************************************************************)

RunStatus == {"queued", "running", "syncing",
              "succeeded", "failed", "canceled", "timeout"}

\* agentRunTransitions
RunNext == [ queued    |-> {"running", "canceled", "failed", "timeout"},
             running   |-> {"syncing", "failed", "timeout", "canceled"},
             syncing   |-> {"succeeded", "failed", "timeout"},
             succeeded |-> {},
             failed    |-> {},
             canceled  |-> {},
             timeout   |-> {} ]

ArtifactStatus == {"pending", "synced", "failed", "skipped"}

\* artifactTransitions
ArtifactNext == [ pending |-> {"synced", "failed", "skipped"},
                  failed  |-> {"synced", "failed", "skipped"},
                  synced  |-> {},
                  skipped |-> {} ]

ConfirmationStatus == {"pending", "confirmed", "rejected", "expired"}

\* confirmationTransitions
ConfirmationNext == [ pending   |-> {"confirmed", "rejected", "expired"},
                      confirmed |-> {},
                      rejected  |-> {},
                      expired   |-> {} ]

\* assertTransition returns (TRUE) or throws (FALSE): writing the status the
\* record already has is always let through.
Allowed(table, from, to) == from = to \/ to \in table[from]

\* (A mistake in the next definition: a run that hands its outputs over is taken
\* for finished.)
TerminalBug == {"syncing", "succeeded", "failed", "timeout", "canceled"}

\* terminalStatuses of handleRunStatusTransition
Terminal == {"succeeded", "failed", "timeout", "canceled"}
=============================================================================
