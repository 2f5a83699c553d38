------------------------------ MODULE ChatTurn ------------------------------
(***************************************************************************)
(* What the group lock promises, and all it promises: the runs of one chat *)
(* take turns.  A run gets its turn at most once, has it alone, and never  *)
(* gets it back.  (docs/construction_plan_v2.md, section 5.1, states it as *)
(* "one message at a time per feishuChatId".)                              *)
(***************************************************************************)
CONSTANT Runs

VARIABLE turn   \* of each run

Init == turn = [r \in Runs |-> "waiting"]

Take(r) ==
  /\ turn[r] = "waiting"
  /\ \A s \in Runs : turn[s] # "taken"
  /\ turn' = [turn EXCEPT ![r] = "taken"]

Leave(r) ==
  /\ turn[r] = "taken"
  /\ turn' = [turn EXCEPT ![r] = "over"]

Next == \E r \in Runs : Take(r) \/ Leave(r)

Spec == Init /\ [][Next]_turn
=============================================================================
