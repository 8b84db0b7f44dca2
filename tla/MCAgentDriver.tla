------------------------------ MODULE MCAgentDriver ------------------------------
(* Small instances of AgentDriver. *)
EXTENDS AgentDriver, TLC

CONSTANTS w1, w2

TwoTasks == {w1, w2}

TaskSymmetry == Permutations(TwoTasks)

WithRetry     == {"archive", "surface"}
ReconnectOnly == {"reconnect"}
None          == {}
InputOnly     == {"executionInput"}
BudgetOnly    == {"contextBudget"}
================================================================================
