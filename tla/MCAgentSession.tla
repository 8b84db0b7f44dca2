----------------------------- MODULE MCAgentSession -----------------------------
(* Small instances of AgentSession: messages of a user and of the runtime. *)
EXTENDS AgentSession, TLC

CONSTANTS m1, m2, m3

TwoMsgs   == {m1, m2}
ThreeMsgs == {m1, m2, m3}
FromUser  == {m1}

\* Messages the runtime wrote are interchangeable.
RuntimeSymmetry == Permutations(ThreeMsgs \ FromUser)
================================================================================
