---------------------------- MODULE MCArenaTask -----------------------------
(***************************************************************************)
(* One task to its end, in two markets that differ in what else may happen. *)
(* A behaviour stays in the market it begins in.                            *)
(***************************************************************************)
EXTENDS MCAgentArena

CONSTANT r2

VARIABLE market

\* The market of the .cfg: everybody approved everything; foreign validation requests.
\* The other one: allowances that run out in the middle of a call.
Tight == INSTANCE AgentArena WITH
    InitialApproval <- 3, Approvals <- {2}, Requesters <- {}, MaxUint64 <- MaxUint64 - 1

OneReasoning == \A id \in TaskId : tasks[id].reasoningHash # r2

TaskInit ==
    \/ market = "open" /\ Init
    \/ market = "tight" /\ Tight!Init

TaskNext ==
    /\ \/ market = "open" /\ Next
       \/ market = "tight" /\ Tight!Next /\ OneReasoning'
    /\ UNCHANGED market

TaskSpec == TaskInit /\ [][TaskNext]_<<vars, market>>
=============================================================================
