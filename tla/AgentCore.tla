----------------------------- MODULE AgentCore ------------------------------
(***************************************************************************)
(* What an agent decides and records on its own (src/agent_core and the     *)
(* policy of src/priceright): the run journal, which this extends, the      *)
(* limiter of outbound actions, the verdict and the settings the process    *)
(* runs on.  They share no state; each moves as its own module says.        *)
(***************************************************************************)
EXTENDS StateStore

CONSTANTS
    Worker, Limits, Hour, CycleTTL, MaxLag, MaxTime,    \* the limiter
    Symbol, Texts, Lines, Quotes, MaxLines,             \* the policy
    Flag, MaxSet                                        \* the settings

VARIABLES
    limits, now, waiting, recent, counts, log, answer,  \* the limiter
    text, evidence,                                     \* the policy
    given, switches, process, parts                     \* the settings

storeVars == vars
limiterVars == <<limits, now, waiting, recent, counts, log, answer>>
policyVars == <<text, evidence>>
settingVars == <<given, switches, process, parts>>
coreVars == <<storeVars, limiterVars, policyVars, settingVars>>

Limiter == INSTANCE ActionLimiter WITH Thread <- Worker
Policy == INSTANCE EvidencePolicy
Environment == INSTANCE Deployment

ASSUME CoreAssumption ==
    /\ StoreAssumption /\ OneWriter
    /\ Limiter!LimiterAssumption /\ Policy!PolicyAssumption /\ Environment!DeploymentAssumption

\* The parts side by side.
CoreSpec == Spec /\ Limiter!Spec /\ Policy!Spec /\ Environment!Spec

-----------------------------------------------------------------------------
(* The properties of the parts, each stated in its module; those of the journal are *)
(* StateStore's own.                                                                *)

\* Every part keeps to its types.
CoreTypeOK == TypeOK /\ Limiter!TypeOK /\ Policy!TypeOK /\ Environment!TypeOK

\* No window of an hour, less the time a thread may wait for the lock, allows more than the
\* hourly cap, and a run's counter is not lost while the run acts (guardrails.py:193-199).
CapsHold == Limiter!HourlyCap /\ Limiter!CycleCap

\* Only allowed actions use up the hour (guardrails.py:234-241).
RefusalsEarned == [][Limiter!RefusalsEarned]_limiterVars

\* One more run id than the ceiling, at most (guardrails.py:214-224, 240).
TableBounded == Limiter!TableBounded

\* More than half of the readings decide, whatever the rest say, and a stale quote is
\* right as long as the world agrees with it (policy.py:118-131, 154).
VerdictsEarned == Policy!MajorityDecides /\ Policy!StaleWinsWhenTheWorldAgrees

\* Lines about something else count for nothing (policy.py:119).
OtherLinesIgnored == [][Policy!OtherLinesIgnored]_policyVars

\* An operator who gave a node or an arena runs on it or not at all, offline means no node
\* and no remote facilitator, and one who opted out of memory gets a journal in memory only
\* with the word that it is degraded (rpc.py:415-424, test_priceright.py:361,
\* state.py:212-241).
SettingsObeyed ==
    Environment!NodeMeansNode /\ Environment!OfflineTakesRailsOut /\ Environment!MemoryOptOutIsKept
=============================================================================
