--------------------------- MODULE Conversations ----------------------------
(***************************************************************************)
(* The parts of a process that talk to something that may not answer: a     *)
(* resolver's run against the claim gate, which this extends, the calls of  *)
(* the JSON-RPC adapter against a node, and the routing of incidents to     *)
(* their destinations.  They share no state; each moves as its own module   *)
(* says.                                                                    *)
(***************************************************************************)
EXTENDS ResolverRun

CONSTANTS
    Call, KindOf, SenderOf, ProcessOf, CallTask, Serial, MaxTries, MaxLoss,   \* the adapter
    Cycle, NotifierOf, Signals, Precedence, Override, AppHandler, SettingsOf, \* the router
    MaxPerCycle, MaxPerHour, MaxIncidents, Adhoc, None

VARIABLES
    nodeTasks, nodeAgents, pool, mined,                     \* the node
    callPc, seen, txNonce, tries, secrets, loss,            \* the calls
    routePc, routed, runId, spent, hits, domain, todo, fired, artifacts, primary,
    accepted, returned                                      \* the router

rpcVars == <<nodeTasks, nodeAgents, pool, mined, callPc, seen, txNonce, tries, secrets, loss>>
routingVars == <<routePc, routed, runId, spent, hits, domain, todo, fired, artifacts, primary,
                 accepted, returned>>

Adapter == INSTANCE JsonRpcChain WITH
    TaskOf <- CallTask, tasks <- nodeTasks, agents <- nodeAgents, pc <- callPc, nonce <- txNonce

Router == INSTANCE IncidentRouting WITH pc <- routePc

ASSUME ConversationAssumption == Adapter!AdapterAssumption /\ Router!RoutingAssumption

\* The parts side by side.
ConversationSpec == RunSpec /\ Adapter!Spec /\ Router!Spec

-----------------------------------------------------------------------------
(* The properties of the adapter and of the router, each stated in its module; those *)
(* of the runs are ResolverRun's own.                                                *)

\* Every part keeps to its types.
PartsTypeOK == TypeOK /\ RunTypeOK /\ Adapter!TypeOK /\ Router!TypeOK

\* What a call returns is true: the receipt is the effect of its own transaction, and,
\* for one poster and one registrar, the id it foresaw is the one that came
\* (rpc.py:199-223, 278-284, 304-308).
ReturnsAreTrue == Adapter!ReceiptIsEffect /\ Adapter!ForeseenIdsHold

\* A routing record is what happened: the domain the precedence names, every handler of
\* its route in turn, live only if a destination took the incident, and with artifacts of
\* destinations that took it, which returned all of them but, perhaps, the number of a
\* GitHub issue (router.py:21-22, 87-88, 263-298).
RecordIsTrue ==
    /\ Router!PrecedenceWins /\ Router!EveryHandlerTried
    /\ Router!LiveIsDelivered /\ Router!ArtifactsAreReturned
=============================================================================
