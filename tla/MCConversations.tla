-------------------------- MODULE MCConversations --------------------------
(***************************************************************************)
(* The parts of Conversations, and the loop that signs, on small instances. *)
(* A behaviour is about one `part`; the others stay as they begin.          *)
(***************************************************************************)
EXTENDS Conversations

CONSTANTS
    u1, u2, s1, s2, c1, c2, c3,
    P, B, N, G, Key, Digest, Sent

VARIABLES
    part,
    at, key, nonce, sig     \* the signer

signingVars == <<at, key, nonce, sig>>

-----------------------------------------------------------------------------
(* Resolver runs over one task: two agents of one key and a remote facilitator that *)
(* says anything; old and forged headers, free tasks and an agent that is sold; one  *)
(* agent, a remote facilitator and a node that fails.                                *)

OneTask == [s \in Session |-> 1]
PaidOrFree == [bounty : {0}, fee : {0, 1}, slashAmount : {1}]
Purses == [u \in User |-> 3]

OneKey == [key |-> [s \in Session |-> u2], replayer |-> {}, remote |-> TRUE]
OldHeaders == [key |-> [s \in Session |-> IF s = s1 THEN u2 ELSE u1], replayer |-> {s2},
               remote |-> FALSE]
MCSetups == {OneKey, OldHeaders}

\* Two runs race for a task that costs something, with headers sent to the token or, on
\* the shorter clock, on a node that fails; replays are tried on a node that answers; and
\* a run that is alone meets both and has the longest clock.  The two that race are
\* alike, so the first of them begins first.
Bounded(runs) ==
    /\ runs = "gate" /\ pc'[s1] = "new" => pc'[s2] = "new"
    /\ runs \in {"gate", "replay"} => now' <= 2
    /\ runs = "gate" /\ tasks'[1] # Absent => tasks'[1].fee = 1
    /\ runs = "gate" => faults' = 0 \/ (broadcast' = {} /\ now' <= 1)
    /\ runs = "replay" => faults' = 0
    /\ runs = "alone" => pc'[s2] = "new"

(* Calls of the adapter: an agent and one task, from post to settlement; two         *)
(* processes that send from one account, with a rival for the task; and two posts of *)
(* one process.                                                                      *)

A(kind, sender, process, task) ==
    [kind |-> kind, sender |-> sender, process |-> process, task |-> task]
LifeCalls == {A("register", "resolver", "r", 0), A("post", "poster", "p", 0),
              A("claim", "resolver", "r", 1), A("commit", "resolver", "r", 1),
              A("settle", "poster", "p", 1)}
SharedCalls == {A("post", "poster", "p", 0), A("post", "poster", "q", 0),
                A("claim", "resolver", "r", 1), A("claim", "rival", "s", 1)}
PostCalls == {A("post", "poster", "p", 0), A("post", "poster", "p", 2)}
MCCalls == LifeCalls \cup SharedCalls \cup PostCalls
Kinds == [c \in Call |-> c.kind]
Senders == [c \in Call |-> c.sender]
Processes == [c \in Call |-> c.process]
Tasks == [c \in Call |-> c.task]
Polls == [c \in Call |-> IF c \in SharedCalls THEN 0 ELSE 1]

Only(calls) == \A c \in Call \ calls : callPc'[c] = "new"

(* Routing: an app's handler, an unknown and a repeated name, one cycle with an      *)
(* endpoint for its tickets and one with no destination, in an hour that is spent    *)
(* before both their budgets are; and one by itself that files its tickets at GitHub.*)

Own == [c \in Cycle |-> c]
Signal(d, p) == [domain |-> d, pattern |-> p]
MCSignals == <<Signal("security", "breach"), Signal("infra", "deploy"), Signal("finance", "refund")>>
Ranking == <<"security", "finance">>
MCOverride == [security |-> <<"page", "alert", "nobody", "ticket", "ticket">>,
               infra |-> <<"alert", "ticket", "page">>]
Destinations == [c \in Cycle |-> IF c = c1 THEN [webhook |-> TRUE, backend |-> "endpoint"]
                                 ELSE [webhook |-> FALSE,
                                       backend |-> IF c = c2 THEN "stub" ELSE "github"]]

Idle(cycles) == \A c \in cycles : routePc'[c] = "new"

\* Many signals at once come in one of the two cycles that share the hour.
FewSignals == Cardinality(hits'[c2]) <= 1

(* Signing on y^2 = x^3 + 7 over 43, a curve of order 31, less than the prime as it  *)
(* is for the code's curve; and signatures from elsewhere.                           *)

Keys == {1, 2, 3, N \div 2, N \div 2 + 1, N - 2, N - 1}
Digests == {0, 1, 12, N - 1, N, N + 5, 2 * N}
Forged == [v : {26, 27, 28}, r : {0, 2, 7, 12, N - 1, N},
           s : {0, 1, 9, N \div 2, N \div 2 + 1, N - 1, N}, digest : {0, 12, N + 5}]

Generator == <<2, 12>>

Signing == INSTANCE Secp256k1

ASSUME SigningAssumption == Signing!CurveAssumption

-----------------------------------------------------------------------------
Part == {"gate", "replay", "alone", "life", "shared", "posts", "record", "github", "signing"}

PartsInit ==
    /\ part \in Part
    /\ RunInit /\ setup = IF part = "replay" THEN OldHeaders ELSE OneKey
    /\ Adapter!Init /\ Router!Init /\ Signing!Init

PartsNext ==
    /\ UNCHANGED part
    /\ \/ /\ part \in {"gate", "replay", "alone"}
          /\ RunNext /\ Bounded(part) /\ UNCHANGED <<rpcVars, routingVars, signingVars>>
       \/ /\ Adapter!Next
          /\ \/ part = "life" /\ Only(LifeCalls)
             \/ part = "shared" /\ Only(SharedCalls)
             \/ part = "posts" /\ Only(PostCalls)
          /\ UNCHANGED <<runVars, routingVars, signingVars>>
       \/ /\ Router!Next
          /\ \/ part = "record" /\ Idle({c3}) /\ FewSignals
             \/ part = "github" /\ Idle({c1, c2})
          /\ UNCHANGED <<runVars, rpcVars, signingVars>>
       \/ part = "signing" /\ Signing!Next /\ UNCHANGED <<runVars, rpcVars, routingVars>>

\* The fairness of each module's own specification, in the parts that must end: every
\* request has a timeout, and the loops run on.  Nothing outside owes an answer.
Fairness ==
    /\ WF_runVars(part = "alone" /\ Play(s1) /\ UNCHANGED <<setup, broadcast>>)
    /\ \A c \in SharedCalls : WF_rpcVars(part = "shared" /\ Adapter!Send(c))
    /\ \A c \in Cycle : WF_routingVars(part \in {"record", "github"} /\ Router!Work(c))
    /\ WF_signingVars(part = "signing" /\ Signing!Try)

PartsSpec ==
    PartsInit /\ [][PartsNext]_<<part, runVars, rpcVars, routingVars, signingVars>> /\ Fairness

-----------------------------------------------------------------------------
(* The properties of the parts are those of Conversations; the signer's here.        *)

\* A signature is canonical and gives its signer back, in this form alone, and a key
\* recovered from any signature is one it verifies under (secp256k1.py:110-153).
RecoveryAgrees ==
    Signing!TypeOK /\ Signing!SignerRecovered /\ Signing!OneFormOnly /\ Signing!RecoveredKeyVerifies

\* What was begun ends, with or without the others' help: from some point on no run of
\* an agent, no call, no incident and no signature is under way (agent.py:126-190,
\* rpc.py:199-231, router.py:271-307, secp256k1.py:116-124).
AllEnd ==
    <>[](/\ part = "alone" => pc[s1] \in Over \cup {"new", "idle"}
         /\ part = "shared" => \A c \in SharedCalls : callPc[c] \in Adapter!Ended \cup {"new"}
         /\ part \in {"record", "github"} => \A c \in Cycle : routePc[c] \notin {"firing", "sending"}
         /\ at # "trying")
=============================================================================
