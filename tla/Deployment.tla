----------------------------- MODULE Deployment -----------------------------
(***************************************************************************)
(* What a process of PriceRight runs on, as its environment says: the       *)
(* settings read at import (src/agent_core/config.py, src/priceright/       *)
(* config.py) and the three choices made from them: the chain (make_chain), *)
(* the facilitator (make_facilitator) and the journal (StateStore.create).  *)
(* An operator sets variables in any order; the process is started, refuses *)
(* or runs, and is started again.                                           *)
(***************************************************************************)
EXTENDS Integers, FiniteSets

CONSTANTS
    Flag,       \* the values of a variable that is read as a boolean
    MaxSet      \* bound: variables set at once

DeploymentAssumption == Flag \subseteq {"unset", "empty", "0", "1"} /\ "unset" \in Flag /\ MaxSet \in Nat

\* PRICERIGHT_RPC_URL, the addresses, and PRICERIGHT_X402_FACILITATOR_URL.
Address == {"arena_address", "token_address", "identity_address", "vault_address", "reputation_address"}
Text == Address \cup {"rpc_url", "x402_facilitator_url"}

\* PRICERIGHT_OFFLINE, _IN_MEMORY_STATE and _REQUIRE_DURABLE_STATE; AGENT_REQUIRE_DURABLE_STATE.
Switch == {"offline", "in_memory", "require", "agent_require"}

VARIABLES
    given,      \* the variables of Text that are set and not empty
    switches,   \* Switch -> Flag
    process,    \* "down", "refused" or "up"
    parts       \* what it runs on: [chain, facilitator, journal, degraded]

vars == <<given, switches, process, parts>>

Nothing == [chain |-> "none", facilitator |-> "none", journal |-> "none", degraded |-> FALSE]

-----------------------------------------------------------------------------
(* The settings. *)

True(flag) == flag = "1"
EnvBool(name, default) == IF switches[name] = "unset" THEN default ELSE True(switches[name])

\* The prefixed variable wins over the shared one, unless it is empty.
Prefixed(name, value) == IF switches[name] \in {"unset", "empty"} THEN value ELSE True(switches[name])

Offline == EnvBool("offline", FALSE)
UseInMemoryState == Prefixed("in_memory", EnvBool("in_memory", TRUE))
RequireDurableState == Prefixed("require", EnvBool("agent_require", FALSE))

UseFacilitator == "x402_facilitator_url" \in given /\ ~Offline
UseChain == {"rpc_url", "arena_address", "token_address"} \subseteq given /\ ~Offline

-----------------------------------------------------------------------------
(* The choices. *)

\* Nothing that is only half there is taken for a chain.
ChainOnlyWhenWhole == IF UseChain THEN "node" ELSE "mirror"

\* make_chain: what is given of the chain decides; the adapter wants every address.
Chain ==
    IF Offline \/ {"rpc_url", "arena_address"} \cap given = {} THEN "mirror"
    ELSE IF UseChain /\ Address \subseteq given THEN "node" ELSE "error"

\* The adapter asks the node for its id and the token for its name.
ChainOf(node) == IF Chain = "node" /\ ~node THEN "error" ELSE Chain

Facilitator == IF UseFacilitator THEN "remote" ELSE "local"

Journal(firestore) ==
    IF UseInMemoryState THEN "memory"
    ELSE IF firestore THEN "firestore"
    ELSE IF RequireDurableState THEN "error" ELSE "memory"

-----------------------------------------------------------------------------
Init ==
    /\ given = {} /\ switches = [s \in Switch |-> "unset"]
    /\ process = "down" /\ parts = Nothing

SetText(name) ==
    /\ process = "down" /\ Cardinality(given) < MaxSet
    /\ given' = given \cup {name}
    /\ UNCHANGED <<switches, process, parts>>

SetSwitch(name, flag) ==
    /\ process = "down" /\ switches' = [switches EXCEPT ![name] = flag]
    /\ UNCHANGED <<given, process, parts>>

\* Whether the node and Firestore answer is theirs to say.
Start(node, firestore) ==
    LET chain == ChainOf(node)
        journal == Journal(firestore)
    IN  /\ process = "down"
        /\ IF "error" \in {chain, journal}
           THEN process' = "refused" /\ UNCHANGED parts
           ELSE /\ process' = "up"
                /\ parts' = [chain |-> chain, facilitator |-> Facilitator, journal |-> journal,
                             degraded |-> journal = "memory" /\ ~UseInMemoryState]
        /\ UNCHANGED <<given, switches>>

Stop ==
    /\ process # "down"
    /\ process' = "down" /\ parts' = Nothing
    /\ UNCHANGED <<given, switches>>

Next ==
    \/ \E name \in Text : SetText(name)
    \/ \E name \in Switch, flag \in Flag : SetSwitch(name, flag)
    \/ \E node, firestore \in BOOLEAN : Start(node, firestore)
    \/ Stop

Spec == Init /\ [][Next]_vars

-----------------------------------------------------------------------------
TypeOK ==
    /\ given \subseteq Text /\ Cardinality(given) <= MaxSet
    /\ switches \in [Switch -> Flag] /\ process \in {"down", "refused", "up"}
    /\ parts = Nothing \/ parts \in [chain : {"mirror", "node"}, facilitator : {"local", "remote"},
                                     journal : {"memory", "firestore"}, degraded : BOOLEAN]

\* An operator who gave a node or an arena and did not say offline never gets the
\* mirror: the process runs on the whole set of contracts or not at all (rpc.py:415-424).
NodeMeansNode ==
    process = "up" /\ {"rpc_url", "arena_address"} \cap given # {} /\ switches["offline"] # "1" =>
        parts.chain = "node" /\ Address \cup {"rpc_url"} \subseteq given

\* PRICERIGHT_OFFLINE takes every rail out again, whatever else is set: no node and no
\* remote facilitator (tests/test_priceright.py:361).  The journal is none of these rails:
\* whoever opted out of memory is still asked for Firestore.
OfflineTakesRailsOut ==
    process = "up" /\ switches["offline"] = "1" => parts.chain = "mirror" /\ parts.facilitator = "local"

\* Where memory was opted out of, a journal in memory says that it is degraded, and is not
\* there when the app's own variable asks for a durable one (state.py:212-241).  Where
\* nothing was said memory is the default, and is silent.
MemoryOptOutIsKept ==
    process = "up" /\ parts.journal = "memory" /\ switches["in_memory"] = "0" =>
        parts.degraded /\ switches["require"] # "1"
=============================================================================
