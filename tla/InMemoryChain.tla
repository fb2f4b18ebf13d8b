--------------------------- MODULE InMemoryChain ---------------------------
(***************************************************************************)
(* The keyless backend (src/priceright/arena.py): one Python object that    *)
(* holds the token, the registries, the vault and the arena.  A call that   *)
(* the contracts would revert raises ChainError instead, and whatever the   *)
(* handler wrote before it raised stays written.  So every guard that comes *)
(* before the first assignment disables the action, and every transfer that *)
(* can fail after one splits it: `raised` counts those half-done calls.     *)
(* Amounts and times are Python integers, which have no width.              *)
(***************************************************************************)
EXTENDS Integers, Sequences, FiniteSets, Totals

CONSTANTS
    User,            \* the addresses of posters and resolvers
    Arena, Vault,    \* the stand-in contract addresses
    NoOne,           \* nobody: an id no agent has, a task without a resolver
    Terms,           \* the [bounty, fee, slashAmount] of post_task
    Reasoning,       \* reasoning hashes
    NoReasoning,     \* the empty hash of a task nobody committed to
    CommitWindow, SettleWindow, PaymentTimeout,
    Funding,         \* User -> what it was minted before the market opens
    Mints,           \* amounts minted later
    OtherValues,     \* amounts a payer may sign for besides the task's fee
    AgentBuyers,     \* the users agent identities are transferred to
    MaxTask, MaxAgent, MaxSigned, MaxTime, MaxSupply, \* bounds of the model
    MaxRaised,       \* bound: calls that raise half way
    MaxUint256       \* the width of the contracts' amounts, which the mirror has not

Address == User \cup {Arena, Vault}
TaskId == 1..MaxTask
AgentId == 1..MaxAgent

ASSUME MirrorAssumption ==
    /\ IsFiniteSet(User)
    /\ Arena # Vault /\ Arena \notin User /\ Vault \notin User /\ NoOne \notin Address
    /\ Terms \subseteq [bounty : Nat, fee : Nat, slashAmount : Nat]
    /\ NoReasoning \notin Reasoning
    /\ CommitWindow \in Nat /\ SettleWindow \in Nat /\ PaymentTimeout \in Nat
    /\ Funding \in [User -> Nat] /\ Mints \subseteq Nat /\ OtherValues \subseteq Nat
    /\ AgentBuyers \subseteq User
    /\ {MaxTask, MaxAgent, MaxSigned, MaxTime, MaxSupply, MaxRaised,
        MaxUint256} \subseteq Nat /\ MaxTime # 0

VARIABLES
    now, balances, authorizations, signed, agents, feedback, validations, bonds,
    credits, tasks, nextTask, raised

tokenVars == <<balances, authorizations, signed>>
registryVars == <<agents, feedback, validations>>
arenaVars == <<bonds, credits, tasks, nextTask>>
vars == <<now, tokenVars, registryVars, arenaVars, raised>>

Answer == {"Yes", "No"}
Held == {"Claimed", "Committed"}

Task ==
    [poster : User, bounty : Nat, fee : Nat, slashAmount : Nat, truthCommit : Answer,
     status : Held \cup {"Open", "Settled", "Cancelled"},
     agentId : {0} \cup AgentId, resolver : User \cup {NoOne},
     committed : Answer \cup {"None"}, reasoningHash : Reasoning \cup {NoReasoning},
     truth : Answer \cup {"None"}, correct : {"None", "True", "False"},
     commitDeadline : Nat, settleDeadline : Nat]

\* An id that is not a key of the dictionary.
Absent == [poster |-> NoOne]

In(id, status) == tasks[id] # Absent /\ tasks[id].status = status

Bond == [agentId : AgentId, depositor : User, amount : Nat,
         closed : BOOLEAN, slashed : BOOLEAN]
NoBond == [depositor |-> NoOne]

Request == [agentId : AgentId, answered : BOOLEAN, response : {0, 100}]
NoRequest == [agentId |-> 0]

Feedback == [score : {0, 100},
             tag : {"correct", "wrong", "commit-timeout", "reveal-timeout"}]

\* Hashes over the arena's address and these ids.
ClaimNonce(id, agent) == <<id, agent>>
ValidationHash(id, reasoning) == <<id, reasoning>>

-----------------------------------------------------------------------------
(* The token. *)

Covers(b, from, v) == b[from] >= v
Moved(b, from, to, v) ==
    LET debited == [b EXCEPT ![from] = @ - v] IN [debited EXCEPT ![to] = @ + v]

\* A ChainError after the first assignment of a call.
Raise == raised < MaxRaised /\ raised' = raised + 1

Mint(to, v) ==
    /\ Total(balances, Address) + v <= MaxSupply
    /\ balances' = [balances EXCEPT ![to] = @ + v]
    /\ UNCHANGED <<now, authorizations, signed, registryVars, arenaVars, raised>>

\* X402Client.pay signs for the fee and the nonce the gate demanded; a payer with
\* other software may sign for another amount, one per nonce.
Sign(payer, id, agent, v) ==
    /\ tasks[id] # Absent
    /\ Cardinality(signed) < MaxSigned
    /\ \A s \in signed : s.from = payer /\ s.nonce = ClaimNonce(id, agent) => s.value = v
    /\ signed' = signed \cup
           {[from |-> payer, to |-> Arena, value |-> v, validAfter |-> 0,
             validBefore |-> now + PaymentTimeout, nonce |-> ClaimNonce(id, agent)]}
    /\ UNCHANGED <<now, balances, authorizations, registryVars, arenaVars, raised>>

\* What _transfer_with_authorization checks before it marks the nonce.
Authorized(payment) ==
    /\ payment.validAfter < now /\ now < payment.validBefore
    /\ payment.nonce \notin authorizations[payment.from]
    /\ payment \in signed

-----------------------------------------------------------------------------
(* The identity registry. *)

Register(controller, agent) ==
    /\ agents[agent] = NoOne
    /\ \A a \in 1..(agent - 1) : agents[a] # NoOne
    /\ agents' = [agents EXCEPT ![agent] = controller]
    /\ UNCHANGED <<now, tokenVars, feedback, validations, arenaVars, raised>>

TransferAgent(agent, to) ==
    /\ agents[agent] # NoOne
    /\ agents' = [agents EXCEPT ![agent] = to]
    /\ UNCHANGED <<now, tokenVars, feedback, validations, arenaVars, raised>>

-----------------------------------------------------------------------------
(* Posting, claiming, committing. *)

\* The id is taken before the bounty is: a poster that cannot pay burns an id.
PostTask(poster, terms, truth) ==
    /\ nextTask <= MaxTask
    /\ nextTask' = nextTask + 1
    /\ IF Covers(balances, poster, terms.bounty)
       THEN /\ balances' = Moved(balances, poster, Arena, terms.bounty)
            /\ tasks' = [tasks EXCEPT ![nextTask] =
                   [poster |-> poster, bounty |-> terms.bounty, fee |-> terms.fee,
                    slashAmount |-> terms.slashAmount, truthCommit |-> truth,
                    status |-> "Open", agentId |-> 0, resolver |-> NoOne,
                    committed |-> "None", reasoningHash |-> NoReasoning,
                    truth |-> "None", correct |-> "None",
                    commitDeadline |-> 0, settleDeadline |-> 0]]
            /\ UNCHANGED raised
       ELSE Raise /\ UNCHANGED <<balances, tasks>>
    /\ UNCHANGED <<now, authorizations, signed, registryVars, bonds, credits>>

PaymentMatches(id, agent, payment) ==
    /\ agents[agent] = payment.from
    /\ payment.value = tasks[id].fee
    /\ payment.nonce = ClaimNonce(id, agent)

\* The nonce is marked before the fee moves, and the claim and its bond are
\* recorded before the collateral does: a payer that cannot cover the one or the
\* other leaves them behind.
ClaimTask(id, agent, payment) ==
    LET t == tasks[id]
        payer == payment.from
        charged == Moved(balances, payer, Arena, t.fee)
    IN  /\ In(id, "Open")
        /\ PaymentMatches(id, agent, payment)
        /\ t.fee > 0 => Authorized(payment)
        /\ authorizations' = [authorizations EXCEPT ![payer] =
               IF t.fee > 0 THEN @ \cup {payment.nonce} ELSE @]
        /\ IF ~Covers(balances, payer, t.fee)
           THEN Raise /\ UNCHANGED <<balances, tasks, bonds>>
           ELSE /\ tasks' = [tasks EXCEPT ![id].status = "Claimed", ![id].agentId = agent,
                       ![id].resolver = payer, ![id].commitDeadline = now + CommitWindow]
                /\ bonds' = [bonds EXCEPT ![id] =
                       [agentId |-> agent, depositor |-> payer, amount |-> t.slashAmount,
                        closed |-> FALSE, slashed |-> FALSE]]
                /\ IF Covers(charged, payer, t.slashAmount)
                   THEN /\ balances' = Moved(charged, payer, Vault, t.slashAmount)
                        /\ UNCHANGED raised
                   ELSE balances' = charged /\ Raise
        /\ UNCHANGED <<now, signed, registryVars, credits, nextTask>>

CommitVerdict(caller, id, verdict, reasoning) ==
    /\ In(id, "Claimed")
    /\ caller = tasks[id].resolver
    /\ now <= tasks[id].commitDeadline
    /\ tasks' = [tasks EXCEPT ![id].committed = verdict, ![id].reasoningHash = reasoning,
           ![id].status = "Committed", ![id].settleDeadline = now + SettleWindow]
    /\ validations' = [validations EXCEPT ![ValidationHash(id, reasoning)] =
           [agentId |-> tasks[id].agentId, answered |-> FALSE, response |-> 0]]
    /\ UNCHANGED <<now, tokenVars, agents, feedback, bonds, credits, nextTask, raised>>

-----------------------------------------------------------------------------
(* Endings. *)

Pot(id) == tasks[id].fee + tasks[id].bounty

Credited(c, who, v) == [c EXCEPT ![who] = @ + v]

Score(how) == IF how \in {"correct", "reveal-timeout"} THEN 100 ELSE 0

ResolverDue(id, how) ==
    (IF how \in {"correct", "reveal-timeout"} THEN Pot(id) ELSE 0)
        + (IF how # "wrong" THEN bonds[id].amount ELSE 0)

\* Everything the ending pays that is not the resolver's.
PosterDue(id, how) ==
    (IF how \in {"wrong", "commit-timeout"} THEN Pot(id) ELSE 0)
        + (IF how = "wrong" THEN bonds[id].amount ELSE 0)

\* _slash keeps a note of it; _release and _slash both close.
Closed(id, how) == [bonds EXCEPT ![id].closed = TRUE, ![id].slashed = (how = "wrong")]

Rated(agent, how) ==
    [feedback EXCEPT ![agent] = Append(@, [score |-> Score(how), tag |-> how])]

\* The task is over and its bond closed before the vault is asked to pay.  When
\* the vault cannot, nobody is credited and the record is never written.
End(id, how, ended) ==
    LET t == tasks[id]
        hash == ValidationHash(id, t.reasoningHash)
    IN  /\ tasks' = [tasks EXCEPT ![id] = ended]
        /\ bonds[id] # NoBond /\ ~bonds[id].closed
        /\ bonds' = Closed(id, how)
        /\ IF Covers(balances, Vault, bonds[id].amount)
           THEN /\ balances' = Moved(balances, Vault, Arena, bonds[id].amount)
                /\ credits' = Credited(Credited(credits, t.poster, PosterDue(id, how)),
                                       t.resolver, ResolverDue(id, how))
                /\ feedback' = Rated(t.agentId, how)
                /\ validations' =
                       IF how \in {"correct", "wrong"} /\ validations[hash] # NoRequest
                       THEN [validations EXCEPT ![hash].answered = TRUE,
                                                ![hash].response = Score(how)]
                       ELSE validations
                /\ UNCHANGED raised
           ELSE Raise /\ UNCHANGED <<balances, credits, feedback, validations>>
        /\ UNCHANGED <<now, authorizations, signed, agents, nextTask>>

Settle(caller, id, truth) ==
    LET correct == tasks[id].committed = truth
    IN  /\ In(id, "Committed")
        /\ caller = tasks[id].poster
        /\ now <= tasks[id].settleDeadline
        /\ truth = tasks[id].truthCommit
        /\ End(id, IF correct THEN "correct" ELSE "wrong",
               [tasks[id] EXCEPT !.status = "Settled", !.truth = truth,
                         !.correct = IF correct THEN "True" ELSE "False"])

\* A timeout that is due already at the deadline instant.
TimeoutCommitEarly(id) ==
    /\ In(id, "Claimed")
    /\ now >= tasks[id].commitDeadline
    /\ End(id, "commit-timeout", [tasks[id] EXCEPT !.status = "Settled"])

TimeoutCommit(id) ==
    /\ In(id, "Claimed")
    /\ now > tasks[id].commitDeadline
    /\ End(id, "commit-timeout", [tasks[id] EXCEPT !.status = "Settled"])

TimeoutSettle(id) ==
    /\ In(id, "Committed")
    /\ now > tasks[id].settleDeadline
    /\ End(id, "reveal-timeout", [tasks[id] EXCEPT !.status = "Settled"])

\* Refunds the claim fee along with the bounty.
CancelRefundsPot(caller, id) ==
    /\ In(id, "Open")
    /\ caller = tasks[id].poster
    /\ tasks' = [tasks EXCEPT ![id].status = "Cancelled"]
    /\ credits' = Credited(credits, caller, Pot(id))
    /\ UNCHANGED <<now, tokenVars, registryVars, bonds, nextTask, raised>>

CancelTask(caller, id) ==
    /\ In(id, "Open")
    /\ caller = tasks[id].poster
    /\ tasks' = [tasks EXCEPT ![id].status = "Cancelled"]
    /\ credits' = Credited(credits, caller, tasks[id].bounty)
    /\ UNCHANGED <<now, tokenVars, registryVars, bonds, nextTask, raised>>

\* The credit is zeroed first; if the arena could not pay, it would be gone.
Withdraw(who) ==
    LET pays == Covers(balances, Arena, credits[who])
    IN  /\ credits[who] > 0
        /\ credits' = [credits EXCEPT ![who] = 0]
        /\ balances' = IF pays THEN Moved(balances, Arena, who, credits[who]) ELSE balances
        /\ raised' = IF pays THEN raised ELSE raised + 1
        /\ UNCHANGED <<now, authorizations, signed, registryVars, bonds, tasks, nextTask>>

Advance ==
    /\ now < MaxTime
    /\ now' = now + 1
    /\ UNCHANGED <<tokenVars, registryVars, arenaVars, raised>>

-----------------------------------------------------------------------------
Init ==
    /\ now = 1
    /\ balances = [a \in Address |-> IF a \in User THEN Funding[a] ELSE 0]
    /\ authorizations = [a \in Address |-> {}]
    /\ signed = {}
    /\ agents = [a \in AgentId |-> NoOne]
    /\ feedback = [a \in AgentId |-> <<>>]
    /\ validations = [hash \in TaskId \X Reasoning |-> NoRequest]
    /\ bonds = [id \in TaskId |-> NoBond]
    /\ credits = [u \in User |-> 0]
    /\ tasks = [id \in TaskId |-> Absent]
    /\ nextTask = 1
    /\ raised = 0

\* A payment record nobody signed, which a free task never looks into.
Unsigned(payer, id, agent) ==
    [from |-> payer, to |-> Arena, value |-> 0, validAfter |-> 0, validBefore |-> 0,
     nonce |-> ClaimNonce(id, agent)]

Next ==
    \/ \E u \in User, v \in Mints : Mint(u, v)
    \/ \E u \in User, a \in AgentId : Register(u, a)
    \/ \E a \in AgentId, u \in AgentBuyers : TransferAgent(a, u)
    \/ \E u \in User, terms \in Terms, v \in Answer : PostTask(u, terms, v)
    \/ \E u \in User, id \in TaskId, a \in AgentId : tasks[id] # Absent
           /\ \E v \in {tasks[id].fee} \cup OtherValues : Sign(u, id, a, v)
    \/ \E u \in User, id \in TaskId, a \in AgentId :
           \E p \in signed \cup {Unsigned(u, id, a)} : ClaimTask(id, a, p)
    \/ \E u \in User, id \in TaskId, v \in Answer, r \in Reasoning : CommitVerdict(u, id, v, r)
    \/ \E u \in User, id \in TaskId, v \in Answer : Settle(u, id, v)
    \/ \E id \in TaskId : TimeoutCommit(id)
    \/ \E id \in TaskId : TimeoutSettle(id)
    \/ \E u \in User, id \in TaskId : CancelTask(u, id)
    \/ \E u \in User : Withdraw(u)
    \/ Advance

Spec == Init /\ [][Next]_vars

-----------------------------------------------------------------------------
TypeOK ==
    /\ now \in 1..MaxTime
    /\ balances \in [Address -> Nat]
    /\ authorizations \in [Address -> SUBSET (TaskId \X AgentId)]
    /\ signed \subseteq [from : User, to : {Arena}, value : Nat, validAfter : {0},
                         validBefore : Nat, nonce : TaskId \X AgentId]
    /\ agents \in [AgentId -> User \cup {NoOne}]
    /\ feedback \in [AgentId -> Seq(Feedback)]
    /\ validations \in [TaskId \X Reasoning -> Request \cup {NoRequest}]
    /\ bonds \in [TaskId -> Bond \cup {NoBond}]
    /\ credits \in [User -> Nat]
    /\ tasks \in [TaskId -> Task \cup {Absent}]
    /\ nextTask \in 1..(MaxTask + 1)
    /\ raised \in 0..MaxRaised

\* What a live task holds in the arena.
Escrowed(id) ==
    IF tasks[id] = Absent THEN 0
    ELSE CASE tasks[id].status = "Open" -> tasks[id].bounty
           [] tasks[id].status \in Held -> Pot(id)
           [] OTHER -> 0

\* Whatever call raised half way before, the arena can refund every live task and
\* pay every credit, so no withdrawal ever raises and loses its credit
\* (arena.py:475-483).
ArenaSolvent ==
    balances[Arena] >= Total([id \in TaskId |-> Escrowed(id)], TaskId) + Total(credits, User)

OpenBond(id) == IF bonds[id] = NoBond \/ bonds[id].closed THEN 0 ELSE bonds[id].amount

-----------------------------------------------------------------------------
(* The contracts this object mirrors. *)

OfAgent(agent, bond) == bond # NoBond /\ bond.agentId = agent

\* stake_of and slashed_of add up the bonds on every call.
StakeOf(agent) ==
    LET own == {id \in TaskId : OfAgent(agent, bonds[id])}
    IN  Total([id \in own |-> OpenBond(id)], own)

SlashedOf(agent) ==
    LET slashed == {id \in TaskId : OfAgent(agent, bonds[id]) /\ bonds[id].slashed}
    IN  Total([id \in slashed |-> bonds[id].amount], slashed)

\* The mirror has no allowances and no operator switch: everybody approved
\* everything, and the arena may always use the vault.
Contracts == INSTANCE AgentArena WITH
    Approvals <- {}, InitialApproval <- MaxUint256, OperatorSettings <- {}, Requesters <- {},
    MaxUint64 <- MaxTime + CommitWindow + SettleWindow,
    balanceOf <- balances,
    allowance <- [o \in Address |-> [s \in Address |->
        IF o \in User /\ s \in {Arena, Vault} THEN MaxUint256 ELSE 0]],
    authorizationState <- authorizations,
    owners <- agents,
    isOperator <- [o \in {Arena} |-> TRUE],
    bonds <- [id \in TaskId |->
        IF bonds[id] = NoBond
        THEN [agentId |-> 0, depositor |-> NoOne, amount |-> 0, closed |-> FALSE]
        ELSE [agentId |-> bonds[id].agentId, depositor |-> bonds[id].depositor,
              amount |-> bonds[id].amount, closed |-> bonds[id].closed]],
    stakeOf <- [a \in AgentId |-> StakeOf(a)],
    slashedOf <- [a \in AgentId |-> SlashedOf(a)],
    validations <- [hash \in TaskId \X Reasoning |->
        IF validations[hash] = NoRequest
        THEN [validator |-> NoOne, agentId |-> 0, answered |-> FALSE, response |-> 0]
        ELSE [validator |-> Arena, agentId |-> validations[hash].agentId,
              answered |-> validations[hash].answered,
              response |-> validations[hash].response]],
    tasks <- [id \in TaskId |->
        IF tasks[id] = Absent
        THEN [poster |-> NoOne, bounty |-> 0, fee |-> 0, slashAmount |-> 0,
              truthCommit |-> "Junk", status |-> "Open", agentId |-> 0,
              resolver |-> NoOne, committed |-> "None", reasoningHash |-> NoReasoning,
              truth |-> "None", correct |-> FALSE,
              commitDeadline |-> 0, settleDeadline |-> 0]
        ELSE [tasks[id] EXCEPT !.correct = (@ = "True")]],
    nextTaskId <- nextTask

\* Every call that returns, and every call that raises before it writes, is a step
\* of the contracts (or mints, which the model of the contracts leaves out), whatever
\* was left behind by calls that raised half way: "it re-implements the state machine
\* of `AgentArena.sol`, `AgentStakeVault.sol` and the three ERC-8004 registries,
\* including the parts that can reject you" (arena.py:3-5).
MirrorsContracts ==
    /\ Contracts!Init
    /\ [][\/ raised' # raised
          \/ \E u \in User, v \in Mints : Mint(u, v)
          \/ Contracts!Next]_(Contracts!vars)
=============================================================================
