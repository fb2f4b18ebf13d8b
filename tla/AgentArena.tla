----------------------------- MODULE AgentArena -----------------------------
(***************************************************************************)
(* The task market (src/src/AgentArena.sol) composed with everything it     *)
(* calls: the fee token, the collateral vault and the three ERC-8004        *)
(* registries.  One transaction is one step: the whole handler, with every  *)
(* call it makes into another contract, happens or (on any revert) does     *)
(* not.  Accounts send transactions in any order; time passes in between.   *)
(***************************************************************************)
EXTENDS Integers, FiniteSets, Sequences, Totals

CONSTANTS
    User,             \* externally owned accounts: posters, resolvers, bystanders
    Arena, Vault,     \* the addresses of the two contracts that hold tokens
    NoOne,            \* the zero address
    Terms,            \* the [bounty, fee, slashAmount] a poster may offer
    Reasoning,        \* reasoning hashes
    NoReasoning,      \* bytes32(0)
    CommitWindow,     \* seconds from a claim to its commit deadline
    SettleWindow,     \* seconds from a commit to its reveal deadline
    PaymentTimeout,   \* seconds an x402 authorisation stays valid
    Funding,          \* User -> the tokens it starts with
    InitialApproval,  \* the allowance every user has granted both contracts at the start
    Approvals,        \* allowances users grant later
    OtherValues,      \* amounts a payer may sign for besides the task's fee
    OperatorSettings, \* what the vault's owner may set the arena's permission to
    AgentBuyers,      \* the users agent identities are transferred to
    Requesters,       \* the users who file validation requests of their own
    MaxUint256,       \* width of amounts
    MaxUint64,        \* width of deadlines
    MaxTask,          \* bound: tasks posted
    MaxAgent,         \* bound: agents registered
    MaxSigned         \* bound: authorisations signed

Address == User \cup {Arena, Vault}
TaskId == 1..MaxTask
AgentId == 1..MaxAgent
Amount == 0..MaxUint256

ASSUME ArenaAssumption ==
    /\ Arena # Vault /\ Arena \notin User /\ Vault \notin User
    /\ NoOne \notin Address /\ IsFiniteSet(User)
    /\ MaxUint256 \in Nat /\ MaxUint64 \in Nat
    /\ MaxTask \in Nat /\ MaxAgent \in Nat /\ MaxSigned \in Nat
    /\ Terms \subseteq [bounty : Amount, fee : Amount, slashAmount : Amount]
    /\ CommitWindow \in Nat \ {0} /\ SettleWindow \in Nat \ {0}
    /\ PaymentTimeout \in Nat
    /\ Funding \in [User -> Amount]
    /\ InitialApproval \in Amount /\ Approvals \subseteq Amount /\ OtherValues \subseteq Amount
    /\ OperatorSettings \subseteq BOOLEAN
    /\ AgentBuyers \subseteq User /\ Requesters \subseteq User
    /\ NoReasoning \notin Reasoning

VARIABLES
    now,                                      \* block.timestamp
    balanceOf, allowance, authorizationState, \* MockERC20
    signed,                                   \* authorisations signed off chain
    owners,                                   \* IdentityRegistry
    isOperator, bonds, stakeOf, slashedOf,    \* AgentStakeVault
    feedback,                                 \* ReputationRegistry: the arena's list per agent
    validations,                              \* ValidationRegistry
    tasks, nextTaskId, credits                \* AgentArena

tokenVars == <<balanceOf, allowance, authorizationState>>
vaultVars == <<isOperator, bonds, stakeOf, slashedOf>>
registryVars == <<feedback, validations>>
arenaVars == <<tasks, nextTaskId, credits>>
vars == <<now, tokenVars, signed, owners, vaultVars, registryVars, arenaVars>>

\* claimNonce(taskId, agentId), a hash over the arena, the chain and both ids.
ClaimNonce(id, agent) == <<id, agent>>

InitialBalance == [a \in Address |-> IF a \in User THEN Funding[a] ELSE 0]

\* The users' accounts are funded before the market opens; nobody mints later.
Token == INSTANCE MockERC20 WITH
    Nonce <- TaskId \X AgentId, Value <- {}, ValidityWindow <- PaymentTimeout,
    MaxTime <- MaxUint64 + 1, totalSupply <- Total(Funding, User)

\* bondKey(taskId) hashes the arena and the id, so a task's key is its id.
StakeVault == INSTANCE AgentStakeVault WITH
    Operator <- {Arena}, BondKey <- TaskId, InitialBalance <- InitialBalance

-----------------------------------------------------------------------------
(* Tasks. *)

Verdict == {"None", "Yes", "No"}
Answer == Verdict \ {"None"}
Status == {"Open", "Claimed", "Committed", "Settled", "Cancelled"}

\* What a truthCommit opens to.  keccak256 binds, so a commitment opens to one
\* answer, or (a hash of anything else, which postTask accepts) to none.
Commitment == Answer \cup {"Junk"}

Deadline == 0..MaxUint64

Task ==
    [poster : User, bounty : Amount, fee : Amount, slashAmount : Amount,
     truthCommit : Commitment, status : Status, agentId : {0} \cup AgentId,
     resolver : User \cup {NoOne}, committed : Verdict,
     reasoningHash : Reasoning \cup {NoReasoning}, truth : Verdict, correct : BOOLEAN,
     commitDeadline : Deadline, settleDeadline : Deadline]

\* A record never written: the mapping's default value.
NoTask ==
    [poster |-> NoOne, bounty |-> 0, fee |-> 0, slashAmount |-> 0,
     truthCommit |-> "Junk", status |-> "Open", agentId |-> 0,
     resolver |-> NoOne, committed |-> "None",
     reasoningHash |-> NoReasoning, truth |-> "None", correct |-> FALSE,
     commitDeadline |-> 0, settleDeadline |-> 0]

Known(id) == tasks[id].poster # NoOne

\* A status check that a settled task passes.
InOrSettled(id, status) == Known(id) /\ tasks[id].status \in {status, "Settled"}

\* A task some handler may act on, in the status it wants.
In(id, status) == Known(id) /\ tasks[id].status = status

\* uint64(block.timestamp) + window is checked arithmetic.  This is also what
\* keeps a deadline below the last instant of the bounded clock.
DeadlineFits(window) == now + window <= MaxUint64

\* The hash a task's reasoning is attested under.
ValidationHash(id, reasoning) == <<id, reasoning>>

Feedback == [score : {0, 100}, tag : {"correct", "wrong", "commit-timeout", "reveal-timeout"}]

Request ==
    [validator : Address, agentId : AgentId, answered : BOOLEAN, response : {0, 100}]
NoRequest == [validator |-> NoOne, agentId |-> 0, answered |-> FALSE, response |-> 0]

-----------------------------------------------------------------------------
(* How a claimed task ends, and what each ending pays. *)

Outcome(id, truth) == IF tasks[id].committed = truth THEN "correct" ELSE "wrong"

\* Holds a poster's silence against the resolver.
ScoreSilence(how) == IF how = "correct" THEN 100 ELSE 0

Score(how) == IF how \in {"correct", "reveal-timeout"} THEN 100 ELSE 0

\* What the claim leaves with the arena, without the resolver's part of it.
PotWithoutFee(id) == tasks[id].bounty

Pot(id) == tasks[id].fee + tasks[id].bounty

\* Slashed collateral that is credited to nobody.
PosterDueUnslashed(id, how) == IF how \in {"wrong", "commit-timeout"} THEN Pot(id) ELSE 0

\* A reveal timeout that refunds the poster as well as paying the resolver.
PosterDueTwice(id, how) ==
    (IF how # "correct" THEN Pot(id) ELSE 0) + (IF how = "wrong" THEN bonds[id].amount ELSE 0)

\* What each party is credited.  The pot goes to the side that did not fail; the
\* collateral the vault hands back is the resolver's unless its verdict was wrong.
PosterDue(id, how) ==
    (IF how \in {"wrong", "commit-timeout"} THEN Pot(id) ELSE 0)
        + (IF how = "wrong" THEN bonds[id].amount ELSE 0)

ResolverDue(id, how) ==
    (IF how \in {"correct", "reveal-timeout"} THEN Pot(id) ELSE 0)
        + (IF how # "wrong" THEN bonds[id].amount ELSE 0)

Credited(c, who, v) == [c EXCEPT ![who] = @ + v]

\* Credits both parties and leaves the arena's feedback about the agent.
Conclude(id, how) ==
    LET t == tasks[id]
    IN  /\ credits' = Credited(Credited(credits, t.poster, PosterDue(id, how)),
                               t.resolver, ResolverDue(id, how))
        /\ owners[t.agentId] # NoOne
        /\ feedback' = [feedback EXCEPT ![t.agentId] =
                            Append(@, [score |-> Score(how), tag |-> how])]

-----------------------------------------------------------------------------
(* Posting and cancelling. *)

PostTask(caller, terms, commitment) ==
    /\ nextTaskId <= MaxTask
    /\ Token!Allows(allowance, caller, Arena, terms.bounty)
    /\ Token!Covers(balanceOf, caller, terms.bounty)
    /\ allowance' = Token!Spent(allowance, caller, Arena, terms.bounty)
    /\ balanceOf' = Token!Moved(balanceOf, caller, Arena, terms.bounty)
    /\ nextTaskId' = nextTaskId + 1
    /\ tasks' = [tasks EXCEPT ![nextTaskId] =
           [NoTask EXCEPT !.poster = caller, !.bounty = terms.bounty, !.fee = terms.fee,
                          !.slashAmount = terms.slashAmount, !.truthCommit = commitment,
                          !.status = "Open"]]
    /\ UNCHANGED <<now, authorizationState, signed, owners, vaultVars, registryVars, credits>>

CancelTask(caller, id) ==
    /\ In(id, "Open")
    /\ caller = tasks[id].poster
    /\ tasks' = [tasks EXCEPT ![id].status = "Cancelled"]
    /\ credits' = Credited(credits, caller, tasks[id].bounty)
    /\ UNCHANGED <<now, tokenVars, signed, owners, vaultVars, registryVars, nextTaskId>>

-----------------------------------------------------------------------------
(* The x402 claim. *)

\* Off chain, a payer answers the gate's 402 challenge for (task, agent) by signing
\* an authorisation to the arena (src/priceright/x402.py).  From here on anybody
\* may submit it.  Bounds: MaxSigned, and a payer names one amount per nonce.
SignPayment(payer, id, agent, value) ==
    /\ Known(id)
    /\ Cardinality(signed) < MaxSigned
    /\ \A s \in signed :
           s.from = payer /\ s.nonce = ClaimNonce(id, agent) => s.value = value
    /\ Token!Sign(payer, Arena, value, ClaimNonce(id, agent))
    /\ UNCHANGED <<owners, vaultVars, registryVars, arenaVars>>

\* A payment record nobody signed: the arena reads its fields all the same, and
\* when the fee is zero it never asks the token about the signature.
Unsigned(caller, id, agent) ==
    [from |-> caller, to |-> Arena, value |-> 0, validAfter |-> 0,
     validBefore |-> 0, nonce |-> ClaimNonce(id, agent)]

\* Accepts an authorisation signed for another task or agent.
PaymentUnbound(caller, id, agent, payment) ==
    payment.from = caller /\ payment.value = tasks[id].fee

\* The terms claimTask checks before it touches the token.
PaymentMatches(caller, id, agent, payment) ==
    /\ payment.from = caller
    /\ payment.value = tasks[id].fee
    /\ payment.nonce = ClaimNonce(id, agent)

\* The balances once the token has moved the payment; a free task never asks it.
Charged(id, payment) ==
    IF tasks[id].fee > 0
    THEN Token!Moved(balanceOf, payment.from, Arena, payment.value)
    ELSE balanceOf

\* The token takes the signature for it, and the arena checks what it received.
FeePaid(id, payment) ==
    IF tasks[id].fee > 0
    THEN /\ Token!Authorized(payment)
         /\ Token!Covers(balanceOf, payment.from, payment.value)
         /\ Charged(id, payment)[Arena] = balanceOf[Arena] + tasks[id].fee
         /\ authorizationState' = Token!Used(payment)
    ELSE UNCHANGED authorizationState

ClaimTask(caller, id, agent, payment) ==
    /\ In(id, "Open")
    /\ owners[agent] = caller
    /\ PaymentMatches(caller, id, agent, payment)
    /\ FeePaid(id, payment)
    /\ DeadlineFits(CommitWindow)
    /\ tasks' = [tasks EXCEPT
           ![id].status = "Claimed", ![id].agentId = agent, ![id].resolver = caller,
           ![id].commitDeadline = now + CommitWindow]
    /\ StakeVault!BondFor(Arena, id, agent, caller, tasks[id].slashAmount,
                          Charged(id, payment))
    /\ UNCHANGED <<now, signed, owners, registryVars, nextTaskId, credits>>

\* Anyone submits a signed authorisation straight to the token, past the arena.
SubmitAuthorization(auth) ==
    /\ Token!TransferWithAuthorization(auth)
    /\ UNCHANGED <<owners, vaultVars, registryVars, arenaVars>>

-----------------------------------------------------------------------------
(* Commit, settle, and the two timeouts. *)

\* Leaves the deadline to the timeouts.
MayCommitLate(id) == TRUE

\* The resolver may commit up to and including the deadline.
MayCommit(id) == now <= tasks[id].commitDeadline

CommitVerdict(caller, id, verdict, reasoning) ==
    /\ In(id, "Claimed")
    /\ caller = tasks[id].resolver
    /\ MayCommit(id)
    /\ DeadlineFits(SettleWindow)
    /\ tasks' = [tasks EXCEPT
           ![id].committed = verdict, ![id].reasoningHash = reasoning,
           ![id].status = "Committed", ![id].settleDeadline = now + SettleWindow]
    /\ owners[tasks[id].agentId] # NoOne
    /\ validations[ValidationHash(id, reasoning)] = NoRequest
    /\ validations' = [validations EXCEPT ![ValidationHash(id, reasoning)] =
           [validator |-> Arena, agentId |-> tasks[id].agentId,
            answered |-> FALSE, response |-> 0]]
    /\ UNCHANGED <<now, tokenVars, signed, owners, vaultVars, feedback, nextTaskId, credits>>

\* Takes the poster's word for the truth.
OpensAnything(id, truth) == TRUE

\* The reveal opens the commitment made when the task was posted.
Opens(id, truth) == tasks[id].truthCommit = truth

\* A response that leaves the request open.
RespondUnmarked(id, response) ==
    LET hash == ValidationHash(id, tasks[id].reasoningHash)
        request == validations[hash]
    IN  /\ request.validator = Arena
        /\ ~request.answered
        /\ validations' = [validations EXCEPT ![hash].response = response]

\* The arena answers its own request for the committed reasoning.
Respond(id, response) ==
    LET hash == ValidationHash(id, tasks[id].reasoningHash)
        request == validations[hash]
    IN  /\ request.validator = Arena
        /\ ~request.answered
        /\ validations' = [validations EXCEPT ![hash] =
               [request EXCEPT !.answered = TRUE, !.response = response]]

Settle(caller, id, truth) ==
    LET how == Outcome(id, truth)
    IN  /\ In(id, "Committed")
        /\ caller = tasks[id].poster
        /\ now <= tasks[id].settleDeadline
        /\ Opens(id, truth)
        /\ tasks' = [tasks EXCEPT
               ![id].truth = truth, ![id].correct = (how = "correct"),
               ![id].status = "Settled"]
        /\ \/ how = "correct" /\ StakeVault!Release(Arena, id, Arena)
           \/ how = "wrong" /\ StakeVault!Slash(Arena, id, Arena)
        /\ Conclude(id, how)
        /\ Respond(id, Score(how))
        /\ UNCHANGED <<now, authorizationState, signed, owners, nextTaskId>>

\* A timeout that wants the agent's owner of today to be the resolver of the claim.
TimeOutForOwner(id, status, how) ==
    /\ In(id, status)
    /\ owners[tasks[id].agentId] = tasks[id].resolver
    /\ tasks' = [tasks EXCEPT ![id].status = "Settled"]
    /\ StakeVault!Release(Arena, id, Arena)
    /\ Conclude(id, how)
    /\ UNCHANGED <<now, authorizationState, signed, owners, validations, nextTaskId>>

\* Anyone may close a task whose party let its deadline pass: the collateral is
\* released, and the validation request of a commit stays unanswered.
TimeOut(id, status, how) ==
    /\ In(id, status)
    /\ tasks' = [tasks EXCEPT ![id].status = "Settled"]
    /\ StakeVault!Release(Arena, id, Arena)
    /\ Conclude(id, how)
    /\ UNCHANGED <<now, authorizationState, signed, owners, validations, nextTaskId>>

TimeoutCommit(id) ==
    now > tasks[id].commitDeadline /\ TimeOut(id, "Claimed", "commit-timeout")

TimeoutSettle(id) ==
    now > tasks[id].settleDeadline /\ TimeOut(id, "Committed", "reveal-timeout")

Withdraw(caller) ==
    /\ credits[caller] > 0
    /\ Token!Covers(balanceOf, Arena, credits[caller])
    /\ credits' = [credits EXCEPT ![caller] = 0]
    /\ balanceOf' = Token!Moved(balanceOf, Arena, caller, credits[caller])
    /\ UNCHANGED <<now, allowance, authorizationState, signed, owners, vaultVars,
                   registryVars, tasks, nextTaskId>>

-----------------------------------------------------------------------------
(* What else happens to the contracts the arena relies on. *)

Approve(owner, spender, v) ==
    /\ Token!Approve(owner, spender, v)
    /\ UNCHANGED <<owners, vaultVars, registryVars, arenaVars>>

\* agentId = ++totalAgents, so ids are handed out in order.
RegisterAgent(caller, agent) ==
    /\ owners[agent] = NoOne
    /\ \A a \in 1..(agent - 1) : owners[a] # NoOne
    /\ owners' = [owners EXCEPT ![agent] = caller]
    /\ UNCHANGED <<now, tokenVars, signed, vaultVars, registryVars, arenaVars>>

\* The owner, or an account it approved, hands the identity on.
TransferAgent(agent, to) ==
    /\ owners[agent] # NoOne
    /\ owners' = [owners EXCEPT ![agent] = to]
    /\ UNCHANGED <<now, tokenVars, signed, vaultVars, registryVars, arenaVars>>

\* Anyone may file a request of their own, under any hash nobody used yet.
RequestValidation(validator, agent, hash) ==
    /\ owners[agent] # NoOne
    /\ validations[hash] = NoRequest
    /\ validations' = [validations EXCEPT ![hash] =
           [validator |-> validator, agentId |-> agent, answered |-> FALSE, response |-> 0]]
    /\ UNCHANGED <<now, tokenVars, signed, owners, vaultVars, feedback, arenaVars>>

\* The vault's owner grants or withdraws the arena's permission.
SetOperator(allowed) ==
    /\ StakeVault!SetOperator(Arena, allowed)
    /\ UNCHANGED <<now, authorizationState, signed, registryVars, arenaVars>>

\* One instant beyond the largest deadline, so that every deadline can pass.
Tick ==
    /\ now <= MaxUint64
    /\ now' = now + 1
    /\ UNCHANGED <<tokenVars, signed, owners, vaultVars, registryVars, arenaVars>>

-----------------------------------------------------------------------------
\* The deployment script ends with setOperator(arena, true) (scripts/devnet.sh:73).
Init ==
    /\ now = 1
    /\ balanceOf = InitialBalance
    /\ allowance = [o \in Address |-> [s \in Address |->
           IF o \in User /\ s \in {Arena, Vault} THEN InitialApproval ELSE 0]]
    /\ authorizationState = [a \in Address |-> {}]
    /\ signed = {}
    /\ owners = [a \in AgentId |-> NoOne]
    /\ isOperator = [o \in {Arena} |-> TRUE]
    /\ bonds = [id \in TaskId |-> StakeVault!NoBond]
    /\ stakeOf = [a \in AgentId |-> 0]
    /\ slashedOf = [a \in AgentId |-> 0]
    /\ feedback = [a \in AgentId |-> <<>>]
    /\ validations = [hash \in TaskId \X Reasoning |-> NoRequest]
    /\ tasks = [id \in TaskId |-> NoTask]
    /\ nextTaskId = 1
    /\ credits = [u \in User |-> 0]

\* Every payment record a claim can carry.
Payments(caller, id, agent) == signed \cup {Unsigned(caller, id, agent)}

Next ==
    \/ \E u \in User, terms \in Terms, c \in Commitment : PostTask(u, terms, c)
    \/ \E u \in User, id \in TaskId : CancelTask(u, id)
    \/ \E u \in User, id \in TaskId, a \in AgentId :
           \E v \in {tasks[id].fee} \cup OtherValues : SignPayment(u, id, a, v)
    \/ \E u \in User, id \in TaskId, a \in AgentId :
           \E p \in Payments(u, id, a) : ClaimTask(u, id, a, p)
    \/ \E auth \in signed : SubmitAuthorization(auth)
    \/ \E u \in User, id \in TaskId, v \in Answer, r \in Reasoning : CommitVerdict(u, id, v, r)
    \/ \E u \in User, id \in TaskId, v \in Answer : Settle(u, id, v)
    \/ \E id \in TaskId : TimeoutCommit(id)
    \/ \E id \in TaskId : TimeoutSettle(id)
    \/ \E u \in User : Withdraw(u)
    \/ \E u \in User, s \in {Arena, Vault}, v \in Approvals : Approve(u, s, v)
    \/ \E u \in User, a \in AgentId : RegisterAgent(u, a)
    \/ \E a \in AgentId, u \in AgentBuyers : TransferAgent(a, u)
    \/ \E u \in Requesters, a \in AgentId, hash \in TaskId \X Reasoning :
           \E v \in {u, Arena} : RequestValidation(v, a, hash)
    \/ \E b \in OperatorSettings : SetOperator(b)
    \/ Tick

Spec == Init /\ [][Next]_vars

-----------------------------------------------------------------------------
TypeOK ==
    /\ now \in 1..(MaxUint64 + 1)
    /\ balanceOf \in [Address -> Nat]
    /\ allowance \in [Address -> [Address -> Nat]]
    /\ authorizationState \in [Address -> SUBSET (TaskId \X AgentId)]
    /\ signed \subseteq Token!Authorization
    /\ owners \in [AgentId -> User \cup {NoOne}]
    /\ isOperator \in [{Arena} -> BOOLEAN]
    /\ bonds \in [TaskId -> StakeVault!Bond \cup {StakeVault!NoBond}]
    /\ stakeOf \in [AgentId -> Nat]
    /\ slashedOf \in [AgentId -> Nat]
    /\ feedback \in [AgentId -> Seq(Feedback)]
    /\ validations \in [TaskId \X Reasoning -> Request \cup {NoRequest}]
    /\ tasks \in [TaskId -> Task \cup {NoTask}]
    /\ nextTaskId \in 1..(MaxTask + 1)
    /\ credits \in [User -> Nat]
=============================================================================
