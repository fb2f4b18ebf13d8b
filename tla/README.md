# PriceRight, specified

TLA+ specifications of [PriceRight](../src/README.md), an x402-settled task
market: a poster opens a task with a sealed answer, a resolver agent pays a fee
and bonds collateral to claim it, commits a verdict, and the contracts settle by
comparing the verdict with the revealed answer. TLC checks the specifications on
small instances; TLAPS proves part of them for every instance.

Paths below are relative to the repository (`src/` of this project); line numbers
are those of the commit the specifications were written from.

## 1. Inventory

### Contracts

| Component | State | Operations | Called by |
|---|---|---|---|
| `src/mocks/MockERC20.sol` | `balanceOf`, `allowance`, `authorizationState`, `totalSupply` | `mint`, `approve`, `transfer`, `transferFrom`, `transferWithAuthorization` | arena, vault, anybody |
| `src/AgentStakeVault.sol` | `isOperator`, `_bonds`, `_stakeOf`, `_slashedOf` | `setOperator` (owner), `bondFor`, `release`, `slash` (operators) | arena |
| `src/AgentArena.sol` | `_tasks`, `nextTaskId`, `credits` | `postTask`, `cancelTask`, `claimTask`, `commitVerdict`, `settle`, `timeoutCommit`, `timeoutSettle`, `withdraw` | posters, resolvers, anybody (timeouts) |
| `src/erc8004/IdentityRegistry.sol` | owners, approvals, operators, URIs, metadata, `totalAgents` | `register`, `transferFrom`, `approve`, `setApprovalForAll`, setters | agents; read by arena, vault, registries |
| `src/erc8004/ReputationRegistry.sol` | feedback per agent and client, clients per agent | `giveFeedback`, `revokeFeedback`, `getSummary` | arena, any client |
| `src/erc8004/ValidationRegistry.sol` | `_requests` | `validationRequest`, `validationResponse` | arena, any validator |

One transaction is atomic: a handler runs with every call it makes, or reverts and
changes nothing. What is hard is the *order* of transactions, which nobody
controls, and the deadlines between them:

* two resolvers race for one task; a claim races a cancellation;
* a signed payment is public, so anybody may submit it, early, late or instead of
  the claim it was signed for;
* an agent identity is sold between claim and settlement;
* others file validation requests around the arena's own;
* the vault's owner changes the arena's permission under open bonds;
* a party goes silent and its deadline passes, at one instant for it and its rival.

A market that is correct never creates or loses a token (`SupplyConserved`,
`EscrowBalances`), charges a signature once (`NoncePaidOnce`), pays every user
exactly the outcome of its tasks (`WealthFollowsOutcomes`), holds a bond exactly
as long as a task is claimed (`CollateralFollowsTask`, `VaultCustody`), slashes
only by an opened truth (`SlashNeedsOpenedTruth`), writes one true public record
per ending (`RecordFollowsOutcomes`, `AttestationFollowsReveal`), and always ends
(`EscrowResolves`, `CreditsArePaid`).

### Off-chain Python

| Component | State | Operations | What is hard |
|---|---|---|---|
| `priceright/arena.py` `InMemoryChain` | dictionaries mirroring the contracts, `now`, a log | the contracts' calls, `advance` | a call is *not* atomic: an exception leaves the writes made before it (`claim_task` pays at 356, bonds at 361) |
| `priceright/x402.py` `X402Client`, facilitators, `ClaimGate` | keys; none between requests | `pay`, `verify`, `settle`, `challenge`, `grant` | a verdict of `verify` is stale when `settle` submits; a remote facilitator answers late |
| `priceright/rpc.py` `JsonRpcChain` | keys, sealed truths by task id | reads, `_send`, `_await_receipt` | the task id is predicted before the transaction; nonces are read, then used; a receipt may come after the timeout |
| `priceright/agent.py` `Poster`, `ResolverAgent` | sealed truths; a run journal | `post`, `settle`, `play` | a failure between claim and commit |
| `priceright/policy.py` | none | `decide` | boundaries: freshness, ties, the median of an even number |
| `agent_core/guardrails.py` `ActionLimiter` | recent actions, per-run counts | `check`, `reset_cycle` | threads that read the clock before they take the lock, two caps, an eviction |
| `agent_core/state.py` `StateStore` | run documents | `create`, `start_run`, `update`, `append`, `set_data`, `detect_recurrence` | concurrent read-modify-write, crashes, a fallback to memory, read-then-write recurrence |
| `agent_core/router.py`, `sinks.py` | a notifier's bound run | `route`, `send_alert`, `open_ticket` | sequential fan-out, partial failure, answers that are lost |
| `priceright/config.py`, `agent_core/config.py` | the environment | `make_chain`, `make_facilitator`, `StateStore.create` | combinations of variables nobody tried |
| `priceright/secp256k1.py`, `hashing.py` | none | recover, sign, keccak | rare branches: a large abscissa, the upper s, a zero |
| command line, recording, demo, MCP, UI, deck, paper, build output | none of their own | – | – |

What makes them correct: the mirror agrees with the contracts it stands for
(`MirrorsContracts`) and covers what it owes whatever raised (`ArenaSolvent`);
nothing is sold past a verification that was not a yes, or that nobody signed for
(`FailsClosed`, `SoldAsSigned`), and the journal does not run ahead of the chain
(`JournalTruthful`, `FailureIsFree`); a receipt or an id is that of the caller's own
transaction (`ReturnsAreTrue`); the caps hold for threads in any order (`CapsHold`,
`RefusalsEarned`, `TableBounded`); what the
journal acknowledged stays, or was said not to be durable (`NothingLost`,
`JournalKept`, `DurabilityNeverSilent`, `RecurrenceNoticed`); the majority of the
readings about a claim decides it (`VerdictsEarned`, `OtherLinesIgnored`); a process runs on what its
operator asked for (`SettingsObeyed`); a routing record says what
happened (`RecordIsTrue`); a signature gives its signer back (`RecoveryAgrees`); and
whatever was begun ends (`AllEnd`).

`PROJECT.json` lists the same components with their status, and every hazard with
its line and the properties that watch it.

## 2. Modules

```
Totals <-- TotalTheorems                sums of amounts, and their laws

MockERC20 <--- AgentStakeVault          (ledger operators)
    ^               ^
    +---- AgentArena-+   EXTENDS Totals; INSTANCEs both over one state
              ^
      AgentArenaProperties  --- Promise == INSTANCE TaskEscrow (abstract)
        ^             ^
  MCAgentArena   AgentArenaProofs
        ^
   MCArenaTask

MockERC20       <-- MockERC20Properties       <-- MCMockERC20, MockERC20Proofs
AgentStakeVault <-- AgentStakeVaultProperties <-- MCAgentStakeVault, AgentStakeVaultProofs

InMemoryChain  EXTENDS Totals;  Contracts == INSTANCE AgentArena (refinement)
    ^        ^            ^
ResolverRun  MCInMemoryChain  InMemoryChainProofs
    ^                                  ^
Conversations <--- ConversationsProofs-+     INSTANCEs JsonRpcChain, IncidentRouting
    ^
MCConversations                              INSTANCEs Secp256k1

StateStore  --- Journal == INSTANCE RunJournal (abstract)
    ^      ^
    |      +--- StateStoreProofs
AgentCore <---- AgentCoreProofs              INSTANCEs ActionLimiter, EvidencePolicy, Deployment
    ^
MCAgentCore                                  INSTANCEs StateStore (3 times)

MCJsonRpcChain   EXTENDS JsonRpcChain
```

### Totals – sums

An amount is a number of unit tokens, so a sum of amounts is how many unit tokens
there are: `Total(f, S)` is the cardinality of the pairs of a member of `S` and a number up
to its amount. It needs no recursion, TLC counts it, and its laws (`TotalTheorems`) are
provable from those of `Cardinality`. `NetTotal` adds amounts of either sign.

### MockERC20 – the fee token

State is the contract's, plus `signed` (the authorisations payers ever signed: a
signature recovers to its signer and to nobody else, so possession of one is
membership in this set) and `now` (`block.timestamp`). Each external call is an
action; each `require` and revert is a conjunct. The effects of a call on the
ledger are operators (`Moved`, `Spent`, `Used`), because the escrow performs
several token calls in one transaction. A transfer debits before it reads the
credit (line 107–113), so paying oneself changes nothing. `Sign` is
`X402Client.pay`: always `validAfter = 0`, `validBefore = now + timeout`.

### AgentStakeVault – the collateral

`SetOperator`, `BondFor`, `Release`, `Slash`, and the token and identity calls
that surround them (`ApproveVault`, `RegisterAgent`). `BondFor` takes the ledger
as an argument: when the arena calls it, the token has already moved the fee in
the same transaction. `Release` and `Slash` share `PayOut`, as the code shares
`_closeBond`; the subtraction in it is checked arithmetic, hence a guard.

### AgentArena – the market

All three contracts and the parts of the registries the market touches, over one
state, one transaction per step.

| Code | Model |
|---|---|
| `postTask` | `PostTask`: pulls the bounty by allowance, writes the record |
| `cancelTask` | `CancelTask` |
| `claimTask` | `ClaimTask`: owner check, payment binding, token call and balance check (`FeePaid`), deadline, bond |
| `commitVerdict` | `CommitVerdict`, with the validation request it files |
| `settle` | `Settle`: release or slash, credits, feedback, validation response |
| `timeoutCommit`, `timeoutSettle` | `TimeoutCommit`, `TimeoutSettle` over a common `TimeOut` |
| `withdraw` | `Withdraw` |
| `X402Client.pay`, token submitted directly | `SignPayment`, `SubmitAuthorization` |
| token, identity, validation and vault calls of others | `Approve`, `RegisterAgent`, `TransferAgent`, `RequestValidation`, `SetOperator` |
| time | `Tick` |

`how` names the ending of a claimed task (`correct`, `wrong`, `commit-timeout`,
`reveal-timeout`); `PosterDue`, `ResolverDue` and `Score` say what each pays.
Collateral is handed from the vault to the arena and credited there, as in the
code. A task no one posted is the mapping's default record, `NoTask`.

Abstractions, with what they assume:

* `keccak256` binds: a `truthCommit` opens to one answer or (a hash of anything
  else, which `postTask` accepts) to none; nonces, bond keys and request hashes
  are the tuples they are hashes of.
* A payment names one amount per payer, task and agent (`SignPayment`), the
  client's own habit; the token alone is also checked without that bound.
* Amounts stay below 2^256: nothing mints after the start, and what the code
  adds up is backed by tokens; only the cumulative `_slashedOf` can exceed the
  supply, by slashing the same tokens again and again. `uint64` deadlines revert on overflow
  (`DeadlineFits`); a chain clock beyond 2^64 is not considered.
* The registries show the arena only `ownerOf`, `exists`, the arena's own feedback
  list and requests. Feedback by others lives under other clients' keys; a
  response by another validator concerns requests the arena does not answer.
  A validator field naming the arena on somebody else's request *is* included.
* Initially users are funded and have granted both contracts an allowance, and the
  vault allows the arena (`scripts/devnet.sh:73`). Users' other dealings in the
  token are left out of the composition; they are in the token's own run.
* `release` and `slash` to the zero address, `requestedAt` and the events are left
  out: the arena never passes the former and no contract reads the latter.

### TaskEscrow – the promise

What a user is told, without contracts, clock or x402: a poster locks a bounty, at
most one resolver adds a fee and a stake, and the pot is paid out whole and once,
to those two, in one of three ways; otherwise a user only loses what it signed
away. `AgentArenaProperties!Promise` maps the market onto it: the phase is the
task's status, the pot is the escrow in the arena plus the open bond in the vault,
a user's wealth is its balance plus its credits.

### InMemoryChain – the mirror

The contracts again, as one Python object. A handler is not a transaction: an
exception leaves what was written before it. So a check that precedes the first
write disables the action, and a transfer that can fail after one splits the
action in two: the call that returns and the call that raises half done, which
`raised` counts (`PostTask` burns an id, `ClaimTask` has paid the fee and marked
the task when the collateral is short, as `claim_task` does at 351–361).
`ClaimTask` does not look at a payment's signature when the fee is zero, as the
code does not. `Contracts` maps the dictionaries onto the variables of
`AgentArena` (`MirrorsContracts`): every call that does not raise half way is a
step of the contracts, also in states earlier half-done calls left behind.
Events, transaction hashes and the numbers a `Settlement` reports are left out.
`Mint` is the mirror's own: the contracts' model mints before it starts.

### ResolverRun – agents at the claim gate

EXTENDS the mirror with one `ResolverAgent` per session. Each call an agent makes
to the chain or to a remote facilitator is a step; the market (`Market`) and the
two clocks go on in between.

| Code | Model |
|---|---|
| `ResolverAgent.__init__` | `Enlist` |
| `play`: `start_run`, the limiter, the policy | `Begin` (each answer is possible; `ActionLimiter` and `EvidencePolicy` say which) |
| `ClaimGate.challenge`, `X402Client.pay` | `Pay` |
| a client with an old or a forged header | `Replay` |
| `grant`, `verify` of either facilitator | `Verify`, once per element of `Verifications`: `LocalVerify`, or anything for a remote one (`Verdict` is what `_post` makes of it) |
| `settle` and the chain's `claim_task` | `Submit` |
| whoever holds a header and submits it to the token | `Broadcast` |
| the journal's claim, the commit | `NotePaid`, `Commit` |
| a read or a send the node fails | `NodeFails`, before or after it took effect |

`setup` is what a deployment fixes and no step changes: the key of each session (two may
share one), the sessions that only replay, whether the facilitator is remote. It is
chosen at the start from `Setups`.

A header can be spent past the gate: `transferWithAuthorization` takes it from anybody,
so a remote facilitator that is sent one may submit it and answer no
(`x402.py:365-372`). `Broadcast` is that step, at any time and for any signed header, and
`broadcast` remembers it. The gate cannot prevent it, so `FailsClosed` and `FailureIsFree`
say what it can do: a session that was refused, or that failed, has no task, and its
authorisation is unused unless it was broadcast (`Untouched`, `Leaked`). The mirror's token
has no such call, so `Broadcast` belongs to deployments with `MaxRaised = 0`.

With `MaxRaised = 0` the chain under the agents is the contracts'; a claim that
cannot be paid in full is then refused whole. A header is its authorisation, a
signature is one the payer made or not; EIP-712, base64 and JSON are left out, and
so are the event callbacks. `wall` is the facilitator's clock, `now` the chain's.

### JsonRpcChain – the adapter and a node

A sending call is `Look` (the `eth_call` that foresees an id, or the stake read),
`CountTransactions`, `EstimateGas`, `SendRaw`, `AwaitReceipt`, and for a post or a settlement
`ReadBack`, the reads it makes after its transaction succeeded: if one of them fails, the call
raises although it took effect (`"unread"`), and a post has filed its secret by then
(`rpc.py:308-309`). Calls of several processes and accounts interleave, or wait for one another in a process (`Serial`). The node
mines in nonce order, drops, replaces a pending transaction with an equal nonce, and
loses answers. `MaxTries` bounds the polls of each call. Of the contracts it keeps ids,
the life of a task and stakes.
`approve`, `mint`, `withdraw` and the timeouts are the same single send as `commit`.
ABI encoding and decoding of reads and logs are left out. That a foreseen id is the one
that came is claimed for an `Orderly` history only: one process, one call at a time, each
answered. `rpc_two_posters` shows what happens otherwise.

### ActionLimiter – two caps

`ReadClock` is `check` up to the lock, `Check` what it does under it (`_evict`,
`Decide`), `ResetCycle` the reset. The dictionary's order decides between equally
old ids, so `Survivors` is a set of possible outcomes. `log` is history: which
actions were allowed, and when they really were. A thread waits for the lock no
longer than `MaxLag`, and the caps are stated up to that. `limits` is the policy the
limiter is made with, chosen at the start. A stamp in `recent` carries the number of its
action, because the code's list may hold two equal ones. Whether a run's cap holds for a
counter that may be evicted depends on the policy: `CycleCap` is claimed where the ceiling
leaves room for two hours' actions and a counter lives no longer than two (`Roomy`).
With the code's defaults, 20 actions an hour under a ceiling of 1024 ids (186, 205), it
does.

### StateStore and RunJournal – the journal of runs

Every process makes a store over its own memory or a shared backend (`Create`, with
the fallback `ping` decides); a mutation is a transaction on Firestore
(read, then commit or retry), a read-modify-write under `_fallback_lock` on a
backend without `mutate` (`ReadForMutation`, `WriteBack`), one step in memory
(`MutateInMemory`); `Detect` looks for earlier runs and then records (`Find`). Processes
crash and restart, the backend goes away and returns. A caller may use any run id it was
ever handed, on whatever store it has now: where the run has no document the mutation
returns like any other and writes nothing (`Miss`). So `NothingLost` speaks of calls on the
backend the run was begun on (`keptOn`), where its document must be; the silent returns
elsewhere are `DurabilityNeverSilent`'s, which says of which stores and runs they can be.
A document keeps what the properties tell apart. `RunJournal` is the promise: a run gains
entries one at a time and loses none; the shared documents implement it
(`JournalKept`). Timestamps, listing and the free-form payload are left out.

### IncidentRouting – router, handlers, notifier

`BindRun`, `Route` (`Classify` over the signals and the precedence), then a route's
handlers one by one: the guard (`Ask`), `Send` or `FireApp`, the outcome (delivered, refused, an answer that is
lost), and the record's fields as the code fills them. Handlers of the app may raise in
`execute`, which the loop catches, and in what is outside its `try` (`Break`): a
`can_handle` that raises or a result that is no dict ends the whole route without a record
(`router.py:290, 302`). A destination's answer carries what identifiers it likes; for GitHub
the sink reports an id all the same (`MadeUp`).
The text of an incident is the set of patterns it matches; request bodies and the
best-effort recorder are left out. The hour's budget (`HourSpent`) is the sum of what the
runs were charged, since no incident waits for the next hour.

### EvidencePolicy – the verdict

Both policies as functions of a text and a bundle of lines; a line is what the
parsers find in it, in order. Numbers are doubled, so that the mean of the two
middle readings is an integer. `AddLine` grows the bundle, so that properties may
speak of what one more line does.

### Deployment – what a process runs on

An operator sets variables in any order, then starts the process: the settings
(`EnvBool`, `Prefixed`: an empty variable counts as set for the one and not for the
other), the chain, the facilitator and the journal chosen from them. Whether node
and Firestore answer is theirs.

### Secp256k1 – signing and recovery

The curve's group as functions on a small curve y² = x³ + 7, and on it the code's
`sign` (one nonce after the other, the lower s, the parity in v) and `recover` (its
rejections and its arithmetic). The run has P = 43 and N = 31 with N < P, as for the
code's curve, so abscissas beyond the order occur, which no test can reach. keccak,
the HMAC behind the nonces and checksums are left out: any nonce may come up.

### AgentCore and Conversations – side by side

The Python components keep separate state. `AgentCore` puts the ones that ask nobody
(journal, limiter, policy, settings) over one state and `Conversations` the ones that talk
to something that may not answer (runs, adapter, router): the specification is the
conjunction of the parts' own, and the properties are named for the whole, with their
conjuncts in the parts' modules. Runs and proofs are about these modules; there are no
actions of theirs to model.

## 3. Model checking

| Run | Instance | What it shows |
|---|---|---|
| `token` | 2 accounts, amounts 1–2, width 3, 1 nonce, 2 signatures | supply conservation through self-transfers and infinite allowances; a nonce is charged once |
| `vault` | 2 bonds, 2 agents, one operator allowed and disallowed at will | custody is exactly the open bonds; the counters agree; closed bonds are final |
| `arena_one_task` | 1 task, 2 users, zero and non-zero terms, sold agents, a vault owner who changes his mind; either allowances that run out and are renewed, or 2 reasonings and foreign requests | bonds follow the task, attestations, finality, deadlines, and slashing only by an opened truth |
| `arena_race` | 1 task, 2 agents, 2 signatures, right and wrong amounts | each user's wealth is what the task's ending says, whoever won the race |
| `arena_two_tasks` | 2 tasks, 2 signatures | the arena's balance to the token; the public record per ending; the market implements `TaskEscrow` |
| `arena_liveness` | 1 task, sold agents, permission withdrawn and restored, fair | a claimed task ends and its credits are paid |
| `mirror` | 2 tasks with purses that may cover the bounty and not the collateral, up to 2 half-done calls, a mint; or 1 task, free or not, with wrong amounts and sold agents | what is owed is covered; agreement with the contracts |
| `agent_core` | six parts, see below | limiter, journal, verdict and settings |
| `conversations` | nine parts, see below | gate, adapter, router and signer against everything they may be answered; all of it ends |
| `arena_withholding`, `arena_stray`, `rpc_two_posters` | 1 task; 2 posts | three statements of the sources the code does not keep (section 5) |

**Runs of several parts.** Components that share no state are checked in one run:
`part` (or `market`) is chosen at the start and never changes, and a behaviour takes
only steps of its part; the variables of the others stay as they begin. The parts of a run
are one instance, with the same constants and the definitions the proofs are about, so the
properties need not name a part; only the journal is instantiated three times, once for
each way it is deployed. A property that is a conjunction (`CapsHold`, `VerdictsEarned`,
`SettingsObeyed`, `ReturnsAreTrue`, `RecordIsTrue`, `RecoveryAgrees`) has its named
conjuncts in the components' modules, with the lines they are about. Nothing is lost by
it, since a behaviour of one part is a behaviour of the component alone; fairness is
conditional on the part, so that it neither forces another part's steps nor excuses its own.

* `agent_core`: *limiter* (2 threads, up to 3 runs; 2 actions an hour and 1 a run; an
  hourly cap above the ceiling; a dry run), *shared*, *fallback*, *recurrence* (2
  processes on Firestore or memory, 2 threads over a backend without `mutate`, 3 runs
  with one signature over 3 days; calls also with the run ids of a store that is gone; 3 mutations, crashes and outages), *policy* (each
  comparison with and without a block; bundles of up to 4 lines on both sides of the
  threshold, on it, and about something else), *settings* (every subset of the seven
  texts and every value of the four switches).
* `conversations`: *gate* (2 agents of one key, a remote facilitator that says
  anything, headers submitted past the gate or a failing node; tasks that cost a fee), *replay* (old and forged headers, free
  tasks, a sold agent), *alone* (1 agent, must end), *life* (register, post, claim, commit, settle,
  with a lost answer or a dropped transaction), *shared* (2 processes on one
  account, a rival; must end), *posts* (2 posts of one process, the ids of an orderly
  history), *record* (2 cycles, an app's handler, unknown and
  repeated names, an endpoint and none, an hour that is spent before both budgets are;
  must end), *github* (1 cycle that files its tickets at GitHub; must end), *signing* (7 keys, 7 digests, every nonce, and
  324 signatures from elsewhere; must end).

**Bounds.** `MaxTask`, `MaxAgent` and `MaxSigned` end posting, registering and
signing; `MaxUint64` is the last deadline and the clock runs one instant past it.
With both windows 1, the clock runs from 1 to 5 in `arena_one_task` (to 4 where
allowances run out), `arena_race` and `arena_liveness` and from 1 to 4 in `arena_two_tasks`. A task can be claimed at once or late, committed before
or exactly at its deadline, and time out at either stage; with the latest claims
the checked deadline arithmetic reverts. (Up to 4 a late commit would revert on
that arithmetic alone, so the runs on deadlines need the fifth instant.) One task
meets every handler in every order; two tasks meet everything that is shared –
purse, agent, stake counter, credits, arena balance. The purse (6) lets a user
both post and claim, or hold two claims at once, and makes the next call
unaffordable. Bounty 3, fee 1 and collateral 2 differ, so that no payoff can stand
in for another. Two users cover the roles: poster against resolver, a user who is both,
and either as bystander.

In the parts of the Python side the bounds are named in each module. The mirror's
purse (4) pays a bounty of 3 or a fee and collateral of 3, not both. The limiter's
clock runs from 0 to 5, so that stamps and counters of the first three instants expire
and later actions take their place; a thread may be one instant late. Two mutations
can overwrite each other, and a third sees what is left; one crash and one outage fit between two steps of each. A call's
one poll, or none, is enough for a receipt to come in time or too late; one loss
(a dropped transaction or an answer) may hit any request. Of the two runs that race at the
gate, which are alike, the first begins first; they meet node failures up to instant 1 and
broadcasts up to instant 2, and a run by itself meets both. Of the two cycles that share the
hour one meets incidents with every set of signals, the other with one signal at most. Four lines are the least
at which an even number of readings has a majority of three.

**Symmetry.** Users are permuted in the market's and the mirror's safety runs: none of
them is singled out by the terms, the funding or the initial allowances. In
`agent_core` the limiter's threads and the run ids are permuted. Runs with liveness properties have
no symmetry.

**Deadlock** is checked in `token` and `vault`. The market's runs end when every
bound is reached (`CHECK_DEADLOCK FALSE`); that it does not stop *earlier* is
what the liveness run shows. The same holds for the other runs: clocks, calls and
evidence are bounded, and runs, calls, incidents and signatures end.

**Fairness** (`FairSpec`): weak fairness of `Tick`, since time passes; of
`TimeoutCommit` and `TimeoutSettle` of each task, since they are open to everybody
(`AgentArena.sol:335, 353` check no caller) and one party is always paid by them;
and of each account's `Withdraw`, since its owner wants it. *No* fairness for
posting, signing, claiming, committing or revealing: the point of the timeouts is
that nobody need do these. A timeout needs the vault's permission, so
`EscrowResolves` supposes that from some time on the arena stays permitted
(`<>[]ArenaPermitted`); the run lets the owner withdraw and restore it before.

In `conversations`: weak fairness of `Play(s)` (a resolver's run is a straight line of
calls, and every HTTP request has a timeout, `x402.py:394`), of `Send(c)`
(`_await_receipt` polls a fixed number of times), of `Work(c)` (the router's loop over a
route) and of `Try` (the loop over nonces). *No* fairness for the node, a remote
facilitator, posters, miners or the clocks: an answer that never comes is a timeout.
"Ends" is `<>[]` not under way: bounds leave finitely many runs to start, so from
some point on none is.

## 4. Proofs

TLAPS checks, for every value of the constants:

| Module | Theorem | Statement |
|---|---|---|
| `MockERC20Proofs` | `TokenTypeCorrect` | `Spec => []TypeOK` |
| | `SupplyIsConserved` | `Spec => []SupplyConserved` |
| | `NonceIsPaidOnce` | `HistorySpec => []NoncePaidOnce` |
| `AgentStakeVaultProofs` | `VaultTypeCorrect` | `Spec => []TypeOK` |
| | `CustodyIsExact` | `Spec => []VaultCustody` |
| | `BondsStayFinal` | `Spec => BondsAreFinal` |
| `AgentArenaProofs` | `TypeCorrect` | `Spec => []TypeOK` |
| | `BondsFollowTasks` | `Spec => []CollateralFollowsTask` |
| | `FixedStaysFixed` | `Spec => CommitmentsAreFinal` |
| | `DeadlinesSplit` | `Spec => DeadlinesDecide` |
| | `SlashOnlyOpenedTruth` | `Spec => SlashNeedsOpenedTruth` |
| | `EscrowIsExact` | `Spec => []EscrowBalances` |
| | `WealthIsEarned` | `Spec => []WealthFollowsOutcomes` |
| | `PromiseIsKept` | `Spec => KeepsPromise`: the market implements `TaskEscrow` |
| | `RecordIsExact` | `Spec => []RecordFollowsOutcomes` |
| | `AttestationIsExact` | `Spec => []AttestationFollowsReveal` |
| `StateStoreProofs` | `JournalLosesNothing` | `Spec => []NothingLost` |
| | `ForgettingIsTold` | `Spec => DurabilityNeverSilent` |
| | `JournalImplemented` | `Spec => Journal!Spec`: the remote documents implement `RunJournal` |
| | `EveryStepKeepsJournal` | `Spec => JournalKept` |
| `InMemoryChainProofs` | `MirrorTypeCorrect` | `Spec => []TypeOK` |
| | `MirrorStaysSolvent` | `Spec => []ArenaSolvent` |
| | `NoCreditIsLost` | `Spec => [][WithdrawalsPay]_vars`: no withdrawal raises half way |
| | `MirrorImplementsContracts` | `WithinWidth => (Spec => MirrorsContracts)`: the mirror implements `AgentArena` |
| `ConversationsProofs` | `RunTypeCorrect` | `RunSpec => [](TypeOK /\ RunTypeOK)` |
| | `GateFailsClosed` | `RunSpec => []FailsClosed` |
| | `GateSellsWhatWasSigned` | `RunSpec => []SoldAsSigned` |
| | `JournalIsTruthful` | `RunSpec => []JournalTruthful` |
| | `FailuresAreFree` | `RunSpec => []FailureIsFree` |
| | `RouterInvariant` | `Router!Spec => []RouterInv` |
| | `RecordsAreTrue` | `Router!Spec => []RecordIsTrue` |
| | `AdapterInvariant` | `Adapter!Spec => []AdapterInv` |
| | `ReturnsAreTruthful` | `Adapter!Spec => []ReturnsAreTrue` |
| | `PartsTypeCorrect` | `ConversationSpec => []PartsTypeOK` |
| `AgentCoreProofs` | `SettingsAreObeyed` | `Environment!Spec => []SettingsObeyed` |
| | `CapsAreKept` | `Limiter!Spec => []CapsHold` |
| | `TableIsBounded` | `Limiter!Spec => []TableBounded` |
| | `RefusalsAreEarned` | `Limiter!Spec => RefusalsEarned` |
| | `VerdictsAreEarned` | `Policy!Spec => []VerdictsEarned` |
| | `OtherLinesCountForNothing` | `Policy!Spec => OtherLinesIgnored` |
| | `CoreTypeCorrect` | `CoreSpec => []CoreTypeOK` |

With them every invariant and action property the runs check is proved, the three
refinements included, but for `RecurrenceNoticed` and `RecoveryAgrees`; these and the
liveness properties stay with TLC.

**Assumptions.** `TokenAssumption`, `VaultAssumption`, `ArenaAssumption`,
`MirrorAssumption`: distinct addresses, natural bounds, well-typed terms and funding,
windows of at least one second for the contracts, and finitely many accounts and bond keys
(addresses and keys are 160 and 256 bits; sums over them must exist). The vault starts
without tokens, as a contract does that was just deployed. In the composition `MaxUint256`
is the infinite allowance and no bound on amounts; that no sum exceeds the width is proved
where it is decided, in the token, whose `mint` checks the supply. TLC evaluates these
assumptions in every run of the modules. The journal's theorems
suppose `StoreAssumption` and `OneWriter`: a backend that offers no atomic `mutate` has the
writers of one process only, because `_fallback_lock` belongs to a store
(`state.py:196`), and the code says so: "Still not safe across processes" (270–271).
`MCAgentCore` asserts both of each instance it runs. `RunAssumption`,
`ConversationAssumption` and `CoreAssumption` say that the constants are of the sorts their
comments give: any sessions, keys and replayers; any calls and finitely many of them; any
signals, precedence, overrides and settings, with finitely many cycles and with app handlers
that do not take the built-in names; any limits, texts, lines and quotes. No theorem
supposes that a facilitator, a node or a destination behaves: they answer anything, and
whoever was shown a header may spend it (`Broadcast`).
`MirrorImplementsContracts` supposes `WithinWidth`: the terms on offer are amounts of the
contracts, as `ArenaAssumption` asks of theirs. Python's integers have no width, and an
offer beyond it is one the mirror would take and the contracts could not read. The `mirror`
run's terms satisfy it.

**The laws of sums.** A changed amount, a new member, an amount moved from one
account to another change `Total` by what one expects (`TotalUpdate`, `TotalEnter`,
`TotalLeave`, `TotalPlus`, `TotalMove`), and no part exceeds the whole (`TotalBounds`).
They follow from the cardinality of unions and products. This is what
lets statements about any number of tasks and users be proved without induction over data.

**Token.** `SupplyInv` is types and conservation together: a balance stays within its width
only because no balance exceeds the supply, and that is what `mint` checks. For the nonces
the history counter is tied to the state: a pair was paid once if its nonce is marked,
never otherwise (`PaidMarked`).

**Vault.** `CustodyInv` is types and custody: a close can be subtracted from an agent's
counter because the bond is one of those it sums. Of `_slashedOf` the vault by itself shows
only that it is no more than its closed bonds were worth; that it is exactly what wrong
verdicts cost is the market's `RecordFollowsOutcomes`.

**Market.** `TypeOK` is not inductive: crediting a resolver or charging a bond's agent
is well typed only if the task has one, and a bond's amount is a number only if there
is a bond. Hence

    IndInv == TypeOK /\ Unposted /\ Claimants /\ CollateralFollowsTask

*Unposted*: ids not handed out yet hold the default record, so `postTask` cannot
overwrite a live task. *Claimants*: a task that was claimed names a user and an
agent. *CollateralFollowsTask* itself ties a task to its bond; a close finds the
amount that was posted. Every action has one lemma for `TypeOK` and, if it touches
a task or bond, one for the rest; `NextIndInv` combines them.

The action properties need what a record holds *at each stage* – no resolver
before the claim, no verdict before the commit, no truth before the end –
which is the invariant `Stages`. `TaskChange` then lists the eight ways a step can
change a task; each property follows by cases on them.

For the sums, the steps are first reduced to what they do to balances and credits.
`MoneySteps` shows that every step is of one of nine kinds: it posts, cancels,
claims, commits, ends, withdraws, submits a payment straight to the token, signs, or moves
no token. The invariant they keep is

    PaymentInv == IndInv /\ Stages /\ SignedForArena /\ OneValue /\ UsedWasSigned /\ ClaimsWerePaid

a user signs one amount per nonce, a nonce was used only if it was signed, and a claim with a
fee used the nonce of its task and agent. Without it a stray payment could not be
told from one that bought a claim. `EscrowBalances` and `WealthFollowsOutcomes` then have one
lemma per kind, the ending's by its four outcomes. For the
refinement each kind is one step of `TaskEscrow`, or none (`PostLocks`,
`CancelUnlocks`, `ClaimJoins`, `EndResolves`, `SubmitLoses`, `RestStutters`); the
payoffs are those of the wealth proof. The public record follows likewise from what an
ending adds to it (`EndRecord`). The attestations need `AttestInv`: a committed verdict has
a reasoning of those one may name, and the request filed under its hash is the arena's; a stranger's
request cannot take the hash, because a commit that finds it taken reverts.

**Journal.** `StoreInv` says of a call under way that its item is its own and in no
document yet (`ItemsAreOwn`), that what a writer without `mutate` read is what the document
still holds, and it has the lock (`WritesAreCurrent`: the heart of the fallback), that what was
acknowledged is recorded, and once (`AcksAreKept`), and that only a store in memory that
was chosen or has said it is degraded keeps documents of its own (`MemoryIsTold`), and
that a run has its document on the backend it was begun on as long as that lives. So a call
that misses its run was about one begun elsewhere; and it missed on the durable store only if
that one was begun in the memory of a process. Calls move on without a trace, enter, or take effect at one instant on the document as it then is
(`Moves`, `Enters`, `Applies`); the last is a step of `RunJournal`.

**Mirror.** `MirrorInv` is solvency with the two facts its steps need: an id not handed out
has no task, also after a post that raised burned one, and a task somebody holds has a
resolver, whether or not its collateral was taken.
For the refinement, the abstract state is the mirror's seen through `CTask`, `CBond` and
`CRequest`, and each action that does not raise has a lemma that it is the contracts' action of
the same name (`PostIs`, `ClaimIs`, ..., `TimeoutIs`). A call that the contracts would revert
must not return in the mirror, although the mirror does not check it: nothing in `claim_task`
asks whether the task has a bond, nor `commit_verdict` whether the hash was used. That is
the invariant `Links`: an open task has no bond and no request under its id; a
claimed one has an open, unslashed bond for its agent, who is registered, and no request yet; a
committed one has its request, unanswered. It holds through half-done
calls too, because they record the claim, or close the bond, before they raise. The vault's
counters are sums the mirror computes on every call: `BookChange` says what one bond changes
in them, so `BondOpens` and `BondCloses` give the counters the contracts keep.

**Runs.** What the gate promises is one invariant of each session, `Sound`: where its header
is, that what it bought was signed by the resolver on record (`Signed`), that nothing is
bought before the end, nor by who was refused (`Buying`), and that the journal has no more
than the chain (`Noted`). It is kept by the steps of *others* only because no two sessions
have the same agent (`Distinct`) and nobody can use an agent's nonce before the agent is
registered (`KnownAgents`): a claim, a replay or a sale elsewhere leaves a session
`Undisturbed`. A broadcast may use its nonce, and is remembered: `Spent`, used and not
broadcast, is what it cannot change. `RunInv` is that, with the types and the mirror's own invariant.

**Router.** `RecordOf` of each cycle: of the handlers of a route that are due a result,
as many have one as have had their turn, and the k-th result is of the k-th due handler
(`InTurn`); a delivery was accepted by a destination, an artifact was returned by one that
accepted it (or is the id GitHub's sink makes up), and
there is a primary one exactly if there is any (`Truthful`). A cycle's send is kept apart
from what the others do to the notifier they may share. That the precedence wins is a fact
about `Classify` alone, for signals with one pattern a domain.

**Adapter.** `Traced` says where a call's transaction is, by how far the call has got: not
sent, pending, mined, and with which success. `MinedOnce` is kept because a call sends once;
a replaced or dropped transaction is not pending and so cannot be mined. There is a nonce for every
call (`PendingCount` exists: fewer transactions are pending than there are numbers to choose
from). For foreseen ids, `Foresight`: in an orderly history a process has one call under way
(`OneAtATime`), the one that foresaw is the next to be mined of its kind, and its id stays
the next until it is.

**Limiter.** Threads enter in any order with stamps up to `MaxLag` old. What is in `recent`
was logged soon after its stamp (`HeldAreLogged`) and is there as long as its window may
last (`YoungAreHeld`), so an allowed action finds in `recent` everything of the last
`Hour - MaxLag`. The invariant speaks of windows that begin anywhere (`FewInAnyHour`), not
only at an action, as the property does: the new action ends a window, and may begin none.
The same for a run's counter (`CountersCount`, `FewInAnyLife`), where eviction must not take
a counter that is still alive: of those seen in two hours there are no more than the table
has room for. Numbers of actions are compared by mapping one set into the other (`NoMoreThan`).

**Policy.** The k-th reading exists and is unique by counting: the readings below it are at
most k and those up to it more. If more than half of the readings are on one side, the
readings in the middle are on it too, hence their mean, since a side is a half-line. No
order of the lines enters.

**Settings.** Their invariant is the property itself, with the types: a process chooses at
its start from what is then set. Offline is about the chain and the facilitator; a process
that opted out of memory asks Firestore all the same. Of memory only the explicit opt-out is
claimed: where nothing is set it is the default, and silent.

**Only model-checked**, and why:

* Liveness (`EscrowResolves`, `CreditsArePaid`, `AllEnd`): the prover does not treat fairness.
* `RecurrenceNoticed`: it needs fewer runs than `FindLimit` and one signature a run (two
  detections of one run overwrite each other's); to be stated with these as hypotheses.
* `RecoveryAgrees`: it is the group law of an elliptic curve, and a scalar multiple is an
  induction over data.

## 5. What the sources say and the code does not do

* **Withholding a reveal.** `AgentArena.sol:351-352`: withholding "is therefore
  strictly worse for the poster than revealing, whatever the truth turns out to
  be". When the verdict is right both credit the poster nothing (306–309,
  359–362): it is equal, not worse. Run `arena_withholding`.
* **Stranded value.** `AgentArena.sol:29-31`: "No path strands value". A claim
  payment submitted straight to the token moves the fee into the arena, spends
  the nonce, and belongs to no task and no credit; no call pays it out. Run
  `arena_stray`. `EscrowBalances` counts it as `Stray` and shows that nothing else
  is stranded.
* **Somebody else's id.** `rpc.py:394`: "The poster's own record of what it
  committed." `post_task` files the secret under the id an `eth_call` foresaw
  (304–308); a post of somebody else mined in between has that id. Run `rpc_two_posters`.

Others were met while modelling. The models show them, or do when the bound or the
assumption named here is lifted; they have no run of their own.

* `ValidationRegistry.sol:9-13`: the arena files "a request whose `requestHash` is the
  keccak-256 of the resolver's reasoning, and at settlement the poster (the designated
  validator) responds 100 or 0". In the code the designated validator is the arena
  (`AgentArena.sol:279`), which responds while it settles the poster's reveal (323), and the hash
  is over arena, task and reasoning hash (277). The poster cannot respond at all, and whoever has
  only the reasoning cannot look the request up. `AttestationFollowsReveal` states what the
  code does.
* `state.py:25`, "*Durability is never silent*", holds of making a store (25–29). A mutation of
  a run that has no document where it is made returns like any other and records nothing
  (93–94, 156–157, 274–275): the run id of a process that kept its runs in memory and was
  restarted is such a one. `DurabilityNeverSilent` says how far the sentence reaches: such a
  call is about a run begun elsewhere.
* `router.py:263-264`, artifacts "only ever carry identifiers that a real destination
  returned": for GitHub the id is `#` and the answer's number, `#None` if it has none
  (`sinks.py:150`). `ArtifactsAreReturned` excepts it (`MadeUp`).
* `router.py:294`, "never let one handler break the route": a `can_handle` that raises (290)
  and a result that is no dict (302) are outside the `try` and do (`Break`).
* `x402.py:374-376`, "no path where a failed verification still reaches the chain", is true of
  the gate; a facilitator that was sent the header can take it to the token itself, which the
  class discusses for a payment that is verified (368–370). `FailsClosed` excepts a header that
  was broadcast.
* `AgentStakeVault.sol:15-18`, "Every bond ends in exactly one of two terminal
  states": not while the owner withholds the arena's permission (68). `EscrowResolves`
  supposes that he does not.
* `arena.py:10-12`, "every terminal path releases it or slashes it, so the balance
  invariant ... also holds here": a claim whose collateral is short leaves an open bond
  nobody paid for (262–265, 356–361). The mirror's properties are those that hold
  nevertheless. For the gate it means that "the settlement transaction reverted"
  (`x402.py:352`) is said of a claim that was paid; `FailureIsFree` is checked where
  the chain is atomic.
* `guardrails.py:204`, "hard ceiling on tracked run ids": eviction runs before the
  insertion (233, 240), so it is one more; hence the `+ 1` in `TableBounded`.
* `state.py:326-327`, "if the same signature was seen within `window_days`, return a
  recurrence record": the query stops at 50 documents in the order of their names,
  oldest first (171–182). `RecurrenceNoticed` is checked below that limit (`FindLimit`).
* `state.py:222` against `config.py:88` ("an unreachable Firestore is a startup failure"):
  memory is the default and is returned before durability is required; so
  `MemoryOptOutIsKept` speaks of processes that opted out of memory.
* `rpc.py:409`, "A half-configured environment raises": only if the url or the arena's
  address is given (417); so `NodeMeansNode` is about these.
* `rpc.py:63`, "The node rejected a call, or a transaction reverted": an `RpcError` also
  says that no receipt came in time, and the transaction may be mined later (231).
  `ReceiptIsEffect` therefore speaks of calls that have their receipt.
* `rpc.py:363`: the collateral a settlement reports as returned is the agent's whole
  stake; `tests/test_priceright.py:139` expects the task's, on the mirror.
* `sinks.py:21-22` ("a shared `Notifier`") against 57 ("Scope guardrails/audit to the
  current cycle"): `bind_run` overwrites the one run id (58), and cycles that share a
  notifier charge each other's budgets. The run gives each cycle its own.
* `router.py:72-74` ("`precedence` is an ordered list of domains that win"): only the
  last pattern of a domain is seen (109), which matters to signal lists that are
  extended (47–48). `PrecedenceWins` supposes one pattern a domain, as the built-in signals have.
* `sinks.py:79-80`, "`synthetic` (True when nothing left the process)": it is also true
  of a request whose answer was lost (100).
* `secp256k1.py:125`: a nonce whose point has an abscissa of at least N makes a
  signature that no v of {27, 28} recovers; the chance is near 2^-128. `SignerRecovered`
  excludes it by name (`Telling`).

## 6. Plan

In this order:

1. `RecurrenceNoticed` as a theorem, with the hypotheses of section 4.
2. `IdentityRegistry`, `ReputationRegistry`, `ValidationRegistry` in full: approvals that
   outlive a sale, averages under revocation, other validators.
3. The adapter's reads: ABI decoding of dynamic types and log filters.

## 7. Not modelled

* SQL and content screens of `guardrails.py`, text patterns without state.
* keccak, HMAC, EIP-712 and ABI encodings, RLP, checksums: 256-bit and byte
  arithmetic. The specifications assume what they are for: a hash binds, an address
  stands for its key, an encoding is read back as it was written.
* Approvals, URIs and metadata of the identity registry; feedback and validation
  responses by others: the arena never reads them.
* `main.py`, `record.py`, `demo.py`, `mcp.py`, `runner.py`, `skills.py`: scripts,
  printing and adapters that call the components above and keep no state whose
  order matters. The UI, the deck, the paper and build output have no behaviour.
