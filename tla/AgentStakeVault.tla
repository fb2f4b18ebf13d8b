-------------------------- MODULE AgentStakeVault --------------------------
(***************************************************************************)
(* The collateral vault (src/src/AgentStakeVault.sol): per-task bonds that  *)
(* an operator opens with bondFor and closes with release or slash.  Bonds  *)
(* are real tokens, so every operation also moves the token's ledger.       *)
(***************************************************************************)
EXTENDS Naturals, FiniteSets

CONSTANTS
    Address,     \* token holders: depositors, operators, beneficiaries, the vault
    Operator,    \* the addresses the owner may allow to bond, release and slash
    Vault,       \* this contract's own address
    NoOne,       \* the zero address
    AgentId,     \* agent ids, 1 and up
    BondKey,
    Amount,      \* the amounts bondFor is called with
    MaxUint256,
    Approvals,   \* the allowances a depositor grants the vault
    InitialBalance

ASSUME VaultAssumption ==
    /\ Operator \subseteq Address
    /\ Vault \in Address \ Operator
    /\ NoOne \notin Address
    /\ AgentId \subseteq Nat \ {0}
    /\ MaxUint256 \in Nat
    /\ Amount \subseteq 0..MaxUint256
    /\ Approvals \subseteq 0..MaxUint256
    /\ IsFiniteSet(BondKey)
    /\ InitialBalance \in [Address -> 0..MaxUint256]
    /\ InitialBalance[Vault] = 0

VARIABLES
    isOperator,   \* Operator -> allowed
    bonds,        \* BondKey -> bond
    stakeOf,      \* AgentId -> currently bonded
    slashedOf,    \* AgentId -> cumulatively slashed
    owners,       \* the identity registry: AgentId -> owner, or NoOne
    balanceOf,    \* the token's ledger
    allowance

vaultVars == <<isOperator, bonds, stakeOf, slashedOf>>
vars == <<vaultVars, owners, balanceOf, allowance>>

\* The token the vault custodies; bonds use its ledger operators.  Supply,
\* authorisations and time are not the vault's concern.
Token == INSTANCE MockERC20 WITH
    Nonce <- {}, Value <- Amount, ValidityWindow <- 0, MaxTime <- 1,
    authorizationState <- [a \in Address |-> {}], totalSupply <- 0,
    signed <- {}, now <- 1

Bond == [agentId : AgentId, depositor : Address \ {Vault}, amount : Nat, closed : BOOLEAN]
NoBond == [agentId |-> 0, depositor |-> NoOne, amount |-> 0, closed |-> FALSE]

BondExists(key) == bonds[key].depositor # NoOne
IsOpen(key) == BondExists(key) /\ ~bonds[key].closed

-----------------------------------------------------------------------------
SetOperator(operator, allowed) ==
    /\ isOperator' = [isOperator EXCEPT ![operator] = allowed]
    /\ UNCHANGED <<bonds, stakeOf, slashedOf, owners, balanceOf, allowance>>

\* Forgets that a key may be in use.
BondFreshUnchecked(key) == TRUE
BondFresh(key) == ~BondExists(key)

\* `ledger` is balanceOf as the call finds it: the token may already have moved
\* in the transaction that calls the vault.
BondFor(operator, key, agent, depositor, amount, ledger) ==
    /\ isOperator[operator]
    /\ owners[agent] # NoOne
    /\ BondFresh(key)
    /\ Token!Allows(allowance, depositor, Vault, amount)
    /\ Token!Covers(ledger, depositor, amount)
    /\ bonds' = [bonds EXCEPT ![key] =
           [agentId |-> agent, depositor |-> depositor, amount |-> amount, closed |-> FALSE]]
    /\ stakeOf' = [stakeOf EXCEPT ![agent] = @ + amount]
    /\ allowance' = Token!Spent(allowance, depositor, Vault, amount)
    /\ balanceOf' = Token!Moved(ledger, depositor, Vault, amount)
    /\ UNCHANGED <<isOperator, slashedOf>>

\* Closing without marking the bond: the next close pays out again.
CloseUnmarked(key) ==
    /\ IsOpen(key)
    /\ bonds' = bonds
    /\ stakeOf' = [stakeOf EXCEPT ![bonds[key].agentId] = @ - bonds[key].amount]

\* The subtraction is checked arithmetic: it reverts below zero.
Close(key) ==
    /\ IsOpen(key)
    /\ stakeOf[bonds[key].agentId] >= bonds[key].amount
    /\ bonds' = [bonds EXCEPT ![key].closed = TRUE]
    /\ stakeOf' = [stakeOf EXCEPT ![bonds[key].agentId] = @ - bonds[key].amount]

\* Closes the bond and sends the collateral out of the vault.
PayOut(operator, key, to) ==
    /\ isOperator[operator]
    /\ Close(key)
    /\ Token!Covers(balanceOf, Vault, bonds[key].amount)
    /\ balanceOf' = Token!Moved(balanceOf, Vault, to, bonds[key].amount)
    /\ UNCHANGED <<isOperator, allowance>>

Release(operator, key, to) ==
    /\ PayOut(operator, key, to)
    /\ UNCHANGED slashedOf

Slash(operator, key, beneficiary) ==
    /\ PayOut(operator, key, beneficiary)
    /\ slashedOf' = [slashedOf EXCEPT ![bonds[key].agentId] = @ + bonds[key].amount]

\* A depositor approves the vault on the token.
ApproveVault(depositor, v) ==
    /\ allowance' = [allowance EXCEPT ![depositor][Vault] = v]
    /\ UNCHANGED <<vaultVars, owners, balanceOf>>

\* Somebody registers with the identity registry, which hands out ids in order.
RegisterAgent(agent, owner) ==
    /\ owners[agent] = NoOne
    /\ \A a \in AgentId : a < agent => owners[a] # NoOne
    /\ owners' = [owners EXCEPT ![agent] = owner]
    /\ UNCHANGED <<vaultVars, balanceOf, allowance>>

-----------------------------------------------------------------------------
Init ==
    /\ isOperator = [o \in Operator |-> FALSE]
    /\ bonds = [k \in BondKey |-> NoBond]
    /\ stakeOf = [a \in AgentId |-> 0]
    /\ slashedOf = [a \in AgentId |-> 0]
    /\ owners = [a \in AgentId |-> NoOne]
    /\ balanceOf = InitialBalance
    /\ allowance = [o \in Address |-> [s \in Address |-> 0]]

Party == Address \ {Vault}

Next ==
    \/ \E o \in Operator, b \in BOOLEAN : SetOperator(o, b)
    \/ \E o \in Operator, k \in BondKey, a \in AgentId, d \in Party, v \in Amount :
           BondFor(o, k, a, d, v, balanceOf) /\ UNCHANGED owners
    \/ \E o \in Operator, k \in BondKey, to \in Party :
           Release(o, k, to) /\ UNCHANGED owners
    \/ \E o \in Operator, k \in BondKey, to \in Party :
           Slash(o, k, to) /\ UNCHANGED owners
    \/ \E d \in Party, v \in Approvals : ApproveVault(d, v)
    \/ \E a \in AgentId, d \in Party : RegisterAgent(a, d)

Spec == Init /\ [][Next]_vars

-----------------------------------------------------------------------------
TypeOK ==
    /\ isOperator \in [Operator -> BOOLEAN]
    /\ bonds \in [BondKey -> Bond \cup {NoBond}]
    /\ stakeOf \in [AgentId -> Nat]
    /\ slashedOf \in [AgentId -> Nat]
    /\ owners \in [AgentId -> Party \cup {NoOne}]
    /\ balanceOf \in [Address -> Nat]
    /\ allowance \in [Address -> [Address -> Nat]]
=============================================================================
