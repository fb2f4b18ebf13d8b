----------------------------- MODULE MockERC20 -----------------------------
(***************************************************************************)
(* The fee token (src/src/mocks/MockERC20.sol): an ERC-20 with the EIP-3009 *)
(* extension that x402 payments settle by.  A call that reverts changes     *)
(* nothing, so every `require` and `revert` is a guard.                     *)
(*                                                                         *)
(* The escrow performs several token calls in one transaction, so the      *)
(* effect of a call is an operator on the ledger functions (Moved, Spent)   *)
(* and the actions of this module are those operators applied once.         *)
(***************************************************************************)
EXTENDS Naturals, FiniteSets

CONSTANTS
    Address,        \* every account and contract that may hold the token
    Nonce,          \* EIP-3009 nonces
    Value,          \* the amounts a caller of this module's own actions names
    Approvals,      \* the allowances an owner grants
    ValidityWindow, \* how long after signing an authorisation stays valid
    MaxUint256,     \* type(uint256).max: the width of amounts, and the infinite allowance
    MaxTime         \* bound: the clock stops here

ASSUME TokenAssumption ==
    /\ IsFiniteSet(Address)
    /\ Value \subseteq 0..MaxUint256
    /\ Approvals \subseteq 0..MaxUint256
    /\ ValidityWindow \in Nat
    /\ MaxUint256 \in Nat
    /\ MaxTime \in Nat \ {0}

VARIABLES
    balanceOf,          \* Address -> amount
    allowance,          \* owner -> spender -> amount
    authorizationState, \* authorizer -> the nonces it has used
    totalSupply,
    signed,             \* every authorisation a payer ever signed; all of them are public
    now                 \* block.timestamp

vars == <<balanceOf, allowance, authorizationState, totalSupply, signed, now>>

\* The signed fields of an EIP-3009 authorisation.  A member of `signed` is one
\* whose signature recovers to `from`; no other record passes for one.
Authorization ==
    [from : Address, to : Address, value : 0..MaxUint256,
     validAfter : Nat, validBefore : Nat, nonce : Nonce]

-----------------------------------------------------------------------------
(* The ledger operators. *)

Covers(b, from, v) == b[from] >= v

\* A transfer that reads both balances before it writes either: a payment from
\* an account to itself would mint.
MovedFromSnapshot(b, from, to, v) ==
    [b EXCEPT ![from] = b[from] - v, ![to] = b[to] + v]

\* The debit is written before the credit is read, so from = to changes nothing.
Moved(b, from, to, v) ==
    LET debited == [b EXCEPT ![from] = @ - v] IN [debited EXCEPT ![to] = @ + v]

\* A transferFrom that forgets to look at the allowance.
AllowsAnything(a, owner, spender, v) == TRUE

Allows(a, owner, spender, v) == a[owner][spender] >= v

\* The maximal allowance is infinite and never runs down.
Spent(a, owner, spender, v) ==
    IF a[owner][spender] = MaxUint256
    THEN a
    ELSE [a EXCEPT ![owner][spender] = @ - v]

\* The window is open at both ends: exactly at validAfter or validBefore reverts.
InWindow(auth) == auth.validAfter < now /\ now < auth.validBefore

\* A token that never looks the nonce up.
UnusedNonceUnchecked(auth) == TRUE

UnusedNonce(auth) == auth.nonce \notin authorizationState[auth.from]

\* What transferWithAuthorization checks of the authorisation itself.
Authorized(auth) == InWindow(auth) /\ UnusedNonce(auth) /\ auth \in signed

Used(auth) == [authorizationState EXCEPT ![auth.from] = @ \cup {auth.nonce}]

-----------------------------------------------------------------------------
Mint(to, v) ==
    /\ totalSupply + v <= MaxUint256
    /\ balanceOf' = [balanceOf EXCEPT ![to] = @ + v]
    /\ totalSupply' = totalSupply + v
    /\ UNCHANGED <<allowance, authorizationState, signed, now>>

Approve(owner, spender, v) ==
    /\ allowance' = [allowance EXCEPT ![owner][spender] = v]
    /\ UNCHANGED <<balanceOf, authorizationState, totalSupply, signed, now>>

Transfer(from, to, v) ==
    /\ Covers(balanceOf, from, v)
    /\ balanceOf' = Moved(balanceOf, from, to, v)
    /\ UNCHANGED <<allowance, authorizationState, totalSupply, signed, now>>

TransferFrom(spender, from, to, v) ==
    /\ Allows(allowance, from, spender, v)
    /\ Covers(balanceOf, from, v)
    /\ allowance' = Spent(allowance, from, spender, v)
    /\ balanceOf' = Moved(balanceOf, from, to, v)
    /\ UNCHANGED <<authorizationState, totalSupply, signed, now>>

\* Any party may submit a signed authorisation, so the caller is not a parameter.
TransferWithAuthorization(auth) ==
    /\ Authorized(auth)
    /\ Covers(balanceOf, auth.from, auth.value)
    /\ authorizationState' = Used(auth)
    /\ balanceOf' = Moved(balanceOf, auth.from, auth.to, auth.value)
    /\ UNCHANGED <<allowance, totalSupply, signed, now>>

\* The payer's wallet signs off chain.  x402 clients always sign validAfter = 0
\* and a validBefore some seconds ahead (src/priceright/x402.py:263).
Sign(from, to, v, nonce) ==
    /\ signed' = signed \cup
          {[from |-> from, to |-> to, value |-> v, validAfter |-> 0,
            validBefore |-> now + ValidityWindow, nonce |-> nonce]}
    /\ UNCHANGED <<balanceOf, allowance, authorizationState, totalSupply, now>>

Tick ==
    /\ now < MaxTime
    /\ now' = now + 1
    /\ UNCHANGED <<balanceOf, allowance, authorizationState, totalSupply, signed>>

-----------------------------------------------------------------------------
Init ==
    /\ balanceOf = [a \in Address |-> 0]
    /\ allowance = [o \in Address |-> [s \in Address |-> 0]]
    /\ authorizationState = [a \in Address |-> {}]
    /\ totalSupply = 0
    /\ signed = {}
    /\ now = 1

\* Every step but the payments by signature.
Others ==
    \/ \E to \in Address, v \in Value : Mint(to, v)
    \/ \E o, s \in Address, v \in Approvals : Approve(o, s, v)
    \/ \E from, to \in Address, v \in Value : Transfer(from, to, v)
    \/ \E s, from, to \in Address, v \in Value : TransferFrom(s, from, to, v)
    \/ \E from, to \in Address, v \in Value, n \in Nonce : Sign(from, to, v, n)
    \/ Tick

Next == Others \/ \E auth \in signed : TransferWithAuthorization(auth)

Spec == Init /\ [][Next]_vars

-----------------------------------------------------------------------------
TypeOK ==
    /\ balanceOf \in [Address -> 0..MaxUint256]
    /\ allowance \in [Address -> [Address -> 0..MaxUint256]]
    /\ authorizationState \in [Address -> SUBSET Nonce]
    /\ totalSupply \in 0..MaxUint256
    /\ signed \subseteq Authorization
    /\ now \in 1..MaxTime
=============================================================================
