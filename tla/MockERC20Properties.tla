------------------------ MODULE MockERC20Properties ------------------------
(***************************************************************************)
(* What the fee token owes its holders: no token appears or disappears, and *)
(* a signature is charged once.  The second needs a history of how often    *)
(* each (authorizer, nonce) pair has been paid.                             *)
(***************************************************************************)
EXTENDS MockERC20, Totals

VARIABLE paid   \* history: payments executed so far under each (authorizer, nonce)

historyVars == <<vars, paid>>

HistoryInit == Init /\ paid = [p \in Address \X Nonce |-> 0]

\* `paid` moves exactly when the token executes an authorisation.
HistoryNext ==
    \/ \E auth \in signed :
           /\ TransferWithAuthorization(auth)
           /\ paid' = [paid EXCEPT ![<<auth.from, auth.nonce>>] = @ + 1]
    \/ Others /\ UNCHANGED paid

HistorySpec == HistoryInit /\ [][HistoryNext]_historyVars

-----------------------------------------------------------------------------
\* Whatever is minted, moved, moved to oneself, pulled by an allowance or by a
\* signature, the balances add up to totalSupply (MockERC20.sol:52-55, 107-113).
SupplyConserved == Total(balanceOf, Address) = totalSupply

\* A payer who signs the same nonce twice, with other amounts or payees, is
\* debited at most once for it, whoever submits and in whatever order
\* (MockERC20.sol:20, 94, 102).
NoncePaidOnce == \A p \in Address \X Nonce : paid[p] <= 1
=============================================================================
