--------------------- MODULE AgentStakeVaultProperties ---------------------
(***************************************************************************)
(* What the vault owes the depositors and the readers of its counters.      *)
(***************************************************************************)
EXTENDS AgentStakeVault, Totals

OpenKeys == {k \in BondKey : IsOpen(k)}
OpenFor(agent) == {k \in OpenKeys : bonds[k].agentId = agent}
ClosedFor(agent) == {k \in BondKey : bonds[k].closed /\ bonds[k].agentId = agent}

Collateral == [k \in BondKey |-> bonds[k].amount]

\* The vault holds exactly the collateral of its open bonds: nothing is left
\* behind by a close and nothing is paid out twice (AgentStakeVault.sol:15-19).
\* Its counters say so, however operators interleave: stakeOf, which the arena's
\* clients read as an agent's collateral, is the sum of that agent's open bonds,
\* and what was slashed of an agent it had bonded (lines 34, 78, 98, 103-109).
VaultCustody ==
    /\ balanceOf[Vault] = Total(Collateral, OpenKeys)
    /\ \A a \in AgentId : stakeOf[a] = Total(Collateral, OpenFor(a))
    /\ \A a \in AgentId : slashedOf[a] <= Total(Collateral, ClosedFor(a))

\* Once a bond is closed nothing changes it again, and an open one keeps its
\* agent, depositor and amount until then (AgentStakeVault.sol:76, 106).
BondsAreFinal ==
    [][\A k \in BondKey : BondExists(k) =>
           bonds'[k] \in {bonds[k], [bonds[k] EXCEPT !.closed = TRUE]}]_vars
=============================================================================
