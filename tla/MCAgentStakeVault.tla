------------------------- MODULE MCAgentStakeVault --------------------------
(***************************************************************************)
(* The vault on its own: operators that bond, release and slash in any      *)
(* order, an owner who allows and disallows them at any moment.             *)
(***************************************************************************)
EXTENDS AgentStakeVaultProperties

CONSTANTS resolver, arena

\* Every party starts with the same purse.
Purse == 3
MCInitialBalance == [a \in Address |-> IF a = resolver THEN Purse ELSE 0]
=============================================================================
