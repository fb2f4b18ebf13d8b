---------------------------- MODULE MCAgentArena ----------------------------
(***************************************************************************)
(* Small markets.  Users are interchangeable (each may post, resolve, or    *)
(* do both), so they are permuted in the runs without liveness.             *)
(***************************************************************************)
EXTENDS AgentArenaProperties, TLC

CONSTANTS u1, u2

\* Enough for a user to post once and claim once, or to hold two claims at once.
Purse == 6
MCFunding == [u \in User |-> Purse]

\* Bounty, fee and collateral differ, so that no two payoffs coincide.
PaidTerms == [bounty |-> 3, fee |-> 1, slashAmount |-> 2]

\* The guards on zero amounts: no bounty pulled, no payment asked, no bond paid.
FreeTerms == [bounty |-> 0, fee |-> 0, slashAmount |-> 0]

OnlyPaid == {PaidTerms}
PaidOrFree == {PaidTerms, FreeTerms}

Symmetry == Permutations(User)
=============================================================================
