-------------------------- MODULE MCInMemoryChain --------------------------
(***************************************************************************)
(* Two small markets on the mirror.  A behaviour stays in the one it begins *)
(* in.                                                                      *)
(***************************************************************************)
EXTENDS InMemoryChain, TLC

CONSTANTS u1, u2, Purse

VARIABLE market

MCFunding == [u \in User |-> Purse]

\* Bounty, fee and collateral differ, so that no two payoffs coincide.
PaidTerms == {[bounty |-> 3, fee |-> 1, slashAmount |-> 2]}

MixedTerms == PaidTerms \cup [bounty : {0}, fee : {0}, slashAmount : {2}]

\* Two tasks, and purses that may cover a bounty and not the collateral.
Two == INSTANCE InMemoryChain WITH Terms <- PaidTerms, OtherValues <- {}, AgentBuyers <- {}

\* A single task, free or not; payments for the wrong amount; agents that are sold.
Single == INSTANCE InMemoryChain WITH Mints <- {}, MaxRaised <- 1

OneTask == nextTask <= 2

MirrorInit == market \in {"two", "single"} /\ Init

MirrorNext ==
    /\ \/ market = "two" /\ Two!Next
       \/ market = "single" /\ Single!Next /\ OneTask'
    /\ UNCHANGED market

MirrorSpec == MirrorInit /\ [][MirrorNext]_<<vars, market>>

Symmetry == Permutations(User)
=============================================================================
