----------------------------- MODULE TaskEscrow -----------------------------
(***************************************************************************)
(* What the task market promises, without its contracts, its clock or its   *)
(* x402 payments: a poster locks a bounty, at most one resolver joins by    *)
(* adding a fee and a stake, and the pot is then paid out whole, once, to   *)
(* those two.  Nothing else moves anybody's wealth, except that a user may  *)
(* lose what it signed away (AgentArena.sol:12-34, 285-288).                *)
(***************************************************************************)
EXTENDS Naturals

CONSTANTS User, TaskId, NoOne

VARIABLES
    phase,     \* TaskId -> absent, open, held or over
    poster,    \* TaskId -> who opened it
    resolver,  \* TaskId -> who joined it
    pot,       \* TaskId -> the tokens locked in it
    stake,     \* TaskId -> the part of the pot that is the resolver's collateral
    wealth     \* User -> what it owns, in hand or on call

vars == <<phase, poster, resolver, pot, stake, wealth>>

Init ==
    /\ phase = [id \in TaskId |-> "absent"]
    /\ poster = [id \in TaskId |-> NoOne]
    /\ resolver = [id \in TaskId |-> NoOne]
    /\ pot = [id \in TaskId |-> 0]
    /\ stake = [id \in TaskId |-> 0]
    /\ wealth \in [User -> Nat]

Lock(id, u, bounty) ==
    /\ phase[id] = "absent"
    /\ bounty <= wealth[u]
    /\ phase' = [phase EXCEPT ![id] = "open"]
    /\ poster' = [poster EXCEPT ![id] = u]
    /\ pot' = [pot EXCEPT ![id] = bounty]
    /\ wealth' = [wealth EXCEPT ![u] = @ - bounty]
    /\ UNCHANGED <<resolver, stake>>

\* Until somebody joins, the poster can have the pot back.
Unlock(id) ==
    /\ phase[id] = "open"
    /\ phase' = [phase EXCEPT ![id] = "over"]
    /\ pot' = [pot EXCEPT ![id] = 0]
    /\ wealth' = [wealth EXCEPT ![poster[id]] = @ + pot[id]]
    /\ UNCHANGED <<poster, resolver, stake>>

\* What u adds to the pot is its collateral and a fee.
Join(id, u, added, collateral) ==
    /\ phase[id] = "open"
    /\ added <= wealth[u] /\ collateral <= added
    /\ phase' = [phase EXCEPT ![id] = "held"]
    /\ resolver' = [resolver EXCEPT ![id] = u]
    /\ pot' = [pot EXCEPT ![id] = @ + added]
    /\ stake' = [stake EXCEPT ![id] = collateral]
    /\ wealth' = [wealth EXCEPT ![u] = @ - added]
    /\ UNCHANGED poster

\* All to the poster, all to the resolver, or the stake back and the rest to the poster.
Resolve(id, toPoster) ==
    /\ phase[id] = "held"
    /\ toPoster \in {0, pot[id], pot[id] - stake[id]}
    /\ phase' = [phase EXCEPT ![id] = "over"]
    /\ pot' = [pot EXCEPT ![id] = 0]
    /\ stake' = [stake EXCEPT ![id] = 0]
    /\ LET paid == [wealth EXCEPT ![poster[id]] = @ + toPoster]
       IN  wealth' = [paid EXCEPT ![resolver[id]] = @ + (pot[id] - toPoster)]
    /\ UNCHANGED <<poster, resolver>>

Lose(u, v) ==
    /\ v <= wealth[u]
    /\ wealth' = [wealth EXCEPT ![u] = @ - v]
    /\ UNCHANGED <<phase, poster, resolver, pot, stake>>

Next ==
    \/ \E u \in User : \E v \in 0..wealth[u] : Lose(u, v)
    \/ \E id \in TaskId : Unlock(id)
    \/ \E id \in TaskId : \E v \in 0..pot[id] : Resolve(id, v)
    \/ \E id \in TaskId, u \in User : \E v \in 0..wealth[u] : Lock(id, u, v)
    \/ \E id \in TaskId, u \in User :
           \E added \in 0..wealth[u] : \E c \in 0..added : Join(id, u, added, c)

Spec == Init /\ [][Next]_vars
=============================================================================
