------------------------ MODULE AgentArenaProperties ------------------------
(***************************************************************************)
(* What the task market owes its users, stated over the tokens, the tasks   *)
(* and the public records together.                                         *)
(***************************************************************************)
EXTENDS AgentArena

Held == {"Claimed", "Committed"}

\* How a task ended, read off its record alone.
EndedBy(id) ==
    LET t == tasks[id]
    IN  IF t.status # "Settled" THEN "nothing"
        ELSE IF t.truth # "None" THEN (IF t.truth = t.committed THEN "correct" ELSE "wrong")
        ELSE IF t.committed = "None" THEN "commit-timeout" ELSE "reveal-timeout"

-----------------------------------------------------------------------------
(* Collateral. *)

\* What one task's bond must look like given its record.
CollateralOf(id) ==
    LET t == tasks[id]
        b == bonds[id]
    IN  /\ t.status \in {"Open", "Cancelled"} => b = StakeVault!NoBond
        /\ t.status \in Held \cup {"Settled"} =>
               /\ b.depositor = t.resolver
               /\ b.agentId = t.agentId
               /\ b.amount = t.slashAmount
               /\ b.closed = (t.status = "Settled")

\* A task is bonded exactly from its claim to its end, by its resolver, for its
\* agent and for the amount it was posted with; every ending closes the bond
\* (AgentArena.sol:29-31, 254, 307-311, 342, 360; AgentStakeVault.sol:15-19).
CollateralFollowsTask == \A id \in TaskId : CollateralOf(id)

-----------------------------------------------------------------------------
(* Money. *)

\* The tokens a live task holds in the arena.
Escrowed(id) ==
    LET t == tasks[id]
    IN  IF ~Known(id) THEN 0
        ELSE CASE t.status = "Open" -> t.bounty
               [] t.status \in Held -> t.bounty + t.fee
               [] OTHER -> 0

\* A used authorisation that paid for a claim.
PaidForClaim(u, nonce) ==
    LET t == tasks[nonce[1]]
    IN  t.fee > 0 /\ t.resolver = u /\ t.agentId = nonce[2]

\* What a user's authorisations moved into the arena without buying a claim,
\* because somebody submitted them straight to the token.
StrayNonces(u) == {n \in authorizationState[u] : ~PaidForClaim(u, n)}
SignedValue(u, nonce) == (CHOOSE s \in signed : s.from = u /\ s.nonce = nonce).value
Stray(u) == Total([n \in StrayNonces(u) |-> SignedValue(u, n)], StrayNonces(u))

Escrow == Total([id \in TaskId |-> Escrowed(id)], TaskId)
AllCredits == Total(credits, User)
AllStray == Total([u \in User |-> Stray(u)], User)

\* The arena holds the escrow of its live tasks, the credits nobody has drawn,
\* and what was sent past it; not one token more or less, so every withdrawal
\* can be paid (AgentArena.sol:29-31, 288).
EscrowBalances == balanceOf[Arena] = Escrow + AllCredits + AllStray

\* The payoff of one task to one user, from the doc of settle and the timeouts
\* (AgentArena.sol:285-288, 330-334, 349-352).
PosterPayoff(id) ==
    LET t == tasks[id]
    IN  CASE t.status = "Cancelled" -> 0
          [] t.status = "Settled" /\ EndedBy(id) = "wrong" -> t.fee + t.slashAmount
          [] t.status = "Settled" /\ EndedBy(id) = "commit-timeout" -> t.fee
          [] OTHER -> 0 - t.bounty

ResolverPayoff(id) ==
    LET t == tasks[id]
    IN  CASE EndedBy(id) \in {"correct", "reveal-timeout"} -> t.bounty
          [] EndedBy(id) = "commit-timeout" -> 0 - t.fee
          [] OTHER -> 0 - t.fee - t.slashAmount

Payoff(u, id) ==
    (IF tasks[id].poster = u THEN PosterPayoff(id) ELSE 0)
        + (IF tasks[id].resolver = u THEN ResolverPayoff(id) ELSE 0)

\* What a user owns, in hand and in credits, is what it started with plus the
\* payoff of every task it posted or resolved: losing a race for a claim, a
\* cancelled task, an agent sold in mid-task or another party's timing costs
\* and earns nothing else (AgentArena.sol:192-200, 221-257, 289-367).  The theorem
\* covers sold agents; nobody buys one in the race.
WealthFollowsOutcomes ==
    \A u \in User :
        balanceOf[u] + credits[u]
            = Funding[u] + NetTotal([id \in TaskId |-> Payoff(u, id)], TaskId) - Stray(u)

-----------------------------------------------------------------------------
(* The public record. *)

TasksEnded(agent, how) ==
    {id \in TaskId : tasks[id].agentId = agent /\ EndedBy(id) = how}

\* What the agent's claims that are running have bonded.
TasksHeld(agent) ==
    {id \in TaskId : tasks[id].agentId = agent /\ tasks[id].status \in Held}

Bonded(S) == Total([id \in S |-> tasks[id].slashAmount], S)

\* One feedback entry per ended claim, with the score of its ending, under the
\* agent that made the claim whoever owns it by then; and the vault's counters
\* say the same (AgentArena.sol:315-322, 345, 363-365; AgentStakeVault.sol:78, 98, 108).
RecordFollowsOutcomes ==
    \A a \in AgentId :
        /\ \A how \in {"correct", "wrong", "commit-timeout", "reveal-timeout"} :
               Cardinality({i \in DOMAIN feedback[a] : feedback[a][i].tag = how})
                   = Cardinality(TasksEnded(a, how))
        /\ \A i \in DOMAIN feedback[a] :
               feedback[a][i].score
                   = IF feedback[a][i].tag \in {"wrong", "commit-timeout"} THEN 0 ELSE 100
        /\ slashedOf[a] = Bonded(TasksEnded(a, "wrong"))
        /\ stakeOf[a] = Bonded(TasksHeld(a))

\* Every committed verdict has the arena's own validation request, for the
\* claiming agent; it is answered if and only if the truth was revealed, with
\* 100 exactly for a right verdict, whatever requests others file
\* (AgentArena.sol:261-279, 323; ValidationRegistry.sol:54, 72-78).  The registry's doc
\* names the poster as the validator and the hash of the reasoning as the request
\* (ValidationRegistry.sol:9-13); in the code the validator is the arena, which answers in
\* the poster's reveal, and the hash binds arena and task as well.
AttestationFollowsReveal ==
    \A id \in TaskId :
        LET t == tasks[id]
            request == validations[ValidationHash(id, t.reasoningHash)]
        IN  t.committed # "None" =>
                /\ request.validator = Arena
                /\ request.agentId = t.agentId
                /\ request.answered = (t.truth # "None")
                /\ request.response = (IF t.truth = t.committed THEN 100 ELSE 0)

-----------------------------------------------------------------------------
(* What a step may never do. *)

\* This step reveals, in time, the truth sealed for a task of agent `a`, against
\* the verdict committed to it.
RevealAgainst(a) ==
    \E id \in TaskId :
        /\ tasks[id].agentId = a
        /\ tasks[id].status = "Committed" /\ tasks'[id].status = "Settled"
        /\ now <= tasks[id].settleDeadline
        /\ tasks'[id].truth = tasks[id].truthCommit
        /\ tasks'[id].truth # tasks[id].committed

\* Collateral is slashed only when, before its deadline, the poster of a task
\* opens the commitment it posted before anyone claimed, and the opening differs
\* from the verdict committed in between (AgentArena.sol:20-22, 289-312).
SlashNeedsOpenedTruth ==
    [][\A a \in AgentId : slashedOf'[a] # slashedOf[a] => RevealAgainst(a)]_vars

KeepsWhatIsFixed(id) ==
    LET t == tasks[id]
        u == tasks'[id]
    IN  /\ Known(id) =>
               /\ u.poster = t.poster /\ u.bounty = t.bounty /\ u.fee = t.fee
               /\ u.slashAmount = t.slashAmount /\ u.truthCommit = t.truthCommit
        /\ t.resolver # NoOne =>
               u.resolver = t.resolver /\ u.agentId = t.agentId
                   /\ u.commitDeadline = t.commitDeadline
        /\ t.committed # "None" =>
               u.committed = t.committed /\ u.reasoningHash = t.reasoningHash
                   /\ u.settleDeadline = t.settleDeadline
        /\ t.status \in {"Settled", "Cancelled"} => u = t

\* What a party has fixed stays fixed: the poster's terms and sealed truth from
\* the post, the resolver and its deadline from the claim, the verdict and its
\* reasoning from the commit, everything from the end (AgentArena.sol:190-192,
\* 261-264; test/AgentArena.t.sol).
CommitmentsAreFinal == [][\A id \in TaskId : KeepsWhatIsFixed(id)]_vars

MovesInTime(id) ==
    tasks'[id] # tasks[id] =>
        /\ tasks[id].status = "Claimed" =>
               (tasks'[id].status = "Committed") = (now <= tasks[id].commitDeadline)
        /\ tasks[id].status = "Committed" =>
               (tasks'[id].truth # "None") = (now <= tasks[id].settleDeadline)

\* A deadline splits a task's life in two: up to it only the party it binds can
\* move the task, after it only the timeout can (AgentArena.sol:269, 294, 339, 357).
DeadlinesDecide == [][\A id \in TaskId : MovesInTime(id)]_vars

-----------------------------------------------------------------------------
(* The promise, and the mapping under which the contracts keep it. *)

Phase(id) ==
    IF ~Known(id) THEN "absent"
    ELSE CASE tasks[id].status = "Open" -> "open"
           [] tasks[id].status \in Held -> "held"
           [] OTHER -> "over"

Collateral(id) == IF StakeVault!IsOpen(id) THEN bonds[id].amount ELSE 0

Promise == INSTANCE TaskEscrow WITH
    phase <- [id \in TaskId |-> Phase(id)],
    poster <- [id \in TaskId |-> tasks[id].poster],
    resolver <- [id \in TaskId |-> tasks[id].resolver],
    pot <- [id \in TaskId |-> Escrowed(id) + Collateral(id)],
    stake <- [id \in TaskId |-> Collateral(id)],
    wealth <- [u \in User |-> balanceOf[u] + credits[u]]

\* Token, vault, registries, deadlines and signatures together are that escrow:
\* every transaction is one of its steps or none.
KeepsPromise == Promise!Spec

-----------------------------------------------------------------------------
(* What must happen. *)

\* Time passes.  The timeouts are open to everybody, so the account one pays
\* calls it; and an account that is owed credits draws them.  Nobody is obliged
\* to post, sign, claim, commit or reveal.
Fairness ==
    /\ WF_vars(Tick)
    /\ \A id \in TaskId : WF_vars(TimeoutCommit(id)) /\ WF_vars(TimeoutSettle(id))
    /\ \A u \in User : WF_vars(Withdraw(u))

FairSpec == Spec /\ Fairness

ArenaPermitted == isOperator[Arena]

\* Neither side can freeze the escrow: whoever goes silent, a claimed task ends,
\* as long as the vault's owner does not keep the arena from closing its bonds
\* (AgentArena.sol:32-34).
EscrowResolves ==
    <>[]ArenaPermitted =>
        \A id \in TaskId : (tasks[id].status \in Held) ~> (tasks[id].status = "Settled")

\* Credits are money: whatever the arena credits, it can pay (AgentArena.sol:371-377).
CreditsArePaid == \A u \in User : (credits[u] > 0) ~> (credits[u] = 0)

-----------------------------------------------------------------------------
(* Claims of the sources that do not hold of the code. *)

\* "Withholding a reveal is therefore strictly worse for the poster than
\* revealing, whatever the truth turns out to be" (AgentArena.sol:351-352).
WithholdingIsStrictlyWorse ==
    \A id \in TaskId :
        In(id, "Committed") /\ tasks[id].truthCommit \in Answer =>
            PosterDue(id, "reveal-timeout")
                < PosterDue(id, Outcome(id, tasks[id].truthCommit))

\* "No path strands value": every token in the arena belongs to a live task or
\* to somebody's credits (AgentArena.sol:29).
NoPathStrandsValue == balanceOf[Arena] = Escrow + AllCredits
=============================================================================
