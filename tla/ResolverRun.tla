---------------------------- MODULE ResolverRun ----------------------------
(***************************************************************************)
(* Resolver agents (src/priceright/agent.py) that buy claims through the    *)
(* x402 gate (x402.py), over the in-memory chain or, when no call raises    *)
(* half way (MaxRaised = 0), over the contracts the chain mirrors.  Every   *)
(* call an agent makes to the chain or to a remote facilitator is a step of *)
(* its own: other agents, posters and the clocks run in between.            *)
(***************************************************************************)
EXTENDS InMemoryChain

CONSTANTS
    Session,         \* one ResolverAgent each, which plays one task
    TaskOf,          \* Session -> the task it is given
    Setups,          \* what may be configured: [key, replayer, remote]
    MaxWall,         \* bound: the wall clock, which is not the chain's
    MaxFaults,       \* bound: calls to the node that fail
    Nothing

ASSUME RunAssumption ==
    /\ TaskOf \in [Session -> TaskId]
    /\ Setups \subseteq [key : [Session -> User], replayer : SUBSET Session, remote : BOOLEAN]
    /\ MaxWall \in Nat \ {0} /\ MaxFaults \in Nat

VARIABLES
    setup,     \* the keys of the sessions, which may share one; the sessions that call
               \* the gate with somebody's old header; whether a facilitator is remote
    pc,        \* Session -> where it is in play()
    agentOf,   \* Session -> the agent id it registered, or 0
    payment,   \* Session -> the authorisation in its X-PAYMENT header, or Nothing
    checks,    \* Session -> the verifications grant() has still to make
    journal,   \* Session -> the status of its run, "none" before start_run
    noted,     \* Session -> whether the journal has its claim
    refused,   \* history: Session -> whether any verification was not a yes
    broadcast, \* history: the payers and nonces of headers sent to the token itself
    wall, faults

sessionVars == <<pc, agentOf, payment, checks, journal, noted, refused>>
chainVars == vars
runVars == <<setup, chainVars, sessionVars, broadcast, wall, faults>>

AddressOf(s) == setup.key[s]
Replayer == setup.replayer

Status == {"started", "blocked", "abstained", "failed", "committed"}
Over == {"blocked", "abstained", "failed", "committed", "sold", "raised"}

Go(s, where) == pc' = [pc EXCEPT ![s] = where]
Journal(s, status) == journal' = [journal EXCEPT ![s] = status]
Nonce(s) == ClaimNonce(TaskOf[s], agentOf[s])

\* A status nobody reads.
FailUnnamed(s) == Go(s, "failed") /\ Journal(s, "error")
\* A PaymentError or a ChainError inside play()'s try, or out of the gate.
Fail(s) ==
    /\ Go(s, "failed")
    /\ IF s \in Replayer THEN UNCHANGED journal ELSE Journal(s, "failed")

-----------------------------------------------------------------------------
\* ResolverAgent.__init__ registers an agent, however often its key has one.
Enlist(s) ==
    /\ pc[s] = "new"
    /\ \E a \in AgentId :
           /\ Register(AddressOf(s), a)
           /\ agentOf' = [agentOf EXCEPT ![s] = a]
    /\ Go(s, "idle")
    /\ UNCHANGED <<payment, checks, journal, noted, refused, wall, faults>>

\* start_run, the limiter's answer and the policy's decision.
Begin(s) ==
    /\ pc[s] = "idle" /\ s \notin Replayer
    /\ \/ Go(s, "asking") /\ Journal(s, "started")
       \/ \E end \in {"blocked", "abstained"} : Go(s, end) /\ Journal(s, end)
    /\ UNCHANGED <<chainVars, agentOf, payment, checks, noted, refused, wall, faults>>

\* The verifications of a grant: its own, then those of settle().
Verifications == IF setup.remote THEN <<"remote", "remote", "local">> ELSE <<"local", "local">>

\* The header is in the gate's hands.
Present(s, p) ==
    /\ payment' = [payment EXCEPT ![s] = p]
    /\ checks' = [checks EXCEPT ![s] = Verifications]
    /\ Go(s, "granting")

\* The terms of the 402, and the header that answers it.
Challenge(s) == [value |-> tasks[TaskOf[s]].fee, to |-> Arena, nonce |-> Nonce(s)]
Header(from, req, until) ==
    [from |-> from, to |-> req.to, value |-> req.value, validAfter |-> 0,
     validBefore |-> until, nonce |-> req.nonce]
Payment == [from : User, to : {Arena}, value : Nat, validAfter : {0}, validBefore : Nat,
            nonce : TaskId \X AgentId]
Meets(p, req) == p.value = req.value /\ p.to = req.to /\ p.nonce = req.nonce

\* The 402 and its answer: the fee and the nonce are the challenge's, the time the
\* payer's own.  A task nobody posted raises, outside the try.
Pay(s) ==
    /\ pc[s] = "asking"
    /\ IF tasks[TaskOf[s]] = Absent
       THEN Go(s, "raised") /\ UNCHANGED <<signed, payment, checks>>
       ELSE LET p == Header(AddressOf(s), Challenge(s), wall + PaymentTimeout)
            IN  signed' = signed \cup {p} /\ Present(s, p)
    /\ UNCHANGED <<now, balances, authorizations, registryVars, arenaVars, raised,
                   agentOf, journal, noted, refused, wall, faults>>

\* A client that hands the gate a header made for another claim, or one whose signature
\* is not the payer's.
Replay(s) ==
    /\ pc[s] = "idle" /\ s \in Replayer /\ tasks[TaskOf[s]] # Absent
    /\ \E p \in signed \cup {Header(AddressOf(s), Challenge(s), MaxWall + 1)} : Present(s, p)
    /\ UNCHANGED <<chainVars, agentOf, journal, noted, refused, wall, faults>>

-----------------------------------------------------------------------------
\* Takes the payer's word for the signature.
LocalVerifyUnsigned(s) ==
    LET p == payment[s]
    IN  /\ Meets(p, Challenge(s))
        /\ p.validBefore > wall /\ p.validAfter <= wall
        /\ p.nonce \notin authorizations[p.from]
        /\ Covers(balances, p.from, p.value)

\* LocalFacilitator.verify: the terms, the window by the wall clock, the signature,
\* the nonce, the balance.
LocalVerify(s) ==
    LET p == payment[s]
    IN  /\ Meets(p, Challenge(s))
        /\ p.validBefore > wall /\ p.validAfter <= wall
        /\ p \in signed
        /\ p.nonce \notin authorizations[p.from]
        /\ Covers(balances, p.from, p.value)

\* Lets a facilitator that cannot be reached through.
OpenVerdict(kind, answer) == IF answer = "unreachable" THEN "yes" ELSE answer

\* A remote facilitator says anything, or nothing that can be read; what _post turns
\* into a PaymentError is a no, what it does not escapes.
Verdict(kind, answer) == IF kind = "remote" /\ answer = "unreachable" THEN "no" ELSE answer

VerifyAnswers(s) ==
    IF Head(checks[s]) = "remote" THEN {"yes", "no", "unreachable", "escapes"}
    ELSE IF LocalVerify(s) THEN {"yes"} ELSE {"no"}

\* A no ends play() as failed; an exception it does not catch goes through it.
Verify(s) ==
    /\ pc[s] = "granting" /\ checks[s] # <<>>
    /\ \E answer \in VerifyAnswers(s) :
           LET verdict == Verdict(Head(checks[s]), answer)
           IN  /\ checks' = [checks EXCEPT ![s] = Tail(@)]
               /\ refused' = [refused EXCEPT ![s] = @ \/ answer # "yes"]
               /\ CASE verdict = "yes" -> UNCHANGED <<pc, journal>>
                    [] verdict = "no" -> Fail(s)
                    [] verdict = "escapes" -> Go(s, "raised") /\ UNCHANGED journal
    /\ UNCHANGED <<chainVars, agentOf, payment, noted, wall, faults>>

\* What the chain asks before it writes, and whether it can go through with it.
Claimable(s) ==
    LET id == TaskOf[s]
        p == payment[s]
    IN  /\ In(id, "Open") /\ PaymentMatches(id, agentOf[s], p)
        /\ tasks[id].fee > 0 => Authorized(p)
        /\ \/ Covers(balances, p.from, tasks[id].fee + tasks[id].slashAmount)
           \/ raised < MaxRaised

\* Takes a claim without a payment for a failure.
SoldIfPaid(s) == Claimable(s) /\ raised' = raised /\ tasks[TaskOf[s]].fee > 0
Sold(s) == Claimable(s) /\ raised' = raised

\* settle() submits the claim; a ChainError is a failed settlement.
Submit(s) ==
    /\ pc[s] = "granting" /\ checks[s] = <<>>
    /\ \/ Claimable(s) /\ ClaimTask(TaskOf[s], agentOf[s], payment[s])
       \/ ~Claimable(s) /\ UNCHANGED chainVars
    /\ IF Sold(s)
       THEN Go(s, IF s \in Replayer THEN "sold" ELSE "paid") /\ UNCHANGED journal
       ELSE Fail(s)
    /\ UNCHANGED <<agentOf, payment, checks, noted, refused, wall, faults>>

\* Writes the claim down before it is settled.
NotePaidEarly(s) ==
    /\ pc[s] \in {"granting", "paid"} /\ ~noted[s]
    /\ noted' = [noted EXCEPT ![s] = TRUE]
    /\ UNCHANGED <<chainVars, pc, agentOf, payment, checks, journal, refused, wall, faults>>
\* The two reads behind "paid", then the claim goes into the journal.
NotePaid(s) ==
    /\ pc[s] = "paid" /\ ~noted[s]
    /\ noted' = [noted EXCEPT ![s] = TRUE]
    /\ UNCHANGED <<chainVars, pc, agentOf, payment, checks, journal, refused, wall, faults>>

CommitDue(s) == In(TaskOf[s], "Claimed") /\ now <= tasks[TaskOf[s]].commitDeadline

\* The commit and what follows it; a ChainError goes through play().
Commit(s) ==
    /\ pc[s] = "paid" /\ noted[s]
    /\ IF CommitDue(s)
       THEN /\ \E v \in Answer, r \in Reasoning : CommitVerdict(AddressOf(s), TaskOf[s], v, r)
            /\ Go(s, "committed") /\ Journal(s, "committed")
       ELSE Go(s, "raised") /\ UNCHANGED <<chainVars, journal>>
    /\ UNCHANGED <<agentOf, payment, checks, noted, refused, wall, faults>>

\* The node fails a call: a read, or a transaction it may yet have taken.  Only while
\* the grant is made, and only when the node answered (RpcError is a ChainError, the
\* errors of the connection are not), does play() catch it.
NodeFails(s) ==
    /\ faults < MaxFaults /\ faults' = faults + 1
    /\ \/ /\ pc[s] = "granting" /\ (Fail(s) \/ (Go(s, "raised") /\ UNCHANGED journal))
          /\ \/ UNCHANGED chainVars
             \/ checks[s] = <<>> /\ Claimable(s) /\ ClaimTask(TaskOf[s], agentOf[s], payment[s])
       \/ /\ pc[s] \in {"asking", "paid"} /\ Go(s, "raised") /\ UNCHANGED journal
          /\ \/ UNCHANGED chainVars
             \/ /\ pc[s] = "paid" /\ noted[s] /\ CommitDue(s)
                /\ \E v \in Answer, r \in Reasoning :
                       CommitVerdict(AddressOf(s), TaskOf[s], v, r)
    /\ UNCHANGED <<agentOf, payment, checks, noted, refused, wall>>

-----------------------------------------------------------------------------
\* Posters, who post and settle what they committed to, and the rest of the market.
Market ==
    /\ \/ \E u \in User, terms \in Terms : PostTask(u, terms, "Yes")
       \/ \E a \in AgentId, u \in AgentBuyers : TransferAgent(a, u)
       \/ \E u \in User, id \in TaskId : CancelTask(u, id)
       \/ \E u \in User, id \in TaskId : Settle(u, id, "Yes")
       \/ \E id \in TaskId : TimeoutCommit(id)
       \/ Advance
    /\ UNCHANGED <<sessionVars, wall, faults>>

\* transferWithAuthorization is open to whoever holds a signed header: its payer, the
\* gate, a facilitator it was sent to.  The mirror's token has no such call, so this is
\* the contracts', where no call raises half way.
Broadcast(p) ==
    /\ MaxRaised = 0
    /\ Authorized(p) /\ Covers(balances, p.from, p.value)
    /\ authorizations' = [authorizations EXCEPT ![p.from] = @ \cup {p.nonce}]
    /\ balances' = Moved(balances, p.from, p.to, p.value)
    /\ broadcast' = broadcast \cup {<<p.from, p.nonce>>}
    /\ UNCHANGED <<now, signed, registryVars, arenaVars, raised, sessionVars, wall, faults>>

WallTick ==
    /\ wall < MaxWall
    /\ wall' = wall + 1
    /\ UNCHANGED <<chainVars, sessionVars, faults>>

\* A facilitator that is given no timeout may never answer.
PlayUntimed(s) ==
    Enlist(s) \/ Begin(s) \/ Pay(s) \/ Replay(s) \/ Submit(s) \/ NotePaid(s) \/ Commit(s)
Play(s) ==
    Enlist(s) \/ Begin(s) \/ Pay(s) \/ Replay(s) \/ Verify(s) \/ Submit(s)
        \/ NotePaid(s) \/ Commit(s)

RunInit ==
    /\ Init /\ setup \in Setups
    /\ pc = [s \in Session |-> "new"] /\ agentOf = [s \in Session |-> 0]
    /\ payment = [s \in Session |-> Nothing] /\ checks = [s \in Session |-> <<>>]
    /\ journal = [s \in Session |-> "none"] /\ noted = [s \in Session |-> FALSE]
    /\ refused = [s \in Session |-> FALSE] /\ broadcast = {}
    /\ wall = 1 /\ faults = 0

RunNext ==
    /\ UNCHANGED setup
    /\ \/ \E p \in signed : Broadcast(p)
       \/ /\ (\E s \in Session : Play(s) \/ NodeFails(s)) \/ Market \/ WallTick
          /\ UNCHANGED broadcast

\* play() runs on, and every call it makes has a timeout.
RunSpec ==
    /\ RunInit /\ [][RunNext]_runVars
    /\ \A s \in Session : WF_runVars(Play(s) /\ UNCHANGED <<setup, broadcast>>)

-----------------------------------------------------------------------------
RunTypeOK ==
    /\ setup \in Setups
    /\ pc \in [Session -> Over \cup {"new", "idle", "asking", "granting", "paid"}]
    /\ agentOf \in [Session -> {0} \cup AgentId]
    /\ payment \in [Session -> Payment \cup {Nothing}]
    /\ checks \in [Session -> Seq({"remote", "local"})]
    /\ journal \in [Session -> Status \cup {"none"}]
    /\ noted \in [Session -> BOOLEAN] /\ refused \in [Session -> BOOLEAN]
    /\ broadcast \subseteq User \X (TaskId \X AgentId)
    /\ wall \in 1..MaxWall /\ faults \in 0..MaxFaults

\* The session's own agent has its task.
Claimed(s) == agentOf[s] # 0 /\ tasks[TaskOf[s]] # Absent /\ tasks[TaskOf[s]].agentId = agentOf[s]
NonceUsed(s) == agentOf[s] # 0 /\ Nonce(s) \in authorizations[AddressOf(s)]
\* The authorisation went to the token past the arena, which is nothing play() did.
Leaked(s) == <<AddressOf(s), Nonce(s)>> \in broadcast
Untouched(s) == ~Claimed(s) /\ (NonceUsed(s) => Leaked(s))

\* "A claim needs both the facilitator's `isValid` and the arena's own verification",
\* and "It fails closed" (x402.py:371-376): a session one of whose verifications was
\* not a yes does not have its task, and has not spent its authorisation unless
\* somebody it was shown to sent it to the token, which charges the payer for nothing.
FailsClosed == \A s \in Session : refused[s] => Untouched(s)

\* What the gate sold, the payer signed for: this task, this agent, this fee, by the
\* key that is recorded as the resolver, free tasks included, which the chain lets
\* through without a look at the signature (x402.py:491-508, arena.py:351-353).
SoldAsSigned ==
    \A s \in Session : Claimed(s) =>
        \E p \in signed : /\ p.nonce = Nonce(s) /\ p.value = tasks[TaskOf[s]].fee
                          /\ p.from = tasks[TaskOf[s]].resolver

\* The journal does not run ahead of the chain, whatever happens in between: a run it
\* calls committed has its verdict on the chain, a claim it holds was really bought.
JournalTruthful ==
    \A s \in Session :
        /\ journal[s] = "committed" =>
               Claimed(s) /\ tasks[TaskOf[s]].committed # "None"
        /\ noted[s] => Claimed(s) /\ (tasks[TaskOf[s]].fee > 0 => NonceUsed(s))

\* A run that is blocked, abstains or fails has bought nothing; the comment on the
\* failed settlement is "the settlement transaction reverted" (x402.py:352).  As long,
\* that is, as no call raised half way and the node lost none; and a header that
\* somebody sent to the token has charged its payer all the same.
FailureIsFree ==
    raised = 0 /\ faults = 0 =>
        \A s \in Session : journal[s] \in {"blocked", "abstained", "failed"} => Untouched(s)
=============================================================================
