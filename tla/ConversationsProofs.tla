------------------------ MODULE ConversationsProofs ------------------------
(***************************************************************************)
(* Proofs about the parts of Conversations, for any values of its constants *)
(* and whatever the other side answers.  The runs: the claim gate fails     *)
(* closed, what it sold was signed for, and a journal does not run ahead of *)
(* the chain.  The router: a record is what happened.  The adapter: what a  *)
(* call returns is true.                                                    *)
(***************************************************************************)
EXTENDS Conversations, InMemoryChainProofs

-----------------------------------------------------------------------------
(* The inductive invariant. *)

\* The session's claim left a mark: the task is its agent's, or the claim's
\* authorisation is used up, whoever's it was, and not by who sent it to the token.
Spent(s) ==
    /\ agentOf[s] # 0
    /\ \E u \in Address : Nonce(s) \in authorizations[u] /\ <<u, Nonce(s)>> \notin broadcast
Bought(s) == Claimed(s) \/ Spent(s)

\* Every agent is one session's.
Distinct == \A s, t \in Session : s # t /\ agentOf[s] # 0 => agentOf[s] # agentOf[t]

\* No task, no header and no used nonce names an agent that is not registered yet, and
\* an open task names none.
KnownAgents ==
    /\ \A id \in TaskId : tasks[id] # Absent /\ tasks[id].agentId # 0 =>
           agents[tasks[id].agentId] # NoOne
    /\ \A id \in TaskId : In(id, "Open") => tasks[id].agentId = 0
    /\ \A u \in Address : \A n \in authorizations[u] : agents[n[2]] # NoOne
    /\ \A p \in signed : agents[p.nonce[2]] # NoOne

Enlisted(s) ==
    /\ agentOf[s] = 0 <=> pc[s] = "new"
    /\ agentOf[s] # 0 => agents[agentOf[s]] # NoOne

\* What grant() has still to ask ends with the chain's own verification.
Pending == {<<"remote", "remote", "local">>, <<"remote", "local">>, <<"local">>,
            <<"local", "local">>, <<>>}

\* Where the header is, and that it was verified when nothing is left to verify.
Presented(s) ==
    /\ checks[s] \in Pending
    /\ pc[s] = "granting" /\ checks[s] = <<>> => payment[s] \in signed
    /\ pc[s] \in {"asking", "paid", "committed"} => s \notin Replayer
    /\ pc[s] \in {"granting", "paid"} /\ s \notin Replayer => payment[s].from = AddressOf(s)

\* A claim is its payer's.
Signed(s) ==
    Claimed(s) =>
        /\ payment[s] \in signed /\ payment[s].nonce = Nonce(s)
        /\ payment[s].value = tasks[TaskOf[s]].fee
        /\ payment[s].from = tasks[TaskOf[s]].resolver

Verdictless == {"blocked", "abstained", "failed"}

\* Nothing is bought before the end, nothing by who was refused, and nothing by who
\* fails as long as no call does.
Buying(s) ==
    /\ refused[s] => pc[s] \in {"failed", "raised"} /\ ~Bought(s)
    /\ Bought(s) => pc[s] \in {"paid", "sold", "committed", "failed", "raised"}
    /\ Bought(s) /\ pc[s] = "failed" => raised # 0 \/ faults # 0
    /\ journal[s] \in Verdictless => pc[s] \in Verdictless

\* The journal, and the claim it is about to write down.
Noted(s) ==
    /\ noted[s] \/ pc[s] = "paid" => Claimed(s) /\ (tasks[TaskOf[s]].fee > 0 => NonceUsed(s))
    /\ journal[s] = "committed" => Claimed(s) /\ tasks[TaskOf[s]].committed # "None"

Sound(s) == Enlisted(s) /\ Presented(s) /\ Signed(s) /\ Buying(s) /\ Noted(s)

Sessions == \A s \in Session : Sound(s)

RunInv == RunTypeOK /\ MirrorInv /\ Distinct /\ KnownAgents /\ Sessions

-----------------------------------------------------------------------------
(* What a step leaves of the claims it does not make. *)

TaskKept(id) ==
    IF tasks[id] = Absent
    THEN tasks'[id] = Absent \/ tasks'[id].agentId = 0
    ELSE /\ tasks'[id] # Absent
         /\ tasks'[id].fee = tasks[id].fee /\ tasks'[id].agentId = tasks[id].agentId
         /\ tasks'[id].resolver = tasks[id].resolver
         /\ tasks[id].committed # "None" => tasks'[id].committed # "None"
         /\ tasks'[id].status = "Open" => tasks[id].status = "Open"

\* A step without a claim.
ChainKept ==
    /\ \A id \in TaskId : TaskKept(id)
    /\ UNCHANGED authorizations /\ signed \subseteq signed' /\ StillRegistered
    /\ \A p \in signed' \ signed : p.nonce[2] \in AgentId /\ agents[p.nonce[2]] # NoOne
    /\ raised # 0 => raised' # 0

\* What a session is left with by a step that is not its own.
Undisturbed(t) ==
    /\ Claimed(t)' <=> Claimed(t)
    /\ Spent(t)' => Spent(t)
    /\ NonceUsed(t) => NonceUsed(t)'
    /\ Claimed(t) => /\ tasks'[TaskOf[t]].fee = tasks[TaskOf[t]].fee
                     /\ tasks'[TaskOf[t]].resolver = tasks[TaskOf[t]].resolver
                     /\ tasks[TaskOf[t]].committed # "None" =>
                            tasks'[TaskOf[t]].committed # "None"
    /\ signed \subseteq signed' /\ StillRegistered
    /\ raised # 0 \/ faults # 0 => raised' # 0 \/ faults' # 0

\* The session itself stays where it is.
Resting(t) ==
    /\ pc'[t] = pc[t] /\ agentOf'[t] = agentOf[t] /\ payment'[t] = payment[t]
    /\ checks'[t] = checks[t] /\ journal'[t] = journal[t] /\ noted'[t] = noted[t]
    /\ refused'[t] = refused[t]

LEMMA SessionTask == \A s \in Session : TaskOf[s] \in TaskId
BY RunAssumption

LEMMA AgentsTyped ==
    ASSUME RunTypeOK, NEW t \in Session
    PROVE  agentOf[t] \in {0} \cup AgentId /\ 0 \notin AgentId /\ AddressOf(t) \in User
BY RunAssumption DEF RunTypeOK, AgentId, AddressOf

LEMMA RestingSound ==
    ASSUME RunTypeOK, NEW t \in Session, UNCHANGED setup, Sound(t), Resting(t), Undisturbed(t)
    PROVE  Sound(t)'
<1>1. Enlisted(t)'
  BY AgentsTyped DEF Sound, Enlisted, Resting, Undisturbed, StillRegistered
<1>2. Presented(t)'
  BY DEF Sound, Presented, Resting, Undisturbed, Replayer, AddressOf
<1>3. Signed(t)'
  BY DEF Sound, Signed, Resting, Undisturbed, Nonce
<1>4. Buying(t)'
  BY DEF Sound, Buying, Bought, Resting, Undisturbed
<1>5. Noted(t)'
  BY DEF Sound, Noted, Resting, Undisturbed
<1> QED BY <1>1, <1>2, <1>3, <1>4, <1>5 DEF Sound

LEMMA KeptUndisturbed ==
    ASSUME ChainKept, NEW t \in Session, agentOf'[t] = agentOf[t], UNCHANGED <<setup, broadcast>>,
           faults # 0 => faults' # 0
    PROVE  Undisturbed(t)
<1>1. TaskOf[t] \in TaskId /\ TaskKept(TaskOf[t])
  BY SessionTask DEF ChainKept
<1>2. Claimed(t)' <=> Claimed(t)
  BY <1>1 DEF Claimed, TaskKept
<1>3. (Spent(t)' => Spent(t)) /\ (NonceUsed(t) => NonceUsed(t)')
  BY DEF Spent, NonceUsed, Nonce, ChainKept, AddressOf
<1> QED BY <1>1, <1>2, <1>3 DEF Undisturbed, ChainKept, Claimed, TaskKept

LEMMA KeptKnown ==
    ASSUME TypeOK, KnownAgents, ChainKept
    PROVE  KnownAgents'
<1>1. ASSUME NEW id \in TaskId, tasks'[id] # Absent, tasks'[id].agentId # 0
      PROVE  agents'[tasks'[id].agentId] # NoOne
  <2>1. tasks[id] # Absent /\ tasks'[id].agentId = tasks[id].agentId
    BY <1>1 DEF ChainKept, TaskKept
  <2>2. tasks[id].agentId \in AgentId /\ agents[tasks[id].agentId] # NoOne
    BY <1>1, <2>1, TaskRecord DEF KnownAgents, Task
  <2> QED BY <2>1, <2>2 DEF ChainKept, StillRegistered
<1>2. ASSUME NEW u \in Address, NEW n \in authorizations'[u]
      PROVE  agents'[n[2]] # NoOne
  <2>1. n \in authorizations[u] /\ n[2] \in AgentId
    BY <1>2 DEF ChainKept, TypeOK
  <2> QED BY <2>1 DEF KnownAgents, ChainKept, StillRegistered
<1>3. ASSUME NEW id \in TaskId, In(id, "Open")'
      PROVE  tasks'[id].agentId = 0
  <2>1. TaskKept(id)
    BY DEF ChainKept
  <2> QED BY <1>3, <2>1 DEF KnownAgents, TaskKept, In
<1>4. ASSUME NEW p \in signed'
      PROVE  agents'[p.nonce[2]] # NoOne
  <2>1. CASE p \in signed
    <3>1. p.nonce[2] \in AgentId /\ agents[p.nonce[2]] # NoOne
      BY <2>1 DEF KnownAgents, TypeOK
    <3> QED BY <3>1 DEF ChainKept, StillRegistered
  <2>2. CASE p \notin signed
    BY <1>4, <2>2 DEF ChainKept, StillRegistered
  <2> QED BY <2>1, <2>2
<1> QED BY <1>1, <1>2, <1>3, <1>4 DEF KnownAgents

-----------------------------------------------------------------------------
(* The steps that make no claim. *)

LEMMA QuietKept == ASSUME UNCHANGED chainVars PROVE ChainKept
BY DEF chainVars, vars, tokenVars, registryVars, arenaVars, ChainKept, TaskKept, StillRegistered

\* A step that writes into one task, and leaves its terms and its holder alone.
LEMMA OneTaskKept ==
    ASSUME TypeOK, NEW id \in TaskId, tasks[id] # Absent, NEW after,
           tasks' = [tasks EXCEPT ![id] = after],
           after.poster = tasks[id].poster, after.fee = tasks[id].fee,
           after.agentId = tasks[id].agentId, after.resolver = tasks[id].resolver,
           after.committed = tasks[id].committed \/ after.committed # "None",
           after.status # "Open"
    PROVE  \A j \in TaskId : TaskKept(j)
<1>1. DOMAIN tasks = TaskId
  BY DEF TypeOK
<1>2. after # Absent
  BY TaskRecord, Places DEF Absent
<1> QED BY <1>1, <1>2 DEF TaskKept

LEMMA RegistryKept ==
    ASSUME TypeOK, NEW u \in User, NEW a \in AgentId, Register(u, a) \/ TransferAgent(a, u)
    PROVE  ChainKept
<1>1. StillRegistered
  BY Places DEF Register, TransferAgent, StillRegistered, TypeOK
<1>2. UNCHANGED <<tasks, authorizations, signed, raised>>
  BY DEF Register, TransferAgent, tokenVars, arenaVars
<1> QED BY <1>1, <1>2 DEF ChainKept, TaskKept

LEMMA PostKept ==
    ASSUME MirrorInv, NEW u \in User, NEW terms \in Terms, NEW v \in Answer, PostTask(u, terms, v)
    PROVE  ChainKept
<1>1. /\ UNCHANGED <<agents, authorizations, signed>> /\ nextTask \in TaskId
      /\ tasks[nextTask] = Absent /\ DOMAIN tasks = TaskId
  BY DEF PostTask, registryVars, MirrorInv, TypeOK, UnpostedAbsent, TaskId
<1>2. raised # 0 => raised' # 0
  BY DEF PostTask, Raise, MirrorInv, TypeOK
<1>3. \A j \in TaskId \ {nextTask} : tasks'[j] = tasks[j]
  BY <1>1 DEF PostTask
<1>4. tasks'[nextTask] = Absent \/ tasks'[nextTask].agentId = 0
  BY <1>1 DEF PostTask
<1> QED BY <1>1, <1>2, <1>3, <1>4 DEF ChainKept, TaskKept, StillRegistered

LEMMA CancelKept ==
    ASSUME TypeOK, NEW u \in User, NEW id \in TaskId, CancelTask(u, id)
    PROVE  ChainKept
<1>1. PICK after : after = [tasks[id] EXCEPT !.status = "Cancelled"]
  OBVIOUS
<1>2. tasks[id] \in Task /\ tasks[id] # Absent
  BY TaskRecord DEF CancelTask, In
<1>3. tasks' = [tasks EXCEPT ![id] = after]
  BY <1>1 DEF CancelTask
<1>4. /\ after.poster = tasks[id].poster /\ after.fee = tasks[id].fee
      /\ after.agentId = tasks[id].agentId /\ after.resolver = tasks[id].resolver
      /\ after.committed = tasks[id].committed /\ after.status = "Cancelled"
  BY <1>1, <1>2 DEF Task
<1>5. \A j \in TaskId : TaskKept(j)
  BY <1>2, <1>3, <1>4, OneTaskKept
<1> QED BY <1>5 DEF CancelTask, tokenVars, registryVars, ChainKept, StillRegistered

LEMMA EndKept ==
    ASSUME TypeOK, NEW id \in TaskId, tasks[id] # Absent, NEW how, NEW ended,
           ended.poster = tasks[id].poster, ended.fee = tasks[id].fee,
           ended.agentId = tasks[id].agentId, ended.resolver = tasks[id].resolver,
           ended.committed = tasks[id].committed, ended.status = "Settled", End(id, how, ended)
    PROVE  ChainKept
<1>1. tasks' = [tasks EXCEPT ![id] = ended] /\ UNCHANGED <<authorizations, signed, agents>>
  BY DEF End
<1>2. raised # 0 => raised' # 0
  BY DEF End, Raise, TypeOK
<1>3. \A j \in TaskId : TaskKept(j)
  BY <1>1, OneTaskKept
<1> QED BY <1>1, <1>2, <1>3 DEF ChainKept, StillRegistered

LEMMA SettleKept ==
    ASSUME TypeOK, NEW u \in User, NEW id \in TaskId, NEW v, Settle(u, id, v)
    PROVE  ChainKept
<1>1. PICK how, ended :
          /\ \E c \in {"True", "False"} :
                 ended = [tasks[id] EXCEPT !.status = "Settled", !.truth = v, !.correct = c]
          /\ End(id, how, ended)
  BY DEF Settle
<1>2. tasks[id] \in Task /\ tasks[id] # Absent
  BY TaskRecord DEF Settle, In
<1>3. /\ ended.poster = tasks[id].poster /\ ended.fee = tasks[id].fee
      /\ ended.agentId = tasks[id].agentId /\ ended.resolver = tasks[id].resolver
      /\ ended.committed = tasks[id].committed /\ ended.status = "Settled"
  BY <1>1, <1>2 DEF Task
<1> QED BY <1>1, <1>2, <1>3, EndKept

LEMMA TimeoutKept ==
    ASSUME TypeOK, NEW id \in TaskId, TimeoutCommit(id)
    PROVE  ChainKept
<1>1. PICK ended : /\ ended = [tasks[id] EXCEPT !.status = "Settled"]
                   /\ End(id, "commit-timeout", ended)
  BY DEF TimeoutCommit
<1>2. tasks[id] \in Task /\ tasks[id] # Absent
  BY TaskRecord DEF TimeoutCommit, In
<1>3. /\ ended.poster = tasks[id].poster /\ ended.fee = tasks[id].fee
      /\ ended.agentId = tasks[id].agentId /\ ended.resolver = tasks[id].resolver
      /\ ended.committed = tasks[id].committed /\ ended.status = "Settled"
  BY <1>1, <1>2 DEF Task
<1> QED BY <1>1, <1>2, <1>3, EndKept

LEMMA CommitKept ==
    ASSUME TypeOK, NEW u, NEW id \in TaskId, NEW v \in Answer, NEW h, CommitVerdict(u, id, v, h)
    PROVE  ChainKept /\ tasks'[id].committed # "None"
<1>1. PICK after : after = [tasks[id] EXCEPT !.committed = v, !.reasoningHash = h,
                                !.status = "Committed", !.settleDeadline = now + SettleWindow]
  OBVIOUS
<1>2. tasks[id] \in Task /\ tasks[id] # Absent
  BY TaskRecord DEF CommitVerdict, In
<1>3. tasks' = [tasks EXCEPT ![id] = after] /\ DOMAIN tasks = TaskId
  BY <1>1 DEF CommitVerdict, TypeOK
<1>4. after.committed # "None" /\ after.status = "Committed"
  BY <1>1, <1>2 DEF Task, Answer
<1>5. \A j \in TaskId : TaskKept(j)
  BY <1>1, <1>2, <1>3, <1>4, OneTaskKept DEF Task
<1> QED BY <1>3, <1>4, <1>5 DEF CommitVerdict, tokenVars, ChainKept, StillRegistered

\* The rest of the market moves as the object does, and leaves the claims alone.
LEMMA MarketSteps ==
    ASSUME MirrorInv, Market
    PROVE  MirrorInv' /\ ChainKept /\ UNCHANGED <<sessionVars, wall, faults>>
<1>1. TypeOK
  BY DEF MirrorInv
<1>2. ASSUME NEW u \in User, NEW terms \in Terms, PostTask(u, terms, "Yes")
      PROVE  MirrorInv' /\ ChainKept
  <2>1. "Yes" \in Answer
    BY DEF Answer
  <2> QED BY <1>2, <2>1, PostKeeps, PostKept
<1>3. ASSUME NEW a \in AgentId, NEW u \in AgentBuyers, TransferAgent(a, u)
      PROVE  MirrorInv' /\ ChainKept
  <2>1. u \in User
    BY MirrorAssumption
  <2> QED BY <1>1, <1>3, <2>1, RegistryKeeps, RegistryKept
<1>4. ASSUME NEW u \in User, NEW id \in TaskId, CancelTask(u, id)
      PROVE  MirrorInv' /\ ChainKept
  BY <1>1, <1>4, CancelKeeps, CancelKept
<1>5. ASSUME NEW u \in User, NEW id \in TaskId, Settle(u, id, "Yes")
      PROVE  MirrorInv' /\ ChainKept
  <2>1. "Yes" \in Answer
    BY DEF Answer
  <2> QED BY <1>1, <1>5, <2>1, SettleKeeps, SettleKept
<1>6. ASSUME NEW id \in TaskId, TimeoutCommit(id)
      PROVE  MirrorInv' /\ ChainKept
  BY <1>1, <1>6, TimeoutKeeps, TimeoutKept
<1>7. ASSUME Advance
      PROVE  MirrorInv' /\ ChainKept
  <2>1. UNCHANGED <<tasks, authorizations, signed, agents, raised>>
    BY <1>7 DEF Advance, tokenVars, registryVars, arenaVars
  <2> QED BY <1>7, <2>1, AdvanceKeeps DEF ChainKept, TaskKept, StillRegistered
<1> QED BY <1>2, <1>3, <1>4, <1>5, <1>6, <1>7 DEF Market

-----------------------------------------------------------------------------
(* The step that makes one. *)

\* Agent a pays for task id with p: the task becomes its own, unless the call raises half
\* way, and no other session notices.
ClaimMade(id, a, p) ==
    /\ tasks[id] # Absent /\ tasks'[id] # Absent /\ tasks[id].agentId = 0
    /\ agents[a] = p.from /\ p.from \in User
    /\ p.value = tasks[id].fee /\ p.nonce = <<id, a>>
    /\ tasks'[id].fee = tasks[id].fee
    /\ \/ tasks'[id] = tasks[id] /\ raised' # raised
       \/ tasks'[id].agentId = a /\ tasks'[id].resolver = p.from /\ tasks'[id].status = "Claimed"
    /\ tasks[id].fee > 0 => <<id, a>> \in authorizations'[p.from]
    /\ \A u \in Address : /\ authorizations[u] \subseteq authorizations'[u]
                          /\ authorizations'[u] \subseteq authorizations[u] \cup {<<id, a>>}
    /\ \A j \in TaskId \ {id} : tasks'[j] = tasks[j]
    /\ UNCHANGED <<signed, agents>>
    /\ raised' # raised => raised' # 0
    /\ raised # 0 => raised' # 0

LEMMA ClaimSteps ==
    ASSUME MirrorInv, KnownAgents, NEW id \in TaskId, NEW a \in AgentId, NEW p \in signed,
           ClaimTask(id, a, p)
    PROVE  MirrorInv' /\ ClaimMade(id, a, p)
<1>1. MirrorInv'
  <2>1. PICK u \in User : u = p.from
    BY DEF MirrorInv, TypeOK
  <2> QED BY <2>1, NextMirror DEF Next
<1>2. /\ In(id, "Open") /\ tasks[id] \in Task /\ tasks[id] # Absent /\ tasks[id].fee \in Nat
      /\ tasks[id].agentId = 0
  BY TaskRecord DEF ClaimTask, In, MirrorInv, KnownAgents
<1>3. /\ agents[a] = p.from /\ p.value = tasks[id].fee /\ p.nonce = <<id, a>>
      /\ p.from \in User /\ p.from \in Address
  BY Places DEF ClaimTask, PaymentMatches, ClaimNonce, MirrorInv, TypeOK
<1>4. /\ UNCHANGED <<signed, agents>>
      /\ authorizations' = [authorizations EXCEPT ![p.from] =
             IF tasks[id].fee > 0 THEN @ \cup {p.nonce} ELSE @]
  BY DEF ClaimTask, registryVars
<1>5. /\ tasks[id].fee > 0 => <<id, a>> \in authorizations'[p.from]
      /\ \A u \in Address : /\ authorizations[u] \subseteq authorizations'[u]
                            /\ authorizations'[u] \subseteq authorizations[u] \cup {<<id, a>>}
  BY <1>3, <1>4 DEF MirrorInv, TypeOK
<1>6. (raised' # raised => raised' # 0) /\ (raised # 0 => raised' # 0)
  BY DEF ClaimTask, Raise, MirrorInv, TypeOK
<1>7. CASE ~Covers(balances, p.from, tasks[id].fee)
  <2>1. tasks' = tasks /\ raised' = raised + 1 /\ raised \in Nat
    BY <1>7 DEF ClaimTask, Raise, MirrorInv, TypeOK
  <2> QED BY <1>1, <1>2, <1>3, <1>4, <1>5, <1>6, <2>1 DEF ClaimMade
<1>8. CASE Covers(balances, p.from, tasks[id].fee)
  <2>1. PICK u, after :
            /\ u = p.from
            /\ after = [tasks[id] EXCEPT !.status = "Claimed", !.agentId = a,
                            !.resolver = u, !.commitDeadline = now + CommitWindow]
            /\ tasks' = [tasks EXCEPT ![id] = after]
    <3>1. tasks' = [tasks EXCEPT ![id].status = "Claimed", ![id].agentId = a,
                        ![id].resolver = p.from, ![id].commitDeadline = now + CommitWindow]
      BY <1>8 DEF ClaimTask
    <3>2. PICK u, after :
              /\ u = p.from
              /\ after = [tasks[id] EXCEPT !.status = "Claimed", !.agentId = a,
                              !.resolver = u, !.commitDeadline = now + CommitWindow]
      OBVIOUS
    <3>3. tasks' = [tasks EXCEPT ![id] = after]
      BY <3>1, <3>2 DEF MirrorInv, TypeOK
    <3> QED BY <3>2, <3>3
  <2>2. /\ after.agentId = a /\ after.resolver = p.from /\ after.status = "Claimed"
        /\ after.fee = tasks[id].fee /\ after.poster = tasks[id].poster
    BY <1>2, <2>1 DEF Task
  <2>3. after # Absent
    BY <1>2, <2>2, Places DEF Task, Absent
  <2>4. tasks'[id] = after /\ \A j \in TaskId \ {id} : tasks'[j] = tasks[j]
    BY <2>1 DEF MirrorInv, TypeOK
  <2> QED BY <1>1, <1>2, <1>3, <1>4, <1>5, <1>6, <2>2, <2>3, <2>4 DEF ClaimMade
<1> QED BY <1>7, <1>8

LEMMA ClaimUndisturbed ==
    ASSUME RunTypeOK, MirrorInv, Distinct, KnownAgents, NEW s \in Session, agentOf[s] # 0,
           NEW p, ClaimMade(TaskOf[s], agentOf[s], p), UNCHANGED <<setup, broadcast, agentOf>>,
           faults # 0 => faults' # 0
    PROVE  (\A t \in Session \ {s} : Undisturbed(t)) /\ KnownAgents'
<1>1. agentOf[s] \in AgentId /\ TaskOf[s] \in TaskId /\ agents[agentOf[s]] # NoOne
  BY AgentsTyped, SessionTask, Places DEF ClaimMade
<1>2. StillRegistered /\ signed \subseteq signed'
  BY DEF ClaimMade, StillRegistered
<1>3. ASSUME NEW t \in Session \ {s}
      PROVE  Undisturbed(t)
  <2>1. TaskOf[t] \in TaskId /\ agentOf[t] # agentOf[s] /\ AddressOf(t) \in Address
    BY <1>1, SessionTask, AgentsTyped, Places DEF Distinct
  <2>2. CASE TaskOf[t] = TaskOf[s]
    <3>1. ~Claimed(t) /\ ~Claimed(t)'
      BY <2>1, <2>2 DEF Claimed, ClaimMade
    <3>2. (Spent(t)' => Spent(t)) /\ (NonceUsed(t) => NonceUsed(t)')
      BY <2>1 DEF Spent, NonceUsed, Nonce, ClaimNonce, ClaimMade, AddressOf
    <3> QED BY <1>2, <3>1, <3>2 DEF Undisturbed, ClaimMade
  <2>3. CASE TaskOf[t] # TaskOf[s]
    <3>1. tasks'[TaskOf[t]] = tasks[TaskOf[t]] /\ (Claimed(t)' <=> Claimed(t))
      BY <2>1, <2>3 DEF Claimed, ClaimMade
    <3>2. (Spent(t)' => Spent(t)) /\ (NonceUsed(t) => NonceUsed(t)')
      BY <2>1 DEF Spent, NonceUsed, Nonce, ClaimNonce, ClaimMade, AddressOf
    <3> QED BY <1>2, <3>1, <3>2 DEF Undisturbed, ClaimMade
  <2> QED BY <2>2, <2>3
<1>4. KnownAgents'
  <2>1. ASSUME NEW id \in TaskId, tasks'[id] # Absent, tasks'[id].agentId # 0
        PROVE  agents'[tasks'[id].agentId] # NoOne
    BY <1>1, <2>1 DEF KnownAgents, ClaimMade
  <2>2. ASSUME NEW u \in Address, NEW n \in authorizations'[u]
        PROVE  agents'[n[2]] # NoOne
    <3>1. n \in authorizations[u] \/ n = <<TaskOf[s], agentOf[s]>>
      BY <2>2 DEF ClaimMade
    <3> QED BY <1>1, <3>1 DEF KnownAgents, ClaimMade
  <2>3. ASSUME NEW id \in TaskId, In(id, "Open")'
        PROVE  tasks'[id].agentId = 0
    BY <1>1, <2>3 DEF KnownAgents, ClaimMade, In
  <2>4. \A q \in signed' : agents'[q.nonce[2]] # NoOne
    BY DEF KnownAgents, ClaimMade
  <2> QED BY <2>1, <2>2, <2>3, <2>4 DEF KnownAgents
<1> QED BY <1>3, <1>4

-----------------------------------------------------------------------------
(* The sessions' steps. *)

\* The step is session s's own, and no other session notices.
OwnStep(s) ==
    /\ \A t \in Session \ {s} : Resting(t) /\ Undisturbed(t)
    /\ MirrorInv' /\ KnownAgents' /\ UNCHANGED <<setup, broadcast>>

LEMMA OwnStepInv ==
    ASSUME RunInv, NEW s \in Session, OwnStep(s), UNCHANGED agentOf, RunTypeOK', Sound(s)'
    PROVE  RunInv'
<1>1. \A t \in Session \ {s} : Sound(t)'
  BY RestingSound DEF RunInv, Sessions, OwnStep
<1>2. Distinct'
  BY DEF Distinct, RunInv
<1> QED BY <1>1, <1>2 DEF RunInv, OwnStep, Sessions

\* Other sessions see of a step without a claim that the agents and the wall go on.
LEMMA KeptOwnStep ==
    ASSUME RunInv, NEW s \in Session, ChainKept, MirrorInv', UNCHANGED <<setup, broadcast, agentOf>>,
           \A t \in Session \ {s} : Resting(t), faults # 0 => faults' # 0
    PROVE  OwnStep(s) /\ Undisturbed(s)
<1>1. \A t \in Session : Undisturbed(t)
  BY KeptUndisturbed
<1>2. KnownAgents'
  BY KeptKnown DEF RunInv, MirrorInv
<1> QED BY <1>1, <1>2 DEF OwnStep

LEMMA QuietOwnStep ==
    ASSUME RunInv, NEW s \in Session, UNCHANGED <<chainVars, setup, broadcast, agentOf>>,
           \A t \in Session \ {s} : Resting(t), faults # 0 => faults' # 0
    PROVE  OwnStep(s) /\ Undisturbed(s) /\ MirrorInv'
<1>1. MirrorInv'
  BY NextMirror DEF chainVars, RunInv
<1> QED BY <1>1, QuietKept, KeptOwnStep

\* Before its claim a session has bought and written down nothing.
LEMMA NothingYet ==
    ASSUME RunInv, NEW s \in Session, pc[s] \in {"new", "idle", "asking", "granting"}
    PROVE  /\ ~Claimed(s) /\ ~Spent(s) /\ ~refused[s] /\ ~noted[s]
           /\ journal[s] \notin Verdictless /\ journal[s] # "committed"
BY DEF RunInv, Sessions, Sound, Buying, Bought, Noted, Verdictless

LEMMA BeginKeeps ==
    ASSUME RunInv, NEW s \in Session, Begin(s), UNCHANGED <<setup, broadcast>>
    PROVE  RunInv'
<1>1. PICK where, status :
          /\ pc' = [pc EXCEPT ![s] = where] /\ journal' = [journal EXCEPT ![s] = status]
          /\ \/ where = "asking" /\ status = "started"
             \/ where \in {"blocked", "abstained"} /\ status = where
  BY DEF Begin, Go, Journal
<1>2. /\ pc[s] = "idle" /\ s \notin Replayer
      /\ UNCHANGED <<chainVars, agentOf, payment, checks, noted, refused, wall, faults>>
  BY DEF Begin
<1>3. RunTypeOK'
  BY <1>1, <1>2 DEF RunInv, RunTypeOK, Over, Status
<1>4. pc'[s] = where /\ journal'[s] = status /\ \A t \in Session \ {s} : Resting(t)
  BY <1>1, <1>2 DEF RunInv, RunTypeOK, Resting
<1>5. OwnStep(s) /\ Undisturbed(s)
  BY <1>2, <1>4, QuietOwnStep
<1>6. Sound(s)
  BY DEF RunInv, Sessions
<1>7. Enlisted(s)' /\ Presented(s)' /\ Signed(s)'
  BY <1>1, <1>2, <1>4, <1>5, <1>6, NothingYet
     DEF Sound, Enlisted, Presented, Signed, Undisturbed, OwnStep, chainVars, vars, registryVars,
         tokenVars, Replayer, AddressOf
<1>8. Buying(s)' /\ Noted(s)'
  BY <1>1, <1>2, <1>4, <1>5, NothingYet DEF Buying, Bought, Noted, Undisturbed, Verdictless
<1> QED BY <1>2, <1>3, <1>5, <1>7, <1>8, OwnStepInv DEF Sound

LEMMA EnlistKeeps ==
    ASSUME RunInv, NEW s \in Session, Enlist(s), UNCHANGED <<setup, broadcast>>
    PROVE  RunInv'
<1>1. PICK a \in AgentId :
          /\ Register(AddressOf(s), a) /\ agentOf' = [agentOf EXCEPT ![s] = a]
  BY DEF Enlist
<1>2. /\ pc[s] = "new" /\ pc' = [pc EXCEPT ![s] = "idle"]
      /\ UNCHANGED <<payment, checks, journal, noted, refused, wall, faults>>
  BY DEF Enlist, Go
<1>3. AddressOf(s) \in User /\ RunTypeOK /\ MirrorInv /\ TypeOK
  BY AgentsTyped DEF RunInv, MirrorInv
<1>4. MirrorInv' /\ ChainKept
  BY <1>1, <1>3, RegistryKeeps, RegistryKept
<1>5. /\ agents[a] = NoOne /\ agents'[a] # NoOne
      /\ UNCHANGED <<tasks, authorizations, signed, raised>>
  BY <1>1, <1>3, Places DEF Register, TypeOK, tokenVars, arenaVars
<1>6. KnownAgents'
  BY <1>3, <1>4, KeptKnown DEF RunInv
<1>7. RunTypeOK'
  BY <1>1, <1>2, <1>3 DEF RunTypeOK
<1>8. agentOf'[s] = a /\ pc'[s] = "idle" /\ \A t \in Session \ {s} : Resting(t)
  BY <1>1, <1>2, <1>3 DEF RunTypeOK, Resting
<1>9. \A t \in Session \ {s} : Sound(t)'
  BY <1>2, <1>3, <1>4, <1>8, KeptUndisturbed, RestingSound DEF Resting, RunInv, Sessions
<1>10. Sound(s)'
  <2>1. a # 0 /\ agentOf[s] = 0 /\ agents'[agentOf'[s]] # NoOne
    BY <1>2, <1>5, <1>8 DEF AgentId, RunInv, Sessions, Sound, Enlisted
  <2>2. ~Claimed(s)' /\ ~Spent(s)'
    BY <1>3, <1>5, <1>8, SessionTask
       DEF Claimed, Spent, Nonce, ClaimNonce, RunInv, KnownAgents
  <2>3. Enlisted(s)' /\ Presented(s)' /\ Signed(s)'
    BY <1>2, <1>8, <2>1, <2>2
       DEF Enlisted, Presented, Signed, RunInv, Sessions, Sound
  <2>4. Buying(s)' /\ Noted(s)'
    BY <1>2, <1>8, <2>2, NothingYet DEF Buying, Bought, Noted
  <2> QED BY <2>3, <2>4 DEF Sound
<1>11. Distinct'
  <2>1. \A t \in Session \ {s} : agentOf'[t] = agentOf[t] /\ agentOf[t] # a
    BY <1>5, <1>8, AgentsTyped DEF Resting, RunInv, Sessions, Sound, Enlisted, AgentId
  <2> QED BY <1>8, <2>1 DEF Distinct, RunInv
<1> QED BY <1>4, <1>6, <1>7, <1>9, <1>10, <1>11 DEF RunInv, Sessions

LEMMA PendingTuples ==
    /\ <<"remote", "remote", "local">> \in Seq({"remote", "local"})
    /\ <<"remote", "local">> \in Seq({"remote", "local"})
    /\ <<"local", "local">> \in Seq({"remote", "local"})
    /\ <<"local">> \in Seq({"remote", "local"})
    /\ <<>> \in Seq({"remote", "local"})
    /\ Head(<<"remote", "remote", "local">>) = "remote"
    /\ Head(<<"remote", "local">>) = "remote"
    /\ Head(<<"local", "local">>) = "local"
    /\ Head(<<"local">>) = "local"
    /\ Tail(<<"remote", "remote", "local">>) = <<"remote", "local">>
    /\ Tail(<<"remote", "local">>) = <<"local">>
    /\ Tail(<<"local", "local">>) = <<"local">>
    /\ Tail(<<"local">>) = <<>>
    /\ <<"local">> # <<>> /\ <<"remote", "local">> # <<>>
    /\ <<"local", "local">> # <<>> /\ <<"remote", "remote", "local">> # <<>>
OBVIOUS

\* A header the session has in its hands, with all verifications to come.
LEMMA HeaderTyped ==
    ASSUME RunInv, NEW s \in Session, pc[s] # "new", tasks[TaskOf[s]] # Absent, NEW until \in Nat
    PROVE  Header(AddressOf(s), Challenge(s), until) \in Payment
<1>1. agentOf[s] \in AgentId /\ TaskOf[s] \in TaskId /\ AddressOf(s) \in User
  BY AgentsTyped, SessionTask DEF RunInv, Sessions, Sound, Enlisted
<1>2. tasks[TaskOf[s]].fee \in Nat
  BY <1>1, TaskRecord DEF RunInv, MirrorInv
<1> QED BY <1>1, <1>2 DEF Header, Challenge, Payment, Nonce, ClaimNonce

LEMMA PresentFacts ==
    ASSUME RunInv, NEW s \in Session, NEW p \in Payment, Present(s, p)
    PROVE  /\ payment' \in [Session -> Payment \cup {Nothing}]
           /\ checks' \in [Session -> Seq({"remote", "local"})]
           /\ pc' \in [Session -> Over \cup {"new", "idle", "asking", "granting", "paid"}]
           /\ payment'[s] = p /\ checks'[s] \in Pending \ {<<>>} /\ pc'[s] = "granting"
           /\ \A t \in Session \ {s} : /\ payment'[t] = payment[t] /\ checks'[t] = checks[t]
                                        /\ pc'[t] = pc[t]
<1>1. Verifications \in Pending \ {<<>>} /\ Verifications \in Seq({"remote", "local"})
  BY PendingTuples DEF Verifications, Pending
<1> QED BY <1>1 DEF Present, Go, RunInv, RunTypeOK

LEMMA PayKeeps ==
    ASSUME RunInv, NEW s \in Session, Pay(s), UNCHANGED <<setup, broadcast>>
    PROVE  RunInv'
<1>1. /\ pc[s] = "asking" /\ s \notin Replayer
      /\ UNCHANGED <<now, balances, authorizations, agents, feedback, validations, bonds, credits,
                     tasks, nextTask, raised, agentOf, journal, noted, refused, wall, faults>>
  BY DEF Pay, registryVars, arenaVars, RunInv, Sessions, Sound, Presented
<1>2. Sound(s) /\ agentOf[s] # 0
  BY <1>1 DEF RunInv, Sessions, Sound, Enlisted
<1>3. CASE tasks[TaskOf[s]] = Absent
  <2>1. pc' = [pc EXCEPT ![s] = "raised"] /\ UNCHANGED <<signed, payment, checks>>
    BY <1>3 DEF Pay, Go
  <2>2. UNCHANGED chainVars
    BY <1>1, <2>1 DEF chainVars, vars, tokenVars, registryVars, arenaVars
  <2>3. RunTypeOK'
    BY <1>1, <2>1 DEF RunInv, RunTypeOK, Over
  <2>4. pc'[s] = "raised" /\ \A t \in Session \ {s} : Resting(t)
    BY <1>1, <2>1 DEF RunInv, RunTypeOK, Resting
  <2>5. OwnStep(s) /\ Undisturbed(s)
    BY <1>1, <2>2, <2>4, QuietOwnStep
  <2>6. Enlisted(s)' /\ Presented(s)' /\ Signed(s)'
    BY <1>1, <1>2, <2>1, <2>4, <2>5, NothingYet
       DEF Sound, Enlisted, Presented, Signed, Undisturbed, Replayer, AddressOf
  <2>7. Buying(s)' /\ Noted(s)'
    BY <1>1, <2>4, <2>5, NothingYet DEF Buying, Bought, Noted, Undisturbed
  <2> QED BY <1>1, <2>3, <2>5, <2>6, <2>7, OwnStepInv DEF Sound
<1>4. CASE tasks[TaskOf[s]] # Absent
  <2>1. PICK p : /\ p = Header(AddressOf(s), Challenge(s), wall + PaymentTimeout)
                 /\ signed' = signed \cup {p} /\ Present(s, p)
    BY <1>4 DEF Pay
  <2>2. p \in Payment /\ p.from = AddressOf(s)
    <3>1. wall + PaymentTimeout \in Nat
      <4>1. wall \in 1..MaxWall /\ MaxWall \in Nat /\ PaymentTimeout \in Nat
        BY RunAssumption, MirrorAssumption DEF RunInv, RunTypeOK
      <4> QED BY <4>1
    <3>2. p.from = AddressOf(s)
      BY <2>1 DEF Header
    <3> QED BY <1>1, <1>4, <2>1, <3>1, <3>2, HeaderTyped
  <2>3. MirrorInv'
    <3>1. TypeOK'
      BY <1>1, <2>1, <2>2 DEF RunInv, MirrorInv, TypeOK, Payment
    <3> QED BY <1>1, <3>1, AsideKeeps DEF RunInv
  <2>4. ChainKept
    <3>1. p.nonce = <<TaskOf[s], agentOf[s]>>
      BY <2>1 DEF Header, Challenge, Nonce, ClaimNonce
    <3>2. p.nonce[2] = agentOf[s] /\ agentOf[s] \in AgentId /\ agents[agentOf[s]] # NoOne
      BY <1>2, <3>1, AgentsTyped DEF RunInv, Sound, Enlisted
    <3>3. \A q \in signed' \ signed : q.nonce[2] \in AgentId /\ agents[q.nonce[2]] # NoOne
      BY <2>1, <3>2
    <3> QED BY <1>1, <2>1, <3>3 DEF ChainKept, TaskKept, StillRegistered
  <2>5. /\ payment'[s] = p /\ checks'[s] \in Pending \ {<<>>} /\ pc'[s] = "granting"
        /\ \A t \in Session \ {s} : Resting(t)
    BY <1>1, <2>1, <2>2, PresentFacts DEF Resting
  <2>6. RunTypeOK'
    BY <1>1, <2>1, <2>2, PresentFacts DEF RunInv, RunTypeOK
  <2>7. OwnStep(s) /\ Undisturbed(s)
    BY <1>1, <2>3, <2>4, <2>5, KeptOwnStep
  <2>8. Enlisted(s)' /\ Presented(s)' /\ Signed(s)'
    BY <1>1, <1>2, <2>2, <2>5, <2>7, NothingYet
       DEF Sound, Enlisted, Presented, Signed, Undisturbed, Replayer, AddressOf
  <2>9. Buying(s)' /\ Noted(s)'
    BY <1>1, <2>5, <2>7, NothingYet DEF Buying, Bought, Noted, Undisturbed
  <2> QED BY <1>1, <2>6, <2>7, <2>8, <2>9, OwnStepInv DEF Sound
<1> QED BY <1>3, <1>4

LEMMA ReplayKeeps ==
    ASSUME RunInv, NEW s \in Session, Replay(s), UNCHANGED <<setup, broadcast>>
    PROVE  RunInv'
<1>1. PICK p \in signed \cup {Header(AddressOf(s), Challenge(s), MaxWall + 1)} : Present(s, p)
  BY DEF Replay
<1>2. /\ pc[s] = "idle" /\ s \in Replayer /\ tasks[TaskOf[s]] # Absent
      /\ UNCHANGED <<chainVars, agentOf, journal, noted, refused, wall, faults>>
  BY DEF Replay
<1>3. p \in Payment
  <2>1. MaxWall + 1 \in Nat
    BY RunAssumption
  <2>2. signed \subseteq Payment
    BY DEF RunInv, MirrorInv, TypeOK, Payment
  <2> QED BY <1>1, <1>2, <2>1, <2>2, HeaderTyped
<1>4. Sound(s) /\ agentOf[s] # 0
  BY <1>2 DEF RunInv, Sessions, Sound, Enlisted
<1>5. /\ payment'[s] = p /\ checks'[s] \in Pending \ {<<>>} /\ pc'[s] = "granting"
      /\ \A t \in Session \ {s} : Resting(t)
  BY <1>1, <1>2, <1>3, PresentFacts DEF Resting
<1>6. RunTypeOK'
  BY <1>1, <1>2, <1>3, PresentFacts DEF RunInv, RunTypeOK
<1>7. OwnStep(s) /\ Undisturbed(s)
  BY <1>2, <1>5, QuietOwnStep
<1>8. Enlisted(s)' /\ Presented(s)' /\ Signed(s)'
  BY <1>2, <1>4, <1>5, <1>7, NothingYet
     DEF Sound, Enlisted, Presented, Signed, Undisturbed, Replayer, AddressOf,
         chainVars, vars, registryVars
<1>9. Buying(s)' /\ Noted(s)'
  BY <1>2, <1>5, <1>7, NothingYet DEF Buying, Bought, Noted, Undisturbed
<1> QED BY <1>2, <1>6, <1>7, <1>8, <1>9, OwnStepInv DEF Sound

\* What Fail writes, for a session that has begun to ask.
LEMMA FailFacts ==
    ASSUME RunInv, NEW s \in Session, Fail(s)
    PROVE  /\ pc' \in [Session -> Over \cup {"new", "idle", "asking", "granting", "paid"}]
           /\ journal' \in [Session -> Status \cup {"none"}]
           /\ pc'[s] = "failed" /\ journal'[s] \in {"failed", journal[s]}
           /\ \A t \in Session \ {s} : pc'[t] = pc[t] /\ journal'[t] = journal[t]
BY DEF Fail, Go, Journal, RunInv, RunTypeOK, Over, Status

\* A session that is over before it has bought anything.
LEMMA EmptyHanded ==
    ASSUME RunInv, NEW s \in Session, pc[s] \in {"asking", "granting"}, Undisturbed(s),
           UNCHANGED <<setup, broadcast, payment, noted>>, agentOf'[s] = agentOf[s],
           checks'[s] \in Pending, pc'[s] \in {"failed", "raised"},
           pc'[s] = "failed" => journal'[s] \in {"failed", journal[s]},
           pc'[s] = "raised" => journal'[s] = journal[s]
    PROVE  Sound(s)'
<1>1. Sound(s) /\ agentOf[s] # 0
  BY DEF RunInv, Sessions, Sound, Enlisted
<1>2. agentOf[s] \in AgentId /\ agents'[agentOf[s]] # NoOne
  BY <1>1, AgentsTyped DEF RunInv, Sound, Enlisted, Undisturbed, StillRegistered
<1>3. Enlisted(s)' /\ Presented(s)' /\ Signed(s)'
  BY <1>1, <1>2, NothingYet DEF Enlisted, Presented, Signed, Undisturbed
<1>4. Buying(s)' /\ Noted(s)'
  BY NothingYet DEF Buying, Bought, Noted, Undisturbed, Verdictless
<1> QED BY <1>3, <1>4 DEF Sound

\* An answer is a yes or the grant ends; the last question is the chain's own.
LEMMA Answers ==
    ASSUME NEW s \in Session, checks[s] \in Pending \ {<<>>}, NEW answer \in VerifyAnswers(s),
           NEW verdict, verdict = Verdict(Head(checks[s]), answer)
    PROVE  /\ Tail(checks[s]) \in Pending /\ Tail(checks[s]) \in Seq({"remote", "local"})
           /\ verdict \in {"yes", "no", "escapes"}
           /\ verdict = "yes" => answer = "yes"
           /\ verdict = "yes" /\ Tail(checks[s]) = <<>> => payment[s] \in signed
<1>1. CASE checks[s] = <<"remote", "remote", "local">> \/ checks[s] = <<"remote", "local">>
  <2>1. Head(checks[s]) = "remote" /\ Tail(checks[s]) \in Pending /\ Tail(checks[s]) # <<>>
        /\ Tail(checks[s]) \in Seq({"remote", "local"})
    BY <1>1, PendingTuples DEF Pending
  <2> QED BY <2>1 DEF VerifyAnswers, Verdict
<1>2. CASE checks[s] = <<"local", "local">> \/ checks[s] = <<"local">>
  <2>1. Head(checks[s]) = "local" /\ Tail(checks[s]) \in Pending
        /\ Tail(checks[s]) \in Seq({"remote", "local"})
    BY <1>2, PendingTuples DEF Pending
  <2> QED BY <2>1 DEF VerifyAnswers, Verdict, LocalVerify
<1> QED BY <1>1, <1>2 DEF Pending

LEMMA VerifyKeeps ==
    ASSUME RunInv, NEW s \in Session, Verify(s), UNCHANGED <<setup, broadcast>>
    PROVE  RunInv'
<1>1. PICK answer, verdict :
          /\ answer \in VerifyAnswers(s) /\ verdict = Verdict(Head(checks[s]), answer)
          /\ checks' = [checks EXCEPT ![s] = Tail(@)]
          /\ refused' = [refused EXCEPT ![s] = @ \/ answer # "yes"]
          /\ CASE verdict = "yes" -> UNCHANGED <<pc, journal>>
               [] verdict = "no" -> Fail(s)
               [] verdict = "escapes" -> Go(s, "raised") /\ UNCHANGED journal
  BY DEF Verify
<1>2. /\ pc[s] = "granting" /\ checks[s] # <<>>
      /\ UNCHANGED <<chainVars, agentOf, payment, noted, wall, faults>>
  BY DEF Verify
<1>3. Sound(s) /\ agentOf[s] # 0 /\ RunTypeOK
  BY <1>2 DEF RunInv, Sessions, Sound, Enlisted
<1>4. /\ Tail(checks[s]) \in Pending /\ Tail(checks[s]) \in Seq({"remote", "local"})
      /\ verdict \in {"yes", "no", "escapes"}
      /\ verdict = "yes" => answer = "yes"
      /\ verdict = "yes" /\ Tail(checks[s]) = <<>> => payment[s] \in signed
  BY <1>1, <1>2, <1>3, Answers DEF Sound, Presented
<1>5. /\ checks'[s] = Tail(checks[s]) /\ refused'[s] = (refused[s] \/ answer # "yes")
      /\ checks' \in [Session -> Seq({"remote", "local"})] /\ refused' \in [Session -> BOOLEAN]
      /\ \A t \in Session \ {s} : checks'[t] = checks[t] /\ refused'[t] = refused[t]
  BY <1>1, <1>3, <1>4 DEF RunTypeOK
<1>6. CASE verdict = "yes"
  <2>1. UNCHANGED <<pc, journal>> /\ refused'[s] = refused[s]
    <3>1. UNCHANGED <<pc, journal>> /\ answer = "yes" /\ refused[s] \in BOOLEAN
      BY <1>1, <1>3, <1>4, <1>6 DEF RunTypeOK
    <3>2. (refused[s] \/ answer # "yes") = refused[s]
      BY <3>1
    <3> QED BY <1>5, <3>1, <3>2
  <2>2. RunTypeOK' /\ \A t \in Session \ {s} : Resting(t)
    BY <1>2, <1>3, <1>5, <2>1 DEF RunTypeOK, Resting
  <2>3. OwnStep(s) /\ Undisturbed(s)
    BY <1>2, <2>2, QuietOwnStep
  <2>4. Enlisted(s)' /\ Presented(s)' /\ Signed(s)'
    BY <1>2, <1>3, <1>4, <1>5, <1>6, <2>1, <2>3, NothingYet
       DEF Sound, Enlisted, Presented, Signed, Undisturbed, Replayer, AddressOf, chainVars, vars,
           registryVars, tokenVars
  <2>5. Buying(s)' /\ Noted(s)'
    BY <1>2, <2>1, <2>3, NothingYet DEF Buying, Bought, Noted, Undisturbed
  <2> QED BY <1>2, <2>2, <2>3, <2>4, <2>5, OwnStepInv DEF Sound
<1>7. CASE verdict # "yes"
  <2>1. \/ Fail(s)
        \/ pc' = [pc EXCEPT ![s] = "raised"] /\ UNCHANGED journal
    BY <1>1, <1>4, <1>7 DEF Go
  <2>2. /\ pc' \in [Session -> Over \cup {"new", "idle", "asking", "granting", "paid"}]
        /\ journal' \in [Session -> Status \cup {"none"}]
        /\ \/ pc'[s] = "failed" /\ journal'[s] \in {"failed", journal[s]}
           \/ pc'[s] = "raised" /\ journal'[s] = journal[s]
        /\ \A t \in Session \ {s} : pc'[t] = pc[t] /\ journal'[t] = journal[t]
    <3>1. CASE Fail(s)
      BY <3>1, FailFacts
    <3>2. CASE pc' = [pc EXCEPT ![s] = "raised"] /\ UNCHANGED journal
      BY <1>3, <3>2 DEF RunTypeOK, Over
    <3> QED BY <2>1, <3>1, <3>2
  <2>3. RunTypeOK' /\ \A t \in Session \ {s} : Resting(t)
    BY <1>2, <1>3, <1>5, <2>2 DEF RunTypeOK, Resting
  <2>4. OwnStep(s) /\ Undisturbed(s)
    BY <1>2, <2>3, QuietOwnStep
  <2>5. Sound(s)'
    BY <1>2, <1>4, <1>5, <2>2, <2>4, EmptyHanded
  <2> QED BY <1>2, <2>3, <2>4, <2>5, OwnStepInv
<1> QED BY <1>6, <1>7

\* The claim of a session with a verified header.
LEMMA ClaimOwn ==
    ASSUME RunInv, NEW s \in Session, pc[s] = "granting", checks[s] = <<>>,
           ClaimTask(TaskOf[s], agentOf[s], payment[s]), UNCHANGED <<setup, broadcast, agentOf, payment>>,
           \A t \in Session \ {s} : Resting(t), faults # 0 => faults' # 0
    PROVE  /\ OwnStep(s) /\ UNCHANGED <<signed, agents>> /\ Signed(s)'
           /\ raised' # raised => raised' # 0
           /\ raised' = raised => Claimed(s)'
           /\ tasks'[TaskOf[s]].fee > 0 /\ s \notin Replayer => NonceUsed(s)'
<1>1. /\ Sound(s) /\ RunTypeOK /\ MirrorInv /\ Distinct /\ KnownAgents
      /\ agentOf[s] # 0 /\ agentOf[s] \in AgentId /\ TaskOf[s] \in TaskId
  BY AgentsTyped, SessionTask DEF RunInv, Sessions, Sound, Enlisted
<1>2. payment[s] \in signed /\ (s \notin Replayer => payment[s].from = AddressOf(s))
  BY <1>1 DEF Sound, Presented
<1>3. MirrorInv' /\ ClaimMade(TaskOf[s], agentOf[s], payment[s])
  BY <1>1, <1>2, ClaimSteps
<1>4. (\A t \in Session \ {s} : Undisturbed(t)) /\ KnownAgents'
  BY <1>1, <1>3, ClaimUndisturbed
<1>5. OwnStep(s) /\ UNCHANGED <<signed, agents>> /\ (raised' # raised => raised' # 0)
  BY <1>3, <1>4 DEF OwnStep, ClaimMade
<1>6. Signed(s)'
  BY <1>1, <1>2, <1>3 DEF Signed, Claimed, Nonce, ClaimNonce, ClaimMade
<1>7. raised' = raised => Claimed(s)'
  BY <1>1, <1>3 DEF Claimed, ClaimMade
<1>8. tasks'[TaskOf[s]].fee > 0 /\ s \notin Replayer => NonceUsed(s)'
  BY <1>1, <1>2, <1>3 DEF NonceUsed, Nonce, ClaimNonce, ClaimMade, AddressOf
<1> QED BY <1>5, <1>6, <1>7, <1>8

\* A claim, perhaps, that ends the session's run without its task on the record.
LEMMA ClaimLost ==
    ASSUME RunInv, NEW s \in Session, pc[s] = "granting", OwnStep(s),
           UNCHANGED <<setup, broadcast, agentOf, signed, agents, payment, checks, noted, refused>>, Signed(s)',
           pc'[s] \in {"failed", "raised"}, raised' # 0 \/ faults' # 0,
           pc'[s] = "failed" => journal'[s] \in {"failed", journal[s]},
           pc'[s] = "raised" => journal'[s] = journal[s]
    PROVE  Sound(s)'
<1>1. Sound(s)
  BY DEF RunInv, Sessions
<1>2. Enlisted(s)' /\ Presented(s)'
  BY <1>1 DEF Sound, Enlisted, Presented
<1>3. Buying(s)' /\ Noted(s)'
  BY NothingYet DEF Buying, Bought, Noted, Verdictless
<1> QED BY <1>2, <1>3 DEF Sound

LEMMA SubmitKeeps ==
    ASSUME RunInv, NEW s \in Session, Submit(s), UNCHANGED <<setup, broadcast>>
    PROVE  RunInv'
<1>1. /\ pc[s] = "granting" /\ checks[s] = <<>>
      /\ UNCHANGED <<agentOf, payment, checks, noted, refused, wall, faults>>
  BY DEF Submit
<1>2. Sound(s) /\ agentOf[s] # 0 /\ RunTypeOK
  BY <1>1 DEF RunInv, Sessions, Sound, Enlisted
<1>3. CASE Sold(s)
  <2>1. ClaimTask(TaskOf[s], agentOf[s], payment[s]) /\ raised' = raised
    BY <1>3 DEF Submit, Sold
  <2>2. PICK where : /\ where = IF s \in Replayer THEN "sold" ELSE "paid"
                     /\ pc' = [pc EXCEPT ![s] = where] /\ UNCHANGED journal
    BY <1>3 DEF Submit, Go
  <2>3. RunTypeOK' /\ pc'[s] = where /\ \A t \in Session \ {s} : Resting(t)
    BY <1>1, <1>2, <2>2 DEF RunTypeOK, Resting, Over
  <2>4. /\ OwnStep(s) /\ UNCHANGED <<signed, agents>> /\ Signed(s)' /\ Claimed(s)'
        /\ tasks'[TaskOf[s]].fee > 0 /\ s \notin Replayer => NonceUsed(s)'
    BY <1>1, <2>1, <2>3, ClaimOwn
  <2>5. Enlisted(s)' /\ Presented(s)'
    BY <1>1, <1>2, <2>2, <2>3, <2>4 DEF Sound, Enlisted, Presented, Replayer, AddressOf
  <2>6. Buying(s)' /\ Noted(s)'
    BY <1>1, <2>2, <2>3, <2>4, NothingYet DEF Buying, Bought, Noted
  <2> QED BY <1>1, <2>3, <2>4, <2>5, <2>6, OwnStepInv DEF Sound
<1>4. CASE ~Sold(s)
  <2>1. Fail(s)
    BY <1>4 DEF Submit
  <2>2. RunTypeOK' /\ \A t \in Session \ {s} : Resting(t)
    BY <1>1, <1>2, <2>1, FailFacts DEF RunTypeOK, Resting
  <2>3. CASE UNCHANGED chainVars
    <3>1. OwnStep(s) /\ Undisturbed(s)
      BY <1>1, <2>2, <2>3, QuietOwnStep
    <3>2. Sound(s)'
      BY <1>1, <2>1, <3>1, FailFacts, EmptyHanded DEF Pending
    <3> QED BY <1>1, <2>2, <3>1, <3>2, OwnStepInv
  <2>4. CASE Claimable(s) /\ ClaimTask(TaskOf[s], agentOf[s], payment[s])
    <3>1. OwnStep(s) /\ UNCHANGED <<signed, agents>> /\ Signed(s)' /\ raised' # 0
      BY <1>1, <1>4, <2>2, <2>4, ClaimOwn DEF Sold
    <3>2. Sound(s)'
      BY <1>1, <2>1, <3>1, FailFacts, ClaimLost
    <3> QED BY <1>1, <2>2, <3>1, <3>2, OwnStepInv
  <2> QED BY <2>3, <2>4 DEF Submit
<1> QED BY <1>3, <1>4

LEMMA NotePaidKeeps ==
    ASSUME RunInv, NEW s \in Session, NotePaid(s), UNCHANGED <<setup, broadcast>>
    PROVE  RunInv'
<1>1. /\ pc[s] = "paid" /\ noted' = [noted EXCEPT ![s] = TRUE]
      /\ UNCHANGED <<chainVars, pc, agentOf, payment, checks, journal, refused, wall, faults>>
  BY DEF NotePaid
<1>2. Sound(s) /\ RunTypeOK
  BY DEF RunInv, Sessions
<1>3. RunTypeOK' /\ \A t \in Session \ {s} : Resting(t)
  BY <1>1, <1>2 DEF RunTypeOK, Resting
<1>4. OwnStep(s) /\ Undisturbed(s)
  BY <1>1, <1>3, QuietOwnStep
<1>5. agentOf[s] \in AgentId /\ agents'[agentOf[s]] # NoOne
  BY <1>1, <1>2, <1>4, AgentsTyped DEF RunInv, Sound, Enlisted, Undisturbed, StillRegistered
<1>6. Enlisted(s)'
  BY <1>1, <1>2, <1>4, <1>5 DEF Sound, Enlisted
<1>7. Presented(s)'
  BY <1>1, <1>2, <1>4 DEF Sound, Presented, Undisturbed, Replayer, AddressOf
<1>8. Signed(s)'
  BY <1>1, <1>2, <1>4 DEF Sound, Signed, Undisturbed, Nonce
<1>9. Buying(s)' /\ Noted(s)'
  BY <1>1, <1>2, <1>4 DEF Sound, Buying, Bought, Noted, Undisturbed
<1> QED BY <1>1, <1>3, <1>4, <1>6, <1>7, <1>8, <1>9, OwnStepInv DEF Sound

\* A session that has paid goes on, or stops, without another claim.
LEMMA PaidMovesOn ==
    ASSUME RunInv, NEW s \in Session, pc[s] = "paid", Undisturbed(s),
           UNCHANGED <<setup, broadcast, agentOf, payment, checks, noted, refused>>,
           \/ pc'[s] = "raised" /\ journal'[s] = journal[s]
           \/ /\ pc'[s] = "committed" /\ journal'[s] = "committed"
              /\ tasks'[TaskOf[s]].committed # "None"
    PROVE  Sound(s)'
<1>1. Sound(s) /\ agentOf[s] # 0
  BY DEF RunInv, Sessions, Sound, Enlisted
<1>2. agentOf[s] \in AgentId /\ agents'[agentOf[s]] # NoOne
  BY <1>1, AgentsTyped DEF RunInv, Sound, Enlisted, Undisturbed, StillRegistered
<1>3. Enlisted(s)' /\ Presented(s)' /\ Signed(s)'
  BY <1>1, <1>2 DEF Sound, Enlisted, Presented, Signed, Undisturbed, Nonce, Replayer
<1>4. Buying(s)' /\ Noted(s)'
  BY <1>1 DEF Sound, Buying, Bought, Noted, Undisturbed, Verdictless
<1> QED BY <1>3, <1>4 DEF Sound

LEMMA CommitStep ==
    ASSUME RunInv, NEW s \in Session, NEW v \in Answer, NEW h \in Reasoning,
           CommitVerdict(AddressOf(s), TaskOf[s], v, h)
    PROVE  MirrorInv' /\ ChainKept /\ tasks'[TaskOf[s]].committed # "None"
<1>1. TypeOK /\ MirrorInv /\ TaskOf[s] \in TaskId /\ AddressOf(s) \in User
  BY AgentsTyped, SessionTask DEF RunInv, MirrorInv
<1> QED BY <1>1, CommitKeeps, CommitKept

LEMMA CommitPlays ==
    ASSUME RunInv, NEW s \in Session, Commit(s), UNCHANGED <<setup, broadcast>>
    PROVE  RunInv'
<1>1. /\ pc[s] = "paid"
      /\ UNCHANGED <<agentOf, payment, checks, noted, refused, wall, faults>>
  BY DEF Commit
<1>2. RunTypeOK
  BY DEF RunInv
<1>3. CASE CommitDue(s)
  <2>1. PICK v \in Answer, h \in Reasoning : CommitVerdict(AddressOf(s), TaskOf[s], v, h)
    BY <1>3 DEF Commit
  <2>2. /\ pc' = [pc EXCEPT ![s] = "committed"]
        /\ journal' = [journal EXCEPT ![s] = "committed"]
    BY <1>3 DEF Commit, Go, Journal
  <2>3. MirrorInv' /\ ChainKept /\ tasks'[TaskOf[s]].committed # "None"
    BY <2>1, CommitStep
  <2>4. RunTypeOK' /\ \A t \in Session \ {s} : Resting(t)
    BY <1>1, <1>2, <2>2 DEF RunTypeOK, Resting, Over, Status
  <2>5. OwnStep(s) /\ Undisturbed(s)
    BY <1>1, <2>3, <2>4, KeptOwnStep
  <2>6. pc'[s] = "committed" /\ journal'[s] = "committed"
    BY <1>2, <2>2 DEF RunTypeOK
  <2>7. Sound(s)'
    BY <1>1, <2>3, <2>5, <2>6, PaidMovesOn
  <2> QED BY <1>1, <2>4, <2>5, <2>7, OwnStepInv
<1>4. CASE ~CommitDue(s)
  <2>1. pc' = [pc EXCEPT ![s] = "raised"] /\ UNCHANGED <<chainVars, journal>>
    BY <1>4 DEF Commit, Go
  <2>2. RunTypeOK' /\ \A t \in Session \ {s} : Resting(t)
    BY <1>1, <1>2, <2>1 DEF RunTypeOK, Resting, Over
  <2>3. OwnStep(s) /\ Undisturbed(s)
    BY <1>1, <2>1, <2>2, QuietOwnStep
  <2>4. pc'[s] = "raised" /\ journal'[s] = journal[s]
    BY <1>2, <2>1 DEF RunTypeOK
  <2>5. Sound(s)'
    BY <1>1, <2>3, <2>4, PaidMovesOn
  <2> QED BY <1>1, <2>2, <2>3, <2>5, OwnStepInv
<1> QED BY <1>3, <1>4

LEMMA NodeFailsKeeps ==
    ASSUME RunInv, NEW s \in Session, NodeFails(s), UNCHANGED <<setup, broadcast>>
    PROVE  RunInv'
<1>1. /\ UNCHANGED <<agentOf, payment, checks, noted, refused, wall>>
      /\ faults' \in 0..MaxFaults /\ faults' # 0
  <2>1. /\ faults < MaxFaults /\ faults' = faults + 1 /\ faults \in 0..MaxFaults
        /\ MaxFaults \in Nat
    BY RunAssumption DEF NodeFails, RunInv, RunTypeOK
  <2> QED BY <2>1 DEF NodeFails
<1>2. RunTypeOK /\ Sound(s)
  BY DEF RunInv, Sessions
<1>3. /\ \/ Fail(s)
         \/ pc' = [pc EXCEPT ![s] = "raised"] /\ UNCHANGED journal
      /\ pc[s] \in {"asking", "paid"} =>
             pc' = [pc EXCEPT ![s] = "raised"] /\ UNCHANGED journal
      /\ pc[s] \in {"asking", "granting", "paid"}
  BY DEF NodeFails, Go
<1>4. /\ pc' \in [Session -> Over \cup {"new", "idle", "asking", "granting", "paid"}]
      /\ journal' \in [Session -> Status \cup {"none"}]
      /\ \/ pc'[s] = "failed" /\ journal'[s] \in {"failed", journal[s]} /\ pc[s] = "granting"
         \/ pc'[s] = "raised" /\ journal'[s] = journal[s]
      /\ \A t \in Session \ {s} : pc'[t] = pc[t] /\ journal'[t] = journal[t]
  <2>1. CASE pc' = [pc EXCEPT ![s] = "raised"] /\ UNCHANGED journal
    BY <1>2, <2>1 DEF RunTypeOK, Over
  <2>2. CASE Fail(s) /\ pc[s] = "granting"
    BY <2>2, FailFacts
  <2> QED BY <1>3, <2>1, <2>2
<1>5. RunTypeOK' /\ \A t \in Session \ {s} : Resting(t)
  BY <1>1, <1>2, <1>4 DEF RunTypeOK, Resting
<1>6. CASE UNCHANGED chainVars
  <2>1. OwnStep(s) /\ Undisturbed(s)
    BY <1>1, <1>5, <1>6, QuietOwnStep
  <2>2. CASE pc[s] \in {"asking", "granting"}
    <3>1. checks'[s] \in Pending /\ pc'[s] \in {"failed", "raised"}
      BY <1>1, <1>2, <1>4 DEF Sound, Presented
    <3>2. Sound(s)'
      BY <1>1, <1>4, <2>1, <2>2, <3>1, EmptyHanded
    <3> QED BY <1>1, <1>5, <2>1, <3>2, OwnStepInv
  <2>3. CASE pc[s] = "paid"
    <3>1. Sound(s)'
      BY <1>1, <1>4, <2>1, <2>3, PaidMovesOn
    <3> QED BY <1>1, <1>5, <2>1, <3>1, OwnStepInv
  <2> QED BY <1>3, <2>2, <2>3
<1>7. CASE /\ pc[s] = "granting" /\ checks[s] = <<>>
           /\ ClaimTask(TaskOf[s], agentOf[s], payment[s])
  <2>1. OwnStep(s) /\ UNCHANGED <<signed, agents>> /\ Signed(s)'
    BY <1>1, <1>5, <1>7, ClaimOwn
  <2>2. Sound(s)'
    BY <1>1, <1>4, <1>7, <2>1, ClaimLost
  <2> QED BY <1>1, <1>5, <2>1, <2>2, OwnStepInv
<1>8. ASSUME pc[s] = "paid", NEW v \in Answer, NEW h \in Reasoning,
             CommitVerdict(AddressOf(s), TaskOf[s], v, h)
      PROVE  RunInv'
  <2>1. MirrorInv' /\ ChainKept
    BY <1>8, CommitStep
  <2>2. OwnStep(s) /\ Undisturbed(s)
    BY <1>1, <1>5, <2>1, KeptOwnStep
  <2>3. Sound(s)'
    BY <1>1, <1>4, <1>8, <2>2, PaidMovesOn
  <2> QED BY <1>1, <1>5, <2>2, <2>3, OwnStepInv
<1> QED BY <1>6, <1>7, <1>8 DEF NodeFails

-----------------------------------------------------------------------------
(* All steps, and what follows. *)

LEMMA MarketRuns ==
    ASSUME RunInv, Market \/ UNCHANGED <<chainVars, sessionVars>>, UNCHANGED <<setup, broadcast>>,
           RunTypeOK', faults' = faults
    PROVE  RunInv'
<1>1. MirrorInv' /\ ChainKept /\ UNCHANGED sessionVars
  <2>1. CASE Market
    BY <2>1, MarketSteps DEF RunInv
  <2>2. CASE UNCHANGED <<chainVars, sessionVars>>
    BY <2>2, QuietKept, NextMirror DEF chainVars, RunInv
  <2> QED BY <2>1, <2>2
<1>2. KnownAgents'
  BY <1>1, KeptKnown DEF RunInv, MirrorInv
<1>3. \A t \in Session : Sound(t)'
  BY <1>1, KeptUndisturbed, RestingSound DEF sessionVars, Resting, RunInv, Sessions
<1>4. Distinct'
  BY <1>1 DEF sessionVars, Distinct, RunInv
<1> QED BY <1>1, <1>2, <1>3, <1>4 DEF RunInv, Sessions

\* Sending a header to the token itself moves its amount and marks its nonce, and makes
\* no claim.
LEMMA BroadcastKeeps ==
    ASSUME RunInv, NEW p \in signed, Broadcast(p), UNCHANGED setup
    PROVE  RunInv'
<1>1. /\ Covers(balances, p.from, p.value)
      /\ authorizations' = [authorizations EXCEPT ![p.from] = @ \cup {p.nonce}]
      /\ balances' = Moved(balances, p.from, p.to, p.value)
      /\ broadcast' = broadcast \cup {<<p.from, p.nonce>>}
      /\ UNCHANGED <<now, signed, agents, feedback, validations, bonds, credits, tasks, nextTask,
                     raised, sessionVars, wall, faults>>
  BY DEF Broadcast, registryVars, arenaVars
<1>2. /\ RunTypeOK /\ MirrorInv /\ TypeOK /\ KnownAgents
      /\ p.from \in User /\ p.from \in Address /\ p.from # Arena /\ Arena \in Address
      /\ p.to = Arena /\ p.value \in Nat /\ p.nonce \in TaskId \X AgentId
  BY Places DEF RunInv, MirrorInv, TypeOK
<1>3. balances' \in [Address -> Nat] /\ balances'[Arena] = balances[Arena] + p.value
  <2>1. PICK u, v : u = p.from /\ v = p.value
    OBVIOUS
  <2>2. balances' = Moved(balances, u, Arena, v) /\ Covers(balances, u, v)
    BY <1>1, <1>2, <2>1
  <2>3. balances \in [Address -> Nat] /\ u \in Address /\ u # Arena /\ v \in Nat
    BY <1>2, <2>1 DEF TypeOK
  <2>4. balances' \in [Address -> Nat] /\ balances'[Arena] = balances[Arena] + v
    BY <1>2, <2>2, <2>3, MovedAccounts
  <2> QED BY <2>1, <2>4
<1>4. /\ authorizations' \in [Address -> SUBSET (TaskId \X AgentId)]
      /\ authorizations'[p.from] = authorizations[p.from] \cup {p.nonce}
      /\ \A u \in Address \ {p.from} : authorizations'[u] = authorizations[u]
  BY <1>1, <1>2 DEF TypeOK
<1>5. MirrorInv'
  <2>1. TypeOK'
    BY <1>1, <1>2, <1>3, <1>4 DEF TypeOK
  <2>2. EscrowTotal' = EscrowTotal + 0 /\ CreditTotal' = CreditTotal + 0
    BY <1>1, <1>2, EscrowSame, SumTypes DEF CreditTotal
  <2>3. balances'[Arena] >= balances[Arena] + 0 + 0
    BY <1>2, <1>3 DEF TypeOK
  <2>4. ArenaSolvent'
    BY <1>2, <2>1, <2>2, <2>3, StaysSolvent DEF MirrorInv
  <2> QED BY <1>1, <1>2, <2>1, <2>4 DEF MirrorInv, UnpostedAbsent, HeldByUsers, In
<1>6. RunTypeOK'
  <2>1. broadcast' \subseteq User \X (TaskId \X AgentId)
    BY <1>1, <1>2 DEF RunTypeOK
  <2> QED BY <1>1, <1>2, <2>1 DEF sessionVars, RunTypeOK
<1>7. KnownAgents'
  <2>1. \A u \in Address : \A n \in authorizations'[u] : agents'[n[2]] # NoOne
    BY <1>1, <1>2, <1>4 DEF KnownAgents
  <2> QED BY <1>1, <1>2, <2>1 DEF KnownAgents, In
<1>8. ASSUME NEW t \in Session
      PROVE  Sound(t)'
  <2>1. Spent(t)' => Spent(t)
    BY <1>1, <1>4 DEF sessionVars, Spent, Nonce, ClaimNonce
  <2>2. NonceUsed(t) => NonceUsed(t)'
    BY <1>1, <1>2, <1>4, AgentsTyped, Places DEF sessionVars, NonceUsed, Nonce, ClaimNonce, AddressOf
  <2>3. Undisturbed(t)
    BY <1>1, <2>1, <2>2 DEF sessionVars, Undisturbed, Claimed, StillRegistered
  <2>4. Resting(t) /\ Sound(t)
    BY <1>1 DEF sessionVars, Resting, RunInv, Sessions
  <2> QED BY <1>2, <2>3, <2>4, RestingSound
<1>9. Distinct'
  BY <1>1 DEF sessionVars, Distinct, RunInv
<1> QED BY <1>5, <1>6, <1>7, <1>8, <1>9 DEF RunInv, Sessions

LEMMA RunNextKeeps == ASSUME RunInv, [RunNext]_runVars PROVE RunInv'
<1>1. ASSUME NEW s \in Session, Play(s), UNCHANGED <<setup, broadcast>>
      PROVE  RunInv'
  BY <1>1, EnlistKeeps, BeginKeeps, PayKeeps, ReplayKeeps, VerifyKeeps, SubmitKeeps,
     NotePaidKeeps, CommitPlays DEF Play
<1>2. ASSUME NEW s \in Session, NodeFails(s), UNCHANGED <<setup, broadcast>>
      PROVE  RunInv'
  BY <1>2, NodeFailsKeeps
<1>3. ASSUME Market, UNCHANGED <<setup, broadcast>>
      PROVE  RunInv'
  <2>1. UNCHANGED <<sessionVars, wall, faults>>
    BY <1>3 DEF Market
  <2>2. RunTypeOK'
    BY <1>3, <2>1 DEF sessionVars, RunInv, RunTypeOK
  <2> QED BY <1>3, <2>1, <2>2, MarketRuns
<1>4. ASSUME WallTick, UNCHANGED <<setup, broadcast>>
      PROVE  RunInv'
  <2>1. wall' \in 1..MaxWall /\ UNCHANGED <<chainVars, sessionVars, faults>>
    <3>1. /\ wall < MaxWall /\ wall' = wall + 1 /\ wall \in 1..MaxWall /\ MaxWall \in Nat
          /\ UNCHANGED <<chainVars, sessionVars, faults>>
      BY <1>4, RunAssumption DEF WallTick, RunInv, RunTypeOK
    <3> QED BY <3>1
  <2>2. RunTypeOK'
    BY <1>4, <2>1 DEF sessionVars, RunInv, RunTypeOK
  <2> QED BY <1>4, <2>1, <2>2, MarketRuns
<1>5. ASSUME NEW p \in signed, Broadcast(p), UNCHANGED setup
      PROVE  RunInv'
  BY <1>5, BroadcastKeeps
<1>6. ASSUME UNCHANGED runVars
      PROVE  RunInv'
  <2>1. UNCHANGED <<setup, broadcast, chainVars, sessionVars, wall, faults>>
    BY <1>6 DEF runVars
  <2>2. RunTypeOK'
    BY <2>1 DEF sessionVars, RunInv, RunTypeOK
  <2> QED BY <2>1, <2>2, MarketRuns
<1> QED BY <1>1, <1>2, <1>3, <1>4, <1>5, <1>6 DEF RunNext

LEMMA RunInitInv == RunInit => RunInv
<1> SUFFICES ASSUME RunInit PROVE RunInv
  OBVIOUS
<1>1. MirrorInv
  BY InitMirror DEF RunInit
<1>2. RunTypeOK
  BY RunAssumption, PendingTuples DEF RunInit, RunTypeOK
<1>3. Distinct /\ KnownAgents
  BY DEF RunInit, Init, Distinct, KnownAgents, In
<1>4. \A s \in Session : Sound(s)
  BY DEF RunInit, Sound, Enlisted, Presented, Signed, Buying, Noted, Bought, Spent, Claimed,
     Pending, Verdictless
<1> QED BY <1>1, <1>2, <1>3, <1>4 DEF RunInv, Sessions

LEMMA AlwaysRun == RunSpec => []RunInv
<1>1. RunInv /\ [RunNext]_runVars => RunInv'
  BY RunNextKeeps
<1> QED BY RunInitInv, <1>1, PTL DEF RunSpec

\* The runs of the agents stay within their types, with the chain they run on
\* (agent.py:53-64, 126-196).
THEOREM RunTypeCorrect == RunSpec => [](TypeOK /\ RunTypeOK)
<1>1. RunInv => TypeOK /\ RunTypeOK
  BY DEF RunInv, MirrorInv
<1> QED BY <1>1, AlwaysRun, PTL

\* A session one of whose verifications was not a yes does not have its task, and its
\* authorisation is used only if somebody it was shown to sent it to the token, whatever
\* a remote facilitator answers and whatever it does with the header
\* (x402.py:371-376, 491-508).
THEOREM GateFailsClosed == RunSpec => []FailsClosed
<1>1. ASSUME RunInv, NEW s \in Session, refused[s]
      PROVE  Untouched(s)
  <2>1. ~Claimed(s) /\ ~Spent(s) /\ AddressOf(s) \in Address
    BY <1>1, AgentsTyped, Places DEF RunInv, Sessions, Sound, Buying, Bought
  <2> QED BY <2>1 DEF Spent, Untouched, Leaked, NonceUsed
<1>2. RunInv => FailsClosed
  BY <1>1 DEF FailsClosed
<1> QED BY <1>2, AlwaysRun, PTL

\* What the gate sold, the resolver on record signed for: this task, this agent, this fee,
\* free tasks and headers made for another claim included (x402.py:311-355, 491-508).
THEOREM GateSellsWhatWasSigned == RunSpec => []SoldAsSigned
<1>1. RunInv => SoldAsSigned
  BY DEF RunInv, Sessions, Sound, Signed, SoldAsSigned
<1> QED BY <1>1, AlwaysRun, PTL

\* The journal does not run ahead of the chain, whatever calls the node fails
\* (agent.py:176-196).
THEOREM JournalIsTruthful == RunSpec => []JournalTruthful
<1>1. RunInv => JournalTruthful
  BY DEF RunInv, Sessions, Sound, Noted, JournalTruthful
<1> QED BY <1>1, AlwaysRun, PTL

\* As long as no call raises half way and the node loses none, a run that is blocked,
\* abstains or fails has bought nothing, and its authorisation is used only if somebody it
\* was shown to sent it to the token (x402.py:352, agent.py:135-174).
THEOREM FailuresAreFree == RunSpec => []FailureIsFree
<1>1. ASSUME RunInv, NEW s \in Session, raised = 0, faults = 0, journal[s] \in Verdictless
      PROVE  Untouched(s)
  <2>1. ~Bought(s) /\ AddressOf(s) \in Address
    BY <1>1, AgentsTyped, Places DEF RunInv, Sessions, Sound, Buying, Verdictless
  <2> QED BY <2>1 DEF Bought, Spent, Untouched, Leaked, NonceUsed
<1>2. RunInv => FailureIsFree
  BY <1>1 DEF FailureIsFree, Verdictless
<1> QED BY <1>2, AlwaysRun, PTL

-----------------------------------------------------------------------------
(* The router.  A cycle's record, from the moment its incident is classified: what   *)
(* has had its turn is a part of the route, and each result stands for its handler.  *)

LEMMA SameCounts ==
    \A S, f : /\ Router!Cardinality(S) = Cardinality(S) /\ Router!IsFiniteSet(S) = IsFiniteSet(S)
              /\ Router!Total(f, S) = Total(f, S)
              /\ Adapter!Cardinality(S) = Cardinality(S) /\ Adapter!IsFiniteSet(S) = IsFiniteSet(S)
BY DEF Router!Cardinality, Router!IsFiniteSet, Router!Total, Router!Units, Router!UnitsOf,
       Adapter!Cardinality, Adapter!IsFiniteSet, Cardinality, IsFiniteSet, Total, Units, UnitsOf

Domains == {"unknown"} \cup {Signals[i].domain : i \in DOMAIN Signals}
RouteOf(c) == Router!RouteFor(domain[c])
Heard == {"fired", "noop", "suppressed", "error"}

\* The handlers of a route that are due a result: those that are unknown, which is an
\* error, and those that handle the domain.
Due(c) ==
    {i \in DOMAIN RouteOf(c) :
        RouteOf(c)[i] \notin Router!Known \/ Router!CanHandle(RouteOf(c)[i], domain[c])}
Rank(c, i) == Cardinality({j \in Due(c) : j <= i})

\* How many handlers have had their turn.
Turns(c) == Len(RouteOf(c)) - Len(todo[c])

NameOf(c) == {RouteOf(c)[i] : i \in DOMAIN RouteOf(c)}
ResultOf(c) == [handler : NameOf(c), status : Heard, synthetic : BOOLEAN, ids : SUBSET {"url", "id"}]

InTurn(c) ==
    /\ todo[c] \in Seq(NameOf(c)) /\ fired[c] \in Seq(ResultOf(c))
    /\ Len(todo[c]) <= Len(RouteOf(c))
    /\ \A i \in DOMAIN todo[c] : todo[c][i] = RouteOf(c)[Turns(c) + i]
    /\ Len(fired[c]) = Rank(c, Turns(c))
    /\ \A i \in Due(c) : i <= Turns(c) => fired[c][Rank(c, i)].handler = RouteOf(c)[i]

Truthful(c) ==
    /\ \A i \in DOMAIN fired[c] : Router!Delivered(fired[c][i]) => fired[c][i].handler \in accepted[c]
    /\ artifacts[c] \subseteq returned[c] \cup Router!MadeUp(c)
    /\ \A a \in artifacts[c] : a[1] \in accepted[c]
    /\ primary[c] # None => primary[c] \in artifacts[c]
    /\ artifacts[c] # {} => primary[c] # None

\* Past the beginning of route(), and what a send is about.
Begun(c) == routePc[c] \in {"firing", "sending", "done"}
Sending(c) ==
    /\ todo[c] # <<>> /\ Head(todo[c]) \in {"alert", "ticket"}
    /\ Router!CanHandle(Head(todo[c]), domain[c])

RecordOf(c) ==
    /\ domain[c] \in Domains
    /\ Begun(c) => domain[c] = Router!Classify(hits[c]) /\ InTurn(c)
    /\ Truthful(c)
    /\ routePc[c] = "sending" => Sending(c)
    /\ routePc[c] = "done" => todo[c] = <<>>
    /\ ~Begun(c) => fired[c] = <<>>

RouterTyped ==
    /\ routePc \in [Cycle -> {"new", "bound", "firing", "sending", "done", "raised"}]
    /\ routed \in [Cycle -> 0..MaxIncidents]
    /\ runId \in [{NotifierOf[c] : c \in Cycle} -> Cycle \cup {Adhoc}]
    /\ spent \in [Cycle \cup {Adhoc} -> 0..MaxPerCycle]
    /\ Total(spent, Cycle \cup {Adhoc}) <= MaxPerHour
    /\ hits \in [Cycle -> SUBSET Router!Pattern]
    /\ DOMAIN domain = Cycle /\ DOMAIN todo = Cycle /\ DOMAIN fired = Cycle
    /\ DOMAIN artifacts = Cycle /\ DOMAIN primary = Cycle
    /\ DOMAIN accepted = Cycle /\ DOMAIN returned = Cycle

RouterInv == RouterTyped /\ \A c \in Cycle : RecordOf(c)

\* Every domain's route is a sequence, and its alerts are the built-in handler's.
LEMMA RoutesAreSequences ==
    \A d : /\ \E S : Router!RouteFor(d) \in Seq(S)
           /\ Len(Router!RouteFor(d)) \in Nat
           /\ DOMAIN Router!RouteFor(d) = 1..Len(Router!RouteFor(d))
<1> SUFFICES ASSUME NEW d PROVE \E S : Router!RouteFor(d) \in Seq(S)
  OBVIOUS
<1>1. CASE d \in DOMAIN Override
  BY <1>1, ConversationAssumption DEF Router!RoutingAssumption, Router!RouteFor
<1>2. CASE d \notin DOMAIN Override
  <2>1. /\ Router!DefaultRouting["finance"] = <<"alert", "ticket">>
        /\ Router!DefaultRouting["infra"] = <<"ticket">>
        /\ Router!DefaultRouting["data_quality"] = <<"ticket">>
        /\ Router!DefaultRouting["security"] = <<"alert", "ticket">>
        /\ Router!DefaultRouting["unknown"] = <<"ticket">>
        /\ DOMAIN Router!DefaultRouting = {"finance", "infra", "data_quality", "security", "unknown"}
    BY DEF Router!DefaultRouting
  <2>2. Router!RouteFor(d) \in {<<"alert", "ticket">>, <<"ticket">>}
    BY <1>2, <2>1 DEF Router!RouteFor
  <2>3. ASSUME NEW S, NEW a \in S, NEW b \in S PROVE <<a, b>> \in Seq(S) /\ <<b>> \in Seq(S)
    OBVIOUS
  <2> DEFINE Names == {"alert", "ticket"}
  <2>4. "alert" \in Names /\ "ticket" \in Names
    OBVIOUS
  <2> HIDE DEF Names
  <2>5. <<"alert", "ticket">> \in Seq(Names) /\ <<"ticket">> \in Seq(Names)
    BY <2>3, <2>4
  <2> QED BY <2>2, <2>5
<1> QED BY <1>1, <1>2

LEMMA FirstIsLeast ==
    ASSUME NEW S, S \subseteq Nat, S # {}
    PROVE  Router!First(S) \in S /\ \A j \in S : Router!First(S) <= j
BY LeastExists DEF Router!First

LEMMA ClassifyKnows == \A hit : Router!Classify(hit) \in Domains
<1> SUFFICES ASSUME NEW hit PROVE Router!Classify(hit) \in Domains
  OBVIOUS
<1>1. Router!Ranked(hit) \subseteq Nat /\ Router!Hitting(hit) \subseteq Nat
  <2>1. DOMAIN Precedence \subseteq Nat /\ DOMAIN Signals \subseteq Nat
    BY ConversationAssumption DEF Router!RoutingAssumption
  <2> QED BY <2>1 DEF Router!Ranked, Router!Hitting
<1>2. CASE Router!Ranked(hit) # {}
  <2>1. Router!First(Router!Ranked(hit)) \in Router!Ranked(hit)
    BY <1>1, <1>2, FirstIsLeast
  <2> QED BY <1>2, <2>1 DEF Router!Classify, Router!Ranked, Domains
<1>3. CASE Router!Ranked(hit) = {} /\ Router!Hitting(hit) # {}
  <2>1. Router!First(Router!Hitting(hit)) \in Router!Hitting(hit)
    BY <1>1, <1>3, FirstIsLeast
  <2> QED BY <1>3, <2>1 DEF Router!Classify, Router!Hitting, Domains
<1> QED BY <1>2, <1>3 DEF Router!Classify, Domains

LEMMA RankCounts ==
    ASSUME NEW c \in Cycle
    PROVE  /\ \A i \in Int : Rank(c, i) \in Nat
           /\ \A i, k \in Int : i <= k => Rank(c, i) <= Rank(c, k)
           /\ \A i \in Due(c) : i \in Nat /\ Rank(c, i) >= 1
           /\ \A n \in Nat : Rank(c, n + 1) = IF n + 1 \in Due(c) THEN Rank(c, n) + 1 ELSE Rank(c, n)
           /\ Rank(c, 0) = 0
<1> DEFINE Up(i) == {j \in Due(c) : j <= i}
<1>1. IsFiniteSet(Due(c)) /\ \A i \in Due(c) : i \in Nat /\ i >= 1
  <2>1. Due(c) \subseteq 1..Len(RouteOf(c)) /\ Len(RouteOf(c)) \in Nat
    BY RoutesAreSequences DEF Due, RouteOf
  <2>2. IsFiniteSet(1..Len(RouteOf(c)))
    BY <2>1, FS_Interval
  <2>3. IsFiniteSet(Due(c))
    BY <2>1, <2>2, FS_Subset
  <2> QED BY <2>1, <2>3
<1>2. \A i : IsFiniteSet(Up(i)) /\ Cardinality(Up(i)) \in Nat /\ Rank(c, i) = Cardinality(Up(i))
  <2>1. \A i : IsFiniteSet(Up(i))
    BY <1>1, FS_Subset
  <2> QED BY <2>1, FS_CardinalityType DEF Rank
<1>3. ASSUME NEW i \in Int, NEW k \in Int, i <= k PROVE Rank(c, i) <= Rank(c, k)
  <2>1. Up(i) \subseteq Up(k)
    BY <1>1, <1>3
  <2>2. Cardinality(Up(i)) <= Cardinality(Up(k))
    BY <1>2, <2>1, FS_Subset
  <2> QED BY <1>2, <2>2
<1>4. ASSUME NEW i \in Due(c) PROVE Rank(c, i) >= 1
  <2>1. i \in Up(i)
    BY <1>1
  <2>2. Cardinality(Up(i)) # 0
    BY <1>2, <2>1, FS_EmptySet
  <2> QED BY <1>2, <2>2
<1>5. ASSUME NEW n \in Nat
      PROVE  Rank(c, n + 1) = IF n + 1 \in Due(c) THEN Rank(c, n) + 1 ELSE Rank(c, n)
  <2>1. CASE n + 1 \in Due(c)
    <3>1. Up(n + 1) = Up(n) \cup {n + 1} /\ n + 1 \notin Up(n)
      BY <1>1, <2>1
    <3>2. Cardinality(Up(n) \cup {n + 1}) = Cardinality(Up(n)) + 1
      BY <1>2, <3>1, FS_AddElement
    <3> QED BY <1>2, <2>1, <3>1, <3>2
  <2>2. CASE n + 1 \notin Due(c)
    <3>1. Up(n + 1) = Up(n)
      BY <1>1, <2>2
    <3> QED BY <1>2, <2>2, <3>1
  <2> QED BY <2>1, <2>2
<1>6. Rank(c, 0) = 0
  <2>1. Up(0) = {}
    BY <1>1
  <2> QED BY <1>2, <2>1, FS_EmptySet
<1> QED BY <1>1, <1>2, <1>3, <1>4, <1>5, <1>6

\* While the domain stays, the route does, and with it who is due and when.
LEMMA SameRoute ==
    ASSUME NEW c \in Cycle, domain'[c] = domain[c]
    PROVE  /\ RouteOf(c)' = RouteOf(c) /\ Due(c)' = Due(c) /\ NameOf(c)' = NameOf(c)
           /\ ResultOf(c)' = ResultOf(c) /\ \A i : Rank(c, i)' = Rank(c, i)
<1>1. RouteOf(c)' = RouteOf(c)
  BY DEF RouteOf
<1>2. Due(c)' = Due(c) /\ NameOf(c)' = NameOf(c)
  BY <1>1 DEF Due, NameOf
<1> QED BY <1>1, <1>2 DEF ResultOf, Rank

\* The handler whose turn it is.
LEMMA HeadOfRoute ==
    ASSUME NEW c \in Cycle, InTurn(c), todo[c] # <<>>
    PROVE  /\ Turns(c) \in Nat /\ Turns(c) + 1 \in DOMAIN RouteOf(c) /\ Turns(c) + 1 <= Len(RouteOf(c))
           /\ Head(todo[c]) = RouteOf(c)[Turns(c) + 1] /\ Head(todo[c]) \in NameOf(c)
           /\ Tail(todo[c]) \in Seq(NameOf(c)) /\ Len(Tail(todo[c])) = Len(todo[c]) - 1
           /\ \A i \in DOMAIN Tail(todo[c]) : Tail(todo[c])[i] = RouteOf(c)[Turns(c) + 1 + i]
<1> DEFINE Names == NameOf(c)
<1>1. /\ todo[c] \in Seq(Names) /\ Len(todo[c]) <= Len(RouteOf(c)) /\ todo[c] # <<>>
      /\ \A i \in DOMAIN todo[c] : todo[c][i] = RouteOf(c)[Turns(c) + i]
  BY DEF InTurn
<1>2. DOMAIN RouteOf(c) = 1..Len(RouteOf(c)) /\ Len(RouteOf(c)) \in Nat
  BY RoutesAreSequences DEF RouteOf
<1> HIDE DEF Names
<1>3. /\ Len(todo[c]) \in Nat /\ Len(todo[c]) >= 1 /\ DOMAIN todo[c] = 1..Len(todo[c])
      /\ Head(todo[c]) = todo[c][1] /\ Head(todo[c]) \in Names
      /\ Tail(todo[c]) \in Seq(Names) /\ Len(Tail(todo[c])) = Len(todo[c]) - 1
      /\ DOMAIN Tail(todo[c]) = 1..(Len(todo[c]) - 1)
      /\ \A i \in 1..(Len(todo[c]) - 1) : Tail(todo[c])[i] = todo[c][i + 1]
  BY <1>1
<1>4. /\ Turns(c) \in Nat /\ Turns(c) + 1 \in 1..Len(RouteOf(c)) /\ 1 \in DOMAIN todo[c]
  BY <1>1, <1>2, <1>3 DEF Turns
<1>5. Turns(c) + 1 <= Len(RouteOf(c)) /\ Head(todo[c]) = RouteOf(c)[Turns(c) + 1]
  BY <1>1, <1>2, <1>3, <1>4
<1>6. ASSUME NEW i \in DOMAIN Tail(todo[c])
      PROVE  Tail(todo[c])[i] = RouteOf(c)[Turns(c) + 1 + i]
  <2>1. i \in 1..(Len(todo[c]) - 1)
    BY <1>3
  <2>2. i + 1 \in DOMAIN todo[c] /\ Tail(todo[c])[i] = todo[c][i + 1]
    BY <1>3, <2>1
  <2>3. Turns(c) + (i + 1) = Turns(c) + 1 + i
    BY <1>4, <2>1
  <2> QED BY <1>1, <2>2, <2>3
<1> QED BY <1>2, <1>3, <1>4, <1>5, <1>6 DEF Names

\* A handler that is passed over is not due.
LEMMA PassedInTurn ==
    ASSUME NEW c \in Cycle, InTurn(c), todo[c] # <<>>, domain'[c] = domain[c],
           Head(todo[c]) \in Router!Known, ~Router!CanHandle(Head(todo[c]), domain[c]),
           todo'[c] = Tail(todo[c]), fired'[c] = fired[c]
    PROVE  InTurn(c)'
<1> DEFINE n == Turns(c)
<1>1. /\ n \in Nat /\ n + 1 <= Len(RouteOf(c)) /\ Head(todo[c]) = RouteOf(c)[n + 1]
      /\ Tail(todo[c]) \in Seq(NameOf(c)) /\ Len(Tail(todo[c])) = Len(todo[c]) - 1
      /\ \A i \in DOMAIN Tail(todo[c]) : Tail(todo[c])[i] = RouteOf(c)[n + 1 + i]
  BY HeadOfRoute
<1>2. n + 1 \notin Due(c)
  BY <1>1 DEF Due
<1>3. Rank(c, n + 1) = Rank(c, n) /\ \A i \in Due(c) : i <= n + 1 => i <= n
  <2>1. n \in Nat /\ \A i \in Due(c) : i \in Nat /\ i # n + 1
    BY <1>1, <1>2, RankCounts
  <2>2. Rank(c, n + 1) = Rank(c, n)
    BY <1>1, <1>2, RankCounts
  <2> HIDE DEF n
  <2> QED BY <2>1, <2>2
<1>4. Turns(c)' = n + 1 /\ Len(todo[c]) \in Int /\ Len(RouteOf(c)) \in Int
  <2>1. Len(RouteOf(c)) \in Nat /\ Len(todo[c]) \in Nat
    BY RoutesAreSequences DEF RouteOf, InTurn
  <2>2. RouteOf(c)' = RouteOf(c)
    BY SameRoute
  <2>3. Turns(c)' = Len(RouteOf(c)) - (Len(todo[c]) - 1)
    BY <1>1, <2>2 DEF Turns
  <2>4. n = Len(RouteOf(c)) - Len(todo[c])
    BY DEF Turns
  <2> HIDE DEF n
  <2> QED BY <2>1, <2>3, <2>4
<1>5. Len(Tail(todo[c])) <= Len(RouteOf(c))
  BY <1>1, <1>4 DEF InTurn
<1>6. /\ fired'[c] \in Seq(ResultOf(c)) /\ Len(fired'[c]) = Rank(c, n + 1)
      /\ \A i \in Due(c) : i <= n + 1 => fired'[c][Rank(c, i)].handler = RouteOf(c)[i]
  BY <1>3 DEF InTurn
<1> HIDE DEF n
<1> QED BY <1>1, <1>4, <1>5, <1>6, SameRoute DEF InTurn

\* A result is of the handler whose turn it is, and there is one for each that is due.
LEMMA ReportInTurn ==
    ASSUME NEW c \in Cycle, InTurn(c), todo[c] # <<>>, domain'[c] = domain[c],
           \/ Head(todo[c]) \notin Router!Known
           \/ Router!CanHandle(Head(todo[c]), domain[c]),
           NEW r \in ResultOf(c), r.handler = Head(todo[c]),
           todo'[c] = Tail(todo[c]), fired'[c] = Append(fired[c], r)
    PROVE  InTurn(c)'
<1> DEFINE n == Turns(c)
           Results == ResultOf(c)
<1>1. /\ n \in Nat /\ n + 1 \in DOMAIN RouteOf(c) /\ n + 1 <= Len(RouteOf(c))
      /\ Head(todo[c]) = RouteOf(c)[n + 1]
      /\ Tail(todo[c]) \in Seq(NameOf(c)) /\ Len(Tail(todo[c])) = Len(todo[c]) - 1
      /\ \A i \in DOMAIN Tail(todo[c]) : Tail(todo[c])[i] = RouteOf(c)[n + 1 + i]
  BY HeadOfRoute
<1>2. n + 1 \in Due(c)
  BY <1>1 DEF Due
<1>3. Rank(c, n + 1) = Rank(c, n) + 1 /\ Rank(c, n) \in Nat
  BY <1>1, <1>2, RankCounts
<1>4. Turns(c)' = n + 1 /\ Len(todo[c]) \in Int /\ Len(RouteOf(c)) \in Int
  <2>1. Len(RouteOf(c)) \in Nat /\ Len(todo[c]) \in Nat
    BY RoutesAreSequences DEF RouteOf, InTurn
  <2>2. RouteOf(c)' = RouteOf(c)
    BY SameRoute
  <2>3. Turns(c)' = Len(RouteOf(c)) - (Len(todo[c]) - 1)
    BY <1>1, <2>2 DEF Turns
  <2>4. n = Len(RouteOf(c)) - Len(todo[c])
    BY DEF Turns
  <2> HIDE DEF n
  <2> QED BY <2>1, <2>3, <2>4
<1>5. Len(Tail(todo[c])) <= Len(RouteOf(c))
  BY <1>1, <1>4 DEF InTurn
<1>6. fired[c] \in Seq(Results) /\ r \in Results /\ Len(fired[c]) = Rank(c, n)
  BY DEF InTurn
<1> HIDE DEF n, Results
<1>7. /\ fired'[c] \in Seq(Results) /\ Len(fired'[c]) = Rank(c, n) + 1
      /\ fired'[c][Rank(c, n) + 1] = r
      /\ \A k \in 1..Rank(c, n) : fired'[c][k] = fired[c][k]
  BY <1>6
<1>8. ASSUME NEW i \in Due(c), i <= n + 1 PROVE fired'[c][Rank(c, i)].handler = RouteOf(c)[i]
  <2>1. CASE i = n + 1
    BY <1>1, <1>3, <1>7, <2>1
  <2>2. CASE i # n + 1
    <3>1. i \in Nat /\ Rank(c, i) >= 1 /\ Rank(c, i) \in Nat
      BY RankCounts
    <3>2. i <= n
      BY <1>1, <1>8, <2>2, <3>1
    <3>3. Rank(c, i) <= Rank(c, n)
      BY <1>1, <3>1, <3>2, RankCounts
    <3>4. Rank(c, i) \in 1..Rank(c, n)
      BY <1>3, <3>1, <3>3
    <3> QED BY <1>7, <3>2, <3>4 DEF InTurn, n
  <2> QED BY <2>1, <2>2
<1> QED BY <1>1, <1>3, <1>4, <1>5, <1>7, <1>8, SameRoute, ZenonT(20) DEF InTurn, Results

\* The record of a cycle that does not move.
LEMMA RecordRests ==
    ASSUME NEW c \in Cycle, RecordOf(c), routePc'[c] = routePc[c], hits'[c] = hits[c],
           domain'[c] = domain[c], todo'[c] = todo[c], fired'[c] = fired[c],
           artifacts'[c] = artifacts[c], primary'[c] = primary[c],
           accepted'[c] = accepted[c], returned'[c] = returned[c]
    PROVE  RecordOf(c)'
<1>1. Turns(c)' = Turns(c)
  BY SameRoute DEF Turns
<1>2. InTurn(c) => InTurn(c)'
  BY <1>1, SameRoute DEF InTurn
<1>3. Truthful(c) => Truthful(c)'
  BY DEF Truthful, Router!MadeUp, Router!SettingsFor
<1>4. Begun(c)' = Begun(c) /\ Sending(c)' = Sending(c)
  BY DEF Begun, Sending
<1>5. Router!Classify(hits[c])' = Router!Classify(hits[c])
  BY DEF Router!Classify, Router!Ranked, Router!Hitting, Router!LastPattern
<1> QED BY <1>2, <1>3, <1>4, <1>5 DEF RecordOf

\* What a report changes, and that it changes it for one cycle.
LEMMA ReportFacts ==
    ASSUME RouterTyped, NEW c \in Cycle, NEW r, Router!Report(c, r)
    PROVE  /\ fired'[c] = Append(fired[c], r) /\ todo'[c] = Tail(todo[c]) /\ routePc'[c] = "firing"
           /\ DOMAIN fired' = Cycle /\ DOMAIN todo' = Cycle
           /\ DOMAIN artifacts' = Cycle /\ DOMAIN primary' = Cycle
           /\ routePc' \in [Cycle -> {"new", "bound", "firing", "sending", "done", "raised"}]
           /\ \A d \in Cycle : d # c =>
                  /\ routePc'[d] = routePc[d] /\ todo'[d] = todo[d] /\ fired'[d] = fired[d]
                  /\ artifacts'[d] = artifacts[d] /\ primary'[d] = primary[d]
           /\ IF Router!Delivered(r)
              THEN /\ artifacts'[c] = artifacts[c] \cup
                          {a \in {<<r.handler, k>> : k \in r.ids} :
                              a[2] = "url" \/ \A b \in artifacts[c] : b[2] = "url"}
                   /\ primary'[c] = IF primary[c] # None \/ r.ids = {} THEN primary[c]
                                    ELSE <<r.handler, IF "url" \in r.ids THEN "url" ELSE "id">>
              ELSE artifacts'[c] = artifacts[c] /\ primary'[c] = primary[c]
BY DEF Router!Report, RouterTyped

\* A delivery's identifiers are its destination's, and the first of them the primary.
LEMMA ReportTruthful ==
    ASSUME RouterTyped, NEW c \in Cycle, Truthful(c), fired[c] \in Seq(ResultOf(c)),
           NEW r \in ResultOf(c), Router!Report(c, r),
           accepted[c] \subseteq accepted'[c], returned[c] \subseteq returned'[c],
           Router!Delivered(r) =>
               /\ r.handler \in accepted'[c]
               /\ \A k \in r.ids : <<r.handler, k>> \in returned'[c] \cup Router!MadeUp(c)
               /\ r.ids # {} => r.handler \in AppHandler \cup {"ticket"}
    PROVE  Truthful(c)'
<1> DEFINE Results == ResultOf(c)
<1>0. Router!MadeUp(c)' = Router!MadeUp(c)
  BY DEF Router!MadeUp, Router!SettingsFor
<1>1. \A i \in DOMAIN fired'[c] :
          Router!Delivered(fired'[c][i]) => fired'[c][i].handler \in accepted'[c]
  <2>1. fired[c] \in Seq(Results) /\ r \in Results /\ fired'[c] = Append(fired[c], r)
    BY ReportFacts
  <2> HIDE DEF Results
  <2>2. \A i \in DOMAIN fired'[c] :
          fired'[c][i] = r \/ (i \in DOMAIN fired[c] /\ fired'[c][i] = fired[c][i])
    BY <2>1
  <2> QED BY <2>2 DEF Truthful
<1>2. CASE ~Router!Delivered(r)
  <2>1. artifacts'[c] = artifacts[c] /\ primary'[c] = primary[c]
    BY <1>2, ReportFacts
  <2> QED BY <1>0, <1>1, <2>1 DEF Truthful
<1>3. CASE Router!Delivered(r)
  <2>1. /\ artifacts'[c] = artifacts[c] \cup
               {a \in {<<r.handler, k>> : k \in r.ids} :
                   a[2] = "url" \/ \A b \in artifacts[c] : b[2] = "url"}
        /\ primary'[c] = IF primary[c] # None \/ r.ids = {} THEN primary[c]
                         ELSE <<r.handler, IF "url" \in r.ids THEN "url" ELSE "id">>
    BY <1>3, ReportFacts
  <2>2. r.ids \subseteq {"url", "id"} /\ (r.ids # {} => r.handler \in AppHandler \cup {"ticket"})
    BY <1>3 DEF ResultOf
  <2>3. /\ artifacts'[c] \subseteq returned'[c] \cup Router!MadeUp(c)'
        /\ \A a \in artifacts'[c] : a[1] \in accepted'[c]
    <3>1. \A a \in artifacts'[c] : a \in artifacts[c] \/ \E k \in r.ids : a = <<r.handler, k>>
      BY <2>1
    <3>2. \A a \in artifacts[c] :
              a \in returned'[c] \cup Router!MadeUp(c) /\ a[1] \in accepted'[c]
      BY DEF Truthful
    <3>3. \A k \in r.ids : /\ <<r.handler, k>> \in returned'[c] \cup Router!MadeUp(c)
                          /\ <<r.handler, k>>[1] \in accepted'[c]
      BY <1>3
    <3> QED BY <1>0, <3>1, <3>2, <3>3
  <2>4. CASE primary[c] # None \/ r.ids = {}
    BY <1>1, <2>1, <2>3, <2>4 DEF Truthful
  <2>5. CASE primary[c] = None /\ r.ids # {}
    <3> DEFINE k == IF "url" \in r.ids THEN "url" ELSE "id"
    <3>1. k \in r.ids /\ k \in {"url", "id"} /\ primary'[c] = <<r.handler, k>> /\ artifacts[c] = {}
      BY <2>1, <2>2, <2>5 DEF Truthful
    <3>2. <<r.handler, k>> \in artifacts'[c]
      BY <2>1, <3>1
    <3>3. None \notin (AppHandler \cup {"ticket"}) \X {"url", "id"}
      BY ConversationAssumption DEF Router!RoutingAssumption
    <3>4. <<r.handler, k>> # None
      <4>1. <<r.handler, k>> \in (AppHandler \cup {"ticket"}) \X {"url", "id"}
        BY <2>2, <2>5, <3>1
      <4> QED BY <3>3, <4>1
    <3> HIDE DEF k
    <3> QED BY <1>1, <2>3, <3>1, <3>2, <3>4 DEF Truthful
  <2> QED BY <2>4, <2>5
<1> QED BY <1>2, <1>3

\* What a step of one cycle leaves to the others.
OthersRest(c) ==
    \A d \in Cycle : d # c =>
        /\ routePc'[d] = routePc[d] /\ hits'[d] = hits[d] /\ domain'[d] = domain[d]
        /\ todo'[d] = todo[d] /\ fired'[d] = fired[d]
        /\ artifacts'[d] = artifacts[d] /\ primary'[d] = primary[d]
        /\ accepted'[d] = accepted[d] /\ returned'[d] = returned[d]

LEMMA OthersKeep ==
    ASSUME RouterInv, NEW c \in Cycle, OthersRest(c), RecordOf(c)', RouterTyped'
    PROVE  RouterInv'
<1>1. ASSUME NEW d \in Cycle, d # c PROVE RecordOf(d)'
  BY <1>1, RecordRests DEF RouterInv, OthersRest
<1> QED BY <1>1 DEF RouterInv

\* A handler's result keeps the record, whoever it came from.
LEMMA ReportKeeps ==
    ASSUME RouterInv, NEW c \in Cycle, routePc[c] \in {"firing", "sending"}, todo[c] # <<>>,
           \/ Head(todo[c]) \notin Router!Known
           \/ Router!CanHandle(Head(todo[c]), domain[c]),
           NEW r, r = Router!Result(Head(todo[c]), r.status, r.synthetic, r.ids),
           r.status \in Heard, r.synthetic \in BOOLEAN, r.ids \subseteq {"url", "id"},
           Router!Report(c, r), UNCHANGED <<hits, domain>>,
           accepted[c] \subseteq accepted'[c], returned[c] \subseteq returned'[c],
           Router!Delivered(r) =>
               /\ Head(todo[c]) \in accepted'[c]
               /\ \A k \in r.ids : <<Head(todo[c]), k>> \in returned'[c] \cup Router!MadeUp(c)
               /\ r.ids # {} => Head(todo[c]) \in AppHandler \cup {"ticket"}
    PROVE  RecordOf(c)'
<1>1. RouterTyped /\ RecordOf(c) /\ Begun(c) /\ InTurn(c) /\ Truthful(c)
  BY DEF RouterInv, RecordOf, Begun
<1>2. r.handler = Head(todo[c]) /\ r \in ResultOf(c)
  <2>1. Head(todo[c]) \in NameOf(c)
    BY <1>1, HeadOfRoute
  <2> QED BY <2>1 DEF Router!Result, ResultOf
<1>3. /\ fired'[c] = Append(fired[c], r) /\ todo'[c] = Tail(todo[c]) /\ routePc'[c] = "firing"
  BY <1>1, ReportFacts
<1>4. InTurn(c)'
  BY <1>1, <1>2, <1>3, ReportInTurn
<1>5. Truthful(c)'
  BY <1>1, <1>2, ReportTruthful DEF InTurn
<1>6. Router!Classify(hits[c])' = Router!Classify(hits[c])
  BY DEF Router!Classify, Router!Ranked, Router!Hitting, Router!LastPattern
<1> QED BY <1>1, <1>3, <1>4, <1>5, <1>6 DEF RecordOf, Begun

LEMMA PatternsStay == Router!Pattern' = Router!Pattern
BY DEF Router!Pattern

\* Types when neither the limiter nor a notifier is touched.
LEMMA QuietTypes ==
    ASSUME RouterTyped, NEW c \in Cycle, UNCHANGED <<runId, spent>>,
           routePc' \in [Cycle -> {"new", "bound", "firing", "sending", "done", "raised"}],
           routed' \in [Cycle -> 0..MaxIncidents], hits' \in [Cycle -> SUBSET Router!Pattern],
           DOMAIN domain' = Cycle, DOMAIN todo' = Cycle, DOMAIN fired' = Cycle,
           DOMAIN artifacts' = Cycle, DOMAIN primary' = Cycle,
           DOMAIN accepted' = Cycle, DOMAIN returned' = Cycle
    PROVE  RouterTyped'
<1>1. Router!Pattern' = Router!Pattern
  BY DEF Router!Pattern
<1> QED BY <1>1 DEF RouterTyped

\* A result that leaves the limiter alone.
LEMMA ReportSteps ==
    ASSUME RouterInv, NEW c \in Cycle, NEW r, Router!Report(c, r), RecordOf(c)',
           UNCHANGED <<routed, runId, spent, hits, domain>>,
           DOMAIN accepted' = Cycle, DOMAIN returned' = Cycle,
           \A d \in Cycle \ {c} : accepted'[d] = accepted[d] /\ returned'[d] = returned[d]
    PROVE  RouterInv'
<1>1. RouterTyped
  BY DEF RouterInv
<1>2. /\ DOMAIN fired' = Cycle /\ DOMAIN todo' = Cycle
      /\ DOMAIN artifacts' = Cycle /\ DOMAIN primary' = Cycle
      /\ routePc' \in [Cycle -> {"new", "bound", "firing", "sending", "done", "raised"}]
      /\ \A d \in Cycle : d # c =>
             /\ routePc'[d] = routePc[d] /\ todo'[d] = todo[d] /\ fired'[d] = fired[d]
             /\ artifacts'[d] = artifacts[d] /\ primary'[d] = primary[d]
  BY <1>1, ReportFacts
<1>3. /\ routed' \in [Cycle -> 0..MaxIncidents] /\ hits' \in [Cycle -> SUBSET Router!Pattern]
      /\ DOMAIN domain' = Cycle
  BY <1>1 DEF RouterTyped
<1>4. RouterTyped'
  BY <1>1, <1>2, <1>3, QuietTypes
<1>5. OthersRest(c)
  BY <1>2 DEF OthersRest
<1> QED BY <1>4, <1>5, OthersKeep

LEMMA BindRunKeeps == ASSUME RouterInv, NEW c \in Cycle, Router!BindRun(c) PROVE RouterInv'
<1>1. RouterTyped /\ RecordOf(c)
  BY DEF RouterInv
<1>2. /\ routePc[c] = "new" /\ routePc' = [routePc EXCEPT ![c] = "bound"]
      /\ runId' = [runId EXCEPT ![NotifierOf[c]] = c]
      /\ UNCHANGED <<routed, spent, hits, todo, fired, domain, artifacts, primary, accepted, returned>>
  BY DEF Router!BindRun, Router!record
<1>3. RouterTyped'
  <2>1. Router!Pattern' = Router!Pattern
    BY DEF Router!Pattern
  <2> QED BY <1>1, <1>2, <2>1 DEF RouterTyped
<1>4. OthersRest(c)
  BY <1>1, <1>2 DEF OthersRest, RouterTyped
<1>5. RecordOf(c)'
  <2>1. routePc'[c] = "bound" /\ Truthful(c)'
    BY <1>1, <1>2 DEF RecordOf, Truthful, RouterTyped
  <2> QED BY <1>1, <1>2, <2>1 DEF RecordOf, Begun
<1> QED BY <1>3, <1>4, <1>5, OthersKeep

LEMMA RouteKeeps ==
    ASSUME RouterInv, NEW c \in Cycle, NEW hit \in SUBSET Router!Pattern, Router!Route(c, hit)
    PROVE  RouterInv'
<1>1. RouterTyped
  BY DEF RouterInv
<1>2. /\ routed[c] < MaxIncidents /\ routed' = [routed EXCEPT ![c] = @ + 1]
      /\ hits' = [hits EXCEPT ![c] = hit]
      /\ domain' = [domain EXCEPT ![c] = Router!Classify(hit)]
      /\ todo' = [todo EXCEPT ![c] = Router!RouteFor(Router!Classify(hit))]
      /\ fired' = [fired EXCEPT ![c] = <<>>]
      /\ artifacts' = [artifacts EXCEPT ![c] = {}] /\ primary' = [primary EXCEPT ![c] = None]
      /\ accepted' = [accepted EXCEPT ![c] = {}] /\ returned' = [returned EXCEPT ![c] = {}]
      /\ routePc' = [routePc EXCEPT ![c] = "firing"] /\ UNCHANGED <<runId, spent>>
  BY DEF Router!Route
<1>3. RouterTyped'
  <2>1. routed' \in [Cycle -> 0..MaxIncidents]
    <3>1. routed \in [Cycle -> 0..MaxIncidents] /\ MaxIncidents \in Nat
      BY <1>1, ConversationAssumption DEF RouterTyped, Router!RoutingAssumption
    <3>2. routed[c] + 1 \in 0..MaxIncidents
      BY <1>2, <3>1
    <3> QED BY <1>2, <3>1, <3>2
  <2>2. /\ routePc' \in [Cycle -> {"new", "bound", "firing", "sending", "done", "raised"}]
        /\ hits' \in [Cycle -> SUBSET Router!Pattern]
    BY <1>1, <1>2 DEF RouterTyped
  <2>3. /\ DOMAIN domain' = Cycle /\ DOMAIN todo' = Cycle /\ DOMAIN fired' = Cycle
        /\ DOMAIN artifacts' = Cycle /\ DOMAIN primary' = Cycle
        /\ DOMAIN accepted' = Cycle /\ DOMAIN returned' = Cycle
    BY <1>1, <1>2 DEF RouterTyped
  <2> QED BY <1>1, <1>2, <2>1, <2>2, <2>3, QuietTypes
<1>4. OthersRest(c)
  BY <1>1, <1>2 DEF OthersRest, RouterTyped
<1>5. /\ routePc'[c] = "firing" /\ hits'[c] = hit /\ domain'[c] = Router!Classify(hit)
      /\ todo'[c] = Router!RouteFor(domain'[c]) /\ fired'[c] = <<>>
      /\ artifacts'[c] = {} /\ primary'[c] = None
  BY <1>1, <1>2 DEF RouterTyped
<1>6. domain'[c] \in Domains'
  BY <1>5, ClassifyKnows DEF Domains
<1>7. domain'[c] = Router!Classify(hits[c])'
  BY <1>5 DEF Router!Classify, Router!Ranked, Router!Hitting, Router!LastPattern
<1>8. InTurn(c)'
  <2>1. todo'[c] = RouteOf(c)'
    BY <1>5 DEF RouteOf, Router!RouteFor
  <2>2. /\ DOMAIN Router!RouteFor(domain'[c]) = 1..Len(Router!RouteFor(domain'[c]))
        /\ Len(Router!RouteFor(domain'[c])) \in Nat
    BY RoutesAreSequences
  <2>3. DOMAIN todo'[c] = 1..Len(todo'[c]) /\ Len(todo'[c]) \in Nat
    BY <1>5, <2>2
  <2>4. todo'[c] \in Seq(NameOf(c)')
    <3>1. PICK S : todo'[c] \in Seq(S)
      BY <1>5, RoutesAreSequences
    <3>2. NameOf(c)' = {todo'[c][i] : i \in DOMAIN todo'[c]}
      BY <2>1 DEF NameOf
    <3>3. todo'[c] \in [1..Len(todo'[c]) -> {todo'[c][i] : i \in DOMAIN todo'[c]}]
      BY <2>3, <3>1
    <3> QED BY <2>3, <3>2, <3>3
  <2>5. Turns(c)' = 0 /\ \A i \in 1..Len(todo'[c]) : Turns(c)' + i = i
    BY <2>1, <2>3 DEF Turns
  <2>6. Rank(c, 0)' = 0 /\ \A i \in Due(c)' : ~(i <= 0)
    <3>1. Due(c)' \subseteq DOMAIN todo'[c]
      BY <2>1 DEF Due
    <3>2. \A i \in Due(c)' : i \in Nat /\ i >= 1
      BY <2>3, <3>1
    <3>3. {j \in Due(c)' : j <= 0} = {}
      BY <3>2
    <3> QED BY <3>2, <3>3, FS_EmptySet DEF Rank
  <2>7. fired'[c] \in Seq(ResultOf(c)') /\ Len(fired'[c]) = 0
    BY <1>5
  <2> QED BY <2>1, <2>3, <2>4, <2>5, <2>6, <2>7 DEF InTurn
<1>9. Truthful(c)'
  BY <1>5 DEF Truthful
<1>10. RecordOf(c)'
  BY <1>5, <1>6, <1>7, <1>8, <1>9 DEF RecordOf, Begun
<1> QED BY <1>3, <1>4, <1>10, OthersKeep

LEMMA PassOverKeeps == ASSUME RouterInv, NEW c \in Cycle, Router!PassOver(c) PROVE RouterInv'
<1>1. RouterTyped /\ RecordOf(c) /\ routePc[c] = "firing" /\ todo[c] # <<>>
      /\ UNCHANGED <<routed, runId, spent, hits, domain, accepted, returned>>
  BY DEF RouterInv, Router!PassOver, Router!Firing
<1>2. CASE Head(todo[c]) \notin Router!Known
  <2> DEFINE r == Router!Result(Head(todo[c]), "error", FALSE, {})
  <2>1. Router!Report(c, r)
    BY <1>2 DEF Router!PassOver
  <2>2. /\ r = Router!Result(Head(todo[c]), r.status, r.synthetic, r.ids)
        /\ r.status \in Heard /\ r.synthetic \in BOOLEAN /\ r.ids \subseteq {"url", "id"}
        /\ ~Router!Delivered(r)
    BY DEF Router!Result, Router!Delivered, Heard
  <2> HIDE DEF r
  <2>3. RecordOf(c)'
    BY <1>1, <1>2, <2>1, <2>2, ReportKeeps
  <2>4. DOMAIN accepted' = Cycle /\ DOMAIN returned' = Cycle
    BY <1>1 DEF RouterTyped
  <2> QED BY <1>1, <2>1, <2>3, <2>4, ReportSteps
<1>3. CASE /\ Head(todo[c]) \in Router!Known
           /\ ~Router!CanHandle(Head(todo[c]), domain[c])
           /\ todo' = [todo EXCEPT ![c] = Tail(@)]
           /\ UNCHANGED <<routePc, fired, artifacts, primary>>
  <2>1. todo'[c] = Tail(todo[c]) /\ DOMAIN todo' = Cycle
    BY <1>1, <1>3 DEF RouterTyped
  <2>2. OthersRest(c)
    BY <1>1, <1>3 DEF OthersRest, RouterTyped
  <2>3. RouterTyped'
    <3>1. /\ routePc' \in [Cycle -> {"new", "bound", "firing", "sending", "done", "raised"}]
          /\ routed' \in [Cycle -> 0..MaxIncidents] /\ hits' \in [Cycle -> SUBSET Router!Pattern]
          /\ DOMAIN domain' = Cycle /\ DOMAIN fired' = Cycle
          /\ DOMAIN artifacts' = Cycle /\ DOMAIN primary' = Cycle
          /\ DOMAIN accepted' = Cycle /\ DOMAIN returned' = Cycle
      BY <1>1, <1>3 DEF RouterTyped
    <3> QED BY <1>1, <2>1, <3>1, QuietTypes
  <2>4. InTurn(c)'
    BY <1>1, <1>3, <2>1, PassedInTurn DEF RecordOf, Begun
  <2>5. Truthful(c)'
    BY <1>1, <1>3 DEF RecordOf, Begun, Truthful
  <2>6. Router!Classify(hits[c])' = Router!Classify(hits[c])
    BY <1>1 DEF Router!Classify, Router!Ranked, Router!Hitting, Router!LastPattern
  <2>7. RecordOf(c)'
    BY <1>1, <1>3, <2>4, <2>5, <2>6 DEF RecordOf, Begun
  <2> QED BY <2>2, <2>3, <2>7, OthersKeep
<1> QED BY <1>2, <1>3 DEF Router!PassOver

LEMMA FireAppKeeps == ASSUME RouterInv, NEW c \in Cycle, Router!FireApp(c) PROVE RouterInv'
<1> DEFINE h == Head(todo[c])
<1>1. /\ RouterTyped /\ RecordOf(c) /\ routePc[c] = "firing" /\ todo[c] # <<>> /\ h \in AppHandler
      /\ UNCHANGED <<routed, runId, spent, hits, domain>>
  BY DEF RouterInv, Router!FireApp, Router!Firing
<1>2. Router!CanHandle(h, domain[c])
  <2>1. h \notin {"alert", "ticket"}
    BY <1>1, ConversationAssumption DEF Router!RoutingAssumption
  <2> QED BY <2>1 DEF Router!CanHandle
<1>3. PICK acts \in BOOLEAN, raises \in BOOLEAN :
          /\ Router!Report(c, IF raises THEN Router!Result(h, "error", FALSE, {})
                              ELSE IF acts THEN Router!Result(h, "fired", FALSE, {"url"})
                              ELSE Router!Result(h, "noop", TRUE, {}))
          /\ accepted' = [accepted EXCEPT ![c] = IF acts THEN @ \cup {h} ELSE @]
          /\ returned' = [returned EXCEPT ![c] =
                 IF acts /\ ~raises THEN @ \cup {<<h, "url">>} ELSE @]
  BY DEF Router!FireApp
<1>4. /\ DOMAIN accepted' = Cycle /\ DOMAIN returned' = Cycle
      /\ \A d \in Cycle \ {c} : accepted'[d] = accepted[d] /\ returned'[d] = returned[d]
      /\ accepted'[c] = IF acts THEN accepted[c] \cup {h} ELSE accepted[c]
      /\ returned'[c] = IF acts /\ ~raises THEN returned[c] \cup {<<h, "url">>} ELSE returned[c]
  BY <1>1, <1>3 DEF RouterTyped
<1> DEFINE r == IF raises THEN Router!Result(h, "error", FALSE, {})
                ELSE IF acts THEN Router!Result(h, "fired", FALSE, {"url"})
                ELSE Router!Result(h, "noop", TRUE, {})
<1>5. /\ r = Router!Result(h, r.status, r.synthetic, r.ids)
      /\ r.status \in Heard /\ r.synthetic \in BOOLEAN /\ r.ids \subseteq {"url", "id"}
      /\ Router!Delivered(r) => acts /\ ~raises /\ r.ids = {"url"}
  BY DEF Router!Result, Router!Delivered, Heard
<1>6. Router!Report(c, r)
  BY <1>3
<1> HIDE DEF r
<1>7. /\ accepted[c] \subseteq accepted'[c] /\ returned[c] \subseteq returned'[c]
      /\ Router!Delivered(r) =>
            /\ h \in accepted'[c]
            /\ \A k \in r.ids : <<h, k>> \in returned'[c] \cup Router!MadeUp(c)
            /\ r.ids # {} => h \in AppHandler \cup {"ticket"}
  BY <1>1, <1>4, <1>5
<1>8. RecordOf(c)'
  BY <1>1, <1>2, <1>5, <1>6, <1>7, ReportKeeps
<1> QED BY <1>1, <1>4, <1>6, <1>8, ReportSteps

LEMMA BreakKeeps == ASSUME RouterInv, NEW c \in Cycle, Router!Break(c) PROVE RouterInv'
<1>1. /\ RouterTyped /\ RecordOf(c) /\ UNCHANGED <<routed, runId, spent, hits, domain, returned>>
      /\ routePc' = [routePc EXCEPT ![c] = "raised"]
      /\ todo' = [todo EXCEPT ![c] = <<>>] /\ fired' = [fired EXCEPT ![c] = <<>>]
      /\ artifacts' = [artifacts EXCEPT ![c] = {}] /\ primary' = [primary EXCEPT ![c] = None]
  BY DEF RouterInv, Router!Break
<1>2. PICK taken : accepted' = [accepted EXCEPT ![c] = taken]
  BY DEF Router!Break
<1>3. RouterTyped'
  <2>1. /\ routePc' \in [Cycle -> {"new", "bound", "firing", "sending", "done", "raised"}]
        /\ routed' \in [Cycle -> 0..MaxIncidents] /\ hits' \in [Cycle -> SUBSET Router!Pattern]
        /\ DOMAIN domain' = Cycle /\ DOMAIN todo' = Cycle /\ DOMAIN fired' = Cycle
        /\ DOMAIN artifacts' = Cycle /\ DOMAIN primary' = Cycle
        /\ DOMAIN accepted' = Cycle /\ DOMAIN returned' = Cycle
    BY <1>1, <1>2 DEF RouterTyped
  <2> QED BY <1>1, <2>1, QuietTypes
<1>4. OthersRest(c)
  BY <1>1, <1>2 DEF OthersRest, RouterTyped
<1>5. RecordOf(c)'
  <2>1. /\ routePc'[c] = "raised" /\ fired'[c] = <<>> /\ artifacts'[c] = {} /\ primary'[c] = None
        /\ domain'[c] \in Domains'
    BY <1>1 DEF RouterTyped, RecordOf, Domains
  <2> QED BY <2>1 DEF RecordOf, Begun, Truthful
<1> QED BY <1>3, <1>4, <1>5, OthersKeep

LEMMA SendKeeps == ASSUME RouterInv, NEW c \in Cycle, Router!Send(c) PROVE RouterInv'
<1> DEFINE h == Head(todo[c])
<1>1. /\ RouterTyped /\ RecordOf(c) /\ routePc[c] = "sending"
      /\ UNCHANGED <<routed, runId, spent, hits, domain>>
  BY DEF RouterInv, Router!Send
<1>2. todo[c] # <<>> /\ h \in {"alert", "ticket"} /\ Router!CanHandle(h, domain[c])
  BY <1>1 DEF RecordOf, Sending
<1>3. CASE \E ids \in Router!Answers(h) :
              /\ Router!Report(c, Router!Result(h, "fired", FALSE, Router!Reported(c, h, ids)))
              /\ accepted' = [accepted EXCEPT ![c] = @ \cup {h}]
              /\ returned' = [returned EXCEPT ![c] = @ \cup {<<h, k>> : k \in ids}]
  <2>1. PICK ids \in Router!Answers(h) :
              /\ Router!Report(c, Router!Result(h, "fired", FALSE, Router!Reported(c, h, ids)))
              /\ accepted' = [accepted EXCEPT ![c] = @ \cup {h}]
              /\ returned' = [returned EXCEPT ![c] = @ \cup {<<h, k>> : k \in ids}]
    BY <1>3
  <2> DEFINE all == Router!Reported(c, h, ids)
  <2>2. /\ all \subseteq {"url", "id"} /\ (all # {} => h \in AppHandler \cup {"ticket"})
        /\ \A k \in all : k \in ids \/ <<h, k>> \in Router!MadeUp(c)
    BY <1>2 DEF Router!Answers, Router!Reported, Router!MadeUp
  <2>3. /\ DOMAIN accepted' = Cycle /\ DOMAIN returned' = Cycle
        /\ \A d \in Cycle \ {c} : accepted'[d] = accepted[d] /\ returned'[d] = returned[d]
        /\ accepted'[c] = accepted[c] \cup {h}
        /\ returned'[c] = returned[c] \cup {<<h, k>> : k \in ids}
    BY <1>1, <2>1 DEF RouterTyped
  <2> HIDE DEF all
  <2> DEFINE r == Router!Result(h, "fired", FALSE, all)
  <2>4. /\ r = Router!Result(h, r.status, r.synthetic, r.ids)
        /\ r.status \in Heard /\ r.synthetic \in BOOLEAN /\ r.ids = all
    BY DEF Router!Result, Heard
  <2>5. Router!Report(c, r)
    BY <2>1 DEF all
  <2> HIDE DEF r
  <2>6. RecordOf(c)'
    BY <1>1, <1>2, <2>2, <2>3, <2>4, <2>5, ReportKeeps
  <2> QED BY <1>1, <2>3, <2>5, <2>6, ReportSteps
<1>4. CASE /\ Router!Report(c, Router!Result(h, "error", TRUE, {}))
           /\ \/ accepted' = [accepted EXCEPT ![c] = @ \cup {h}]
              \/ UNCHANGED accepted
           /\ UNCHANGED returned
  <2>1. /\ DOMAIN accepted' = Cycle /\ DOMAIN returned' = Cycle
        /\ \A d \in Cycle \ {c} : accepted'[d] = accepted[d] /\ returned'[d] = returned[d]
        /\ accepted[c] \subseteq accepted'[c] /\ returned[c] \subseteq returned'[c]
    BY <1>1, <1>4 DEF RouterTyped
  <2> DEFINE r == Router!Result(h, "error", TRUE, {})
  <2>2. /\ r = Router!Result(h, r.status, r.synthetic, r.ids)
        /\ r.status \in Heard /\ r.synthetic \in BOOLEAN /\ r.ids \subseteq {"url", "id"}
        /\ ~Router!Delivered(r)
    BY DEF Router!Result, Router!Delivered, Heard
  <2>3. Router!Report(c, r)
    BY <1>4
  <2> HIDE DEF r
  <2>4. RecordOf(c)'
    BY <1>1, <1>2, <2>1, <2>2, <2>3, ReportKeeps
  <2> QED BY <1>1, <2>1, <2>3, <2>4, ReportSteps
<1> QED BY <1>3, <1>4 DEF Router!Send

LEMMA FinishKeeps == ASSUME RouterInv, NEW c \in Cycle, Router!Finish(c) PROVE RouterInv'
<1>1. /\ RouterTyped /\ RecordOf(c) /\ routePc[c] = "firing" /\ todo[c] = <<>>
      /\ routePc' = [routePc EXCEPT ![c] = "done"]
      /\ UNCHANGED <<routed, runId, spent, hits, todo, fired, domain, artifacts, primary,
                     accepted, returned>>
  BY DEF RouterInv, Router!Finish, Router!record
<1>2. RouterTyped'
  <2>1. /\ routePc' \in [Cycle -> {"new", "bound", "firing", "sending", "done", "raised"}]
        /\ routed' \in [Cycle -> 0..MaxIncidents] /\ hits' \in [Cycle -> SUBSET Router!Pattern]
        /\ DOMAIN domain' = Cycle /\ DOMAIN todo' = Cycle /\ DOMAIN fired' = Cycle
        /\ DOMAIN artifacts' = Cycle /\ DOMAIN primary' = Cycle
        /\ DOMAIN accepted' = Cycle /\ DOMAIN returned' = Cycle
    BY <1>1 DEF RouterTyped
  <2> QED BY <1>1, <2>1, QuietTypes
<1>3. OthersRest(c)
  BY <1>1 DEF OthersRest, RouterTyped
<1>4. RecordOf(c)'
  <2>1. Turns(c)' = Turns(c)
    BY <1>1, SameRoute DEF Turns
  <2>2. InTurn(c)'
    BY <1>1, <2>1, SameRoute DEF InTurn, RecordOf, Begun
  <2>3. Truthful(c)'
    BY <1>1 DEF Truthful, RecordOf, Begun
  <2>4. Router!Classify(hits[c])' = Router!Classify(hits[c])
    BY <1>1 DEF Router!Classify, Router!Ranked, Router!Hitting, Router!LastPattern
  <2>5. routePc'[c] = "done"
    BY <1>1 DEF RouterTyped
  <2> QED BY <1>1, <2>2, <2>3, <2>4, <2>5 DEF RecordOf, Begun
<1> QED BY <1>2, <1>3, <1>4, OthersKeep

\* The limiter counts within both its bounds.
LEMMA SpendTypes ==
    ASSUME RouterTyped, NEW run \in Cycle \cup {Adhoc}, Router!Allows(run),
           spent' = [spent EXCEPT ![run] = @ + 1]
    PROVE  /\ spent' \in [Cycle \cup {Adhoc} -> 0..MaxPerCycle]
           /\ Total(spent', Cycle \cup {Adhoc}) <= MaxPerHour
<1> DEFINE Runs == Cycle \cup {Adhoc}
<1>1. /\ MaxPerCycle \in Nat /\ MaxPerHour \in Nat /\ IsFiniteSet(Runs)
      /\ spent \in [Runs -> 0..MaxPerCycle]
  <2>1. IsFiniteSet(Cycle)
    BY ConversationAssumption, SameCounts DEF Router!RoutingAssumption
  <2>2. IsFiniteSet(Runs)
    BY <2>1, FS_AddElement
  <2> QED BY <2>2, ConversationAssumption DEF Router!RoutingAssumption, RouterTyped
<1>2. Total(spent, Runs) < MaxPerHour /\ spent[run] < MaxPerCycle
  BY SameCounts DEF Router!Allows, Router!HourSpent
<1>3. /\ spent[run] \in 0..MaxPerCycle /\ spent[run] + 1 \in 0..MaxPerCycle
      /\ spent'[run] = spent[run] + 1
      /\ spent' \in [Runs -> 0..MaxPerCycle]
  <2>1. spent[run] \in 0..MaxPerCycle /\ spent'[run] = spent[run] + 1
    BY <1>1
  <2>2. spent[run] + 1 \in 0..MaxPerCycle
    BY <1>1, <1>2, <2>1
  <2> QED BY <1>1, <2>1, <2>2
<1>4. /\ Amounts(spent, Runs) /\ Amounts(spent', Runs) /\ AgreeOff(spent, spent', Runs, run)
      /\ run \in Runs
  BY <1>1, <1>3 DEF Amounts, AgreeOff
<1> HIDE DEF Runs
<1>5. /\ Total(spent', Runs) = Total(spent, Runs) - spent[run] + spent'[run]
      /\ Total(spent, Runs) \in Nat /\ spent[run] \in Nat
  <2>1. ASSUME NEW f, NEW g, Amounts(f, Runs), Amounts(g, Runs), AgreeOff(f, g, Runs, run)
        PROVE  /\ Total(g, Runs) = Total(f, Runs) - f[run] + g[run]
               /\ Total(f, Runs) \in Nat /\ f[run] \in Nat
    BY <1>1, <1>4, <2>1, TotalUpdate
  <2> QED BY <1>4, <2>1
<1>6. Total(spent', Runs) <= MaxPerHour
  BY <1>1, <1>2, <1>3, <1>5
<1> QED BY <1>3, <1>6 DEF Runs

LEMMA AskKeeps == ASSUME RouterInv, NEW c \in Cycle, Router!Ask(c) PROVE RouterInv'
<1> DEFINE h == Head(todo[c])
           run == runId[NotifierOf[c]]
<1>1. /\ RouterTyped /\ RecordOf(c) /\ routePc[c] = "firing" /\ todo[c] # <<>>
      /\ h \in {"alert", "ticket"} /\ Router!CanHandle(h, domain[c])
      /\ UNCHANGED <<routed, runId, hits, domain, accepted, returned>>
      /\ run \in Cycle \cup {Adhoc}
  BY DEF RouterInv, RouterTyped, Router!Ask, Router!Firing
<1>2. /\ DOMAIN accepted' = Cycle /\ DOMAIN returned' = Cycle /\ DOMAIN domain' = Cycle
      /\ \A d \in Cycle \ {c} : accepted'[d] = accepted[d] /\ returned'[d] = returned[d]
      /\ routed' \in [Cycle -> 0..MaxIncidents] /\ hits' \in [Cycle -> SUBSET Router!Pattern]
  BY <1>1 DEF RouterTyped
<1>3. ASSUME NEW s \in {"suppressed", "noop"}, NEW ids \in SUBSET {"id"},
             Router!Report(c, Router!Result(h, s, TRUE, ids)),
             /\ spent' \in [Cycle \cup {Adhoc} -> 0..MaxPerCycle]
             /\ Total(spent', Cycle \cup {Adhoc}) <= MaxPerHour
      PROVE  RouterInv'
  <2> DEFINE r == Router!Result(h, s, TRUE, ids)
  <2>1. /\ r = Router!Result(h, r.status, r.synthetic, r.ids)
        /\ r.status \in Heard /\ r.synthetic \in BOOLEAN /\ r.ids \subseteq {"url", "id"}
        /\ ~Router!Delivered(r)
    BY DEF Router!Result, Router!Delivered, Heard
  <2>2. Router!Report(c, r)
    BY <1>3
  <2> HIDE DEF r
  <2>3. RecordOf(c)'
    BY <1>1, <2>1, <2>2, ReportKeeps
  <2>4. /\ DOMAIN fired' = Cycle /\ DOMAIN todo' = Cycle
        /\ DOMAIN artifacts' = Cycle /\ DOMAIN primary' = Cycle
        /\ routePc' \in [Cycle -> {"new", "bound", "firing", "sending", "done", "raised"}]
        /\ \A d \in Cycle : d # c =>
               /\ routePc'[d] = routePc[d] /\ todo'[d] = todo[d] /\ fired'[d] = fired[d]
               /\ artifacts'[d] = artifacts[d] /\ primary'[d] = primary[d]
    BY <1>1, <2>2, ReportFacts
  <2>5. OthersRest(c)
    BY <1>1, <2>4 DEF OthersRest
  <2>6. RouterTyped'
    BY <1>1, <1>2, <1>3, <2>4, PatternsStay DEF RouterTyped
  <2> QED BY <2>3, <2>5, <2>6, OthersKeep
<1>4. CASE /\ ~Router!Allows(run) /\ Router!Report(c, Router!Result(h, "suppressed", TRUE, {}))
           /\ UNCHANGED spent
  <2>1. /\ spent' \in [Cycle \cup {Adhoc} -> 0..MaxPerCycle]
        /\ Total(spent', Cycle \cup {Adhoc}) <= MaxPerHour
    BY <1>1, <1>4 DEF RouterTyped
  <2>2. "suppressed" \in {"suppressed", "noop"} /\ {} \in SUBSET {"id"}
    OBVIOUS
  <2> QED BY <1>3, <1>4, <2>1, <2>2
<1>5. CASE Router!Allows(run) /\ spent' = [spent EXCEPT ![run] = @ + 1]
           /\ Router!Report(c, Router!Result(h, "noop", TRUE, IF h = "ticket" THEN {"id"} ELSE {}))
  <2>1. /\ spent' \in [Cycle \cup {Adhoc} -> 0..MaxPerCycle]
        /\ Total(spent', Cycle \cup {Adhoc}) <= MaxPerHour
    BY <1>1, <1>5, SpendTypes
  <2> DEFINE ids == IF h = "ticket" THEN {"id"} ELSE {}
  <2>2. "noop" \in {"suppressed", "noop"} /\ ids \in SUBSET {"id"}
    OBVIOUS
  <2>3. Router!Report(c, Router!Result(h, "noop", TRUE, ids))
    BY <1>5
  <2> HIDE DEF ids
  <2> QED BY <1>3, <2>1, <2>2, <2>3
<1>6. CASE /\ Router!Allows(run) /\ spent' = [spent EXCEPT ![run] = @ + 1]
           /\ routePc' = [routePc EXCEPT ![c] = "sending"]
           /\ UNCHANGED <<todo, fired, artifacts, primary>>
  <2>1. RouterTyped'
    <3>1. /\ routePc' \in [Cycle -> {"new", "bound", "firing", "sending", "done", "raised"}]
          /\ DOMAIN todo' = Cycle /\ DOMAIN fired' = Cycle
          /\ DOMAIN artifacts' = Cycle /\ DOMAIN primary' = Cycle
      BY <1>1, <1>6 DEF RouterTyped
    <3>2. /\ spent' \in [Cycle \cup {Adhoc} -> 0..MaxPerCycle]
          /\ Total(spent', Cycle \cup {Adhoc}) <= MaxPerHour
      BY <1>1, <1>6, SpendTypes
    <3> QED BY <1>1, <1>2, <3>1, <3>2, PatternsStay DEF RouterTyped
  <2>2. OthersRest(c)
    BY <1>1, <1>6 DEF OthersRest, RouterTyped
  <2>3. RecordOf(c)'
    <3>1. Turns(c)' = Turns(c)
      BY <1>1, <1>6, SameRoute DEF Turns
    <3>2. InTurn(c)'
      BY <1>1, <1>6, <3>1, SameRoute DEF InTurn, RecordOf, Begun
    <3>3. Truthful(c)'
      BY <1>1, <1>6 DEF Truthful, RecordOf, Begun
    <3>4. Router!Classify(hits[c])' = Router!Classify(hits[c])
      BY <1>1 DEF Router!Classify, Router!Ranked, Router!Hitting, Router!LastPattern
    <3>5. routePc'[c] = "sending" /\ Sending(c)'
      BY <1>1, <1>6 DEF RouterTyped, Sending
    <3> QED BY <1>1, <1>6, <3>2, <3>3, <3>4, <3>5 DEF RecordOf, Begun
  <2> QED BY <2>1, <2>2, <2>3, OthersKeep
<1> QED BY <1>4, <1>5, <1>6 DEF Router!Ask

LEMMA RouterNextKeeps ==
    ASSUME RouterInv, [Router!Next]_(Router!vars) PROVE RouterInv'
<1>1. ASSUME NEW c \in Cycle, Router!Work(c) PROVE RouterInv'
  BY <1>1, PassOverKeeps, FireAppKeeps, BreakKeeps, AskKeeps, SendKeeps, FinishKeeps DEF Router!Work
<1>2. ASSUME UNCHANGED Router!vars PROVE RouterInv'
  <2>1. UNCHANGED routingVars
    BY <1>2 DEF Router!vars, routingVars
  <2>2. RouterTyped'
    BY <2>1, PatternsStay DEF RouterInv, RouterTyped, routingVars
  <2>3. \A c \in Cycle : RecordOf(c)'
    BY <2>1, RecordRests DEF RouterInv, routingVars
  <2> QED BY <2>2, <2>3 DEF RouterInv
<1> QED BY <1>1, <1>2, BindRunKeeps, RouteKeeps DEF Router!Next

LEMMA RouterStarts == Router!Init => RouterInv
<1> SUFFICES ASSUME Router!Init PROVE RouterInv
  OBVIOUS
<1>1. /\ {MaxPerCycle, MaxPerHour, MaxIncidents} \subseteq Nat
      /\ spent = [r \in Cycle \cup {Adhoc} |-> 0]
  BY ConversationAssumption DEF Router!Init, Router!RoutingAssumption
<1>2. Total(spent, Cycle \cup {Adhoc}) = 0
  BY <1>1, TotalZero
<1>3. RouterTyped
  <2>1. /\ spent \in [Cycle \cup {Adhoc} -> 0..MaxPerCycle] /\ 0 <= MaxPerHour
        /\ routed \in [Cycle -> 0..MaxIncidents]
    BY <1>1 DEF Router!Init
  <2> QED BY <1>2, <2>1 DEF Router!Init, RouterTyped
<1>4. ASSUME NEW c \in Cycle PROVE RecordOf(c)
  <2>1. /\ routePc[c] = "new" /\ domain[c] = "unknown" /\ fired[c] = <<>>
        /\ artifacts[c] = {} /\ primary[c] = None
    BY DEF Router!Init
  <2>2. Truthful(c)
    BY <2>1 DEF Truthful
  <2> QED BY <2>1, <2>2 DEF RecordOf, Begun, Domains
<1> QED BY <1>3, <1>4 DEF RouterInv

\* The router keeps its types and its two budgets, and at every moment the handlers of a
\* route have been heard in their order, up to the one whose turn it is
\* (router.py:254-298, guardrails.py:221-251).
THEOREM RouterInvariant == Router!Spec => []RouterInv
<1>1. RouterInv /\ [Router!Next]_(Router!vars) => RouterInv'
  BY RouterNextKeeps
<1> QED BY RouterStarts, <1>1, PTL DEF Router!Spec

\* With one signal per domain the ranking sees all that hit.
LEMMA PrecedenceDecides ==
    ASSUME \A i, j \in DOMAIN Signals : Signals[i].domain = Signals[j].domain => i = j,
           NEW hit, NEW i \in DOMAIN Precedence, Router!MatchedDomain(Precedence[i], hit),
           \A j \in 1..(i - 1) : ~Router!MatchedDomain(Precedence[j], hit)
    PROVE  Router!Classify(hit) = Precedence[i]
<1>1. ASSUME NEW d
      PROVE  (\E j \in DOMAIN Signals : Signals[j].domain = d) /\ Router!LastPattern(d) \in hit
                 <=> Router!MatchedDomain(d, hit)
  <2>1. ASSUME NEW k \in DOMAIN Signals, Signals[k].domain = d
        PROVE  Router!LastPattern(d) = Signals[k].pattern
    <3> DEFINE Last(j) == /\ Signals[j].domain = d
                          /\ \A l \in DOMAIN Signals : Signals[l].domain = d => l <= j
    <3>1. DOMAIN Signals \subseteq Nat
      BY ConversationAssumption DEF Router!RoutingAssumption
    <3>2. \A l \in DOMAIN Signals : Signals[l].domain = d => l = k
      BY <2>1
    <3>3. Last(k) /\ \A j \in DOMAIN Signals : Last(j) => j = k
      BY <2>1, <3>1, <3>2
    <3>4. (CHOOSE j \in DOMAIN Signals : Last(j)) = k
      BY <3>3
    <3> QED BY <3>4 DEF Router!LastPattern
  <2> QED BY <2>1 DEF Router!MatchedDomain
<1>2. Router!Ranked(hit) = {j \in DOMAIN Precedence : Router!MatchedDomain(Precedence[j], hit)}
  BY <1>1 DEF Router!Ranked
<1>3. DOMAIN Precedence \subseteq Nat /\ \A j \in DOMAIN Precedence : j >= 1
  BY ConversationAssumption DEF Router!RoutingAssumption
<1>4. i \in Router!Ranked(hit) /\ Router!Ranked(hit) \subseteq Nat
  BY <1>2, <1>3
<1> DEFINE f == Router!First(Router!Ranked(hit))
<1>5. f \in Router!Ranked(hit) /\ f <= i
  BY <1>4, FirstIsLeast
<1>6. f \notin 1..(i - 1) /\ f \in Nat /\ f >= 1 /\ i \in Nat
  BY <1>2, <1>3, <1>4, <1>5
<1>7. f = i
  <2> HIDE DEF f
  <2> QED BY <1>5, <1>6
<1> QED BY <1>4, <1>7 DEF Router!Classify

\* A record that route() returns is what happened, for any signals, precedence, overrides,
\* settings and budgets, whatever the destinations answer, whatever an app's handlers do
\* and raise, and whatever runs share a notifier; the one identifier in it that nobody
\* may have returned is the number of a GitHub issue
\* (router.py:21-22, 87-88, 254-311, sinks.py:149-150).
THEOREM RecordsAreTrue == Router!Spec => []RecordIsTrue
<1>1. RouterInv => Router!PrecedenceWins
  <2>1. ASSUME RouterInv,
               \A i, j \in DOMAIN Signals : Signals[i].domain = Signals[j].domain => i = j,
               NEW c \in Cycle, NEW i \in DOMAIN Precedence, routePc[c] = "done",
               Router!MatchedDomain(Precedence[i], hits[c]),
               \A j \in 1..(i - 1) : ~Router!MatchedDomain(Precedence[j], hits[c])
        PROVE  domain[c] = Precedence[i]
    BY <2>1, PrecedenceDecides DEF RouterInv, RecordOf, Begun
  <2> QED BY <2>1 DEF Router!PrecedenceWins
<1>2. RouterInv => Router!EveryHandlerTried
  <2>1. ASSUME RouterInv, NEW c \in Cycle, routePc[c] = "done"
        PROVE  /\ Len(fired[c]) = Cardinality(Due(c))
               /\ \A i \in Due(c) : fired[c][Rank(c, i)].handler = RouteOf(c)[i]
    <3>1. InTurn(c) /\ todo[c] = <<>>
      BY <2>1 DEF RouterInv, RecordOf, Begun
    <3>2. DOMAIN RouteOf(c) = 1..Len(RouteOf(c)) /\ Len(RouteOf(c)) \in Nat
      BY RoutesAreSequences DEF RouteOf
    <3>3. Turns(c) = Len(RouteOf(c))
      BY <3>1, <3>2 DEF Turns
    <3>4. \A i \in Due(c) : i <= Len(RouteOf(c))
      BY <3>2 DEF Due
    <3>5. {j \in Due(c) : j <= Len(RouteOf(c))} = Due(c)
      BY <3>4
    <3> QED BY <3>1, <3>3, <3>4, <3>5 DEF InTurn, Rank
  <2> QED BY <2>1, SameCounts DEF Router!EveryHandlerTried, Due, RouteOf, Rank
<1>3. RouterInv => Router!LiveIsDelivered
  BY DEF RouterInv, RecordOf, Begun, Truthful, Router!LiveIsDelivered, Router!Live
<1>4. RouterInv => Router!ArtifactsAreReturned
  BY DEF RouterInv, RecordOf, Truthful, Router!ArtifactsAreReturned
<1>5. RouterInv => RecordIsTrue
  BY <1>1, <1>2, <1>3, <1>4 DEF RecordIsTrue
<1> QED BY RouterInvariant, <1>5, PTL

-----------------------------------------------------------------------------
(* The adapter.  A call's transaction is mined once, and only after the call sent it; *)
(* in an orderly history nobody else is given the id a call foresaw.                  *)

Stage == {"Open", "Claimed", "Committed", "Settled"}
Claimer == {"none"} \cup {SenderOf[c] : c \in Call}
NodeTask == [by : Call, status : Stage, agent : Claimer]
Transaction == [call : Call, ok : BOOLEAN]
Requests == {"count", "estimate", "send", "await", "read"}
Underway(c) == callPc[c] \in Requests

NodeTyped ==
    /\ nodeTasks \in Seq(NodeTask) /\ nodeAgents \in Seq(Call)
    /\ mined \in Seq(Transaction) /\ pool \subseteq Call
    /\ Len(nodeTasks) <= Len(mined) /\ Len(nodeAgents) <= Len(mined)

CallsTyped ==
    /\ callPc \in [Call -> Adapter!Ended \cup Requests \cup {"new"}]
    /\ seen \in [Call -> 0..(Cardinality(Call) + 1)]
    /\ txNonce \in [Call -> 0..Cardinality(Call)]
    /\ tries \in [Call -> Nat] /\ (\A c \in Call : tries[c] <= MaxTries[c]) /\ loss \in 0..MaxLoss

MinedOnce == \A i, j \in DOMAIN mined : mined[i].call = mined[j].call => i = j

Mined(c) == \E i \in DOMAIN mined : mined[i].call = c
Took(c) == \E i \in DOMAIN mined : mined[i].call = c /\ mined[i].ok

\* Where a call's transaction is, by how far the call has got.
Traced(c) ==
    /\ c \in pool => ~Mined(c)
    /\ callPc[c] \in {"new", "count", "estimate", "send", "refused"} => c \notin pool /\ ~Mined(c)
    /\ callPc[c] \in Adapter!Done => Took(c)
    /\ callPc[c] = "reverted" => Mined(c) /\ ~Took(c)

\* A process that makes one call at a time has one under way.
OneAtATime ==
    Serial => \A c, d \in Call :
        ProcessOf[c] = ProcessOf[d] /\ Underway(c) /\ Underway(d) => c = d

LastId(kind) == IF kind = "post" THEN Len(nodeTasks) ELSE Len(nodeAgents)
Named(c) ==
    IF KindOf[c] = "post" THEN seen[c] \in DOMAIN nodeTasks /\ nodeTasks[seen[c]].by = c
    ELSE seen[c] \in DOMAIN nodeAgents /\ nodeAgents[seen[c]] = c

\* What a call foresaw is the next id until its transaction is mined, and its own after.
Foresees(c) == IF Mined(c) THEN Named(c) ELSE Underway(c) => seen[c] = LastId(KindOf[c]) + 1
Foresight ==
    \A c \in Call : /\ KindOf[c] \in {"post", "register"} /\ Adapter!Orderly(KindOf[c])
                    /\ callPc[c] # "new"
                    => Foresees(c)

AdapterInv ==
    /\ NodeTyped /\ CallsTyped /\ MinedOnce
    /\ (\A c \in Call : Traced(c)) /\ OneAtATime /\ Foresight

\* Where a call is, the rest of the process does not matter.
LEMMA CallFacts ==
    /\ \A c \in Call : KindOf[c] \in {"register", "post", "claim", "commit", "settle"}
    /\ IsFiniteSet(Call) /\ Cardinality(Call) \in Nat /\ MaxLoss \in Nat
    /\ MaxTries \in [Call -> Nat]
<1>1. IsFiniteSet(Call)
  BY ConversationAssumption, SameCounts DEF Adapter!AdapterAssumption
<1> QED BY <1>1, FS_CardinalityType, ConversationAssumption DEF Adapter!AdapterAssumption

LEMMA ReceiptIsMined ==
    ASSUME NEW c
    PROVE  /\ Adapter!Receipt(c) = {} <=> ~Mined(c)
           /\ Adapter!Succeeded(c) <=> Took(c)
BY DEF Adapter!Receipt, Adapter!Succeeded, Mined, Took

LEMMA CountUpTo ==
    \A n \in Nat : IsFiniteSet(1..n) /\ Cardinality(1..n) = n
<1> SUFFICES ASSUME NEW n \in Nat PROVE IsFiniteSet(1..n) /\ Cardinality(1..n) = n
  OBVIOUS
<1>1. IsFiniteSet(1..n) /\ Cardinality(1..n) = IF 1 > n THEN 0 ELSE n - 1 + 1
  BY FS_Interval
<1> QED BY <1>1

\* There is room for every transaction that was mined or is pending.
LEMMA RoomForAll ==
    ASSUME AdapterInv
    PROVE  /\ Len(mined) \in Nat /\ Cardinality(pool) \in Nat /\ IsFiniteSet(pool)
           /\ Len(mined) + Cardinality(pool) <= Cardinality(Call)
<1> DEFINE Transactions == Transaction
           rest == Call \ pool
           f == [i \in 1..Len(mined) |-> mined[i].call]
<1>1. mined \in Seq(Transactions) /\ pool \subseteq Call /\ IsFiniteSet(Call)
  BY CallFacts DEF AdapterInv, NodeTyped
<1>2. /\ IsFiniteSet(pool) /\ Cardinality(pool) \in Nat /\ IsFiniteSet(rest)
      /\ Cardinality(rest) \in Nat /\ Cardinality(rest) = Cardinality(Call) - Cardinality(pool)
      /\ Cardinality(Call) \in Nat
  <2>1. IsFiniteSet(pool) /\ IsFiniteSet(rest) /\ Call \cap pool = pool
    BY <1>1, FS_Subset
  <2>2. Cardinality(rest) = Cardinality(Call) - Cardinality(Call \cap pool)
    BY <1>1, FS_Difference
  <2> QED BY <1>1, <2>1, <2>2, FS_CardinalityType
<1>3. \A i \in DOMAIN mined : mined[i].call \in rest
  <2>1. \A i \in DOMAIN mined : mined[i] \in Transactions
    BY <1>1
  <2> QED BY <1>1, <2>1 DEF AdapterInv, Traced, Adapter!Done, Mined, Transaction
<1> HIDE DEF Transactions
<1>4. Len(mined) \in Nat /\ DOMAIN mined = 1..Len(mined)
  BY <1>1
<1>5. f \in Injection(1..Len(mined), rest)
  BY <1>3, <1>4 DEF Injection, IsInjective, AdapterInv, MinedOnce
<1>6. Cardinality(1..Len(mined)) <= Cardinality(rest) /\ Cardinality(1..Len(mined)) = Len(mined)
  <2>1. Cardinality(1..Len(mined)) <= Cardinality(rest)
    BY <1>2, <1>5, FS_Injection
  <2> QED BY <1>4, <2>1, CountUpTo
<1> HIDE DEF rest, f
<1> QED BY <1>2, <1>4, <1>6

LEMMA MinedFromType ==
    ASSUME AdapterInv, NEW account
    PROVE  Adapter!MinedFrom(account) \in 0..Len(mined)
<1> DEFINE own == {i \in DOMAIN mined : SenderOf[mined[i].call] = account}
<1>1. Len(mined) \in Nat /\ DOMAIN mined = 1..Len(mined)
  BY RoomForAll DEF AdapterInv, NodeTyped
<1>2. IsFiniteSet(1..Len(mined)) /\ Cardinality(1..Len(mined)) = Len(mined)
  BY <1>1, CountUpTo
<1>3. own \subseteq 1..Len(mined)
  BY <1>1
<1>4. IsFiniteSet(own) /\ Cardinality(own) <= Len(mined)
  BY <1>2, <1>3, FS_Subset
<1>5. Cardinality(own) \in Nat /\ Adapter!MinedFrom(account) = Cardinality(own)
  BY <1>4, FS_CardinalityType, SameCounts DEF Adapter!MinedFrom
<1> HIDE DEF own
<1> QED BY <1>1, <1>4, <1>5

\* One of the nonces after the mined ones is free: the node's pending count exists.
LEMMA PendingCountType ==
    ASSUME AdapterInv, NEW account
    PROVE  Adapter!PendingCount(account) \in 0..Cardinality(Call)
<1> DEFINE first == Adapter!MinedFrom(account)
           size == Cardinality(pool)
           taken == {txNonce[c] : c \in pool}
           Free(n) == ~\E c \in Adapter!PendingFrom(account) : txNonce[c] = n
           free == {n \in first..(first + size) : Free(n)}
<1>1. /\ first \in Nat /\ size \in Nat /\ IsFiniteSet(pool)
      /\ first + size <= Cardinality(Call) /\ Cardinality(Call) \in Nat
  <2>1. first \in 0..Len(mined) /\ Len(mined) \in Nat /\ size \in Nat /\ IsFiniteSet(pool)
        /\ Len(mined) + size <= Cardinality(Call) /\ Cardinality(Call) \in Nat
    BY RoomForAll, MinedFromType, CallFacts
  <2> HIDE DEF first, size
  <2> QED BY <2>1
<1>2. free # {}
  <2> SUFFICES ASSUME \A n \in first..(first + size) : ~Free(n) PROVE FALSE
    OBVIOUS
  <2>1. first..(first + size) \subseteq taken
    BY DEF Adapter!PendingFrom
  <2>2. IsFiniteSet(taken) /\ Cardinality(taken) <= size /\ Cardinality(taken) \in Nat
    <3>1. [c \in pool |-> txNonce[c]] \in Surjection(pool, taken)
      BY DEF Surjection
    <3>2. IsFiniteSet(taken) /\ Cardinality(taken) <= size
      BY <1>1, <3>1, FS_Surjection
    <3> QED BY <3>2, FS_CardinalityType
  <2>3. Cardinality(first..(first + size)) <= Cardinality(taken)
    BY <2>1, <2>2, FS_Subset
  <2>4. Cardinality(first..(first + size)) = size + 1
    <3> HIDE DEF first, size
    <3>1. /\ first \in Int /\ first + size \in Int /\ ~(first > first + size)
          /\ (first + size) - first + 1 = size + 1
      BY <1>1
    <3>2. Cardinality(first..(first + size))
              = IF first > first + size THEN 0 ELSE (first + size) - first + 1
      BY <3>1, FS_Interval
    <3> QED BY <3>1, <3>2
  <2> HIDE DEF first, size, taken
  <2> QED BY <1>1, <2>2, <2>3, <2>4
<1>3. PICK n \in free : \A k \in free : n <= k
  <2>1. free \subseteq Nat
    <3> HIDE DEF first, size
    <3> QED BY <1>1
  <2> HIDE DEF free
  <2> QED BY <1>2, <2>1, LeastExists
<1>4. \A k \in first..(n - 1) : \E c \in Adapter!PendingFrom(account) : txNonce[c] = k
  <2> SUFFICES ASSUME NEW k \in first..(n - 1) PROVE ~Free(k)
    OBVIOUS
  <2>1. k \in first..(first + size) /\ ~(n <= k)
    <3>1. n \in first..(first + size)
      OBVIOUS
    <3> HIDE DEF first, size, free, Free
    <3> QED BY <1>1, <3>1
  <2> QED BY <1>3, <2>1
<1> DEFINE Is(m) == /\ \A k \in first..(m - 1) :
                           \E c \in Adapter!PendingFrom(account) : txNonce[c] = k
                    /\ ~\E c \in Adapter!PendingFrom(account) : txNonce[c] = m
<1>5. n \in first..(first + size) /\ Is(n)
  BY <1>4
<1>6. Adapter!PendingCount(account) = CHOOSE m \in first..(first + size) : Is(m)
  BY SameCounts DEF Adapter!PendingCount
<1> HIDE DEF Is
<1>7. Adapter!PendingCount(account) \in first..(first + size)
  BY <1>5, <1>6
<1> HIDE DEF first, size
<1> QED BY <1>1, <1>7

\* How a history may cease to be orderly, and how it may not.
LEMMA OrderlyBefore ==
    ASSUME NEW c \in Call, NEW where, CallsTyped, callPc' = [callPc EXCEPT ![c] = where],
           callPc[c] \notin Adapter!Ended, where # "new", NEW kind
    PROVE  /\ Adapter!Orderly(kind)' => Adapter!Orderly(kind)
           /\ Adapter!Orderly(kind)' /\ KindOf[c] = kind => where \notin {"no_receipt", "connection"}
<1>1. \A d \in Call : callPc'[d] = IF d = c THEN where ELSE callPc[d]
  BY DEF CallsTyped
<1>2. callPc[c] \notin {"no_receipt", "connection"}
  BY DEF Adapter!Ended
<1> QED BY <1>1, <1>2 DEF Adapter!Orderly

LEMMA SameOrder ==
    ASSUME UNCHANGED callPc PROVE \A kind : Adapter!Orderly(kind)' = Adapter!Orderly(kind)
BY DEF Adapter!Orderly

\* The step of a call: the contracts stay, and it sends at most its own transaction.
LEMMA CallStep ==
    ASSUME AdapterInv, NEW c \in Call, NEW where, callPc' = [callPc EXCEPT ![c] = where],
           callPc[c] \in Requests \cup {"new"}, where # "new",
           UNCHANGED <<nodeTasks, nodeAgents, mined>>, pool' \subseteq pool \cup {c},
           CallsTyped', Traced(c)',
           \A d \in Call \ {c} : seen'[d] = seen[d],
           callPc[c] # "new" => seen'[c] = seen[c],
           callPc[c] = "new" =>
               /\ KindOf[c] \in {"post", "register"} => seen'[c] = LastId(KindOf[c]) + 1
               /\ Serial => \A d \in Call : ProcessOf[d] = ProcessOf[c] => ~Underway(d)
    PROVE  AdapterInv'
<1>1. CallsTyped /\ NodeTyped /\ MinedOnce /\ OneAtATime /\ Foresight
      /\ \A d \in Call : Traced(d)
  BY DEF AdapterInv
<1>2. \A d \in Call : callPc'[d] = IF d = c THEN where ELSE callPc[d]
  BY <1>1 DEF CallsTyped
<1>3. NodeTyped' /\ MinedOnce'
  BY <1>1 DEF NodeTyped, MinedOnce, NodeTask, Transaction
<1>4. \A d : Mined(d)' = Mined(d) /\ Took(d)' = Took(d)
  BY DEF Mined, Took
<1>5. \A d \in Call : Traced(d)'
  <2>1. ASSUME NEW d \in Call, d # c PROVE Traced(d)'
    BY <1>1, <1>2, <1>4, <2>1 DEF Traced, Adapter!Done
  <2> QED BY <2>1
<1>6. OneAtATime'
  <2>1. \A d \in Call : d # c => Underway(d)' = Underway(d)
    BY <1>2 DEF Underway
  <2>2. callPc[c] # "new" => Underway(c)
    BY DEF Underway
  <2> QED BY <1>1, <2>1, <2>2 DEF OneAtATime
<1>7. callPc[c] \notin Adapter!Ended
  BY DEF Adapter!Ended, Requests
<1>8. ASSUME NEW d \in Call, KindOf[d] \in {"post", "register"},
             Adapter!Orderly(KindOf[d])', callPc'[d] # "new"
      PROVE  Foresees(d)'
  <2>1. Adapter!Orderly(KindOf[d])
    BY <1>1, <1>7, <1>8, OrderlyBefore
  <2>2. \A k : LastId(k)' = LastId(k)
    BY DEF LastId
  <2>3. CASE callPc[d] # "new"
    <3>1. Foresees(d) /\ seen'[d] = seen[d]
      BY <1>1, <1>8, <2>1, <2>3 DEF Foresight
    <3>2. Underway(d)' => Underway(d)
      BY <1>2, <2>3 DEF Underway
    <3> QED BY <1>4, <2>2, <3>1, <3>2 DEF Foresees, Named
  <2>4. CASE callPc[d] = "new"
    <3>1. d = c /\ ~Mined(c)
      BY <1>1, <1>2, <1>8, <2>4 DEF Traced, Adapter!Done
    <3> QED BY <1>4, <1>8, <2>2, <2>4, <3>1 DEF Foresees
  <2> QED BY <2>3, <2>4
<1>9. Foresight'
  BY <1>8 DEF Foresight
<1> QED BY <1>3, <1>5, <1>6, <1>9 DEF AdapterInv

\* What a call sees when it looks is a number there is room for.
LEMMA ForeseenType ==
    ASSUME AdapterInv, NEW c \in Call
    PROVE  Adapter!Foreseen(c) \in 0..(Cardinality(Call) + 1)
<1>1. /\ Len(nodeTasks) \in Nat /\ Len(nodeAgents) \in Nat /\ Cardinality(Call) \in Nat
      /\ Len(nodeTasks) <= Cardinality(Call) /\ Len(nodeAgents) <= Cardinality(Call)
      /\ DOMAIN nodeTasks = 1..Len(nodeTasks)
  <2>1. /\ Len(mined) \in Nat /\ Cardinality(pool) \in Nat /\ Cardinality(Call) \in Nat
        /\ Len(mined) + Cardinality(pool) <= Cardinality(Call)
    BY RoomForAll, CallFacts
  <2>2. /\ Len(nodeTasks) <= Len(mined) /\ Len(nodeAgents) <= Len(mined)
        /\ nodeTasks \in Seq(NodeTask) /\ nodeAgents \in Seq(Call)
    BY DEF AdapterInv, NodeTyped
  <2>3. Len(nodeTasks) \in Nat /\ Len(nodeAgents) \in Nat /\ DOMAIN nodeTasks = 1..Len(nodeTasks)
    BY <2>2
  <2> QED BY <2>1, <2>2, <2>3
<1>2. ASSUME NEW agent PROVE Adapter!Stake(agent) \in 0..Len(nodeTasks)
  <2> DEFINE staked == {i \in DOMAIN nodeTasks : /\ nodeTasks[i].agent = agent
                                                 /\ nodeTasks[i].status \in {"Claimed", "Committed"}}
  <2>1. IsFiniteSet(1..Len(nodeTasks)) /\ Cardinality(1..Len(nodeTasks)) = Len(nodeTasks)
    BY <1>1, CountUpTo
  <2>2. staked \subseteq 1..Len(nodeTasks)
    BY <1>1
  <2>3. IsFiniteSet(staked) /\ Cardinality(staked) <= Len(nodeTasks)
    BY <2>1, <2>2, FS_Subset
  <2>4. Cardinality(staked) \in Nat /\ Adapter!Stake(agent) = Cardinality(staked)
    BY <2>3, FS_CardinalityType, SameCounts DEF Adapter!Stake
  <2> HIDE DEF staked
  <2> QED BY <1>1, <2>3, <2>4
<1>3. \/ Adapter!Foreseen(c) \in {Len(nodeAgents) + 1, Len(nodeTasks) + 1, 0}
      \/ Adapter!Foreseen(c) = Adapter!Stake(nodeTasks[CallTask[c]].agent)
  BY CallFacts DEF Adapter!Foreseen
<1>4. CASE Adapter!Foreseen(c) \in {Len(nodeAgents) + 1, Len(nodeTasks) + 1, 0}
  BY <1>1, <1>4
<1>5. CASE Adapter!Foreseen(c) = Adapter!Stake(nodeTasks[CallTask[c]].agent)
  <2>1. Adapter!Foreseen(c) \in 0..Len(nodeTasks)
    BY <1>2, <1>5
  <2> QED BY <1>1, <2>1
<1> QED BY <1>3, <1>4, <1>5

LEMMA LookKeeps == ASSUME AdapterInv, NEW c \in Call, Adapter!Look(c) PROVE AdapterInv'
<1>1. /\ callPc[c] = "new" /\ callPc' = [callPc EXCEPT ![c] = "count"]
      /\ Serial => ~Adapter!Busy(ProcessOf[c])
      /\ seen' = [seen EXCEPT ![c] = Adapter!Foreseen(c)]
      /\ UNCHANGED <<nodeTasks, nodeAgents, pool, mined, txNonce, tries, secrets, loss>>
  BY DEF Adapter!Look, Adapter!Go, Adapter!nodeVars
<1>2. CallsTyped /\ Traced(c)
  BY DEF AdapterInv
<1>3. CallsTyped'
  BY <1>1, <1>2, ForeseenType DEF CallsTyped, Requests
<1>4. Traced(c)'
  <2>1. callPc'[c] = "count" /\ Mined(c)' = Mined(c)
    BY <1>1, <1>2 DEF CallsTyped, Mined
  <2> QED BY <1>1, <1>2, <2>1 DEF Traced, Adapter!Done
<1>5. /\ \A d \in Call \ {c} : seen'[d] = seen[d]
      /\ KindOf[c] \in {"post", "register"} => seen'[c] = LastId(KindOf[c]) + 1
  BY <1>1, <1>2 DEF CallsTyped, Adapter!Foreseen, LastId
<1>6. Serial => \A d \in Call : ProcessOf[d] = ProcessOf[c] => ~Underway(d)
  BY <1>1 DEF Adapter!Busy, Adapter!Ended, Underway, Requests
<1> QED BY <1>1, <1>3, <1>4, <1>5, <1>6, CallStep

LEMMA CountKeeps ==
    ASSUME AdapterInv, NEW c \in Call, Adapter!CountTransactions(c) PROVE AdapterInv'
<1>1. /\ callPc[c] = "count" /\ callPc' = [callPc EXCEPT ![c] = "estimate"]
      /\ txNonce' = [txNonce EXCEPT ![c] = Adapter!PendingCount(SenderOf[c])]
      /\ UNCHANGED <<nodeTasks, nodeAgents, pool, mined, seen, tries, secrets, loss>>
  BY DEF Adapter!CountTransactions, Adapter!Go, Adapter!nodeVars
<1>2. CallsTyped /\ Traced(c)
  BY DEF AdapterInv
<1>3. CallsTyped'
  BY <1>1, <1>2, PendingCountType DEF CallsTyped, Requests
<1>4. Traced(c)'
  <2>1. callPc'[c] = "estimate" /\ Mined(c)' = Mined(c)
    BY <1>1, <1>2 DEF CallsTyped, Mined
  <2> QED BY <1>1, <1>2, <2>1 DEF Traced, Adapter!Done
<1>5. callPc[c] \in Requests
  BY <1>1 DEF Requests
<1> QED BY <1>1, <1>3, <1>4, <1>5, CallStep

LEMMA EstimateKeeps ==
    ASSUME AdapterInv, NEW c \in Call, Adapter!EstimateGas(c) PROVE AdapterInv'
<1>1. PICK where \in {"send", "refused"} :
          /\ callPc[c] = "estimate" /\ callPc' = [callPc EXCEPT ![c] = where]
          /\ UNCHANGED <<nodeTasks, nodeAgents, pool, mined, seen, txNonce, tries, secrets, loss>>
  BY DEF Adapter!EstimateGas, Adapter!Go, Adapter!nodeVars
<1>2. CallsTyped /\ Traced(c)
  BY DEF AdapterInv
<1>3. CallsTyped'
  BY <1>1, <1>2 DEF CallsTyped, Requests, Adapter!Ended
<1>4. Traced(c)'
  <2>1. callPc'[c] = where /\ Mined(c)' = Mined(c)
    BY <1>1, <1>2 DEF CallsTyped, Mined
  <2> QED BY <1>1, <1>2, <2>1 DEF Traced, Adapter!Done
<1>5. callPc[c] \in Requests
  BY <1>1 DEF Requests
<1> QED BY <1>1, <1>3, <1>4, <1>5, CallStep

LEMMA SendRawKeeps ==
    ASSUME AdapterInv, NEW c \in Call, Adapter!SendRaw(c) PROVE AdapterInv'
<1> DEFINE same == {d \in Adapter!PendingFrom(SenderOf[c]) : txNonce[d] = txNonce[c]}
<1>1. PICK where \in {"await", "refused"} :
          /\ callPc[c] = "send" /\ callPc' = [callPc EXCEPT ![c] = where]
          /\ \/ where = "await" /\ pool' = (pool \ same) \cup {c}
             \/ where = "refused" /\ pool' = pool
          /\ UNCHANGED <<nodeTasks, nodeAgents, mined, seen, txNonce, tries, secrets, loss>>
  BY DEF Adapter!SendRaw, Adapter!Go
<1>2. CallsTyped /\ Traced(c)
  BY DEF AdapterInv
<1>3. CallsTyped'
  BY <1>1, <1>2 DEF CallsTyped, Requests, Adapter!Ended
<1>4. Traced(c)'
  <2>1. callPc'[c] = where /\ Mined(c)' = Mined(c)
    BY <1>1, <1>2 DEF CallsTyped, Mined
  <2> QED BY <1>1, <1>2, <2>1 DEF Traced, Adapter!Done
<1>5. callPc[c] \in Requests /\ pool' \subseteq pool \cup {c}
  BY <1>1 DEF Requests
<1> HIDE DEF same
<1> QED BY <1>1, <1>3, <1>4, <1>5, CallStep

LEMMA AwaitKeeps ==
    ASSUME AdapterInv, NEW c \in Call, Adapter!AwaitReceipt(c) PROVE AdapterInv'
<1>1. /\ callPc[c] = "await"
      /\ UNCHANGED <<nodeTasks, nodeAgents, pool, mined, seen, txNonce, loss>>
  BY DEF Adapter!AwaitReceipt, Adapter!nodeVars
<1>2. PICK where \in {"returned", "read", "reverted", "no_receipt", "await"} :
          /\ callPc' = [callPc EXCEPT ![c] = where]
          /\ where \in {"returned", "read"} => Took(c)
          /\ where = "reverted" => Mined(c) /\ ~Took(c)
          /\ \/ UNCHANGED tries
             \/ Adapter!Patient(c) /\ tries' = [tries EXCEPT ![c] = @ + 1]
  <2>1. callPc = [callPc EXCEPT ![c] = "await"]
    BY <1>1 DEF AdapterInv, CallsTyped
  <2>2. CASE /\ Took(c) /\ UNCHANGED tries
             /\ \/ callPc' = [callPc EXCEPT ![c] = "returned"]
                \/ callPc' = [callPc EXCEPT ![c] = "read"]
    BY <2>2
  <2>3. CASE Mined(c) /\ ~Took(c) /\ callPc' = [callPc EXCEPT ![c] = "reverted"] /\ UNCHANGED tries
    BY <2>3
  <2>4. CASE Adapter!Patient(c) /\ tries' = [tries EXCEPT ![c] = @ + 1] /\ UNCHANGED callPc
    BY <2>1, <2>4
  <2>5. CASE callPc' = [callPc EXCEPT ![c] = "no_receipt"] /\ UNCHANGED tries
    BY <2>5
  <2> QED BY <2>2, <2>3, <2>4, <2>5, ReceiptIsMined DEF Adapter!AwaitReceipt, Adapter!Go
<1>3. CallsTyped /\ Traced(c)
  BY DEF AdapterInv
<1>4. CallsTyped'
  <2>1. tries' \in [Call -> Nat] /\ \A d \in Call : tries'[d] <= MaxTries[d]
    <3>1. /\ tries \in [Call -> Nat] /\ MaxTries \in [Call -> Nat]
          /\ \A d \in Call : tries[d] <= MaxTries[d]
      BY <1>3, CallFacts DEF CallsTyped
    <3> QED BY <1>2, <3>1 DEF Adapter!Patient
  <2> QED BY <1>1, <1>2, <1>3, <2>1 DEF CallsTyped, Requests, Adapter!Ended
<1>5. Traced(c)'
  <2>1. callPc'[c] = where /\ Mined(c)' = Mined(c) /\ Took(c)' = Took(c)
    BY <1>1, <1>2, <1>3 DEF CallsTyped, Mined, Took
  <2> QED BY <1>1, <1>2, <1>3, <2>1 DEF Traced, Adapter!Done
<1>6. callPc[c] \in Requests
  BY <1>1 DEF Requests
<1> QED BY <1>1, <1>2, <1>4, <1>5, <1>6, CallStep

LEMMA ReadBackKeeps == ASSUME AdapterInv, NEW c \in Call, Adapter!ReadBack(c) PROVE AdapterInv'
<1>1. /\ callPc[c] = "read" /\ callPc' = [callPc EXCEPT ![c] = "returned"]
      /\ UNCHANGED <<nodeTasks, nodeAgents, pool, mined, seen, txNonce, tries, secrets, loss>>
  BY DEF Adapter!ReadBack, Adapter!Go, Adapter!nodeVars
<1>2. CallsTyped /\ Traced(c)
  BY DEF AdapterInv
<1>3. CallsTyped'
  BY <1>1, <1>2 DEF CallsTyped, Adapter!Ended
<1>4. Traced(c)'
  <2>1. callPc'[c] = "returned" /\ Mined(c)' = Mined(c) /\ Took(c)' = Took(c)
    BY <1>1, <1>2 DEF CallsTyped, Mined, Took
  <2> QED BY <1>1, <1>2, <2>1 DEF Traced, Adapter!Done
<1>5. callPc[c] \in Requests
  BY <1>1 DEF Requests
<1> QED BY <1>1, <1>3, <1>4, <1>5, CallStep

LEMMA LoseConnectionKeeps ==
    ASSUME AdapterInv, NEW c \in Call, Adapter!LoseConnection(c) PROVE AdapterInv'
<1>1. PICK where \in {"connection", "unread"} :
      /\ callPc[c] \in Requests /\ callPc' = [callPc EXCEPT ![c] = where]
      /\ where = "unread" <=> callPc[c] = "read"
      /\ loss < MaxLoss /\ loss' = loss + 1
      /\ pool' = pool \/ (callPc[c] = "send" /\ pool' = pool \cup {c})
      /\ UNCHANGED <<nodeTasks, nodeAgents, mined, seen, txNonce, tries, secrets>>
  BY DEF Adapter!LoseConnection, Adapter!Go, Requests
<1>2. CallsTyped /\ Traced(c)
  BY DEF AdapterInv
<1>3. CallsTyped'
  <2>1. loss' \in 0..MaxLoss
    BY <1>1, <1>2, CallFacts DEF CallsTyped
  <2> QED BY <1>1, <1>2, <2>1 DEF CallsTyped, Requests, Adapter!Ended
<1>4. Traced(c)'
  <2>1. callPc'[c] = where /\ Mined(c)' = Mined(c) /\ Took(c)' = Took(c)
    BY <1>1, <1>2 DEF CallsTyped, Mined, Took
  <2> QED BY <1>1, <1>2, <2>1 DEF Traced, Adapter!Done
<1> QED BY <1>1, <1>3, <1>4, CallStep DEF Requests

LEMMA DropKeeps == ASSUME AdapterInv, NEW c \in Call, Adapter!Drop(c) PROVE AdapterInv'
<1>1. /\ loss < MaxLoss /\ loss' = loss + 1 /\ pool' = pool \ {c}
      /\ UNCHANGED <<nodeTasks, nodeAgents, mined, callPc, seen, txNonce, tries, secrets>>
  BY DEF Adapter!Drop
<1>2. NodeTyped' /\ MinedOnce' /\ OneAtATime'
  BY <1>1 DEF AdapterInv, NodeTyped, MinedOnce, OneAtATime, Underway, NodeTask, Transaction
<1>3. CallsTyped'
  <2>1. loss' \in 0..MaxLoss
    BY <1>1, CallFacts DEF AdapterInv, CallsTyped
  <2> QED BY <1>1, <2>1 DEF AdapterInv, CallsTyped
<1>4. \A d \in Call : Traced(d)'
  BY <1>1 DEF AdapterInv, Traced, Adapter!Done, Mined, Took
<1>5. Foresight'
  BY <1>1, SameOrder DEF AdapterInv, Foresight, Foresees, Mined, Underway, Named, LastId
<1> QED BY <1>2, <1>3, <1>4, <1>5 DEF AdapterInv

\* What a transaction does to the contracts: ids are given in turn, and kept.
LEMMA ContractsGrow ==
    ASSUME AdapterInv, NEW c \in Call, Adapter!Mine(c)
    PROVE  /\ NodeTyped'
           /\ \A k \in {"post", "register"} : k # KindOf[c] => LastId(k)' = LastId(k)
           /\ \A i \in DOMAIN nodeTasks : i \in DOMAIN nodeTasks' /\ nodeTasks'[i].by = nodeTasks[i].by
           /\ \A i \in DOMAIN nodeAgents : i \in DOMAIN nodeAgents' /\ nodeAgents'[i] = nodeAgents[i]
           /\ KindOf[c] = "post" =>
                  /\ LastId("post") + 1 \in DOMAIN nodeTasks'
                  /\ nodeTasks'[LastId("post") + 1].by = c
           /\ KindOf[c] = "register" =>
                  /\ LastId("register") + 1 \in DOMAIN nodeAgents'
                  /\ nodeAgents'[LastId("register") + 1] = c
<1> DEFINE Records == NodeTask
           Entries == Transaction
           entry == [call |-> c, ok |-> Adapter!Applies(c)]
           task == [by |-> c, status |-> "Open", agent |-> "none"]
<1>1. /\ nodeTasks \in Seq(Records) /\ nodeAgents \in Seq(Call) /\ mined \in Seq(Entries)
      /\ Len(nodeTasks) <= Len(mined) /\ Len(nodeAgents) <= Len(mined) /\ pool \subseteq Call
  BY DEF AdapterInv, NodeTyped
<1>2. mined' = Append(mined, entry) /\ pool' = pool \ {c}
  BY DEF Adapter!Mine
<1>3. entry \in Entries /\ task \in Records
  <2>1. Adapter!Applies(c) \in BOOLEAN
    BY DEF Adapter!Applies
  <2> QED BY <2>1 DEF Transaction, NodeTask, Stage, Claimer
<1>4. /\ mined' \in Seq(Entries) /\ Len(mined') = Len(mined) + 1
      /\ Len(mined) \in Nat /\ Len(nodeTasks) \in Nat /\ Len(nodeAgents) \in Nat
  <2> HIDE DEF Entries, entry, Records
  <2> QED BY <1>1, <1>2, <1>3
<1>5. /\ Records' = Records /\ Entries' = Entries
  BY DEF NodeTask, Transaction
<1>6. ASSUME nodeTasks' \in Seq(Records), nodeAgents' \in Seq(Call),
             Len(nodeTasks') <= Len(nodeTasks) + 1, Len(nodeAgents') <= Len(nodeAgents) + 1
      PROVE  NodeTyped'
  <2>1. /\ Len(nodeTasks') \in Nat /\ Len(nodeAgents') \in Nat
    <3> HIDE DEF Records
    <3> QED BY <1>6
  <2>2. Len(nodeTasks') <= Len(mined') /\ Len(nodeAgents') <= Len(mined')
    BY <1>1, <1>4, <1>6, <2>1
  <2> QED BY <1>1, <1>2, <1>4, <1>5, <1>6, <2>2 DEF NodeTyped
<1>7. CASE UNCHANGED <<nodeTasks, nodeAgents>> /\ KindOf[c] \notin {"post", "register"}
  BY <1>1, <1>4, <1>6, <1>7 DEF LastId
<1>8. CASE KindOf[c] = "register" /\ nodeAgents' = Append(nodeAgents, c) /\ UNCHANGED nodeTasks
  <2>1. /\ nodeAgents' \in Seq(Call) /\ Len(nodeAgents') = Len(nodeAgents) + 1
        /\ Len(nodeAgents) + 1 \in DOMAIN nodeAgents' /\ nodeAgents'[Len(nodeAgents) + 1] = c
        /\ \A i \in DOMAIN nodeAgents : i \in DOMAIN nodeAgents' /\ nodeAgents'[i] = nodeAgents[i]
    BY <1>1, <1>8
  <2> QED BY <1>1, <1>4, <1>6, <1>8, <2>1 DEF LastId
<1>9. CASE KindOf[c] = "post" /\ nodeTasks' = Append(nodeTasks, task) /\ UNCHANGED nodeAgents
  <2>1. task.by = c
    OBVIOUS
  <2> HIDE DEF task, Records
  <2>2. /\ nodeTasks' \in Seq(Records) /\ Len(nodeTasks') = Len(nodeTasks) + 1
        /\ Len(nodeTasks) + 1 \in DOMAIN nodeTasks' /\ nodeTasks'[Len(nodeTasks) + 1] = task
        /\ \A i \in DOMAIN nodeTasks : i \in DOMAIN nodeTasks' /\ nodeTasks'[i] = nodeTasks[i]
    BY <1>1, <1>3, <1>9
  <2> QED BY <1>1, <1>4, <1>6, <1>9, <2>1, <2>2 DEF LastId
<1>10. CASE /\ KindOf[c] \in {"claim", "commit", "settle"} /\ Adapter!Applies(c)
            /\ nodeTasks' = [nodeTasks EXCEPT
                   ![CallTask[c]].status = Adapter!Makes[KindOf[c]],
                   ![CallTask[c]].agent = IF KindOf[c] = "claim" THEN SenderOf[c] ELSE @]
            /\ UNCHANGED nodeAgents
  <2> DEFINE id == CallTask[c]
             made == [nodeTasks[id] EXCEPT !.status = Adapter!Makes[KindOf[c]],
                          !.agent = IF KindOf[c] = "claim" THEN SenderOf[c] ELSE @]
  <2>1. id \in DOMAIN nodeTasks
    BY <1>10 DEF Adapter!Applies, Adapter!Wants
  <2>2. nodeTasks[id] \in NodeTask
    BY <1>1, <2>1
  <2>3. Adapter!Makes[KindOf[c]] \in Stage
    BY <1>10 DEF Adapter!Makes, Stage
  <2>4. made \in NodeTask /\ made.by = nodeTasks[id].by
    <3>1. (IF KindOf[c] = "claim" THEN SenderOf[c] ELSE nodeTasks[id].agent) \in Claimer
      BY <2>2 DEF NodeTask, Claimer
    <3> QED BY <2>2, <2>3, <3>1 DEF NodeTask
  <2>5. nodeTasks' = [nodeTasks EXCEPT ![id] = made]
    BY <1>1, <1>10, <2>1
  <2> HIDE DEF made, Records
  <2>6. /\ nodeTasks' \in Seq(Records) /\ Len(nodeTasks') = Len(nodeTasks)
        /\ DOMAIN nodeTasks' = DOMAIN nodeTasks
        /\ \A i \in DOMAIN nodeTasks : nodeTasks'[i] = IF i = id THEN made ELSE nodeTasks[i]
    BY <1>1, <2>1, <2>4, <2>5 DEF Records
  <2> QED BY <1>1, <1>4, <1>6, <1>10, <2>4, <2>6 DEF LastId
<1>11. CASE Adapter!Applies(c)
  <2>1. Adapter!Apply(c)
    BY <1>11 DEF Adapter!Mine
  <2> QED BY <1>8, <1>9, <1>10, <1>11, <2>1, CallFacts DEF Adapter!Apply
<1>12. CASE ~Adapter!Applies(c)
  <2>1. UNCHANGED <<nodeTasks, nodeAgents>>
    BY <1>12 DEF Adapter!Mine
  <2>2. KindOf[c] \notin {"post", "register"}
    BY <1>12 DEF Adapter!Applies, Adapter!Wants
  <2> QED BY <1>7, <2>1, <2>2
<1> QED BY <1>11, <1>12

LEMMA MineKeeps == ASSUME AdapterInv, NEW c \in Call, Adapter!Mine(c) PROVE AdapterInv'
<1> DEFINE entry == [call |-> c, ok |-> Adapter!Applies(c)]
<1>1. /\ c \in pool /\ pool' = pool \ {c} /\ mined' = Append(mined, entry)
      /\ UNCHANGED <<callPc, seen, txNonce, tries, secrets, loss>>
  BY DEF Adapter!Mine
<1>2. CallsTyped' /\ OneAtATime'
  BY <1>1 DEF AdapterInv, CallsTyped, OneAtATime, Underway
<1>3. /\ ~Mined(c) /\ callPc[c] \in {"await", "no_receipt", "connection"}
  <2>1. Traced(c) /\ CallsTyped
    BY DEF AdapterInv
  <2>2. ~Took(c)
    BY <1>1, <2>1 DEF Traced, Adapter!Done, Mined, Took
  <2> QED BY <1>1, <2>1, <2>2 DEF Traced, Adapter!Done, CallsTyped, Requests, Adapter!Ended
<1>4. /\ Len(mined) \in Nat /\ DOMAIN mined = 1..Len(mined)
      /\ DOMAIN mined' = 1..(Len(mined) + 1) /\ mined'[Len(mined) + 1] = entry
      /\ \A i \in DOMAIN mined : mined'[i] = mined[i]
  <2> DEFINE Entries == Transaction
  <2>1. mined \in Seq(Entries)
    BY DEF AdapterInv, NodeTyped
  <2> HIDE DEF Entries, entry
  <2> QED BY <1>1, <2>1
<1>5. \A i \in DOMAIN mined' : mined'[i] = entry \/ (i \in DOMAIN mined /\ mined'[i] = mined[i])
  BY <1>4
<1>6. entry.call = c /\ entry.ok = Adapter!Applies(c)
  OBVIOUS
<1> HIDE DEF entry
<1>7. \A d : Mined(d)' <=> (Mined(d) \/ d = c)
  BY <1>4, <1>5, <1>6 DEF Mined
<1>8. \A d : d # c => (Took(d)' <=> Took(d))
  BY <1>4, <1>5, <1>6 DEF Took
<1>9. MinedOnce'
  <2>1. ASSUME NEW i \in DOMAIN mined', NEW j \in DOMAIN mined', mined'[i].call = mined'[j].call
        PROVE  i = j
    <3>1. CASE i \in DOMAIN mined /\ j \in DOMAIN mined
      BY <1>4, <2>1, <3>1 DEF AdapterInv, MinedOnce
    <3>2. CASE i \notin DOMAIN mined /\ j \notin DOMAIN mined
      BY <1>4, <3>2
    <3>3. CASE i \notin DOMAIN mined /\ j \in DOMAIN mined
      BY <1>3, <1>4, <1>5, <1>6, <2>1, <3>3 DEF Mined
    <3>4. CASE i \in DOMAIN mined /\ j \notin DOMAIN mined
      BY <1>3, <1>4, <1>5, <1>6, <2>1, <3>4 DEF Mined
    <3> QED BY <3>1, <3>2, <3>3, <3>4
  <2> QED BY <2>1 DEF MinedOnce
<1>10. ASSUME NEW d \in Call PROVE Traced(d)'
  <2>1. Traced(d) /\ callPc'[d] = callPc[d]
    BY <1>1 DEF AdapterInv
  <2>2. CASE d = c
    BY <1>1, <1>3, <2>1, <2>2 DEF Traced, Adapter!Done
  <2>3. CASE d # c
    BY <1>1, <1>7, <1>8, <2>1, <2>3 DEF Traced, Adapter!Done
  <2> QED BY <2>2, <2>3
<1>11. ASSUME NEW d \in Call, KindOf[d] \in {"post", "register"},
              Adapter!Orderly(KindOf[d])', callPc'[d] # "new"
       PROVE  Foresees(d)'
  <2>1. Adapter!Orderly(KindOf[d]) /\ callPc[d] # "new" /\ seen'[d] = seen[d]
    BY <1>1, <1>11, SameOrder
  <2>2. Foresees(d)
    BY <1>11, <2>1 DEF AdapterInv, Foresight
  <2>3. CASE Mined(d)
    BY <1>7, <2>1, <2>2, <2>3, ContractsGrow DEF Foresees, Named
  <2>4. CASE d = c
    <3>1. callPc[c] = "await"
      BY <1>3, <2>1, <2>4 DEF Adapter!Orderly
    <3>2. seen[c] = LastId(KindOf[c]) + 1
      BY <1>3, <2>2, <2>4, <3>1 DEF Foresees, Underway, Requests
    <3> QED BY <1>7, <1>11, <2>1, <2>4, <3>2, ContractsGrow DEF Foresees, Named
  <2>5. CASE ~Mined(d) /\ d # c
    <3>1. SUFFICES ASSUME Underway(d) PROVE seen[d] = LastId(KindOf[d])' + 1
      BY <1>1, <1>7, <2>1, <2>5 DEF Foresees, Underway
    <3>2. seen[d] = LastId(KindOf[d]) + 1
      BY <2>2, <2>5, <3>1 DEF Foresees
    <3>3. CASE KindOf[c] # KindOf[d]
      BY <1>11, <3>2, <3>3, ContractsGrow
    <3>4. CASE KindOf[c] = KindOf[d]
      <4>1. callPc[c] = "await" /\ Serial /\ ProcessOf[c] = ProcessOf[d]
        BY <1>3, <2>1, <3>4 DEF Adapter!Orderly
      <4>2. Underway(c)
        BY <4>1 DEF Underway, Requests
      <4> QED BY <2>5, <3>1, <4>1, <4>2 DEF AdapterInv, OneAtATime
    <3> QED BY <3>3, <3>4
  <2> QED BY <2>3, <2>4, <2>5
<1>12. Foresight'
  BY <1>11 DEF Foresight
<1> QED BY <1>2, <1>9, <1>10, <1>12, ContractsGrow DEF AdapterInv

LEMMA AdapterNextKeeps ==
    ASSUME AdapterInv, [Adapter!Next]_(Adapter!vars) PROVE AdapterInv'
<1>1. CASE Adapter!Next
  BY <1>1, LookKeeps, CountKeeps, EstimateKeeps, SendRawKeeps, AwaitKeeps, ReadBackKeeps,
     LoseConnectionKeeps, MineKeeps, DropKeeps DEF Adapter!Next, Adapter!Send
<1>2. CASE UNCHANGED Adapter!vars
  <2>1. UNCHANGED rpcVars
    BY <1>2 DEF Adapter!vars, Adapter!nodeVars, rpcVars
  <2>2. NodeTyped' /\ CallsTyped' /\ MinedOnce' /\ OneAtATime'
    BY <2>1 DEF rpcVars, AdapterInv, NodeTyped, CallsTyped, MinedOnce, OneAtATime, Underway,
               NodeTask, Transaction
  <2>3. \A d \in Call : Traced(d)'
    BY <2>1 DEF rpcVars, AdapterInv, Traced, Adapter!Done, Mined, Took
  <2>4. Foresight'
    BY <2>1, SameOrder DEF rpcVars, AdapterInv, Foresight, Foresees, Mined, Underway, Named, LastId
  <2> QED BY <2>2, <2>3, <2>4 DEF AdapterInv
<1> QED BY <1>1, <1>2

LEMMA AdapterStarts == Adapter!Init => AdapterInv
<1> SUFFICES ASSUME Adapter!Init PROVE AdapterInv
  OBVIOUS
<1>1. /\ nodeTasks = <<>> /\ nodeAgents = <<>> /\ pool = {} /\ mined = <<>>
      /\ callPc = [c \in Call |-> "new"] /\ seen = [c \in Call |-> 0]
      /\ txNonce = [c \in Call |-> 0] /\ tries = [c \in Call |-> 0] /\ loss = 0
  BY DEF Adapter!Init
<1>2. NodeTyped /\ MinedOnce
  BY <1>1 DEF NodeTyped, MinedOnce
<1>3. CallsTyped
  BY <1>1, CallFacts DEF CallsTyped
<1>4. \A c \in Call : Traced(c)
  BY <1>1 DEF Traced, Adapter!Done, Mined
<1>5. OneAtATime /\ Foresight
  BY <1>1 DEF OneAtATime, Foresight, Underway, Requests
<1> QED BY <1>2, <1>3, <1>4, <1>5 DEF AdapterInv

\* Whatever the node mines, drops and replaces, and whatever answers are lost, a call's
\* transaction is mined at most once and only after the call sent it, there is a nonce for
\* every call, and an orderly history foresees its ids (rpc.py:185-231, 278-308).
THEOREM AdapterInvariant == Adapter!Spec => []AdapterInv
<1>1. AdapterInv /\ [Adapter!Next]_(Adapter!vars) => AdapterInv'
  BY AdapterNextKeeps
<1> QED BY AdapterStarts, <1>1, PTL DEF Adapter!Spec

\* What a call returns is true, for any calls, senders, processes and polls
\* (rpc.py:199-223, 278-284, 304-308).
THEOREM ReturnsAreTruthful == Adapter!Spec => []ReturnsAreTrue
<1>1. ASSUME AdapterInv, NEW c \in Call
      PROVE  /\ Cardinality(Adapter!Receipt(c)) <= 1
             /\ callPc[c] \in Adapter!Done =>
                    Cardinality({i \in Adapter!Receipt(c) : mined[i].ok}) = 1
             /\ callPc[c] \in {"refused", "reverted"} =>
                    {i \in Adapter!Receipt(c) : mined[i].ok} = {} /\ c \notin pool
  <2> DEFINE receipts == Adapter!Receipt(c)
             effects == {i \in receipts : mined[i].ok}
  <2>1. \A i, j \in receipts : i = j
    BY <1>1 DEF AdapterInv, MinedOnce, Adapter!Receipt
  <2>2. Cardinality(receipts) <= 1
    <3>1. CASE receipts = {}
      <4>1. Cardinality({}) = 0
        BY FS_EmptySet
      <4> HIDE DEF receipts
      <4> QED BY <3>1, <4>1
    <3>2. CASE receipts # {}
      <4>1. PICK i : receipts = {i}
        BY <2>1, <3>2
      <4>2. Cardinality({i}) = 1
        BY FS_Singleton
      <4> HIDE DEF receipts
      <4> QED BY <4>1, <4>2
    <3> QED BY <3>1, <3>2
  <2>3. ASSUME callPc[c] \in Adapter!Done PROVE Cardinality(effects) = 1
    <3>1. effects # {}
      BY <1>1, <2>3 DEF AdapterInv, Traced, Adapter!Done, Took, Adapter!Receipt
    <3>2. PICK i : effects = {i}
      BY <2>1, <3>1
    <3> QED BY <3>2, FS_Singleton
  <2>4. ASSUME callPc[c] \in {"refused", "reverted"} PROVE effects = {} /\ c \notin pool
    BY <1>1, <2>4 DEF AdapterInv, Traced, Adapter!Done, Mined, Took, Adapter!Receipt
  <2> QED BY <2>2, <2>3, <2>4
<1>2. AdapterInv => Adapter!ReceiptIsEffect
  BY <1>1, SameCounts DEF Adapter!ReceiptIsEffect
<1>3. AdapterInv => Adapter!ForeseenIdsHold
  <2>1. ASSUME AdapterInv, NEW c \in Call, callPc[c] \in Adapter!Done,
               KindOf[c] \in {"post", "register"}, Adapter!Orderly(KindOf[c])
        PROVE  Named(c)
    BY <2>1 DEF AdapterInv, Traced, Adapter!Done, Mined, Took, Foresight, Foresees
  <2> QED BY <2>1 DEF Adapter!ForeseenIdsHold, Named
<1>4. AdapterInv => ReturnsAreTrue
  BY <1>2, <1>3 DEF ReturnsAreTrue
<1> QED BY AdapterInvariant, <1>4, PTL

\* Every part keeps to its types, side by side with the others.
THEOREM PartsTypeCorrect == ConversationSpec => []PartsTypeOK
<1>1. AdapterInv => Adapter!TypeOK
  <2>1. ASSUME AdapterInv, NEW i \in DOMAIN nodeTasks PROVE nodeTasks[i].status \in Stage
    <3>1. nodeTasks[i] \in NodeTask
      BY <2>1 DEF AdapterInv, NodeTyped
    <3> QED BY <3>1 DEF NodeTask
  <2>2. \A S : Adapter!Cardinality(S) = Cardinality(S)
    BY SameCounts
  <2> QED BY <2>1, <2>2
          DEF Adapter!TypeOK, AdapterInv, NodeTyped, CallsTyped, Stage, Requests, Adapter!Ended
<1>2. RouterInv => Router!TypeOK
  <2>1. ASSUME RouterInv, NEW c \in Cycle, NEW i \in DOMAIN fired[c]
        PROVE  fired[c][i].status \in Heard
    <3> DEFINE Results == ResultOf(c)
    <3>1. fired[c] \in Seq(Results)
      BY <2>1 DEF RouterInv, RecordOf, InTurn
    <3>2. fired[c][i] \in Results
      <4> HIDE DEF Results
      <4> QED BY <2>1, <3>1
    <3> QED BY <3>2 DEF ResultOf
  <2>2. Router!HourSpent = Total(spent, Cycle \cup {Adhoc})
    BY SameCounts DEF Router!HourSpent
  <2> QED BY <2>1, <2>2 DEF Router!TypeOK, RouterInv, RouterTyped, RecordOf, Domains, Heard
<1> QED BY RunTypeCorrect, AdapterInvariant, RouterInvariant, <1>1, <1>2, PTL
        DEF ConversationSpec, PartsTypeOK
=============================================================================
