------------------------ MODULE InMemoryChainProofs ------------------------
(***************************************************************************)
(* Proofs, for any users, tasks, terms and funding, that the object of      *)
(* arena.py stays well typed and solvent (whatever calls raised half way    *)
(* before, it can refund every live task and pay every credit), and that    *)
(* every call that returns is a transaction of the contracts it mirrors.    *)
(***************************************************************************)
EXTENDS InMemoryChain, TotalTheorems

EscrowTotal == Total([id \in TaskId |-> Escrowed(id)], TaskId)
CreditTotal == Total(credits, User)

\* An id that was not given out has no task: a post that raised burned its id.
UnpostedAbsent == \A id \in TaskId : id >= nextTask => tasks[id] = Absent

\* A task somebody works on has a resolver, whether or not its collateral moved.
HeldByUsers ==
    \A id \in TaskId : In(id, "Claimed") \/ In(id, "Committed") =>
        tasks[id].resolver \in User /\ tasks[id].agentId \in AgentId

\* Solvency, with what its steps need to know about the tasks.
MirrorInv == TypeOK /\ UnpostedAbsent /\ HeldByUsers /\ ArenaSolvent

-----------------------------------------------------------------------------
LEMMA Places ==
    /\ Arena \in Address /\ Vault \in Address /\ Arena # Vault
    /\ \A u \in User : u \in Address /\ u # Arena /\ u # Vault /\ u # NoOne
BY MirrorAssumption DEF Address

LEMMA FiniteSums == IsFiniteSet(TaskId) /\ IsFiniteSet(User)
BY MirrorAssumption, FS_Interval DEF TaskId

\* A transfer that is covered, account by account.
LEMMA MovedAccounts ==
    ASSUME NEW b \in [Address -> Nat], NEW from \in Address, NEW to \in Address, from # to,
           NEW v \in Nat, Covers(b, from, v), NEW c, c = Moved(b, from, to, v)
    PROVE  /\ c \in [Address -> Nat]
           /\ c[from] = b[from] - v /\ c[to] = b[to] + v
           /\ \A a \in Address \ {from, to} : c[a] = b[a]
BY DEF Covers, Moved

LEMMA TaskRecord ==
    ASSUME TypeOK, NEW id \in TaskId, tasks[id] # Absent
    PROVE  /\ tasks[id] \in Task
           /\ tasks[id].bounty \in Nat /\ tasks[id].fee \in Nat /\ tasks[id].slashAmount \in Nat
           /\ tasks[id].poster \in User /\ Pot(id) \in Nat
BY DEF TypeOK, Task, Pot

LEMMA TaskIsPresent == ASSUME NEW t \in Task PROVE t # Absent
BY Places DEF Task, Absent

LEMMA EscrowedType == TypeOK => \A id \in TaskId : Escrowed(id) \in Nat
<1> SUFFICES ASSUME TypeOK, NEW id \in TaskId PROVE Escrowed(id) \in Nat
  OBVIOUS
<1> QED BY TaskRecord DEF Escrowed, Held

LEMMA EscrowedTypeNext == TypeOK' => \A id \in TaskId : Escrowed(id)' \in Nat
<1>1. (TypeOK => \A id \in TaskId : Escrowed(id) \in Nat)'
  BY EscrowedType, PTL
<1> QED BY <1>1

\* The sums the solvency compares are amounts.
LEMMA SumTypes == ASSUME TypeOK PROVE EscrowTotal \in Nat /\ CreditTotal \in Nat
<1>1. PICK f : f = [id \in TaskId |-> Escrowed(id)]
  OBVIOUS
<1>2. Amounts(f, TaskId) /\ Amounts(credits, User)
  BY <1>1, EscrowedType DEF Amounts, TypeOK
<1>3. Total(f, TaskId) \in Nat /\ Total(credits, User) \in Nat
  BY <1>2, FiniteSums, TotalType
<1> QED BY <1>1, <1>3 DEF EscrowTotal, CreditTotal

\* A step on one task changes the escrow by what that task holds.
LEMMA EscrowChange ==
    ASSUME TypeOK, TypeOK', NEW id \in TaskId, \A j \in TaskId \ {id} : tasks'[j] = tasks[j]
    PROVE  /\ EscrowTotal' = EscrowTotal - Escrowed(id) + Escrowed(id)'
           /\ EscrowTotal \in Nat /\ EscrowTotal' \in Nat
           /\ Escrowed(id) \in Nat /\ Escrowed(id)' \in Nat
<1> DEFINE f == [j \in TaskId |-> Escrowed(j)]
           g == [j \in TaskId |-> Escrowed(j)']
<1>1. \A j \in TaskId : Escrowed(j) \in Nat /\ Escrowed(j)' \in Nat
  BY EscrowedType, EscrowedTypeNext
<1>2. \A j \in TaskId \ {id} : Escrowed(j)' = Escrowed(j)
  BY DEF Escrowed, Pot
<1>3. AgreeOff(f, g, TaskId, id) /\ Amounts(f, TaskId) /\ Amounts(g, TaskId)
  BY <1>1, <1>2 DEF AgreeOff, Amounts
<1>4. f[id] = Escrowed(id) /\ g[id] = Escrowed(id)' /\ EscrowTotal = Total(f, TaskId)
      /\ EscrowTotal' = Total(g, TaskId)
  BY DEF EscrowTotal
<1> HIDE DEF f, g
<1> QED BY <1>3, <1>4, FiniteSums, TotalUpdate

LEMMA EscrowSame == ASSUME UNCHANGED tasks PROVE EscrowTotal' = EscrowTotal
BY DEF EscrowTotal, Escrowed, Pot

LEMMA CreditsGrow ==
    ASSUME NEW c \in [User -> Nat], NEW who \in User, NEW v \in Nat, NEW d, d = Credited(c, who, v)
    PROVE  d \in [User -> Nat] /\ Total(d, User) = Total(c, User) + v /\ Total(c, User) \in Nat
<1>1. d = Plus(c, who, v)
  BY DEF Credited, Plus
<1> QED BY <1>1, FiniteSums, TotalPlus

\* The arena stays solvent when what it gains and owes grow alike, or it gains more.
LEMMA StaysSolvent ==
    ASSUME TypeOK, TypeOK', ArenaSolvent, NEW e \in Int, NEW c \in Int,
           EscrowTotal' = EscrowTotal + e, CreditTotal' = CreditTotal + c,
           balances'[Arena] >= balances[Arena] + e + c
    PROVE  ArenaSolvent'
<1>1. EscrowTotal \in Nat /\ CreditTotal \in Nat /\ balances[Arena] \in Nat
  BY SumTypes, Places DEF TypeOK
<1>2. balances'[Arena] \in Nat
  BY Places DEF TypeOK
<1>3. balances[Arena] >= EscrowTotal + CreditTotal
  BY DEF ArenaSolvent, EscrowTotal, CreditTotal
<1>4. balances'[Arena] >= EscrowTotal' + CreditTotal'
  BY <1>1, <1>2, <1>3
<1> QED BY <1>4 DEF ArenaSolvent, EscrowTotal, CreditTotal

LEMMA InitMirror == Init => MirrorInv
<1> SUFFICES ASSUME Init PROVE MirrorInv
  OBVIOUS
<1>1. TypeOK
  BY MirrorAssumption, Places DEF Init, TypeOK, Address
<1>2. UnpostedAbsent /\ HeldByUsers
  BY DEF Init, UnpostedAbsent, HeldByUsers, In
<1>3. EscrowTotal = 0
  <2>1. PICK f : f = [id \in TaskId |-> Escrowed(id)]
    OBVIOUS
  <2>2. \A id \in TaskId : f[id] = 0
    BY <2>1 DEF Init, Escrowed
  <2> QED BY <2>1, <2>2, TotalZero DEF EscrowTotal
<1>4. CreditTotal = 0
  BY TotalZero DEF Init, CreditTotal
<1>5. balances[Arena] = 0
  BY Places, MirrorAssumption DEF Init
<1> QED BY <1>1, <1>2, <1>3, <1>4, <1>5 DEF MirrorInv, ArenaSolvent, EscrowTotal, CreditTotal

-----------------------------------------------------------------------------
(* The operations. *)

\* Steps that leave tasks, credits and the arena's balance alone.
LEMMA AsideKeeps ==
    ASSUME MirrorInv, TypeOK', UNCHANGED <<tasks, credits, nextTask>>,
           balances'[Arena] = balances[Arena]
    PROVE  MirrorInv'
<1>1. EscrowTotal' = EscrowTotal + 0 /\ CreditTotal' = CreditTotal + 0
  BY EscrowSame, SumTypes DEF CreditTotal, MirrorInv
<1>2. balances'[Arena] >= balances[Arena] + 0 + 0
  BY Places DEF MirrorInv, TypeOK
<1>3. ArenaSolvent'
  BY <1>1, <1>2, StaysSolvent DEF MirrorInv
<1> QED BY <1>3 DEF MirrorInv, UnpostedAbsent, HeldByUsers, In

LEMMA MintKeeps ==
    ASSUME MirrorInv, NEW u \in User, NEW v \in Mints, Mint(u, v)
    PROVE  MirrorInv'
<1>1. v \in Nat /\ u \in Address /\ u # Arena
  BY MirrorAssumption, Places
<1>2. balances' \in [Address -> Nat] /\ balances'[Arena] = balances[Arena]
  BY <1>1, Places DEF Mint, MirrorInv, TypeOK
<1>3. TypeOK'
  BY <1>2 DEF Mint, MirrorInv, TypeOK, registryVars, arenaVars
<1> QED BY <1>2, <1>3, AsideKeeps DEF Mint, arenaVars

LEMMA SignKeeps ==
    ASSUME MirrorInv, NEW u \in User, NEW id \in TaskId, NEW a \in AgentId,
           NEW v \in {tasks[id].fee} \cup OtherValues, tasks[id] # Absent, Sign(u, id, a, v)
    PROVE  MirrorInv'
<1>1. v \in Nat /\ now + PaymentTimeout \in Nat
  <2>1. TypeOK /\ now \in 1..MaxTime /\ PaymentTimeout \in Nat /\ MaxTime \in Nat
        /\ OtherValues \subseteq Nat
    BY MirrorAssumption DEF MirrorInv, TypeOK
  <2>2. tasks[id].fee \in Nat
    BY <2>1, TaskRecord
  <2>3. v \in Nat
    BY <2>1, <2>2
  <2>4. now + PaymentTimeout \in Nat
    <3>1. now \in Nat
      BY <2>1
    <3> QED BY <2>1, <3>1
  <2> QED BY <2>3, <2>4
<1>2. [from |-> u, to |-> Arena, value |-> v, validAfter |-> 0,
       validBefore |-> now + PaymentTimeout, nonce |-> ClaimNonce(id, a)]
          \in [from : User, to : {Arena}, value : Nat, validAfter : {0},
               validBefore : Nat, nonce : TaskId \X AgentId]
  BY <1>1 DEF ClaimNonce
<1>3. TypeOK'
  BY <1>2 DEF Sign, MirrorInv, TypeOK, registryVars, arenaVars
<1> QED BY <1>3, AsideKeeps DEF Sign, arenaVars

LEMMA RegistryKeeps ==
    ASSUME MirrorInv, NEW u \in User, NEW a \in AgentId, Register(u, a) \/ TransferAgent(a, u)
    PROVE  MirrorInv'
<1>1. TypeOK'
  BY DEF Register, TransferAgent, MirrorInv, TypeOK, tokenVars, arenaVars
<1> QED BY <1>1, AsideKeeps DEF Register, TransferAgent, tokenVars, arenaVars

LEMMA AdvanceKeeps == ASSUME MirrorInv, Advance PROVE MirrorInv'
<1>1. now' \in 1..MaxTime
  <2>1. now \in 1..MaxTime /\ now < MaxTime /\ now' = now + 1 /\ MaxTime \in Nat
    BY MirrorAssumption DEF Advance, MirrorInv, TypeOK
  <2> QED BY <2>1
<1>2. TypeOK'
  BY <1>1 DEF Advance, MirrorInv, TypeOK, tokenVars, registryVars, arenaVars
<1> QED BY <1>2, AsideKeeps DEF Advance, tokenVars, arenaVars

\* A posted task brings its bounty; one that cannot be paid for is never there.
LEMMA PostKeeps ==
    ASSUME MirrorInv, NEW u \in User, NEW terms \in Terms, NEW v \in Answer, PostTask(u, terms, v)
    PROVE  MirrorInv'
<1>1. /\ terms.bounty \in Nat /\ terms.fee \in Nat /\ terms.slashAmount \in Nat
      /\ MaxTask \in Nat /\ MaxRaised \in Nat
  BY MirrorAssumption
<1>2. /\ nextTask \in TaskId /\ nextTask' = nextTask + 1 /\ nextTask \in Int
      /\ nextTask' \in 1..(MaxTask + 1)
  BY <1>1 DEF PostTask, MirrorInv, TypeOK, TaskId
<1>3. /\ UNCHANGED <<now, authorizations, signed, agents, feedback, validations, bonds, credits>>
      /\ TypeOK /\ ArenaSolvent
  BY DEF PostTask, registryVars, MirrorInv
<1>4. CreditTotal' = CreditTotal + 0
  BY <1>3, SumTypes DEF CreditTotal
<1>5. CASE Covers(balances, u, terms.bounty)
  <2>1. PICK t : t = [poster |-> u, bounty |-> terms.bounty, fee |-> terms.fee,
                    slashAmount |-> terms.slashAmount, truthCommit |-> v,
                    status |-> "Open", agentId |-> 0, resolver |-> NoOne,
                    committed |-> "None", reasoningHash |-> NoReasoning,
                    truth |-> "None", correct |-> "None",
                    commitDeadline |-> 0, settleDeadline |-> 0]
    OBVIOUS
  <2>2. t \in Task /\ t.status = "Open" /\ t.bounty = terms.bounty
    BY <1>1, <2>1 DEF Task
  <2>3. tasks' = [tasks EXCEPT ![nextTask] = t] /\ raised' = raised
    BY <1>5, <2>1 DEF PostTask
  <2>4. balances' \in [Address -> Nat] /\ balances'[Arena] = balances[Arena] + terms.bounty
    BY <1>1, <1>3, <1>5, Places, MovedAccounts, SMTT(20) DEF PostTask, TypeOK
  <2>5. /\ tasks' \in [TaskId -> Task \cup {Absent}] /\ tasks'[nextTask] = t
        /\ \A j \in TaskId \ {nextTask} : tasks'[j] = tasks[j]
    BY <1>2, <1>3, <2>2, <2>3 DEF TypeOK
  <2>6. TypeOK'
    BY <1>2, <1>3, <2>3, <2>4, <2>5 DEF TypeOK
  <2>7. UnpostedAbsent'
    BY <1>2, <2>5 DEF MirrorInv, UnpostedAbsent, TaskId
  <2>8. HeldByUsers'
    BY <1>2, <2>2, <2>5 DEF MirrorInv, HeldByUsers, In
  <2>9. Escrowed(nextTask) = 0
    BY <1>2 DEF MirrorInv, UnpostedAbsent, Escrowed
  <2>10. PICK n : n = nextTask
    OBVIOUS
  <2>11. tasks'[n] = t /\ n \in TaskId /\ t # Absent
    BY <1>2, <2>2, <2>5, <2>10, TaskIsPresent
  <2>12. Escrowed(n)' = terms.bounty
    BY <2>2, <2>11 DEF Escrowed, Held
  <2>13. \A j \in TaskId \ {n} : tasks'[j] = tasks[j]
    BY <2>5, <2>10
  <2>14. EscrowTotal' = EscrowTotal + terms.bounty
    BY <1>1, <1>3, <2>6, <2>9, <2>10, <2>11, <2>12, <2>13, EscrowChange
  <2>15. balances'[Arena] >= balances[Arena] + terms.bounty + 0
    BY <1>1, <1>3, <2>4, Places DEF TypeOK
  <2>16. ArenaSolvent'
    BY <1>1, <1>3, <1>4, <2>6, <2>14, <2>15, StaysSolvent
  <2> QED BY <2>6, <2>7, <2>8, <2>16 DEF MirrorInv
<1>6. CASE ~Covers(balances, u, terms.bounty)
  <2>1. UNCHANGED <<balances, tasks>> /\ raised < MaxRaised /\ raised' = raised + 1
    BY <1>6 DEF PostTask, Raise
  <2>2. raised' \in 0..MaxRaised
    BY <1>1, <1>3, <2>1 DEF TypeOK
  <2>3. TypeOK'
    BY <1>2, <1>3, <2>1, <2>2 DEF TypeOK
  <2>4. EscrowTotal' = EscrowTotal + 0
    BY <1>3, <2>1, EscrowSame, SumTypes
  <2>5. balances'[Arena] >= balances[Arena] + 0 + 0
    BY <1>3, <2>1, Places DEF TypeOK
  <2>6. ArenaSolvent'
    BY <1>3, <1>4, <2>3, <2>4, <2>5, StaysSolvent
  <2>7. UnpostedAbsent' /\ HeldByUsers'
    BY <1>2, <2>1 DEF MirrorInv, UnpostedAbsent, HeldByUsers, In, TaskId
  <2> QED BY <2>3, <2>6, <2>7 DEF MirrorInv
<1> QED BY <1>5, <1>6

\* A resolver with its payment, as ClaimTask takes them.
Paying(id, agent, payment) ==
    /\ PaymentMatches(id, agent, payment)
    /\ payment.from \in User /\ payment.nonce = <<id, agent>>

LEMMA PaymentsArePayers ==
    ASSUME TypeOK, NEW u \in User, NEW id \in TaskId, NEW a \in AgentId,
           NEW p \in signed \cup {Unsigned(u, id, a)}, ClaimTask(id, a, p)
    PROVE  Paying(id, a, p)
BY DEF TypeOK, ClaimTask, PaymentMatches, ClaimNonce, Unsigned, Paying

\* A claim that does not cover the fee uses up the nonce and nothing else.
LEMMA UnpaidClaimKeeps ==
    ASSUME MirrorInv, NEW id \in TaskId, NEW a \in AgentId, NEW p, Paying(id, a, p),
           ClaimTask(id, a, p), ~Covers(balances, p.from, tasks[id].fee)
    PROVE  MirrorInv'
<1>1. /\ authorizations' = [authorizations EXCEPT ![p.from] =
             IF tasks[id].fee > 0 THEN @ \cup {p.nonce} ELSE @]
      /\ UNCHANGED <<now, balances, signed, agents, feedback, validations, bonds, credits, tasks,
                     nextTask>>
      /\ raised < MaxRaised /\ raised' = raised + 1
  BY DEF ClaimTask, Raise, registryVars
<1>2. p.from \in Address /\ p.nonce \in TaskId \X AgentId /\ MaxRaised \in Nat
  BY Places, MirrorAssumption DEF Paying
<1>3. raised' \in 0..MaxRaised
  BY <1>1, <1>2 DEF MirrorInv, TypeOK
<1>4. authorizations' \in [Address -> SUBSET (TaskId \X AgentId)]
  BY <1>1, <1>2 DEF MirrorInv, TypeOK
<1>5. TypeOK'
  BY <1>1, <1>3, <1>4 DEF MirrorInv, TypeOK
<1> QED BY <1>1, <1>5, AsideKeeps

\* What a claim that pays its fee leaves in the accounts, collateral or not.
LEMMA ClaimAccounts ==
    ASSUME MirrorInv, NEW id \in TaskId, NEW a \in AgentId, NEW p, Paying(id, a, p),
           ClaimTask(id, a, p), Covers(balances, p.from, tasks[id].fee)
    PROVE  /\ balances' \in [Address -> Nat]
           /\ balances'[Arena] = balances[Arena] + tasks[id].fee
           /\ raised' \in 0..MaxRaised
<1>1. PICK t, u : t = tasks[id] /\ u = p.from
  OBVIOUS
<1>2. /\ u \in Address /\ u # Arena /\ u # Vault
      /\ Arena \in Address /\ Vault \in Address /\ Arena # Vault
  BY <1>1, Places DEF Paying
<1>3. t.fee \in Nat /\ t.slashAmount \in Nat
  BY <1>1, TaskRecord DEF MirrorInv, ClaimTask, In
<1>4. balances \in [Address -> Nat] /\ raised \in 0..MaxRaised /\ MaxRaised \in Nat
  BY MirrorAssumption DEF MirrorInv, TypeOK
<1>5. PICK charged : charged = Moved(balances, u, Arena, t.fee)
  OBVIOUS
<1>6. /\ charged \in [Address -> Nat] /\ charged[Arena] = balances[Arena] + t.fee
  BY <1>1, <1>2, <1>3, <1>4, <1>5, MovedAccounts
<1>7. CASE Covers(charged, u, t.slashAmount)
  <2>1. balances' = Moved(charged, u, Vault, t.slashAmount) /\ raised' = raised
    BY <1>1, <1>5, <1>7 DEF ClaimTask
  <2>2. balances' \in [Address -> Nat] /\ balances'[Arena] = charged[Arena]
    BY <1>2, <1>3, <1>6, <1>7, <2>1, MovedAccounts
  <2> QED BY <1>1, <1>4, <1>6, <2>1, <2>2
<1>8. CASE ~Covers(charged, u, t.slashAmount)
  <2>1. balances' = charged /\ raised < MaxRaised /\ raised' = raised + 1
    BY <1>1, <1>5, <1>8 DEF ClaimTask, Raise
  <2> QED BY <1>1, <1>4, <1>6, <2>1
<1> QED BY <1>7, <1>8

LEMMA PaidClaimKeeps ==
    ASSUME MirrorInv, NEW id \in TaskId, NEW a \in AgentId, NEW p, Paying(id, a, p),
           ClaimTask(id, a, p), Covers(balances, p.from, tasks[id].fee)
    PROVE  MirrorInv'
<1>1. PICK t, u, after : /\ t = tasks[id] /\ u = p.from
                         /\ after = [t EXCEPT !.status = "Claimed", !.agentId = a,
                                              !.resolver = u, !.commitDeadline = now + CommitWindow]
  OBVIOUS
<1>2. t \in Task /\ t.status = "Open" /\ u \in User /\ t # Absent
  BY <1>1, TaskRecord DEF MirrorInv, ClaimTask, In, Paying
<1>3. TypeOK /\ ArenaSolvent /\ UnpostedAbsent /\ HeldByUsers
  BY DEF MirrorInv
<1>4. now + CommitWindow \in Nat
  <2>1. now \in 1..MaxTime /\ MaxTime \in Nat /\ CommitWindow \in Nat
    BY <1>3, MirrorAssumption DEF TypeOK
  <2> QED BY <2>1
<1>5. /\ after \in Task /\ after.status = "Claimed" /\ after.resolver = u /\ after.agentId = a
      /\ after.bounty = t.bounty /\ after.fee = t.fee
  BY <1>1, <1>2, <1>4 DEF Task, Held
<1>6. /\ tasks' = [tasks EXCEPT ![id].status = "Claimed", ![id].agentId = a,
                       ![id].resolver = u, ![id].commitDeadline = now + CommitWindow]
      /\ bonds' = [bonds EXCEPT ![id] =
             [agentId |-> a, depositor |-> u, amount |-> t.slashAmount,
              closed |-> FALSE, slashed |-> FALSE]]
      /\ authorizations' = [authorizations EXCEPT ![u] =
             IF t.fee > 0 THEN @ \cup {p.nonce} ELSE @]
      /\ UNCHANGED <<now, signed, agents, feedback, validations, credits, nextTask>>
  BY <1>1 DEF ClaimTask, registryVars
<1>7. tasks' = [tasks EXCEPT ![id] = after]
  BY <1>1, <1>3, <1>6 DEF TypeOK
<1>8. /\ tasks' \in [TaskId -> Task \cup {Absent}] /\ tasks'[id] = after
      /\ \A j \in TaskId \ {id} : tasks'[j] = tasks[j]
  BY <1>3, <1>5, <1>7 DEF TypeOK
<1>9. bonds' \in [TaskId -> Bond \cup {NoBond}]
  <2>1. [agentId |-> a, depositor |-> u, amount |-> t.slashAmount,
         closed |-> FALSE, slashed |-> FALSE] \in Bond
    BY <1>2 DEF Bond, Task
  <2> QED BY <1>3, <1>6, <2>1 DEF TypeOK
<1>10. authorizations' \in [Address -> SUBSET (TaskId \X AgentId)]
  BY <1>1, <1>2, <1>3, <1>6, Places DEF TypeOK, Paying
<1>11. /\ balances' \in [Address -> Nat]
       /\ balances'[Arena] = balances[Arena] + t.fee
       /\ raised' \in 0..MaxRaised
  BY <1>1, ClaimAccounts
<1>12. TypeOK'
  BY <1>3, <1>6, <1>8, <1>9, <1>10, <1>11 DEF TypeOK
<1>13. UnpostedAbsent'
  BY <1>1, <1>2, <1>3, <1>6, <1>8 DEF UnpostedAbsent
<1>14. HeldByUsers'
  BY <1>2, <1>3, <1>5, <1>8 DEF HeldByUsers, In
<1>15. Escrowed(id) = t.bounty
  BY <1>1, <1>2 DEF Escrowed, Held
<1>16. after # Absent
  BY <1>5, TaskIsPresent
<1>17. Escrowed(id)' = t.fee + t.bounty
  BY <1>5, <1>8, <1>16 DEF Escrowed, Held, Pot
<1>18. t.bounty \in Nat /\ t.fee \in Nat
  BY <1>2 DEF Task
<1>19. EscrowTotal' = EscrowTotal + t.fee
  BY <1>3, <1>8, <1>12, <1>15, <1>17, <1>18, EscrowChange
<1>20. CreditTotal' = CreditTotal + 0
  BY <1>3, <1>6, SumTypes DEF CreditTotal
<1>21. balances'[Arena] >= balances[Arena] + t.fee + 0
  BY <1>3, <1>11, <1>18, Places DEF TypeOK
<1>22. ArenaSolvent'
  BY <1>3, <1>12, <1>18, <1>19, <1>20, <1>21, StaysSolvent
<1> QED BY <1>12, <1>13, <1>14, <1>22 DEF MirrorInv

LEMMA CommitKeeps ==
    ASSUME MirrorInv, NEW u \in User, NEW id \in TaskId, NEW v \in Answer, NEW h \in Reasoning,
           CommitVerdict(u, id, v, h)
    PROVE  MirrorInv'
<1>1. PICK t, after : /\ t = tasks[id]
                      /\ after = [t EXCEPT !.committed = v, !.reasoningHash = h,
                                           !.status = "Committed",
                                           !.settleDeadline = now + SettleWindow]
  OBVIOUS
<1>2. TypeOK /\ ArenaSolvent /\ UnpostedAbsent /\ HeldByUsers
  BY DEF MirrorInv
<1>3. t \in Task /\ t.status = "Claimed" /\ t # Absent /\ t.resolver \in User
      /\ t.agentId \in AgentId
  BY <1>1, <1>2, TaskRecord DEF CommitVerdict, In, HeldByUsers
<1>4. now + SettleWindow \in Nat
  <2>1. now \in 1..MaxTime /\ MaxTime \in Nat /\ SettleWindow \in Nat
    BY <1>2, MirrorAssumption DEF TypeOK
  <2> QED BY <2>1
<1>5. /\ after \in Task /\ after.status = "Committed" /\ after.resolver = t.resolver
      /\ after.agentId = t.agentId
      /\ after.bounty = t.bounty /\ after.fee = t.fee
  BY <1>1, <1>3, <1>4 DEF Task, Held
<1>6. /\ tasks' = [tasks EXCEPT ![id] = after]
      /\ validations' = [validations EXCEPT ![<<id, h>>] =
             [agentId |-> t.agentId, answered |-> FALSE, response |-> 0]]
      /\ UNCHANGED <<now, balances, authorizations, signed, agents, feedback, bonds, credits,
                     nextTask, raised>>
  BY <1>1, <1>2 DEF CommitVerdict, ValidationHash, tokenVars, TypeOK
<1>7. /\ tasks' \in [TaskId -> Task \cup {Absent}] /\ tasks'[id] = after
      /\ \A j \in TaskId \ {id} : tasks'[j] = tasks[j]
  BY <1>2, <1>5, <1>6 DEF TypeOK
<1>8. validations' \in [TaskId \X Reasoning -> Request \cup {NoRequest}]
  <2>1. [agentId |-> t.agentId, answered |-> FALSE, response |-> 0] \in Request
    BY <1>3 DEF Request
  <2> QED BY <1>2, <1>6, <2>1 DEF TypeOK
<1>9. TypeOK'
  BY <1>2, <1>6, <1>7, <1>8 DEF TypeOK
<1>10. UnpostedAbsent'
  BY <1>1, <1>2, <1>3, <1>6, <1>7 DEF UnpostedAbsent
<1>11. HeldByUsers'
  BY <1>2, <1>3, <1>5, <1>7 DEF HeldByUsers, In
<1>12. after # Absent
  BY <1>5, TaskIsPresent
<1>13. Escrowed(id) = t.fee + t.bounty /\ Escrowed(id)' = t.fee + t.bounty
  BY <1>1, <1>3, <1>5, <1>7, <1>12 DEF Escrowed, Held, Pot
<1>14. EscrowTotal' = EscrowTotal + 0
  BY <1>2, <1>7, <1>9, <1>13, EscrowChange
<1>15. CreditTotal' = CreditTotal + 0
  BY <1>2, <1>6, SumTypes DEF CreditTotal
<1>16. balances'[Arena] >= balances[Arena] + 0 + 0
  BY <1>2, <1>6, Places DEF TypeOK
<1>17. ArenaSolvent'
  BY <1>2, <1>9, <1>14, <1>15, <1>16, StaysSolvent
<1> QED BY <1>9, <1>10, <1>11, <1>17 DEF MirrorInv

LEMMA CancelKeeps ==
    ASSUME MirrorInv, NEW u \in User, NEW id \in TaskId, CancelTask(u, id)
    PROVE  MirrorInv'
<1>1. PICK t, after : t = tasks[id] /\ after = [t EXCEPT !.status = "Cancelled"]
  OBVIOUS
<1>2. TypeOK /\ ArenaSolvent /\ UnpostedAbsent /\ HeldByUsers
  BY DEF MirrorInv
<1>3. t \in Task /\ t.status = "Open" /\ t # Absent /\ t.bounty \in Nat
  BY <1>1, <1>2, TaskRecord DEF CancelTask, In
<1>4. after \in Task /\ after.status = "Cancelled"
  BY <1>1, <1>3 DEF Task
<1>5. /\ tasks' = [tasks EXCEPT ![id] = after]
      /\ credits' = Credited(credits, u, t.bounty)
      /\ UNCHANGED <<now, balances, authorizations, signed, agents, feedback, validations, bonds,
                     nextTask, raised>>
  BY <1>1, <1>2 DEF CancelTask, tokenVars, registryVars, TypeOK
<1>6. /\ tasks' \in [TaskId -> Task \cup {Absent}] /\ tasks'[id] = after
      /\ \A j \in TaskId \ {id} : tasks'[j] = tasks[j]
  BY <1>2, <1>4, <1>5 DEF TypeOK
<1>7. credits' \in [User -> Nat] /\ CreditTotal' = CreditTotal + t.bounty
  <2>1. PICK d : d = Credited(credits, u, t.bounty)
    OBVIOUS
  <2>2. credits \in [User -> Nat]
    BY <1>2 DEF TypeOK
  <2>3. d \in [User -> Nat] /\ Total(d, User) = Total(credits, User) + t.bounty
    BY <1>3, <2>1, <2>2, CreditsGrow
  <2> QED BY <1>5, <2>1, <2>3 DEF CreditTotal
<1>8. TypeOK'
  BY <1>2, <1>5, <1>6, <1>7 DEF TypeOK
<1>9. UnpostedAbsent'
  BY <1>1, <1>2, <1>3, <1>5, <1>6 DEF UnpostedAbsent
<1>10. HeldByUsers'
  BY <1>2, <1>4, <1>6 DEF HeldByUsers, In
<1>11. after # Absent
  BY <1>4, TaskIsPresent
<1>12. Escrowed(id) = t.bounty /\ Escrowed(id)' = 0
  BY <1>1, <1>3, <1>4, <1>6, <1>11 DEF Escrowed, Held
<1>13. 0 - t.bounty \in Int /\ EscrowTotal' = EscrowTotal + (0 - t.bounty)
  BY <1>2, <1>3, <1>6, <1>8, <1>12, EscrowChange
<1>14. balances'[Arena] >= balances[Arena] + (0 - t.bounty) + t.bounty
  BY <1>2, <1>3, <1>5, Places DEF TypeOK
<1>15. ArenaSolvent'
  BY <1>2, <1>3, <1>7, <1>8, <1>13, <1>14, StaysSolvent
<1> QED BY <1>8, <1>9, <1>10, <1>15 DEF MirrorInv

\* The arena always covers a withdrawal, so no credit is zeroed without being paid.
LEMMA WithdrawKeeps ==
    ASSUME MirrorInv, NEW u \in User, Withdraw(u)
    PROVE  MirrorInv' /\ raised' = raised
<1>1. PICK v : v = credits[u]
  OBVIOUS
<1>2. TypeOK /\ ArenaSolvent
  BY DEF MirrorInv
<1>3. EscrowTotal \in Nat /\ CreditTotal \in Nat
  BY <1>2, SumTypes
<1>4. Amounts(credits, User) /\ credits \in [User -> Nat] /\ v \in Nat
  BY <1>1, <1>2 DEF Amounts, TypeOK
<1>5. v <= CreditTotal
  BY <1>1, <1>4, FiniteSums, TotalBounds DEF CreditTotal
<1>6. balances[Arena] \in Nat /\ balances[Arena] >= EscrowTotal + CreditTotal
  BY <1>2, Places DEF TypeOK, ArenaSolvent, EscrowTotal, CreditTotal
<1>7. Covers(balances, Arena, v)
  BY <1>3, <1>4, <1>5, <1>6 DEF Covers
<1>8. /\ balances' = Moved(balances, Arena, u, v)
      /\ credits' = [credits EXCEPT ![u] = 0]
      /\ UNCHANGED <<now, authorizations, signed, agents, feedback, validations, bonds, tasks,
                     nextTask, raised>>
  BY <1>1, <1>7 DEF Withdraw, registryVars
<1>9. balances' \in [Address -> Nat] /\ balances'[Arena] = balances[Arena] - v
  <2>1. balances \in [Address -> Nat] /\ Arena \in Address /\ u \in Address /\ Arena # u
    BY <1>2, Places DEF TypeOK
  <2>2. PICK c : c = Moved(balances, Arena, u, v)
    OBVIOUS
  <2>3. c \in [Address -> Nat] /\ c[Arena] = balances[Arena] - v
    BY <1>4, <1>7, <2>1, <2>2, MovedAccounts
  <2> QED BY <1>8, <2>2, <2>3
<1>10. credits' = Minus(credits, u, v)
  <2>1. credits[u] - v = 0
    BY <1>1, <1>4
  <2> QED BY <1>8, <2>1 DEF Minus
<1>11. credits' \in [User -> Nat] /\ CreditTotal' = CreditTotal - v
  BY <1>1, <1>4, <1>10, FiniteSums, TotalMinus DEF CreditTotal
<1>12. TypeOK'
  BY <1>2, <1>8, <1>9, <1>11 DEF TypeOK
<1>13. EscrowTotal' = EscrowTotal + 0
  BY <1>3, <1>8, EscrowSame
<1>14. 0 - v \in Int /\ CreditTotal' = CreditTotal + (0 - v)
  BY <1>3, <1>4, <1>11
<1>15. balances'[Arena] >= balances[Arena] + 0 + (0 - v)
  BY <1>4, <1>6, <1>9
<1>16. ArenaSolvent'
  BY <1>2, <1>12, <1>13, <1>14, <1>15, StaysSolvent
<1>17. UnpostedAbsent' /\ HeldByUsers'
  BY <1>8 DEF MirrorInv, UnpostedAbsent, HeldByUsers, In
<1> QED BY <1>8, <1>12, <1>16, <1>17 DEF MirrorInv

-----------------------------------------------------------------------------
(* Endings. *)

Endings == {"correct", "wrong", "commit-timeout", "reveal-timeout"}

\* Both parties together are due what the task and its bond hold.
LEMMA Dues ==
    ASSUME TypeOK, NEW id \in TaskId, tasks[id] # Absent, bonds[id] # NoBond, NEW how \in Endings
    PROVE  /\ PosterDue(id, how) \in Nat /\ ResolverDue(id, how) \in Nat
           /\ PosterDue(id, how) + ResolverDue(id, how) = Pot(id) + bonds[id].amount
           /\ bonds[id].amount \in Nat /\ Pot(id) \in Nat
<1>1. bonds[id].amount \in Nat /\ Pot(id) \in Nat
  BY TaskRecord DEF TypeOK, Bond
<1> QED BY <1>1 DEF PosterDue, ResolverDue, Endings

\* What the registries and the bonds hold after an ending.
LEMMA RecordsKeepType ==
    ASSUME TypeOK, NEW id \in TaskId, bonds[id] # NoBond, NEW agent \in AgentId, NEW how \in Endings,
           NEW hash
    PROVE  /\ Closed(id, how) \in [TaskId -> Bond \cup {NoBond}]
           /\ Rated(agent, how) \in [AgentId -> Seq(Feedback)]
           /\ validations[hash] # NoRequest =>
                  [validations EXCEPT ![hash].answered = TRUE, ![hash].response = Score(how)]
                      \in [TaskId \X Reasoning -> Request \cup {NoRequest}]
<1>1. Closed(id, how) \in [TaskId -> Bond \cup {NoBond}]
  <2>1. PICK b, c : b = bonds[id] /\ c = [b EXCEPT !.closed = TRUE, !.slashed = (how = "wrong")]
    OBVIOUS
  <2>2. b \in Bond
    BY <2>1 DEF TypeOK
  <2>3. c \in Bond
    BY <2>1, <2>2 DEF Bond
  <2>4. Closed(id, how) = [bonds EXCEPT ![id] = c]
    BY <2>1 DEF Closed, TypeOK
  <2> QED BY <2>3, <2>4 DEF TypeOK
<1>2. Rated(agent, how) \in [AgentId -> Seq(Feedback)]
  <2>1. PICK f : f = [score |-> Score(how), tag |-> how]
    OBVIOUS
  <2>2. f \in Feedback
    BY <2>1 DEF Feedback, Score, Endings
  <2>3. Append(feedback[agent], f) \in Seq(Feedback)
    BY <2>2 DEF TypeOK
  <2>4. Rated(agent, how) = [feedback EXCEPT ![agent] = Append(feedback[agent], f)]
    BY <2>1 DEF Rated
  <2> QED BY <2>3, <2>4 DEF TypeOK
<1>3. ASSUME validations[hash] # NoRequest
      PROVE  [validations EXCEPT ![hash].answered = TRUE, ![hash].response = Score(how)]
                 \in [TaskId \X Reasoning -> Request \cup {NoRequest}]
  <2>1. PICK q, a : q = validations[hash]
                    /\ a = [q EXCEPT !.answered = TRUE, !.response = Score(how)]
    OBVIOUS
  <2>2. PICK w : w = [validations EXCEPT ![hash].answered = TRUE, ![hash].response = Score(how)]
    OBVIOUS
  <2>3. CASE hash \in TaskId \X Reasoning
    <3>1. a \in Request
      <4>1. q \in Request
        BY <1>3, <2>1, <2>3 DEF TypeOK
      <4>2. Score(how) \in {0, 100}
        BY DEF Score
      <4> QED BY <2>1, <4>1, <4>2 DEF Request
    <3>2. w = [validations EXCEPT ![hash] = a]
      BY <2>1, <2>2, <2>3 DEF TypeOK
    <3>3. w \in [TaskId \X Reasoning -> Request \cup {NoRequest}]
      BY <3>1, <3>2 DEF TypeOK
    <3> QED BY <2>2, <3>3
  <2>4. CASE hash \notin TaskId \X Reasoning
    <3>1. w = validations
      BY <2>2, <2>4 DEF TypeOK
    <3> QED BY <2>2, <3>1 DEF TypeOK
  <2> QED BY <2>3, <2>4
<1> QED BY <1>1, <1>2, <1>3

\* The arena gives up the pot and takes in the collateral, and credits both; when the
\* vault cannot pay, it gives up the pot and credits nobody.
LEMMA EndKeeps ==
    ASSUME MirrorInv, NEW id \in TaskId, NEW how \in Endings, NEW ended \in Task,
           In(id, "Claimed") \/ In(id, "Committed"), ended.status = "Settled", End(id, how, ended)
    PROVE  MirrorInv'
<1>1. PICK t, b, hash : /\ t = tasks[id] /\ b = bonds[id]
                        /\ hash = ValidationHash(id, t.reasoningHash)
  OBVIOUS
<1>2. TypeOK /\ ArenaSolvent /\ UnpostedAbsent /\ HeldByUsers
  BY DEF MirrorInv
<1>3. t # Absent /\ t \in Task /\ t.status \in Held /\ t.resolver \in User /\ t.agentId \in AgentId
      /\ t.poster \in User
  BY <1>1, <1>2, TaskRecord DEF In, Held, HeldByUsers
<1>4. b # NoBond
  BY <1>1 DEF End
<1>5. PICK p, q : p = PosterDue(id, how) /\ q = ResolverDue(id, how)
  OBVIOUS
<1>6. p \in Nat /\ q \in Nat /\ p + q = Pot(id) + b.amount /\ b.amount \in Nat /\ Pot(id) \in Nat
  BY <1>1, <1>2, <1>3, <1>4, <1>5, Dues
<1>7. /\ tasks' = [tasks EXCEPT ![id] = ended]
      /\ bonds' = Closed(id, how)
      /\ UNCHANGED <<now, authorizations, signed, agents, nextTask>>
  BY DEF End
<1>8. /\ tasks' \in [TaskId -> Task \cup {Absent}] /\ tasks'[id] = ended
      /\ \A j \in TaskId \ {id} : tasks'[j] = tasks[j]
  BY <1>2, <1>7 DEF TypeOK
<1>9. bonds' \in [TaskId -> Bond \cup {NoBond}]
  BY <1>1, <1>2, <1>3, <1>4, <1>7, RecordsKeepType
<1>10. UnpostedAbsent'
  BY <1>1, <1>2, <1>3, <1>7, <1>8 DEF UnpostedAbsent
<1>11. HeldByUsers'
  BY <1>2, <1>8 DEF HeldByUsers, In
<1>12. ended # Absent
  BY TaskIsPresent
<1>13. Escrowed(id) = Pot(id) /\ Escrowed(id)' = 0
  BY <1>1, <1>3, <1>8, <1>12 DEF Escrowed, Held
<1>14. CASE Covers(balances, Vault, b.amount)
  <2>1. /\ balances' = Moved(balances, Vault, Arena, b.amount)
        /\ credits' = Credited(Credited(credits, t.poster, p), t.resolver, q)
        /\ feedback' = Rated(t.agentId, how)
        /\ raised' = raised
        /\ \/ validations[hash] # NoRequest
              /\ validations' = [validations EXCEPT ![hash].answered = TRUE,
                                                    ![hash].response = Score(how)]
           \/ validations' = validations
    BY <1>1, <1>5, <1>14 DEF End
  <2>2. PICK after : after = Moved(balances, Vault, Arena, b.amount)
    OBVIOUS
  <2>3. balances \in [Address -> Nat] /\ credits \in [User -> Nat]
    BY <1>2 DEF TypeOK
  <2>4. after \in [Address -> Nat] /\ after[Arena] = balances[Arena] + b.amount
    BY <1>6, <1>14, <2>2, <2>3, Places, MovedAccounts
  <2>5. PICK mid : mid = Credited(credits, t.poster, p)
    OBVIOUS
  <2>6. mid \in [User -> Nat] /\ Total(mid, User) = CreditTotal + p /\ CreditTotal \in Nat
    BY <1>3, <1>6, <2>3, <2>5, CreditsGrow DEF CreditTotal
  <2>7. PICK last : last = Credited(mid, t.resolver, q)
    OBVIOUS
  <2>8. last \in [User -> Nat] /\ Total(last, User) = Total(mid, User) + q
    BY <1>3, <1>6, <2>6, <2>7, CreditsGrow
  <2>9. balances' = after /\ credits' = last
    BY <2>1, <2>2, <2>5, <2>7
  <2>10. CreditTotal' = CreditTotal + (Pot(id) + b.amount)
    BY <1>6, <2>6, <2>8, <2>9 DEF CreditTotal
  <2>11. feedback' \in [AgentId -> Seq(Feedback)]
    BY <1>1, <1>2, <1>3, <1>4, <2>1, RecordsKeepType
  <2>12. validations' \in [TaskId \X Reasoning -> Request \cup {NoRequest}]
    <3>1. CASE validations' = validations
      BY <1>2, <3>1 DEF TypeOK
    <3>2. CASE validations[hash] # NoRequest
               /\ validations' = [validations EXCEPT ![hash].answered = TRUE,
                                                     ![hash].response = Score(how)]
      BY <1>1, <1>2, <1>3, <1>4, <3>2, RecordsKeepType
    <3> QED BY <2>1, <3>1, <3>2
  <2>13. TypeOK'
    BY <1>2, <1>7, <1>8, <1>9, <2>1, <2>4, <2>8, <2>9, <2>11, <2>12 DEF TypeOK
  <2>14. 0 - Pot(id) \in Int /\ EscrowTotal' = EscrowTotal + (0 - Pot(id))
    BY <1>2, <1>6, <1>8, <1>13, <2>13, EscrowChange
  <2>15. balances'[Arena] >= balances[Arena] + (0 - Pot(id)) + (Pot(id) + b.amount)
    <3>1. balances[Arena] \in Nat /\ balances'[Arena] = balances[Arena] + b.amount
      BY <2>3, <2>4, <2>9, Places
    <3> QED BY <1>6, <3>1
  <2>16. ArenaSolvent'
    <3>1. Pot(id) + b.amount \in Int
      BY <1>6
    <3> QED BY <1>2, <2>10, <2>13, <2>14, <2>15, <3>1, StaysSolvent
  <2> QED BY <1>10, <1>11, <2>13, <2>16 DEF MirrorInv
<1>15. CASE ~Covers(balances, Vault, b.amount)
  <2>1. raised < MaxRaised /\ raised' = raised + 1
        /\ UNCHANGED <<balances, credits, feedback, validations>>
    BY <1>1, <1>15 DEF End, Raise
  <2>2. raised' \in 0..MaxRaised
    <3>1. raised \in 0..MaxRaised /\ MaxRaised \in Nat
      BY <1>2, MirrorAssumption DEF TypeOK
    <3> QED BY <2>1, <3>1
  <2>3. TypeOK'
    BY <1>2, <1>7, <1>8, <1>9, <2>1, <2>2 DEF TypeOK
  <2>4. 0 - Pot(id) \in Int /\ EscrowTotal' = EscrowTotal + (0 - Pot(id))
    BY <1>2, <1>6, <1>8, <1>13, <2>3, EscrowChange
  <2>5. CreditTotal' = CreditTotal + 0
    BY <1>2, <2>1, SumTypes DEF CreditTotal
  <2>6. balances'[Arena] >= balances[Arena] + (0 - Pot(id)) + 0
    <3>1. balances[Arena] \in Nat /\ balances'[Arena] = balances[Arena]
      BY <1>2, <2>1, Places DEF TypeOK
    <3> QED BY <1>6, <3>1
  <2>7. ArenaSolvent'
    BY <1>2, <2>3, <2>4, <2>5, <2>6, StaysSolvent
  <2> QED BY <1>10, <1>11, <2>3, <2>7 DEF MirrorInv
<1> QED BY <1>14, <1>15

LEMMA SettleKeeps ==
    ASSUME MirrorInv, NEW u \in User, NEW id \in TaskId, NEW v \in Answer, Settle(u, id, v)
    PROVE  MirrorInv'
<1>1. PICK how, ended :
          /\ how \in Endings
          /\ \E c \in {"True", "False"} :
                 ended = [tasks[id] EXCEPT !.status = "Settled", !.truth = v, !.correct = c]
          /\ End(id, how, ended)
  <2>1. CASE tasks[id].committed = v
    <3>1. PICK ended : ended = [tasks[id] EXCEPT !.status = "Settled", !.truth = v,
                                                 !.correct = "True"]
      OBVIOUS
    <3>2. End(id, "correct", ended)
      BY <2>1, <3>1 DEF Settle
    <3> QED BY <3>1, <3>2 DEF Endings
  <2>2. CASE tasks[id].committed # v
    <3>1. PICK ended : ended = [tasks[id] EXCEPT !.status = "Settled", !.truth = v,
                                                 !.correct = "False"]
      OBVIOUS
    <3>2. End(id, "wrong", ended)
      BY <2>2, <3>1 DEF Settle
    <3> QED BY <3>1, <3>2 DEF Endings
  <2> QED BY <2>1, <2>2
<1>2. In(id, "Committed") /\ tasks[id] \in Task
  BY TaskRecord DEF Settle, MirrorInv, In
<1>3. ended \in Task /\ ended.status = "Settled"
  BY <1>1, <1>2, ZenonT(20) DEF Task
<1> QED BY <1>1, <1>2, <1>3, EndKeeps

LEMMA TimeoutKeeps ==
    ASSUME MirrorInv, NEW id \in TaskId, TimeoutCommit(id) \/ TimeoutSettle(id)
    PROVE  MirrorInv'
<1>1. PICK how, ended :
          /\ how \in Endings
          /\ ended = [tasks[id] EXCEPT !.status = "Settled"]
          /\ End(id, how, ended)
  BY DEF TimeoutCommit, TimeoutSettle, Endings
<1>2. (In(id, "Claimed") \/ In(id, "Committed")) /\ tasks[id] \in Task
  BY TaskRecord DEF TimeoutCommit, TimeoutSettle, MirrorInv, In
<1>3. ended \in Task /\ ended.status = "Settled"
  BY <1>1, <1>2 DEF Task
<1> QED BY <1>1, <1>2, <1>3, EndKeeps

-----------------------------------------------------------------------------
LEMMA NextMirror == ASSUME MirrorInv, [Next]_vars PROVE MirrorInv'
<1>1. ASSUME NEW u \in User, NEW v \in Mints, Mint(u, v)
      PROVE  MirrorInv'
  BY <1>1, MintKeeps
<1>2. ASSUME NEW u \in User, NEW a \in AgentId, Register(u, a)
      PROVE  MirrorInv'
  BY <1>2, RegistryKeeps
<1>3. ASSUME NEW a \in AgentId, NEW u \in AgentBuyers, TransferAgent(a, u)
      PROVE  MirrorInv'
  <2>1. u \in User
    BY MirrorAssumption
  <2> QED BY <1>3, <2>1, RegistryKeeps
<1>4. ASSUME NEW u \in User, NEW terms \in Terms, NEW v \in Answer, PostTask(u, terms, v)
      PROVE  MirrorInv'
  BY <1>4, PostKeeps
<1>5. ASSUME NEW u \in User, NEW id \in TaskId, NEW a \in AgentId, tasks[id] # Absent,
             NEW v \in {tasks[id].fee} \cup OtherValues, Sign(u, id, a, v)
      PROVE  MirrorInv'
  BY <1>5, SignKeeps
<1>6. ASSUME NEW u \in User, NEW id \in TaskId, NEW a \in AgentId,
             NEW p \in signed \cup {Unsigned(u, id, a)}, ClaimTask(id, a, p)
      PROVE  MirrorInv'
  <2>1. Paying(id, a, p)
    BY <1>6, PaymentsArePayers DEF MirrorInv
  <2> QED BY <1>6, <2>1, UnpaidClaimKeeps, PaidClaimKeeps
<1>7. ASSUME NEW u \in User, NEW id \in TaskId, NEW v \in Answer, NEW h \in Reasoning,
             CommitVerdict(u, id, v, h)
      PROVE  MirrorInv'
  BY <1>7, CommitKeeps
<1>8. ASSUME NEW u \in User, NEW id \in TaskId, NEW v \in Answer, Settle(u, id, v)
      PROVE  MirrorInv'
  BY <1>8, SettleKeeps
<1>9. ASSUME NEW id \in TaskId, TimeoutCommit(id) \/ TimeoutSettle(id)
      PROVE  MirrorInv'
  BY <1>9, TimeoutKeeps
<1>10. ASSUME NEW u \in User, NEW id \in TaskId, CancelTask(u, id)
       PROVE  MirrorInv'
  BY <1>10, CancelKeeps
<1>11. ASSUME NEW u \in User, Withdraw(u)
       PROVE  MirrorInv'
  BY <1>11, WithdrawKeeps
<1>12. CASE Advance
  BY <1>12, AdvanceKeeps
<1>13. CASE UNCHANGED vars
  <2>1. UNCHANGED <<now, balances, authorizations, signed, agents, feedback, validations, bonds,
                    credits, tasks, nextTask, raised>>
    BY <1>13 DEF vars, tokenVars, registryVars, arenaVars
  <2>2. TypeOK'
    BY <2>1 DEF MirrorInv, TypeOK
  <2> QED BY <2>1, <2>2, AsideKeeps
<1> QED BY <1>1, <1>2, <1>3, <1>4, <1>5, <1>6, <1>7, <1>8, <1>9, <1>10, <1>11, <1>12, <1>13 DEF Next

LEMMA AlwaysMirror == Spec => []MirrorInv
<1>1. MirrorInv /\ [Next]_vars => MirrorInv'
  BY NextMirror
<1> QED BY InitMirror, <1>1, PTL DEF Spec

\* The object's state stays within its types, however its calls raise (arena.py:155-483).
THEOREM MirrorTypeCorrect == Spec => []TypeOK
<1>1. MirrorInv => TypeOK
  BY DEF MirrorInv
<1> QED BY <1>1, AlwaysMirror, PTL

\* The arena can refund every live task and pay every credit, whatever calls raised half
\* way before (arena.py:217-248, 268-288, 475-483).
THEOREM MirrorStaysSolvent == Spec => []ArenaSolvent
<1>1. MirrorInv => ArenaSolvent
  BY DEF MirrorInv
<1> QED BY <1>1, AlwaysMirror, PTL

\* A withdrawal that the arena cannot cover would zero the credit and raise (arena.py:475-483).
WithdrawalsPay == \A u \in User : Withdraw(u) => raised' = raised

\* That never happens, whatever raised before: no credit is lost (arena.py:475-483).
THEOREM NoCreditIsLost == Spec => [][WithdrawalsPay]_vars
<1>1. ASSUME MirrorInv PROVE WithdrawalsPay
  BY <1>1, WithdrawKeeps DEF WithdrawalsPay
<1>2. MirrorInv /\ [Next]_vars => [WithdrawalsPay]_vars
  BY <1>1
<1> QED BY <1>2, AlwaysMirror, PTL DEF Spec

-----------------------------------------------------------------------------
(* What the object keeps of the contracts, whatever raised before. *)

\* A claim's collateral is on record, for a registered agent, whether or not it moved.
Backed(id) ==
    /\ bonds[id] # NoBond /\ ~bonds[id].closed /\ ~bonds[id].slashed
    /\ bonds[id].agentId = tasks[id].agentId /\ agents[tasks[id].agentId] # NoOne

\* The commit's request is there and nobody has answered it.
Filed(id) ==
    LET hash == ValidationHash(id, tasks[id].reasoningHash)
    IN  /\ tasks[id].reasoningHash \in Reasoning
        /\ validations[hash] # NoRequest /\ ~validations[hash].answered

Uncommitted(id) == \A r \in Reasoning : validations[ValidationHash(id, r)] = NoRequest

Linked(id) ==
    /\ tasks[id] = Absent \/ In(id, "Open") => bonds[id] = NoBond /\ Uncommitted(id)
    /\ In(id, "Claimed") => Backed(id) /\ Uncommitted(id)
    /\ In(id, "Committed") => Backed(id) /\ Filed(id)

Links == \A id \in TaskId : Linked(id)

\* Nobody is unregistered.
StillRegistered == \A a \in AgentId : agents[a] # NoOne => agents'[a] # NoOne

\* A step that only looks at another task leaves this one linked.
Apart(id) ==
    /\ tasks'[id] = tasks[id] /\ bonds'[id] = bonds[id]
    /\ \A r \in Reasoning : validations'[<<id, r>>] = validations[<<id, r>>]

LEMMA ApartLinked ==
    ASSUME MirrorInv, StillRegistered, NEW id \in TaskId, Linked(id), Apart(id)
    PROVE  Linked(id)'
<1>1. CASE tasks[id] = Absent \/ In(id, "Open")
  BY <1>1 DEF Linked, Apart, In, Uncommitted, ValidationHash
<1>2. CASE In(id, "Claimed")
  <2>1. tasks[id].agentId \in AgentId
    BY <1>2 DEF MirrorInv, HeldByUsers
  <2> QED BY <1>2, <2>1 DEF Linked, Apart, In, Uncommitted, Backed, ValidationHash, StillRegistered
<1>3. CASE In(id, "Committed")
  <2>1. tasks[id].agentId \in AgentId
    BY <1>3 DEF MirrorInv, HeldByUsers
  <2>2. Backed(id) /\ Filed(id)
    BY <1>3 DEF Linked
  <2>3. Backed(id)'
    BY <2>1, <2>2 DEF Apart, Backed, StillRegistered
  <2>4. Filed(id)'
    BY <2>2 DEF Apart, Filed, ValidationHash
  <2> QED BY <1>3, <2>3, <2>4 DEF Linked, Apart, In
<1>4. CASE tasks[id] # Absent /\ ~In(id, "Open") /\ ~In(id, "Claimed") /\ ~In(id, "Committed")
  BY <1>4 DEF Linked, Apart, In
<1> QED BY <1>1, <1>2, <1>3, <1>4

LEMMA InitLinks == Init => Links
BY DEF Init, Links, Linked, In, Uncommitted, ValidationHash

\* Steps that touch neither tasks nor bonds nor requests.
LEMMA AsideLinks ==
    ASSUME MirrorInv, Links, StillRegistered, UNCHANGED <<tasks, bonds, validations>>
    PROVE  Links'
<1> SUFFICES ASSUME NEW id \in TaskId PROVE Linked(id)'
  BY DEF Links
<1> QED BY ApartLinked DEF Links, Apart

LEMMA PostLinks ==
    ASSUME MirrorInv, Links, NEW u \in User, NEW terms \in Terms, NEW v \in Answer,
           PostTask(u, terms, v)
    PROVE  Links'
<1>1. UNCHANGED <<agents, validations, bonds>>
  BY DEF PostTask, registryVars
<1>2. StillRegistered
  BY <1>1 DEF StillRegistered
<1>3. PICK n : n = nextTask
  OBVIOUS
<1>4. n \in TaskId /\ tasks[n] = Absent
  BY <1>3, MirrorAssumption DEF PostTask, MirrorInv, TypeOK, UnpostedAbsent, TaskId
<1>5. CASE tasks' = tasks
  BY <1>1, <1>2, <1>5, AsideLinks
<1>6. ASSUME NEW t, t.status = "Open", t # Absent, tasks' = [tasks EXCEPT ![n] = t]
      PROVE  Links'
  <2>1. tasks'[n] = t /\ \A j \in TaskId \ {n} : tasks'[j] = tasks[j]
    BY <1>4, <1>6 DEF MirrorInv, TypeOK
  <2>2. \A j \in TaskId \ {n} : Linked(j)'
    BY <1>1, <1>2, <2>1, ApartLinked DEF Links, Apart
  <2>3. Linked(n)'
    BY <1>1, <1>4, <1>6, <2>1 DEF Links, Linked, In, Uncommitted
  <2> QED BY <2>2, <2>3 DEF Links
<1>7. CASE Covers(balances, u, terms.bounty)
  <2>1. PICK t : t = [poster |-> u, bounty |-> terms.bounty, fee |-> terms.fee,
                    slashAmount |-> terms.slashAmount, truthCommit |-> v,
                    status |-> "Open", agentId |-> 0, resolver |-> NoOne,
                    committed |-> "None", reasoningHash |-> NoReasoning,
                    truth |-> "None", correct |-> "None",
                    commitDeadline |-> 0, settleDeadline |-> 0]
    OBVIOUS
  <2>2. tasks' = [tasks EXCEPT ![n] = t]
    BY <1>3, <1>7, <2>1 DEF PostTask
  <2>3. t.status = "Open" /\ t # Absent
    BY <2>1, Places DEF Absent
  <2> QED BY <1>6, <2>2, <2>3
<1>8. CASE ~Covers(balances, u, terms.bounty)
  BY <1>5, <1>8 DEF PostTask
<1> QED BY <1>7, <1>8

\* A step on one task, whose links hold afterwards.
LEMMA OneLinked ==
    ASSUME MirrorInv, Links, StillRegistered, NEW id \in TaskId, Linked(id)',
           \A j \in TaskId \ {id} : Apart(j)
    PROVE  Links'
<1>1. \A j \in TaskId \ {id} : Linked(j)'
  BY ApartLinked DEF Links
<1> QED BY <1>1 DEF Links

\* A claim records the task and the bond together, or neither.
LEMMA ClaimLinks ==
    ASSUME MirrorInv, Links, NEW id \in TaskId, NEW a \in AgentId, NEW p, Paying(id, a, p),
           ClaimTask(id, a, p)
    PROVE  Links'
<1>1. UNCHANGED <<agents, validations>> /\ In(id, "Open") /\ agents[a] = p.from
  BY DEF ClaimTask, registryVars, PaymentMatches
<1>2. StillRegistered
  BY <1>1 DEF StillRegistered
<1>3. CASE ~Covers(balances, p.from, tasks[id].fee)
  <2>1. UNCHANGED <<tasks, bonds>>
    BY <1>3 DEF ClaimTask
  <2> QED BY <1>1, <1>2, <2>1, AsideLinks
<1>4. CASE Covers(balances, p.from, tasks[id].fee)
  <2>1. PICK t, after, b : /\ t = tasks[id]
                           /\ after = [t EXCEPT !.status = "Claimed", !.agentId = a,
                                       !.resolver = p.from, !.commitDeadline = now + CommitWindow]
                           /\ b = [agentId |-> a, depositor |-> p.from, amount |-> t.slashAmount,
                                   closed |-> FALSE, slashed |-> FALSE]
    OBVIOUS
  <2>2. t \in Task /\ t # Absent
    BY <1>1, <2>1, TaskRecord DEF MirrorInv, In
  <2>3. after.status = "Claimed" /\ after.agentId = a /\ after # Absent
    <3>1. after.poster = t.poster /\ t.poster \in User
      BY <2>1, <2>2 DEF Task
    <3> QED BY <2>1, <2>2, <3>1, Places DEF Task, Absent
  <2>4. tasks' = [tasks EXCEPT ![id] = after] /\ bonds' = [bonds EXCEPT ![id] = b]
    BY <1>4, <2>1 DEF ClaimTask, MirrorInv, TypeOK
  <2>5. /\ tasks'[id] = after /\ bonds'[id] = b
        /\ \A j \in TaskId \ {id} : tasks'[j] = tasks[j] /\ bonds'[j] = bonds[j]
    BY <2>4 DEF MirrorInv, TypeOK
  <2>6. b # NoBond /\ ~b.closed /\ ~b.slashed /\ b.agentId = a
    BY <2>1, Places DEF NoBond, Paying
  <2>7. agents[a] # NoOne
    BY <1>1, Places DEF Paying
  <2>8. Uncommitted(id)
    BY <1>1 DEF Links, Linked
  <2>9. Backed(id)' /\ Uncommitted(id)'
    BY <1>1, <2>3, <2>5, <2>6, <2>7, <2>8 DEF Backed, Uncommitted, ValidationHash
  <2>10. Linked(id)'
    BY <2>3, <2>5, <2>9 DEF Linked, In
  <2>11. \A j \in TaskId \ {id} : Apart(j)
    BY <1>1, <2>5 DEF Apart
  <2> QED BY <1>2, <2>10, <2>11, OneLinked
<1> QED BY <1>3, <1>4

LEMMA CommitLinks ==
    ASSUME MirrorInv, Links, NEW u \in User, NEW id \in TaskId, NEW v \in Answer,
           NEW h \in Reasoning, CommitVerdict(u, id, v, h)
    PROVE  Links'
<1>1. UNCHANGED <<agents, bonds>> /\ In(id, "Claimed")
  BY DEF CommitVerdict
<1>2. StillRegistered
  BY <1>1 DEF StillRegistered
<1>3. PICK t, after, q : /\ t = tasks[id]
                         /\ after = [t EXCEPT !.committed = v, !.reasoningHash = h,
                                     !.status = "Committed", !.settleDeadline = now + SettleWindow]
                         /\ q = [agentId |-> t.agentId, answered |-> FALSE, response |-> 0]
  OBVIOUS
<1>4. t \in Task /\ t # Absent /\ t.agentId \in AgentId
  BY <1>1, <1>3, TaskRecord DEF MirrorInv, In, HeldByUsers
<1>5. after.status = "Committed" /\ after.agentId = t.agentId /\ after.reasoningHash = h
      /\ after # Absent
  <2>1. after.poster = t.poster /\ t.poster \in User
    BY <1>3, <1>4 DEF Task
  <2> QED BY <1>3, <1>4, <2>1, Places DEF Task, Absent
<1>6. tasks' = [tasks EXCEPT ![id] = after] /\ validations' = [validations EXCEPT ![<<id, h>>] = q]
  BY <1>3 DEF CommitVerdict, ValidationHash, MirrorInv, TypeOK
<1>7. /\ tasks'[id] = after /\ validations'[<<id, h>>] = q
      /\ \A j \in TaskId \ {id} : tasks'[j] = tasks[j]
      /\ \A j \in TaskId \ {id}, r \in Reasoning : validations'[<<j, r>>] = validations[<<j, r>>]
  BY <1>6 DEF MirrorInv, TypeOK
<1>8. q # NoRequest /\ q.answered = FALSE
  BY <1>3, <1>4 DEF NoRequest
<1>9. Backed(id)
  BY <1>1 DEF Links, Linked
<1>10. Backed(id)' /\ Filed(id)'
  BY <1>1, <1>3, <1>5, <1>7, <1>8, <1>9 DEF Backed, Filed, ValidationHash
<1>11. Linked(id)'
  BY <1>5, <1>7, <1>10 DEF Linked, In
<1>12. \A j \in TaskId \ {id} : Apart(j)
  BY <1>1, <1>7 DEF Apart
<1> QED BY <1>2, <1>11, <1>12, OneLinked

\* What is over needs no links.
LEMMA OverLinks ==
    ASSUME MirrorInv, Links, StillRegistered, NEW id \in TaskId, tasks'[id] # Absent,
           tasks'[id].status \in {"Cancelled", "Settled"}, \A j \in TaskId \ {id} : Apart(j)
    PROVE  Links'
<1>1. Linked(id)'
  BY DEF Linked, In
<1> QED BY <1>1, OneLinked

LEMMA CancelLinks ==
    ASSUME MirrorInv, Links, NEW u \in User, NEW id \in TaskId, CancelTask(u, id)
    PROVE  Links'
<1>1. UNCHANGED <<agents, bonds, validations>> /\ In(id, "Open")
  BY DEF CancelTask, registryVars
<1>2. StillRegistered
  BY <1>1 DEF StillRegistered
<1>3. PICK t, after : t = tasks[id] /\ after = [t EXCEPT !.status = "Cancelled"]
  OBVIOUS
<1>4. t \in Task
  BY <1>1, <1>3, TaskRecord DEF MirrorInv, In
<1>5. after \in Task /\ after.status = "Cancelled" /\ after # Absent
  BY <1>3, <1>4, TaskIsPresent DEF Task
<1>6. tasks' = [tasks EXCEPT ![id] = after]
  BY <1>3 DEF CancelTask, MirrorInv, TypeOK
<1>7. tasks'[id] = after /\ \A j \in TaskId \ {id} : tasks'[j] = tasks[j]
  BY <1>6 DEF MirrorInv, TypeOK
<1> QED BY <1>1, <1>2, <1>5, <1>7, OverLinks DEF Apart

LEMMA EndLinks ==
    ASSUME MirrorInv, Links, NEW id \in TaskId, NEW how, NEW ended \in Task,
           ended.status = "Settled", End(id, how, ended)
    PROVE  Links'
<1>1. PICK hash : hash = ValidationHash(id, tasks[id].reasoningHash)
  OBVIOUS
<1>2. /\ UNCHANGED agents /\ tasks' = [tasks EXCEPT ![id] = ended] /\ bonds' = Closed(id, how)
      /\ \/ validations' = [validations EXCEPT ![hash].answered = TRUE,
                                               ![hash].response = Score(how)]
         \/ validations' = validations
  BY <1>1 DEF End
<1>3. StillRegistered
  BY <1>2 DEF StillRegistered
<1>4. ended # Absent
  BY TaskIsPresent
<1>5. tasks'[id] = ended /\ \A j \in TaskId \ {id} : tasks'[j] = tasks[j] /\ bonds'[j] = bonds[j]
  BY <1>2 DEF MirrorInv, TypeOK, Closed
<1>6. \A j \in TaskId \ {id}, r \in Reasoning : validations'[<<j, r>>] = validations[<<j, r>>]
  BY <1>1, <1>2 DEF MirrorInv, TypeOK, ValidationHash
<1> QED BY <1>3, <1>4, <1>5, <1>6, OverLinks DEF Apart

LEMMA NextLinks ==
    ASSUME MirrorInv, Links, [Next]_vars
    PROVE  Links'
<1>1. ASSUME NEW u \in User, NEW v \in Mints, Mint(u, v)
      PROVE  Links'
  BY <1>1, AsideLinks DEF Mint, registryVars, arenaVars, StillRegistered
<1>2. ASSUME NEW u \in User, NEW a \in AgentId, Register(u, a) \/ TransferAgent(a, u)
      PROVE  Links'
  <2>1. agents \in [AgentId -> User \cup {NoOne}] /\ agents' = [agents EXCEPT ![a] = u]
        /\ UNCHANGED <<tasks, bonds, validations>>
    BY <1>2 DEF Register, TransferAgent, arenaVars, MirrorInv, TypeOK
  <2>2. StillRegistered
    BY <2>1, Places DEF StillRegistered
  <2> QED BY <2>1, <2>2, AsideLinks
<1>3. ASSUME NEW a \in AgentId, NEW u \in AgentBuyers, TransferAgent(a, u)
      PROVE  Links'
  BY <1>2, <1>3, MirrorAssumption
<1>4. ASSUME NEW u \in User, NEW terms \in Terms, NEW v \in Answer, PostTask(u, terms, v)
      PROVE  Links'
  BY <1>4, PostLinks
<1>5. ASSUME NEW u \in User, NEW id \in TaskId, NEW a \in AgentId,
             NEW v \in {tasks[id].fee} \cup OtherValues, Sign(u, id, a, v)
      PROVE  Links'
  BY <1>5, AsideLinks DEF Sign, registryVars, arenaVars, StillRegistered
<1>6. ASSUME NEW u \in User, NEW id \in TaskId, NEW a \in AgentId,
             NEW p \in signed \cup {Unsigned(u, id, a)}, ClaimTask(id, a, p)
      PROVE  Links'
  <2>1. Paying(id, a, p)
    BY <1>6, PaymentsArePayers DEF MirrorInv
  <2> QED BY <1>6, <2>1, ClaimLinks
<1>7. ASSUME NEW u \in User, NEW id \in TaskId, NEW v \in Answer, NEW h \in Reasoning,
             CommitVerdict(u, id, v, h)
      PROVE  Links'
  BY <1>7, CommitLinks
<1>8. ASSUME NEW u \in User, NEW id \in TaskId, NEW v \in Answer, Settle(u, id, v)
      PROVE  Links'
  <2>1. PICK how, ended, c : /\ ended = [tasks[id] EXCEPT !.status = "Settled", !.truth = v,
                                                          !.correct = c]
                             /\ c \in {"True", "False"} /\ End(id, how, ended)
    BY <1>8 DEF Settle
  <2>2. tasks[id] \in Task
    BY <1>8, TaskRecord DEF Settle, MirrorInv, In
  <2>3. ended \in Task /\ ended.status = "Settled"
    BY <2>1, <2>2 DEF Task
  <2> QED BY <2>1, <2>3, EndLinks
<1>9. ASSUME NEW id \in TaskId, TimeoutCommit(id) \/ TimeoutSettle(id)
      PROVE  Links'
  <2>1. PICK how, ended : /\ ended = [tasks[id] EXCEPT !.status = "Settled"]
                          /\ End(id, how, ended)
    BY <1>9 DEF TimeoutCommit, TimeoutSettle
  <2>2. tasks[id] \in Task
    BY <1>9, TaskRecord DEF TimeoutCommit, TimeoutSettle, MirrorInv, In
  <2>3. ended \in Task /\ ended.status = "Settled"
    BY <2>1, <2>2 DEF Task
  <2> QED BY <2>1, <2>3, EndLinks
<1>10. ASSUME NEW u \in User, NEW id \in TaskId, CancelTask(u, id)
       PROVE  Links'
  BY <1>10, CancelLinks
<1>11. ASSUME NEW u \in User, Withdraw(u)
       PROVE  Links'
  BY <1>11, AsideLinks DEF Withdraw, registryVars, StillRegistered
<1>12. CASE Advance
  BY <1>12, AsideLinks DEF Advance, registryVars, arenaVars, StillRegistered
<1>13. CASE UNCHANGED vars
  BY <1>13, AsideLinks DEF vars, registryVars, arenaVars, StillRegistered
<1> QED BY <1>1, <1>2, <1>3, <1>4, <1>5, <1>6, <1>7, <1>8, <1>9, <1>10, <1>11, <1>12, <1>13 DEF Next

LEMMA AlwaysLinks == Spec => [](MirrorInv /\ Links)
<1>1. MirrorInv /\ Links /\ [Next]_vars => MirrorInv' /\ Links'
  BY NextMirror, NextLinks
<1> QED BY InitMirror, InitLinks, <1>1, PTL DEF Spec

-----------------------------------------------------------------------------
(* The object's state as the contracts would hold it. *)

CBond(b) ==
    IF b = NoBond
    THEN [agentId |-> 0, depositor |-> NoOne, amount |-> 0, closed |-> FALSE]
    ELSE [agentId |-> b.agentId, depositor |-> b.depositor, amount |-> b.amount,
          closed |-> b.closed]

CRequest(q) ==
    IF q = NoRequest
    THEN [validator |-> NoOne, agentId |-> 0, answered |-> FALSE, response |-> 0]
    ELSE [validator |-> Arena, agentId |-> q.agentId, answered |-> q.answered,
          response |-> q.response]

CTask(t) ==
    IF t = Absent
    THEN [poster |-> NoOne, bounty |-> 0, fee |-> 0, slashAmount |-> 0,
          truthCommit |-> "Junk", status |-> "Open", agentId |-> 0,
          resolver |-> NoOne, committed |-> "None", reasoningHash |-> NoReasoning,
          truth |-> "None", correct |-> FALSE,
          commitDeadline |-> 0, settleDeadline |-> 0]
    ELSE [t EXCEPT !.correct = (@ = "True")]

\* What such records are, of whichever task or bond.
CBondRecord == [agentId : AgentId, depositor : User, amount : Nat, closed : BOOLEAN]
CTaskRecord ==
    [poster : User \cup {NoOne}, bounty : Nat, fee : Nat, slashAmount : Nat,
     truthCommit : Answer \cup {"Junk"}, status : Held \cup {"Open", "Settled", "Cancelled"},
     agentId : {0} \cup AgentId, resolver : User \cup {NoOne},
     committed : Answer \cup {"None"}, reasoningHash : Reasoning \cup {NoReasoning},
     truth : Answer \cup {"None"}, correct : BOOLEAN,
     commitDeadline : Nat, settleDeadline : Nat]

LEMMA SameRecord ==
    ASSUME NEW x \in CTaskRecord, NEW y \in CTaskRecord,
           x.poster = y.poster, x.bounty = y.bounty, x.fee = y.fee, x.slashAmount = y.slashAmount,
           x.truthCommit = y.truthCommit, x.status = y.status, x.agentId = y.agentId,
           x.resolver = y.resolver, x.committed = y.committed, x.reasoningHash = y.reasoningHash,
           x.truth = y.truth, x.correct = y.correct, x.commitDeadline = y.commitDeadline,
           x.settleDeadline = y.settleDeadline
    PROVE  x = y
BY DEF CTaskRecord

Shown(t, x) ==
    /\ x.poster = t.poster /\ x.bounty = t.bounty /\ x.fee = t.fee
    /\ x.slashAmount = t.slashAmount /\ x.truthCommit = t.truthCommit
    /\ x.status = t.status /\ x.agentId = t.agentId /\ x.resolver = t.resolver
    /\ x.committed = t.committed /\ x.reasoningHash = t.reasoningHash
    /\ x.truth = t.truth /\ x.correct = (t.correct = "True")
    /\ x.commitDeadline = t.commitDeadline /\ x.settleDeadline = t.settleDeadline

LEMMA CTaskShown ==
    ASSUME NEW t \in Task PROVE CTask(t) \in CTaskRecord /\ Shown(t, CTask(t))
<1>1. PICK x : x = CTask(t)
  OBVIOUS
<1>2. x = [t EXCEPT !.correct = (t.correct = "True")]
  BY <1>1, TaskIsPresent DEF CTask
<1>3. x \in CTaskRecord
  BY <1>2, ZenonT(20) DEF Task, CTaskRecord
<1>4. Shown(t, x)
  BY <1>2 DEF Task, Shown
<1> QED BY <1>1, <1>3, <1>4

LEMMA ShownOnce ==
    ASSUME NEW t, NEW x \in CTaskRecord, NEW y \in CTaskRecord, Shown(t, x), Shown(t, y)
    PROVE  x = y
BY SameRecord DEF Shown

CAllowance == [o \in Address |-> [s \in Address |->
                  IF o \in User /\ s \in {Arena, Vault} THEN MaxUint256 ELSE 0]]
COperator == [o \in {Arena} |-> TRUE]
CBonds == [id \in TaskId |-> CBond(bonds[id])]
CStake == [a \in AgentId |-> StakeOf(a)]
CSlashed == [a \in AgentId |-> SlashedOf(a)]
CValidations == [hash \in TaskId \X Reasoning |-> CRequest(validations[hash])]
CTasks == [id \in TaskId |-> CTask(tasks[id])]

LEMMA VaultSame == UNCHANGED bonds => UNCHANGED Contracts!vaultVars
BY DEF Contracts!vaultVars, StakeOf, SlashedOf, OpenBond

LEMMA RegistriesSame == UNCHANGED <<feedback, validations>> => UNCHANGED Contracts!registryVars
BY DEF Contracts!registryVars

LEMMA ArenaSame == UNCHANGED <<tasks, nextTask, credits>> => UNCHANGED Contracts!arenaVars
BY DEF Contracts!arenaVars

LEMMA TokenSame == UNCHANGED <<balances, authorizations>> => UNCHANGED Contracts!tokenVars
BY DEF Contracts!tokenVars

LEMMA TaskMap ==
    ASSUME TypeOK, NEW id \in TaskId, NEW t, tasks' = [tasks EXCEPT ![id] = t]
    PROVE  CTasks' = [CTasks EXCEPT ![id] = CTask(t)]
BY DEF CTasks, TypeOK

LEMMA TaskSeen ==
    ASSUME TypeOK, NEW id \in TaskId, tasks[id] # Absent
    PROVE  /\ CTasks[id] = [tasks[id] EXCEPT !.correct = (tasks[id].correct = "True")]
           /\ CTasks[id].poster # NoOne /\ CTasks[id].poster = tasks[id].poster
           /\ CTasks[id].status = tasks[id].status
           /\ CTasks[id].fee = tasks[id].fee
           /\ CTasks[id].bounty = tasks[id].bounty
BY TaskRecord, Places DEF CTasks, CTask, Task

LEMMA SeenIn ==
    ASSUME TypeOK, NEW id \in TaskId, NEW s, In(id, s)
    PROVE  Contracts!In(id, s)
<1>1. CTasks[id].poster # NoOne /\ CTasks[id].status = s
  BY TaskSeen DEF In
<1> QED BY <1>1 DEF Contracts!In, Contracts!Known, CTasks, CTask

LEMMA CancelIs ==
    ASSUME MirrorInv, NEW u \in User, NEW id \in TaskId, CancelTask(u, id)
    PROVE  Contracts!CancelTask(u, id)
<1>1. PICK t, after : t = tasks[id] /\ after = [t EXCEPT !.status = "Cancelled"]
  OBVIOUS
<1>2. In(id, "Open") /\ t \in Task /\ t # Absent /\ TypeOK
  BY <1>1, TaskRecord DEF CancelTask, MirrorInv, In
<1>3. after \in Task /\ after # Absent
  BY <1>1, <1>2, TaskIsPresent DEF Task
<1>4. tasks' = [tasks EXCEPT ![id] = after]
  BY <1>1, <1>2 DEF CancelTask, TypeOK
<1>5. Contracts!In(id, "Open")
  BY <1>2, SeenIn
<1>6. u = CTasks[id].poster /\ credits' = Credited(credits, u, CTasks[id].bounty)
  BY <1>1, <1>2, TaskSeen DEF CancelTask
<1>7. CTasks' = [CTasks EXCEPT ![id].status = "Cancelled"]
  <2>1. CTask(after) = [CTask(t) EXCEPT !.status = "Cancelled"]
    BY <1>1, <1>2, <1>3, ZenonT(20) DEF CTask, Task
  <2>2. CTasks[id] = CTask(t)
    BY <1>1 DEF CTasks
  <2>3. CTasks' = [CTasks EXCEPT ![id] = CTask(after)]
    BY <1>2, <1>4, TaskMap
  <2> QED BY <2>1, <2>2, <2>3
<1>8. UNCHANGED <<now, balances, authorizations, signed, agents, Contracts!registryVars,
                  Contracts!vaultVars, nextTask>>
  BY VaultSame, RegistriesSame DEF CancelTask, tokenVars, registryVars
<1> QED BY <1>5, <1>6, <1>7, <1>8
        DEF Contracts!CancelTask, Contracts!Credited, Credited, Contracts!tokenVars, CTasks, CTask

-----------------------------------------------------------------------------
(* What the vault has booked, as sums over all tasks. *)

OwnStake(agent, b) == IF OfAgent(agent, b) /\ ~b.closed THEN b.amount ELSE 0
OwnSlash(agent, b) == IF OfAgent(agent, b) /\ b.slashed THEN b.amount ELSE 0

LEMMA OwnTypes ==
    ASSUME NEW agent, NEW b \in Bond \cup {NoBond}
    PROVE  OwnStake(agent, b) \in Nat /\ OwnSlash(agent, b) \in Nat
BY DEF OwnStake, OwnSlash, OfAgent, Bond

\* Members without an amount do not count.
LEMMA TotalOfSome ==
    ASSUME NEW f, NEW g, NEW S, NEW T, IsFiniteSet(S), T \subseteq S, Amounts(g, S),
           AgreeOn(f, g, T), \A x \in S \ T : g[x] = 0
    PROVE  Total(f, T) = Total(g, S)
<1>1. IsFiniteSet(T) /\ IsFiniteSet(S \ T) /\ T \cap (S \ T) = {} /\ T \cup (S \ T) = S
  BY FS_Subset
<1>2. Amounts(g, T) /\ Amounts(g, S \ T)
  BY DEF Amounts
<1>3. Total(g, T \cup (S \ T)) = Total(g, T) + Total(g, S \ T)
  BY <1>1, <1>2, TotalUnion
<1>4. Total(g, S \ T) = 0
  BY TotalZero
<1>5. Total(g, T) = Total(f, T)
  BY TotalSame DEF AgreeOn
<1>6. Total(g, T) \in Nat
  BY <1>1, <1>2, TotalType
<1>7. Total(g, S) = Total(g, T) + Total(g, S \ T)
  BY <1>1, <1>3
<1> QED BY <1>4, <1>5, <1>6, <1>7

Stakes(agent) == [id \in TaskId |-> OwnStake(agent, bonds[id])]
Slashes(agent) == [id \in TaskId |-> OwnSlash(agent, bonds[id])]

LEMMA BookedTypes ==
    ASSUME TypeOK, NEW agent
    PROVE  Amounts(Stakes(agent), TaskId) /\ Amounts(Slashes(agent), TaskId)
BY OwnTypes DEF Amounts, Stakes, Slashes, TypeOK

LEMMA BookedSums ==
    ASSUME TypeOK, NEW agent
    PROVE  /\ StakeOf(agent) = Total(Stakes(agent), TaskId)
           /\ SlashedOf(agent) = Total(Slashes(agent), TaskId)
<1>1. Amounts(Stakes(agent), TaskId) /\ Amounts(Slashes(agent), TaskId)
  BY BookedTypes
<1>2. StakeOf(agent) = Total(Stakes(agent), TaskId)
  <2>1. PICK own, f : own = {id \in TaskId : OfAgent(agent, bonds[id])}
                      /\ f = [id \in own |-> OpenBond(id)]
    OBVIOUS
  <2>2. AgreeOn(f, Stakes(agent), own)
    BY <2>1 DEF AgreeOn, Stakes, OwnStake, OpenBond, OfAgent
  <2>3. own \subseteq TaskId /\ \A id \in TaskId \ own : Stakes(agent)[id] = 0
    BY <2>1 DEF Stakes, OwnStake
  <2>4. Total(f, own) = Total(Stakes(agent), TaskId)
    BY <1>1, <2>2, <2>3, FiniteSums, TotalOfSome
  <2> QED BY <2>1, <2>4 DEF StakeOf
<1>3. SlashedOf(agent) = Total(Slashes(agent), TaskId)
  <2>1. PICK lost, f : lost = {id \in TaskId : OfAgent(agent, bonds[id]) /\ bonds[id].slashed}
                       /\ f = [id \in lost |-> bonds[id].amount]
    OBVIOUS
  <2>2. AgreeOn(f, Slashes(agent), lost)
    BY <2>1 DEF AgreeOn, Slashes, OwnSlash
  <2>3. lost \subseteq TaskId /\ \A id \in TaskId \ lost : Slashes(agent)[id] = 0
    BY <2>1 DEF Slashes, OwnSlash
  <2>4. Total(f, lost) = Total(Slashes(agent), TaskId)
    BY <1>1, <2>2, <2>3, FiniteSums, TotalOfSome
  <2> QED BY <2>1, <2>4 DEF SlashedOf
<1> QED BY <1>2, <1>3

Booked(agent) ==
    /\ StakeOf(agent) = Total(Stakes(agent), TaskId)
    /\ SlashedOf(agent) = Total(Slashes(agent), TaskId)
    /\ Amounts(Stakes(agent), TaskId) /\ Amounts(Slashes(agent), TaskId)

LEMMA BooksAdd == TypeOK => \A agent \in AgentId : Booked(agent)
BY BookedSums, BookedTypes DEF Booked

LEMMA BooksAddNext == TypeOK' => \A agent \in AgentId : Booked(agent)'
<1>1. (TypeOK => \A agent \in AgentId : Booked(agent))'
  BY BooksAdd, PTL
<1> QED BY <1>1

\* One bond changes an agent's books by what it is worth there.
LEMMA BookChange ==
    ASSUME TypeOK, TypeOK', NEW CONSTANT agent \in AgentId, NEW id \in TaskId,
           \A j \in TaskId \ {id} : bonds'[j] = bonds[j]
    PROVE  /\ StakeOf(agent)' = StakeOf(agent) - OwnStake(agent, bonds[id]) + OwnStake(agent, bonds'[id])
           /\ SlashedOf(agent)' = SlashedOf(agent) - OwnSlash(agent, bonds[id]) + OwnSlash(agent, bonds'[id])
           /\ StakeOf(agent) \in Nat /\ SlashedOf(agent) \in Nat
           /\ StakeOf(agent) >= OwnStake(agent, bonds[id])
<1>1. PICK f, g, m, n : /\ f = Stakes(agent) /\ g = Stakes(agent)'
                        /\ m = Slashes(agent) /\ n = Slashes(agent)'
  OBVIOUS
<1>2. /\ Amounts(f, TaskId) /\ Amounts(g, TaskId) /\ Amounts(m, TaskId) /\ Amounts(n, TaskId)
      /\ StakeOf(agent) = Total(f, TaskId) /\ StakeOf(agent)' = Total(g, TaskId)
      /\ SlashedOf(agent) = Total(m, TaskId) /\ SlashedOf(agent)' = Total(n, TaskId)
  BY <1>1, BooksAdd, BooksAddNext DEF Booked
<1>3. AgreeOff(f, g, TaskId, id) /\ AgreeOff(m, n, TaskId, id)
  BY <1>1 DEF AgreeOff, Stakes, Slashes
<1>4. /\ f[id] = OwnStake(agent, bonds[id]) /\ g[id] = OwnStake(agent, bonds'[id])
      /\ m[id] = OwnSlash(agent, bonds[id]) /\ n[id] = OwnSlash(agent, bonds'[id])
  BY <1>1 DEF Stakes, Slashes, OwnStake, OwnSlash, OfAgent
<1>5. Total(g, TaskId) = Total(f, TaskId) - f[id] + g[id] /\ Total(f, TaskId) \in Nat
  BY <1>2, <1>3, FiniteSums, TotalUpdate
<1>6. Total(n, TaskId) = Total(m, TaskId) - m[id] + n[id] /\ Total(m, TaskId) \in Nat
  BY <1>2, <1>3, FiniteSums, TotalUpdate
<1>7. f[id] <= Total(f, TaskId)
  BY <1>2, FiniteSums, TotalBounds
<1> QED BY <1>2, <1>4, <1>5, <1>6, <1>7

LEMMA BondMap ==
    ASSUME TypeOK, NEW id \in TaskId, NEW b, bonds' = [bonds EXCEPT ![id] = b]
    PROVE  /\ CBonds' = [CBonds EXCEPT ![id] = CBond(b)]
           /\ bonds'[id] = b /\ \A j \in TaskId \ {id} : bonds'[j] = bonds[j]
BY DEF CBonds, TypeOK

\* A new bond is booked for its agent.
LEMMA BondOpens ==
    ASSUME TypeOK, TypeOK', NEW id \in TaskId, bonds[id] = NoBond, NEW b \in Bond,
           ~b.closed, ~b.slashed, bonds' = [bonds EXCEPT ![id] = b]
    PROVE  /\ CStake' = [CStake EXCEPT ![b.agentId] = @ + b.amount]
           /\ UNCHANGED CSlashed
<1>1. bonds'[id] = b /\ \A j \in TaskId \ {id} : bonds'[j] = bonds[j]
  BY BondMap
<1>2. b # NoBond /\ b.agentId \in AgentId /\ b.amount \in Nat
  BY Places DEF Bond, NoBond
<1>3. \A agent \in AgentId :
          /\ StakeOf(agent)' = StakeOf(agent) + (IF agent = b.agentId THEN b.amount ELSE 0)
          /\ SlashedOf(agent)' = SlashedOf(agent)
  <2> SUFFICES ASSUME NEW agent \in AgentId
               PROVE  /\ StakeOf(agent)' = StakeOf(agent) + (IF agent = b.agentId THEN b.amount ELSE 0)
                      /\ SlashedOf(agent)' = SlashedOf(agent)
    OBVIOUS
  <2>1. /\ OwnStake(agent, bonds[id]) = 0 /\ OwnSlash(agent, bonds[id]) = 0
        /\ OwnStake(agent, bonds'[id]) = IF agent = b.agentId THEN b.amount ELSE 0
        /\ OwnSlash(agent, bonds'[id]) = 0
    BY <1>1, <1>2 DEF OwnStake, OwnSlash, OfAgent
  <2>2. /\ StakeOf(agent)' = StakeOf(agent) - OwnStake(agent, bonds[id]) + OwnStake(agent, bonds'[id])
        /\ SlashedOf(agent)' = SlashedOf(agent) - OwnSlash(agent, bonds[id]) + OwnSlash(agent, bonds'[id])
        /\ StakeOf(agent) \in Nat /\ SlashedOf(agent) \in Nat
    BY <1>1, BookChange
  <2> QED BY <1>2, <2>1, <2>2
<1>4. \A agent \in AgentId : StakeOf(agent) \in Nat
  BY <1>1, BookChange
<1>5. \A agent \in AgentId : CStake[agent] = StakeOf(agent)
  BY DEF CStake
<1>6. CStake' = [agent \in AgentId |-> StakeOf(agent)'] /\ CSlashed' = [agent \in AgentId |-> SlashedOf(agent)']
  BY DEF CStake, CSlashed
<1>7. CStake' = [CStake EXCEPT ![b.agentId] = @ + b.amount]
  <2>1. \A agent \in AgentId : StakeOf(agent)' = [CStake EXCEPT ![b.agentId] = @ + b.amount][agent]
    BY <1>2, <1>3, <1>4, <1>5 DEF CStake
  <2> QED BY <1>6, <2>1 DEF CStake
<1>8. UNCHANGED CSlashed
  BY <1>3, <1>6 DEF CSlashed
<1> QED BY <1>7, <1>8

\* A closed bond leaves the agent's stake; a slashed one is remembered.
LEMMA BondCloses ==
    ASSUME TypeOK, TypeOK', NEW id \in TaskId, bonds[id] # NoBond, ~bonds[id].closed,
           ~bonds[id].slashed, NEW how \in Endings, bonds' = Closed(id, how),
           NEW b, b = bonds[id]
    PROVE  /\ b \in Bond /\ CBonds[id] = CBond(b)
           /\ CBonds' = [CBonds EXCEPT ![id].closed = TRUE]
           /\ CStake[b.agentId] >= b.amount
           /\ CStake' = [CStake EXCEPT ![b.agentId] = @ - b.amount]
           /\ CSlashed' = IF how = "wrong" THEN [CSlashed EXCEPT ![b.agentId] = @ + b.amount]
                                           ELSE CSlashed
<1>1. PICK c : c = [b EXCEPT !.closed = TRUE, !.slashed = (how = "wrong")]
  OBVIOUS
<1>2. b \in Bond /\ b # NoBond
  BY DEF TypeOK
<1>3. /\ c \in Bond /\ c # NoBond /\ c.closed = TRUE /\ c.slashed = (how = "wrong")
      /\ c.agentId = b.agentId /\ c.amount = b.amount /\ c.depositor = b.depositor
  <2>1. c \in Bond /\ c.depositor = b.depositor /\ b.depositor \in User
    BY <1>1, <1>2 DEF Bond
  <2>2. c # NoBond
    BY <2>1, Places DEF NoBond
  <2> QED BY <1>1, <1>2, <2>1, <2>2 DEF Bond
<1>4. bonds' = [bonds EXCEPT ![id] = c]
  BY <1>1 DEF Closed, TypeOK
<1>5. /\ CBonds' = [CBonds EXCEPT ![id] = CBond(c)]
      /\ bonds'[id] = c /\ \A j \in TaskId \ {id} : bonds'[j] = bonds[j]
  BY <1>4, BondMap
<1>6. CBonds[id] = CBond(b)
  BY DEF CBonds
<1>7. CBonds' = [CBonds EXCEPT ![id].closed = TRUE]
  <2>1. CBond(c) = [agentId |-> b.agentId, depositor |-> b.depositor, amount |-> b.amount,
                    closed |-> TRUE]
    BY <1>3 DEF CBond
  <2>2. CBond(b) = [agentId |-> b.agentId, depositor |-> b.depositor, amount |-> b.amount,
                    closed |-> b.closed]
    BY <1>2 DEF CBond
  <2>3. PICK x, y : x = CBond(b) /\ y = CBond(c)
    OBVIOUS
  <2>4. x \in CBondRecord /\ y \in CBondRecord
    BY <1>2, <2>1, <2>2, <2>3 DEF CBondRecord, Bond
  <2>5. PICK z : z = [x EXCEPT !.closed = TRUE]
    OBVIOUS
  <2>6. /\ z \in CBondRecord /\ z.agentId = x.agentId /\ z.depositor = x.depositor
        /\ z.amount = x.amount /\ z.closed = TRUE
    BY <2>4, <2>5 DEF CBondRecord
  <2>7. y = z
    BY <2>1, <2>2, <2>3, <2>4, <2>6 DEF CBondRecord
  <2> QED BY <1>5, <1>6, <2>3, <2>5, <2>7
<1>8. b.agentId \in AgentId /\ b.amount \in Nat
  BY <1>2 DEF Bond
<1>9. \A agent \in AgentId :
          /\ StakeOf(agent)' = StakeOf(agent) - (IF agent = b.agentId THEN b.amount ELSE 0)
          /\ SlashedOf(agent)' =
                 SlashedOf(agent) + (IF agent = b.agentId /\ how = "wrong" THEN b.amount ELSE 0)
          /\ StakeOf(agent) \in Nat /\ SlashedOf(agent) \in Nat
          /\ agent = b.agentId => StakeOf(agent) >= b.amount
  <2> SUFFICES ASSUME NEW agent \in AgentId
               PROVE  /\ StakeOf(agent)' = StakeOf(agent) - (IF agent = b.agentId THEN b.amount ELSE 0)
                      /\ SlashedOf(agent)' =
                             SlashedOf(agent) + (IF agent = b.agentId /\ how = "wrong" THEN b.amount ELSE 0)
                      /\ StakeOf(agent) \in Nat /\ SlashedOf(agent) \in Nat
                      /\ agent = b.agentId => StakeOf(agent) >= b.amount
    OBVIOUS
  <2>1. /\ OwnStake(agent, b) = (IF agent = b.agentId THEN b.amount ELSE 0)
        /\ OwnSlash(agent, b) = 0
        /\ OwnStake(agent, c) = 0
        /\ OwnSlash(agent, c) = (IF agent = b.agentId /\ how = "wrong" THEN b.amount ELSE 0)
    BY <1>2, <1>3 DEF OwnStake, OwnSlash, OfAgent
  <2>2. /\ StakeOf(agent)' = StakeOf(agent) - OwnStake(agent, b) + OwnStake(agent, c)
        /\ SlashedOf(agent)' = SlashedOf(agent) - OwnSlash(agent, b) + OwnSlash(agent, c)
        /\ StakeOf(agent) \in Nat /\ SlashedOf(agent) \in Nat
        /\ StakeOf(agent) >= OwnStake(agent, b)
    BY <1>5, BookChange
  <2> QED BY <1>8, <2>1, <2>2
<1>10. \A agent \in AgentId : CStake[agent] = StakeOf(agent) /\ CSlashed[agent] = SlashedOf(agent)
  BY DEF CStake, CSlashed
<1>11. CStake' = [agent \in AgentId |-> StakeOf(agent)'] /\ CSlashed' = [agent \in AgentId |-> SlashedOf(agent)']
  BY DEF CStake, CSlashed
<1>12. CStake' = [CStake EXCEPT ![b.agentId] = @ - b.amount]
  <2>1. \A agent \in AgentId : StakeOf(agent)' = [CStake EXCEPT ![b.agentId] = @ - b.amount][agent]
    BY <1>8, <1>9, <1>10 DEF CStake
  <2> QED BY <1>11, <2>1 DEF CStake
<1>13. CSlashed' = IF how = "wrong" THEN [CSlashed EXCEPT ![b.agentId] = @ + b.amount] ELSE CSlashed
  <2>1. CASE how = "wrong"
    <3>1. \A agent \in AgentId : SlashedOf(agent)' = [CSlashed EXCEPT ![b.agentId] = @ + b.amount][agent]
      BY <1>8, <1>9, <1>10, <2>1 DEF CSlashed
    <3> QED BY <1>11, <2>1, <3>1 DEF CSlashed
  <2>2. CASE how # "wrong"
    <3>1. \A agent \in AgentId : SlashedOf(agent)' = SlashedOf(agent)
      BY <1>9, <2>2
    <3> QED BY <1>11, <2>2, <3>1 DEF CSlashed
  <2> QED BY <2>1, <2>2
<1> QED BY <1>2, <1>6, <1>7, <1>8, <1>9, <1>10, <1>12, <1>13

-----------------------------------------------------------------------------
(* Each call that returns is the contracts'. *)

\* A task asks for the collateral of some terms on offer.
Offers == \A id \in TaskId :
    tasks[id] # Absent => \E terms \in Terms : tasks[id].slashAmount = terms.slashAmount

\* The contracts' amounts are wide enough for what is offered on the market.
WithinWidth == Terms \subseteq [bounty : 0..MaxUint256, fee : 0..MaxUint256,
                                slashAmount : 0..MaxUint256]

LEMMA Approved ==
    ASSUME NEW u \in User, NEW s \in {Arena, Vault}, NEW v \in 0..MaxUint256
    PROVE  /\ Contracts!Token!Allows(CAllowance, u, s, v)
           /\ Contracts!Token!Spent(CAllowance, u, s, v) = CAllowance
           /\ Contracts!StakeVault!Token!Allows(CAllowance, u, s, v)
           /\ Contracts!StakeVault!Token!Spent(CAllowance, u, s, v) = CAllowance
<1>1. CAllowance[u][s] = MaxUint256 /\ MaxUint256 >= v
  BY Places, MirrorAssumption DEF CAllowance
<1> QED BY <1>1 DEF Contracts!Token!Allows, Contracts!Token!Spent,
                    Contracts!StakeVault!Token!Allows, Contracts!StakeVault!Token!Spent

LEMMA PostIs ==
    ASSUME WithinWidth, MirrorInv, NEW u \in User, NEW terms \in Terms, NEW v \in Answer,
           PostTask(u, terms, v), UNCHANGED raised
    PROVE  Contracts!PostTask(u, terms, v)
<1>1. PICK n, t : /\ n = nextTask
                  /\ t = [poster |-> u, bounty |-> terms.bounty, fee |-> terms.fee,
                          slashAmount |-> terms.slashAmount, truthCommit |-> v,
                          status |-> "Open", agentId |-> 0, resolver |-> NoOne,
                          committed |-> "None", reasoningHash |-> NoReasoning,
                          truth |-> "None", correct |-> "None",
                          commitDeadline |-> 0, settleDeadline |-> 0]
  OBVIOUS
<1>2. TypeOK /\ n \in TaskId /\ n <= MaxTask /\ raised # raised + 1
  <2>1. TypeOK /\ nextTask \in 1..(MaxTask + 1) /\ nextTask <= MaxTask /\ raised \in 0..MaxRaised
        /\ MaxTask \in Nat /\ MaxRaised \in Nat
    BY MirrorAssumption DEF PostTask, MirrorInv, TypeOK
  <2> QED BY <1>1, <2>1 DEF TaskId
<1>3. Covers(balances, u, terms.bounty)
  BY <1>2 DEF PostTask, Raise
<1>4. /\ balances' = Moved(balances, u, Arena, terms.bounty) /\ tasks' = [tasks EXCEPT ![n] = t]
      /\ nextTask' = n + 1
      /\ UNCHANGED <<now, authorizations, signed, agents, feedback, validations, bonds, credits>>
  BY <1>1, <1>3 DEF PostTask, registryVars
<1>5. CTasks' = [CTasks EXCEPT ![n] = CTask(t)]
  BY <1>2, <1>4, TaskMap
<1>6. CTask(t) = [Contracts!NoTask EXCEPT !.poster = u, !.bounty = terms.bounty, !.fee = terms.fee,
                          !.slashAmount = terms.slashAmount, !.truthCommit = v, !.status = "Open"]
  <2>1. t \in Task /\ t # Absent /\ t.correct = "None"
    <3>1. terms.bounty \in Nat /\ terms.fee \in Nat /\ terms.slashAmount \in Nat
      BY MirrorAssumption
    <3>2. t \in Task /\ t.correct = "None"
      BY <1>1, <3>1 DEF Task
    <3> QED BY <3>2, TaskIsPresent
  <2>3. PICK none, made, c : /\ none = Contracts!NoTask /\ c = CTask(t)
                             /\ made = [none EXCEPT !.poster = u, !.bounty = terms.bounty,
                                   !.fee = terms.fee, !.slashAmount = terms.slashAmount,
                                   !.truthCommit = v, !.status = "Open"]
    OBVIOUS
  <2>4. none \in CTaskRecord
    BY <2>3 DEF Contracts!NoTask, CTaskRecord
  <2>5. made \in CTaskRecord
    <3>1. terms.bounty \in Nat /\ terms.fee \in Nat /\ terms.slashAmount \in Nat
      BY MirrorAssumption
    <3> QED BY <2>3, <2>4, <3>1, ZenonT(60) DEF CTaskRecord
  <2>6. made = c
    <3>1. /\ made.poster = t.poster /\ made.bounty = t.bounty /\ made.fee = t.fee
          /\ made.slashAmount = t.slashAmount /\ made.truthCommit = t.truthCommit
          /\ made.status = t.status
      BY <1>1, <2>3, <2>4 DEF CTaskRecord
    <3>2. /\ none.agentId = t.agentId /\ none.resolver = t.resolver
          /\ none.committed = t.committed /\ none.reasoningHash = t.reasoningHash
          /\ none.truth = t.truth /\ none.correct = FALSE /\ t.correct # "True"
          /\ none.commitDeadline = t.commitDeadline /\ none.settleDeadline = t.settleDeadline
      BY <1>1, <2>3 DEF Contracts!NoTask
    <3>3. /\ made.agentId = none.agentId /\ made.resolver = none.resolver
          /\ made.committed = none.committed /\ made.reasoningHash = none.reasoningHash
          /\ made.truth = none.truth /\ made.correct = none.correct
          /\ made.commitDeadline = none.commitDeadline
          /\ made.settleDeadline = none.settleDeadline
      BY <2>3, <2>4 DEF CTaskRecord
    <3>4. Shown(t, made)
      BY <3>1, <3>2, <3>3 DEF Shown
    <3> QED BY <2>1, <2>3, <2>5, <3>4, CTaskShown, ShownOnce
  <2> QED BY <2>3, <2>6
<1>7. terms.bounty \in 0..MaxUint256
  BY DEF WithinWidth
<1>8. /\ Contracts!Token!Allows(CAllowance, u, Arena, terms.bounty)
      /\ CAllowance' = Contracts!Token!Spent(CAllowance, u, Arena, terms.bounty)
  BY <1>7, Approved DEF CAllowance
<1>9. /\ Contracts!Token!Covers(balances, u, terms.bounty)
      /\ balances' = Contracts!Token!Moved(balances, u, Arena, terms.bounty)
  BY <1>3, <1>4 DEF Covers, Moved, Contracts!Token!Covers, Contracts!Token!Moved
<1>10. UNCHANGED <<Contracts!vaultVars, Contracts!registryVars>>
  BY <1>4, VaultSame, RegistriesSame
<1>11. CTasks' = [CTasks EXCEPT ![nextTask] =
           [Contracts!NoTask EXCEPT !.poster = u, !.bounty = terms.bounty, !.fee = terms.fee,
                          !.slashAmount = terms.slashAmount, !.truthCommit = v, !.status = "Open"]]
  BY <1>1, <1>5, <1>6
<1>12. /\ nextTask <= MaxTask /\ nextTask' = nextTask + 1
       /\ UNCHANGED <<now, authorizations, signed, agents, feedback, credits>>
  BY <1>1, <1>2, <1>4
<1> QED BY <1>8, <1>9, <1>10, <1>11, <1>12
        DEF Contracts!PostTask, CAllowance, CTasks, CTask

LEMMA RegisterIs ==
    ASSUME NEW u, NEW a, Register(u, a)
    PROVE  Contracts!RegisterAgent(u, a)
<1>1. UNCHANGED <<Contracts!vaultVars, Contracts!registryVars, Contracts!arenaVars,
                  Contracts!tokenVars>>
  BY VaultSame, RegistriesSame, ArenaSame, TokenSame DEF Register, arenaVars, tokenVars
<1> QED BY <1>1 DEF Register, tokenVars, Contracts!RegisterAgent

LEMMA TransferIs ==
    ASSUME NEW a, NEW u, TransferAgent(a, u)
    PROVE  Contracts!TransferAgent(a, u)
<1>1. UNCHANGED <<Contracts!vaultVars, Contracts!registryVars, Contracts!arenaVars,
                  Contracts!tokenVars>>
  BY VaultSame, RegistriesSame, ArenaSame, TokenSame DEF TransferAgent, arenaVars, tokenVars
<1> QED BY <1>1 DEF TransferAgent, tokenVars, Contracts!TransferAgent

LEMMA SameCardinality == \A S : Contracts!Cardinality(S) = Cardinality(S)
BY DEF Contracts!Cardinality, Cardinality

LEMMA SignIs ==
    ASSUME MirrorInv, NEW u \in User, NEW id \in TaskId, NEW a \in AgentId, NEW v, Sign(u, id, a, v)
    PROVE  Contracts!SignPayment(u, id, a, v)
<1>1. UNCHANGED <<Contracts!vaultVars, Contracts!registryVars, Contracts!arenaVars>>
  BY VaultSame, RegistriesSame, ArenaSame DEF Sign, arenaVars, registryVars
<1>2. UNCHANGED CAllowance
  BY DEF CAllowance
<1>3. CTasks[id].poster # NoOne
  BY TaskSeen DEF Sign, MirrorInv
<1>4. Contracts!Known(id)
  BY <1>3 DEF Contracts!Known, CTasks, CTask
<1>5. Contracts!Token!Sign(u, Arena, v, Contracts!ClaimNonce(id, a))
  BY <1>2 DEF Sign, Contracts!Token!Sign, ClaimNonce, Contracts!ClaimNonce, CAllowance
<1>6. UNCHANGED agents /\ Contracts!Cardinality(signed) < MaxSigned
  BY SameCardinality DEF Sign, registryVars
<1>7. \A s \in signed : s.from = u /\ s.nonce = Contracts!ClaimNonce(id, a) => s.value = v
  BY DEF Sign, Contracts!ClaimNonce, ClaimNonce
<1> QED BY <1>1, <1>4, <1>5, <1>6, <1>7 DEF Contracts!SignPayment

LEMMA WithdrawIs ==
    ASSUME MirrorInv, NEW u \in User, Withdraw(u)
    PROVE  Contracts!Withdraw(u)
<1>1. UNCHANGED <<Contracts!vaultVars, Contracts!registryVars>>
  BY VaultSame, RegistriesSame DEF Withdraw, registryVars
<1>2. UNCHANGED <<CTasks, CAllowance>>
  BY DEF Withdraw, CTasks, CAllowance
<1>3. Covers(balances, Arena, credits[u])
  <2>1. raised' = raised /\ raised # raised + 1
    <3>1. raised \in 0..MaxRaised /\ MaxRaised \in Nat
      BY MirrorAssumption DEF MirrorInv, TypeOK
    <3> QED BY <3>1, WithdrawKeeps
  <2> QED BY <2>1 DEF Withdraw
<1> QED BY <1>1, <1>2, <1>3
        DEF Withdraw, Covers, Moved, registryVars, Contracts!Withdraw, Contracts!Token!Covers,
            Contracts!Token!Moved, CTasks, CTask, CAllowance

LEMMA AdvanceIs ==
    ASSUME MirrorInv, Advance
    PROVE  Contracts!Tick
<1>1. UNCHANGED <<Contracts!vaultVars, Contracts!registryVars, Contracts!arenaVars,
                  Contracts!tokenVars>>
  BY VaultSame, RegistriesSame, ArenaSame, TokenSame DEF Advance, arenaVars, tokenVars, registryVars
<1>3. now <= MaxTime + CommitWindow + SettleWindow
  <2>1. /\ now \in 1..MaxTime /\ MaxTime \in Nat
        /\ CommitWindow \in Nat /\ SettleWindow \in Nat
    BY MirrorAssumption DEF MirrorInv, TypeOK
  <2> QED BY <2>1
<1>4. UNCHANGED <<signed, agents>>
  BY DEF Advance, tokenVars, registryVars
<1> QED BY <1>1, <1>3, <1>4 DEF Advance, Contracts!Tick

LEMMA CommitIs ==
    ASSUME MirrorInv, Links, NEW u \in User, NEW id \in TaskId, NEW v \in Answer,
           NEW h \in Reasoning, CommitVerdict(u, id, v, h)
    PROVE  Contracts!CommitVerdict(u, id, v, h)
<1>1. PICK t, after : /\ t = tasks[id]
                      /\ after = [t EXCEPT !.committed = v, !.reasoningHash = h,
                                           !.status = "Committed",
                                           !.settleDeadline = now + SettleWindow]
  OBVIOUS
<1>2. TypeOK /\ In(id, "Claimed") /\ t \in Task /\ t # Absent
  BY <1>1, TaskRecord DEF CommitVerdict, MirrorInv, In
<1>3. /\ now + SettleWindow \in Nat
      /\ now + SettleWindow <= MaxTime + CommitWindow + SettleWindow
  <2>1. /\ now \in 1..MaxTime /\ MaxTime \in Nat
        /\ CommitWindow \in Nat /\ SettleWindow \in Nat
    BY <1>2, MirrorAssumption DEF TypeOK
  <2> QED BY <2>1
<1>4. after \in Task /\ after # Absent
  <2>1. after \in Task
    BY <1>1, <1>2, <1>3, ZenonT(60) DEF Task, Held
  <2> QED BY <2>1, TaskIsPresent
<1>5. CTask(after) = [CTask(t) EXCEPT !.committed = v, !.reasoningHash = h,
                          !.status = "Committed", !.settleDeadline = now + SettleWindow]
  <2>1. PICK x, z : /\ x = CTask(t)
                    /\ z = [x EXCEPT !.committed = v, !.reasoningHash = h, !.status = "Committed",
                                     !.settleDeadline = now + SettleWindow]
    OBVIOUS
  <2>2. x \in CTaskRecord /\ Shown(t, x)
    BY <1>2, <2>1, CTaskShown
  <2>3. z \in CTaskRecord
    <3>1. /\ v \in Answer \cup {"None"} /\ h \in Reasoning \cup {NoReasoning}
          /\ "Committed" \in Held \cup {"Open", "Settled", "Cancelled"}
      BY DEF Held
    <3>2. z = [x EXCEPT !.committed = v, !.reasoningHash = h, !.status = "Committed",
                       !.settleDeadline = now + SettleWindow]
      BY <2>1
    <3> QED BY <1>3, <2>2, <3>1, <3>2 DEF CTaskRecord
  <2>4. Shown(after, z)
    BY <1>1, <1>2, <2>1, <2>2 DEF Shown, CTaskRecord, Task
  <2> QED BY <1>4, <2>1, <2>3, <2>4, CTaskShown, ShownOnce
<1>6. tasks' = [tasks EXCEPT ![id] = after]
  BY <1>1, <1>2 DEF CommitVerdict, TypeOK
<1>7. CTasks[id] = CTask(t) /\ CTasks' = [CTasks EXCEPT ![id] = CTask(after)]
  BY <1>1, <1>2, <1>6, TaskMap DEF CTasks
<1>8. CTasks' = [CTasks EXCEPT ![id].committed = v, ![id].reasoningHash = h,
                     ![id].status = "Committed", ![id].settleDeadline = now + SettleWindow]
  BY <1>5, <1>7 DEF CTasks
<1>9. Contracts!In(id, "Claimed")
  BY <1>2, SeenIn
<1>10. /\ CTasks[id].resolver = t.resolver /\ CTasks[id].commitDeadline = t.commitDeadline
       /\ CTasks[id].agentId = t.agentId
  BY <1>2, <1>7 DEF CTask, Task
<1>11. agents[t.agentId] # NoOne /\ validations[<<id, h>>] = NoRequest
  BY <1>1, <1>2 DEF Links, Linked, Backed, Uncommitted, ValidationHash
<1>12. CValidations[<<id, h>>] = Contracts!NoRequest
  BY <1>11 DEF CValidations, CRequest, Contracts!NoRequest
<1>13. CValidations' = [CValidations EXCEPT ![<<id, h>>] =
           [validator |-> Arena, agentId |-> t.agentId, answered |-> FALSE, response |-> 0]]
  <2>1. PICK q : q = [agentId |-> t.agentId, answered |-> FALSE, response |-> 0]
    OBVIOUS
  <2>2. t.agentId # 0
    BY <1>1, <1>2, Places DEF MirrorInv, HeldByUsers, AgentId
  <2>3. q # NoRequest /\ q.agentId = t.agentId /\ q.answered = FALSE /\ q.response = 0
    BY <2>1, <2>2 DEF NoRequest
  <2>4. validations' = [validations EXCEPT ![<<id, h>>] = q]
    BY <1>1, <2>1 DEF CommitVerdict, ValidationHash
  <2>5. CRequest(q) = [validator |-> Arena, agentId |-> t.agentId, answered |-> FALSE, response |-> 0]
    BY <2>3 DEF CRequest
  <2>6. CValidations' = [CValidations EXCEPT ![<<id, h>>] = CRequest(q)]
    BY <1>2, <2>4 DEF CValidations, TypeOK
  <2> QED BY <2>5, <2>6
<1>14. UNCHANGED <<Contracts!vaultVars, CAllowance>>
  BY VaultSame DEF CommitVerdict, CAllowance
<1>15. /\ u = CTasks[id].resolver /\ now <= CTasks[id].commitDeadline
       /\ agents[CTasks[id].agentId] # NoOne
       /\ CValidations' = [CValidations EXCEPT ![<<id, h>>] =
              [validator |-> Arena, agentId |-> CTasks[id].agentId,
               answered |-> FALSE, response |-> 0]]
       /\ UNCHANGED <<now, balances, authorizations, signed, agents, feedback, nextTask, credits>>
  BY <1>1, <1>10, <1>11, <1>13 DEF CommitVerdict, tokenVars
<1>16. Contracts!MayCommit(id) /\ Contracts!DeadlineFits(SettleWindow)
  BY <1>3, <1>15 DEF Contracts!MayCommit, Contracts!DeadlineFits, CTasks, CTask
<1> QED BY <1>8, <1>9, <1>12, <1>14, <1>15, <1>16
        DEF Contracts!CommitVerdict, Contracts!ValidationHash, Contracts!tokenVars,
            CTasks, CTask, CValidations, CRequest, CAllowance

\* What a claim leaves of the task.
Taken(t, a, u, d) == [t EXCEPT !.status = "Claimed", !.agentId = a, !.resolver = u,
                               !.commitDeadline = d]

LEMMA ClaimShown ==
    ASSUME NEW t \in Task, NEW a \in AgentId, NEW u \in User, NEW d \in Nat
    PROVE  CTask(Taken(t, a, u, d)) = Taken(CTask(t), a, u, d)
<1>1. PICK after, x, z :
                  /\ x = CTask(t) /\ after = [t EXCEPT !.status = "Claimed", !.agentId = a,
                                                !.resolver = u, !.commitDeadline = d]
                  /\ z = [x EXCEPT !.status = "Claimed", !.agentId = a, !.resolver = u,
                                   !.commitDeadline = d]
  OBVIOUS
<1>2. after \in Task
  BY <1>1 DEF Task, Held
<1>3. x \in CTaskRecord /\ Shown(t, x)
  BY <1>1, CTaskShown
<1>4. z \in CTaskRecord
  <2>1. /\ a \in {0} \cup AgentId /\ u \in User \cup {NoOne}
        /\ "Claimed" \in Held \cup {"Open", "Settled", "Cancelled"}
    BY DEF Held
  <2>2. z = [x EXCEPT !.status = "Claimed", !.agentId = a, !.resolver = u, !.commitDeadline = d]
    BY <1>1
  <2> QED BY <1>3, <2>1, <2>2 DEF CTaskRecord
<1>5. Shown(after, z)
  BY <1>1, <1>3 DEF Shown, CTaskRecord, Task
<1>6. CTask(after) = z
  BY <1>2, <1>4, <1>5, CTaskShown, ShownOnce
<1>7. after = Taken(t, a, u, d) /\ z = Taken(CTask(t), a, u, d)
  BY <1>1 DEF Taken
<1> QED BY <1>6, <1>7

LEMMA ClaimIs ==
    ASSUME WithinWidth, MirrorInv, MirrorInv', Links, Offers, NEW id \in TaskId, NEW a \in AgentId, NEW p,
           Paying(id, a, p), ClaimTask(id, a, p), UNCHANGED raised
    PROVE  Contracts!ClaimTask(p.from, id, a, p)
<1>1. PICK t, u, b, d, after, charged :
          /\ t = tasks[id] /\ u = p.from /\ d = now + CommitWindow
          /\ b = [agentId |-> a, depositor |-> u, amount |-> t.slashAmount,
                  closed |-> FALSE, slashed |-> FALSE]
          /\ after = [t EXCEPT !.status = "Claimed", !.agentId = a, !.resolver = u,
                               !.commitDeadline = d]
          /\ charged = Moved(balances, u, Arena, t.fee)
  OBVIOUS
<1>2. TypeOK /\ TypeOK' /\ In(id, "Open") /\ t \in Task /\ t # Absent
  BY <1>1, TaskRecord DEF ClaimTask, MirrorInv, In
<1>3. /\ d \in Nat /\ now + CommitWindow <= MaxTime + CommitWindow + SettleWindow
      /\ raised # raised + 1
  <2>1. /\ now \in 1..MaxTime /\ MaxTime \in Nat /\ raised \in 0..MaxRaised /\ MaxRaised \in Nat
        /\ CommitWindow \in Nat /\ SettleWindow \in Nat
    BY <1>2, MirrorAssumption DEF TypeOK
  <2> QED BY <1>1, <2>1
<1>4. Covers(balances, u, t.fee) /\ Covers(charged, u, t.slashAmount)
  BY <1>1, <1>3 DEF ClaimTask, Raise
<1>5. /\ tasks' = [tasks EXCEPT ![id] = after]
      /\ bonds' = [bonds EXCEPT ![id] = b]
      /\ balances' = Moved(charged, u, Vault, t.slashAmount)
      /\ authorizations' = [authorizations EXCEPT ![u] =
             IF t.fee > 0 THEN @ \cup {p.nonce} ELSE @]
      /\ agents[a] = u /\ p.value = t.fee /\ p.nonce = <<id, a>>
      /\ t.fee > 0 => Authorized(p)
      /\ UNCHANGED <<now, signed, agents, feedback, validations, credits, nextTask>>
  BY <1>1, <1>2, <1>4 DEF ClaimTask, PaymentMatches, ClaimNonce, registryVars, TypeOK
<1>6. u \in User /\ u # NoOne /\ u \in Address /\ u # Arena
  BY <1>1, Places DEF Paying
<1>7. CTasks' = [CTasks EXCEPT ![id].status = "Claimed", ![id].agentId = a, ![id].resolver = u,
                     ![id].commitDeadline = d]
  <2>1. CTask(after) = [CTask(t) EXCEPT !.status = "Claimed", !.agentId = a, !.resolver = u,
                            !.commitDeadline = d]
    <3>1. after = Taken(t, a, u, d)
      BY <1>1 DEF Taken
    <3>2. CTask(after) = Taken(CTask(t), a, u, d)
      BY <1>2, <1>3, <1>6, <3>1, ClaimShown
    <3> QED BY <3>2 DEF Taken
  <2>2. CTasks[id] = CTask(t) /\ CTasks' = [CTasks EXCEPT ![id] = CTask(after)]
    BY <1>1, <1>2, <1>5, TaskMap DEF CTasks
  <2> QED BY <2>1, <2>2 DEF CTasks
<1>8. bonds[id] = NoBond /\ b \in Bond /\ ~b.closed /\ ~b.slashed
  <2>1. bonds[id] = NoBond
    BY <1>2 DEF Links, Linked
  <2>2. t.slashAmount \in Nat
    BY <1>2 DEF Task
  <2> QED BY <1>1, <1>6, <2>1, <2>2 DEF Bond
<1>9. /\ CBonds' = [CBonds EXCEPT ![id] =
             [agentId |-> a, depositor |-> u, amount |-> t.slashAmount, closed |-> FALSE]]
      /\ CBonds[id].depositor = NoOne
  <2>1. CBonds' = [CBonds EXCEPT ![id] = CBond(b)]
    BY <1>2, <1>5, BondMap
  <2>2. b # NoBond
    BY <1>1, <1>6 DEF NoBond
  <2>3. CBond(b) = [agentId |-> a, depositor |-> u, amount |-> t.slashAmount, closed |-> FALSE]
    BY <1>1, <2>2 DEF CBond
  <2>4. CBonds[id].depositor = NoOne
    BY <1>8 DEF CBonds, CBond
  <2> QED BY <2>1, <2>3, <2>4
<1>10. CStake' = [CStake EXCEPT ![a] = @ + t.slashAmount] /\ UNCHANGED CSlashed
  <2>1. b.agentId = a /\ b.amount = t.slashAmount
    BY <1>1
  <2> QED BY <1>2, <1>5, <1>8, <2>1, BondOpens
<1>11. /\ CTasks[id].fee = t.fee /\ CTasks[id].slashAmount = t.slashAmount
  <2>1. CTasks[id] = CTask(t) /\ Shown(t, CTask(t))
    BY <1>1, <1>2, CTaskShown DEF CTasks
  <2> QED BY <2>1 DEF Shown
<1>12. t.slashAmount \in 0..MaxUint256 /\ t.slashAmount \in Nat /\ t.fee \in Nat
  <2>1. PICK terms \in Terms : t.slashAmount = terms.slashAmount
    BY <1>1, <1>2 DEF Offers
  <2> QED BY <1>2, <2>1 DEF WithinWidth, Task
<1>13. charged \in [Address -> Nat] /\ charged[Arena] = balances[Arena] + t.fee
  <2>1. balances \in [Address -> Nat]
    BY <1>2 DEF TypeOK
  <2> QED BY <1>1, <1>4, <1>6, <1>12, <2>1, Places, MovedAccounts
<1>14. Contracts!Charged(id, p) = charged
  <2>1. CASE t.fee > 0
    <3>1. charged = Contracts!Token!Moved(balances, p.from, Arena, p.value)
      BY <1>1, <1>5 DEF Moved, Contracts!Token!Moved
    <3> QED BY <1>11, <2>1, <3>1 DEF Contracts!Charged, CTasks, CTask
  <2>2. CASE ~(t.fee > 0)
    <3>1. t.fee = 0 /\ balances \in [Address -> Nat]
      BY <1>2, <1>12, <2>2 DEF TypeOK
    <3>2. charged = balances
      BY <1>1, <1>6, <3>1, Places DEF Moved
    <3> QED BY <1>11, <2>2, <3>2 DEF Contracts!Charged, CTasks, CTask
  <2> QED BY <2>1, <2>2
<1>15. Contracts!FeePaid(id, p)
  <2>1. CASE t.fee > 0
    <3>1. Contracts!Token!Authorized(p)
      BY <1>5, <2>1 DEF Authorized, Contracts!Token!Authorized, Contracts!Token!InWindow,
                        Contracts!Token!UnusedNonce
    <3>2. Contracts!Token!Covers(balances, p.from, p.value)
      BY <1>1, <1>4, <1>5 DEF Covers, Contracts!Token!Covers
    <3>3. authorizations' = Contracts!Token!Used(p)
      BY <1>1, <1>5, <2>1 DEF Contracts!Token!Used
    <3>4. Contracts!Charged(id, p)[Arena] = balances[Arena] + t.fee
      BY <1>13, <1>14
    <3> QED BY <1>11, <2>1, <3>1, <3>2, <3>3, <3>4 DEF Contracts!FeePaid, CTasks, CTask
  <2>2. CASE ~(t.fee > 0)
    <3>1. UNCHANGED authorizations
      BY <1>2, <1>5, <2>2 DEF TypeOK
    <3> QED BY <1>11, <2>2, <3>1 DEF Contracts!FeePaid, CTasks, CTask
  <2> QED BY <2>1, <2>2
<1>16. Contracts!StakeVault!BondFor(Arena, id, a, u, CTasks[id].slashAmount, Contracts!Charged(id, p))
  <2>1. COperator[Arena] /\ UNCHANGED COperator
    BY DEF COperator
  <2>2. agents[a] # NoOne
    BY <1>5, <1>6
  <2>3. Contracts!StakeVault!BondFresh(id)
    BY <1>9 DEF Contracts!StakeVault!BondFresh, Contracts!StakeVault!BondExists, CBonds, CBond
  <2>4. /\ Contracts!StakeVault!Token!Allows(CAllowance, u, Vault, t.slashAmount)
        /\ CAllowance' = Contracts!StakeVault!Token!Spent(CAllowance, u, Vault, t.slashAmount)
    BY <1>6, <1>12, Approved DEF CAllowance
  <2>5. /\ Contracts!StakeVault!Token!Covers(charged, u, t.slashAmount)
        /\ balances' = Contracts!StakeVault!Token!Moved(charged, u, Vault, t.slashAmount)
    BY <1>4, <1>5 DEF Covers, Moved, Contracts!StakeVault!Token!Covers, Contracts!StakeVault!Token!Moved
  <2>6. CTasks[id].slashAmount = t.slashAmount /\ Contracts!Charged(id, p) = charged
    BY <1>11, <1>14
  <2> QED BY <1>9, <1>10, <2>1, <2>2, <2>3, <2>4, <2>5, <2>6
          DEF Contracts!StakeVault!BondFor, COperator, CBonds, CBond, CStake, CSlashed, CAllowance
<1>17. Contracts!In(id, "Open")
  BY <1>2, SeenIn
<1>18. Contracts!DeadlineFits(CommitWindow)
  BY <1>1, <1>3 DEF Contracts!DeadlineFits
<1>19. Contracts!PaymentMatches(u, id, a, p)
  BY <1>1, <1>5, <1>11 DEF Contracts!PaymentMatches, Contracts!ClaimNonce, CTasks, CTask
<1>20. UNCHANGED <<now, signed, agents, Contracts!registryVars, nextTask, credits>>
  BY <1>5, RegistriesSame
<1>21. CTasks' = [CTasks EXCEPT ![id].status = "Claimed", ![id].agentId = a, ![id].resolver = u,
                      ![id].commitDeadline = now + CommitWindow]
  BY <1>1, <1>7
<1>22. agents[a] = u /\ u = p.from
  BY <1>1, <1>5
<1> QED BY <1>15, <1>16, <1>17, <1>18, <1>19, <1>20, <1>21, <1>22
        DEF Contracts!ClaimTask, CTasks, CTask

-----------------------------------------------------------------------------
(* Endings. *)

\* An ending that returns pays, credits and rates as the contracts' would.
LEMMA EndIs ==
    ASSUME MirrorInv, MirrorInv', NEW id \in TaskId, In(id, "Claimed") \/ In(id, "Committed"),
           Backed(id), NEW how \in Endings, NEW ended, End(id, how, ended), UNCHANGED raised
    PROVE  /\ how # "wrong" => Contracts!StakeVault!Release(Arena, id, Arena)
           /\ how = "wrong" => Contracts!StakeVault!Slash(Arena, id, Arena)
           /\ Contracts!Conclude(id, how)
<1>1. PICK t, b : t = tasks[id] /\ b = bonds[id]
  OBVIOUS
<1>2. /\ TypeOK /\ TypeOK' /\ t \in Task /\ t # Absent /\ b # NoBond /\ ~b.closed /\ ~b.slashed
      /\ raised # raised + 1 /\ agents[t.agentId] # NoOne
  <2>1. TypeOK /\ TypeOK' /\ raised \in 0..MaxRaised /\ MaxRaised \in Nat
    BY MirrorAssumption DEF MirrorInv, TypeOK
  <2>2. t \in Task /\ t # Absent
    BY <1>1, <2>1, TaskRecord DEF In
  <2> QED BY <1>1, <2>1, <2>2 DEF Backed
<1>3. Covers(balances, Vault, b.amount)
  BY <1>1, <1>2 DEF End, Raise
<1>4. /\ bonds' = Closed(id, how)
      /\ balances' = Moved(balances, Vault, Arena, b.amount)
      /\ credits' = Credited(Credited(credits, t.poster, PosterDue(id, how)),
                             t.resolver, ResolverDue(id, how))
      /\ feedback' = Rated(t.agentId, how)
      /\ UNCHANGED <<now, authorizations, signed, agents, nextTask>>
  BY <1>1, <1>3 DEF End
<1>5. /\ b \in Bond /\ CBonds[id] = CBond(b)
      /\ CBonds' = [CBonds EXCEPT ![id].closed = TRUE]
      /\ CStake[b.agentId] >= b.amount
      /\ CStake' = [CStake EXCEPT ![b.agentId] = @ - b.amount]
      /\ CSlashed' = IF how = "wrong" THEN [CSlashed EXCEPT ![b.agentId] = @ + b.amount]
                                      ELSE CSlashed
  BY <1>1, <1>2, <1>4, BondCloses
<1>6. /\ CBonds[id].agentId = b.agentId /\ CBonds[id].amount = b.amount
      /\ CBonds[id].depositor # NoOne /\ ~CBonds[id].closed
  BY <1>2, <1>5, Places DEF CBond, Bond
<1>7. /\ CTasks[id].poster = t.poster /\ CTasks[id].resolver = t.resolver
      /\ CTasks[id].agentId = t.agentId /\ CTasks[id].fee = t.fee /\ CTasks[id].bounty = t.bounty
  <2>1. CTasks[id] = CTask(t) /\ Shown(t, CTask(t))
    BY <1>1, <1>2, CTaskShown DEF CTasks
  <2> QED BY <2>1 DEF Shown
<1>8. Contracts!StakeVault!PayOut(Arena, id, Arena)
  <2>1. COperator[Arena] /\ UNCHANGED <<COperator, CAllowance>>
    BY DEF COperator, CAllowance
  <2>2. Contracts!StakeVault!IsOpen(id)
    BY <1>6 DEF Contracts!StakeVault!IsOpen, Contracts!StakeVault!BondExists, CBonds, CBond
  <2>3. Contracts!StakeVault!Close(id)
    BY <1>5, <1>6, <2>2 DEF Contracts!StakeVault!Close, CBonds, CBond, CStake
  <2>4. /\ Contracts!StakeVault!Token!Covers(balances, Vault, CBonds[id].amount)
        /\ balances' = Contracts!StakeVault!Token!Moved(balances, Vault, Arena, CBonds[id].amount)
    BY <1>3, <1>4, <1>6 DEF Covers, Moved, Contracts!StakeVault!Token!Covers,
                            Contracts!StakeVault!Token!Moved
  <2> QED BY <2>1, <2>3, <2>4
          DEF Contracts!StakeVault!PayOut, COperator, CAllowance, CBonds, CBond
<1>9. ASSUME how # "wrong" PROVE Contracts!StakeVault!Release(Arena, id, Arena)
  <2>1. UNCHANGED CSlashed
    BY <1>5, <1>9
  <2> QED BY <1>8, <2>1 DEF Contracts!StakeVault!Release, CSlashed
<1>10. ASSUME how = "wrong" PROVE Contracts!StakeVault!Slash(Arena, id, Arena)
  <2>1. CSlashed' = [CSlashed EXCEPT ![CBonds[id].agentId] = @ + CBonds[id].amount]
    BY <1>5, <1>6, <1>10
  <2> QED BY <1>8, <2>1 DEF Contracts!StakeVault!Slash, CSlashed, CBonds, CBond
<1>11. Contracts!Conclude(id, how)
  <2>1. /\ Contracts!PosterDue(id, how) = PosterDue(id, how)
        /\ Contracts!ResolverDue(id, how) = ResolverDue(id, how)
    <3>1. Contracts!Pot(id) = Pot(id)
      BY <1>1, <1>7 DEF Contracts!Pot, Pot, CTasks, CTask
    <3> QED BY <1>1, <1>6, <3>1
            DEF Contracts!PosterDue, PosterDue, Contracts!ResolverDue, ResolverDue, CBonds, CBond
  <2>2. credits' = Contracts!Credited(Contracts!Credited(credits, CTasks[id].poster,
                                                         Contracts!PosterDue(id, how)),
                                      CTasks[id].resolver, Contracts!ResolverDue(id, how))
    BY <1>4, <1>7, <2>1 DEF Credited, Contracts!Credited
  <2>3. agents[CTasks[id].agentId] # NoOne
    BY <1>2, <1>7
  <2>4. feedback' = [feedback EXCEPT ![CTasks[id].agentId] =
                        Append(@, [score |-> Contracts!Score(how), tag |-> how])]
    BY <1>4, <1>7 DEF Rated, Score, Contracts!Score
  <2> QED BY <2>2, <2>3, <2>4 DEF Contracts!Conclude, CTasks, CTask
<1> QED BY <1>9, <1>10, <1>11

\* What a reveal leaves of the task.
Revealed(t, v, c) == [t EXCEPT !.truth = v, !.correct = c, !.status = "Settled"]

LEMMA RevealShown ==
    ASSUME NEW t \in Task, NEW v \in Answer, NEW c \in {"True", "False"}
    PROVE  CTask(Revealed(t, v, c)) = Revealed(CTask(t), v, c = "True")
<1>1. PICK after, x, k, z :
          /\ x = CTask(t) /\ after = [t EXCEPT !.truth = v, !.correct = c, !.status = "Settled"]
          /\ k = (c = "True") /\ z = [x EXCEPT !.truth = v, !.correct = k, !.status = "Settled"]
  OBVIOUS
<1>2. after \in Task
  BY <1>1 DEF Task
<1>3. x \in CTaskRecord /\ Shown(t, x)
  BY <1>1, CTaskShown
<1>4. z \in CTaskRecord
  <2>1. v \in Answer \cup {"None"} /\ "Settled" \in Held \cup {"Open", "Settled", "Cancelled"}
        /\ k \in BOOLEAN
    BY <1>1
  <2>2. z = [x EXCEPT !.truth = v, !.correct = k, !.status = "Settled"]
    BY <1>1
  <2> QED BY <1>3, <2>1, <2>2, ZenonT(20) DEF CTaskRecord
<1>5. Shown(after, z)
  BY <1>1, <1>3 DEF Shown, CTaskRecord, Task
<1>6. CTask(after) = z
  BY <1>2, <1>4, <1>5, CTaskShown, ShownOnce
<1>7. after = Revealed(t, v, c) /\ z = Revealed(CTask(t), v, c = "True")
  BY <1>1 DEF Revealed
<1> QED BY <1>6, <1>7

CRequestRecord == [validator : {Arena}, agentId : AgentId, answered : BOOLEAN, response : {0, 100}]

\* The arena's request, answered.
LEMMA AnswerShown ==
    ASSUME NEW q \in Request, NEW s \in {0, 100}, NEW after,
           after = [q EXCEPT !.answered = TRUE, !.response = s]
    PROVE  /\ CRequest(after) = [CRequest(q) EXCEPT !.answered = TRUE, !.response = s]
           /\ CRequest(q).validator = Arena /\ CRequest(q).answered = q.answered
<1>1. PICK x, y, z : /\ x = CRequest(q) /\ y = CRequest(after)
                     /\ z = [x EXCEPT !.answered = TRUE, !.response = s]
  OBVIOUS
<1>2. /\ after \in Request /\ after.agentId = q.agentId /\ after.answered = TRUE /\ after.response = s
      /\ q.agentId # 0
  <2>1. q.agentId \in AgentId /\ 0 \notin AgentId
    BY MirrorAssumption DEF Request, AgentId
  <2> QED BY <2>1 DEF Request
<1>3. q # NoRequest /\ after # NoRequest
  <2>1. NoRequest.agentId = 0
    BY DEF NoRequest
  <2> QED BY <1>2, <2>1
<1>4. x = [validator |-> Arena, agentId |-> q.agentId, answered |-> q.answered,
           response |-> q.response]
  BY <1>1, <1>3 DEF CRequest
<1>5. y = [validator |-> Arena, agentId |-> q.agentId, answered |-> TRUE, response |-> s]
  BY <1>1, <1>2, <1>3 DEF CRequest
<1>6. x \in CRequestRecord /\ y \in CRequestRecord
  BY <1>4, <1>5 DEF CRequestRecord, Request
<1>7. /\ z \in CRequestRecord /\ z.validator = x.validator /\ z.agentId = x.agentId
      /\ z.answered = TRUE /\ z.response = s
  BY <1>1, <1>6 DEF CRequestRecord
<1>8. y = z
  BY <1>4, <1>5, <1>6, <1>7 DEF CRequestRecord
<1> QED BY <1>1, <1>4, <1>8

LEMMA SettleIs ==
    ASSUME MirrorInv, MirrorInv', Links, NEW u \in User, NEW id \in TaskId, NEW v \in Answer,
           Settle(u, id, v), UNCHANGED raised
    PROVE  Contracts!Settle(u, id, v)
<1>1. PICK t, how, c, ended, hash, q :
          /\ t = tasks[id]
          /\ how = IF t.committed = v THEN "correct" ELSE "wrong"
          /\ c = IF t.committed = v THEN "True" ELSE "False"
          /\ ended = [t EXCEPT !.status = "Settled", !.truth = v, !.correct = c]
          /\ hash = ValidationHash(id, t.reasoningHash)
          /\ q = validations[hash]
  OBVIOUS
<1>2. TypeOK /\ In(id, "Committed") /\ t \in Task /\ t # Absent
  BY <1>1, TaskRecord DEF Settle, MirrorInv, In
<1>3. Backed(id) /\ Filed(id)
  BY <1>2 DEF Links, Linked
<1>4. End(id, how, ended) /\ how \in Endings /\ c \in {"True", "False"}
  BY <1>1 DEF Settle, Endings
<1>5. /\ how # "wrong" => Contracts!StakeVault!Release(Arena, id, Arena)
      /\ how = "wrong" => Contracts!StakeVault!Slash(Arena, id, Arena)
      /\ Contracts!Conclude(id, how)
  BY <1>2, <1>3, <1>4, EndIs
<1>6. /\ CTasks[id].committed = t.committed /\ CTasks[id].poster = t.poster
      /\ CTasks[id].settleDeadline = t.settleDeadline /\ CTasks[id].truthCommit = t.truthCommit
      /\ CTasks[id].reasoningHash = t.reasoningHash /\ CTasks[id] = CTask(t)
  <2>1. CTasks[id] = CTask(t) /\ Shown(t, CTask(t))
    BY <1>1, <1>2, CTaskShown DEF CTasks
  <2> QED BY <2>1 DEF Shown
<1>7. CTasks' = [CTasks EXCEPT ![id].truth = v, ![id].correct = (how = "correct"),
                     ![id].status = "Settled"]
  <2>1. ended = Revealed(t, v, c)
    BY <1>1, <1>2, <1>4 DEF Revealed, Task
  <2>2. CTask(ended) = Revealed(CTask(t), v, c = "True")
    BY <1>2, <1>4, <2>1, RevealShown
  <2>3. (c = "True") = (how = "correct")
    BY <1>1
  <2>4. CTasks' = [CTasks EXCEPT ![id] = CTask(ended)]
    BY <1>2, <1>4, TaskMap DEF End
  <2> QED BY <1>6, <2>2, <2>3, <2>4 DEF Revealed, CTasks
<1>8. Contracts!Outcome(id, v) = how
  BY <1>1, <1>6 DEF Contracts!Outcome, CTasks, CTask
<1>9. Contracts!In(id, "Committed")
  BY <1>2, SeenIn
<1>10. Contracts!Opens(id, v)
  BY <1>1, <1>6 DEF Settle, Contracts!Opens, CTasks, CTask
<1>11. u = CTasks[id].poster /\ now <= CTasks[id].settleDeadline
       /\ UNCHANGED <<now, authorizations, signed, agents, nextTask>>
  BY <1>1, <1>4, <1>6 DEF Settle, End
<1>12. Contracts!Respond(id, Contracts!Score(how))
  <2>1. q \in Request /\ ~q.answered /\ hash \in TaskId \X Reasoning /\ hash = <<id, t.reasoningHash>>
    BY <1>1, <1>2, <1>3 DEF Filed, ValidationHash, TypeOK
  <2>2. PICK s, after : s = Score(how) /\ after = [q EXCEPT !.answered = TRUE, !.response = s]
    OBVIOUS
  <2>3. s \in {0, 100} /\ s = Contracts!Score(how)
    BY <2>2 DEF Score, Contracts!Score
  <2>4. validations' = [validations EXCEPT ![hash] = after]
    <3>1. raised # raised + 1
      <4>1. raised \in 0..MaxRaised /\ MaxRaised \in Nat
        BY <1>2, MirrorAssumption DEF TypeOK
      <4> QED BY <4>1
    <3>2. validations[hash] # NoRequest /\ how \in {"correct", "wrong"}
      BY <1>1, <1>3 DEF Filed
    <3>3. validations' = [validations EXCEPT ![hash].answered = TRUE, ![hash].response = Score(how)]
      BY <1>1, <1>4, <3>1, <3>2 DEF End, Raise
    <3> QED BY <1>1, <1>2, <2>1, <2>2, <3>3 DEF TypeOK
  <2>5. CValidations' = [CValidations EXCEPT ![hash] = CRequest(after)]
    BY <1>2, <2>4 DEF CValidations, TypeOK
  <2>6. CValidations[hash] = CRequest(q)
    BY <1>1, <2>1 DEF CValidations
  <2>7. /\ CRequest(after) = [CRequest(q) EXCEPT !.answered = TRUE, !.response = s]
        /\ CRequest(q).validator = Arena /\ CRequest(q).answered = q.answered
    BY <2>1, <2>2, <2>3, AnswerShown, ZenonT(20)
  <2>8. hash = Contracts!ValidationHash(id, CTasks[id].reasoningHash)
    BY <1>6, <2>1 DEF Contracts!ValidationHash
  <2>9. LET h == Contracts!ValidationHash(id, CTasks[id].reasoningHash)
        IN  /\ CValidations[h].validator = Arena /\ ~CValidations[h].answered
            /\ CValidations' = [CValidations EXCEPT ![h] =
                   [CValidations[h] EXCEPT !.answered = TRUE, !.response = Contracts!Score(how)]]
    BY <2>1, <2>3, <2>5, <2>6, <2>7, <2>8
  <2> QED BY <2>9 DEF Contracts!Respond, CTasks, CTask, CValidations, CRequest
<1>13. CTasks' = [CTasks EXCEPT ![id].truth = v,
                      ![id].correct = (Contracts!Outcome(id, v) = "correct"),
                      ![id].status = "Settled"]
  BY <1>7, <1>8
<1>14. \/ how = "correct" /\ Contracts!StakeVault!Release(Arena, id, Arena)
       \/ how = "wrong" /\ Contracts!StakeVault!Slash(Arena, id, Arena)
  BY <1>1, <1>5
<1>15. Contracts!Conclude(id, Contracts!Outcome(id, v))
  BY <1>5, <1>8 DEF Contracts!Conclude
<1>16. Contracts!Respond(id, Contracts!Score(Contracts!Outcome(id, v)))
  BY <1>8, <1>12 DEF Contracts!Respond
<1>17. \/ /\ Contracts!Outcome(id, v) = "correct"
          /\ Contracts!StakeVault!Release(Arena, id, Arena)
       \/ /\ Contracts!Outcome(id, v) = "wrong"
          /\ Contracts!StakeVault!Slash(Arena, id, Arena)
  BY <1>8, <1>14
<1> QED BY <1>9, <1>10, <1>11, <1>13, <1>15, <1>16, <1>17
        DEF Contracts!Settle, CTasks, CTask

LEMMA TimeoutIs ==
    ASSUME MirrorInv, MirrorInv', Links, NEW id \in TaskId, NEW s, NEW how, NEW ended,
           <<s, how>> \in {<<"Claimed", "commit-timeout">>, <<"Committed", "reveal-timeout">>},
           In(id, s), ended = [tasks[id] EXCEPT !.status = "Settled"], End(id, how, ended),
           UNCHANGED raised
    PROVE  Contracts!TimeOut(id, s, how)
<1>1. PICK t : t = tasks[id]
  OBVIOUS
<1>2. /\ TypeOK /\ t \in Task /\ t # Absent /\ how \in Endings /\ how # "wrong" /\ how # "correct"
      /\ In(id, "Claimed") \/ In(id, "Committed")
  BY <1>1, TaskRecord DEF MirrorInv, In, Endings
<1>3. Backed(id)
  BY <1>2 DEF Links, Linked
<1>4. Contracts!StakeVault!Release(Arena, id, Arena) /\ Contracts!Conclude(id, how)
  BY <1>2, <1>3, EndIs
<1>5. Contracts!In(id, s)
  BY <1>2, SeenIn
<1>6. CTasks' = [CTasks EXCEPT ![id].status = "Settled"]
  <2>1. ended \in Task /\ ended # Absent
    <3>1. ended \in Task
      BY <1>1, <1>2 DEF Task
    <3> QED BY <3>1, TaskIsPresent
  <2>2. CTask(ended) = [CTask(t) EXCEPT !.status = "Settled"]
    BY <1>1, <1>2, <2>1 DEF CTask, Task
  <2>3. CTasks[id] = CTask(t)
    BY <1>1 DEF CTasks
  <2>4. CTasks' = [CTasks EXCEPT ![id] = CTask(ended)]
    BY <1>2, TaskMap DEF End
  <2> QED BY <2>2, <2>3, <2>4
<1>7. UNCHANGED <<now, authorizations, signed, agents, nextTask, validations>>
  BY <1>2 DEF End
<1>8. UNCHANGED CValidations
  BY <1>7 DEF CValidations
<1> QED BY <1>4, <1>5, <1>6, <1>7, <1>8 DEF Contracts!TimeOut, CTasks, CTask, CValidations, CRequest

-----------------------------------------------------------------------------
(* The initial states, the steps, and the implementation. *)

LEMMA InitOffers == Init => Offers
BY DEF Init, Offers

\* A task keeps the collateral it asked for.
LEMMA KeepsOffers ==
    ASSUME Offers,
           \A id \in TaskId : tasks'[id] # Absent =>
               tasks[id] # Absent /\ tasks'[id].slashAmount = tasks[id].slashAmount
    PROVE  Offers'
BY DEF Offers

LEMMA OneKeepsOffers ==
    ASSUME MirrorInv, Offers, NEW id \in TaskId, tasks[id] # Absent, NEW t,
           t.slashAmount = tasks[id].slashAmount, tasks' = [tasks EXCEPT ![id] = t]
    PROVE  Offers'
<1>1. \A j \in TaskId : tasks'[j] = IF j = id THEN t ELSE tasks[j]
  BY DEF MirrorInv, TypeOK
<1> QED BY <1>1, KeepsOffers

LEMMA NextOffers ==
    ASSUME MirrorInv, Offers, [Next]_vars
    PROVE  Offers'
<1>1. ASSUME UNCHANGED tasks
      PROVE  Offers'
  BY <1>1 DEF Offers
<1>2. ASSUME NEW u \in User, NEW terms \in Terms, NEW v \in Answer, PostTask(u, terms, v)
      PROVE  Offers'
  <2>1. CASE UNCHANGED tasks
    BY <2>1, <1>1
  <2>2. CASE ~UNCHANGED tasks
    <3>1. PICK t : /\ t.slashAmount = terms.slashAmount
                   /\ tasks' = [tasks EXCEPT ![nextTask] = t]
      BY <1>2, <2>2 DEF PostTask
    <3>2. \A j \in TaskId : tasks'[j] = IF j = nextTask THEN t ELSE tasks[j]
      BY <3>1 DEF MirrorInv, TypeOK
    <3> QED BY <3>1, <3>2 DEF Offers
  <2> QED BY <2>1, <2>2
<1>3. ASSUME NEW id \in TaskId, NEW a \in AgentId, NEW p, ClaimTask(id, a, p)
      PROVE  Offers'
  <2>1. tasks[id] \in Task /\ tasks[id] # Absent
    BY <1>3, TaskRecord DEF ClaimTask, MirrorInv, In
  <2>2. CASE UNCHANGED tasks
    BY <2>2, <1>1
  <2>3. CASE ~UNCHANGED tasks
    <3>1. tasks' = [tasks EXCEPT ![id] = Taken(tasks[id], a, p.from, now + CommitWindow)]
      BY <1>3, <2>3 DEF ClaimTask, Taken, MirrorInv, TypeOK
    <3>2. Taken(tasks[id], a, p.from, now + CommitWindow).slashAmount = tasks[id].slashAmount
      BY <2>1 DEF Taken, Task
    <3> QED BY <2>1, <3>1, <3>2, OneKeepsOffers
  <2> QED BY <2>2, <2>3
<1>4. ASSUME NEW u \in User, NEW id \in TaskId, NEW v \in Answer, NEW h \in Reasoning,
             CommitVerdict(u, id, v, h)
      PROVE  Offers'
  <2>1. tasks[id] \in Task /\ tasks[id] # Absent
    BY <1>4, TaskRecord DEF CommitVerdict, MirrorInv, In
  <2>2. PICK t : t = [tasks[id] EXCEPT !.committed = v, !.reasoningHash = h,
                          !.status = "Committed", !.settleDeadline = now + SettleWindow]
    OBVIOUS
  <2>3. tasks' = [tasks EXCEPT ![id] = t]
    BY <1>4, <2>2 DEF CommitVerdict, MirrorInv, TypeOK
  <2>4. t.slashAmount = tasks[id].slashAmount
    BY <2>1, <2>2 DEF Task
  <2> QED BY <2>1, <2>3, <2>4, OneKeepsOffers
<1>5. ASSUME NEW u \in User, NEW id \in TaskId, NEW v \in Answer, Settle(u, id, v)
      PROVE  Offers'
  <2>1. PICK ended, c : /\ ended = [tasks[id] EXCEPT !.status = "Settled", !.truth = v, !.correct = c]
                        /\ tasks' = [tasks EXCEPT ![id] = ended]
    BY <1>5 DEF Settle, End
  <2>2. tasks[id] \in Task /\ tasks[id] # Absent
    BY <1>5, TaskRecord DEF Settle, MirrorInv, In
  <2>3. ended.slashAmount = tasks[id].slashAmount
    BY <2>1, <2>2 DEF Task
  <2> QED BY <2>1, <2>2, <2>3, OneKeepsOffers
<1>6. ASSUME NEW id \in TaskId, NEW s \in {"Settled", "Cancelled"}, tasks[id] # Absent,
             tasks' = [tasks EXCEPT ![id] = [tasks[id] EXCEPT !.status = s]]
      PROVE  Offers'
  <2>1. tasks[id] \in Task
    BY <1>6, TaskRecord DEF MirrorInv
  <2>2. PICK t : t = [tasks[id] EXCEPT !.status = s]
    OBVIOUS
  <2>3. t.slashAmount = tasks[id].slashAmount
    BY <2>1, <2>2 DEF Task
  <2> QED BY <1>6, <2>2, <2>3, OneKeepsOffers
<1>7. ASSUME NEW id \in TaskId, TimeoutCommit(id) \/ TimeoutSettle(id)
      PROVE  Offers'
  BY <1>6, <1>7 DEF TimeoutCommit, TimeoutSettle, End, In
<1>8. ASSUME NEW u \in User, NEW id \in TaskId, CancelTask(u, id)
      PROVE  Offers'
  <2>1. tasks' = [tasks EXCEPT ![id] = [tasks[id] EXCEPT !.status = "Cancelled"]]
    BY <1>8 DEF CancelTask, MirrorInv, TypeOK
  <2> QED BY <1>6, <1>8, <2>1 DEF CancelTask, In
<1>9. ASSUME Advance \/ UNCHANGED vars \/ (\E u \in User, v \in Mints : Mint(u, v))
                \/ (\E u, a : Register(u, a) \/ TransferAgent(a, u))
                \/ (\E u, id, a, v : Sign(u, id, a, v)) \/ (\E u : Withdraw(u))
      PROVE  UNCHANGED tasks
  BY <1>9 DEF Advance, vars, arenaVars, Mint, Register, TransferAgent, Sign, Withdraw
<1> QED BY <1>1, <1>2, <1>3, <1>4, <1>5, <1>7, <1>8, <1>9 DEF Next

LEMMA AlwaysOffers == Spec => []Offers
<1>1. MirrorInv /\ Offers /\ [Next]_vars => Offers'
  BY NextOffers
<1>2. Spec => []MirrorInv
  BY AlwaysLinks, PTL
<1> QED BY InitOffers, <1>1, <1>2, PTL DEF Spec

LEMMA InitIs == Init => Contracts!Init
<1> SUFFICES ASSUME Init PROVE Contracts!Init
  OBVIOUS
<1>1. TypeOK
  BY InitMirror DEF MirrorInv
<1>2. \A a \in AgentId : StakeOf(a) = 0 /\ SlashedOf(a) = 0
  <2> SUFFICES ASSUME NEW a \in AgentId PROVE StakeOf(a) = 0 /\ SlashedOf(a) = 0
    OBVIOUS
  <2>1. \A id \in TaskId : Stakes(a)[id] = 0 /\ Slashes(a)[id] = 0
    BY DEF Init, Stakes, Slashes, OwnStake, OwnSlash, OfAgent
  <2>2. IsFiniteSet(TaskId)
    BY MirrorAssumption, FS_Interval DEF TaskId
  <2>3. Total(Stakes(a), TaskId) = 0 /\ Total(Slashes(a), TaskId) = 0
    BY <2>1, <2>2, TotalZero
  <2> QED BY <1>1, <2>3, BookedSums
<1>3. CStake = [a \in AgentId |-> 0] /\ CSlashed = [a \in AgentId |-> 0]
  BY <1>2 DEF CStake, CSlashed
<1>4. /\ CBonds = [id \in TaskId |-> [agentId |-> 0, depositor |-> NoOne, amount |-> 0,
                                      closed |-> FALSE]]
      /\ CTasks = [id \in TaskId |-> CTask(Absent)]
      /\ CValidations = [hash \in TaskId \X Reasoning |-> CRequest(NoRequest)]
  BY DEF Init, CBonds, CBond, CTasks, CValidations
<1>5. balances = Contracts!InitialBalance
  BY DEF Init, Contracts!InitialBalance, Contracts!Address, Address
<1> QED BY <1>3, <1>4, <1>5
        DEF Init, Contracts!Init, Contracts!StakeVault!NoBond, Contracts!NoTask, Contracts!NoRequest,
            CStake, CSlashed, CBonds, CBond, CTasks, CTask, CValidations, CRequest,
            Contracts!Address, Address, Contracts!AgentId, AgentId, Contracts!TaskId, TaskId

\* What MirrorsContracts asks of a step.
MirrorStep ==
    \/ raised' # raised
    \/ \E u \in User, v \in Mints : Mint(u, v)
    \/ Contracts!Next

LEMMA PaymentSeen ==
    ASSUME MirrorInv, NEW u \in User, NEW id \in TaskId, NEW a \in AgentId,
           NEW p \in signed \cup {Unsigned(u, id, a)}
    PROVE  p.from \in User /\ p \in Contracts!Payments(p.from, id, a)
<1>1. CASE p \in signed
  BY <1>1 DEF MirrorInv, TypeOK, Contracts!Payments
<1>2. CASE p = Unsigned(u, id, a)
  <2>1. p.from = u
    BY <1>2 DEF Unsigned
  <2>2. p = Contracts!Unsigned(u, id, a)
    BY <1>2 DEF Unsigned, Contracts!Unsigned, ClaimNonce, Contracts!ClaimNonce
  <2> QED BY <2>1, <2>2 DEF Contracts!Payments
<1> QED BY <1>1, <1>2

LEMMA StepIs ==
    ASSUME WithinWidth, MirrorInv, MirrorInv', Links, Offers, Next, UNCHANGED raised
    PROVE  MirrorStep
<1>1. ASSUME NEW u \in User, NEW v \in Mints, Mint(u, v)
      PROVE  MirrorStep
  BY <1>1 DEF MirrorStep
<1>2. ASSUME NEW u \in User, NEW a \in AgentId, Register(u, a)
      PROVE  MirrorStep
  <2>1. Contracts!RegisterAgent(u, a)
    BY <1>2, RegisterIs
  <2> QED BY <2>1 DEF MirrorStep, Contracts!Next, Contracts!AgentId, AgentId
<1>3. ASSUME NEW a \in AgentId, NEW u \in AgentBuyers, TransferAgent(a, u)
      PROVE  MirrorStep
  <2>1. Contracts!TransferAgent(a, u)
    BY <1>3, TransferIs
  <2> QED BY <2>1 DEF MirrorStep, Contracts!Next, Contracts!AgentId, AgentId
<1>4. ASSUME NEW u \in User, NEW terms \in Terms, NEW v \in Answer, PostTask(u, terms, v)
      PROVE  MirrorStep
  <2>1. Contracts!PostTask(u, terms, v)
    BY <1>4, PostIs
  <2>2. v \in Contracts!Commitment
    BY DEF Answer, Contracts!Commitment, Contracts!Answer, Contracts!Verdict
  <2> QED BY <2>1, <2>2 DEF MirrorStep, Contracts!Next
<1>5. ASSUME NEW u \in User, NEW id \in TaskId, NEW a \in AgentId, tasks[id] # Absent,
             NEW v \in {tasks[id].fee} \cup OtherValues, Sign(u, id, a, v)
      PROVE  MirrorStep
  <2>1. Contracts!SignPayment(u, id, a, v)
    BY <1>5, SignIs
  <2>2. v \in {CTasks[id].fee} \cup OtherValues
    BY <1>5, TaskSeen DEF MirrorInv
  <2> QED BY <2>1, <2>2 DEF MirrorStep, Contracts!Next, Contracts!AgentId, AgentId,
                            Contracts!TaskId, TaskId, CTasks, CTask
<1>6. ASSUME NEW u \in User, NEW id \in TaskId, NEW a \in AgentId,
             NEW p \in signed \cup {Unsigned(u, id, a)}, ClaimTask(id, a, p)
      PROVE  MirrorStep
  <2>1. Paying(id, a, p)
    BY <1>6, PaymentsArePayers DEF MirrorInv
  <2>2. Contracts!ClaimTask(p.from, id, a, p)
    BY <1>6, <2>1, ClaimIs
  <2>3. p.from \in User /\ p \in Contracts!Payments(p.from, id, a)
    BY PaymentSeen
  <2> QED BY <2>2, <2>3 DEF MirrorStep, Contracts!Next, Contracts!AgentId, AgentId,
                            Contracts!TaskId, TaskId
<1>7. ASSUME NEW u \in User, NEW id \in TaskId, NEW v \in Answer, NEW h \in Reasoning,
             CommitVerdict(u, id, v, h)
      PROVE  MirrorStep
  <2>1. Contracts!CommitVerdict(u, id, v, h) /\ v \in Contracts!Answer
    BY <1>7, CommitIs DEF Answer, Contracts!Answer, Contracts!Verdict
  <2> QED BY <2>1 DEF MirrorStep, Contracts!Next, Contracts!TaskId, TaskId
<1>8. ASSUME NEW u \in User, NEW id \in TaskId, NEW v \in Answer, Settle(u, id, v)
      PROVE  MirrorStep
  <2>1. Contracts!Settle(u, id, v) /\ v \in Contracts!Answer
    BY <1>8, SettleIs DEF Answer, Contracts!Answer, Contracts!Verdict
  <2> QED BY <2>1 DEF MirrorStep, Contracts!Next, Contracts!TaskId, TaskId
<1>9. ASSUME NEW id \in TaskId, tasks[id] # Absent
      PROVE  /\ CTasks[id].commitDeadline = tasks[id].commitDeadline
             /\ CTasks[id].settleDeadline = tasks[id].settleDeadline
  <2>1. tasks[id] \in Task
    BY <1>9, TaskRecord DEF MirrorInv
  <2>2. CTasks[id] = CTask(tasks[id]) /\ Shown(tasks[id], CTask(tasks[id]))
    BY <2>1, CTaskShown DEF CTasks
  <2> QED BY <2>2 DEF Shown
<1>10. ASSUME NEW id \in TaskId, TimeoutCommit(id)
       PROVE  MirrorStep
  <2>1. Contracts!TimeOut(id, "Claimed", "commit-timeout")
    BY <1>10, TimeoutIs DEF TimeoutCommit
  <2>2. now > CTasks[id].commitDeadline
    BY <1>9, <1>10 DEF TimeoutCommit, In
  <2>3. Contracts!TimeoutCommit(id)
    BY <2>1, <2>2 DEF Contracts!TimeoutCommit, CTasks, CTask
  <2> QED BY <2>3 DEF MirrorStep, Contracts!Next, Contracts!TaskId, TaskId
<1>11. ASSUME NEW id \in TaskId, TimeoutSettle(id)
       PROVE  MirrorStep
  <2>1. Contracts!TimeOut(id, "Committed", "reveal-timeout")
    BY <1>11, TimeoutIs DEF TimeoutSettle
  <2>2. now > CTasks[id].settleDeadline
    BY <1>9, <1>11 DEF TimeoutSettle, In
  <2>3. Contracts!TimeoutSettle(id)
    BY <2>1, <2>2 DEF Contracts!TimeoutSettle, CTasks, CTask
  <2> QED BY <2>3 DEF MirrorStep, Contracts!Next, Contracts!TaskId, TaskId
<1>12. ASSUME NEW u \in User, NEW id \in TaskId, CancelTask(u, id)
       PROVE  MirrorStep
  <2>1. Contracts!CancelTask(u, id)
    BY <1>12, CancelIs
  <2> QED BY <2>1 DEF MirrorStep, Contracts!Next, Contracts!TaskId, TaskId
<1>13. ASSUME NEW u \in User, Withdraw(u)
       PROVE  MirrorStep
  <2>1. Contracts!Withdraw(u)
    BY <1>13, WithdrawIs
  <2> QED BY <2>1 DEF MirrorStep, Contracts!Next
<1>14. ASSUME Advance
       PROVE  MirrorStep
  <2>1. Contracts!Tick
    BY <1>14, AdvanceIs
  <2> QED BY <2>1 DEF MirrorStep, Contracts!Next
<1> QED BY <1>1, <1>2, <1>3, <1>4, <1>5, <1>6, <1>7, <1>8, <1>10, <1>11, <1>12, <1>13, <1>14
        DEF Next

LEMMA StutterIs == UNCHANGED vars => UNCHANGED Contracts!vars
<1> SUFFICES ASSUME UNCHANGED vars PROVE UNCHANGED Contracts!vars
  OBVIOUS
<1>1. UNCHANGED <<now, balances, authorizations, signed, agents, feedback, validations, bonds,
                  credits, tasks, nextTask>>
  BY DEF vars, tokenVars, registryVars, arenaVars
<1>2. /\ UNCHANGED Contracts!tokenVars /\ UNCHANGED Contracts!vaultVars
      /\ UNCHANGED Contracts!registryVars /\ UNCHANGED Contracts!arenaVars
  BY <1>1, TokenSame, VaultSame, RegistriesSame, ArenaSame
<1> QED BY <1>1, <1>2 DEF Contracts!vars

\* For any users, agents and tasks, as long as what is on offer fits the contracts'
\* amounts: whatever calls raised half way before, the object starts where the contracts
\* start, and a call that returns (post_task, claim_task, commit_verdict, settle,
\* timeout_commit, timeout_settle, cancel_task, withdraw, the registries' calls) does to
\* every balance, task, bond, credit and record what the contracts' transaction does
\* (arena.py:3-5).
THEOREM MirrorImplementsContracts == WithinWidth => (Spec => MirrorsContracts)
<1> SUFFICES ASSUME WithinWidth PROVE Spec => MirrorsContracts
  OBVIOUS
<1>1. MirrorInv /\ MirrorInv' /\ Links /\ Offers /\ [Next]_vars => [MirrorStep]_(Contracts!vars)
  <2> SUFFICES ASSUME MirrorInv, MirrorInv', Links, Offers, [Next]_vars
               PROVE  MirrorStep \/ UNCHANGED Contracts!vars
    OBVIOUS
  <2>1. CASE Next /\ UNCHANGED raised
    BY <2>1, StepIs
  <2>2. CASE raised' # raised
    BY <2>2 DEF MirrorStep
  <2>3. CASE UNCHANGED vars
    BY <2>3, StutterIs
  <2> QED BY <2>1, <2>2, <2>3
<1>2. [MirrorStep]_(Contracts!vars)
        => [\/ raised' # raised
            \/ \E u \in User, v \in Mints : Mint(u, v)
            \/ Contracts!Next]_(Contracts!vars)
  BY DEF MirrorStep
<1> QED BY InitIs, AlwaysLinks, AlwaysOffers, <1>1, <1>2, PTL DEF Spec, MirrorsContracts

=============================================================================
