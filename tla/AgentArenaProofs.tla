-------------------------- MODULE AgentArenaProofs --------------------------
(***************************************************************************)
(* Proofs, for every number of users, tasks, agents and signatures and all  *)
(* windows and terms: that the market's state is well typed, that every     *)
(* task is bonded exactly while somebody holds it, and what no step does;   *)
(* where the tokens are, what every user is left with, and that the market  *)
(* is the escrow it promises to be; that the public records say what the    *)
(* tasks say.                                                               *)
(***************************************************************************)
EXTENDS AgentArenaProperties, TotalTheorems

-----------------------------------------------------------------------------
(* The token's ledger operators keep balances and allowances natural. *)

LEMMA MovedType ==
  ASSUME NEW b \in [Address -> Nat], NEW from \in Address, NEW to \in Address,
         NEW v \in Nat, Token!Covers(b, from, v)
  PROVE  Token!Moved(b, from, to, v) \in [Address -> Nat]
  BY DEF Token!Moved, Token!Covers

LEMMA SpentType ==
  ASSUME NEW a \in [Address -> [Address -> Nat]], NEW owner \in Address,
         NEW spender \in Address, NEW v \in Nat, Token!Allows(a, owner, spender, v)
  PROVE  Token!Spent(a, owner, spender, v) \in [Address -> [Address -> Nat]]
  BY DEF Token!Spent, Token!Allows

LEMMA CreditedType ==
  ASSUME NEW c \in [User -> Nat], NEW who, NEW v \in Nat
  PROVE  Credited(c, who, v) \in [User -> Nat]
  <1>1. CASE who \in User
    BY <1>1 DEF Credited
  <1>2. CASE who \notin User
    <2>1. Credited(c, who, v) = [u \in User |-> c[u]]
      BY <1>2 DEF Credited
    <2> QED
      BY <2>1
  <1> QED
    BY <1>1, <1>2

-----------------------------------------------------------------------------
(* The inductive invariant. *)

\* Tasks are created in order: what was not posted yet is a default record.
Unposted == \A id \in TaskId : id >= nextTaskId => tasks[id] = NoTask

\* A task that was ever claimed names its claimant.
Claimants ==
    \A id \in TaskId :
        tasks[id].status \in Held \cup {"Settled"} =>
            tasks[id].resolver \in User /\ tasks[id].agentId \in AgentId

IndInv == TypeOK /\ Unposted /\ Claimants /\ CollateralFollowsTask

LEMMA KnownTask ==
  ASSUME TypeOK, NEW id \in TaskId, Known(id)
  PROVE  tasks[id] \in Task
  BY DEF TypeOK, Known, NoTask

LEMMA OpenBond ==
  ASSUME TypeOK, NEW id \in TaskId, StakeVault!IsOpen(id)
  PROVE  /\ bonds[id] \in StakeVault!Bond
         /\ bonds[id].agentId \in AgentId
         /\ bonds[id].amount \in Nat
  <1>1. bonds[id] \in StakeVault!Bond
    BY DEF TypeOK, StakeVault!IsOpen, StakeVault!BondExists, StakeVault!NoBond
  <1> QED
    BY <1>1 DEF StakeVault!Bond

\* Replacing the record of one task by a well-typed one.
LEMMA PutTask ==
  ASSUME TypeOK, NEW id \in TaskId, NEW t \in Task
  PROVE  [tasks EXCEPT ![id] = t] \in [TaskId -> Task \cup {NoTask}]
  BY DEF TypeOK

-----------------------------------------------------------------------------
(* Types. *)

LEMMA InitTypeOK == Init => TypeOK
  BY ArenaAssumption
  DEF Init, TypeOK, Address, TaskId, AgentId, Amount, InitialBalance, StakeVault!NoBond

\* A record without a poster, otherwise a task's.
Blank ==
    [poster : {NoOne}, bounty : Amount, fee : Amount, slashAmount : Amount,
     truthCommit : Commitment, status : Status, agentId : {0} \cup AgentId,
     resolver : User \cup {NoOne}, committed : Verdict,
     reasoningHash : Reasoning \cup {NoReasoning}, truth : Verdict, correct : BOOLEAN,
     commitDeadline : Deadline, settleDeadline : Deadline]

LEMMA BlankToTask ==
  ASSUME NEW blank \in Blank, NEW u \in User, NEW bounty \in Amount, NEW fee \in Amount,
         NEW slashAmount \in Amount, NEW c \in Commitment
  PROVE  [blank EXCEPT !.poster = u, !.bounty = bounty, !.fee = fee,
                       !.slashAmount = slashAmount, !.truthCommit = c,
                       !.status = "Open"] \in Task
  BY DEF Blank, Task, Status

LEMMA PostTaskTypeOK ==
  ASSUME TypeOK, NEW u \in User, NEW terms \in Terms, NEW c \in Commitment,
         PostTask(u, terms, c)
  PROVE  TypeOK'
  <1> DEFINE t == [NoTask EXCEPT !.poster = u, !.bounty = terms.bounty, !.fee = terms.fee,
                          !.slashAmount = terms.slashAmount, !.truthCommit = c,
                          !.status = "Open"]
  <1>1. /\ terms.bounty \in Amount /\ terms.fee \in Amount /\ terms.slashAmount \in Amount
        /\ terms.bounty \in Nat
    BY ArenaAssumption DEF Amount
  <1>2. u \in Address /\ Arena \in Address
    BY DEF Address
  <1>3. balanceOf' \in [Address -> Nat]
    BY <1>1, <1>2, MovedType DEF PostTask, TypeOK
  <1>4. allowance' \in [Address -> [Address -> Nat]]
    BY <1>1, <1>2, SpentType DEF PostTask, TypeOK
  <1>5. nextTaskId \in TaskId /\ nextTaskId' \in 1..(MaxTask + 1)
    BY ArenaAssumption DEF TaskId, PostTask, TypeOK
  <1>6. 0 \in Amount /\ 0 \in Deadline
    BY ArenaAssumption DEF Amount, Deadline
  <1>7. NoTask \in Blank
    BY <1>6 DEF NoTask, Blank, Status, Verdict, Commitment, Answer
  <1>8. t \in Task
    BY <1>1, <1>7, BlankToTask
  <1>9. tasks' \in [TaskId -> Task \cup {NoTask}]
    BY <1>5, <1>8, PutTask DEF PostTask
  <1> QED
    BY <1>3, <1>4, <1>5, <1>9 DEF PostTask, TypeOK, vaultVars, registryVars

LEMMA CancelTaskTypeOK ==
  ASSUME TypeOK, NEW u \in User, NEW id \in TaskId, CancelTask(u, id)
  PROVE  TypeOK'
  <1>1. tasks[id] \in Task
    BY KnownTask DEF CancelTask, In
  <1>2. [tasks[id] EXCEPT !.status = "Cancelled"] \in Task
    BY <1>1 DEF Task, Status
  <1>3. tasks' = [tasks EXCEPT ![id] = [tasks[id] EXCEPT !.status = "Cancelled"]]
    BY DEF CancelTask
  <1>4. tasks' \in [TaskId -> Task \cup {NoTask}]
    BY <1>2, <1>3, PutTask
  <1>5. tasks[id].bounty \in Nat
    BY <1>1 DEF Task, Amount
  <1>6. credits' \in [User -> Nat]
    BY <1>5, CreditedType DEF CancelTask, TypeOK
  <1> QED
    BY <1>4, <1>6 DEF CancelTask, TypeOK, tokenVars, vaultVars, registryVars

LEMMA SignPaymentTypeOK ==
  ASSUME TypeOK, NEW u \in User, NEW id \in TaskId, NEW a \in AgentId,
         NEW v \in {tasks[id].fee} \cup OtherValues, SignPayment(u, id, a, v)
  PROVE  TypeOK'
  <1>1. v \in 0..MaxUint256
    BY KnownTask, ArenaAssumption DEF SignPayment, Task, Amount
  <1>2. u \in Address /\ Arena \in Address
    BY DEF Address
  <1>3. now + PaymentTimeout \in Nat
    BY ArenaAssumption DEF TypeOK
  <1>4. ClaimNonce(id, a) \in TaskId \X AgentId
    BY DEF ClaimNonce
  <1>5. [from |-> u, to |-> Arena, value |-> v, validAfter |-> 0,
         validBefore |-> now + PaymentTimeout, nonce |-> ClaimNonce(id, a)]
            \in Token!Authorization
    BY <1>1, <1>2, <1>3, <1>4 DEF Token!Authorization
  <1>6. signed' \subseteq Token!Authorization
    BY <1>5 DEF SignPayment, Token!Sign, TypeOK
  <1> QED
    BY <1>6 DEF SignPayment, Token!Sign, TypeOK, vaultVars, registryVars, arenaVars

LEMMA VaultLedger ==
  ASSUME NEW b, NEW a, NEW from, NEW to, NEW v
  PROVE  /\ StakeVault!Token!Covers(b, from, v) <=> Token!Covers(b, from, v)
         /\ StakeVault!Token!Moved(b, from, to, v) = Token!Moved(b, from, to, v)
         /\ StakeVault!Token!Allows(a, from, to, v) <=> Token!Allows(a, from, to, v)
         /\ StakeVault!Token!Spent(a, from, to, v) = Token!Spent(a, from, to, v)
  BY DEF StakeVault!Token!Covers, Token!Covers, StakeVault!Token!Moved, Token!Moved,
         StakeVault!Token!Allows, Token!Allows, StakeVault!Token!Spent, Token!Spent

\* What opening a bond leaves well typed.
LEMMA BondForTypes ==
  ASSUME TypeOK, NEW id \in TaskId, NEW a \in AgentId, NEW u \in User, NEW v \in Nat,
         NEW ledger \in [Address -> Nat], StakeVault!BondFor(Arena, id, a, u, v, ledger)
  PROVE  /\ bonds' \in [TaskId -> StakeVault!Bond \cup {StakeVault!NoBond}]
         /\ stakeOf' \in [AgentId -> Nat]
         /\ allowance' \in [Address -> [Address -> Nat]]
         /\ balanceOf' \in [Address -> Nat]
         /\ UNCHANGED <<isOperator, slashedOf>>
  <1>1. u \in Address /\ Vault \in Address /\ u # Vault
    BY ArenaAssumption DEF Address
  <1>2. [agentId |-> a, depositor |-> u, amount |-> v, closed |-> FALSE] \in StakeVault!Bond
    BY <1>1 DEF StakeVault!Bond
  <1>3. bonds' \in [TaskId -> StakeVault!Bond \cup {StakeVault!NoBond}]
    BY <1>2 DEF StakeVault!BondFor, TypeOK
  <1>4. stakeOf' \in [AgentId -> Nat]
    BY DEF StakeVault!BondFor, TypeOK
  <1>5. allowance' \in [Address -> [Address -> Nat]]
    <2>1. Token!Allows(allowance, u, Vault, v) /\ allowance' = Token!Spent(allowance, u, Vault, v)
      BY VaultLedger DEF StakeVault!BondFor
    <2>2. allowance \in [Address -> [Address -> Nat]]
      BY DEF TypeOK
    <2> QED
      BY <1>1, <2>1, <2>2, SpentType
  <1>6. balanceOf' \in [Address -> Nat]
    BY <1>1, MovedType, VaultLedger DEF StakeVault!BondFor
  <1> QED
    BY <1>3, <1>4, <1>5, <1>6 DEF StakeVault!BondFor

\* What closing a bond and paying it out leaves well typed.
LEMMA PayOutTypes ==
  ASSUME TypeOK, NEW id \in TaskId, StakeVault!PayOut(Arena, id, Arena)
  PROVE  /\ bonds' \in [TaskId -> StakeVault!Bond \cup {StakeVault!NoBond}]
         /\ stakeOf' \in [AgentId -> Nat]
         /\ balanceOf' \in [Address -> Nat]
         /\ UNCHANGED <<isOperator, allowance>>
  <1>1. /\ bonds[id] \in StakeVault!Bond
        /\ bonds[id].agentId \in AgentId /\ bonds[id].amount \in Nat
    BY OpenBond DEF StakeVault!PayOut, StakeVault!Close
  <1>2. Arena \in Address /\ Vault \in Address
    BY DEF Address
  <1>3. [bonds[id] EXCEPT !.closed = TRUE] \in StakeVault!Bond
    BY <1>1 DEF StakeVault!Bond
  <1>4. bonds' = [bonds EXCEPT ![id] = [bonds[id] EXCEPT !.closed = TRUE]]
    BY DEF StakeVault!PayOut, StakeVault!Close
  <1>5. bonds' \in [TaskId -> StakeVault!Bond \cup {StakeVault!NoBond}]
    BY <1>3, <1>4 DEF TypeOK
  <1>6. stakeOf' \in [AgentId -> Nat]
    BY <1>1 DEF StakeVault!PayOut, StakeVault!Close, TypeOK
  <1>7. balanceOf' \in [Address -> Nat]
    <2>1. /\ Token!Covers(balanceOf, Vault, bonds[id].amount)
          /\ balanceOf' = Token!Moved(balanceOf, Vault, Arena, bonds[id].amount)
      BY VaultLedger DEF StakeVault!PayOut
    <2>2. balanceOf \in [Address -> Nat]
      BY DEF TypeOK
    <2> QED
      BY <1>1, <1>2, <2>1, <2>2, MovedType
  <1> QED
    BY <1>5, <1>6, <1>7 DEF StakeVault!PayOut

LEMMA ReleaseTypes ==
  ASSUME TypeOK, NEW id \in TaskId, StakeVault!Release(Arena, id, Arena)
  PROVE  /\ bonds' \in [TaskId -> StakeVault!Bond \cup {StakeVault!NoBond}]
         /\ stakeOf' \in [AgentId -> Nat] /\ slashedOf' \in [AgentId -> Nat]
         /\ balanceOf' \in [Address -> Nat]
         /\ UNCHANGED <<isOperator, allowance>>
  BY PayOutTypes DEF StakeVault!Release, TypeOK

LEMMA SlashTypes ==
  ASSUME TypeOK, NEW id \in TaskId, StakeVault!Slash(Arena, id, Arena)
  PROVE  /\ bonds' \in [TaskId -> StakeVault!Bond \cup {StakeVault!NoBond}]
         /\ stakeOf' \in [AgentId -> Nat] /\ slashedOf' \in [AgentId -> Nat]
         /\ balanceOf' \in [Address -> Nat]
         /\ UNCHANGED <<isOperator, allowance>>
  <1>1. bonds[id].agentId \in AgentId /\ bonds[id].amount \in Nat
    BY OpenBond DEF StakeVault!Slash, StakeVault!PayOut, StakeVault!Close
  <1>2. slashedOf' \in [AgentId -> Nat]
    BY <1>1 DEF StakeVault!Slash, TypeOK
  <1> QED
    BY <1>2, PayOutTypes DEF StakeVault!Slash

\* The credits and the feedback an ending leaves.
LEMMA ConcludeTypes ==
  ASSUME TypeOK, NEW id \in TaskId, Known(id), StakeVault!IsOpen(id), NEW how \in
             {"correct", "wrong", "commit-timeout", "reveal-timeout"},
         Conclude(id, how)
  PROVE  credits' \in [User -> Nat] /\ feedback' \in [AgentId -> Seq(Feedback)]
  <1>1. tasks[id].fee \in Nat /\ tasks[id].bounty \in Nat /\ bonds[id].amount \in Nat
    BY KnownTask, OpenBond DEF Task, Amount
  <1>2. PosterDue(id, how) \in Nat /\ ResolverDue(id, how) \in Nat
    BY <1>1 DEF PosterDue, ResolverDue, Pot
  <1>3. credits' \in [User -> Nat]
    BY <1>2, CreditedType DEF Conclude, TypeOK
  <1>4. [score |-> Score(how), tag |-> how] \in Feedback
    BY DEF Score, Feedback
  <1>5. feedback' \in [AgentId -> Seq(Feedback)]
    <2>1. feedback \in [AgentId -> Seq(Feedback)]
      BY DEF TypeOK
    <2>2. feedback' = [feedback EXCEPT ![tasks[id].agentId] =
                           Append(@, [score |-> Score(how), tag |-> how])]
      BY DEF Conclude
    <2>3. tasks[id].agentId \in AgentId =>
             Append(feedback[tasks[id].agentId], [score |-> Score(how), tag |-> how])
                 \in Seq(Feedback)
      BY <1>4, <2>1
    <2> HIDE DEF Conclude
    <2> QED
      BY <2>1, <2>2, <2>3
  <1> QED
    BY <1>3, <1>5

LEMMA ClaimTaskTypeOK ==
  ASSUME TypeOK, NEW u \in User, NEW id \in TaskId, NEW a \in AgentId,
         NEW p \in Payments(u, id, a), ClaimTask(u, id, a, p)
  PROVE  TypeOK'
  <1>1. tasks[id] \in Task
    BY KnownTask DEF ClaimTask, In
  <1>2. tasks[id].fee \in Nat /\ tasks[id].slashAmount \in Nat
    BY <1>1 DEF Task, Amount
  <1>3. p.from = u /\ p.value = tasks[id].fee /\ p.nonce = ClaimNonce(id, a)
    BY DEF ClaimTask, PaymentMatches
  <1>4. u \in Address /\ Arena \in Address
    BY DEF Address
  <1>5. Charged(id, p) \in [Address -> Nat]
    <2>1. balanceOf \in [Address -> Nat]
      BY DEF TypeOK
    <2>2. CASE tasks[id].fee > 0
      <3>1. Token!Covers(balanceOf, u, tasks[id].fee)
        BY <1>3, <2>2 DEF ClaimTask, FeePaid
      <3> QED
        BY <1>2, <1>3, <1>4, <2>1, <2>2, <3>1, MovedType DEF Charged
    <2>3. CASE ~(tasks[id].fee > 0)
      BY <2>1, <2>3 DEF Charged
    <2> QED
      BY <2>2, <2>3
  <1>6. authorizationState' \in [Address -> SUBSET (TaskId \X AgentId)]
    <2>1. authorizationState \in [Address -> SUBSET (TaskId \X AgentId)]
      BY DEF TypeOK
    <2>2. ClaimNonce(id, a) \in TaskId \X AgentId
      BY DEF ClaimNonce
    <2>3. authorizationState' = authorizationState \/ authorizationState' = Token!Used(p)
      BY DEF ClaimTask, FeePaid
    <2>4. Token!Used(p) \in [Address -> SUBSET (TaskId \X AgentId)]
      BY <1>3, <1>4, <2>1, <2>2 DEF Token!Used
    <2> QED
      BY <2>1, <2>3, <2>4
  <1>7. now + CommitWindow \in Deadline
    BY ArenaAssumption, SMTT(20) DEF ClaimTask, DeadlineFits, Deadline, TypeOK
  <1>8. tasks' \in [TaskId -> Task \cup {NoTask}]
    <2> DEFINE t == [tasks[id] EXCEPT !.status = "Claimed", !.agentId = a, !.resolver = u,
                                      !.commitDeadline = now + CommitWindow]
    <2>1. t \in Task
      BY <1>1, <1>7 DEF Task, Status
    <2>2. tasks' = [tasks EXCEPT ![id] = t]
      BY DEF ClaimTask, TypeOK
    <2> QED
      BY <2>1, <2>2, PutTask
  <1>9. StakeVault!BondFor(Arena, id, a, u, tasks[id].slashAmount, Charged(id, p))
    BY DEF ClaimTask
  <1>10. /\ bonds' \in [TaskId -> StakeVault!Bond \cup {StakeVault!NoBond}]
         /\ stakeOf' \in [AgentId -> Nat]
         /\ allowance' \in [Address -> [Address -> Nat]]
         /\ balanceOf' \in [Address -> Nat]
         /\ UNCHANGED <<isOperator, slashedOf>>
    BY <1>2, <1>5, <1>9, BondForTypes
  <1> QED
    BY <1>6, <1>8, <1>10 DEF ClaimTask, TypeOK, registryVars

LEMMA SubmitAuthorizationTypeOK ==
  ASSUME TypeOK, NEW auth \in signed, SubmitAuthorization(auth)
  PROVE  TypeOK'
  <1>1. /\ auth.from \in Address /\ auth.to \in Address
        /\ auth.value \in Nat /\ auth.nonce \in TaskId \X AgentId
    BY DEF TypeOK, Token!Authorization
  <1>2. balanceOf' \in [Address -> Nat]
    <2>1. balanceOf \in [Address -> Nat]
      BY DEF TypeOK
    <2> QED
      BY <1>1, <2>1, MovedType DEF SubmitAuthorization, Token!TransferWithAuthorization
  <1>3. authorizationState' \in [Address -> SUBSET (TaskId \X AgentId)]
    BY <1>1 DEF SubmitAuthorization, Token!TransferWithAuthorization, Token!Used, TypeOK
  <1> QED
    BY <1>2, <1>3 DEF SubmitAuthorization, Token!TransferWithAuthorization, TypeOK,
       vaultVars, registryVars, arenaVars

LEMMA CommitVerdictTypeOK ==
  ASSUME TypeOK, Claimants, NEW u \in User, NEW id \in TaskId, NEW v \in Answer,
         NEW r \in Reasoning, CommitVerdict(u, id, v, r)
  PROVE  TypeOK'
  <1>1. tasks[id] \in Task /\ tasks[id].agentId \in AgentId
    BY KnownTask DEF CommitVerdict, In, Claimants, Held
  <1>2. now + SettleWindow \in Deadline
    BY ArenaAssumption DEF CommitVerdict, DeadlineFits, Deadline, TypeOK
  <1>3. tasks' \in [TaskId -> Task \cup {NoTask}]
    <2> DEFINE t == [tasks[id] EXCEPT !.committed = v, !.reasoningHash = r,
                         !.status = "Committed", !.settleDeadline = now + SettleWindow]
    <2>1. t \in Task
      BY <1>1, <1>2 DEF Task, Status, Answer
    <2>2. tasks' = [tasks EXCEPT ![id] = t]
      BY DEF CommitVerdict, TypeOK
    <2> QED
      BY <2>1, <2>2, PutTask
  <1>4. [validator |-> Arena, agentId |-> tasks[id].agentId,
         answered |-> FALSE, response |-> 0] \in Request
    BY <1>1 DEF Request, Address
  <1>5. validations' \in [TaskId \X Reasoning -> Request \cup {NoRequest}]
    BY <1>4 DEF CommitVerdict, ValidationHash, TypeOK
  <1> QED
    BY <1>3, <1>5 DEF CommitVerdict, TypeOK, tokenVars, vaultVars

LEMMA SettleTypeOK ==
  ASSUME TypeOK, NEW u \in User, NEW id \in TaskId, NEW v \in Answer, Settle(u, id, v)
  PROVE  TypeOK'
  <1> DEFINE how == Outcome(id, v)
  <1>1. tasks[id] \in Task
    BY KnownTask DEF Settle, In
  <1>2. how \in {"correct", "wrong"}
    BY DEF Outcome
  <1>3. tasks' \in [TaskId -> Task \cup {NoTask}]
    <2> DEFINE t == [tasks[id] EXCEPT !.truth = v, !.correct = (how = "correct"),
                                      !.status = "Settled"]
    <2>1. (how = "correct") \in BOOLEAN
      OBVIOUS
    <2>2. t \in Task
      <3> HIDE DEF how
      <3> QED
        BY <1>1, <2>1 DEF Task, Status, Answer
    <2>3. tasks' = [tasks EXCEPT ![id] = t]
      BY DEF Settle, TypeOK
    <2> QED
      BY <2>2, <2>3, PutTask
  <1>4. StakeVault!Release(Arena, id, Arena) \/ StakeVault!Slash(Arena, id, Arena)
    BY DEF Settle
  <1>5. /\ bonds' \in [TaskId -> StakeVault!Bond \cup {StakeVault!NoBond}]
        /\ stakeOf' \in [AgentId -> Nat] /\ slashedOf' \in [AgentId -> Nat]
        /\ balanceOf' \in [Address -> Nat]
        /\ UNCHANGED <<isOperator, allowance>>
    BY <1>4, ReleaseTypes, SlashTypes
  <1>6. Known(id) /\ StakeVault!IsOpen(id)
    BY <1>4 DEF Settle, In, StakeVault!Release, StakeVault!Slash, StakeVault!PayOut,
       StakeVault!Close
  <1>7. credits' \in [User -> Nat] /\ feedback' \in [AgentId -> Seq(Feedback)]
    <2>1. Conclude(id, how)
      BY DEF Settle
    <2> HIDE DEF how
    <2> QED
      BY <1>2, <1>6, <2>1, ConcludeTypes
  <1>8. validations' \in [TaskId \X Reasoning -> Request \cup {NoRequest}]
    <2> DEFINE hash == ValidationHash(id, tasks[id].reasoningHash)
               answer == [validations[hash] EXCEPT !.answered = TRUE, !.response = Score(how)]
    <2>1. /\ validations[hash].validator = Arena
          /\ validations' = [validations EXCEPT ![hash] = answer]
      BY DEF Settle, Respond
    <2>2. validations \in [TaskId \X Reasoning -> Request \cup {NoRequest}]
      BY DEF TypeOK
    <2>3. Score(how) \in {0, 100}
      BY DEF Score
    <2>4. hash \in TaskId \X Reasoning => answer \in Request
      <3>1. Arena # NoOne
        BY ArenaAssumption DEF Address
      <3> HIDE DEF hash, how
      <3>2. ASSUME hash \in TaskId \X Reasoning PROVE validations[hash] \in Request
        BY <2>1, <2>2, <3>1, <3>2 DEF NoRequest
      <3> QED
        BY <2>3, <3>2 DEF Request
    <2> HIDE DEF hash, answer
    <2> QED
      BY <2>1, <2>2, <2>4
  <1> QED
    BY <1>3, <1>5, <1>7, <1>8 DEF Settle, TypeOK

LEMMA TimeOutTypeOK ==
  ASSUME TypeOK, NEW id \in TaskId, NEW status, NEW how \in {"commit-timeout", "reveal-timeout"},
         TimeOut(id, status, how)
  PROVE  TypeOK'
  <1>1. tasks[id] \in Task
    BY KnownTask DEF TimeOut, In
  <1>2. [tasks[id] EXCEPT !.status = "Settled"] \in Task
    BY <1>1 DEF Task, Status
  <1>3. tasks' = [tasks EXCEPT ![id] = [tasks[id] EXCEPT !.status = "Settled"]]
    BY DEF TimeOut
  <1>4. tasks' \in [TaskId -> Task \cup {NoTask}]
    BY <1>2, <1>3, PutTask
  <1>5. /\ bonds' \in [TaskId -> StakeVault!Bond \cup {StakeVault!NoBond}]
        /\ stakeOf' \in [AgentId -> Nat] /\ slashedOf' \in [AgentId -> Nat]
        /\ balanceOf' \in [Address -> Nat]
        /\ UNCHANGED <<isOperator, allowance>>
    BY ReleaseTypes DEF TimeOut
  <1>6. Known(id) /\ StakeVault!IsOpen(id)
    BY DEF TimeOut, In, StakeVault!Release, StakeVault!PayOut, StakeVault!Close
  <1>7. credits' \in [User -> Nat] /\ feedback' \in [AgentId -> Seq(Feedback)]
    BY <1>6, ConcludeTypes DEF TimeOut
  <1> QED
    BY <1>4, <1>5, <1>7 DEF TimeOut, TypeOK

LEMMA WithdrawTypeOK ==
  ASSUME TypeOK, NEW u \in User, Withdraw(u)
  PROVE  TypeOK'
  <1>1. u \in Address /\ Arena \in Address
    BY DEF Address
  <1>2. balanceOf \in [Address -> Nat] /\ credits[u] \in Nat
    BY DEF TypeOK
  <1>3. balanceOf' \in [Address -> Nat]
    BY <1>1, <1>2, MovedType DEF Withdraw
  <1>4. credits' \in [User -> Nat]
    BY DEF Withdraw, TypeOK
  <1> QED
    BY <1>3, <1>4 DEF Withdraw, TypeOK, vaultVars, registryVars

LEMMA ApproveTypeOK ==
  ASSUME TypeOK, NEW u \in User, NEW s \in {Arena, Vault}, NEW v \in Approvals,
         Approve(u, s, v)
  PROVE  TypeOK'
  <1>1. u \in Address /\ s \in Address /\ v \in Nat
    BY ArenaAssumption DEF Address, Amount
  <1>2. allowance' \in [Address -> [Address -> Nat]]
    BY <1>1 DEF Approve, Token!Approve, TypeOK
  <1> QED
    BY <1>2 DEF Approve, Token!Approve, TypeOK, vaultVars, registryVars, arenaVars

LEMMA RequestValidationTypeOK ==
  ASSUME TypeOK, NEW u \in User, NEW a \in AgentId, NEW hash \in TaskId \X Reasoning,
         NEW v \in {u, Arena}, RequestValidation(v, a, hash)
  PROVE  TypeOK'
  <1>1. [validator |-> v, agentId |-> a, answered |-> FALSE, response |-> 0] \in Request
    BY DEF Request, Address
  <1>2. validations' \in [TaskId \X Reasoning -> Request \cup {NoRequest}]
    BY <1>1 DEF RequestValidation, TypeOK
  <1> QED
    BY <1>2 DEF RequestValidation, TypeOK, tokenVars, vaultVars, arenaVars

LEMMA RegisterAgentTypeOK ==
  ASSUME TypeOK, NEW u \in User, NEW a \in AgentId, RegisterAgent(u, a)
  PROVE  TypeOK'
  BY DEF RegisterAgent, TypeOK, tokenVars, vaultVars, registryVars, arenaVars

LEMMA TransferAgentTypeOK ==
  ASSUME TypeOK, NEW u \in AgentBuyers, NEW a \in AgentId, TransferAgent(a, u)
  PROVE  TypeOK'
  BY ArenaAssumption
  DEF TransferAgent, TypeOK, tokenVars, vaultVars, registryVars, arenaVars

LEMMA SetOperatorTypeOK ==
  ASSUME TypeOK, NEW b \in OperatorSettings, SetOperator(b)
  PROVE  TypeOK'
  BY ArenaAssumption
  DEF SetOperator, StakeVault!SetOperator, TypeOK, registryVars, arenaVars

LEMMA TickTypeOK ==
  ASSUME TypeOK, Tick
  PROVE  TypeOK'
  BY ArenaAssumption
  DEF Tick, TypeOK, tokenVars, vaultVars, registryVars, arenaVars

-----------------------------------------------------------------------------
(* The bonds follow the tasks. *)

LEMMA InitCollateral == Init => Unposted /\ Claimants /\ CollateralFollowsTask
  BY ArenaAssumption
  DEF Init, Unposted, Claimants, CollateralFollowsTask, CollateralOf, NoTask, Held,
      StakeVault!NoBond

\* A step that touches neither tasks nor bonds.
LEMMA ElsewhereCollateral ==
  ASSUME Unposted, Claimants, CollateralFollowsTask, UNCHANGED <<tasks, nextTaskId, bonds>>
  PROVE  Unposted' /\ Claimants' /\ CollateralFollowsTask'
  BY DEF Unposted, Claimants, CollateralFollowsTask, CollateralOf

\* A step on one task that was posted before it need only be right about that task.
LEMMA OneTaskCollateral ==
  ASSUME TypeOK, Unposted, Claimants, CollateralFollowsTask,
         NEW id \in TaskId, Known(id), UNCHANGED nextTaskId,
         \A other \in TaskId \ {id} : tasks'[other] = tasks[other] /\ bonds'[other] = bonds[other],
         tasks'[id].status \in Held \cup {"Settled"} =>
             tasks'[id].resolver \in User /\ tasks'[id].agentId \in AgentId,
         CollateralOf(id)'
  PROVE  Unposted' /\ Claimants' /\ CollateralFollowsTask'
  <1>1. ~(id >= nextTaskId)
    BY DEF Unposted, Known, NoTask
  <1>2. Unposted'
    BY <1>1 DEF Unposted
  <1>3. Claimants'
    BY DEF Claimants
  <1>4. \A other \in TaskId \ {id} : CollateralOf(other)'
    BY DEF CollateralFollowsTask, CollateralOf
  <1>5. CollateralFollowsTask'
    BY <1>4 DEF CollateralFollowsTask
  <1> QED
    BY <1>2, <1>3, <1>5

LEMMA PostTaskCollateral ==
  ASSUME IndInv, NEW u \in User, NEW terms \in Terms, NEW c \in Commitment,
         PostTask(u, terms, c)
  PROVE  Unposted' /\ Claimants' /\ CollateralFollowsTask'
  <1>1. nextTaskId \in TaskId /\ nextTaskId' = nextTaskId + 1 /\ bonds' = bonds
    BY ArenaAssumption DEF PostTask, IndInv, TypeOK, TaskId, vaultVars
  <1>2. \A id \in TaskId \ {nextTaskId} : tasks'[id] = tasks[id]
    BY DEF PostTask, IndInv, TypeOK
  <1>3. tasks'[nextTaskId].status = "Open"
    BY <1>1 DEF PostTask, IndInv, TypeOK, NoTask
  <1>4. bonds[nextTaskId] = StakeVault!NoBond
    <2>1. nextTaskId \in Nat
      BY DEF IndInv, TypeOK
    <2>2. tasks[nextTaskId].status = "Open"
      BY <1>1, <2>1 DEF IndInv, Unposted, NoTask
    <2> QED
      BY <1>1, <2>2 DEF IndInv, CollateralFollowsTask, CollateralOf
  <1>5. Unposted'
    BY <1>1, <1>2 DEF IndInv, Unposted, TypeOK, TaskId
  <1>6. Claimants'
    BY <1>2, <1>3 DEF IndInv, Claimants, Held
  <1>7. CollateralFollowsTask'
    BY <1>1, <1>2, <1>3, <1>4 DEF IndInv, CollateralFollowsTask, CollateralOf, Held
  <1> QED
    BY <1>5, <1>6, <1>7

LEMMA CancelTaskCollateral ==
  ASSUME IndInv, NEW u \in User, NEW id \in TaskId, CancelTask(u, id)
  PROVE  Unposted' /\ Claimants' /\ CollateralFollowsTask'
  <1>1. Known(id) /\ tasks[id].status = "Open"
    BY DEF CancelTask, In
  <1>2. UNCHANGED <<nextTaskId, bonds>>
    BY DEF CancelTask, vaultVars
  <1>3. tasks'[id].status = "Cancelled"
    BY <1>1, KnownTask DEF CancelTask, IndInv, TypeOK, Task
  <1>4. \A other \in TaskId \ {id} : tasks'[other] = tasks[other]
    BY DEF CancelTask, IndInv, TypeOK
  <1>5. CollateralOf(id)'
    BY <1>1, <1>2, <1>3 DEF IndInv, CollateralFollowsTask, CollateralOf, Held
  <1> QED
    BY <1>1, <1>2, <1>3, <1>4, <1>5, OneTaskCollateral DEF IndInv, Held

LEMMA ClaimTaskCollateral ==
  ASSUME IndInv, NEW u \in User, NEW id \in TaskId, NEW a \in AgentId,
         NEW p \in Payments(u, id, a), ClaimTask(u, id, a, p)
  PROVE  Unposted' /\ Claimants' /\ CollateralFollowsTask'
  <1>1. Known(id) /\ tasks[id] \in Task
    BY KnownTask DEF ClaimTask, In, IndInv
  <1>2. UNCHANGED nextTaskId
    BY DEF ClaimTask
  <1>3. /\ tasks'[id].status = "Claimed" /\ tasks'[id].resolver = u
        /\ tasks'[id].agentId = a /\ tasks'[id].slashAmount = tasks[id].slashAmount
    BY <1>1 DEF ClaimTask, IndInv, TypeOK, Task
  <1>4. /\ bonds'[id].agentId = a /\ bonds'[id].depositor = u
        /\ bonds'[id].amount = tasks[id].slashAmount /\ bonds'[id].closed = FALSE
    <2> DEFINE b == [agentId |-> a, depositor |-> u, amount |-> tasks[id].slashAmount,
                     closed |-> FALSE]
    <2>1. bonds' = [bonds EXCEPT ![id] = b]
      BY DEF ClaimTask, StakeVault!BondFor
    <2> HIDE DEF b
    <2>2. bonds'[id] = b
      BY <2>1 DEF IndInv, TypeOK
    <2> QED
      BY <2>2 DEF b
  <1>5. \A other \in TaskId \ {id} : tasks'[other] = tasks[other] /\ bonds'[other] = bonds[other]
    BY DEF ClaimTask, StakeVault!BondFor, IndInv, TypeOK
  <1>6. CollateralOf(id)'
    BY <1>3, <1>4 DEF CollateralOf, Held
  <1> QED
    BY <1>1, <1>2, <1>3, <1>5, <1>6, OneTaskCollateral DEF IndInv

LEMMA CommitVerdictCollateral ==
  ASSUME IndInv, NEW u \in User, NEW id \in TaskId, NEW v \in Answer, NEW r \in Reasoning,
         CommitVerdict(u, id, v, r)
  PROVE  Unposted' /\ Claimants' /\ CollateralFollowsTask'
  <1>1. Known(id) /\ tasks[id] \in Task /\ tasks[id].status = "Claimed"
    BY KnownTask DEF CommitVerdict, In, IndInv
  <1>2. UNCHANGED <<nextTaskId, bonds>>
    BY DEF CommitVerdict, vaultVars
  <1>3. /\ tasks'[id].status = "Committed" /\ tasks'[id].resolver = tasks[id].resolver
        /\ tasks'[id].agentId = tasks[id].agentId
        /\ tasks'[id].slashAmount = tasks[id].slashAmount
    BY <1>1 DEF CommitVerdict, IndInv, TypeOK, Task
  <1>4. \A other \in TaskId \ {id} : tasks'[other] = tasks[other]
    BY DEF CommitVerdict, IndInv, TypeOK
  <1>5. tasks[id].resolver \in User /\ tasks[id].agentId \in AgentId
    BY <1>1 DEF IndInv, Claimants, Held
  <1>6. CollateralOf(id)'
    BY <1>1, <1>2, <1>3 DEF IndInv, CollateralFollowsTask, CollateralOf, Held
  <1> QED
    BY <1>1, <1>2, <1>3, <1>4, <1>5, <1>6, OneTaskCollateral DEF IndInv

\* Every ending settles the record and closes the bond, and leaves the parties alone.
LEMMA EndingCollateral ==
  ASSUME IndInv, NEW id \in TaskId, Known(id), tasks[id].status \in Held,
         UNCHANGED nextTaskId, StakeVault!PayOut(Arena, id, Arena),
         tasks'[id].status = "Settled", tasks'[id].resolver = tasks[id].resolver,
         tasks'[id].agentId = tasks[id].agentId,
         tasks'[id].slashAmount = tasks[id].slashAmount,
         \A other \in TaskId \ {id} : tasks'[other] = tasks[other]
  PROVE  Unposted' /\ Claimants' /\ CollateralFollowsTask'
  <1>1. bonds[id] \in StakeVault!Bond
    BY OpenBond DEF StakeVault!PayOut, StakeVault!Close, IndInv
  <1>2. bonds'[id] = [bonds[id] EXCEPT !.closed = TRUE]
    BY DEF StakeVault!PayOut, StakeVault!Close, IndInv, TypeOK
  <1>3. /\ bonds'[id].agentId = bonds[id].agentId
        /\ bonds'[id].depositor = bonds[id].depositor
        /\ bonds'[id].amount = bonds[id].amount
        /\ bonds'[id].closed = TRUE
    BY <1>1, <1>2 DEF StakeVault!Bond
  <1>4. \A other \in TaskId \ {id} : bonds'[other] = bonds[other]
    BY DEF StakeVault!PayOut, StakeVault!Close, IndInv, TypeOK
  <1>5. tasks[id].resolver \in User /\ tasks[id].agentId \in AgentId
    BY DEF IndInv, Claimants
  <1>6. CollateralOf(id)'
    BY <1>3 DEF IndInv, CollateralFollowsTask, CollateralOf, Held
  <1> QED
    BY <1>4, <1>5, <1>6, OneTaskCollateral DEF IndInv

LEMMA SettleCollateral ==
  ASSUME IndInv, NEW u \in User, NEW id \in TaskId, NEW v \in Answer, Settle(u, id, v)
  PROVE  Unposted' /\ Claimants' /\ CollateralFollowsTask'
  <1>1. Known(id) /\ tasks[id] \in Task /\ tasks[id].status \in Held
    BY KnownTask DEF Settle, In, IndInv, Held
  <1>2. UNCHANGED nextTaskId /\ StakeVault!PayOut(Arena, id, Arena)
    BY DEF Settle, StakeVault!Release, StakeVault!Slash
  <1>3. /\ tasks'[id].status = "Settled" /\ tasks'[id].resolver = tasks[id].resolver
        /\ tasks'[id].agentId = tasks[id].agentId
        /\ tasks'[id].slashAmount = tasks[id].slashAmount
    BY <1>1 DEF Settle, IndInv, TypeOK, Task
  <1>4. \A other \in TaskId \ {id} : tasks'[other] = tasks[other]
    BY DEF Settle, IndInv, TypeOK
  <1> QED
    BY <1>1, <1>2, <1>3, <1>4, EndingCollateral

LEMMA TimeOutCollateral ==
  ASSUME IndInv, NEW id \in TaskId, NEW status \in Held, NEW how, TimeOut(id, status, how)
  PROVE  Unposted' /\ Claimants' /\ CollateralFollowsTask'
  <1>1. Known(id) /\ tasks[id] \in Task /\ tasks[id].status \in Held
    BY KnownTask DEF TimeOut, In, IndInv
  <1>2. UNCHANGED nextTaskId /\ StakeVault!PayOut(Arena, id, Arena)
    BY DEF TimeOut, StakeVault!Release
  <1>3. /\ tasks'[id].status = "Settled" /\ tasks'[id].resolver = tasks[id].resolver
        /\ tasks'[id].agentId = tasks[id].agentId
        /\ tasks'[id].slashAmount = tasks[id].slashAmount
    BY <1>1 DEF TimeOut, IndInv, TypeOK, Task
  <1>4. \A other \in TaskId \ {id} : tasks'[other] = tasks[other]
    BY DEF TimeOut, IndInv, TypeOK
  <1> QED
    BY <1>1, <1>2, <1>3, <1>4, EndingCollateral

-----------------------------------------------------------------------------
(* The theorems. *)

\* Every transaction keeps the inductive invariant.
LEMMA NextIndInv == IndInv /\ [Next]_vars => IndInv'
  <1> SUFFICES ASSUME IndInv, [Next]_vars
               PROVE  TypeOK' /\ Unposted' /\ Claimants' /\ CollateralFollowsTask'
    BY DEF IndInv
  <1> USE DEF IndInv
  <1>1. ASSUME NEW u \in User, NEW terms \in Terms, NEW c \in Commitment,
               PostTask(u, terms, c)
        PROVE  TypeOK' /\ Unposted' /\ Claimants' /\ CollateralFollowsTask'
    BY <1>1, PostTaskTypeOK, PostTaskCollateral
  <1>2. ASSUME NEW u \in User, NEW id \in TaskId, CancelTask(u, id)
        PROVE  TypeOK' /\ Unposted' /\ Claimants' /\ CollateralFollowsTask'
    BY <1>2, CancelTaskTypeOK, CancelTaskCollateral
  <1>3. ASSUME NEW u \in User, NEW id \in TaskId, NEW a \in AgentId,
               NEW v \in {tasks[id].fee} \cup OtherValues, SignPayment(u, id, a, v)
        PROVE  TypeOK' /\ Unposted' /\ Claimants' /\ CollateralFollowsTask'
    <2>1. UNCHANGED <<tasks, nextTaskId, bonds>>
      BY <1>3 DEF SignPayment, arenaVars, vaultVars
    <2> QED
      BY <1>3, <2>1, SignPaymentTypeOK, ElsewhereCollateral
  <1>4. ASSUME NEW u \in User, NEW id \in TaskId, NEW a \in AgentId,
               NEW p \in Payments(u, id, a), ClaimTask(u, id, a, p)
        PROVE  TypeOK' /\ Unposted' /\ Claimants' /\ CollateralFollowsTask'
    BY <1>4, ClaimTaskTypeOK, ClaimTaskCollateral
  <1>5. ASSUME NEW auth \in signed, SubmitAuthorization(auth)
        PROVE  TypeOK' /\ Unposted' /\ Claimants' /\ CollateralFollowsTask'
    <2>1. UNCHANGED <<tasks, nextTaskId, bonds>>
      BY <1>5 DEF SubmitAuthorization, arenaVars, vaultVars
    <2> QED
      BY <1>5, <2>1, SubmitAuthorizationTypeOK, ElsewhereCollateral
  <1>6. ASSUME NEW u \in User, NEW id \in TaskId, NEW v \in Answer, NEW r \in Reasoning,
               CommitVerdict(u, id, v, r)
        PROVE  TypeOK' /\ Unposted' /\ Claimants' /\ CollateralFollowsTask'
    BY <1>6, CommitVerdictTypeOK, CommitVerdictCollateral
  <1>7. ASSUME NEW u \in User, NEW id \in TaskId, NEW v \in Answer, Settle(u, id, v)
        PROVE  TypeOK' /\ Unposted' /\ Claimants' /\ CollateralFollowsTask'
    BY <1>7, SettleTypeOK, SettleCollateral
  <1>8. ASSUME NEW id \in TaskId, TimeoutCommit(id)
        PROVE  TypeOK' /\ Unposted' /\ Claimants' /\ CollateralFollowsTask'
    <2>1. TimeOut(id, "Claimed", "commit-timeout")
      BY <1>8 DEF TimeoutCommit
    <2> QED
      BY <2>1, TimeOutTypeOK, TimeOutCollateral DEF Held
  <1>9. ASSUME NEW id \in TaskId, TimeoutSettle(id)
        PROVE  TypeOK' /\ Unposted' /\ Claimants' /\ CollateralFollowsTask'
    <2>1. TimeOut(id, "Committed", "reveal-timeout")
      BY <1>9 DEF TimeoutSettle
    <2> QED
      BY <2>1, TimeOutTypeOK, TimeOutCollateral DEF Held
  <1>10. ASSUME NEW u \in User, Withdraw(u)
         PROVE  TypeOK' /\ Unposted' /\ Claimants' /\ CollateralFollowsTask'
    <2>1. UNCHANGED <<tasks, nextTaskId, bonds>>
      BY <1>10 DEF Withdraw, vaultVars
    <2> QED
      BY <1>10, <2>1, WithdrawTypeOK, ElsewhereCollateral
  <1>11. ASSUME NEW u \in User, NEW s \in {Arena, Vault}, NEW v \in Approvals,
                Approve(u, s, v)
         PROVE  TypeOK' /\ Unposted' /\ Claimants' /\ CollateralFollowsTask'
    <2>1. UNCHANGED <<tasks, nextTaskId, bonds>>
      BY <1>11 DEF Approve, arenaVars, vaultVars
    <2> QED
      BY <1>11, <2>1, ApproveTypeOK, ElsewhereCollateral
  <1>12. ASSUME NEW u \in User, NEW a \in AgentId, RegisterAgent(u, a)
         PROVE  TypeOK' /\ Unposted' /\ Claimants' /\ CollateralFollowsTask'
    <2>1. UNCHANGED <<tasks, nextTaskId, bonds>>
      BY <1>12 DEF RegisterAgent, arenaVars, vaultVars
    <2> QED
      BY <1>12, <2>1, RegisterAgentTypeOK, ElsewhereCollateral
  <1>13. ASSUME NEW a \in AgentId, NEW u \in AgentBuyers, TransferAgent(a, u)
         PROVE  TypeOK' /\ Unposted' /\ Claimants' /\ CollateralFollowsTask'
    <2>1. UNCHANGED <<tasks, nextTaskId, bonds>>
      BY <1>13 DEF TransferAgent, arenaVars, vaultVars
    <2> QED
      BY <1>13, <2>1, TransferAgentTypeOK, ElsewhereCollateral
  <1>14. ASSUME NEW u \in Requesters, NEW a \in AgentId, NEW hash \in TaskId \X Reasoning,
                NEW v \in {u, Arena}, RequestValidation(v, a, hash)
         PROVE  TypeOK' /\ Unposted' /\ Claimants' /\ CollateralFollowsTask'
    <2>1. UNCHANGED <<tasks, nextTaskId, bonds>>
      BY <1>14 DEF RequestValidation, arenaVars, vaultVars
    <2>2. u \in User
      BY ArenaAssumption
    <2> QED
      BY <1>14, <2>1, <2>2, RequestValidationTypeOK, ElsewhereCollateral
  <1>15. ASSUME NEW b \in OperatorSettings, SetOperator(b)
         PROVE  TypeOK' /\ Unposted' /\ Claimants' /\ CollateralFollowsTask'
    <2>1. UNCHANGED <<tasks, nextTaskId, bonds>>
      BY <1>15 DEF SetOperator, StakeVault!SetOperator, arenaVars
    <2> QED
      BY <1>15, <2>1, SetOperatorTypeOK, ElsewhereCollateral
  <1>16. CASE Tick
    <2>1. UNCHANGED <<tasks, nextTaskId, bonds>>
      BY <1>16 DEF Tick, arenaVars, vaultVars
    <2> QED
      BY <1>16, <2>1, TickTypeOK, ElsewhereCollateral
  <1>17. CASE UNCHANGED vars
    <2>1. TypeOK'
      BY <1>17 DEF TypeOK, vars, tokenVars, vaultVars, registryVars, arenaVars
    <2>2. UNCHANGED <<tasks, nextTaskId, bonds>>
      BY <1>17 DEF vars, arenaVars, vaultVars
    <2> QED
      BY <2>1, <2>2, ElsewhereCollateral
  <1> HIDE DEF IndInv
  <1> QED
    BY <1>1, <1>2, <1>3, <1>4, <1>5, <1>6, <1>7, <1>8, <1>9, <1>10, <1>11, <1>12,
       <1>13, <1>14, <1>15, <1>16, <1>17 DEF Next

\* In every reachable state the contracts' records are well typed, unposted tasks are
\* default records and every claimed task names a user and an agent.
THEOREM AlwaysIndInv == Spec => []IndInv
  <1>1. Init => IndInv
    BY InitTypeOK, InitCollateral DEF IndInv
  <1> QED
    BY <1>1, NextIndInv, PTL DEF Spec

\* The arena's, the vault's, the token's and the registries' state is well typed
\* whatever the users do (AgentArena.sol, AgentStakeVault.sol, MockERC20.sol).
THEOREM TypeCorrect == Spec => []TypeOK
  <1>1. IndInv => TypeOK
    BY DEF IndInv
  <1> QED
    BY <1>1, AlwaysIndInv, PTL

\* A task is bonded exactly from its claim to its end, by its resolver, for its agent
\* and for the amount posted, with any number of tasks, agents and users racing
\* (AgentArena.sol:29-31, 254, 307-311, 342, 360).
THEOREM BondsFollowTasks == Spec => []CollateralFollowsTask
  <1>1. IndInv => CollateralFollowsTask
    BY DEF IndInv
  <1> QED
    BY <1>1, AlwaysIndInv, PTL

-----------------------------------------------------------------------------
(* What a transaction may never do to a task: undo what a party has fixed, decide it *)
(* on the wrong side of its deadline, or slash without an opened truth.              *)

\* What a task's record holds at each stage of its life.
Stages ==
    \A id \in TaskId :
        /\ tasks[id].status \in {"Open", "Cancelled"} => tasks[id].resolver = NoOne
        /\ tasks[id].status \in {"Open", "Cancelled", "Claimed"} => tasks[id].committed = "None"
        /\ tasks[id].status = "Committed" => tasks[id].committed \in Answer
        /\ tasks[id].status # "Settled" => tasks[id].truth = "None"

-----------------------------------------------------------------------------
(* Which steps touch a task or a slash record at all. *)

LEMMA StepKinds ==
  ASSUME [Next]_vars
  PROVE  \/ UNCHANGED <<tasks, slashedOf>>
         \/ \E u \in User, terms \in Terms, c \in Commitment : PostTask(u, terms, c)
         \/ \E u \in User, id \in TaskId : CancelTask(u, id)
         \/ \E u \in User, id \in TaskId, a \in AgentId :
                \E p \in Payments(u, id, a) : ClaimTask(u, id, a, p)
         \/ \E u \in User, id \in TaskId, v \in Answer, r \in Reasoning :
                CommitVerdict(u, id, v, r)
         \/ \E u \in User, id \in TaskId, v \in Answer : Settle(u, id, v)
         \/ \E id \in TaskId : TimeoutCommit(id)
         \/ \E id \in TaskId : TimeoutSettle(id)
  <1>1. ASSUME NEW u \in User, NEW id \in TaskId, NEW a \in AgentId,
               NEW v \in {tasks[id].fee} \cup OtherValues, SignPayment(u, id, a, v)
        PROVE  UNCHANGED <<tasks, slashedOf>>
    BY <1>1 DEF SignPayment, arenaVars, vaultVars
  <1>2. ASSUME NEW auth \in signed, SubmitAuthorization(auth)
        PROVE  UNCHANGED <<tasks, slashedOf>>
    BY <1>2 DEF SubmitAuthorization, arenaVars, vaultVars
  <1>3. ASSUME NEW u \in User, Withdraw(u)
        PROVE  UNCHANGED <<tasks, slashedOf>>
    BY <1>3 DEF Withdraw, vaultVars
  <1>4. ASSUME NEW u \in User, NEW s \in {Arena, Vault}, NEW v \in Approvals, Approve(u, s, v)
        PROVE  UNCHANGED <<tasks, slashedOf>>
    BY <1>4 DEF Approve, arenaVars, vaultVars
  <1>5. ASSUME NEW u \in User, NEW a \in AgentId, RegisterAgent(u, a)
        PROVE  UNCHANGED <<tasks, slashedOf>>
    BY <1>5 DEF RegisterAgent, arenaVars, vaultVars
  <1>6. ASSUME NEW a \in AgentId, NEW u \in AgentBuyers, TransferAgent(a, u)
        PROVE  UNCHANGED <<tasks, slashedOf>>
    BY <1>6 DEF TransferAgent, arenaVars, vaultVars
  <1>7. ASSUME NEW u \in Requesters, NEW a \in AgentId, NEW hash \in TaskId \X Reasoning,
               NEW v \in {u, Arena}, RequestValidation(v, a, hash)
        PROVE  UNCHANGED <<tasks, slashedOf>>
    BY <1>7 DEF RequestValidation, arenaVars, vaultVars
  <1>8. ASSUME NEW b \in OperatorSettings, SetOperator(b)
        PROVE  UNCHANGED <<tasks, slashedOf>>
    BY <1>8 DEF SetOperator, StakeVault!SetOperator, arenaVars
  <1>9. Tick => UNCHANGED <<tasks, slashedOf>>
    BY DEF Tick, arenaVars, vaultVars
  <1>10. UNCHANGED vars => UNCHANGED <<tasks, slashedOf>>
    BY DEF vars, arenaVars, vaultVars
  <1> QED
    BY <1>1, <1>2, <1>3, <1>4, <1>5, <1>6, <1>7, <1>8, <1>9, <1>10 DEF Next

-----------------------------------------------------------------------------
(* How one task's record changes. *)

\* A step changes at most this task's record.
OthersKept(id) == \A other \in TaskId \ {id} : tasks'[other] = tasks[other]

Posted(id) ==
    /\ tasks[id] = NoTask /\ tasks'[id].poster \in User /\ tasks'[id].status = "Open"
    /\ tasks'[id].agentId = 0 /\ tasks'[id].resolver = NoOne
    /\ tasks'[id].committed = "None" /\ tasks'[id].truth = "None"

\* The terms and the sealed truth of the post stay.
SameTerms(id) ==
    LET t == tasks[id]
        u == tasks'[id]
    IN  /\ u.poster = t.poster /\ u.bounty = t.bounty /\ u.fee = t.fee
        /\ u.slashAmount = t.slashAmount /\ u.truthCommit = t.truthCommit

SameClaim(id) ==
    /\ tasks'[id].resolver = tasks[id].resolver /\ tasks'[id].agentId = tasks[id].agentId
    /\ tasks'[id].commitDeadline = tasks[id].commitDeadline

SameVerdict(id) ==
    /\ tasks'[id].committed = tasks[id].committed
    /\ tasks'[id].reasoningHash = tasks[id].reasoningHash
    /\ tasks'[id].settleDeadline = tasks[id].settleDeadline

SameTruth(id) == tasks'[id].truth = tasks[id].truth

Cancelled(id) ==
    /\ tasks[id].status = "Open" /\ tasks'[id].status = "Cancelled"
    /\ SameTerms(id) /\ SameClaim(id) /\ SameVerdict(id) /\ SameTruth(id)

Claimed(id) ==
    /\ tasks[id].status = "Open" /\ tasks'[id].status = "Claimed"
    /\ SameTerms(id) /\ SameVerdict(id) /\ SameTruth(id)

Committed(id) ==
    /\ tasks[id].status = "Claimed" /\ tasks'[id].status = "Committed"
    /\ now <= tasks[id].commitDeadline
    /\ tasks'[id].committed \in Answer
    /\ SameTerms(id) /\ SameClaim(id) /\ SameTruth(id)

Revealed(id) ==
    /\ tasks[id].status = "Committed" /\ tasks'[id].status = "Settled"
    /\ now <= tasks[id].settleDeadline
    /\ tasks'[id].truth \in Answer /\ tasks'[id].truth = tasks[id].truthCommit
    /\ SameTerms(id) /\ SameClaim(id) /\ SameVerdict(id)

TimedOut(id) ==
    /\ \/ tasks[id].status = "Claimed" /\ now > tasks[id].commitDeadline
       \/ tasks[id].status = "Committed" /\ now > tasks[id].settleDeadline
    /\ tasks'[id].status = "Settled"
    /\ SameTerms(id) /\ SameClaim(id) /\ SameVerdict(id) /\ SameTruth(id)

LEMMA PostChange ==
  ASSUME IndInv, NEW u \in User, NEW terms \in Terms, NEW c \in Commitment,
         PostTask(u, terms, c)
  PROVE  /\ nextTaskId \in TaskId /\ Posted(nextTaskId) /\ OthersKept(nextTaskId)
         /\ tasks'[nextTaskId].poster = u /\ tasks'[nextTaskId].bounty = terms.bounty
  <1>1. nextTaskId \in TaskId
    BY ArenaAssumption DEF PostTask, IndInv, TypeOK, TaskId
  <1>2. tasks[nextTaskId] = NoTask
    BY <1>1 DEF IndInv, Unposted, TypeOK
  <1>3. tasks'[nextTaskId] = [NoTask EXCEPT !.poster = u, !.bounty = terms.bounty,
            !.fee = terms.fee, !.slashAmount = terms.slashAmount, !.truthCommit = c,
            !.status = "Open"]
    BY <1>1 DEF PostTask, IndInv, TypeOK
  <1>4. OthersKept(nextTaskId)
    BY DEF PostTask, IndInv, TypeOK, OthersKept
  <1> QED
    BY <1>1, <1>2, <1>3, <1>4 DEF Posted, NoTask

LEMMA CancelChange ==
  ASSUME IndInv, NEW u \in User, NEW id \in TaskId, CancelTask(u, id)
  PROVE  Cancelled(id) /\ OthersKept(id)
  <1>1. tasks[id] \in Task /\ tasks[id].status = "Open"
    BY KnownTask DEF CancelTask, In, IndInv
  <1>2. tasks'[id] = [tasks[id] EXCEPT !.status = "Cancelled"] /\ OthersKept(id)
    BY DEF CancelTask, IndInv, TypeOK, OthersKept
  <1> QED
    BY <1>1, <1>2 DEF Cancelled, SameTerms, SameClaim, SameVerdict, SameTruth, Task

LEMMA ClaimChange ==
  ASSUME IndInv, NEW u \in User, NEW id \in TaskId, NEW a \in AgentId,
         NEW p \in Payments(u, id, a), ClaimTask(u, id, a, p)
  PROVE  /\ Claimed(id) /\ OthersKept(id)
         /\ tasks'[id].resolver = u /\ tasks'[id].agentId = a
  <1>1. tasks[id] \in Task /\ tasks[id].status = "Open"
    BY KnownTask DEF ClaimTask, In, IndInv
  <1>2. /\ tasks'[id] = [tasks[id] EXCEPT !.status = "Claimed", !.agentId = a,
                             !.resolver = u, !.commitDeadline = now + CommitWindow]
        /\ OthersKept(id)
    BY DEF ClaimTask, IndInv, TypeOK, OthersKept
  <1> QED
    BY <1>1, <1>2 DEF Claimed, SameTerms, SameVerdict, SameTruth, Task

LEMMA CommitChange ==
  ASSUME IndInv, NEW u \in User, NEW id \in TaskId, NEW v \in Answer, NEW r \in Reasoning,
         CommitVerdict(u, id, v, r)
  PROVE  /\ Committed(id) /\ OthersKept(id)
         /\ tasks'[id].committed = v /\ tasks'[id].reasoningHash = r
  <1>1. tasks[id] \in Task /\ tasks[id].status = "Claimed" /\ now <= tasks[id].commitDeadline
    BY KnownTask DEF CommitVerdict, In, MayCommit, IndInv
  <1>2. /\ tasks'[id] = [tasks[id] EXCEPT !.committed = v, !.reasoningHash = r,
                             !.status = "Committed", !.settleDeadline = now + SettleWindow]
        /\ OthersKept(id)
    BY DEF CommitVerdict, IndInv, TypeOK, OthersKept
  <1> QED
    BY <1>1, <1>2 DEF Committed, SameTerms, SameClaim, SameTruth, Task

LEMMA SettleChange ==
  ASSUME IndInv, NEW u \in User, NEW id \in TaskId, NEW v \in Answer, Settle(u, id, v)
  PROVE  Revealed(id) /\ OthersKept(id) /\ tasks'[id].truth = v
  <1>1. /\ tasks[id] \in Task /\ tasks[id].status = "Committed"
        /\ now <= tasks[id].settleDeadline /\ v = tasks[id].truthCommit
    BY KnownTask DEF Settle, In, Opens, IndInv
  <1>2. PICK right : tasks'[id] = [tasks[id] EXCEPT !.truth = v, !.correct = right,
                                       !.status = "Settled"]
    BY DEF Settle, IndInv, TypeOK
  <1>3. OthersKept(id)
    BY DEF Settle, IndInv, TypeOK, OthersKept
  <1> QED
    BY <1>1, <1>2, <1>3 DEF Revealed, SameTerms, SameClaim, SameVerdict, Task

LEMMA TimeOutChange ==
  ASSUME IndInv, NEW id \in TaskId, TimeoutCommit(id) \/ TimeoutSettle(id)
  PROVE  TimedOut(id) /\ OthersKept(id)
  <1>1. PICK status, how :
            /\ TimeOut(id, status, how)
            /\ \/ status = "Claimed" /\ now > tasks[id].commitDeadline
               \/ status = "Committed" /\ now > tasks[id].settleDeadline
    BY DEF TimeoutCommit, TimeoutSettle
  <1>2. tasks[id] \in Task /\ tasks[id].status = status
    BY <1>1, KnownTask DEF TimeOut, In, IndInv
  <1>3. tasks'[id] = [tasks[id] EXCEPT !.status = "Settled"] /\ OthersKept(id)
    BY <1>1 DEF TimeOut, IndInv, TypeOK, OthersKept
  <1> QED
    BY <1>1, <1>2, <1>3 DEF TimedOut, SameTerms, SameClaim, SameVerdict, SameTruth, Task

LEMMA TaskChange ==
  ASSUME IndInv, [Next]_vars, NEW id \in TaskId
  PROVE  \/ tasks'[id] = tasks[id]
         \/ Posted(id) \/ Cancelled(id) \/ Claimed(id) \/ Committed(id)
         \/ Revealed(id) \/ TimedOut(id)
  <1>1. ASSUME NEW j \in TaskId, OthersKept(j),
               \/ Posted(j) \/ Cancelled(j) \/ Claimed(j) \/ Committed(j)
               \/ Revealed(j) \/ TimedOut(j)
        PROVE  \/ tasks'[id] = tasks[id]
               \/ Posted(id) \/ Cancelled(id) \/ Claimed(id) \/ Committed(id)
               \/ Revealed(id) \/ TimedOut(id)
    BY <1>1 DEF OthersKept
  <1>2. \/ UNCHANGED tasks
        \/ \E j \in TaskId : /\ OthersKept(j)
                            /\ \/ Posted(j) \/ Cancelled(j) \/ Claimed(j) \/ Committed(j)
                               \/ Revealed(j) \/ TimedOut(j)
    BY StepKinds, PostChange, CancelChange, ClaimChange, CommitChange, SettleChange,
       TimeOutChange
  <1> QED
    BY <1>1, <1>2

-----------------------------------------------------------------------------
LEMMA InitStages == Init => Stages
  BY DEF Init, Stages, NoTask

LEMMA NextStages ==
  ASSUME IndInv, Stages, [Next]_vars
  PROVE  Stages'
  <1> SUFFICES ASSUME NEW id \in TaskId
               PROVE  /\ tasks'[id].status \in {"Open", "Cancelled"} =>
                             tasks'[id].resolver = NoOne
                      /\ tasks'[id].status \in {"Open", "Cancelled", "Claimed"} =>
                             tasks'[id].committed = "None"
                      /\ tasks'[id].status = "Committed" => tasks'[id].committed \in Answer
                      /\ tasks'[id].status # "Settled" => tasks'[id].truth = "None"
    BY DEF Stages
  <1> QED
    BY TaskChange
    DEF Stages, Posted, Cancelled, Claimed, Committed, Revealed, TimedOut,
        SameClaim, SameVerdict, SameTruth

LEMMA AlwaysStages == Spec => [](IndInv /\ Stages)
  <1>1. Init => IndInv /\ Stages
    BY InitTypeOK, InitCollateral, InitStages DEF IndInv
  <1>2. IndInv /\ Stages /\ [Next]_vars => (IndInv /\ Stages)'
    BY NextIndInv, NextStages
  <1> QED
    BY <1>1, <1>2, PTL DEF Spec

-----------------------------------------------------------------------------
(* The theorems. *)

\* No transaction changes what a party has fixed: terms and sealed truth from the post,
\* claimant and deadline from the claim, verdict and reasoning from the commit,
\* everything from the end (AgentArena.sol:190-192, 261-264).
THEOREM FixedStaysFixed == Spec => CommitmentsAreFinal
  <1>1. ASSUME IndInv, Stages, [Next]_vars, NEW id \in TaskId
        PROVE  KeepsWhatIsFixed(id)
    <2> USE DEF KeepsWhatIsFixed
    <2>1. CASE tasks'[id] = tasks[id]
      BY <2>1
    <2>2. CASE Posted(id)
      BY <2>2 DEF Posted, Known, NoTask
    <2>3. CASE Cancelled(id) \/ Committed(id) \/ Revealed(id) \/ TimedOut(id)
      BY <1>1, <2>3
      DEF Cancelled, Committed, Revealed, TimedOut, SameTerms, SameClaim, SameVerdict, Stages
    <2>4. CASE Claimed(id)
      BY <1>1, <2>4 DEF Claimed, SameTerms, SameVerdict, Stages
    <2> QED
      BY <1>1, <2>1, <2>2, <2>3, <2>4, TaskChange
  <1>2. IndInv /\ Stages /\ [Next]_vars => [\A id \in TaskId : KeepsWhatIsFixed(id)]_vars
    BY <1>1
  <1> QED
    BY <1>2, AlwaysStages, PTL DEF Spec, CommitmentsAreFinal

\* Up to a deadline only the party it binds moves the task, after it only the timeout
\* does, so the two never both can (AgentArena.sol:269, 294, 339, 357).
THEOREM DeadlinesSplit == Spec => DeadlinesDecide
  <1>1. ASSUME IndInv, Stages, [Next]_vars, NEW id \in TaskId
        PROVE  MovesInTime(id)
    <2> USE DEF MovesInTime
    <2>1. tasks[id] = NoTask \/ tasks[id] \in Task
      BY <1>1 DEF IndInv, TypeOK
    <2>2. now \in Nat /\ (tasks[id] \in Task =>
              tasks[id].commitDeadline \in Nat /\ tasks[id].settleDeadline \in Nat)
      BY <1>1 DEF IndInv, TypeOK, Task, Deadline
    <2>3. CASE Posted(id)
      BY <2>3 DEF Posted, NoTask
    <2>4. CASE Cancelled(id) \/ Claimed(id)
      BY <2>4 DEF Cancelled, Claimed
    <2>5. CASE Committed(id)
      BY <2>5 DEF Committed
    <2>6. CASE Revealed(id)
      BY <2>6 DEF Revealed, Answer
    <2>7. CASE TimedOut(id)
      <3>1. tasks[id].truth = "None" /\ tasks[id] \in Task
        BY <1>1, <2>1, <2>7 DEF TimedOut, Stages, NoTask
      <3> QED
        BY <2>2, <2>7, <3>1 DEF TimedOut, SameTruth
    <2> QED
      BY <1>1, <2>3, <2>4, <2>5, <2>6, <2>7, TaskChange
  <1>2. IndInv /\ Stages /\ [Next]_vars => [\A id \in TaskId : MovesInTime(id)]_vars
    BY <1>1
  <1> QED
    BY <1>2, AlwaysStages, PTL DEF Spec, DeadlinesDecide

\* An agent's record of slashes grows only in a reveal, made in time by the poster, that
\* opens the commitment of the post and differs from the verdict committed in between,
\* on a task that agent claimed (AgentArena.sol:20-22, 289-312).
THEOREM SlashOnlyOpenedTruth == Spec => SlashNeedsOpenedTruth
  <1>1. ASSUME IndInv, [Next]_vars, NEW a \in AgentId, slashedOf'[a] # slashedOf[a]
        PROVE  RevealAgainst(a)
    <2>1. PICK u \in User, id \in TaskId, v \in Answer : Settle(u, id, v)
      <3>1. ASSUME NEW u \in User, NEW terms \in Terms, NEW c \in Commitment,
                   PostTask(u, terms, c)
            PROVE  UNCHANGED slashedOf
        BY <3>1 DEF PostTask, vaultVars
      <3>2. ASSUME NEW u \in User, NEW id \in TaskId, CancelTask(u, id)
            PROVE  UNCHANGED slashedOf
        BY <3>2 DEF CancelTask, vaultVars
      <3>3. ASSUME NEW u \in User, NEW id \in TaskId, NEW b \in AgentId,
                   NEW p \in Payments(u, id, b), ClaimTask(u, id, b, p)
            PROVE  UNCHANGED slashedOf
        BY <3>3 DEF ClaimTask, StakeVault!BondFor
      <3>4. ASSUME NEW u \in User, NEW id \in TaskId, NEW v \in Answer, NEW r \in Reasoning,
                   CommitVerdict(u, id, v, r)
            PROVE  UNCHANGED slashedOf
        BY <3>4 DEF CommitVerdict, vaultVars
      <3>5. ASSUME NEW id \in TaskId, TimeoutCommit(id) \/ TimeoutSettle(id)
            PROVE  UNCHANGED slashedOf
        BY <3>5 DEF TimeoutCommit, TimeoutSettle, TimeOut, StakeVault!Release
      <3> QED
        BY <1>1, <3>1, <3>2, <3>3, <3>4, <3>5, StepKinds
    <2>2. Revealed(id) /\ tasks'[id].truth = v
      BY <1>1, <2>1, SettleChange
    <2>3. tasks[id].status = "Committed" /\ v = tasks[id].truthCommit
      BY <2>2 DEF Revealed
    <2>4. Outcome(id, v) = "wrong" /\ StakeVault!Slash(Arena, id, Arena)
      BY <1>1, <2>1 DEF Settle, StakeVault!Release
    <2>5. v # tasks[id].committed
      BY <2>4 DEF Outcome
    <2>6. tasks[id].agentId = a
      <3>1. bonds[id].agentId = a
        BY <1>1, <2>4 DEF StakeVault!Slash, IndInv, TypeOK
      <3> QED
        BY <1>1, <2>3, <3>1 DEF IndInv, CollateralFollowsTask, CollateralOf, Held
    <2> QED
      BY <2>2, <2>3, <2>5, <2>6 DEF RevealAgainst, Revealed
  <1>2. IndInv /\ [Next]_vars =>
            [\A a \in AgentId : slashedOf'[a] # slashedOf[a] => RevealAgainst(a)]_vars
    BY <1>1
  <1> QED
    BY <1>2, AlwaysIndInv, PTL DEF Spec, SlashNeedsOpenedTruth

-----------------------------------------------------------------------------
(* What the sums rest on: the signatures and the payments made with them. *)

\* Payers sign to the arena, and name one amount for one nonce.
SignedForArena == \A s \in signed : s.from \in User /\ s.to = Arena

OneValue ==
    \A s, t \in signed : s.from = t.from /\ s.nonce = t.nonce => s.value = t.value

\* A used nonce was signed for.
UsedWasSigned ==
    \A u \in User : \A n \in authorizationState[u] :
        \E s \in signed : s.from = u /\ s.nonce = n

\* A claim that cost a fee used the nonce it was signed under.
ClaimsWerePaid ==
    \A id \in TaskId :
        tasks[id].resolver # NoOne /\ tasks[id].fee > 0 =>
            <<id, tasks[id].agentId>> \in authorizationState[tasks[id].resolver]

PaymentInv ==
    IndInv /\ Stages /\ SignedForArena /\ OneValue /\ UsedWasSigned /\ ClaimsWerePaid

-----------------------------------------------------------------------------
(* What each kind of step does to the ledgers.  Every step is one of these. *)

\* User u alone pays v, of which `in` reaches the arena.
Pays(u, v, in) ==
    /\ v <= balanceOf[u] /\ balanceOf'[u] = balanceOf[u] - v
    /\ \A w \in User \ {u} : balanceOf'[w] = balanceOf[w]
    /\ balanceOf'[Arena] = balanceOf[Arena] + in

recordVars == <<stakeOf, slashedOf, feedback>>

Posts(u, id) ==
    /\ Posted(id) /\ OthersKept(id) /\ tasks'[id].poster = u
    /\ Pays(u, tasks'[id].bounty, tasks'[id].bounty)
    /\ UNCHANGED <<credits, authorizationState, signed, recordVars, bonds>>

Cancels(id) ==
    /\ Cancelled(id) /\ OthersKept(id) /\ Known(id)
    /\ credits' = Plus(credits, tasks[id].poster, tasks[id].bounty)
    /\ UNCHANGED <<balanceOf, authorizationState, signed, recordVars, bonds>>

\* A fee is paid by a fresh signature; a free claim uses none.
Charges(u, id, a) ==
    \/ /\ tasks[id].fee = 0
       /\ UNCHANGED authorizationState
    \/ /\ tasks[id].fee > 0
       /\ \E s \in signed : s.from = u /\ s.nonce = <<id, a>>
       /\ <<id, a>> \notin authorizationState[u]
       /\ authorizationState' = [authorizationState EXCEPT ![u] = @ \cup {<<id, a>>}]

Claims(u, id, a) ==
    /\ Claimed(id) /\ OthersKept(id) /\ Known(id)
    /\ tasks'[id].resolver = u /\ tasks'[id].agentId = a
    /\ Pays(u, tasks[id].fee + tasks[id].slashAmount, tasks[id].fee)
    /\ Charges(u, id, a)
    /\ stakeOf' = Plus(stakeOf, a, tasks[id].slashAmount)
    /\ \A other \in TaskId \ {id} : bonds'[other] = bonds[other]
    /\ UNCHANGED <<credits, signed, slashedOf, feedback>>

Commits(id) ==
    /\ Committed(id) /\ OthersKept(id) /\ Known(id)
    /\ UNCHANGED <<balanceOf, credits, authorizationState, signed, recordVars, bonds>>

Endings == {"correct", "wrong", "commit-timeout", "reveal-timeout"}

\* The vault returns the collateral to the arena, which credits both parties.
Ends(id, how) ==
    LET t == tasks[id]
        toPoster == PosterDue(id, how)
        toResolver == ResolverDue(id, how)
    IN  /\ Revealed(id) \/ TimedOut(id)
        /\ OthersKept(id) /\ Known(id)
        /\ EndedBy(id)' = how
        /\ \A w \in User : balanceOf'[w] = balanceOf[w]
        /\ balanceOf'[Arena] = balanceOf[Arena] + t.slashAmount
        /\ credits' = Plus(Plus(credits, t.poster, toPoster), t.resolver, toResolver)
        /\ t.slashAmount <= stakeOf[t.agentId]
        /\ stakeOf' = Minus(stakeOf, t.agentId, t.slashAmount)
        /\ slashedOf' = IF how = "wrong" THEN Plus(slashedOf, t.agentId, t.slashAmount)
                        ELSE slashedOf
        /\ feedback' = [feedback EXCEPT ![t.agentId] =
               Append(@, [score |-> Score(how), tag |-> how])]
        /\ \A other \in TaskId \ {id} : bonds'[other] = bonds[other]
        /\ UNCHANGED <<authorizationState, signed>>

Withdraws(u) ==
    /\ balanceOf'[u] = balanceOf[u] + credits[u]
    /\ \A w \in User \ {u} : balanceOf'[w] = balanceOf[w]
    /\ credits[u] <= balanceOf[Arena] /\ balanceOf'[Arena] = balanceOf[Arena] - credits[u]
    /\ credits' = Minus(credits, u, credits[u])
    /\ UNCHANGED <<tasks, authorizationState, signed, recordVars, bonds>>

Submits(auth) ==
    /\ auth.nonce \notin authorizationState[auth.from]
    /\ authorizationState' = [authorizationState EXCEPT ![auth.from] = @ \cup {auth.nonce}]
    /\ Pays(auth.from, auth.value, auth.value)
    /\ UNCHANGED <<tasks, credits, signed, recordVars, bonds>>

Signs(s) ==
    /\ s.from \in User /\ s.to = Arena
    /\ \A t \in signed : t.from = s.from /\ t.nonce = s.nonce => t.value = s.value
    /\ signed' = signed \cup {s}
    /\ UNCHANGED <<tasks, balanceOf, credits, authorizationState, recordVars, bonds>>

Idles ==
    UNCHANGED <<tasks, balanceOf, credits, authorizationState, signed, recordVars, bonds>>

-----------------------------------------------------------------------------
(* The ledger operators, holder by holder. *)

LEMMA MovedAmounts ==
  ASSUME NEW b \in [Address -> Nat], NEW from \in Address, NEW to \in Address, from # to,
         NEW v \in Nat, Token!Covers(b, from, v)
  PROVE  /\ v <= b[from]
         /\ Token!Moved(b, from, to, v)[from] = b[from] - v
         /\ Token!Moved(b, from, to, v)[to] = b[to] + v
         /\ \A a \in Address \ {from, to} : Token!Moved(b, from, to, v)[a] = b[a]
  BY DEF Token!Covers, Token!Moved

LEMMA Addresses ==
  /\ Arena \in Address /\ Vault \in Address /\ Arena # Vault
  /\ \A u \in User : u \in Address /\ u # Arena /\ u # Vault
  BY ArenaAssumption DEF Address

LEMMA TaskAmounts ==
  ASSUME TypeOK, NEW id \in TaskId
  PROVE  /\ tasks[id].bounty \in Nat /\ tasks[id].fee \in Nat /\ tasks[id].slashAmount \in Nat
         /\ Known(id) => tasks[id] \in Task /\ tasks[id].poster \in User
  BY DEF TypeOK, Task, NoTask, Amount, Known

-----------------------------------------------------------------------------
(* Each action has the effect of its kind. *)

LEMMA PostEffect ==
  ASSUME IndInv, NEW u \in User, NEW terms \in Terms, NEW c \in Commitment,
         PostTask(u, terms, c)
  PROVE  nextTaskId \in TaskId /\ Posts(u, nextTaskId)
  <1>1. /\ nextTaskId \in TaskId /\ Posted(nextTaskId) /\ OthersKept(nextTaskId)
        /\ tasks'[nextTaskId].poster = u /\ tasks'[nextTaskId].bounty = terms.bounty
    BY PostChange
  <1>2. balanceOf \in [Address -> Nat] /\ terms.bounty \in Nat
    BY ArenaAssumption DEF IndInv, TypeOK, Amount
  <1>3. /\ Token!Covers(balanceOf, u, terms.bounty)
        /\ balanceOf' = Token!Moved(balanceOf, u, Arena, terms.bounty)
    BY DEF PostTask
  <1>4. Pays(u, terms.bounty, terms.bounty)
    BY <1>2, <1>3, MovedAmounts, Addresses DEF Pays
  <1> QED
    BY <1>1, <1>4 DEF PostTask, Posts, recordVars, vaultVars, registryVars

LEMMA CancelEffect ==
  ASSUME IndInv, NEW u \in User, NEW id \in TaskId, CancelTask(u, id)
  PROVE  Cancels(id)
  <1>1. Cancelled(id) /\ OthersKept(id)
    BY CancelChange
  <1> QED
    BY <1>1 DEF CancelTask, In, Credited, Cancels, Plus, recordVars, tokenVars, vaultVars,
       registryVars

LEMMA CommitEffect ==
  ASSUME IndInv, NEW u \in User, NEW id \in TaskId, NEW v \in Answer, NEW r \in Reasoning,
         CommitVerdict(u, id, v, r)
  PROVE  Commits(id)
  <1>1. Committed(id) /\ OthersKept(id)
    BY CommitChange
  <1> QED
    BY <1>1 DEF CommitVerdict, In, Commits, recordVars, tokenVars, vaultVars

LEMMA WithdrawEffect ==
  ASSUME IndInv, NEW u \in User, Withdraw(u)
  PROVE  Withdraws(u)
  <1>1. balanceOf \in [Address -> Nat] /\ credits[u] \in Nat /\ credits \in [User -> Nat]
    BY DEF IndInv, TypeOK
  <1>2. /\ Token!Covers(balanceOf, Arena, credits[u])
        /\ balanceOf' = Token!Moved(balanceOf, Arena, u, credits[u])
    BY DEF Withdraw
  <1>3. /\ balanceOf'[u] = balanceOf[u] + credits[u]
        /\ \A w \in User \ {u} : balanceOf'[w] = balanceOf[w]
        /\ credits[u] <= balanceOf[Arena] /\ balanceOf'[Arena] = balanceOf[Arena] - credits[u]
    BY <1>1, <1>2, MovedAmounts, Addresses
  <1>4. credits' = Minus(credits, u, credits[u])
    <2>1. Minus(credits, u, credits[u]) = [credits EXCEPT ![u] = credits[u] - credits[u]]
      BY DEF Minus
    <2>2. credits[u] - credits[u] = 0
      BY <1>1
    <2> QED
      BY <2>1, <2>2 DEF Withdraw
  <1> QED
    BY <1>3, <1>4 DEF Withdraw, Withdraws, recordVars, vaultVars, registryVars

LEMMA SubmitEffect ==
  ASSUME IndInv, SignedForArena, NEW auth \in signed, SubmitAuthorization(auth)
  PROVE  Submits(auth)
  <1>1. balanceOf \in [Address -> Nat] /\ auth.value \in Nat
    BY DEF IndInv, TypeOK, Token!Authorization
  <1>2. auth.from \in User /\ auth.to = Arena
    BY DEF SignedForArena
  <1>3. /\ Token!Covers(balanceOf, auth.from, auth.value)
        /\ balanceOf' = Token!Moved(balanceOf, auth.from, Arena, auth.value)
    BY <1>2 DEF SubmitAuthorization, Token!TransferWithAuthorization
  <1>4. Pays(auth.from, auth.value, auth.value)
    BY <1>1, <1>2, <1>3, MovedAmounts, Addresses DEF Pays
  <1> QED
    BY <1>4
    DEF SubmitAuthorization, Token!TransferWithAuthorization, Token!Authorized,
        Token!UnusedNonce, Token!Used, Submits, recordVars, arenaVars, vaultVars, registryVars

LEMMA SignEffect ==
  ASSUME NEW u \in User, NEW id \in TaskId, NEW a \in AgentId,
         NEW v \in {tasks[id].fee} \cup OtherValues, SignPayment(u, id, a, v)
  PROVE  \E s : Signs(s)
  <1> DEFINE s == [from |-> u, to |-> Arena, value |-> v, validAfter |-> 0,
                   validBefore |-> now + PaymentTimeout, nonce |-> ClaimNonce(id, a)]
  <1>1. Signs(s)
    BY DEF SignPayment, Token!Sign, Signs, recordVars, arenaVars, vaultVars, registryVars
  <1> QED
    BY <1>1

LEMMA ClaimEffect ==
  ASSUME IndInv, NEW u \in User, NEW id \in TaskId, NEW a \in AgentId,
         NEW p \in Payments(u, id, a), ClaimTask(u, id, a, p)
  PROVE  Claims(u, id, a)
  <1> DEFINE fee == tasks[id].fee
             slash == tasks[id].slashAmount
             ledger == Charged(id, p)
  <1>1. /\ Claimed(id) /\ OthersKept(id)
        /\ tasks'[id].resolver = u /\ tasks'[id].agentId = a
    BY ClaimChange
  <1>2. balanceOf \in [Address -> Nat] /\ fee \in Nat /\ slash \in Nat
    BY TaskAmounts DEF IndInv, TypeOK
  <1>3. p.from = u /\ p.value = fee /\ p.nonce = <<id, a>>
    BY DEF ClaimTask, PaymentMatches, ClaimNonce
  <1>4. /\ ledger \in [Address -> Nat]
        /\ fee <= balanceOf[u] /\ ledger[u] = balanceOf[u] - fee
        /\ ledger[Arena] = balanceOf[Arena] + fee
        /\ \A w \in User \ {u} : ledger[w] = balanceOf[w]
    <2>1. CASE fee > 0
      <3>1. Token!Covers(balanceOf, u, fee) /\ ledger = Token!Moved(balanceOf, u, Arena, fee)
        BY <1>3, <2>1 DEF ClaimTask, FeePaid, Charged
      <3>2. Token!Moved(balanceOf, u, Arena, fee) \in [Address -> Nat]
        BY <1>2, <3>1, MovedType, Addresses
      <3> QED
        BY <1>2, <3>1, <3>2, MovedAmounts, Addresses
    <2>2. CASE fee = 0
      <3>1. ledger = balanceOf
        BY <2>2 DEF Charged
      <3>2. balanceOf[u] \in Nat /\ balanceOf[Arena] \in Nat
        BY <1>2, Addresses
      <3> QED
        BY <1>2, <2>2, <3>1, <3>2
    <2> QED
      BY <1>2, <2>1, <2>2
  <1>5. StakeVault!BondFor(Arena, id, a, u, slash, ledger)
    BY DEF ClaimTask
  <1>6. Pays(u, fee + slash, fee)
    <2>1. Token!Covers(ledger, u, slash) /\ balanceOf' = Token!Moved(ledger, u, Vault, slash)
      BY <1>5, VaultLedger DEF StakeVault!BondFor
    <2> HIDE DEF ledger, fee, slash
    <2>2. /\ slash <= ledger[u] /\ balanceOf'[u] = ledger[u] - slash
          /\ balanceOf'[Arena] = ledger[Arena]
          /\ \A w \in User \ {u} : balanceOf'[w] = ledger[w]
      BY <1>2, <1>4, <2>1, MovedAmounts, Addresses
    <2>3. balanceOf[u] \in Nat
      BY <1>2, Addresses
    <2> QED
      BY <1>2, <1>4, <2>2, <2>3 DEF Pays
  <1>7. Charges(u, id, a)
    <2>1. CASE fee = 0
      BY <2>1 DEF ClaimTask, FeePaid, Charges
    <2>2. CASE fee > 0
      <3>1. Token!Authorized(p) /\ authorizationState' = Token!Used(p)
        BY <2>2 DEF ClaimTask, FeePaid
      <3> QED
        BY <1>3, <2>2, <3>1 DEF Token!Authorized, Token!UnusedNonce, Token!Used, Charges
    <2> QED
      BY <1>2, <2>1, <2>2
  <1>8. /\ stakeOf' = Plus(stakeOf, a, slash) /\ UNCHANGED slashedOf
        /\ \A other \in TaskId \ {id} : bonds'[other] = bonds[other]
    BY <1>5 DEF StakeVault!BondFor, Plus, IndInv, TypeOK
  <1>9. Known(id) /\ UNCHANGED <<credits, signed, feedback>>
    BY DEF ClaimTask, In, registryVars
  <1> QED
    BY <1>1, <1>6, <1>7, <1>8, <1>9 DEF Claims

\* What an open bond of a task holds.
LEMMA BondOfTask ==
  ASSUME IndInv, NEW id \in TaskId, tasks[id].status \in Held
  PROVE  /\ bonds[id].agentId = tasks[id].agentId /\ bonds[id].amount = tasks[id].slashAmount
         /\ tasks[id].agentId \in AgentId /\ tasks[id].resolver \in User
  BY DEF IndInv, CollateralFollowsTask, CollateralOf, Claimants

\* The vault's part of an ending.
LEMMA PayOutEffect ==
  ASSUME IndInv, NEW id \in TaskId, tasks[id].status \in Held,
         StakeVault!PayOut(Arena, id, Arena)
  PROVE  /\ \A w \in User : balanceOf'[w] = balanceOf[w]
         /\ balanceOf'[Arena] = balanceOf[Arena] + tasks[id].slashAmount
         /\ tasks[id].slashAmount <= stakeOf[tasks[id].agentId]
         /\ stakeOf' = Minus(stakeOf, tasks[id].agentId, tasks[id].slashAmount)
         /\ \A other \in TaskId \ {id} : bonds'[other] = bonds[other]
  <1> DEFINE slash == tasks[id].slashAmount
             agent == tasks[id].agentId
  <1>1. bonds[id].agentId = agent /\ bonds[id].amount = slash
    BY BondOfTask
  <1>2. balanceOf \in [Address -> Nat] /\ slash \in Nat
    BY TaskAmounts DEF IndInv, TypeOK
  <1>3. Token!Covers(balanceOf, Vault, slash) /\ balanceOf' = Token!Moved(balanceOf, Vault, Arena, slash)
    BY <1>1, VaultLedger DEF StakeVault!PayOut
  <1>4. stakeOf[agent] >= slash /\ stakeOf' = Minus(stakeOf, agent, slash)
    BY <1>1 DEF StakeVault!PayOut, StakeVault!Close, Minus
  <1>5. \A other \in TaskId \ {id} : bonds'[other] = bonds[other]
    BY DEF StakeVault!PayOut, StakeVault!Close, IndInv, TypeOK
  <1>6. stakeOf[agent] \in Nat
    BY BondOfTask DEF IndInv, TypeOK
  <1> HIDE DEF slash, agent
  <1>7. /\ \A w \in User : balanceOf'[w] = balanceOf[w]
        /\ balanceOf'[Arena] = balanceOf[Arena] + slash
    BY <1>2, <1>3, MovedAmounts, Addresses
  <1>8. slash <= stakeOf[agent]
    BY <1>2, <1>4, <1>6
  <1> QED
    BY <1>4, <1>5, <1>7, <1>8 DEF slash, agent

LEMMA SettleEffect ==
  ASSUME IndInv, Stages, NEW u \in User, NEW id \in TaskId, NEW v \in Answer,
         Settle(u, id, v)
  PROVE  \E how \in Endings : Ends(id, how)
  <1> DEFINE how == Outcome(id, v)
  <1>1. Revealed(id) /\ OthersKept(id) /\ tasks'[id].truth = v
    BY SettleChange
  <1>2. Known(id) /\ tasks[id].status \in Held /\ tasks'[id].status = "Settled"
    BY <1>1 DEF Settle, In, Held, Revealed
  <1>3. how \in {"correct", "wrong"}
    BY DEF Outcome
  <1>4. EndedBy(id)' = how
    BY <1>1, <1>2 DEF EndedBy, Outcome, Answer, Revealed, SameVerdict
  <1>5. StakeVault!PayOut(Arena, id, Arena)
    BY DEF Settle, StakeVault!Release, StakeVault!Slash
  <1>6. slashedOf' = IF how = "wrong" THEN Plus(slashedOf, tasks[id].agentId, tasks[id].slashAmount)
                     ELSE slashedOf
    <2>1. bonds[id].agentId = tasks[id].agentId /\ bonds[id].amount = tasks[id].slashAmount
      BY <1>2, BondOfTask
    <2> QED
      BY <2>1 DEF Settle, StakeVault!Release, StakeVault!Slash, Plus
  <1>7. Conclude(id, how) /\ UNCHANGED <<authorizationState, signed>>
    BY DEF Settle
  <1> HIDE DEF how
  <1>8. Ends(id, how)
    BY <1>1, <1>2, <1>4, <1>5, <1>6, <1>7, PayOutEffect DEF Ends, Conclude, Credited, Plus
  <1> QED
    BY <1>3, <1>8 DEF Endings

LEMMA TimeOutEffect ==
  ASSUME IndInv, Stages, NEW id \in TaskId, TimeoutCommit(id) \/ TimeoutSettle(id)
  PROVE  \E how \in Endings : Ends(id, how)
  <1>1. PICK status, how :
            /\ TimeOut(id, status, how)
            /\ \/ status = "Claimed" /\ how = "commit-timeout"
               \/ status = "Committed" /\ how = "reveal-timeout"
    BY DEF TimeoutCommit, TimeoutSettle
  <1>2. TimedOut(id) /\ OthersKept(id)
    BY TimeOutChange
  <1>3. /\ Known(id) /\ tasks[id].status = status /\ tasks[id].status \in Held
        /\ tasks'[id].status = "Settled"
    BY <1>1, <1>2 DEF TimeOut, In, Held, TimedOut
  <1>4. EndedBy(id)' = how
    BY <1>1, <1>2, <1>3 DEF EndedBy, Stages, Answer, TimedOut, SameVerdict, SameTruth
  <1>5. StakeVault!PayOut(Arena, id, Arena) /\ UNCHANGED slashedOf
    BY <1>1 DEF TimeOut, StakeVault!Release
  <1>6. Conclude(id, how) /\ UNCHANGED <<authorizationState, signed>>
    BY <1>1 DEF TimeOut
  <1>7. how # "wrong" /\ how \in Endings
    BY <1>1 DEF Endings
  <1>8. Ends(id, how)
    BY <1>2, <1>3, <1>4, <1>5, <1>6, <1>7, PayOutEffect DEF Ends, Conclude, Credited, Plus
  <1> QED
    BY <1>7, <1>8

\* Nothing else a transaction does is about money or records.
LEMMA IdleEffect ==
  ASSUME [Next]_vars
  PROVE  \/ Idles
         \/ \E u \in User, terms \in Terms, c \in Commitment : PostTask(u, terms, c)
         \/ \E u \in User, id \in TaskId : CancelTask(u, id)
         \/ \E u \in User, id \in TaskId, a \in AgentId :
                \E v \in {tasks[id].fee} \cup OtherValues : SignPayment(u, id, a, v)
         \/ \E u \in User, id \in TaskId, a \in AgentId :
                \E p \in Payments(u, id, a) : ClaimTask(u, id, a, p)
         \/ \E auth \in signed : SubmitAuthorization(auth)
         \/ \E u \in User, id \in TaskId, v \in Answer, r \in Reasoning :
                CommitVerdict(u, id, v, r)
         \/ \E u \in User, id \in TaskId, v \in Answer : Settle(u, id, v)
         \/ \E id \in TaskId : TimeoutCommit(id) \/ TimeoutSettle(id)
         \/ \E u \in User : Withdraw(u)
  <1> USE DEF Idles, recordVars
  <1>1. ASSUME NEW u, NEW s, NEW v, Approve(u, s, v) PROVE Idles
    BY <1>1 DEF Approve, Token!Approve, arenaVars, vaultVars, registryVars
  <1>2. ASSUME NEW u, NEW a, RegisterAgent(u, a) \/ TransferAgent(a, u) PROVE Idles
    BY <1>2 DEF RegisterAgent, TransferAgent, tokenVars, arenaVars, vaultVars, registryVars
  <1>3. ASSUME NEW v, NEW a, NEW hash, RequestValidation(v, a, hash) PROVE Idles
    BY <1>3 DEF RequestValidation, tokenVars, arenaVars, vaultVars
  <1>4. ASSUME NEW b, SetOperator(b) PROVE Idles
    BY <1>4 DEF SetOperator, StakeVault!SetOperator, arenaVars, registryVars
  <1>5. Tick => Idles
    BY DEF Tick, tokenVars, arenaVars, vaultVars, registryVars
  <1>6. UNCHANGED vars => Idles
    BY DEF vars, tokenVars, arenaVars, vaultVars, registryVars
  <1> HIDE DEF Idles
  <1> QED
    BY <1>1, <1>2, <1>3, <1>4, <1>5, <1>6 DEF Next

LEMMA MoneySteps ==
  ASSUME PaymentInv, [Next]_vars
  PROVE  \/ Idles
         \/ \E u \in User, id \in TaskId : Posts(u, id)
         \/ \E id \in TaskId : Cancels(id)
         \/ \E s : Signs(s)
         \/ \E u \in User, id \in TaskId, a \in AgentId : Claims(u, id, a)
         \/ \E auth \in signed : Submits(auth)
         \/ \E id \in TaskId : Commits(id)
         \/ \E id \in TaskId, how \in Endings : Ends(id, how)
         \/ \E u \in User : Withdraws(u)
  <1>1. IndInv /\ Stages /\ SignedForArena
    BY DEF PaymentInv
  <1> QED
    BY <1>1, IdleEffect, PostEffect, CancelEffect, SignEffect, ClaimEffect, SubmitEffect,
       CommitEffect, SettleEffect, TimeOutEffect, WithdrawEffect

-----------------------------------------------------------------------------
(* The payment invariant. *)

LEMMA InitPayment == Init => PaymentInv
  <1> SUFFICES ASSUME Init PROVE PaymentInv
    OBVIOUS
  <1>1. IndInv /\ Stages
    BY InitTypeOK, InitCollateral, InitStages DEF IndInv
  <1>2. SignedForArena /\ OneValue /\ ClaimsWerePaid
    BY DEF Init, SignedForArena, OneValue, ClaimsWerePaid, NoTask
  <1>3. UsedWasSigned
    BY Addresses DEF Init, UsedWasSigned
  <1> QED
    BY <1>1, <1>2, <1>3 DEF PaymentInv

LEMMA NextPayment ==
  ASSUME PaymentInv, [Next]_vars
  PROVE  PaymentInv'
  <1>1. IndInv /\ Stages /\ IndInv' /\ Stages'
    BY NextIndInv, NextStages DEF PaymentInv
  <1>2. authorizationState \in [Address -> SUBSET (TaskId \X AgentId)]
    BY <1>1 DEF IndInv, TypeOK
  <1>3. \A id \in TaskId : tasks[id].resolver \in Address \cup {NoOne}
    <2> SUFFICES ASSUME NEW id \in TaskId PROVE tasks[id].resolver \in Address \cup {NoOne}
      OBVIOUS
    <2>1. tasks[id] = NoTask \/ tasks[id] \in Task
      BY <1>1 DEF IndInv, TypeOK
    <2> QED
      BY <2>1 DEF Task, NoTask, Address
  <1>4. ASSUME UNCHANGED <<tasks, authorizationState>> PROVE ClaimsWerePaid'
    BY <1>4 DEF PaymentInv, ClaimsWerePaid
  <1>5. ASSUME UNCHANGED <<signed, authorizationState>>
        PROVE  SignedForArena' /\ OneValue' /\ UsedWasSigned'
    BY <1>5 DEF PaymentInv, SignedForArena, OneValue, UsedWasSigned
  <1>6. ASSUME UNCHANGED authorizationState, NEW id \in TaskId, OthersKept(id),
               SameClaim(id), tasks'[id].fee = tasks[id].fee
        PROVE  ClaimsWerePaid'
    BY <1>1, <1>6 DEF PaymentInv, ClaimsWerePaid, OthersKept, SameClaim
  <1>7. CASE Idles
    BY <1>1, <1>4, <1>5, <1>7 DEF Idles, PaymentInv
  <1>8. ASSUME NEW u \in User, NEW id \in TaskId, Posts(u, id) PROVE PaymentInv'
    <2>1. OthersKept(id) /\ tasks'[id].resolver = NoOne /\ UNCHANGED <<signed, authorizationState>>
      BY <1>8 DEF Posts, Posted
    <2>2. ClaimsWerePaid'
      BY <1>1, <2>1 DEF PaymentInv, ClaimsWerePaid, OthersKept
    <2>3. SignedForArena' /\ OneValue' /\ UsedWasSigned'
      BY <1>5, <2>1
    <2> QED
      BY <1>1, <2>2, <2>3 DEF PaymentInv
  <1>9. ASSUME NEW id \in TaskId, Cancels(id) \/ Commits(id) PROVE PaymentInv'
    BY <1>1, <1>5, <1>6, <1>9 DEF Cancels, Commits, Cancelled, Committed, SameTerms, PaymentInv
  <1>10. ASSUME NEW id \in TaskId, NEW how \in Endings, Ends(id, how) PROVE PaymentInv'
    BY <1>1, <1>5, <1>6, <1>10 DEF Ends, Revealed, TimedOut, SameTerms, PaymentInv
  <1>11. ASSUME NEW u \in User, Withdraws(u) PROVE PaymentInv'
    BY <1>1, <1>4, <1>5, <1>11 DEF Withdraws, PaymentInv
  <1>12. ASSUME NEW s, Signs(s) PROVE PaymentInv'
    <2>1. ClaimsWerePaid'
      BY <1>4, <1>12 DEF Signs
    <2>2. SignedForArena' /\ OneValue' /\ UsedWasSigned'
      BY <1>12 DEF Signs, PaymentInv, SignedForArena, OneValue, UsedWasSigned
    <2> QED
      BY <1>1, <2>1, <2>2 DEF PaymentInv
  <1>13. ASSUME NEW auth \in signed, Submits(auth) PROVE PaymentInv'
    <2>1. auth.from \in User /\ auth.from \in Address
      BY Addresses DEF PaymentInv, SignedForArena
    <2>2. \A u \in Address : authorizationState'[u] =
              IF u = auth.from THEN authorizationState[u] \cup {auth.nonce}
                               ELSE authorizationState[u]
      BY <1>2, <1>13 DEF Submits
    <2>3. UsedWasSigned'
      BY <1>13, <2>1, <2>2, Addresses DEF Submits, PaymentInv, UsedWasSigned
    <2>4. ClaimsWerePaid'
      BY <1>13, <1>3, <2>2, <1>2 DEF Submits, PaymentInv, ClaimsWerePaid
    <2>5. SignedForArena' /\ OneValue'
      BY <1>13 DEF Submits, PaymentInv, SignedForArena, OneValue
    <2> QED
      BY <1>1, <2>3, <2>4, <2>5 DEF PaymentInv
  <1>14. ASSUME NEW u \in User, NEW id \in TaskId, NEW a \in AgentId, Claims(u, id, a)
         PROVE  PaymentInv'
    <2>1. /\ tasks'[id].fee = tasks[id].fee /\ tasks'[id].resolver = u /\ tasks'[id].agentId = a
          /\ OthersKept(id) /\ UNCHANGED signed
      BY <1>14 DEF Claims, Claimed, SameTerms
    <2>2. CASE UNCHANGED authorizationState /\ tasks[id].fee = 0
      <3>1. ClaimsWerePaid'
        BY <2>1, <2>2 DEF OthersKept, PaymentInv, ClaimsWerePaid
      <3> QED
        BY <1>1, <1>5, <2>1, <2>2, <3>1 DEF PaymentInv
    <2>3. CASE /\ \E s \in signed : s.from = u /\ s.nonce = <<id, a>>
               /\ authorizationState' =
                      [authorizationState EXCEPT ![u] = @ \cup {<<id, a>>}]
      <3>1. \A w \in Address : authorizationState'[w] =
                IF w = u THEN authorizationState[w] \cup {<<id, a>>} ELSE authorizationState[w]
        BY <1>2, <2>3
      <3>2. UsedWasSigned'
        BY <2>1, <2>3, <3>1, Addresses DEF PaymentInv, UsedWasSigned
      <3>3. ASSUME NEW j \in TaskId, tasks'[j].resolver # NoOne, tasks'[j].fee > 0
            PROVE  <<j, tasks'[j].agentId>> \in authorizationState'[tasks'[j].resolver]
        <4>1. CASE j = id
          BY <2>1, <3>1, <4>1, Addresses
        <4>2. CASE j # id
          BY <1>3, <2>1, <3>1, <3>3, <4>2 DEF OthersKept, PaymentInv, ClaimsWerePaid
        <4> QED
          BY <4>1, <4>2
      <3>4. ClaimsWerePaid'
        BY <3>3 DEF ClaimsWerePaid
      <3>5. SignedForArena' /\ OneValue'
        BY <2>1 DEF PaymentInv, SignedForArena, OneValue
      <3> QED
        BY <1>1, <3>2, <3>4, <3>5 DEF PaymentInv
    <2> QED
      BY <1>14, <2>2, <2>3 DEF Claims, Charges
  <1> QED
    BY <1>7, <1>8, <1>9, <1>10, <1>11, <1>12, <1>13, <1>14, MoneySteps

LEMMA AlwaysPayment == Spec => []PaymentInv
  BY InitPayment, NextPayment, PTL DEF Spec

-----------------------------------------------------------------------------
(* How the sums change. *)

LEMMA FiniteIds ==
  /\ IsFiniteSet(TaskId) /\ IsFiniteSet(AgentId) /\ IsFiniteSet(User)
  /\ \A S \in SUBSET (TaskId \X AgentId) : IsFiniteSet(S)
  <1>1. IsFiniteSet(TaskId) /\ IsFiniteSet(AgentId)
    BY ArenaAssumption, FS_Interval DEF TaskId, AgentId
  <1>2. IsFiniteSet(TaskId \X AgentId)
    BY <1>1, FS_Product
  <1> QED
    BY <1>1, <1>2, ArenaAssumption, FS_Subset

LEMMA EscrowedType == TypeOK => \A id \in TaskId : Escrowed(id) \in Nat
  BY TaskAmounts DEF Escrowed, Held

LEMMA EscrowedTypeNext == TypeOK' => \A id \in TaskId : Escrowed(id)' \in Nat
  <1>1. (TypeOK => \A id \in TaskId : Escrowed(id) \in Nat)'
    BY EscrowedType, PTL
  <1> QED
    BY <1>1

\* A step on one task changes the escrow by what that task holds.
LEMMA EscrowChange ==
  ASSUME TypeOK, TypeOK', NEW id \in TaskId, OthersKept(id)
  PROVE  /\ Escrow' = Escrow - Escrowed(id) + Escrowed(id)'
         /\ Escrow \in Nat /\ Escrowed(id) \in Nat /\ Escrowed(id)' \in Nat
  <1> DEFINE f == [j \in TaskId |-> Escrowed(j)]
             g == [j \in TaskId |-> Escrowed(j)']
  <1>1. \A j \in TaskId : Escrowed(j) \in Nat /\ Escrowed(j)' \in Nat
    BY EscrowedType, EscrowedTypeNext
  <1>2. \A j \in TaskId \ {id} : Escrowed(j)' = Escrowed(j)
    BY DEF OthersKept, Escrowed, Known
  <1>3. AgreeOff(f, g, TaskId, id) /\ Amounts(f, TaskId) /\ Amounts(g, TaskId)
    BY <1>1, <1>2 DEF AgreeOff, Amounts
  <1>4. f[id] = Escrowed(id) /\ g[id] = Escrowed(id)' /\ Escrow = Total(f, TaskId)
        /\ Escrow' = Total(g, TaskId)
    BY DEF Escrow
  <1> HIDE DEF f, g
  <1> QED
    BY <1>3, <1>4, FiniteIds, TotalUpdate

LEMMA EscrowSame ==
  ASSUME UNCHANGED tasks
  PROVE  Escrow' = Escrow
  BY DEF Escrow, Escrowed, Known

LEMMA SumTypes ==
  ASSUME PaymentInv
  PROVE  /\ Escrow \in Nat /\ AllCredits \in Nat /\ AllStray \in Nat
         /\ \A u \in User : /\ Stray(u) \in Nat /\ IsFiniteSet(StrayNonces(u))
                           /\ \A n \in StrayNonces(u) : SignedValue(u, n) \in Nat
  <1>1. TypeOK /\ UsedWasSigned
    BY DEF PaymentInv, IndInv
  <1>2. Escrow \in Nat
    <2> DEFINE f == [id \in TaskId |-> Escrowed(id)]
    <2>1. Amounts(f, TaskId)
      BY <1>1, EscrowedType DEF Amounts
    <2> HIDE DEF f
    <2>2. Total(f, TaskId) \in Nat
      BY <2>1, FiniteIds, TotalType
    <2> QED
      BY <2>2 DEF f, Escrow
  <1>3. AllCredits \in Nat
    <2>1. Amounts(credits, User)
      BY <1>1 DEF TypeOK, Amounts
    <2> QED
      BY <2>1, FiniteIds, TotalType DEF AllCredits
  <1>4. ASSUME NEW u \in User
        PROVE  /\ Stray(u) \in Nat /\ IsFiniteSet(StrayNonces(u))
               /\ \A n \in StrayNonces(u) : SignedValue(u, n) \in Nat
    <2> DEFINE f == [n \in StrayNonces(u) |-> SignedValue(u, n)]
    <2>1. IsFiniteSet(StrayNonces(u))
      <3>1. authorizationState[u] \in SUBSET (TaskId \X AgentId)
        BY <1>1, Addresses DEF TypeOK
      <3>2. StrayNonces(u) \in SUBSET (TaskId \X AgentId)
        BY <3>1 DEF StrayNonces
      <3> QED
        BY <3>2, FiniteIds
    <2>2. ASSUME NEW n \in StrayNonces(u) PROVE SignedValue(u, n) \in Nat
      <3>1. \E s \in signed : s.from = u /\ s.nonce = n
        BY <1>1 DEF StrayNonces, UsedWasSigned
      <3>2. (CHOOSE s \in signed : s.from = u /\ s.nonce = n) \in signed
        BY <3>1
      <3> QED
        BY <1>1, <3>2 DEF SignedValue, TypeOK, Token!Authorization
    <2>3. Amounts(f, StrayNonces(u))
      BY <2>2 DEF Amounts
    <2> HIDE DEF f
    <2>4. Total(f, StrayNonces(u)) \in Nat
      BY <2>1, <2>3, TotalType
    <2> QED
      BY <2>1, <2>2, <2>4 DEF f, Stray
  <1>5. AllStray \in Nat
    <2> DEFINE f == [u \in User |-> Stray(u)]
    <2>1. Amounts(f, User)
      BY <1>4 DEF Amounts
    <2> HIDE DEF f
    <2>2. Total(f, User) \in Nat
      BY <2>1, FiniteIds, TotalType
    <2> QED
      BY <2>2 DEF f, AllStray
  <1> QED
    BY <1>2, <1>3, <1>4, <1>5

\* A payer named one amount for one nonce, so the signature looked up does not matter.
LEMMA ChosenValue ==
  ASSUME NEW S, \A s, t \in S : s.from = t.from /\ s.nonce = t.nonce => s.value = t.value,
         NEW s \in S
  PROVE  (CHOOSE t \in S : t.from = s.from /\ t.nonce = s.nonce).value = s.value
  OBVIOUS

\* Signatures are never taken back, so what a used nonce moved stays what it was.
LEMMA SignedValueSame ==
  ASSUME PaymentInv, PaymentInv', signed \subseteq signed',
         NEW u \in User, NEW n \in authorizationState[u]
  PROVE  SignedValue(u, n)' = SignedValue(u, n)
  <1>1. PICK s \in signed : s.from = u /\ s.nonce = n
    BY DEF PaymentInv, UsedWasSigned
  <1>2. SignedValue(u, n) = s.value
    BY <1>1, ChosenValue DEF SignedValue, PaymentInv, OneValue
  <1>3. s \in signed'
    BY <1>1
  <1>4. \A t, r \in signed' : t.from = r.from /\ t.nonce = r.nonce => t.value = r.value
    BY DEF PaymentInv, OneValue
  <1>5. (CHOOSE t \in signed' : t.from = s.from /\ t.nonce = s.nonce).value = s.value
    BY <1>3, <1>4, ChosenValue
  <1> QED
    BY <1>1, <1>2, <1>5 DEF SignedValue

LEMMA StraySame ==
  ASSUME PaymentInv, PaymentInv', signed \subseteq signed', NEW u \in User,
         StrayNonces(u)' = StrayNonces(u)
  PROVE  Stray(u)' = Stray(u)
  <1>1. \A n \in StrayNonces(u) : SignedValue(u, n)' = SignedValue(u, n)
    BY SignedValueSame DEF StrayNonces
  <1> QED
    BY <1>1 DEF Stray

\* Only an authorisation submitted past the arena strands anything.
LEMMA StrayNoncesSame ==
  ASSUME PaymentInv, NEW u \in User,
         \/ UNCHANGED <<tasks, authorizationState>>
         \/ \E w \in User, id \in TaskId : Posts(w, id)
         \/ \E id \in TaskId : Cancels(id) \/ Commits(id)
         \/ \E id \in TaskId, how \in Endings : Ends(id, how)
         \/ \E w \in User, id \in TaskId, a \in AgentId : Claims(w, id, a)
  PROVE  StrayNonces(u)' = StrayNonces(u)
  <1>1. authorizationState \in [Address -> SUBSET (TaskId \X AgentId)] /\ u \in Address
    BY Addresses DEF PaymentInv, IndInv, TypeOK
  <1>2. \A n \in authorizationState[u] : n \in TaskId \X AgentId /\ n[1] \in TaskId
    BY <1>1
  <1>3. u # NoOne
    BY ArenaAssumption, Addresses
  <1>4. CASE UNCHANGED <<tasks, authorizationState>>
    BY <1>4 DEF StrayNonces, PaidForClaim
  <1>5. ASSUME NEW id \in TaskId, OthersKept(id), UNCHANGED authorizationState,
               \/ tasks[id].resolver = NoOne /\ tasks'[id].resolver = NoOne
               \/ SameClaim(id) /\ tasks'[id].fee = tasks[id].fee
        PROVE  StrayNonces(u)' = StrayNonces(u)
    <2>1. \A n \in authorizationState[u] : PaidForClaim(u, n)' <=> PaidForClaim(u, n)
      BY <1>2, <1>3, <1>5 DEF OthersKept, SameClaim, PaidForClaim
    <2> QED
      BY <1>5, <2>1 DEF StrayNonces
  <1>6. ASSUME NEW w \in User, NEW id \in TaskId, Posts(w, id)
        PROVE  StrayNonces(u)' = StrayNonces(u)
    <2>1. /\ OthersKept(id) /\ UNCHANGED authorizationState
          /\ tasks[id].resolver = NoOne /\ tasks'[id].resolver = NoOne
      BY <1>6 DEF Posts, Posted, NoTask
    <2> QED
      BY <1>5, <2>1
  <1>7. ASSUME NEW id \in TaskId, Cancels(id) \/ Commits(id) PROVE StrayNonces(u)' = StrayNonces(u)
    <2>1. /\ OthersKept(id) /\ UNCHANGED authorizationState
          /\ SameClaim(id) /\ tasks'[id].fee = tasks[id].fee
      BY <1>7 DEF Cancels, Commits, Cancelled, Committed, SameTerms
    <2> QED
      BY <1>5, <2>1
  <1>8. ASSUME NEW id \in TaskId, NEW how \in Endings, Ends(id, how)
        PROVE  StrayNonces(u)' = StrayNonces(u)
    <2>1. /\ OthersKept(id) /\ UNCHANGED authorizationState
          /\ SameClaim(id) /\ tasks'[id].fee = tasks[id].fee
      BY <1>8 DEF Ends, Revealed, TimedOut, SameTerms
    <2> QED
      BY <1>5, <2>1
  <1>9. ASSUME NEW w \in User, NEW id \in TaskId, NEW a \in AgentId, Claims(w, id, a)
        PROVE  StrayNonces(u)' = StrayNonces(u)
    <2>1. /\ OthersKept(id) /\ tasks[id].resolver = NoOne
          /\ tasks'[id].resolver = w /\ tasks'[id].agentId = a /\ tasks'[id].fee = tasks[id].fee
      BY <1>9 DEF Claims, Claimed, SameTerms, PaymentInv, Stages
    <2>2. CASE tasks[id].fee = 0 /\ UNCHANGED authorizationState
      <3>1. \A n \in authorizationState[u] : PaidForClaim(u, n)' <=> PaidForClaim(u, n)
        BY <1>2, <2>1, <2>2 DEF OthersKept, PaidForClaim
      <3> QED
        BY <2>2, <3>1 DEF StrayNonces
    <2>3. CASE /\ <<id, a>> \notin authorizationState[w]
               /\ authorizationState' = [authorizationState EXCEPT ![w] = @ \cup {<<id, a>>}]
               /\ tasks[id].fee > 0
      <3>1. \A n \in authorizationState[u] : PaidForClaim(u, n)' <=> PaidForClaim(u, n)
        <4> SUFFICES ASSUME NEW n \in authorizationState[u]
                     PROVE  PaidForClaim(u, n)' <=> PaidForClaim(u, n)
          OBVIOUS
        <4>1. CASE n[1] # id
          BY <1>2, <2>1, <4>1 DEF OthersKept, PaidForClaim
        <4>2. CASE n[1] = id
          <5>1. ~PaidForClaim(u, n)
            BY <1>3, <2>1, <4>2 DEF PaidForClaim
          <5>2. u = w => n # <<id, a>>
            BY <2>3
          <5>3. u = w => n[2] # a
            BY <1>2, <4>2, <5>2
          <5>4. ~PaidForClaim(u, n)'
            BY <2>1, <4>2, <5>3 DEF PaidForClaim
          <5> QED
            BY <5>1, <5>4
        <4> QED
          BY <4>1, <4>2
      <3>2. PaidForClaim(w, <<id, a>>)'
        BY <2>1, <2>3 DEF PaidForClaim
      <3>3. authorizationState'[u] = IF u = w THEN authorizationState[u] \cup {<<id, a>>}
                                     ELSE authorizationState[u]
        BY <1>1, <2>3
      <3> QED
        BY <3>1, <3>2, <3>3 DEF StrayNonces
    <2>4. tasks[id].fee \in Nat
      BY TaskAmounts DEF PaymentInv, IndInv
    <2> QED
      BY <1>9, <2>2, <2>3, <2>4 DEF Claims, Charges
  <1> QED
    BY <1>4, <1>6, <1>7, <1>8, <1>9

\* What every step but a submitted authorisation leaves to the stray payments.
LEMMA AllStraySame ==
  ASSUME PaymentInv, PaymentInv', signed \subseteq signed',
         \/ UNCHANGED <<tasks, authorizationState>>
         \/ \E w \in User, id \in TaskId : Posts(w, id)
         \/ \E id \in TaskId : Cancels(id) \/ Commits(id)
         \/ \E id \in TaskId, how \in Endings : Ends(id, how)
         \/ \E w \in User, id \in TaskId, a \in AgentId : Claims(w, id, a)
  PROVE  AllStray' = AllStray /\ \A u \in User : Stray(u)' = Stray(u)
  <1>1. \A u \in User : Stray(u)' = Stray(u)
    BY StrayNoncesSame, StraySame
  <1> QED
    BY <1>1 DEF AllStray

\* A submitted authorisation strands its value.
LEMMA AllStrayGrows ==
  ASSUME PaymentInv, PaymentInv', NEW auth \in signed, Submits(auth)
  PROVE  /\ AllStray' = AllStray + auth.value /\ AllStray \in Nat
         /\ Stray(auth.from)' = Stray(auth.from) + auth.value
         /\ \A u \in User \ {auth.from} : Stray(u)' = Stray(u)
  <1> DEFINE payer == auth.from
             before == StrayNonces(payer)
             after == StrayNonces(payer)'
             n == auth.nonce
             f == [m \in before |-> SignedValue(payer, m)]
             g == [m \in after |-> SignedValue(payer, m)']
  <1>1. payer \in User /\ payer \in Address /\ auth.value \in Nat
    BY Addresses DEF PaymentInv, SignedForArena, IndInv, TypeOK, Token!Authorization
  <1>2. authorizationState \in [Address -> SUBSET (TaskId \X AgentId)]
    BY DEF PaymentInv, IndInv, TypeOK
  <1>3. /\ authorizationState'[payer] = authorizationState[payer] \cup {n}
        /\ \A u \in User \ {payer} : authorizationState'[u] = authorizationState[u]
        /\ n \notin authorizationState[payer] /\ UNCHANGED <<tasks, signed>>
    BY <1>1, <1>2, Addresses DEF Submits
  <1>4. n \in TaskId \X AgentId
    BY DEF PaymentInv, IndInv, TypeOK, Token!Authorization
  <1>5. ~PaidForClaim(payer, n)
    <2>1. payer # NoOne
      BY <1>1, ArenaAssumption
    <2> QED
      BY <1>3, <1>4, <2>1 DEF PaidForClaim, PaymentInv, ClaimsWerePaid
  <1>6. after = before \cup {n} /\ n \notin before
    BY <1>3, <1>5 DEF StrayNonces, PaidForClaim
  <1>7. \A m \in before : SignedValue(payer, m)' = SignedValue(payer, m)
    BY <1>1, <1>3, SignedValueSame DEF StrayNonces
  <1>8. SignedValue(payer, n)' = auth.value
    <2>1. SignedValue(payer, n) = auth.value
      BY ChosenValue DEF SignedValue, PaymentInv, OneValue
    <2> QED
      BY <1>3, <2>1 DEF SignedValue
  <1>9. /\ IsFiniteSet(before) /\ Amounts(f, before) /\ Stray(payer) \in Nat
        /\ AllStray \in Nat /\ \A u \in User : Stray(u) \in Nat
    BY <1>1, SumTypes DEF Amounts
  <1>10. AgreeOn(f, g, before) /\ g[n] = auth.value
    BY <1>6, <1>7, <1>8 DEF AgreeOn
  <1>11. Stray(payer)' = Total(g, after) /\ Stray(payer) = Total(f, before)
    BY DEF Stray
  <1> HIDE DEF f, g, before, after, n
  <1>12. Grown(f, g, before, after, auth.value)
    BY <1>6, <1>10 DEF Grown
  <1>13. Stray(payer)' = Stray(payer) + auth.value
    BY <1>1, <1>9, <1>11, <1>12, TotalGrows
  <1>14. ASSUME NEW u \in User \ {payer} PROVE Stray(u)' = Stray(u)
    <2>1. StrayNonces(u)' = StrayNonces(u)
      BY <1>3 DEF StrayNonces, PaidForClaim
    <2> QED
      BY <1>3, <2>1, StraySame
  <1> DEFINE p == [u \in User |-> Stray(u)]
             q == [u \in User |-> Stray(u)']
  <1>15. Amounts(p, User) /\ Amounts(q, User) /\ AgreeOff(p, q, User, payer)
    BY <1>1, <1>9, <1>13, <1>14 DEF Amounts, AgreeOff
  <1>16. AllStray = Total(p, User) /\ AllStray' = Total(q, User)
    BY DEF AllStray
  <1>17. p[payer] = Stray(payer) /\ q[payer] = Stray(payer) + auth.value
    BY <1>1, <1>13
  <1> HIDE DEF p, q
  <1>18. Total(q, User) = Total(p, User) - p[payer] + q[payer]
    BY <1>1, <1>15, FiniteIds, TotalUpdate
  <1>19. AllStray' = AllStray + auth.value
    BY <1>1, <1>9, <1>16, <1>17, <1>18
  <1> QED
    BY <1>9, <1>13, <1>14, <1>19

LEMMA CreditsGrow ==
  ASSUME TypeOK, NEW u \in User, NEW v \in Nat
  PROVE  /\ Plus(credits, u, v) \in [User -> Nat]
         /\ Total(Plus(credits, u, v), User) = AllCredits + v
  <1>1. credits \in [User -> Nat] /\ IsFiniteSet(User)
    BY FiniteIds DEF TypeOK
  <1>2. Plus(credits, u, v) \in [User -> Nat]
    BY <1>1, TotalPlus
  <1>3. Total(Plus(credits, u, v), User) = Total(credits, User) + v
    BY <1>1, TotalPlus
  <1> QED
    BY <1>2, <1>3 DEF AllCredits

\* Nothing of a held task's pot or collateral is lost, whatever its ending.
LEMMA EndingDues ==
  ASSUME IndInv, NEW id \in TaskId, tasks[id].status \in Held, NEW how \in Endings
  PROVE  /\ PosterDue(id, how) \in Nat /\ ResolverDue(id, how) \in Nat
         /\ PosterDue(id, how) + ResolverDue(id, how)
                = tasks[id].bounty + tasks[id].fee + tasks[id].slashAmount
         /\ PosterDue(id, how) =
                (IF how = "wrong" THEN tasks[id].bounty + tasks[id].fee + tasks[id].slashAmount
                 ELSE IF how = "commit-timeout" THEN tasks[id].bounty + tasks[id].fee ELSE 0)
  <1>1. bonds[id].amount = tasks[id].slashAmount
    BY BondOfTask
  <1>2. /\ tasks[id].bounty \in Nat /\ tasks[id].fee \in Nat /\ tasks[id].slashAmount \in Nat
    BY TaskAmounts DEF IndInv
  <1> QED
    BY <1>1, <1>2 DEF PosterDue, ResolverDue, Pot, Endings

\* Both parties' credits together grow by what the task held.
LEMMA EndingCredits ==
  ASSUME IndInv, NEW id \in TaskId, NEW how \in Endings, Ends(id, how)
  PROVE  AllCredits' = AllCredits + tasks[id].bounty + tasks[id].fee + tasks[id].slashAmount
  <1> DEFINE p == PosterDue(id, how)
             r == ResolverDue(id, how)
             mid == Plus(credits, tasks[id].poster, p)
  <1>1. tasks[id].status \in Held /\ Known(id)
    BY DEF Ends, Revealed, TimedOut, Held
  <1>2. p \in Nat /\ r \in Nat /\ p + r = tasks[id].bounty + tasks[id].fee + tasks[id].slashAmount
    BY <1>1, EndingDues
  <1>3. tasks[id].poster \in User /\ tasks[id].resolver \in User
    BY <1>1, TaskAmounts, BondOfTask DEF IndInv
  <1>4. credits' = Plus(mid, tasks[id].resolver, r)
    BY DEF Ends
  <1> HIDE DEF p, r
  <1>5. mid \in [User -> Nat] /\ Total(mid, User) = AllCredits + p
    BY <1>2, <1>3, CreditsGrow DEF IndInv
  <1> HIDE DEF mid
  <1>6. Total(Plus(mid, tasks[id].resolver, r), User) = Total(mid, User) + r
    BY <1>2, <1>3, <1>5, FiniteIds, TotalPlus
  <1>7. AllCredits \in Nat
    BY FiniteIds, TotalType DEF IndInv, TypeOK, AllCredits, Amounts
  <1>8. AllCredits' = Total(Plus(mid, tasks[id].resolver, r), User)
    BY <1>4 DEF AllCredits
  <1>9. tasks[id].bounty \in Nat /\ tasks[id].fee \in Nat /\ tasks[id].slashAmount \in Nat
    BY TaskAmounts DEF IndInv
  <1> QED
    BY <1>2, <1>5, <1>6, <1>7, <1>8, <1>9

-----------------------------------------------------------------------------
(* What the arena holds. *)

\* What a task holds in the arena before and after a step that changes its record.
LEMMA EscrowedSteps ==
  ASSUME PaymentInv, NEW id \in TaskId
  PROVE  /\ Posted(id) => Escrowed(id) = 0 /\ Escrowed(id)' = tasks'[id].bounty
         /\ Known(id) /\ Cancelled(id) => Escrowed(id) = tasks[id].bounty /\ Escrowed(id)' = 0
         /\ Known(id) /\ Claimed(id) =>
                Escrowed(id) = tasks[id].bounty /\ Escrowed(id)' = tasks[id].bounty + tasks[id].fee
         /\ Known(id) /\ Committed(id) => Escrowed(id)' = Escrowed(id)
         /\ Known(id) /\ (Revealed(id) \/ TimedOut(id)) =>
                Escrowed(id) = tasks[id].bounty + tasks[id].fee /\ Escrowed(id)' = 0
  <1> USE DEF Escrowed, Known, Held
  <1>1. ASSUME Posted(id) PROVE Escrowed(id) = 0 /\ Escrowed(id)' = tasks'[id].bounty
    BY <1>1, ArenaAssumption, Addresses DEF Posted, NoTask
  <1>2. ASSUME Known(id), Cancelled(id) PROVE Escrowed(id) = tasks[id].bounty /\ Escrowed(id)' = 0
    BY <1>2 DEF Cancelled, SameTerms
  <1>3. ASSUME Known(id), Claimed(id)
        PROVE  Escrowed(id) = tasks[id].bounty /\ Escrowed(id)' = tasks[id].bounty + tasks[id].fee
    BY <1>3 DEF Claimed, SameTerms
  <1>4. ASSUME Known(id), Committed(id) PROVE Escrowed(id)' = Escrowed(id)
    BY <1>4 DEF Committed, SameTerms
  <1>5. ASSUME Known(id), Revealed(id) \/ TimedOut(id)
        PROVE  Escrowed(id) = tasks[id].bounty + tasks[id].fee /\ Escrowed(id)' = 0
    BY <1>5 DEF Revealed, TimedOut, SameTerms
  <1> QED
    BY <1>1, <1>2, <1>3, <1>4, <1>5

LEMMA InitEscrow == Init => EscrowBalances
  <1> SUFFICES ASSUME Init PROVE EscrowBalances
    OBVIOUS
  <1>1. balanceOf[Arena] = 0
    BY Addresses DEF Init, InitialBalance
  <1>2. Escrow = 0
    <2>1. \A id \in TaskId : Escrowed(id) = 0
      BY DEF Init, Escrowed, Known, NoTask
    <2> QED
      BY <2>1, TotalZero DEF Escrow
  <1>3. AllCredits = 0
    BY TotalZero DEF Init, AllCredits
  <1>4. AllStray = 0
    <2>1. \A u \in User : StrayNonces(u) = {}
      BY Addresses DEF Init, StrayNonces
    <2>2. \A u \in User : Stray(u) = 0
      BY <2>1, TotalEmpty DEF Stray
    <2> QED
      BY <2>2, TotalZero DEF AllStray
  <1> QED
    BY <1>1, <1>2, <1>3, <1>4 DEF EscrowBalances

LEMMA NextEscrow ==
  ASSUME PaymentInv, EscrowBalances, [Next]_vars
  PROVE  EscrowBalances'
  <1>1. PaymentInv' /\ TypeOK /\ TypeOK' /\ IndInv
    BY NextPayment DEF PaymentInv, IndInv
  <1>2. balanceOf[Arena] = Escrow + AllCredits + AllStray
    BY DEF EscrowBalances
  <1>3. Escrow \in Nat /\ AllCredits \in Nat /\ AllStray \in Nat
    BY SumTypes
  <1>4. \A id \in TaskId : tasks[id].bounty \in Nat /\ tasks[id].fee \in Nat
                              /\ tasks[id].slashAmount \in Nat
    BY <1>1, TaskAmounts
  <1>5. CASE Idles
    <2>1. Escrow' = Escrow /\ AllStray' = AllStray /\ AllCredits' = AllCredits
      BY <1>1, <1>5, EscrowSame, AllStraySame DEF Idles, AllCredits
    <2> QED
      BY <1>2, <1>5, <2>1 DEF Idles, EscrowBalances
  <1>6. ASSUME NEW u \in User, NEW id \in TaskId, Posts(u, id) PROVE EscrowBalances'
    <2>1. Escrow' = Escrow + tasks'[id].bounty /\ tasks'[id].bounty \in Nat
      BY <1>1, <1>3, <1>6, EscrowChange, EscrowedSteps DEF Posts
    <2>2. AllStray' = AllStray /\ AllCredits' = AllCredits
      BY <1>1, <1>6, AllStraySame DEF Posts, AllCredits
    <2> QED
      BY <1>2, <1>3, <1>6, <2>1, <2>2 DEF Posts, Pays, EscrowBalances
  <1>7. ASSUME NEW id \in TaskId, Cancels(id) PROVE EscrowBalances'
    <2>1. Escrow' = Escrow - tasks[id].bounty
      BY <1>1, <1>3, <1>4, <1>7, EscrowChange, EscrowedSteps DEF Cancels
    <2>2. AllStray' = AllStray
      BY <1>1, <1>7, AllStraySame DEF Cancels
    <2>3. AllCredits' = AllCredits + tasks[id].bounty
      BY <1>1, <1>4, <1>7, CreditsGrow, TaskAmounts DEF Cancels, AllCredits
    <2> QED
      BY <1>2, <1>3, <1>4, <1>7, <2>1, <2>2, <2>3 DEF Cancels, EscrowBalances
  <1>8. ASSUME NEW s, Signs(s) PROVE EscrowBalances'
    <2>1. Escrow' = Escrow /\ AllStray' = AllStray /\ AllCredits' = AllCredits
      BY <1>1, <1>8, EscrowSame, AllStraySame DEF Signs, AllCredits
    <2> QED
      BY <1>2, <1>8, <2>1 DEF Signs, EscrowBalances
  <1>9. ASSUME NEW u \in User, NEW id \in TaskId, NEW a \in AgentId, Claims(u, id, a)
        PROVE  EscrowBalances'
    <2>1. Escrow' = Escrow + tasks[id].fee
      BY <1>1, <1>3, <1>4, <1>9, EscrowChange, EscrowedSteps DEF Claims
    <2>2. AllStray' = AllStray /\ AllCredits' = AllCredits
      BY <1>1, <1>9, AllStraySame DEF Claims, AllCredits
    <2> QED
      BY <1>2, <1>3, <1>4, <1>9, <2>1, <2>2 DEF Claims, Pays, EscrowBalances
  <1>10. ASSUME NEW auth \in signed, Submits(auth) PROVE EscrowBalances'
    <2>1. AllStray' = AllStray + auth.value /\ auth.value \in Nat
      BY <1>1, <1>10, AllStrayGrows DEF TypeOK, Token!Authorization
    <2>2. Escrow' = Escrow /\ AllCredits' = AllCredits
      BY <1>10, EscrowSame DEF Submits, AllCredits
    <2> QED
      BY <1>2, <1>3, <1>10, <2>1, <2>2 DEF Submits, Pays, EscrowBalances
  <1>11. ASSUME NEW id \in TaskId, Commits(id) PROVE EscrowBalances'
    <2>1. Escrow' = Escrow
      BY <1>1, <1>3, <1>11, EscrowChange, EscrowedSteps DEF Commits
    <2>2. AllStray' = AllStray /\ AllCredits' = AllCredits
      BY <1>1, <1>11, AllStraySame DEF Commits, AllCredits
    <2> QED
      BY <1>2, <1>11, <2>1, <2>2 DEF Commits, EscrowBalances
  <1>12. ASSUME NEW id \in TaskId, NEW how \in Endings, Ends(id, how) PROVE EscrowBalances'
    <2>1. Escrow' = Escrow - (tasks[id].bounty + tasks[id].fee)
      BY <1>1, <1>3, <1>4, <1>12, EscrowChange, EscrowedSteps DEF Ends
    <2>2. AllStray' = AllStray
      BY <1>1, <1>12, AllStraySame DEF Ends
    <2>3. AllCredits' = AllCredits + tasks[id].bounty + tasks[id].fee + tasks[id].slashAmount
      BY <1>1, <1>12, EndingCredits
    <2>4. balanceOf'[Arena] = balanceOf[Arena] + tasks[id].slashAmount
      BY <1>12 DEF Ends
    <2> QED
      BY <1>2, <1>3, <1>4, <2>1, <2>2, <2>3, <2>4 DEF EscrowBalances
  <1>13. ASSUME NEW u \in User, Withdraws(u) PROVE EscrowBalances'
    <2>1. Escrow' = Escrow /\ AllStray' = AllStray
      BY <1>1, <1>13, EscrowSame, AllStraySame DEF Withdraws
    <2>2. credits \in [User -> Nat] /\ credits[u] \in Nat
      BY <1>1 DEF TypeOK
    <2>3. AllCredits' = AllCredits - credits[u]
      <3>1. Total(Minus(credits, u, credits[u]), User) = Total(credits, User) - credits[u]
        BY <2>2, FiniteIds, TotalMinus
      <3> QED
        BY <1>13, <3>1 DEF Withdraws, AllCredits
    <2> QED
      BY <1>2, <1>3, <1>13, <2>1, <2>2, <2>3 DEF Withdraws, EscrowBalances
  <1> QED
    BY <1>5, <1>6, <1>7, <1>8, <1>9, <1>10, <1>11, <1>12, <1>13, MoneySteps

\* The arena holds the escrow of its live tasks, the credits nobody has drawn and what
\* was sent past it, to the token, whatever the users sign, submit, claim or leave
\* undone (AgentArena.sol:29-31, 288).
THEOREM EscrowIsExact == Spec => []EscrowBalances
  <1>1. Init => PaymentInv /\ EscrowBalances
    BY InitPayment, InitEscrow
  <1>2. PaymentInv /\ EscrowBalances /\ [Next]_vars => (PaymentInv /\ EscrowBalances)'
    BY NextPayment, NextEscrow
  <1> QED
    BY <1>1, <1>2, PTL DEF Spec

-----------------------------------------------------------------------------
(* What a user is left with. *)

Wealth(u) == balanceOf[u] + credits[u]
Net(u) == NetTotal([id \in TaskId |-> Payoff(u, id)], TaskId)

LEMMA PayoffType == TypeOK => \A u \in User, id \in TaskId : Payoff(u, id) \in Int
  <1> SUFFICES ASSUME TypeOK, NEW u \in User, NEW id \in TaskId PROVE Payoff(u, id) \in Int
    OBVIOUS
  <1>1. tasks[id].bounty \in Nat /\ tasks[id].fee \in Nat /\ tasks[id].slashAmount \in Nat
    BY TaskAmounts
  <1>2. PosterPayoff(id) \in Int
    BY <1>1 DEF PosterPayoff
  <1>3. ResolverPayoff(id) \in Int
    BY <1>1 DEF ResolverPayoff
  <1> QED
    BY <1>2, <1>3 DEF Payoff

LEMMA PayoffTypeNext == TypeOK' => \A u \in User, id \in TaskId : Payoff(u, id)' \in Int
  <1>1. (TypeOK => \A u \in User, id \in TaskId : Payoff(u, id) \in Int)'
    BY PayoffType, PTL
  <1> QED
    BY <1>1

LEMMA NetChange ==
  ASSUME TypeOK, TypeOK', NEW id \in TaskId, OthersKept(id), NEW u \in User
  PROVE  /\ Net(u)' = Net(u) - Payoff(u, id) + Payoff(u, id)'
         /\ Net(u) \in Int /\ Payoff(u, id) \in Int /\ Payoff(u, id)' \in Int
  <1> DEFINE f == [j \in TaskId |-> Payoff(u, j)]
             g == [j \in TaskId |-> Payoff(u, j)']
  <1>1. \A j \in TaskId : Payoff(u, j) \in Int /\ Payoff(u, j)' \in Int
    BY PayoffType, PayoffTypeNext
  <1>2. \A j \in TaskId \ {id} : Payoff(u, j)' = Payoff(u, j)
    BY DEF OthersKept, Payoff, PosterPayoff, ResolverPayoff, EndedBy
  <1>3. AgreeOff(f, g, TaskId, id) /\ Balances(f, TaskId) /\ Balances(g, TaskId)
    BY <1>1, <1>2 DEF AgreeOff, Balances
  <1>4. /\ f[id] = Payoff(u, id) /\ g[id] = Payoff(u, id)'
        /\ Net(u) = NetTotal(f, TaskId) /\ Net(u)' = NetTotal(g, TaskId)
    BY DEF Net
  <1> HIDE DEF f, g
  <1>5. /\ NetTotal(g, TaskId) = NetTotal(f, TaskId) - f[id] + g[id]
        /\ NetTotal(f, TaskId) \in Int
    BY <1>3, FiniteIds, NetTotalUpdate
  <1> QED
    BY <1>1, <1>4, <1>5

LEMMA NetSame ==
  ASSUME UNCHANGED tasks, NEW u \in User
  PROVE  Net(u)' = Net(u)
  BY DEF Net, Payoff, PosterPayoff, ResolverPayoff, EndedBy

LEMMA NetType ==
  ASSUME TypeOK, NEW u \in User
  PROVE  Net(u) \in Int
  <1> DEFINE f == [id \in TaskId |-> Payoff(u, id)]
  <1>1. Balances(f, TaskId)
    BY PayoffType DEF Balances
  <1> HIDE DEF f
  <1>2. NetTotal(f, TaskId) \in Int
    BY <1>1, FiniteIds, NetTotalType
  <1> QED
    BY <1>2 DEF f, Net

\* How a step on a task changes what the task pays a user in the end.
Change(u, id) == Payoff(u, id)' - Payoff(u, id)

LEMMA PostPayoff ==
  ASSUME PaymentInv, PaymentInv', NEW w \in User, NEW id \in TaskId, Posts(w, id), NEW u \in User
  PROVE  Change(u, id) = IF u = w THEN 0 - tasks'[id].bounty ELSE 0
  <1>1. u # NoOne /\ tasks'[id].bounty \in Nat
    BY ArenaAssumption, Addresses, EscrowChange, EscrowedSteps DEF PaymentInv, IndInv, Posts
  <1>2. Payoff(u, id) = 0
    BY <1>1 DEF Posts, Posted, NoTask, Payoff
  <1>3. PosterPayoff(id)' = 0 - tasks'[id].bounty
    BY DEF Posts, Posted, PosterPayoff
  <1>4. Payoff(u, id)' = IF u = w THEN 0 - tasks'[id].bounty ELSE 0
    BY <1>1, <1>3 DEF Posts, Posted, Payoff
  <1> QED
    BY <1>1, <1>2, <1>4 DEF Change

LEMMA CancelPayoff ==
  ASSUME PaymentInv, NEW id \in TaskId, Cancels(id), NEW u \in User
  PROVE  Change(u, id) = IF u = tasks[id].poster THEN tasks[id].bounty ELSE 0
  <1>1. u # NoOne /\ tasks[id].bounty \in Nat
    BY ArenaAssumption, Addresses, TaskAmounts DEF PaymentInv, IndInv
  <1>2. /\ tasks[id].resolver = NoOne /\ tasks'[id].resolver = NoOne
        /\ tasks'[id].poster = tasks[id].poster
        /\ tasks[id].status = "Open" /\ tasks'[id].status = "Cancelled"
    BY DEF Cancels, Cancelled, SameTerms, SameClaim, PaymentInv, Stages
  <1>3. PosterPayoff(id) = 0 - tasks[id].bounty /\ PosterPayoff(id)' = 0
    BY <1>2 DEF PosterPayoff
  <1>4. /\ Payoff(u, id) = IF u = tasks[id].poster THEN 0 - tasks[id].bounty ELSE 0
        /\ Payoff(u, id)' = 0
    BY <1>1, <1>2, <1>3 DEF Payoff
  <1> QED
    BY <1>1, <1>4 DEF Change

LEMMA ClaimPayoff ==
  ASSUME PaymentInv, NEW w \in User, NEW id \in TaskId, NEW a \in AgentId, Claims(w, id, a),
         NEW u \in User
  PROVE  Change(u, id) = IF u = w THEN 0 - (tasks[id].fee + tasks[id].slashAmount) ELSE 0
  <1>1. /\ u # NoOne /\ tasks[id].bounty \in Nat /\ tasks[id].fee \in Nat
        /\ tasks[id].slashAmount \in Nat
    BY ArenaAssumption, Addresses, TaskAmounts DEF PaymentInv, IndInv
  <1>2. /\ tasks[id].resolver = NoOne /\ tasks'[id].resolver = w
        /\ tasks[id].status = "Open" /\ tasks'[id].status = "Claimed" /\ SameTerms(id)
    BY DEF Claims, Claimed, PaymentInv, Stages
  <1>3. PosterPayoff(id) = 0 - tasks[id].bounty /\ PosterPayoff(id)' = 0 - tasks[id].bounty
    BY <1>2 DEF PosterPayoff, SameTerms
  <1>4. ResolverPayoff(id)' = 0 - tasks[id].fee - tasks[id].slashAmount
    BY <1>2 DEF ResolverPayoff, EndedBy, SameTerms
  <1>5. /\ Payoff(u, id) = IF tasks[id].poster = u THEN 0 - tasks[id].bounty ELSE 0
        /\ Payoff(u, id)' =
               (IF tasks[id].poster = u THEN 0 - tasks[id].bounty ELSE 0)
                   + (IF w = u THEN 0 - tasks[id].fee - tasks[id].slashAmount ELSE 0)
    BY <1>1, <1>2, <1>3, <1>4 DEF Payoff, SameTerms
  <1> QED
    BY <1>1, <1>5 DEF Change

LEMMA CommitPayoff ==
  ASSUME PaymentInv, NEW id \in TaskId, Commits(id), NEW u \in User
  PROVE  Payoff(u, id)' = Payoff(u, id)
  BY DEF Commits, Committed, SameTerms, SameClaim, Payoff, PosterPayoff, ResolverPayoff, EndedBy

\* At its end a task pays each party what it is then due.
LEMMA EndPayoff ==
  ASSUME PaymentInv, NEW id \in TaskId, NEW how \in Endings, Ends(id, how), NEW u \in User
  PROVE  Change(u, id) = (IF u = tasks[id].poster THEN PosterDue(id, how) ELSE 0)
                             + (IF u = tasks[id].resolver THEN ResolverDue(id, how) ELSE 0)
  <1>1. /\ tasks[id].bounty \in Nat /\ tasks[id].fee \in Nat /\ tasks[id].slashAmount \in Nat
    BY TaskAmounts DEF PaymentInv, IndInv
  <1>2. /\ tasks[id].status \in Held /\ tasks'[id].status = "Settled"
        /\ SameTerms(id) /\ SameClaim(id) /\ EndedBy(id)' = how
    BY DEF Ends, Revealed, TimedOut, Held
  <1>3. /\ PosterDue(id, how) \in Nat /\ ResolverDue(id, how) \in Nat
        /\ PosterDue(id, how) + ResolverDue(id, how)
               = tasks[id].bounty + tasks[id].fee + tasks[id].slashAmount
        /\ PosterDue(id, how) =
               (IF how = "wrong" THEN tasks[id].bounty + tasks[id].fee + tasks[id].slashAmount
                ELSE IF how = "commit-timeout" THEN tasks[id].bounty + tasks[id].fee ELSE 0)
    BY <1>2, EndingDues DEF PaymentInv
  <1>4. EndedBy(id) = "nothing"
    BY <1>2 DEF EndedBy, Held
  <1>5. PosterPayoff(id) = 0 - tasks[id].bounty
    BY <1>2, <1>4 DEF PosterPayoff, Held
  <1>6. ResolverPayoff(id) = 0 - tasks[id].fee - tasks[id].slashAmount
    BY <1>4 DEF ResolverPayoff
  <1>7. PosterPayoff(id)' = IF how = "wrong" THEN tasks[id].fee + tasks[id].slashAmount
                            ELSE IF how = "commit-timeout" THEN tasks[id].fee
                            ELSE 0 - tasks[id].bounty
    BY <1>2 DEF PosterPayoff, SameTerms
  <1>8. ResolverPayoff(id)' = IF how = "wrong" THEN 0 - tasks[id].fee - tasks[id].slashAmount
                              ELSE IF how = "commit-timeout" THEN 0 - tasks[id].fee
                              ELSE tasks[id].bounty
    BY <1>2 DEF ResolverPayoff, SameTerms, Endings
  <1>9. PosterPayoff(id)' = PosterPayoff(id) + PosterDue(id, how)
    BY <1>1, <1>3, <1>5, <1>7
  <1>10. ResolverPayoff(id)' = ResolverPayoff(id) + ResolverDue(id, how)
    BY <1>1, <1>3, <1>6, <1>8
  <1>11. PosterPayoff(id) \in Int /\ ResolverPayoff(id) \in Int
    BY <1>1, <1>5, <1>6
  <1>12. /\ Payoff(u, id) = (IF u = tasks[id].poster THEN PosterPayoff(id) ELSE 0)
                                + (IF u = tasks[id].resolver THEN ResolverPayoff(id) ELSE 0)
         /\ Payoff(u, id)' = (IF u = tasks[id].poster THEN PosterPayoff(id)' ELSE 0)
                                + (IF u = tasks[id].resolver THEN ResolverPayoff(id)' ELSE 0)
    BY <1>2 DEF Payoff, SameTerms, SameClaim
  <1> QED
    BY <1>3, <1>9, <1>10, <1>11, <1>12 DEF Change

\* How a step changes what a user owns.
LEMMA WealthType ==
  ASSUME TypeOK, NEW u \in User
  PROVE  balanceOf[u] \in Nat /\ credits[u] \in Nat /\ Wealth(u) \in Nat
  BY Addresses, SMTT(20) DEF TypeOK, Wealth

LEMMA PayWealth ==
  ASSUME TypeOK, NEW w \in User, NEW v \in Nat, NEW in, Pays(w, v, in), UNCHANGED credits,
         NEW u \in User
  PROVE  /\ Wealth(u)' = Wealth(u) - (IF u = w THEN v ELSE 0)
         /\ v <= Wealth(w)
  BY WealthType DEF Pays, Wealth

LEMMA CancelWealth ==
  ASSUME IndInv, NEW id \in TaskId, Cancels(id), NEW u \in User
  PROVE  Wealth(u)' = Wealth(u) + (IF u = tasks[id].poster THEN tasks[id].bounty ELSE 0)
  <1>1. credits \in [User -> Nat] /\ tasks[id].poster \in User /\ tasks[id].bounty \in Nat
    BY TaskAmounts DEF IndInv, TypeOK, Cancels
  <1>2. credits'[u] = credits[u] + (IF u = tasks[id].poster THEN tasks[id].bounty ELSE 0)
    BY <1>1 DEF Cancels, Plus
  <1>3. balanceOf[u] \in Nat /\ credits[u] \in Nat /\ UNCHANGED balanceOf
    BY WealthType DEF IndInv, Cancels
  <1> QED
    BY <1>1, <1>2, <1>3 DEF Wealth

LEMMA EndWealth ==
  ASSUME IndInv, NEW id \in TaskId, NEW how \in Endings, Ends(id, how), NEW u \in User
  PROVE  Wealth(u)' = Wealth(u)
             + ((IF u = tasks[id].poster THEN PosterDue(id, how) ELSE 0)
                    + (IF u = tasks[id].resolver THEN ResolverDue(id, how) ELSE 0))
  <1> DEFINE p == PosterDue(id, how)
             r == ResolverDue(id, how)
             mid == Plus(credits, tasks[id].poster, p)
  <1>1. tasks[id].status \in Held /\ Known(id)
    BY DEF Ends, Revealed, TimedOut, Held
  <1>2. p \in Nat /\ r \in Nat
    BY <1>1, EndingDues
  <1>3. tasks[id].poster \in User /\ tasks[id].resolver \in User
    BY <1>1, TaskAmounts, BondOfTask DEF IndInv
  <1>4. credits' = Plus(mid, tasks[id].resolver, r) /\ balanceOf'[u] = balanceOf[u]
    BY DEF Ends
  <1>5. balanceOf[u] \in Nat /\ credits[u] \in Nat /\ credits \in [User -> Nat]
    BY WealthType DEF IndInv, TypeOK
  <1> HIDE DEF p, r
  <1>6. mid \in [User -> Nat] /\ mid[u] = credits[u] + (IF u = tasks[id].poster THEN p ELSE 0)
    BY <1>2, <1>3, <1>5 DEF Plus
  <1> HIDE DEF mid
  <1>7. credits'[u] = mid[u] + (IF u = tasks[id].resolver THEN r ELSE 0)
    BY <1>2, <1>3, <1>4, <1>6 DEF Plus
  <1>8. Wealth(u)' = Wealth(u) + ((IF u = tasks[id].poster THEN p ELSE 0)
                                      + (IF u = tasks[id].resolver THEN r ELSE 0))
    BY <1>2, <1>4, <1>5, <1>6, <1>7 DEF Wealth
  <1> QED
    BY <1>8 DEF p, r

LEMMA WithdrawWealth ==
  ASSUME TypeOK, NEW w \in User, Withdraws(w), NEW u \in User
  PROVE  Wealth(u)' = Wealth(u)
  <1>1. credits \in [User -> Nat] /\ credits[u] \in Nat /\ balanceOf[u] \in Nat
    BY WealthType DEF TypeOK
  <1>2. CASE u = w
    <2>1. credits'[u] = credits[u] - credits[u] /\ balanceOf'[u] = balanceOf[u] + credits[u]
      BY <1>1, <1>2 DEF Withdraws, Minus
    <2> QED
      BY <1>1, <2>1 DEF Wealth
  <1>3. CASE u # w
    <2>1. credits'[u] = credits[u] /\ balanceOf'[u] = balanceOf[u]
      BY <1>1, <1>3 DEF Withdraws, Minus
    <2> QED
      BY <2>1 DEF Wealth
  <1> QED
    BY <1>2, <1>3

LEMMA InitWealth == Init => WealthFollowsOutcomes
  <1> SUFFICES ASSUME Init, NEW u \in User
               PROVE  balanceOf[u] + credits[u] = Funding[u] + Net(u) - Stray(u)
    BY DEF WealthFollowsOutcomes, Net
  <1>1. balanceOf[u] = Funding[u] /\ credits[u] = 0 /\ Funding[u] \in Nat
    BY Addresses, ArenaAssumption DEF Init, InitialBalance, Amount
  <1>2. Stray(u) = 0
    <2>1. StrayNonces(u) = {}
      BY Addresses DEF Init, StrayNonces
    <2> QED
      BY <2>1, TotalEmpty DEF Stray
  <1>3. Net(u) = 0
    <2>1. u # NoOne
      BY ArenaAssumption, Addresses
    <2>2. \A id \in TaskId : Payoff(u, id) = 0
      BY <2>1 DEF Init, NoTask, Payoff
    <2> QED
      BY <2>2, NetTotalZero DEF Net
  <1> QED
    BY <1>1, <1>2, <1>3

\* What every step but a submitted authorisation has to show.
LEMMA WealthKeepsUp ==
  ASSUME PaymentInv, PaymentInv', NEW u \in User, Wealth(u) = Funding[u] + Net(u) - Stray(u),
         NEW id \in TaskId, OthersKept(id), Stray(u)' = Stray(u),
         Wealth(u)' = Wealth(u) + Change(u, id)
  PROVE  Wealth(u)' = Funding[u] + Net(u)' - Stray(u)'
  <1>1. TypeOK /\ TypeOK' /\ Funding[u] \in Nat
    BY ArenaAssumption DEF PaymentInv, IndInv, Amount
  <1>2. /\ Net(u)' = Net(u) - Payoff(u, id) + Payoff(u, id)'
        /\ Net(u) \in Int /\ Payoff(u, id) \in Int /\ Payoff(u, id)' \in Int
    BY <1>1, NetChange
  <1>3. Stray(u) \in Nat
    BY SumTypes
  <1> QED
    BY <1>1, <1>2, <1>3 DEF Change

LEMMA NextWealth ==
  ASSUME PaymentInv, WealthFollowsOutcomes, [Next]_vars
  PROVE  WealthFollowsOutcomes'
  <1>1. PaymentInv' /\ TypeOK /\ TypeOK' /\ IndInv
    BY NextPayment DEF PaymentInv, IndInv
  <1> SUFFICES ASSUME NEW u \in User PROVE Wealth(u)' = Funding[u] + Net(u)' - Stray(u)'
    BY DEF WealthFollowsOutcomes, Wealth, Net
  <1>2. Wealth(u) = Funding[u] + Net(u) - Stray(u)
    BY DEF WealthFollowsOutcomes, Wealth, Net
  <1>3. Wealth(u) \in Nat /\ Stray(u) \in Nat /\ Net(u) \in Int /\ Funding[u] \in Nat
    BY <1>1, WealthType, SumTypes, NetType, ArenaAssumption DEF Amount
  <1>4. \A id \in TaskId : tasks[id].bounty \in Nat /\ tasks[id].fee \in Nat
                              /\ tasks[id].slashAmount \in Nat
    BY <1>1, TaskAmounts
  <1>5. CASE Idles
    BY <1>1, <1>2, <1>5, NetSame, AllStraySame DEF Idles, Wealth
  <1>6. ASSUME NEW w \in User, NEW id \in TaskId, Posts(w, id)
        PROVE  Wealth(u)' = Funding[u] + Net(u)' - Stray(u)'
    <2>1. tasks'[id].bounty \in Nat
      BY <1>1, <1>6, EscrowChange, EscrowedSteps DEF Posts
    <2>2. Wealth(u)' = Wealth(u) - (IF u = w THEN tasks'[id].bounty ELSE 0)
      BY <1>1, <1>6, <2>1, PayWealth DEF Posts
    <2>3. Change(u, id) = IF u = w THEN 0 - tasks'[id].bounty ELSE 0
      BY <1>1, <1>6, PostPayoff
    <2>4. Wealth(u)' = Wealth(u) + Change(u, id)
      BY <1>3, <2>1, <2>2, <2>3
    <2>5. Stray(u)' = Stray(u)
      BY <1>1, <1>6, AllStraySame DEF Posts
    <2> QED
      BY <1>1, <1>2, <1>6, <2>4, <2>5, WealthKeepsUp DEF Posts
  <1>7. ASSUME NEW id \in TaskId, Cancels(id)
        PROVE  Wealth(u)' = Funding[u] + Net(u)' - Stray(u)'
    <2>1. Wealth(u)' = Wealth(u) + Change(u, id)
      BY <1>1, <1>7, CancelWealth, CancelPayoff
    <2>2. Stray(u)' = Stray(u)
      BY <1>1, <1>7, AllStraySame DEF Cancels
    <2> QED
      BY <1>1, <1>2, <1>7, <2>1, <2>2, WealthKeepsUp DEF Cancels
  <1>8. ASSUME NEW s, Signs(s) PROVE Wealth(u)' = Funding[u] + Net(u)' - Stray(u)'
    BY <1>1, <1>2, <1>8, NetSame, AllStraySame DEF Signs, Wealth
  <1>9. ASSUME NEW w \in User, NEW id \in TaskId, NEW a \in AgentId, Claims(w, id, a)
        PROVE  Wealth(u)' = Funding[u] + Net(u)' - Stray(u)'
    <2> DEFINE v == tasks[id].fee + tasks[id].slashAmount
    <2>1. v \in Nat
      BY <1>4
    <2>2. Change(u, id) = IF u = w THEN 0 - v ELSE 0
      BY <1>1, <1>9, ClaimPayoff
    <2>3. Pays(w, v, tasks[id].fee) /\ UNCHANGED credits
      BY <1>9 DEF Claims
    <2> HIDE DEF v
    <2>4. Wealth(u)' = Wealth(u) - (IF u = w THEN v ELSE 0)
      BY <1>1, <2>1, <2>3, PayWealth
    <2>5. Wealth(u)' = Wealth(u) + Change(u, id)
      BY <1>3, <2>1, <2>2, <2>4
    <2>6. Stray(u)' = Stray(u)
      BY <1>1, <1>9, AllStraySame DEF Claims
    <2> QED
      BY <1>1, <1>2, <1>9, <2>5, <2>6, WealthKeepsUp DEF Claims
  <1>10. ASSUME NEW auth \in signed, Submits(auth)
         PROVE  Wealth(u)' = Funding[u] + Net(u)' - Stray(u)'
    <2>1. auth.from \in User /\ auth.value \in Nat
      BY <1>1 DEF PaymentInv, SignedForArena, TypeOK, Token!Authorization
    <2>2. Wealth(u)' = Wealth(u) - (IF u = auth.from THEN auth.value ELSE 0)
      BY <1>1, <1>10, <2>1, PayWealth DEF Submits
    <2>3. Stray(u)' = Stray(u) + (IF u = auth.from THEN auth.value ELSE 0)
      BY <1>1, <1>3, <1>10, AllStrayGrows
    <2>4. Net(u)' = Net(u)
      BY <1>10, NetSame DEF Submits
    <2> QED
      BY <1>2, <1>3, <2>1, <2>2, <2>3, <2>4
  <1>11. ASSUME NEW id \in TaskId, Commits(id)
         PROVE  Wealth(u)' = Funding[u] + Net(u)' - Stray(u)'
    <2>1. Change(u, id) = 0
      <3>1. Payoff(u, id) \in Int /\ Payoff(u, id)' = Payoff(u, id)
        BY <1>1, <1>11, CommitPayoff, PayoffType
      <3> QED
        BY <3>1 DEF Change
    <2>2. Wealth(u)' = Wealth(u) + Change(u, id)
      <3>1. Wealth(u)' = Wealth(u)
        BY <1>11 DEF Commits, Wealth
      <3> QED
        BY <1>3, <2>1, <3>1
    <2>3. Stray(u)' = Stray(u)
      BY <1>1, <1>11, AllStraySame DEF Commits
    <2> QED
      BY <1>1, <1>2, <1>11, <2>2, <2>3, WealthKeepsUp DEF Commits
  <1>12. ASSUME NEW id \in TaskId, NEW how \in Endings, Ends(id, how)
         PROVE  Wealth(u)' = Funding[u] + Net(u)' - Stray(u)'
    <2>1. Wealth(u)' = Wealth(u) + Change(u, id)
      BY <1>1, <1>12, EndWealth, EndPayoff
    <2>2. Stray(u)' = Stray(u)
      BY <1>1, <1>12, AllStraySame DEF Ends
    <2> QED
      BY <1>1, <1>2, <1>12, <2>1, <2>2, WealthKeepsUp DEF Ends
  <1>13. ASSUME NEW w \in User, Withdraws(w)
         PROVE  Wealth(u)' = Funding[u] + Net(u)' - Stray(u)'
    <2>1. Wealth(u)' = Wealth(u)
      BY <1>1, <1>13, WithdrawWealth
    <2>2. Net(u)' = Net(u) /\ Stray(u)' = Stray(u)
      BY <1>1, <1>13, NetSame, AllStraySame DEF Withdraws
    <2> QED
      BY <1>2, <2>1, <2>2
  <1> QED
    BY <1>5, <1>6, <1>7, <1>8, <1>9, <1>10, <1>11, <1>12, <1>13, MoneySteps

\* Whatever the interleaving, a user ends up with what it started with, the payoffs of
\* the tasks it posted or resolved, less what others submitted of its signatures past
\* the arena (AgentArena.sol:192-200, 221-257, 289-367).
THEOREM WealthIsEarned == Spec => []WealthFollowsOutcomes
  <1>1. Init => PaymentInv /\ WealthFollowsOutcomes
    BY InitPayment, InitWealth
  <1>2. PaymentInv /\ WealthFollowsOutcomes /\ [Next]_vars
            => (PaymentInv /\ WealthFollowsOutcomes)'
    BY NextPayment, NextWealth
  <1> QED
    BY <1>1, <1>2, PTL DEF Spec

-----------------------------------------------------------------------------
(* The promise: the step of the abstract escrow that each kind of step is.   *)

\* What the abstract escrow holds for a task.
PotOf(id) == Escrowed(id) + Collateral(id)

\* A task's collateral is its slash amount while somebody holds it.
LEMMA CollateralOfTask ==
  IndInv => \A id \in TaskId :
                Collateral(id) = IF tasks[id].status \in Held THEN tasks[id].slashAmount ELSE 0
  <1> SUFFICES ASSUME IndInv, NEW id \in TaskId
               PROVE  Collateral(id) = IF tasks[id].status \in Held THEN tasks[id].slashAmount ELSE 0
    OBVIOUS
  <1>1. CollateralOf(id)
    BY DEF IndInv, CollateralFollowsTask
  <1>2. CASE tasks[id].status \in Held
    <2>1. bonds[id].depositor \in User /\ bonds[id].closed = FALSE
          /\ bonds[id].amount = tasks[id].slashAmount
      BY <1>1, <1>2 DEF CollateralOf, IndInv, Claimants, Held
    <2>2. bonds[id].depositor # NoOne
      BY <2>1, ArenaAssumption, Addresses
    <2> QED
      BY <1>2, <2>1, <2>2 DEF Collateral, StakeVault!IsOpen, StakeVault!BondExists
  <1>3. CASE tasks[id].status = "Settled"
    BY <1>1, <1>3 DEF CollateralOf, Held, Collateral, StakeVault!IsOpen
  <1>4. CASE tasks[id].status \in {"Open", "Cancelled"}
    BY <1>1, <1>4
    DEF CollateralOf, Held, Collateral, StakeVault!IsOpen, StakeVault!BondExists,
        StakeVault!NoBond
  <1>5. tasks[id].status \in Status
    BY DEF IndInv, TypeOK, Task, NoTask, Status
  <1> QED
    BY <1>2, <1>3, <1>4, <1>5 DEF Status, Held

LEMMA CollateralOfTaskNext ==
  IndInv' => \A id \in TaskId :
                 Collateral(id)' = IF tasks'[id].status \in Held THEN tasks'[id].slashAmount ELSE 0
  <1>1. (IndInv => \A id \in TaskId : Collateral(id) =
            IF tasks[id].status \in Held THEN tasks[id].slashAmount ELSE 0)'
    BY CollateralOfTask, PTL
  <1> QED
    BY <1>1 DEF Held

\* A step on one task leaves the others' part of the abstract escrow alone.
LEMMA OthersEscrow ==
  ASSUME IndInv, IndInv', NEW id \in TaskId, OthersKept(id), NEW j \in TaskId, j # id
  PROVE  /\ Phase(j)' = Phase(j) /\ PotOf(j)' = PotOf(j) /\ Collateral(j)' = Collateral(j)
         /\ tasks'[j].poster = tasks[j].poster /\ tasks'[j].resolver = tasks[j].resolver
  <1>1. tasks'[j] = tasks[j]
    BY DEF OthersKept
  <1>2. Collateral(j)' = Collateral(j)
    BY <1>1, CollateralOfTask, CollateralOfTaskNext
  <1>3. Phase(j)' = Phase(j) /\ Escrowed(j)' = Escrowed(j)
    BY <1>1 DEF Phase, Escrowed, Known, Held
  <1> QED
    BY <1>1, <1>2, <1>3 DEF PotOf

\* What a step does to its own task's part.
LEMMA PhaseSteps ==
  ASSUME PaymentInv, PaymentInv', NEW id \in TaskId
  PROVE  /\ Posted(id) => /\ Phase(id) = "absent" /\ Phase(id)' = "open"
                          /\ PotOf(id)' = tasks'[id].bounty
                          /\ Collateral(id) = 0 /\ Collateral(id)' = 0
                          /\ tasks[id].resolver = NoOne /\ tasks'[id].resolver = NoOne
         /\ Known(id) /\ Cancelled(id) =>
                /\ Phase(id) = "open" /\ Phase(id)' = "over"
                /\ PotOf(id) = tasks[id].bounty /\ PotOf(id)' = 0
                /\ Collateral(id) = 0 /\ Collateral(id)' = 0
         /\ Known(id) /\ Claimed(id) =>
                /\ Phase(id) = "open" /\ Phase(id)' = "held"
                /\ PotOf(id) = tasks[id].bounty
                /\ PotOf(id)' = tasks[id].bounty + (tasks[id].fee + tasks[id].slashAmount)
                /\ Collateral(id)' = tasks[id].slashAmount
         /\ Known(id) /\ Committed(id) =>
                /\ Phase(id)' = Phase(id) /\ PotOf(id)' = PotOf(id)
                /\ Collateral(id)' = Collateral(id)
         /\ Known(id) /\ (Revealed(id) \/ TimedOut(id)) =>
                /\ Phase(id) = "held" /\ Phase(id)' = "over"
                /\ PotOf(id) = tasks[id].bounty + tasks[id].fee + tasks[id].slashAmount
                /\ PotOf(id)' = 0
                /\ Collateral(id) = tasks[id].slashAmount /\ Collateral(id)' = 0
  <1>1. IndInv /\ IndInv' /\ TypeOK
    BY DEF PaymentInv, IndInv
  <1>2. /\ Collateral(id) = IF tasks[id].status \in Held THEN tasks[id].slashAmount ELSE 0
        /\ Collateral(id)' = IF tasks'[id].status \in Held THEN tasks'[id].slashAmount ELSE 0
    BY <1>1, CollateralOfTask, CollateralOfTaskNext
  <1>3. /\ tasks[id].bounty \in Nat /\ tasks[id].fee \in Nat /\ tasks[id].slashAmount \in Nat
    BY <1>1, TaskAmounts
  <1>4. ASSUME Posted(id)
        PROVE  /\ Phase(id) = "absent" /\ Phase(id)' = "open"
               /\ PotOf(id)' = tasks'[id].bounty
               /\ Collateral(id) = 0 /\ Collateral(id)' = 0
               /\ tasks[id].resolver = NoOne /\ tasks'[id].resolver = NoOne
    <2>1. Escrowed(id)' = tasks'[id].bounty /\ tasks'[id].bounty \in Nat
      BY <1>1, <1>4, EscrowedSteps, EscrowedTypeNext DEF IndInv
    <2>2. Collateral(id) = 0 /\ Collateral(id)' = 0
      BY <1>2, <1>4 DEF Posted, NoTask, Held
    <2>3. tasks'[id].poster # NoOne
      BY <1>4, ArenaAssumption, Addresses DEF Posted
    <2>4. tasks[id].poster = NoOne /\ tasks[id].resolver = NoOne /\ tasks'[id].resolver = NoOne
      BY <1>4 DEF Posted, NoTask
    <2>5. Phase(id) = "absent" /\ Phase(id)' = "open"
      <3>1. Phase(id) = "absent"
        BY <2>4 DEF Phase, Known
      <3>2. tasks'[id].poster # NoOne /\ tasks'[id].status = "Open"
        BY <1>4, <2>3 DEF Posted
      <3>3. Phase(id)' = "open"
        BY <3>2 DEF Phase, Known, Held
      <3> QED
        BY <3>1, <3>3
    <2>6. PotOf(id)' = tasks'[id].bounty
      BY <2>1, <2>2 DEF PotOf
    <2> QED
      BY <2>2, <2>4, <2>5, <2>6
  <1>5. ASSUME Known(id), Cancelled(id)
        PROVE  /\ Phase(id) = "open" /\ Phase(id)' = "over"
               /\ PotOf(id) = tasks[id].bounty /\ PotOf(id)' = 0
               /\ Collateral(id) = 0 /\ Collateral(id)' = 0
    <2>1. Escrowed(id) = tasks[id].bounty /\ Escrowed(id)' = 0
      BY <1>5, EscrowedSteps
    <2>2. Collateral(id) = 0 /\ Collateral(id)' = 0
      BY <1>2, <1>5 DEF Cancelled, Held
    <2> QED
      BY <1>3, <1>5, <2>1, <2>2 DEF Cancelled, SameTerms, Phase, Known, PotOf, Held
  <1>6. ASSUME Known(id), Claimed(id)
        PROVE  /\ Phase(id) = "open" /\ Phase(id)' = "held"
               /\ PotOf(id) = tasks[id].bounty
               /\ PotOf(id)' = tasks[id].bounty + (tasks[id].fee + tasks[id].slashAmount)
               /\ Collateral(id)' = tasks[id].slashAmount
    <2>1. Escrowed(id) = tasks[id].bounty /\ Escrowed(id)' = tasks[id].bounty + tasks[id].fee
      BY <1>6, EscrowedSteps
    <2>2. Collateral(id) = 0 /\ Collateral(id)' = tasks[id].slashAmount
      BY <1>2, <1>6 DEF Claimed, SameTerms, Held
    <2> QED
      BY <1>3, <1>6, <2>1, <2>2 DEF Claimed, SameTerms, Phase, Known, PotOf, Held
  <1>7. ASSUME Known(id), Committed(id)
        PROVE  /\ Phase(id)' = Phase(id) /\ PotOf(id)' = PotOf(id)
               /\ Collateral(id)' = Collateral(id)
    <2>1. Escrowed(id)' = Escrowed(id)
      BY <1>7, EscrowedSteps
    <2>2. Collateral(id)' = Collateral(id)
      BY <1>2, <1>7 DEF Committed, SameTerms, Held
    <2> QED
      BY <1>7, <2>1, <2>2 DEF Committed, SameTerms, Phase, Known, PotOf, Held
  <1>8. ASSUME Known(id), Revealed(id) \/ TimedOut(id)
        PROVE  /\ Phase(id) = "held" /\ Phase(id)' = "over"
               /\ PotOf(id) = tasks[id].bounty + tasks[id].fee + tasks[id].slashAmount
               /\ PotOf(id)' = 0
               /\ Collateral(id) = tasks[id].slashAmount /\ Collateral(id)' = 0
    <2>1. Escrowed(id) = tasks[id].bounty + tasks[id].fee /\ Escrowed(id)' = 0
      BY <1>8, EscrowedSteps
    <2>2. /\ tasks[id].status \in Held /\ tasks'[id].status = "Settled" /\ SameTerms(id)
      BY <1>8 DEF Revealed, TimedOut, Held
    <2>3. Collateral(id) = tasks[id].slashAmount /\ Collateral(id)' = 0
      BY <1>2, <2>2 DEF Held
    <2> QED
      BY <1>3, <1>8, <2>1, <2>2, <2>3 DEF SameTerms, Phase, Known, PotOf, Held
  <1> QED
    BY <1>4, <1>5, <1>6, <1>7, <1>8

LEMMA PostLocks ==
  ASSUME PaymentInv, PaymentInv', NEW u \in User, NEW id \in TaskId, Posts(u, id)
  PROVE  Promise!Next
  <1>1. IndInv /\ IndInv' /\ TypeOK /\ TypeOK'
    BY DEF PaymentInv, IndInv
  <1>2. Posted(id) /\ OthersKept(id) /\ tasks'[id].poster = u
    BY DEF Posts
  <1>3. PICK v \in Nat : v = tasks'[id].bounty
    BY <1>1, <1>2, EscrowedSteps, EscrowedTypeNext
  <1>4. /\ Phase(id) = "absent" /\ Phase(id)' = "open" /\ PotOf(id)' = v
        /\ Collateral(id)' = Collateral(id) /\ tasks'[id].resolver = tasks[id].resolver
    BY <1>2, <1>3, PhaseSteps
  <1>5. \A j \in TaskId \ {id} :
            /\ Phase(j)' = Phase(j) /\ PotOf(j)' = PotOf(j) /\ Collateral(j)' = Collateral(j)
            /\ tasks'[j].poster = tasks[j].poster /\ tasks'[j].resolver = tasks[j].resolver
    BY <1>1, <1>2, OthersEscrow
  <1>6. v <= Wealth(u) /\ \A w \in User : Wealth(w)' = Wealth(w) - (IF w = u THEN v ELSE 0)
    BY <1>1, <1>3, PayWealth DEF Posts
  <1>7. \A w \in User : Wealth(w) \in Nat
    BY <1>1, WealthType
  <1>8. Promise!Lock(id, u, v)
    <2>1. [j \in TaskId |-> Phase(j)]' = [[j \in TaskId |-> Phase(j)] EXCEPT ![id] = "open"]
      BY <1>4, <1>5
    <2>2. [j \in TaskId |-> tasks[j].poster]' = [[j \in TaskId |-> tasks[j].poster] EXCEPT ![id] = u]
      BY <1>2, <1>5
    <2>3. [j \in TaskId |-> PotOf(j)]' = [[j \in TaskId |-> PotOf(j)] EXCEPT ![id] = v]
      BY <1>4, <1>5
    <2>4. [w \in User |-> Wealth(w)]' = [[w \in User |-> Wealth(w)] EXCEPT ![u] = @ - v]
      <3>1. \A w \in User : Wealth(w)' = IF w = u THEN Wealth(w) - v ELSE Wealth(w)
        BY <1>6, <1>7
      <3> QED
        BY <3>1
    <2>5. /\ [j \in TaskId |-> tasks[j].resolver]' = [j \in TaskId |-> tasks[j].resolver]
          /\ [j \in TaskId |-> Collateral(j)]' = [j \in TaskId |-> Collateral(j)]
      BY <1>4, <1>5
    <2> QED
      BY <1>4, <1>6, <2>1, <2>2, <2>3, <2>4, <2>5 DEF Promise!Lock, Wealth, PotOf
  <1>9. v \in 0..Wealth(u)
    BY <1>3, <1>6, <1>7
  <1>10. \E x \in 0..[w \in User |-> Wealth(w)][u] : Promise!Lock(id, u, x)
    BY <1>8, <1>9
  <1> QED
    BY <1>10 DEF Promise!Next, Wealth

LEMMA CancelUnlocks ==
  ASSUME PaymentInv, PaymentInv', NEW id \in TaskId, Cancels(id)
  PROVE  Promise!Next
  <1>1. IndInv /\ IndInv' /\ TypeOK
    BY DEF PaymentInv, IndInv
  <1>2. Cancelled(id) /\ OthersKept(id) /\ Known(id)
    BY DEF Cancels
  <1>3. /\ Phase(id) = "open" /\ Phase(id)' = "over"
        /\ PotOf(id) = tasks[id].bounty /\ PotOf(id)' = 0 /\ Collateral(id)' = Collateral(id)
    BY <1>2, PhaseSteps
  <1>4. tasks'[id].poster = tasks[id].poster /\ tasks'[id].resolver = tasks[id].resolver
    BY <1>2 DEF Cancelled, SameTerms, SameClaim
  <1>5. \A j \in TaskId \ {id} :
            /\ Phase(j)' = Phase(j) /\ PotOf(j)' = PotOf(j) /\ Collateral(j)' = Collateral(j)
            /\ tasks'[j].poster = tasks[j].poster /\ tasks'[j].resolver = tasks[j].resolver
    BY <1>1, <1>2, OthersEscrow
  <1>6. \A w \in User : Wealth(w)' =
            Wealth(w) + (IF w = tasks[id].poster THEN tasks[id].bounty ELSE 0)
    BY <1>1, CancelWealth
  <1>7. \A w \in User : Wealth(w) \in Nat
    BY <1>1, WealthType
  <1>8. Promise!Unlock(id)
    <2>1. [j \in TaskId |-> Phase(j)]' = [[j \in TaskId |-> Phase(j)] EXCEPT ![id] = "over"]
      BY <1>3, <1>5
    <2>2. [j \in TaskId |-> PotOf(j)]' = [[j \in TaskId |-> PotOf(j)] EXCEPT ![id] = 0]
      BY <1>3, <1>5
    <2>3. [w \in User |-> Wealth(w)]' =
              [[w \in User |-> Wealth(w)] EXCEPT ![tasks[id].poster] = @ + PotOf(id)]
      <3>1. \A w \in User : Wealth(w)' = IF w = tasks[id].poster THEN Wealth(w) + PotOf(id)
                                         ELSE Wealth(w)
        BY <1>3, <1>6, <1>7
      <3> QED
        BY <3>1
    <2>4. /\ [j \in TaskId |-> tasks[j].poster]' = [j \in TaskId |-> tasks[j].poster]
          /\ [j \in TaskId |-> tasks[j].resolver]' = [j \in TaskId |-> tasks[j].resolver]
          /\ [j \in TaskId |-> Collateral(j)]' = [j \in TaskId |-> Collateral(j)]
      BY <1>3, <1>4, <1>5
    <2> QED
      BY <1>3, <2>1, <2>2, <2>3, <2>4 DEF Promise!Unlock, Wealth, PotOf
  <1> QED
    BY <1>8 DEF Promise!Next

LEMMA ClaimJoins ==
  ASSUME PaymentInv, PaymentInv', NEW u \in User, NEW id \in TaskId, NEW a \in AgentId,
         Claims(u, id, a)
  PROVE  Promise!Next
  <1>1. IndInv /\ IndInv' /\ TypeOK
    BY DEF PaymentInv, IndInv
  <1>2. Claimed(id) /\ OthersKept(id) /\ Known(id) /\ tasks'[id].resolver = u
    BY DEF Claims
  <1>3. PICK v \in Nat, c \in Nat :
            v = tasks[id].fee + tasks[id].slashAmount /\ c = tasks[id].slashAmount /\ c <= v
    BY <1>1, TaskAmounts
  <1>4. /\ Phase(id) = "open" /\ Phase(id)' = "held" /\ PotOf(id)' = PotOf(id) + v
        /\ Collateral(id)' = c
    BY <1>2, <1>3, PhaseSteps
  <1>5. \A j \in TaskId \ {id} :
            /\ Phase(j)' = Phase(j) /\ PotOf(j)' = PotOf(j) /\ Collateral(j)' = Collateral(j)
            /\ tasks'[j].poster = tasks[j].poster /\ tasks'[j].resolver = tasks[j].resolver
    BY <1>1, <1>2, OthersEscrow
  <1>6. v <= Wealth(u) /\ \A w \in User : Wealth(w)' = Wealth(w) - (IF w = u THEN v ELSE 0)
    BY <1>1, <1>3, PayWealth DEF Claims
  <1>7. \A w \in User : Wealth(w) \in Nat
    BY <1>1, WealthType
  <1>8. Promise!Join(id, u, v, c)
    <2>1. [j \in TaskId |-> Phase(j)]' = [[j \in TaskId |-> Phase(j)] EXCEPT ![id] = "held"]
      BY <1>4, <1>5
    <2>2. [j \in TaskId |-> tasks[j].resolver]' =
              [[j \in TaskId |-> tasks[j].resolver] EXCEPT ![id] = u]
      BY <1>2, <1>5
    <2>3. [j \in TaskId |-> PotOf(j)]' = [[j \in TaskId |-> PotOf(j)] EXCEPT ![id] = @ + v]
      BY <1>4, <1>5
    <2>4. [j \in TaskId |-> Collateral(j)]' = [[j \in TaskId |-> Collateral(j)] EXCEPT ![id] = c]
      BY <1>4, <1>5
    <2>5. [w \in User |-> Wealth(w)]' = [[w \in User |-> Wealth(w)] EXCEPT ![u] = @ - v]
      <3>1. \A w \in User : Wealth(w)' = IF w = u THEN Wealth(w) - v ELSE Wealth(w)
        BY <1>6, <1>7
      <3> QED
        BY <3>1
    <2>6. [j \in TaskId |-> tasks[j].poster]' = [j \in TaskId |-> tasks[j].poster]
      BY <1>2, <1>5 DEF Claimed, SameTerms
    <2> QED
      BY <1>3, <1>4, <1>6, <2>1, <2>2, <2>3, <2>4, <2>5, <2>6 DEF Promise!Join, Wealth, PotOf
  <1>9. v \in 0..Wealth(u) /\ c \in 0..v
    BY <1>3, <1>6, <1>7
  <1>10. \E x \in 0..[w \in User |-> Wealth(w)][u] : \E y \in 0..x : Promise!Join(id, u, x, y)
    BY <1>8, <1>9
  <1> QED
    BY <1>10 DEF Promise!Next, Wealth

LEMMA EndResolves ==
  ASSUME PaymentInv, PaymentInv', NEW id \in TaskId, NEW how \in Endings, Ends(id, how)
  PROVE  Promise!Next
  <1>1. IndInv /\ IndInv' /\ TypeOK
    BY DEF PaymentInv, IndInv
  <1>2. (Revealed(id) \/ TimedOut(id)) /\ OthersKept(id) /\ Known(id) /\ tasks[id].status \in Held
    BY DEF Ends, Revealed, TimedOut, Held
  <1>3. /\ tasks[id].bounty \in Nat /\ tasks[id].fee \in Nat /\ tasks[id].slashAmount \in Nat
    BY <1>1, TaskAmounts
  <1>4. PICK p \in Nat, r \in Nat :
            /\ p = PosterDue(id, how) /\ r = ResolverDue(id, how)
            /\ p + r = tasks[id].bounty + tasks[id].fee + tasks[id].slashAmount
            /\ p = (IF how = "wrong" THEN tasks[id].bounty + tasks[id].fee + tasks[id].slashAmount
                    ELSE IF how = "commit-timeout" THEN tasks[id].bounty + tasks[id].fee ELSE 0)
    BY <1>1, <1>2, EndingDues
  <1>5. /\ Phase(id) = "held" /\ Phase(id)' = "over"
        /\ PotOf(id) = tasks[id].bounty + tasks[id].fee + tasks[id].slashAmount /\ PotOf(id)' = 0
        /\ Collateral(id) = tasks[id].slashAmount /\ Collateral(id)' = 0
    BY <1>2, PhaseSteps
  <1>6. tasks'[id].poster = tasks[id].poster /\ tasks'[id].resolver = tasks[id].resolver
    BY <1>2 DEF Revealed, TimedOut, SameTerms, SameClaim
  <1>7. \A j \in TaskId \ {id} :
            /\ Phase(j)' = Phase(j) /\ PotOf(j)' = PotOf(j) /\ Collateral(j)' = Collateral(j)
            /\ tasks'[j].poster = tasks[j].poster /\ tasks'[j].resolver = tasks[j].resolver
    BY <1>1, <1>2, OthersEscrow
  <1>8. \A w \in User : Wealth(w)' = Wealth(w)
            + ((IF w = tasks[id].poster THEN p ELSE 0) + (IF w = tasks[id].resolver THEN r ELSE 0))
    BY <1>1, <1>4, EndWealth
  <1>9. \A w \in User : Wealth(w) \in Nat
    BY <1>1, WealthType
  <1>10. PICK pot \in Nat : pot = PotOf(id) /\ r = pot - p /\ p \in 0..pot
                                /\ p \in {0, pot, pot - Collateral(id)}
    BY <1>3, <1>4, <1>5
  <1>11. Promise!Resolve(id, p)
    <2>1. [j \in TaskId |-> Phase(j)]' = [[j \in TaskId |-> Phase(j)] EXCEPT ![id] = "over"]
      BY <1>5, <1>7
    <2>2. [j \in TaskId |-> PotOf(j)]' = [[j \in TaskId |-> PotOf(j)] EXCEPT ![id] = 0]
      BY <1>5, <1>7
    <2>3. [j \in TaskId |-> Collateral(j)]' = [[j \in TaskId |-> Collateral(j)] EXCEPT ![id] = 0]
      BY <1>5, <1>7
    <2>4. [w \in User |-> Wealth(w)]' =
              [[[w \in User |-> Wealth(w)] EXCEPT ![tasks[id].poster] = @ + p]
                   EXCEPT ![tasks[id].resolver] = @ + (PotOf(id) - p)]
      <3>1. tasks[id].poster \in User /\ tasks[id].resolver \in User
        BY <1>1, <1>2, TaskAmounts, BondOfTask
      <3>2. PICK own \in [User -> Nat] : own = [w \in User |-> Wealth(w)]
        BY <1>9
      <3>3. PICK paid : paid = [own EXCEPT ![tasks[id].poster] = @ + p]
        OBVIOUS
      <3>4. /\ paid \in [User -> Nat]
            /\ \A w \in User : paid[w] = IF w = tasks[id].poster THEN Wealth(w) + p ELSE Wealth(w)
        <4>1. \A w \in User : own[w] = Wealth(w)
          BY <3>2
        <4>2. PICK poster \in User : poster = tasks[id].poster
          BY <3>1
        <4>3. paid = [own EXCEPT ![poster] = @ + p] /\ p \in Nat
          BY <3>3, <4>2
        <4>4. paid \in [User -> Nat] /\ \A w \in User : paid[w] = IF w = poster THEN own[w] + p ELSE own[w]
          BY <4>3
        <4> QED
          BY <4>1, <4>2, <4>4
      <3>5. \A w \in User : Wealth(w)' = IF w = tasks[id].resolver THEN paid[w] + r ELSE paid[w]
        BY <1>8, <1>9, <3>4
      <3>6. [w \in User |-> Wealth(w)]' = [paid EXCEPT ![tasks[id].resolver] = @ + r]
        BY <3>4, <3>5
      <3> QED
        BY <1>10, <3>2, <3>3, <3>6
    <2>5. /\ [j \in TaskId |-> tasks[j].poster]' = [j \in TaskId |-> tasks[j].poster]
          /\ [j \in TaskId |-> tasks[j].resolver]' = [j \in TaskId |-> tasks[j].resolver]
      BY <1>6, <1>7
    <2> QED
      BY <1>5, <1>10, <2>1, <2>2, <2>3, <2>4, <2>5 DEF Promise!Resolve, Wealth, PotOf
  <1>12. \E x \in 0..[j \in TaskId |-> PotOf(j)][id] : Promise!Resolve(id, x)
    BY <1>10, <1>11
  <1> QED
    BY <1>12 DEF Promise!Next, PotOf

LEMMA SubmitLoses ==
  ASSUME PaymentInv, NEW auth \in signed, Submits(auth)
  PROVE  Promise!Next
  <1>1. TypeOK
    BY DEF PaymentInv, IndInv
  <1>2. auth.from \in User /\ auth.value \in Nat
    BY <1>1 DEF PaymentInv, SignedForArena, TypeOK, Token!Authorization
  <1>3. PICK u \in User, v \in Nat : u = auth.from /\ v = auth.value
    BY <1>2
  <1>4. v <= Wealth(u) /\ \A w \in User : Wealth(w)' = Wealth(w) - (IF w = u THEN v ELSE 0)
    BY <1>1, <1>3, PayWealth DEF Submits
  <1>5. \A w \in User : Wealth(w) \in Nat
    BY <1>1, WealthType
  <1>6. Promise!Lose(u, v)
    <2>1. [w \in User |-> Wealth(w)]' = [[w \in User |-> Wealth(w)] EXCEPT ![u] = @ - v]
      <3>1. \A w \in User : Wealth(w)' = IF w = u THEN Wealth(w) - v ELSE Wealth(w)
        BY <1>4, <1>5
      <3> QED
        BY <3>1
    <2>2. /\ [j \in TaskId |-> Phase(j)]' = [j \in TaskId |-> Phase(j)]
          /\ [j \in TaskId |-> PotOf(j)]' = [j \in TaskId |-> PotOf(j)]
          /\ [j \in TaskId |-> Collateral(j)]' = [j \in TaskId |-> Collateral(j)]
          /\ [j \in TaskId |-> tasks[j].poster]' = [j \in TaskId |-> tasks[j].poster]
          /\ [j \in TaskId |-> tasks[j].resolver]' = [j \in TaskId |-> tasks[j].resolver]
      BY DEF Submits, Phase, PotOf, Escrowed, Known, Collateral, StakeVault!IsOpen,
         StakeVault!BondExists
    <2> QED
      BY <1>4, <2>1, <2>2 DEF Promise!Lose, Wealth, PotOf
  <1>7. v \in 0..Wealth(u)
    BY <1>4, <1>5
  <1>8. \E x \in 0..[w \in User |-> Wealth(w)][u] : Promise!Lose(u, x)
    BY <1>6, <1>7
  <1> QED
    BY <1>8 DEF Promise!Next, Wealth

\* Withdrawals, signatures, commits and everything about neither money nor tasks stutter.
LEMMA RestStutters ==
  ASSUME PaymentInv, PaymentInv',
         \/ Idles
         \/ \E s : Signs(s)
         \/ \E id \in TaskId : Commits(id)
         \/ \E u \in User : Withdraws(u)
  PROVE  UNCHANGED Promise!vars
  <1>1. IndInv /\ IndInv' /\ TypeOK
    BY DEF PaymentInv, IndInv
  <1>2. \A w \in User : Wealth(w)' = Wealth(w)
    BY <1>1, WithdrawWealth DEF Idles, Signs, Commits, Wealth
  <1>3. ASSUME UNCHANGED <<tasks, bonds>>, NEW j \in TaskId
        PROVE  /\ Phase(j)' = Phase(j) /\ PotOf(j)' = PotOf(j) /\ Collateral(j)' = Collateral(j)
               /\ tasks'[j].poster = tasks[j].poster /\ tasks'[j].resolver = tasks[j].resolver
    BY <1>3 DEF Phase, PotOf, Escrowed, Known, Collateral, StakeVault!IsOpen,
       StakeVault!BondExists
  <1>4. ASSUME NEW id \in TaskId, Commits(id), NEW j \in TaskId
        PROVE  /\ Phase(j)' = Phase(j) /\ PotOf(j)' = PotOf(j) /\ Collateral(j)' = Collateral(j)
               /\ tasks'[j].poster = tasks[j].poster /\ tasks'[j].resolver = tasks[j].resolver
    <2>1. CASE j = id
      BY <1>4, <2>1, PhaseSteps DEF Commits, Committed, SameTerms, SameClaim
    <2>2. CASE j # id
      BY <1>1, <1>4, <2>2, OthersEscrow DEF Commits
    <2> QED
      BY <2>1, <2>2
  <1>5. \A j \in TaskId :
            /\ Phase(j)' = Phase(j) /\ PotOf(j)' = PotOf(j) /\ Collateral(j)' = Collateral(j)
            /\ tasks'[j].poster = tasks[j].poster /\ tasks'[j].resolver = tasks[j].resolver
    BY <1>3, <1>4 DEF Idles, Signs, Withdraws
  <1>6. /\ [j \in TaskId |-> Phase(j)]' = [j \in TaskId |-> Phase(j)]
        /\ [j \in TaskId |-> PotOf(j)]' = [j \in TaskId |-> PotOf(j)]
        /\ [j \in TaskId |-> Collateral(j)]' = [j \in TaskId |-> Collateral(j)]
        /\ [j \in TaskId |-> tasks[j].poster]' = [j \in TaskId |-> tasks[j].poster]
        /\ [j \in TaskId |-> tasks[j].resolver]' = [j \in TaskId |-> tasks[j].resolver]
        /\ [w \in User |-> Wealth(w)]' = [w \in User |-> Wealth(w)]
    BY <1>2, <1>5
  <1> QED
    BY <1>6 DEF Promise!vars, Wealth, PotOf

LEMMA InitPromise == Init => Promise!Init
  <1> SUFFICES ASSUME Init PROVE Promise!Init
    OBVIOUS
  <1>1. \A id \in TaskId : tasks[id] = NoTask /\ bonds[id] = StakeVault!NoBond
    BY DEF Init
  <1>2. \A id \in TaskId :
            /\ Phase(id) = "absent" /\ PotOf(id) = 0 /\ Collateral(id) = 0
            /\ tasks[id].poster = NoOne /\ tasks[id].resolver = NoOne
    BY <1>1 DEF Phase, PotOf, Escrowed, Known, Collateral, StakeVault!IsOpen,
       StakeVault!BondExists, StakeVault!NoBond, NoTask
  <1>3. \A w \in User : Wealth(w) \in Nat
    BY InitTypeOK, WealthType
  <1> QED
    BY <1>2, <1>3 DEF Promise!Init, PotOf, Wealth

\* Every transaction of the token, the vault, the registries and the market together is one
\* step of the abstract escrow or none: a bounty is locked by its poster, joined by at most
\* one resolver, and paid out whole, once, to those two (AgentArena.sol:12-34, 285-288).
THEOREM PromiseIsKept == Spec => KeepsPromise
  <1>1. PaymentInv /\ PaymentInv' /\ [Next]_vars => [Promise!Next]_(Promise!vars)
    BY MoneySteps, PostLocks, CancelUnlocks, ClaimJoins, EndResolves, SubmitLoses, RestStutters
  <1> QED
    BY <1>1, InitPromise, AlwaysPayment, PTL DEF Spec, KeepsPromise, Promise!Spec

-----------------------------------------------------------------------------
(* Which tasks have ended, and which are held. *)

\* The step takes task id, if it is not over, no nearer to its end.
Endless(id) == OthersKept(id) /\ EndedBy(id) = "nothing" /\ EndedBy(id)' = "nothing"

LEMMA EndlessSteps ==
  ASSUME NEW id \in TaskId,
         \/ \E u \in User : Posts(u, id)
         \/ Cancels(id)
         \/ \E u \in User, a \in AgentId : Claims(u, id, a)
         \/ Commits(id)
  PROVE  Endless(id)
  BY DEF Posts, Cancels, Claims, Commits, Posted, Cancelled, Claimed, Committed, NoTask,
     Endless, EndedBy

LEMMA EndedSame ==
  ASSUME NEW id \in TaskId, Endless(id), NEW a \in AgentId, NEW how \in Endings
  PROVE  /\ TasksEnded(a, how)' = TasksEnded(a, how)
         /\ \A j \in TasksEnded(a, how) : tasks'[j].slashAmount = tasks[j].slashAmount
  <1>1. how # "nothing"
    BY DEF Endings
  <1>2. id \notin TasksEnded(a, how) /\ id \notin TasksEnded(a, how)'
    BY <1>1 DEF Endless, TasksEnded
  <1>3. \A j \in TaskId \ {id} :
            EndedBy(j)' = EndedBy(j) /\ tasks'[j] = tasks[j]
    BY DEF Endless, OthersKept, EndedBy
  <1> QED
    BY <1>2, <1>3 DEF TasksEnded

\* An ending enters one list of one agent.
LEMMA EndedGrows ==
  ASSUME PaymentInv, NEW id \in TaskId, NEW how \in Endings, Ends(id, how),
         NEW a \in AgentId, NEW h \in Endings
  PROVE  /\ id \notin TasksEnded(a, h)
         /\ TasksEnded(a, h)' = TasksEnded(a, h)
                \cup (IF a = tasks[id].agentId /\ h = how THEN {id} ELSE {})
         /\ \A j \in TasksEnded(a, h) \cup {id} :
                tasks'[j].slashAmount = tasks[j].slashAmount
  <1>1. h # "nothing"
    BY DEF Endings
  <1>2. /\ EndedBy(id) = "nothing" /\ EndedBy(id)' = how
        /\ tasks'[id].agentId = tasks[id].agentId
        /\ tasks'[id].slashAmount = tasks[id].slashAmount
    BY DEF Ends, Revealed, TimedOut, EndedBy, SameTerms, SameClaim
  <1>3. \A j \in TaskId \ {id} :
            EndedBy(j)' = EndedBy(j) /\ tasks'[j] = tasks[j]
    BY DEF Ends, OthersKept, EndedBy
  <1> QED
    BY <1>1, <1>2, <1>3 DEF TasksEnded

LEMMA HeldSame ==
  ASSUME NEW id \in TaskId,
         (\E u \in User : Posts(u, id)) \/ Cancels(id) \/ Commits(id),
         NEW a \in AgentId
  PROVE  /\ TasksHeld(a)' = TasksHeld(a)
         /\ \A j \in TasksHeld(a) : tasks'[j].slashAmount = tasks[j].slashAmount
  <1>1. /\ OthersKept(id)
        /\ (tasks[id].status \in Held) = (tasks'[id].status \in Held)
        /\ tasks[id].status \in Held =>
               /\ tasks'[id].agentId = tasks[id].agentId
               /\ tasks'[id].slashAmount = tasks[id].slashAmount
    BY DEF Posts, Cancels, Commits, Posted, Cancelled, Committed, NoTask, Held, SameClaim,
       SameTerms
  <1> QED
    BY <1>1 DEF TasksHeld, OthersKept

LEMMA HeldGrows ==
  ASSUME NEW id \in TaskId, NEW u \in User, NEW b \in AgentId, Claims(u, id, b),
         NEW a \in AgentId
  PROVE  /\ id \notin TasksHeld(a)
         /\ TasksHeld(a)' = TasksHeld(a) \cup (IF a = b THEN {id} ELSE {})
         /\ \A j \in TasksHeld(a) \cup {id} : tasks'[j].slashAmount = tasks[j].slashAmount
  <1>1. /\ OthersKept(id) /\ tasks[id].status = "Open" /\ tasks'[id].status = "Claimed"
        /\ tasks'[id].agentId = b /\ tasks'[id].slashAmount = tasks[id].slashAmount
    BY DEF Claims, Claimed, SameTerms
  <1> QED
    BY <1>1 DEF TasksHeld, OthersKept, Held

LEMMA HeldLeaves ==
  ASSUME NEW id \in TaskId, NEW how \in Endings, Ends(id, how), NEW a \in AgentId
  PROVE  /\ (id \in TasksHeld(a)) = (a = tasks[id].agentId)
         /\ TasksHeld(a)' = TasksHeld(a) \ {id}
         /\ \A j \in TasksHeld(a) \ {id} : tasks'[j].slashAmount = tasks[j].slashAmount
  <1>1. OthersKept(id) /\ tasks[id].status \in Held /\ tasks'[id].status = "Settled"
    BY DEF Ends, Revealed, TimedOut, Held
  <1> QED
    BY <1>1 DEF TasksHeld, OthersKept, Held

-----------------------------------------------------------------------------
(* The vault's counters. *)

Slashed(a) == Bonded(TasksEnded(a, "wrong"))
Staked(a) == Bonded(TasksHeld(a))

\* The sets the counters sum over are finite and their amounts are natural.
LEMMA SlashAmounts ==
  ASSUME TypeOK, NEW S \in SUBSET TaskId
  PROVE  IsFiniteSet(S) /\ Amounts([j \in S |-> tasks[j].slashAmount], S)
  BY FiniteIds, FS_Subset, TaskAmounts DEF Amounts

LEMMA SlashedSame ==
  ASSUME NEW id \in TaskId, Endless(id), NEW a \in AgentId
  PROVE  Slashed(a)' = Slashed(a)
  <1>1. PICK S : S = TasksEnded(a, "wrong")
    OBVIOUS
  <1>2. S = TasksEnded(a, "wrong")' /\ \A j \in S : tasks'[j].slashAmount = tasks[j].slashAmount
    BY <1>1, EndedSame DEF Endings
  <1> QED
    BY <1>1, <1>2 DEF Slashed, Bonded

LEMMA SlashedGrows ==
  ASSUME PaymentInv, NEW id \in TaskId, NEW how \in Endings, Ends(id, how), NEW a \in AgentId
  PROVE  /\ Slashed(a) \in Nat
         /\ Slashed(a)' = Slashed(a) + (IF a = tasks[id].agentId /\ how = "wrong"
                                        THEN tasks[id].slashAmount ELSE 0)
  <1> DEFINE entered == a = tasks[id].agentId /\ how = "wrong"
  <1>1. PICK S : S = TasksEnded(a, "wrong")
    OBVIOUS
  <1>2. PICK T : T = TasksEnded(a, "wrong")'
    OBVIOUS
  <1>3. /\ id \notin S /\ T = S \cup (IF entered THEN {id} ELSE {})
        /\ \A j \in S \cup {id} : tasks'[j].slashAmount = tasks[j].slashAmount
    BY <1>1, <1>2, EndedGrows DEF Endings
  <1>4. PICK f : f = [j \in S |-> tasks[j].slashAmount]
    OBVIOUS
  <1>5. PICK g : g = [j \in T |-> tasks'[j].slashAmount]
    OBVIOUS
  <1>6. Slashed(a) = Total(f, S) /\ Slashed(a)' = Total(g, T)
    BY <1>1, <1>2, <1>4, <1>5 DEF Slashed, Bonded
  <1>7. TypeOK /\ S \in SUBSET TaskId /\ tasks[id].slashAmount \in Nat
    BY <1>1, TaskAmounts DEF PaymentInv, IndInv, TasksEnded
  <1>8. IsFiniteSet(S) /\ Amounts(f, S)
    BY <1>4, <1>7, SlashAmounts
  <1>9. Total(f, S) \in Nat
    BY <1>8, TotalType
  <1>10. CASE entered
    <2>1. Grown(f, g, S, T, tasks[id].slashAmount)
      BY <1>3, <1>4, <1>5, <1>10 DEF Grown, AgreeOn
    <2>2. Total(g, T) = Total(f, S) + tasks[id].slashAmount
      BY <1>7, <1>8, <2>1, TotalGrows
    <2> QED
      BY <1>6, <1>9, <1>10, <2>2
  <1>11. CASE ~entered
    <2>1. T = S /\ \A j \in S : f[j] = g[j]
      BY <1>3, <1>4, <1>5, <1>11
    <2>2. Total(g, T) = Total(f, S)
      BY <2>1, TotalSame
    <2> QED
      BY <1>6, <1>9, <1>11, <2>2
  <1> QED
    BY <1>10, <1>11

LEMMA StakedSame ==
  ASSUME NEW id \in TaskId,
         (\E u \in User : Posts(u, id)) \/ Cancels(id) \/ Commits(id),
         NEW a \in AgentId
  PROVE  Staked(a)' = Staked(a)
  <1>1. PICK S : S = TasksHeld(a)
    OBVIOUS
  <1>2. S = TasksHeld(a)' /\ \A j \in S : tasks'[j].slashAmount = tasks[j].slashAmount
    BY <1>1, HeldSame
  <1> QED
    BY <1>1, <1>2 DEF Staked, Bonded

LEMMA StakedGrows ==
  ASSUME PaymentInv, NEW id \in TaskId, NEW u \in User, NEW b \in AgentId, Claims(u, id, b),
         NEW a \in AgentId
  PROVE  /\ Staked(a) \in Nat
         /\ Staked(a)' = Staked(a) + (IF a = b THEN tasks[id].slashAmount ELSE 0)
  <1>1. PICK S : S = TasksHeld(a)
    OBVIOUS
  <1>2. PICK T : T = TasksHeld(a)'
    OBVIOUS
  <1>3. /\ id \notin S /\ T = S \cup (IF a = b THEN {id} ELSE {})
        /\ \A j \in S \cup {id} : tasks'[j].slashAmount = tasks[j].slashAmount
    BY <1>1, <1>2, HeldGrows
  <1>4. PICK f : f = [j \in S |-> tasks[j].slashAmount]
    OBVIOUS
  <1>5. PICK g : g = [j \in T |-> tasks'[j].slashAmount]
    OBVIOUS
  <1>6. Staked(a) = Total(f, S) /\ Staked(a)' = Total(g, T)
    BY <1>1, <1>2, <1>4, <1>5 DEF Staked, Bonded
  <1>7. TypeOK /\ S \in SUBSET TaskId /\ tasks[id].slashAmount \in Nat
    BY <1>1, TaskAmounts DEF PaymentInv, IndInv, TasksHeld
  <1>8. IsFiniteSet(S) /\ Amounts(f, S)
    BY <1>4, <1>7, SlashAmounts
  <1>9. Total(f, S) \in Nat
    BY <1>8, TotalType
  <1>10. CASE a = b
    <2>1. Grown(f, g, S, T, tasks[id].slashAmount)
      BY <1>3, <1>4, <1>5, <1>10 DEF Grown, AgreeOn
    <2>2. Total(g, T) = Total(f, S) + tasks[id].slashAmount
      BY <1>7, <1>8, <2>1, TotalGrows
    <2> QED
      BY <1>6, <1>9, <1>10, <2>2
  <1>11. CASE a # b
    <2>1. T = S /\ \A j \in S : f[j] = g[j]
      BY <1>3, <1>4, <1>5, <1>11
    <2>2. Total(g, T) = Total(f, S)
      BY <2>1, TotalSame
    <2> QED
      BY <1>6, <1>9, <1>11, <2>2
  <1> QED
    BY <1>10, <1>11

LEMMA StakedLeaves ==
  ASSUME PaymentInv, NEW id \in TaskId, NEW how \in Endings, Ends(id, how), NEW a \in AgentId
  PROVE  /\ Staked(a) \in Nat
         /\ Staked(a)' = Staked(a) - (IF a = tasks[id].agentId THEN tasks[id].slashAmount ELSE 0)
  <1>1. PICK S : S = TasksHeld(a)
    OBVIOUS
  <1>2. PICK T : T = TasksHeld(a)'
    OBVIOUS
  <1>3. /\ (id \in S) = (a = tasks[id].agentId) /\ T = S \ {id}
        /\ \A j \in S \ {id} : tasks'[j].slashAmount = tasks[j].slashAmount
    BY <1>1, <1>2, HeldLeaves
  <1>4. PICK f : f = [j \in S |-> tasks[j].slashAmount]
    OBVIOUS
  <1>5. PICK g : g = [j \in T |-> tasks'[j].slashAmount]
    OBVIOUS
  <1>6. Staked(a) = Total(f, S) /\ Staked(a)' = Total(g, T)
    BY <1>1, <1>2, <1>4, <1>5 DEF Staked, Bonded
  <1>7. TypeOK /\ S \in SUBSET TaskId /\ tasks[id].slashAmount \in Nat
    BY <1>1, TaskAmounts DEF PaymentInv, IndInv, TasksHeld
  <1>8. IsFiniteSet(S) /\ Amounts(f, S)
    BY <1>4, <1>7, SlashAmounts
  <1>9. Total(f, S) \in Nat
    BY <1>8, TotalType
  <1>10. IsFiniteSet(T) /\ Amounts(g, T)
    <2>1. IsFiniteSet(T)
      BY <1>3, <1>8, FS_Subset
    <2> QED
      BY <1>3, <1>4, <1>5, <1>8, <2>1 DEF Amounts
  <1>11. CASE a = tasks[id].agentId
    <2>1. Grown(g, f, T, S, tasks[id].slashAmount)
      BY <1>3, <1>4, <1>5, <1>11 DEF Grown, AgreeOn
    <2>2. Total(f, S) = Total(g, T) + tasks[id].slashAmount /\ Total(g, T) \in Nat
      BY <1>7, <1>10, <2>1, TotalGrows
    <2> QED
      BY <1>6, <1>7, <1>11, <2>2
  <1>12. CASE a # tasks[id].agentId
    <2>1. T = S /\ \A j \in S : f[j] = g[j]
      BY <1>3, <1>4, <1>5, <1>12
    <2>2. Total(g, T) = Total(f, S)
      BY <2>1, TotalSame
    <2> QED
      BY <1>6, <1>9, <1>12, <2>2
  <1> QED
    BY <1>11, <1>12

-----------------------------------------------------------------------------
(* Feedback. *)

Tagged(s, how) == {i \in DOMAIN s : s[i].tag = how}

\* The entries are scored by how the claim ended.
Scored(s) == \A i \in DOMAIN s : s[i].score = IF s[i].tag \in {"wrong", "commit-timeout"} THEN 0 ELSE 100

LEMMA AppendFeedback ==
  ASSUME NEW s \in Seq(Feedback), NEW how \in Endings, NEW t,
         t = Append(s, [score |-> Score(how), tag |-> how])
  PROVE  /\ \A h \in Endings :
               /\ IsFiniteSet(Tagged(s, h)) /\ Len(s) + 1 \notin Tagged(s, h)
               /\ h = how => Tagged(t, h) = Tagged(s, h) \cup {Len(s) + 1}
               /\ h # how => Tagged(t, h) = Tagged(s, h)
         /\ Scored(s) => Scored(t)
  <1> DEFINE e == [score |-> Score(how), tag |-> how]
  <1>1. Len(s) \in Nat /\ DOMAIN s = 1..Len(s)
    OBVIOUS
  <1>2. e \in Feedback
    BY DEF Feedback, Score, Endings
  <1>3. /\ DOMAIN t = 1..(Len(s) + 1) /\ t[Len(s) + 1] = e
        /\ \A i \in 1..Len(s) : t[i] = s[i]
    BY <1>2
  <1>4. e.tag = how /\ e.score = IF how \in {"wrong", "commit-timeout"} THEN 0 ELSE 100
    BY DEF Score, Endings
  <1> HIDE DEF e
  <1>5. ASSUME NEW h \in Endings
        PROVE  /\ IsFiniteSet(Tagged(s, h)) /\ Len(s) + 1 \notin Tagged(s, h)
               /\ h = how => Tagged(t, h) = Tagged(s, h) \cup {Len(s) + 1}
               /\ h # how => Tagged(t, h) = Tagged(s, h)
    <2>1. IsFiniteSet(1..Len(s)) /\ Tagged(s, h) \in SUBSET (1..Len(s))
      BY <1>1, FS_Interval DEF Tagged
    <2>2. IsFiniteSet(Tagged(s, h))
      BY <2>1, FS_Subset
    <2> QED
      BY <1>1, <1>3, <1>4, <2>2 DEF Tagged
  <1>6. Scored(s) => Scored(t)
    BY <1>1, <1>3, <1>4 DEF Scored
  <1> QED
    BY <1>5, <1>6

-----------------------------------------------------------------------------
(* The record of one agent. *)

CountsAgree(a) ==
    \A how \in Endings :
        Cardinality(Tagged(feedback[a], how)) = Cardinality(TasksEnded(a, how))

RecordOf(a) ==
    /\ CountsAgree(a) /\ Scored(feedback[a])
    /\ slashedOf[a] = Slashed(a) /\ stakeOf[a] = Staked(a)

LEMMA RecordByAgent == RecordFollowsOutcomes <=> \A a \in AgentId : RecordOf(a)
  BY DEF RecordFollowsOutcomes, RecordOf, CountsAgree, Scored, Tagged, Slashed, Staked, Endings

LEMMA RecordByAgentNext == RecordFollowsOutcomes' <=> \A a \in AgentId : RecordOf(a)'
  <1>1. (RecordFollowsOutcomes <=> \A a \in AgentId : RecordOf(a))'
    BY RecordByAgent, PTL
  <1> QED
    BY <1>1

LEMMA InitRecord == Init => RecordFollowsOutcomes
  <1> SUFFICES ASSUME Init, NEW a \in AgentId PROVE RecordOf(a)
    BY RecordByAgent
  <1>1. \A id \in TaskId : tasks[id] = NoTask
    BY DEF Init
  <1>2. \A how \in Endings : TasksEnded(a, how) = {}
    BY <1>1 DEF TasksEnded, EndedBy, NoTask, Endings
  <1>3. TasksHeld(a) = {}
    BY <1>1 DEF TasksHeld, NoTask, Held
  <1>4. feedback[a] = <<>> /\ slashedOf[a] = 0 /\ stakeOf[a] = 0
    BY DEF Init
  <1>5. Slashed(a) = 0 /\ Staked(a) = 0
    BY <1>2, <1>3, TotalEmpty DEF Slashed, Staked, Bonded, Endings
  <1>6. \A how \in Endings : Tagged(feedback[a], how) = {}
    BY <1>4 DEF Tagged
  <1>7. CountsAgree(a)
    BY <1>2, <1>6 DEF CountsAgree
  <1>8. Scored(feedback[a])
    BY <1>4 DEF Scored
  <1> QED
    BY <1>4, <1>5, <1>7, <1>8 DEF RecordOf

\* A step that ends nothing leaves an agent's feedback and slashes as they are.
LEMMA EndlessRecord ==
  ASSUME NEW id \in TaskId, Endless(id), NEW a \in AgentId, RecordOf(a),
         UNCHANGED <<feedback, slashedOf>>, stakeOf'[a] = Staked(a)'
  PROVE  RecordOf(a)'
  <1>1. \A how \in Endings : TasksEnded(a, how)' = TasksEnded(a, how)
    BY EndedSame
  <1>2. CountsAgree(a)'
    BY <1>1 DEF RecordOf, CountsAgree
  <1>3. slashedOf'[a] = Slashed(a)'
    BY SlashedSame DEF RecordOf
  <1> QED
    BY <1>2, <1>3 DEF RecordOf

LEMMA EndRecord ==
  ASSUME PaymentInv, PaymentInv', NEW id \in TaskId, NEW how \in Endings, Ends(id, how),
         NEW a \in AgentId, RecordOf(a)
  PROVE  RecordOf(a)'
  <1> DEFINE mine == a = tasks[id].agentId
  <1>1. /\ feedback \in [AgentId -> Seq(Feedback)] /\ stakeOf \in [AgentId -> Nat]
        /\ slashedOf \in [AgentId -> Nat] /\ tasks[id].slashAmount \in Nat
    BY TaskAmounts DEF PaymentInv, IndInv, TypeOK
  <1>2. PICK s \in Seq(Feedback) : s = feedback[a]
    BY <1>1
  <1>3. PICK t : t = feedback'[a]
    OBVIOUS
  <1>4. /\ mine => t = Append(s, [score |-> Score(how), tag |-> how])
        /\ ~mine => t = s
    BY <1>1, <1>2, <1>3 DEF Ends
  <1>5. ASSUME NEW h \in Endings
        PROVE  Cardinality(Tagged(t, h)) = Cardinality(TasksEnded(a, h)')
    <2>1. Cardinality(Tagged(s, h)) = Cardinality(TasksEnded(a, h))
      BY <1>2 DEF RecordOf, CountsAgree
    <2>2. /\ id \notin TasksEnded(a, h)
          /\ TasksEnded(a, h)' = TasksEnded(a, h) \cup (IF mine /\ h = how THEN {id} ELSE {})
      BY EndedGrows
    <2>3. CASE mine /\ h = how
      <3>1. /\ IsFiniteSet(Tagged(s, h)) /\ Len(s) + 1 \notin Tagged(s, h)
            /\ Tagged(t, h) = Tagged(s, h) \cup {Len(s) + 1}
        BY <1>4, <2>3, AppendFeedback
      <3>2. Cardinality(Tagged(t, h)) = Cardinality(Tagged(s, h)) + 1
        BY <3>1, FS_AddElement
      <3>3. IsFiniteSet(TasksEnded(a, h))
        BY FiniteIds, FS_Subset DEF TasksEnded
      <3>4. Cardinality(TasksEnded(a, h) \cup {id}) = Cardinality(TasksEnded(a, h)) + 1
        BY <2>2, <3>3, FS_AddElement
      <3> QED
        BY <2>1, <2>2, <2>3, <3>2, <3>4
    <2>4. CASE ~(mine /\ h = how)
      <3>1. Tagged(t, h) = Tagged(s, h)
        BY <1>4, <2>4, AppendFeedback
      <3>2. TasksEnded(a, h)' = TasksEnded(a, h)
        BY <2>2, <2>4
      <3> QED
        BY <2>1, <3>1, <3>2
    <2> QED
      BY <2>3, <2>4
  <1>6. CountsAgree(a)'
    BY <1>3, <1>5 DEF CountsAgree
  <1>7. Scored(feedback'[a])
    BY <1>2, <1>3, <1>4, AppendFeedback DEF RecordOf
  <1>8. slashedOf'[a] = Slashed(a)'
    <2>1. slashedOf'[a] = slashedOf[a] + (IF mine /\ how = "wrong" THEN tasks[id].slashAmount ELSE 0)
      BY <1>1 DEF Ends, Plus
    <2> QED
      BY <2>1, SlashedGrows DEF RecordOf
  <1>9. stakeOf'[a] = Staked(a)'
    <2>1. stakeOf'[a] = stakeOf[a] - (IF mine THEN tasks[id].slashAmount ELSE 0)
      BY <1>1 DEF Ends, Minus
    <2> QED
      BY <2>1, StakedLeaves DEF RecordOf
  <1> QED
    BY <1>6, <1>7, <1>8, <1>9 DEF RecordOf

LEMMA NextRecord ==
  ASSUME PaymentInv, RecordFollowsOutcomes, [Next]_vars
  PROVE  RecordFollowsOutcomes'
  <1>1. PaymentInv'
    BY NextPayment
  <1> SUFFICES ASSUME NEW a \in AgentId PROVE RecordOf(a)'
    BY RecordByAgentNext
  <1>2. RecordOf(a)
    BY RecordByAgent
  <1>3. ASSUME UNCHANGED <<tasks, stakeOf, slashedOf, feedback>> PROVE RecordOf(a)'
    BY <1>2, <1>3 DEF RecordOf, CountsAgree, TasksEnded, TasksHeld, EndedBy, Slashed, Staked, Bonded
  <1>4. CASE Idles
    BY <1>3, <1>4 DEF Idles, recordVars
  <1>5. ASSUME NEW s, Signs(s) PROVE RecordOf(a)'
    BY <1>3, <1>5 DEF Signs, recordVars
  <1>6. ASSUME NEW auth \in signed, Submits(auth) PROVE RecordOf(a)'
    BY <1>3, <1>6 DEF Submits, recordVars
  <1>7. ASSUME NEW u \in User, Withdraws(u) PROVE RecordOf(a)'
    BY <1>3, <1>7 DEF Withdraws, recordVars
  <1>8. ASSUME NEW id \in TaskId,
               (\E u \in User : Posts(u, id)) \/ Cancels(id) \/ Commits(id)
        PROVE  RecordOf(a)'
    <2>1. Endless(id)
      BY <1>8, EndlessSteps
    <2>2. UNCHANGED <<stakeOf, slashedOf, feedback>>
      BY <1>8 DEF Posts, Cancels, Commits, recordVars
    <2>3. Staked(a)' = Staked(a)
      BY <1>8, StakedSame
    <2> QED
      BY <1>2, <2>1, <2>2, <2>3, EndlessRecord DEF RecordOf
  <1>9. ASSUME NEW u \in User, NEW id \in TaskId, NEW b \in AgentId, Claims(u, id, b)
        PROVE  RecordOf(a)'
    <2>1. Endless(id)
      BY <1>9, EndlessSteps
    <2>2. UNCHANGED <<slashedOf, feedback>> /\ stakeOf' = Plus(stakeOf, b, tasks[id].slashAmount)
      BY <1>9 DEF Claims
    <2>3. stakeOf \in [AgentId -> Nat] /\ tasks[id].slashAmount \in Nat
      BY TaskAmounts DEF PaymentInv, IndInv, TypeOK
    <2>4. stakeOf'[a] = stakeOf[a] + (IF a = b THEN tasks[id].slashAmount ELSE 0)
      BY <2>2, <2>3 DEF Plus
    <2>5. stakeOf'[a] = Staked(a)'
      BY <1>2, <1>9, <2>4, StakedGrows DEF RecordOf
    <2> QED
      BY <1>2, <2>1, <2>2, <2>5, EndlessRecord
  <1>10. ASSUME NEW id \in TaskId, NEW how \in Endings, Ends(id, how) PROVE RecordOf(a)'
    BY <1>1, <1>2, <1>10, EndRecord
  <1> QED
    BY <1>4, <1>5, <1>6, <1>7, <1>8, <1>9, <1>10, MoneySteps

\* Every ended claim of an agent has one feedback entry, with the score of its ending,
\* whoever owns the agent by then; and the vault counts as staked what its running claims
\* have bonded and as slashed what its wrong verdicts lost (AgentArena.sol:315-322, 345,
\* 363-365; AgentStakeVault.sol:78, 98, 108).
THEOREM RecordIsExact == Spec => []RecordFollowsOutcomes
  <1>1. Init => PaymentInv /\ RecordFollowsOutcomes
    BY InitPayment, InitRecord
  <1>2. PaymentInv /\ RecordFollowsOutcomes /\ [Next]_vars
            => (PaymentInv /\ RecordFollowsOutcomes)'
    BY NextPayment, NextRecord
  <1> QED
    BY <1>1, <1>2, PTL DEF Spec

-----------------------------------------------------------------------------
(* Attestations. *)

\* A committed verdict comes with its reasoning.
Reasoned == \A id \in TaskId : tasks[id].committed # "None" => tasks[id].reasoningHash \in Reasoning

AttestInv == IndInv /\ Stages /\ Reasoned /\ AttestationFollowsReveal

AttestationOf(id) == validations[ValidationHash(id, tasks[id].reasoningHash)]

Attested(id) ==
    /\ AttestationOf(id).validator = Arena
    /\ AttestationOf(id).agentId = tasks[id].agentId
    /\ AttestationOf(id).answered = (tasks[id].truth # "None")
    /\ AttestationOf(id).response = (IF tasks[id].truth = tasks[id].committed THEN 100 ELSE 0)

LEMMA AttestedTasks ==
  AttestationFollowsReveal <=> \A id \in TaskId : tasks[id].committed # "None" => Attested(id)
  BY DEF AttestationFollowsReveal, Attested, AttestationOf

\* What a step does to one task and to the registry.
Quiet(id) ==
    /\ tasks'[id].committed # "None" =>
           /\ tasks[id].committed # "None"
           /\ SameVerdict(id) /\ SameTruth(id) /\ tasks'[id].agentId = tasks[id].agentId
    /\ UNCHANGED validations

\* The commit files the arena's request; no request used its hash before.
Files(id) ==
    /\ Committed(id) /\ OthersKept(id) /\ tasks'[id].reasoningHash \in Reasoning
    /\ validations' = [validations EXCEPT ![ValidationHash(id, tasks'[id].reasoningHash)] =
           [validator |-> Arena, agentId |-> tasks[id].agentId,
            answered |-> FALSE, response |-> 0]]

Answers(id) ==
    LET hash == ValidationHash(id, tasks[id].reasoningHash)
    IN  /\ Revealed(id) /\ OthersKept(id)
        /\ validations' = [validations EXCEPT ![hash] =
               [validations[hash] EXCEPT !.answered = TRUE,
                    !.response = Score(Outcome(id, tasks'[id].truth))]]

\* Somebody files a request under a hash of its own.
FilesOwn(hash) ==
    /\ validations[hash] = NoRequest
    /\ \A other \in (TaskId \X Reasoning) \ {hash} : validations'[other] = validations[other]
    /\ UNCHANGED tasks

LEMMA OneTaskQuiet ==
  ASSUME Stages, NEW id \in TaskId, OthersKept(id), UNCHANGED validations,
         Posted(id) \/ Cancelled(id) \/ Claimed(id) \/ TimedOut(id), NEW j \in TaskId
  PROVE  Quiet(j)
  <1>1. CASE j # id
    BY <1>1 DEF OthersKept, Quiet, SameVerdict, SameTruth
  <1>2. CASE j = id
    BY <1>2 DEF Stages, Posted, Cancelled, Claimed, TimedOut, SameVerdict, SameTruth, SameClaim,
       Quiet
  <1> QED
    BY <1>1, <1>2

LEMMA AttestSteps ==
  ASSUME IndInv, Stages, [Next]_vars
  PROVE  \/ \A j \in TaskId : Quiet(j)
         \/ \E id \in TaskId : Files(id) \/ Answers(id)
         \/ \E hash \in TaskId \X Reasoning : FilesOwn(hash)
  <1>1. ASSUME UNCHANGED <<tasks, validations>>, NEW j \in TaskId PROVE Quiet(j)
    BY <1>1 DEF Quiet, SameVerdict, SameTruth
  <1>2. ASSUME NEW u \in User, NEW terms \in Terms, NEW c \in Commitment, PostTask(u, terms, c)
        PROVE  \A j \in TaskId : Quiet(j)
    <2>1. UNCHANGED validations
      BY <1>2 DEF PostTask, registryVars
    <2> QED
      BY <1>2, <2>1, PostChange, OneTaskQuiet
  <1>3. ASSUME NEW u \in User, NEW id \in TaskId, CancelTask(u, id)
        PROVE  \A j \in TaskId : Quiet(j)
    <2>1. UNCHANGED validations
      BY <1>3 DEF CancelTask, registryVars
    <2> QED
      BY <1>3, <2>1, CancelChange, OneTaskQuiet
  <1>4. ASSUME NEW u \in User, NEW id \in TaskId, NEW a \in AgentId,
               NEW p \in Payments(u, id, a), ClaimTask(u, id, a, p)
        PROVE  \A j \in TaskId : Quiet(j)
    <2>1. UNCHANGED validations
      BY <1>4 DEF ClaimTask, registryVars
    <2> QED
      BY <1>4, <2>1, ClaimChange, OneTaskQuiet
  <1>5. ASSUME NEW id \in TaskId, TimeoutCommit(id) \/ TimeoutSettle(id)
        PROVE  \A j \in TaskId : Quiet(j)
    <2>1. UNCHANGED validations
      BY <1>5 DEF TimeoutCommit, TimeoutSettle, TimeOut
    <2> QED
      BY <1>5, <2>1, TimeOutChange, OneTaskQuiet
  <1>6. ASSUME NEW u \in User, NEW id \in TaskId, NEW v \in Answer, NEW r \in Reasoning,
               CommitVerdict(u, id, v, r)
        PROVE  Files(id)
    <2>1. Committed(id) /\ OthersKept(id) /\ tasks'[id].reasoningHash = r
      BY <1>6, CommitChange
    <2>2. validations' = [validations EXCEPT ![ValidationHash(id, r)] =
              [validator |-> Arena, agentId |-> tasks[id].agentId,
               answered |-> FALSE, response |-> 0]]
      BY <1>6 DEF CommitVerdict
    <2> QED
      BY <2>1, <2>2 DEF Files
  <1>7. ASSUME NEW u \in User, NEW id \in TaskId, NEW v \in Answer, Settle(u, id, v)
        PROVE  Answers(id)
    BY <1>7, SettleChange DEF Settle, Respond, Answers
  <1>8. ASSUME NEW v, NEW a, NEW hash \in TaskId \X Reasoning, RequestValidation(v, a, hash)
        PROVE  FilesOwn(hash)
    BY <1>8 DEF RequestValidation, FilesOwn, IndInv, TypeOK, arenaVars
  <1>9. ASSUME NEW u, NEW id, NEW a, NEW v, SignPayment(u, id, a, v)
        PROVE  UNCHANGED <<tasks, validations>>
    BY <1>9 DEF SignPayment, arenaVars, registryVars
  <1>10. ASSUME NEW auth, SubmitAuthorization(auth) PROVE UNCHANGED <<tasks, validations>>
    BY <1>10 DEF SubmitAuthorization, arenaVars, registryVars
  <1>11. ASSUME NEW u, Withdraw(u) PROVE UNCHANGED <<tasks, validations>>
    BY <1>11 DEF Withdraw, registryVars
  <1>12. ASSUME NEW u, NEW s, NEW v, Approve(u, s, v) PROVE UNCHANGED <<tasks, validations>>
    BY <1>12 DEF Approve, arenaVars, registryVars
  <1>13. ASSUME NEW u, NEW a, RegisterAgent(u, a) \/ TransferAgent(a, u)
         PROVE  UNCHANGED <<tasks, validations>>
    BY <1>13 DEF RegisterAgent, TransferAgent, arenaVars, registryVars
  <1>14. ASSUME NEW b, SetOperator(b) PROVE UNCHANGED <<tasks, validations>>
    BY <1>14 DEF SetOperator, arenaVars, registryVars
  <1>15. Tick \/ UNCHANGED vars => UNCHANGED <<tasks, validations>>
    BY DEF Tick, vars, arenaVars, registryVars
  <1>16. CASE Next
    BY <1>1, <1>2, <1>3, <1>4, <1>5, <1>6, <1>7, <1>8, <1>9, <1>10, <1>11, <1>12, <1>13,
       <1>14, <1>15, <1>16 DEF Next
  <1> QED
    BY <1>1, <1>15, <1>16

LEMMA NextAttest ==
  ASSUME AttestInv, [Next]_vars
  PROVE  AttestInv'
  <1>1. IndInv /\ Stages /\ Reasoned /\ IndInv' /\ Stages'
    BY NextIndInv, NextStages DEF AttestInv
  <1>2. validations \in [TaskId \X Reasoning -> Request \cup {NoRequest}]
    BY <1>1 DEF IndInv, TypeOK
  <1>3. \A id \in TaskId : tasks[id].committed # "None" => Attested(id)
    BY AttestedTasks DEF AttestInv
  <1> SUFFICES ASSUME NEW id \in TaskId, tasks'[id].committed # "None"
               PROVE  tasks'[id].reasoningHash \in Reasoning /\ Attested(id)'
    <2>1. (AttestationFollowsReveal
               <=> \A id \in TaskId : tasks[id].committed # "None" => Attested(id))'
      BY AttestedTasks, PTL
    <2> QED
      BY <1>1, <2>1 DEF AttestInv, Reasoned
  <1>4. ASSUME SameVerdict(id), SameTruth(id), tasks'[id].agentId = tasks[id].agentId,
               validations'[<<id, tasks[id].reasoningHash>>] = validations[<<id, tasks[id].reasoningHash>>]
        PROVE  tasks'[id].reasoningHash \in Reasoning /\ Attested(id)'
    BY <1>1, <1>3, <1>4
    DEF SameVerdict, SameTruth, Reasoned, Attested, AttestationOf, ValidationHash
  <1>5. CASE \A j \in TaskId : Quiet(j)
    BY <1>4, <1>5 DEF Quiet
  <1>6. ASSUME NEW other \in TaskId, Files(other) \/ Answers(other), id # other
        PROVE  tasks'[id].reasoningHash \in Reasoning /\ Attested(id)'
    <2>1. tasks'[id] = tasks[id]
      BY <1>6 DEF Files, Answers, OthersKept
    <2>2. validations'[<<id, tasks[id].reasoningHash>>] = validations[<<id, tasks[id].reasoningHash>>]
      BY <1>1, <1>2, <1>6, <2>1 DEF Files, Answers, ValidationHash, Reasoned
    <2> QED
      BY <1>4, <2>1, <2>2 DEF SameVerdict, SameTruth
  <1>7. CASE Files(id)
    <2>1. tasks'[id].reasoningHash \in Reasoning
      BY <1>7 DEF Files
    <2>2. /\ tasks'[id].agentId = tasks[id].agentId /\ tasks'[id].truth = "None"
          /\ tasks'[id].committed \in Answer
      BY <1>1, <1>7 DEF Files, Committed, SameClaim, SameTruth, Stages
    <2>3. validations'[<<id, tasks'[id].reasoningHash>>] =
              [validator |-> Arena, agentId |-> tasks[id].agentId,
               answered |-> FALSE, response |-> 0]
      BY <1>2, <1>7, <2>1 DEF Files, ValidationHash
    <2>4. /\ validations'[<<id, tasks'[id].reasoningHash>>].validator = Arena
          /\ validations'[<<id, tasks'[id].reasoningHash>>].agentId = tasks'[id].agentId
          /\ validations'[<<id, tasks'[id].reasoningHash>>].answered = FALSE
          /\ validations'[<<id, tasks'[id].reasoningHash>>].response = 0
      BY <2>2, <2>3
    <2>5. (tasks'[id].truth # "None") = FALSE /\ tasks'[id].truth # tasks'[id].committed
      BY <2>2 DEF Answer
    <2> QED
      BY <2>1, <2>4, <2>5 DEF Attested, AttestationOf, ValidationHash
  <1>8. CASE Answers(id)
    <2> DEFINE hash == <<id, tasks[id].reasoningHash>>
    <2>1. /\ tasks[id].committed \in Answer /\ tasks'[id].truth \in Answer
          /\ SameVerdict(id) /\ tasks'[id].agentId = tasks[id].agentId
      BY <1>1, <1>8 DEF Answers, Revealed, SameClaim, Stages
    <2>2. Attested(id) /\ tasks[id].reasoningHash \in Reasoning
      BY <1>1, <1>3, <2>1 DEF Reasoned, Answer
    <2>3. validations[hash] \in Request
      <3>1. validations[hash] # NoRequest
        BY <2>2, Addresses, ArenaAssumption
        DEF Attested, AttestationOf, ValidationHash, NoRequest
      <3> QED
        BY <1>2, <2>2, <3>1
    <2>4. validations'[hash] =
              [validations[hash] EXCEPT !.answered = TRUE,
                   !.response = Score(Outcome(id, tasks'[id].truth))]
      BY <1>2, <1>8, <2>2 DEF Answers, ValidationHash
    <2>5. /\ validations'[hash].validator = validations[hash].validator
          /\ validations'[hash].agentId = validations[hash].agentId
          /\ validations'[hash].answered = TRUE
          /\ validations'[hash].response =
                 IF tasks'[id].truth = tasks[id].committed THEN 100 ELSE 0
      BY <2>3, <2>4 DEF Request, Score, Outcome
    <2> QED
      BY <2>1, <2>2, <2>5 DEF Attested, AttestationOf, ValidationHash, SameVerdict, Answer
  <1>9. ASSUME NEW hash \in TaskId \X Reasoning, FilesOwn(hash)
        PROVE  tasks'[id].reasoningHash \in Reasoning /\ Attested(id)'
    <2>1. tasks'[id] = tasks[id] /\ Attested(id) /\ tasks[id].reasoningHash \in Reasoning
      BY <1>1, <1>3, <1>9 DEF FilesOwn, Reasoned
    <2>2. <<id, tasks[id].reasoningHash>> # hash
      BY <1>9, <2>1, Addresses, ArenaAssumption
      DEF FilesOwn, NoRequest, Attested, AttestationOf, ValidationHash
    <2>3. validations'[<<id, tasks[id].reasoningHash>>] = validations[<<id, tasks[id].reasoningHash>>]
      BY <1>9, <2>1, <2>2 DEF FilesOwn
    <2> QED
      BY <1>4, <2>1, <2>3 DEF SameVerdict, SameTruth
  <1> QED
    BY <1>1, <1>5, <1>6, <1>7, <1>8, <1>9, AttestSteps

\* A committed verdict has the arena's request under its agent, answered exactly when the
\* truth was revealed and with 100 exactly for a right verdict, whatever others file in the
\* registry meanwhile (AgentArena.sol:261-279, 323; ValidationRegistry.sol:54, 72-78).
\* The arena's, not the poster's, as ValidationRegistry.sol:9-13 has it.
THEOREM AttestationIsExact == Spec => []AttestationFollowsReveal
  <1>1. Init => AttestInv
    <2>1. Init => Reasoned /\ AttestationFollowsReveal
      BY DEF Init, Reasoned, AttestationFollowsReveal, NoTask
    <2> QED
      BY <2>1, InitPayment DEF AttestInv, PaymentInv
  <1>2. AttestInv /\ [Next]_vars => AttestInv'
    BY NextAttest
  <1>3. AttestInv => AttestationFollowsReveal
    BY DEF AttestInv
  <1> QED
    BY <1>1, <1>2, <1>3, PTL DEF Spec
=============================================================================
