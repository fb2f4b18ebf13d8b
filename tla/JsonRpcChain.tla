---------------------------- MODULE JsonRpcChain ----------------------------
(***************************************************************************)
(* The chain adapter (src/priceright/rpc.py) over a node.  Every request to *)
(* the node is a step; calls of several processes, or of the threads of     *)
(* one, go on at once, and the node mines, drops and replaces transactions  *)
(* as it likes.  Of the contracts this keeps the order of ids, the life of  *)
(* a task and the stake of an agent.  Verdicts are right and collateral is  *)
(* one token a task.                                                        *)
(***************************************************************************)
EXTENDS Integers, Sequences, FiniteSets

CONSTANTS
    Call,        \* one call of a method of the adapter each
    KindOf,      \* Call -> "register", "post", "claim", "commit" or "settle"
    SenderOf,    \* Call -> the account that signs
    ProcessOf,   \* Call -> the process whose adapter it is made on
    TaskOf,      \* Call -> the task a claim, commit or settle is about
    Serial,      \* whether a process makes one call at a time
    MaxTries,    \* Call -> bound on the polls for a receipt: 120 in the code
    MaxLoss      \* bound: answers lost and transactions dropped

AdapterAssumption ==
    /\ KindOf \in [Call -> {"register", "post", "claim", "commit", "settle"}]
    /\ IsFiniteSet(Call) /\ Serial \in BOOLEAN /\ MaxTries \in [Call -> Nat] /\ MaxLoss \in Nat

VARIABLES
    tasks, agents,  \* the contracts: [by, status, agent] by id; the callers of register
    pool, mined,    \* the node: the pending transactions; the mined ones, with their success
    pc,             \* Call -> the request it makes next, or how it ended
    seen,           \* Call -> the id predicted, or the stake read, before it sends
    nonce, tries,   \* Call -> its transaction's nonce; the polls it has made
    secrets,        \* process -> task id -> the post filed under it
    loss

nodeVars == <<tasks, agents, pool, mined>>
vars == <<nodeVars, pc, seen, nonce, tries, secrets, loss>>

Process == {ProcessOf[c] : c \in Call}
\* A call ends with a receipt, an RpcError before or after it sent, the error of the
\* connection, which is none of the adapter's, or the failure of a read it makes of the
\* contracts after its transaction succeeded ("unread").
Ended == {"returned", "refused", "reverted", "no_receipt", "connection", "unread"}
\* Its transaction succeeded, and the call has been told.
Done == {"read", "unread", "returned"}
Go(c, where) == pc' = [pc EXCEPT ![c] = where]

-----------------------------------------------------------------------------
(* The contracts and the node. *)

Stake(agent) ==
    Cardinality({i \in DOMAIN tasks : tasks[i].agent = agent /\ tasks[i].status \in {"Claimed", "Committed"}})

Wants == [claim |-> "Open", commit |-> "Claimed", settle |-> "Committed"]
Makes == [claim |-> "Claimed", commit |-> "Committed", settle |-> "Settled"]

Applies(c) ==
    KindOf[c] \in DOMAIN Wants =>
        /\ TaskOf[c] \in DOMAIN tasks
        /\ tasks[TaskOf[c]].status = Wants[KindOf[c]]
        /\ KindOf[c] = "commit" => tasks[TaskOf[c]].agent = SenderOf[c]

Apply(c) ==
    CASE KindOf[c] = "register" -> agents' = Append(agents, c) /\ UNCHANGED tasks
      [] KindOf[c] = "post" ->
             /\ tasks' = Append(tasks, [by |-> c, status |-> "Open", agent |-> "none"])
             /\ UNCHANGED agents
      [] OTHER ->
             /\ tasks' = [tasks EXCEPT ![TaskOf[c]].status = Makes[KindOf[c]],
                    ![TaskOf[c]].agent = IF KindOf[c] = "claim" THEN SenderOf[c] ELSE @]
             /\ UNCHANGED agents

MinedFrom(account) == Cardinality({i \in DOMAIN mined : SenderOf[mined[i].call] = account})
PendingFrom(account) == {c \in pool : SenderOf[c] = account}

\* The mined transactions and the pending ones that follow them without a gap.
PendingCount(account) ==
    CHOOSE n \in MinedFrom(account)..(MinedFrom(account) + Cardinality(pool)) :
        /\ \A k \in MinedFrom(account)..(n - 1) : \E c \in PendingFrom(account) : nonce[c] = k
        /\ ~\E c \in PendingFrom(account) : nonce[c] = n

\* One transaction at a time, in the order of an account's nonces.
Mine(c) ==
    /\ c \in pool /\ nonce[c] = MinedFrom(SenderOf[c])
    /\ pool' = pool \ {c}
    /\ mined' = Append(mined, [call |-> c, ok |-> Applies(c)])
    /\ IF Applies(c) THEN Apply(c) ELSE UNCHANGED <<tasks, agents>>
    /\ UNCHANGED <<pc, seen, nonce, tries, secrets, loss>>

Drop(c) ==
    /\ c \in pool /\ loss < MaxLoss
    /\ pool' = pool \ {c} /\ loss' = loss + 1
    /\ UNCHANGED <<tasks, agents, mined, pc, seen, nonce, tries, secrets>>

-----------------------------------------------------------------------------
(* A call. *)

\* What eth_call says the transaction would return, were it mined now; the stake
\* settle reads first.
Foreseen(c) ==
    CASE KindOf[c] = "register" -> Len(agents) + 1
      [] KindOf[c] = "post" -> Len(tasks) + 1
      [] KindOf[c] = "settle" -> Stake(tasks[TaskOf[c]].agent)
      [] OTHER -> 0

Busy(p) == \E d \in Call : ProcessOf[d] = p /\ pc[d] \notin Ended \cup {"new"}

Look(c) ==
    /\ pc[c] = "new"
    /\ Serial => ~Busy(ProcessOf[c])
    /\ KindOf[c] \in DOMAIN Wants => TaskOf[c] \in DOMAIN tasks
    /\ seen' = [seen EXCEPT ![c] = Foreseen(c)]
    /\ Go(c, "count")
    /\ UNCHANGED <<nodeVars, nonce, tries, secrets, loss>>

CountTransactions(c) ==
    /\ pc[c] = "count"
    /\ nonce' = [nonce EXCEPT ![c] = PendingCount(SenderOf[c])]
    /\ Go(c, "estimate")
    /\ UNCHANGED <<nodeVars, seen, tries, secrets, loss>>

EstimateGas(c) ==
    /\ pc[c] = "estimate"
    /\ Go(c, IF Applies(c) THEN "send" ELSE "refused")
    /\ UNCHANGED <<nodeVars, seen, nonce, tries, secrets, loss>>

\* A used nonce is refused; one that is pending is refused or replaces the other.
SendRaw(c) ==
    LET same == {d \in PendingFrom(SenderOf[c]) : nonce[d] = nonce[c]}
    IN  /\ pc[c] = "send"
        /\ \/ /\ nonce[c] >= MinedFrom(SenderOf[c])
              /\ pool' = (pool \ same) \cup {c}
              /\ Go(c, "await")
           \/ /\ nonce[c] < MinedFrom(SenderOf[c]) \/ same # {}
              /\ UNCHANGED pool
              /\ Go(c, "refused")
        /\ UNCHANGED <<tasks, agents, mined, seen, nonce, tries, secrets, loss>>

Receipt(c) == {i \in DOMAIN mined : mined[i].call = c}

\* Takes any receipt for a success.
SucceededAnyhow(c) == Receipt(c) # {}
Succeeded(c) == \E i \in Receipt(c) : mined[i].ok

Patient(c) == tries[c] < MaxTries[c]

\* A post files its secret under the id it foresaw, before it reads the task back.
AwaitReceipt(c) ==
    /\ pc[c] = "await"
    /\ \/ /\ Receipt(c) # {} /\ Succeeded(c)
          /\ Go(c, IF KindOf[c] \in {"post", "settle"} THEN "read" ELSE "returned")
          /\ secrets' = IF KindOf[c] = "post"
                        THEN [secrets EXCEPT ![ProcessOf[c]][seen[c]] = {c}] ELSE secrets
          /\ UNCHANGED tries
       \/ Receipt(c) # {} /\ ~Succeeded(c) /\ Go(c, "reverted") /\ UNCHANGED <<tries, secrets>>
       \/ /\ Receipt(c) = {}
          /\ IF Patient(c)
             THEN tries' = [tries EXCEPT ![c] = @ + 1] /\ UNCHANGED pc
             ELSE Go(c, "no_receipt") /\ UNCHANGED tries
          /\ UNCHANGED secrets
    /\ UNCHANGED <<nodeVars, seen, nonce, loss>>

\* A post reads its task back, a settlement the agent's reputation and stake.
ReadBack(c) ==
    /\ pc[c] = "read" /\ Go(c, "returned")
    /\ UNCHANGED <<nodeVars, seen, nonce, tries, secrets, loss>>

\* The connection fails, or the answer to a request is lost, with or without the
\* request's effect.
LoseConnection(c) ==
    /\ pc[c] \in {"count", "estimate", "send", "await", "read"} /\ loss < MaxLoss
    /\ loss' = loss + 1
    /\ Go(c, IF pc[c] = "read" THEN "unread" ELSE "connection")
    /\ \/ UNCHANGED pool
       \/ /\ pc[c] = "send" /\ nonce[c] >= MinedFrom(SenderOf[c])
          /\ \A d \in PendingFrom(SenderOf[c]) : nonce[d] # nonce[c]
          /\ pool' = pool \cup {c}
    /\ UNCHANGED <<tasks, agents, mined, seen, nonce, tries, secrets>>

Init ==
    /\ tasks = <<>> /\ agents = <<>> /\ pool = {} /\ mined = <<>>
    /\ pc = [c \in Call |-> "new"] /\ seen = [c \in Call |-> 0]
    /\ nonce = [c \in Call |-> 0] /\ tries = [c \in Call |-> 0]
    /\ secrets = [p \in Process |-> [id \in 1..(Cardinality(Call) + 1) |-> {}]]
    /\ loss = 0

Send(c) == CountTransactions(c) \/ EstimateGas(c) \/ SendRaw(c) \/ AwaitReceipt(c) \/ ReadBack(c)

Next == \E c \in Call : Look(c) \/ Send(c) \/ LoseConnection(c) \/ Mine(c) \/ Drop(c)

\* A call that has begun runs on: each request has a timeout.  The node owes nothing.
Spec == Init /\ [][Next]_vars /\ \A c \in Call : WF_vars(Send(c))

-----------------------------------------------------------------------------
TypeOK ==
    /\ \A i \in DOMAIN tasks : tasks[i].status \in {"Open", "Claimed", "Committed", "Settled"}
    /\ pool \subseteq Call
    /\ pc \in [Call -> Ended \cup {"new", "count", "estimate", "send", "await", "read"}]
    /\ seen \in [Call -> 0..(Cardinality(Call) + 1)]
    /\ nonce \in [Call -> 0..Cardinality(Call)]
    /\ tries \in [Call -> Nat] /\ (\A c \in Call : tries[c] <= MaxTries[c]) /\ loss \in 0..MaxLoss

\* A receipt that is returned is the one of the call's own transaction, mined once and
\* successfully, and so it is when a read after it fails; a call that was refused or
\* reverted has done nothing and never will, whatever was dropped, replaced or sent with
\* its nonce (rpc.py:199-223, 308-310, 350-369).
ReceiptIsEffect ==
    \A c \in Call :
        LET effects == {i \in Receipt(c) : mined[i].ok}
        IN  /\ Cardinality(Receipt(c)) <= 1
            /\ pc[c] \in Done => Cardinality(effects) = 1
            /\ pc[c] \in {"refused", "reverted"} => effects = {} /\ c \notin pool

\* The calls of a kind were made by one process, one after the other, and the process
\* learnt of each whether it took effect.
Orderly(kind) ==
    LET begun == {c \in Call : KindOf[c] = kind /\ pc[c] # "new"}
    IN  /\ Serial
        /\ \A c, d \in begun : ProcessOf[c] = ProcessOf[d]
        /\ \A c \in begun : pc[c] \notin {"no_receipt", "connection"}

\* With one poster and one registrar on the market, whose calls all got their answer, the
\* id a call foresees is the one it gets (rpc.py:278-284, 304-308).
ForeseenIdsHold ==
    \A c \in Call : pc[c] \in Done =>
        /\ KindOf[c] = "post" /\ Orderly("post") => seen[c] \in DOMAIN tasks /\ tasks[seen[c]].by = c
        /\ KindOf[c] = "register" /\ Orderly("register") =>
               seen[c] \in DOMAIN agents /\ agents[seen[c]] = c

\* "The poster's own record of what it committed" (rpc.py:394): the secret a process
\* files under an id is the one of the post that has this id.
SecretsAreOwn ==
    \A p \in Process, id \in DOMAIN tasks : \A c \in secrets[p][id] : tasks[id].by = c
=============================================================================
