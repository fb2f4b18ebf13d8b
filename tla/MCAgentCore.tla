---------------------------- MODULE MCAgentCore -----------------------------
(***************************************************************************)
(* The parts of AgentCore on small instances.  A behaviour is about one     *)
(* `part`; the others stay as they begin.  The journal is instantiated once *)
(* for each way it is deployed, over the same variables.                    *)
(***************************************************************************)
EXTENDS AgentCore

CONSTANTS w1, w2, t1, t2, p1, p2, r1, r2, r3, s1

VARIABLE part

-----------------------------------------------------------------------------
(* The limiter: two actions an hour and one a run, under a ceiling the hourly cap   *)
(* does not reach; an hourly cap above the ceiling; and a dry run.                  *)

L(dryRun, perCycle, perHour, tracked) ==
    [dryRun |-> dryRun, perCycle |-> perCycle, perHour |-> perHour, tracked |-> tracked]
Caps == L(FALSE, 1, 2, 4)
Ceiling == L(FALSE, 1, 3, 1)
MCLimits == {Caps, Ceiling, L(TRUE, 1, 2, 4)}

\* The ceiling is there to be reached in three actions, within a window; the caps by
\* the actions of two runs.
Ids == DOMAIN counts' \cup {log'[i].run : i \in DOMAIN log'} \cup {waiting'[w].run : w \in
    {w \in Worker : waiting'[w].stamp >= 0}}
LimiterBounded ==
    IF limits = Ceiling THEN now' <= 1 ELSE Cardinality(Ids \ {"reset"}) <= 2

(* The journal: two processes on Firestore or their own memory, with crashes and an *)
(* outage; two threads of one process over a backend without an atomic mutate; and  *)
(* three runs with one signature over several days.                                 *)

AnySettings == [optIn : BOOLEAN, require : BOOLEAN]
OneProcess == [t \in Thread |-> p1]
TwoProcesses == [t \in Thread |-> IF t = t1 THEN p1 ELSE p2]

Shared == INSTANCE StateStore WITH Signature <- {}, MaxDay <- 0

Fallback == INSTANCE StateStore WITH
    HomeOf <- OneProcess, HasMutate <- FALSE, Signature <- {}, MaxDay <- 0

Recurrence == INSTANCE StateStore WITH
    HomeOf <- OneProcess, Settings <- {[optIn |-> FALSE, require |-> FALSE]}, Ops <- {}, MaxCrash <- 1

\* Where signatures are no matter there is one run, and where there is one process
\* nobody starts another.
OneRun == Cardinality({r \in Run : \E b \in Backend : docs'[b][r] # NoDoc}) <= 1
Alone == store'[p2] = None

(* The policy: each comparison, with and without a block; lines on both sides of    *)
(* the threshold and on it, of other symbols and blocks, with nothing to read and   *)
(* with more than one thing to read.                                                *)

Question(symbol, op, block) == [symbol |-> symbol, op |-> op, threshold |-> 4, block |-> block]
MCTexts == {<<>>, <<Question("SOL", ">", 7)>>}
    \cup {<<Question("ETH", op, b)>> : op \in {">=", ">", "<=", "<"}, b \in {-1, 7}}

Q(symbol, value) == [symbol |-> symbol, value |-> value]
Line(quotes, blocks) == [quotes |-> quotes, blocks |-> blocks]
MCLines ==
    {Line(<<>>, <<7>>), Line(<<Q("BTC", 9)>>, <<7>>), Line(<<Q("BTC", 9), Q("ETH", 1)>>, <<7>>),
     Line(<<Q("ETH", 9)>>, <<>>), Line(<<Q("ETH", 1)>>, <<8>>)}
    \cup {Line(<<Q("ETH", v)>>, <<7>>) : v \in {1, 4, 5}}
MCQuotes == [s \in {"ETH", "BTC"} |-> IF s = "ETH" THEN 3 ELSE 9]

(* The settings: every environment, and every value of the switches. *)

AnyFlag == {"unset", "empty", "0", "1"}

ASSUME JournalAssumption ==
    /\ Shared!StoreAssumption /\ Fallback!StoreAssumption /\ Recurrence!StoreAssumption
    /\ Shared!OneWriter /\ Fallback!OneWriter /\ Recurrence!OneWriter

-----------------------------------------------------------------------------
Part == {"limiter", "shared", "fallback", "recurrence", "policy", "settings"}

PartsInit ==
    /\ part \in Part
    /\ Init /\ Limiter!Init /\ Policy!Init /\ Environment!Init
    /\ part # "policy" => text = <<>>
    /\ part # "limiter" => limits = Caps

PartsNext ==
    /\ UNCHANGED part
    /\ \/ /\ part = "limiter" /\ Limiter!Next /\ LimiterBounded
          /\ UNCHANGED <<storeVars, policyVars, settingVars>>
       \/ /\ \/ part = "shared" /\ Shared!Next /\ OneRun
             \/ part = "fallback" /\ Fallback!Next /\ OneRun /\ Alone
             \/ part = "recurrence" /\ Recurrence!Next /\ Alone
          /\ UNCHANGED <<limiterVars, policyVars, settingVars>>
       \/ part = "policy" /\ Policy!Next /\ UNCHANGED <<storeVars, limiterVars, settingVars>>
       \/ part = "settings" /\ Environment!Next /\ UNCHANGED <<storeVars, limiterVars, policyVars>>

PartsSpec == PartsInit /\ [][PartsNext]_<<part, coreVars>>

\* Threads that want the lock are interchangeable, and so are run ids.
Symmetry == Permutations({w1, w2}) \cup Permutations({r1, r2, r3})

-----------------------------------------------------------------------------
\* A run learns of an earlier one with its signature (state.py:326-327); there is one
\* signature here, and two detections that overlap may miss each other.
RecurrenceNoticed == [][part = "recurrence" => Recurrence!NoticesRecurrence]_storeVars
=============================================================================
