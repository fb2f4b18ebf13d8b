--------------------------- MODULE ActionLimiter ---------------------------
(***************************************************************************)
(* The process-wide rate limiter (src/agent_core/guardrails.py).  A check   *)
(* reads the clock, takes the lock, drops what is too old, and then either  *)
(* refuses or counts the action.  The clock is read before the lock is      *)
(* held, so a thread may enter with a stamp that others have overtaken.     *)
(***************************************************************************)
EXTENDS Integers, Sequences, FiniteSets

CONSTANTS
    Thread, Run,
    Limits,           \* what a limiter may be made with: dryRun suppresses every action,
                      \* perCycle and perHour cap them, tracked is MAX_TRACKED_CYCLES
    Hour,             \* the hourly window
    CycleTTL,         \* CYCLE_TTL_SECONDS
    MaxLag,           \* bound: how long a thread takes from the clock to the lock
    MaxTime           \* bound: the clock stops here

LimiterAssumption ==
    /\ Limits \subseteq [dryRun : BOOLEAN, perCycle : Nat, perHour : Nat, tracked : Nat]
    /\ {MaxLag, MaxTime} \subseteq Nat
    /\ Hour \in Nat \ {0} /\ CycleTTL \in Nat \ {0}
    /\ "reset" \notin Run

VARIABLES
    limits,
    now,
    waiting,  \* Thread -> the run and stamp it waits for the lock with, or Idle
    recent,   \* the stamps of allowed actions, each with its number
    counts,   \* run id -> [used, seen], for the ids tracked now
    log,      \* history: every allowed action, with the time it was allowed at
    answer    \* the last answer any check gave

vars == <<limits, now, waiting, recent, counts, log, answer>>

Idle == [stamp |-> -1]

-----------------------------------------------------------------------------
(* What a check does under the lock, `stamp` being the clock it read before. *)

\* Keeps an action for ever.
Unexpired(stamp) == recent
Recent(stamp) == {a \in recent : stamp - a.stamp < Hour}

\* Evicts what is expired and lets the table grow.
SurvivorsUncapped(stamp) == {{r \in DOMAIN counts : stamp - counts[r].seen <= CycleTTL}}

\* Forgets a run as soon as its last action is as old as nothing at all.
SurvivorsForgetful(stamp) == {{r \in DOMAIN counts : stamp - counts[r].seen < 1}}

\* The sets of run ids eviction may leave: the expired ones go, and beyond the
\* ceiling the oldest; which of two equally old ones depends on the order of the
\* dictionary.
Survivors(stamp) ==
    LET live == {r \in DOMAIN counts : stamp - counts[r].seen <= CycleTTL}
    IN  IF Cardinality(live) <= limits.tracked
        THEN {live}
        ELSE {kept \in SUBSET live :
                  /\ Cardinality(kept) = limits.tracked
                  /\ \A r \in kept, q \in live \ kept : counts[q].seen <= counts[r].seen}

Used(tracked, run) == IF run \in tracked THEN counts[run].used ELSE 0

\* Lets one action too many through.
HourOverspent(held) == Cardinality(held) > limits.perHour
HourSpent(held) == Cardinality(held) >= limits.perHour

\* The hourly cap is asked first; only an allowed action is counted.
Decide(run, stamp, tracked) ==
    LET held == Recent(stamp)
        used == Used(tracked, run)
        kept == [r \in tracked |-> counts[r]]
    IN  \/ /\ HourSpent(held)
           /\ answer' = "hourly"
           /\ recent' = held /\ counts' = kept /\ UNCHANGED log
        \/ /\ ~HourSpent(held) /\ used >= limits.perCycle
           /\ answer' = "cycle"
           /\ recent' = held /\ counts' = kept /\ UNCHANGED log
        \/ /\ ~HourSpent(held) /\ used < limits.perCycle
           /\ answer' = "allowed"
           /\ recent' = held \cup {[n |-> Len(log) + 1, stamp |-> stamp]}
           /\ counts' = [r \in tracked \cup {run} |->
                  IF r = run THEN [used |-> used + 1, seen |-> stamp] ELSE counts[r]]
           /\ log' = Append(log, [run |-> run, at |-> now])

-----------------------------------------------------------------------------
\* check() up to the lock; under dry-run it has answered already.
ReadClock(t, run) ==
    /\ waiting[t] = Idle
    /\ ~limits.dryRun
    /\ waiting' = [waiting EXCEPT ![t] = [stamp |-> now, run |-> run]]
    /\ UNCHANGED <<limits, now, recent, counts, log, answer>>

Check(t) ==
    /\ waiting[t] # Idle
    /\ \E tracked \in Survivors(waiting[t].stamp) :
           Decide(waiting[t].run, waiting[t].stamp, tracked)
    /\ waiting' = [waiting EXCEPT ![t] = Idle]
    /\ UNCHANGED <<limits, now>>

\* The budget of a run starts afresh; in the history its actions count no more.
ResetCycle(run) ==
    /\ counts' = [r \in DOMAIN counts \ {run} |-> counts[r]]
    /\ log' = [i \in DOMAIN log |->
                  IF log[i].run = run THEN [log[i] EXCEPT !.run = "reset"] ELSE log[i]]
    /\ UNCHANGED <<limits, now, waiting, recent, answer>>

\* Time passes, but no thread waits for the lock longer than MaxLag.
Tick ==
    /\ now < MaxTime
    /\ \A t \in Thread : waiting[t] # Idle => now - waiting[t].stamp < MaxLag
    /\ now' = now + 1
    /\ UNCHANGED <<limits, waiting, recent, counts, log, answer>>

Init ==
    /\ limits \in Limits
    /\ now = 0
    /\ waiting = [t \in Thread |-> Idle]
    /\ recent = {}
    /\ counts = [r \in {} |-> [used |-> 0, seen |-> 0]]
    /\ log = <<>>
    /\ answer = "none"

Next ==
    \/ \E t \in Thread, r \in Run : ReadClock(t, r)
    \/ \E t \in Thread : Check(t)
    \/ \E r \in Run : ResetCycle(r)
    \/ Tick

Spec == Init /\ [][Next]_vars

-----------------------------------------------------------------------------
TypeOK ==
    /\ limits \in Limits /\ now \in 0..MaxTime
    /\ waiting \in [Thread -> [stamp : 0..MaxTime, run : Run] \cup {Idle}]
    /\ recent \subseteq [n : 1..Len(log), stamp : 0..MaxTime]
    /\ Cardinality(recent) <= limits.perHour
    /\ DOMAIN counts \subseteq Run
    /\ \A r \in DOMAIN counts : counts[r] \in [used : 1..limits.perCycle, seen : 0..MaxTime]
    /\ log \in Seq([run : Run \cup {"reset"}, at : 0..MaxTime])
    /\ answer \in {"none", "allowed", "hourly", "cycle"}

\* Allowed actions in the window [from, from + length).
InWindow(from, length) == {i \in DOMAIN log : from <= log[i].at /\ log[i].at < from + length}

\* In any window of an hour, less the time a thread may wait for the lock, no more
\* than the hourly cap is allowed, whatever the threads' order: "a runaway loop is
\* throttled across cycles, not just within one" (guardrails.py:193-194).
HourlyCap ==
    \A i \in DOMAIN log : Cardinality(InWindow(log[i].at, Hour - MaxLag)) <= limits.perHour

\* A run that is not reset gets no more than its cap in any window of its counter's
\* life, although nobody removes counters but eviction (guardrails.py:196-199); this
\* needs a ceiling that two hours' actions do not reach, and a life that they outlast.
Roomy == 2 * limits.perHour <= limits.tracked /\ CycleTTL <= 2 * (Hour - MaxLag)
CycleCap ==
    Roomy => \A i \in DOMAIN log : log[i].run # "reset" =>
        Cardinality({j \in InWindow(log[i].at, CycleTTL - MaxLag) : log[j].run = log[i].run})
            <= limits.perCycle

\* In every step: a refusal for the hour is earned by allowed actions of the last hour.
\* Refused attempts use up no budget, so a throttled loop is not locked out for good
\* (guardrails.py:234-241).
RefusalsEarned ==
    answer' = "hourly" /\ (\E t \in Thread : waiting[t] # Idle /\ waiting'[t] = Idle)
        => Cardinality({i \in DOMAIN log : now - log[i].at < Hour + MaxLag}) >= limits.perHour

\* The table does not grow with the run ids a long-lived process mints: it holds at
\* most one more than its ceiling, since a check evicts before it inserts
\* (guardrails.py:214-224, 233, 240).
TableBounded == Cardinality(DOMAIN counts) <= limits.tracked + 1
=============================================================================
