-------------------------- MODULE AgentCoreProofs --------------------------
(***************************************************************************)
(* Proofs about the parts of an agent's core, for every policy, claim,      *)
(* evidence and environment: the limiter keeps its caps, verdicts follow    *)
(* the majority of the readings, and a process runs on what it was given.   *)
(***************************************************************************)
EXTENDS AgentCore, StateStoreProofs, TotalTheorems

\* The parts count as this module does.
LEMMA SameCardinality ==
    \A S : /\ Environment!Cardinality(S) = Cardinality(S)
           /\ Limiter!Cardinality(S) = Cardinality(S)
           /\ Policy!Cardinality(S) = Cardinality(S)
BY DEF Environment!Cardinality, Limiter!Cardinality, Policy!Cardinality, Cardinality

-----------------------------------------------------------------------------
(* The settings. *)

EnvironmentInv == Environment!TypeOK /\ IsFiniteSet(given) /\ SettingsObeyed

LEMMA EnvironmentStart == Environment!Init => EnvironmentInv
<1> SUFFICES ASSUME Environment!Init PROVE EnvironmentInv
  OBVIOUS
<1>1. IsFiniteSet(given) /\ Cardinality(given) <= MaxSet
  BY FS_EmptySet, CoreAssumption DEF Environment!Init, Environment!DeploymentAssumption
<1>2. Environment!TypeOK
  BY <1>1, SameCardinality, CoreAssumption DEF Environment!Init, Environment!TypeOK,
     Environment!DeploymentAssumption
<1>3. SettingsObeyed
  BY DEF Environment!Init, SettingsObeyed, Environment!NodeMeansNode,
     Environment!OfflineTakesRailsOut, Environment!MemoryOptOutIsKept
<1> QED BY <1>1, <1>2, <1>3 DEF EnvironmentInv

\* What start-up chooses is what the settings say.
LEMMA StartObeys ==
    ASSUME EnvironmentInv, NEW node \in BOOLEAN, NEW firestore \in BOOLEAN,
           Environment!Start(node, firestore)
    PROVE  EnvironmentInv'
<1> DEFINE chain == Environment!ChainOf(node)
           journal == Environment!Journal(firestore)
<1>1. CASE "error" \in {chain, journal}
  BY <1>1 DEF EnvironmentInv, Environment!Start, Environment!TypeOK, SettingsObeyed,
     Environment!NodeMeansNode, Environment!OfflineTakesRailsOut, Environment!MemoryOptOutIsKept
<1>2. CASE "error" \notin {chain, journal}
  <2>1. /\ process' = "up" /\ UNCHANGED <<given, switches>>
        /\ parts' = [chain |-> chain, facilitator |-> Environment!Facilitator,
                     journal |-> journal,
                     degraded |-> journal = "memory" /\ ~Environment!UseInMemoryState]
    BY <1>2 DEF Environment!Start
  <2>2. switches \in [Environment!Switch -> Flag] /\ Flag \subseteq {"unset", "empty", "0", "1"}
    BY CoreAssumption DEF EnvironmentInv, Environment!TypeOK, Environment!DeploymentAssumption
  <2>3. chain \in {"mirror", "node"} /\ journal \in {"memory", "firestore"}
    BY <1>2 DEF Environment!ChainOf, Environment!Chain, Environment!Journal
  <2>4. Environment!TypeOK'
    BY <2>1, <2>3 DEF EnvironmentInv, Environment!TypeOK, Environment!Facilitator
  <2>5. Environment!NodeMeansNode'
    BY <1>2, <2>1 DEF Environment!NodeMeansNode, Environment!ChainOf, Environment!Chain,
       Environment!UseChain, Environment!Offline, Environment!EnvBool, Environment!True
  <2>6. Environment!OfflineTakesRailsOut'
    BY <2>1 DEF Environment!OfflineTakesRailsOut, Environment!ChainOf, Environment!Chain,
       Environment!Facilitator, Environment!UseFacilitator, Environment!Offline,
       Environment!EnvBool, Environment!True
  <2>7. Environment!MemoryOptOutIsKept'
    BY <1>2, <2>1 DEF Environment!MemoryOptOutIsKept, Environment!Journal,
       Environment!UseInMemoryState, Environment!RequireDurableState, Environment!Prefixed,
       Environment!True
  <2> QED BY <2>1, <2>4, <2>5, <2>6, <2>7 DEF EnvironmentInv, SettingsObeyed
<1> QED BY <1>1, <1>2

LEMMA EnvironmentStep == EnvironmentInv /\ [Environment!Next]_settingVars => EnvironmentInv'
<1> SUFFICES ASSUME EnvironmentInv, [Environment!Next]_settingVars PROVE EnvironmentInv'
  OBVIOUS
<1> USE DEF EnvironmentInv
<1>1. ASSUME process' # "up" PROVE SettingsObeyed'
  BY <1>1 DEF SettingsObeyed, Environment!NodeMeansNode, Environment!OfflineTakesRailsOut,
     Environment!MemoryOptOutIsKept
<1>2. ASSUME NEW name \in Environment!Text, Environment!SetText(name) PROVE EnvironmentInv'
  <2>0. given' = given \cup {name} /\ IsFiniteSet(given)
    BY <1>2 DEF Environment!SetText
  <2>1. /\ IsFiniteSet(given') /\ Cardinality(given) \in Nat /\ Cardinality(given') \in Nat
        /\ Cardinality(given') = IF name \in given THEN Cardinality(given) ELSE Cardinality(given) + 1
    BY <2>0, FS_AddElement, FS_CardinalityType
  <2>2. Cardinality(given') <= MaxSet
    BY <1>2, <2>1, SameCardinality, CoreAssumption
       DEF Environment!SetText, Environment!DeploymentAssumption
  <2>3. given' \subseteq Environment!Text /\ UNCHANGED <<switches, process, parts>> /\ process' # "up"
    BY <1>2 DEF Environment!SetText, Environment!TypeOK
  <2>4. IsFiniteSet(given') /\ Environment!Cardinality(given') <= MaxSet
    BY <2>1, <2>2, SameCardinality
  <2> QED BY <1>1, <2>3, <2>4 DEF Environment!TypeOK
<1>3. ASSUME NEW name \in Environment!Switch, NEW flag \in Flag, Environment!SetSwitch(name, flag)
      PROVE  EnvironmentInv'
  BY <1>1, <1>3 DEF Environment!SetSwitch, Environment!TypeOK
<1>4. CASE Environment!Stop
  BY <1>1, <1>4 DEF Environment!Stop, Environment!TypeOK
<1>5. CASE UNCHANGED settingVars
  BY <1>5 DEF settingVars, Environment!TypeOK, SettingsObeyed, Environment!NodeMeansNode,
     Environment!OfflineTakesRailsOut, Environment!MemoryOptOutIsKept
<1> QED BY <1>2, <1>3, <1>4, <1>5, StartObeys DEF Environment!Next

\* The invariant, for whatever is set in whatever order (config.py, state.py:212-241).
THEOREM EnvironmentInvariant == Environment!Spec => []EnvironmentInv
<1>1. EnvironmentInv /\ [Environment!Next]_(Environment!vars) => EnvironmentInv'
  BY EnvironmentStep DEF settingVars, Environment!vars
<1> QED BY EnvironmentStart, <1>1, PTL DEF Environment!Spec

\* A process that was given a node or an arena runs on the whole set of contracts or not at
\* all; one that is offline runs on no node and no remote facilitator, though it may yet
\* ask for Firestore; and where memory was opted out of, a journal in memory says that it
\* is degraded (rpc.py:415-424, config.py:76-92, state.py:212-241).
THEOREM SettingsAreObeyed == Environment!Spec => []SettingsObeyed
BY EnvironmentInvariant, PTL DEF EnvironmentInv

-----------------------------------------------------------------------------
(* The limiter.  The windows of an hour begin anywhere, not only at an action; so do *)
(* the lives of the counters.                                                        *)

Idle == Limiter!Idle
Since(r, from) == {i \in DOMAIN log : log[i].run = r /\ from <= log[i].at}

LimiterTyped ==
    /\ limits \in Limits /\ now \in 0..MaxTime
    /\ waiting \in [Worker -> [stamp : 0..MaxTime, run : Run] \cup {Idle}]
    /\ recent \subseteq [n : 1..Len(log), stamp : 0..MaxTime]
    /\ DOMAIN counts \subseteq Run /\ IsFiniteSet(DOMAIN counts)
    /\ \A r \in DOMAIN counts : counts[r] \in [used : 1..limits.perCycle, seen : 0..MaxTime]
    /\ log \in Seq([run : Run \cup {"reset"}, at : 0..MaxTime])
    /\ answer \in {"none", "allowed", "hourly", "cycle"}

\* A thread's stamp is not older than it may wait, and nothing is logged ahead of time.
Timely ==
    /\ \A t \in Worker : waiting[t] # Idle =>
           waiting[t].stamp <= now /\ now - MaxLag <= waiting[t].stamp
    /\ \A i \in DOMAIN log : log[i].at <= now

\* A stamp is held for one action, which was allowed soon after it.
HeldAreLogged ==
    /\ \A a \in recent : a.stamp <= log[a.n].at /\ log[a.n].at - MaxLag <= a.stamp
    /\ \A a, b \in recent : a.n = b.n => a = b

\* No action is dropped before its window is over.
YoungAreHeld ==
    \A i \in DOMAIN log : log[i].at + (Hour - MaxLag) > now => \E a \in recent : a.n = i

FewHeld == IsFiniteSet(recent) /\ Cardinality(recent) <= limits.perHour
FewInAnyHour == \A from \in Int : Cardinality(Limiter!InWindow(from, Hour - MaxLag)) <= limits.perHour

\* A counter was last seen with an action of its run, and no later action is its run's.
SeenAreLogged ==
    \A r \in DOMAIN counts :
        /\ \E i \in DOMAIN log : log[i].run = r /\ counts[r].seen <= log[i].at
        /\ \A i \in DOMAIN log : log[i].run = r => log[i].at - MaxLag <= counts[r].seen

\* A counter counts what its run did since any time within its life.
CountersCount ==
    \A r \in Run, from \in Int :
        from + (CycleTTL - MaxLag) > now /\ Since(r, from) # {} =>
            r \in DOMAIN counts /\ Cardinality(Since(r, from)) <= counts[r].used

FewInAnyLife ==
    \A r \in Run, from \in Int :
        Cardinality({i \in Limiter!InWindow(from, CycleTTL - MaxLag) : log[i].run = r}) <= limits.perCycle

LimiterInv ==
    /\ LimiterTyped /\ Timely /\ HeldAreLogged /\ YoungAreHeld /\ FewHeld /\ FewInAnyHour
    /\ SeenAreLogged /\ Cardinality(DOMAIN counts) <= limits.tracked + 1
    /\ Limiter!Roomy => CountersCount /\ FewInAnyLife

-----------------------------------------------------------------------------
\* What can be told apart by something of R is no more than R.
LEMMA NoMoreThan ==
    ASSUME NEW R, IsFiniteSet(R), NEW f, NEW T, \A t \in T : \E a \in R : f[a] = t
    PROVE  /\ IsFiniteSet(T) /\ Cardinality(T) <= Cardinality(R)
           /\ Cardinality(T) \in Nat /\ Cardinality(R) \in Nat
<1> DEFINE g == [t \in T |-> CHOOSE a \in R : f[a] = t]
<1>1. \A t \in T : g[t] \in R /\ f[g[t]] = t
  OBVIOUS
<1>2. g \in Injection(T, R)
  BY <1>1 DEF Injection, IsInjective
<1> QED BY <1>2, FS_Injection, FS_CardinalityType

LEMMA Part ==
    ASSUME NEW S, IsFiniteSet(S), NEW T, T \subseteq S
    PROVE  /\ IsFiniteSet(T) /\ Cardinality(T) <= Cardinality(S)
           /\ Cardinality(T) \in Nat /\ Cardinality(S) \in Nat
BY FS_Subset, FS_CardinalityType

LEMMA Both ==
    ASSUME NEW S, IsFiniteSet(S), NEW T, IsFiniteSet(T)
    PROVE  /\ IsFiniteSet(S \cup T) /\ Cardinality(S \cup T) <= Cardinality(S) + Cardinality(T)
           /\ {Cardinality(S), Cardinality(T), Cardinality(S \cup T)} \subseteq Nat
<1>1. /\ IsFiniteSet(S \cup T) /\ IsFiniteSet(S \cap T)
      /\ Cardinality(S \cup T) = Cardinality(S) + Cardinality(T) - Cardinality(S \cap T)
  BY FS_Union, FS_Subset
<1> QED BY <1>1, FS_CardinalityType

\* The numbers of the limiter.
LEMMA LimiterNumbers ==
    /\ MaxLag \in Nat /\ MaxTime \in Nat /\ Hour \in Nat /\ CycleTTL \in Nat
    /\ "reset" \notin Run
    /\ LimiterTyped => /\ now \in Int
                       /\ {limits.perCycle, limits.perHour, limits.tracked} \subseteq Nat
BY CoreAssumption DEF Limiter!LimiterAssumption, LimiterTyped

\* The log is a finite list of actions of runs.
LEMMA LogTyped ==
    ASSUME LimiterTyped
    PROVE  /\ Len(log) \in Nat /\ DOMAIN log = 1..Len(log) /\ IsFiniteSet(DOMAIN log)
           /\ \A i \in DOMAIN log : log[i].at \in Int /\ log[i].run \in Run \cup {"reset"}
           /\ \A r, from : Since(r, from) \subseteq DOMAIN log /\ IsFiniteSet(Since(r, from))
           /\ \A from, length : /\ Limiter!InWindow(from, length) \subseteq DOMAIN log
                                /\ IsFiniteSet(Limiter!InWindow(from, length))
<1> DEFINE Action == [run : Run \cup {"reset"}, at : 0..MaxTime]
<1>0. log \in Seq(Action)
  BY DEF LimiterTyped
<1> HIDE DEF Action
<1>1. /\ Len(log) \in Nat /\ DOMAIN log = 1..Len(log)
      /\ \A i \in DOMAIN log : log[i] \in Action
  BY <1>0
<1>2. IsFiniteSet(DOMAIN log)
  BY <1>1, FS_Interval
<1>4. \A r, from : Since(r, from) \subseteq DOMAIN log
  BY DEF Since
<1>5. \A from, length : Limiter!InWindow(from, length) \subseteq DOMAIN log
  BY DEF Limiter!InWindow
<1>6. \A i \in DOMAIN log : log[i].at \in Int /\ log[i].run \in Run \cup {"reset"}
  BY <1>1, LimiterNumbers DEF Action
<1> QED BY <1>1, <1>2, <1>4, <1>5, <1>6, Part

\* What a check drops from the stamps was not young any more.
LEMMA KeptStamps ==
    ASSUME LimiterInv, NEW stamp \in Int, stamp <= now
    PROVE  LET held == Limiter!Recent(stamp)
           IN  /\ held \subseteq recent /\ IsFiniteSet(held)
               /\ Cardinality(held) \in Nat /\ Cardinality(held) <= limits.perHour
               /\ \A i \in DOMAIN log :
                      log[i].at + (Hour - MaxLag) > now => \E a \in held : a.n = i
<1> DEFINE held == Limiter!Recent(stamp)
<1> USE LimiterNumbers, LogTyped DEF LimiterInv
<1>1. held \subseteq recent
  BY DEF Limiter!Recent
<1>2. IsFiniteSet(held) /\ Cardinality(held) \in Nat /\ Cardinality(held) <= limits.perHour
  BY <1>1, Part DEF FewHeld
<1>3. ASSUME NEW i \in DOMAIN log, log[i].at + (Hour - MaxLag) > now
      PROVE  \E a \in held : a.n = i
  <2>1. PICK a \in recent : a.n = i
    BY <1>3 DEF YoungAreHeld
  <2>2. a.stamp \in Int /\ log[i].at - MaxLag <= a.stamp
    BY <2>1 DEF LimiterTyped, HeldAreLogged
  <2>3. stamp - a.stamp < Hour
    BY <1>3, <2>2
  <2> QED BY <2>1, <2>3 DEF Limiter!Recent
<1> QED BY <1>1, <1>2, <1>3

\* A counter that is alive is as young as the last action of its run.
LEMMA SeenSince ==
    ASSUME LimiterInv, NEW r \in DOMAIN counts, NEW from \in Int, Since(r, from) # {}
    PROVE  from - MaxLag <= counts[r].seen
<1>1. PICK i \in DOMAIN log : log[i].run = r /\ from <= log[i].at
  BY DEF Since
<1>2. log[i].at - MaxLag <= counts[r].seen /\ log[i].at \in Int /\ counts[r].seen \in Int
  BY <1>1, LogTyped DEF LimiterInv, SeenAreLogged, LimiterTyped
<1> QED BY <1>1, <1>2, LimiterNumbers

\* As many runs as have a counter that young have acted lately, and in two windows no
\* more than two hours' actions are allowed.
LEMMA FewLive ==
    ASSUME LimiterInv, CycleTTL <= 2 * (Hour - MaxLag), NEW Q \in SUBSET DOMAIN counts,
           \A r \in Q : counts[r].seen > now - CycleTTL
    PROVE  Cardinality(Q) <= 2 * limits.perHour
<1> DEFINE L == Hour - MaxLag
           first == now - CycleTTL + 1
           W1 == Limiter!InWindow(first, L)
           W2 == Limiter!InWindow(first + L, L)
           f == [i \in DOMAIN log |-> log[i].run]
<1> USE LimiterNumbers, LogTyped DEF LimiterInv
<1>1. L \in Int /\ first \in Int /\ first + L \in Int /\ first + L + L > now
  OBVIOUS
<1>2. Cardinality(W1) <= limits.perHour /\ Cardinality(W2) <= limits.perHour
  BY <1>1 DEF FewInAnyHour
<1>3. /\ IsFiniteSet(W1 \cup W2) /\ Cardinality(W1 \cup W2) <= 2 * limits.perHour
      /\ Cardinality(W1 \cup W2) \in Nat
  <2>1. IsFiniteSet(W1) /\ IsFiniteSet(W2)
    OBVIOUS
  <2>2. /\ IsFiniteSet(W1 \cup W2) /\ Cardinality(W1 \cup W2) <= Cardinality(W1) + Cardinality(W2)
        /\ {Cardinality(W1), Cardinality(W2), Cardinality(W1 \cup W2)} \subseteq Nat
    BY <2>1, Both
  <2> QED BY <1>2, <2>2, SMTT(20)
<1>4. ASSUME NEW r \in Q PROVE \E i \in W1 \cup W2 : f[i] = r
  <2>1. PICK i \in DOMAIN log : log[i].run = r /\ counts[r].seen <= log[i].at
    BY DEF SeenAreLogged
  <2>2. log[i].at \in Int /\ log[i].at <= now /\ first <= log[i].at
    BY <2>1, SMTT(20) DEF Timely, LimiterTyped
  <2>3. i \in W1 \cup W2
    BY <1>1, <2>2, SMTT(20) DEF Limiter!InWindow
  <2> QED BY <2>1, <2>3
<1> HIDE DEF W1, W2, f
<1>5. \A r \in Q : \E i \in W1 \cup W2 : f[i] = r
  BY <1>4
<1>6. IsFiniteSet(W1 \cup W2)
  BY <1>3
<1>7. Cardinality(Q) \in Nat /\ Cardinality(Q) <= Cardinality(W1 \cup W2)
  BY <1>5, <1>6, NoMoreThan
<1> QED BY <1>3, <1>7

\* With room for two hours' actions, no counter is evicted in its life.
LEMMA KeptCounters ==
    ASSUME LimiterInv, Limiter!Roomy, NEW stamp \in Int, now - MaxLag <= stamp, stamp <= now,
           NEW kept \in Limiter!Survivors(stamp), NEW r \in Run, NEW from \in Int,
           from + (CycleTTL - MaxLag) > now, Since(r, from) # {}
    PROVE  r \in kept /\ Cardinality(Since(r, from)) <= counts[r].used
<1> DEFINE live == {q \in DOMAIN counts : stamp - counts[q].seen <= CycleTTL}
<1> USE LimiterNumbers DEF LimiterInv
<1>1. r \in DOMAIN counts /\ Cardinality(Since(r, from)) <= counts[r].used
  BY DEF CountersCount
<1>2. counts[r].seen > now - CycleTTL /\ \A q \in DOMAIN counts : counts[q].seen \in Int
  <2>1. \A q \in DOMAIN counts : counts[q].seen \in Int
    BY DEF LimiterTyped
  <2>2. from - MaxLag <= counts[r].seen
    BY <1>1, SeenSince
  <2> QED BY <1>1, <2>1, <2>2
<1>3. r \in live
  BY <1>1, <1>2
<1>4. CASE kept = live
  BY <1>1, <1>3, <1>4
<1>5. CASE kept # live
  <2>1. /\ kept \subseteq live /\ Cardinality(kept) = limits.tracked
        /\ \A p \in kept, q \in live \ kept : counts[q].seen <= counts[p].seen
    BY <1>5, SameCardinality DEF Limiter!Survivors
  <2>2. SUFFICES ASSUME r \notin kept PROVE FALSE
    BY <1>1
  <2> DEFINE Q == kept \cup {r}
  <2>3. Q \in SUBSET DOMAIN counts /\ IsFiniteSet(kept)
    BY <1>1, <2>1, Part DEF LimiterTyped
  <2>4. Cardinality(Q) = limits.tracked + 1
    BY <2>1, <2>2, <2>3, FS_AddElement
  <2>5. \A q \in Q : counts[q].seen > now - CycleTTL
    <3>1. ASSUME NEW q \in kept PROVE counts[q].seen > now - CycleTTL
      <4>1. counts[r].seen <= counts[q].seen /\ counts[q].seen \in Int /\ counts[r].seen \in Int
        BY <1>1, <1>2, <1>3, <2>1, <2>2, <2>3
      <4> QED BY <1>2, <4>1
    <3> QED BY <1>2, <3>1
  <2>6. Cardinality(Q) <= 2 * limits.perHour
    BY <2>3, <2>5, FewLive DEF Limiter!Roomy
  <2> QED BY <2>4, <2>6 DEF Limiter!Roomy
<1> QED BY <1>4, <1>5

\* What eviction leaves is part of the table and no more than its ceiling.
LEMMA SurvivorsBounded ==
    ASSUME LimiterInv, NEW stamp \in Int, NEW kept \in Limiter!Survivors(stamp)
    PROVE  /\ kept \subseteq DOMAIN counts /\ IsFiniteSet(kept)
           /\ Cardinality(kept) \in Nat /\ Cardinality(kept) <= limits.tracked
<1> DEFINE live == {q \in DOMAIN counts : stamp - counts[q].seen <= CycleTTL}
<1>1. /\ kept \subseteq live
      /\ (kept = live /\ Cardinality(live) <= limits.tracked) \/ Cardinality(kept) = limits.tracked
  BY SameCardinality DEF Limiter!Survivors
<1>2. Cardinality(kept) <= limits.tracked
  <2>1. limits.tracked \in Nat
    BY LimiterNumbers DEF LimiterInv
  <2> HIDE DEF live
  <2> QED BY <1>1, <2>1
<1>3. kept \subseteq DOMAIN counts /\ IsFiniteSet(kept) /\ Cardinality(kept) \in Nat
  BY <1>1, Part DEF LimiterInv, LimiterTyped
<1> QED BY <1>2, <1>3

-----------------------------------------------------------------------------
\* Without a new action the caps hold as they did, if time does not run back.
LEMMA QuietCaps ==
    ASSUME LimiterInv, UNCHANGED <<limits, log>>, now' \in 0..MaxTime, now <= now'
    PROVE  /\ FewInAnyHour' /\ (Limiter!Roomy => FewInAnyLife')
           /\ \A r, from : Since(r, from)' = Since(r, from)
           /\ \A i \in DOMAIN log' : log'[i].at <= now'
           /\ Limiter!Roomy' <=> Limiter!Roomy
<1>1. /\ \A r, from : Since(r, from)' = Since(r, from)
      /\ \A from, length : Limiter!InWindow(from, length)' = Limiter!InWindow(from, length)
  BY DEF Since, Limiter!InWindow
<1>2. \A i \in DOMAIN log' : log'[i].at <= now'
  BY LogTyped, LimiterNumbers DEF LimiterInv, Timely
<1> QED BY <1>1, <1>2 DEF LimiterInv, FewInAnyHour, FewInAnyLife, Limiter!Roomy

\* A check that refuses keeps the invariant.
LEMMA RefusedKeeps ==
    ASSUME LimiterInv, NEW t \in Worker, NEW stamp \in Int, now - MaxLag <= stamp, stamp <= now,
           NEW kept \in Limiter!Survivors(stamp), answer' \in {"hourly", "cycle"},
           recent' = Limiter!Recent(stamp), counts' = [r \in kept |-> counts[r]],
           waiting' = [waiting EXCEPT ![t] = Idle], UNCHANGED <<limits, now, log>>
    PROVE  LimiterInv'
<1> USE LimiterNumbers, LogTyped DEF LimiterInv
<1>1. /\ kept \subseteq DOMAIN counts /\ IsFiniteSet(kept) /\ DOMAIN counts' = kept
      /\ \A r \in kept : counts'[r] = counts[r]
      /\ Cardinality(DOMAIN counts') <= limits.tracked + 1
  BY SurvivorsBounded
<1>2. FewHeld' /\ YoungAreHeld' /\ recent' \subseteq recent
  BY KeptStamps DEF FewHeld, YoungAreHeld
<1>3. LimiterTyped'
  <2>1. waiting' \in [Worker -> [stamp : 0..MaxTime, run : Run] \cup {Idle}]
    BY DEF LimiterTyped
  <2> QED BY <1>1, <1>2, <2>1 DEF LimiterTyped
<1>4. Timely'
  BY DEF Timely, LimiterTyped
<1>5. HeldAreLogged'
  BY <1>2 DEF HeldAreLogged
<1>6. SeenAreLogged'
  BY <1>1 DEF SeenAreLogged
<1>7. FewInAnyHour' /\ (Limiter!Roomy' => Limiter!Roomy /\ FewInAnyLife')
  BY QuietCaps DEF LimiterTyped
<1>8. ASSUME Limiter!Roomy PROVE CountersCount'
  <2> SUFFICES ASSUME NEW r \in Run, NEW from \in Int,
                      from + (CycleTTL - MaxLag) > now', Since(r, from)' # {}
               PROVE  r \in DOMAIN counts' /\ Cardinality(Since(r, from)') <= counts'[r].used
    BY DEF CountersCount
  <2>1. Since(r, from)' = Since(r, from)
    BY DEF Since
  <2> QED BY <1>1, <1>8, <2>1, KeptCounters
<1> QED BY <1>1, <1>2, <1>3, <1>4, <1>5, <1>6, <1>7, <1>8

\* The log after one more action.
LEMMA LogAppended ==
    ASSUME LimiterTyped, NEW r \in Run, log' = Append(log, [run |-> r, at |-> now]),
           UNCHANGED <<limits, now>>
    PROVE  /\ log' \in Seq([run : Run \cup {"reset"}, at : 0..MaxTime])
           /\ Len(log') = Len(log) + 1 /\ DOMAIN log' = DOMAIN log \cup {Len(log) + 1}
           /\ Len(log) + 1 \notin DOMAIN log
           /\ log'[Len(log) + 1].run = r /\ log'[Len(log) + 1].at = now
           /\ \A i \in DOMAIN log : log'[i] = log[i]
           /\ \A i \in DOMAIN log' : log'[i].at \in Int
<1> DEFINE Action == [run : Run \cup {"reset"}, at : 0..MaxTime]
           act == [run |-> r, at |-> now]
<1>1. log \in Seq(Action) /\ act \in Action
  BY DEF LimiterTyped
<1>2. act.run = r /\ act.at = now
  OBVIOUS
<1> HIDE DEF Action, act
<1>3. /\ log' \in Seq(Action) /\ Len(log') = Len(log) + 1
      /\ \A i \in 1..Len(log) : log'[i] = log[i]
      /\ log'[Len(log) + 1] = act /\ \A i \in DOMAIN log' : log'[i] \in Action
  BY <1>1, AppendProperties DEF act
<1>4. DOMAIN log' = 1..(Len(log) + 1) /\ DOMAIN log = 1..Len(log) /\ Len(log) \in Nat
  BY <1>1, <1>3, LenProperties
<1>5. DOMAIN log' = DOMAIN log \cup {Len(log) + 1} /\ Len(log) + 1 \notin DOMAIN log
  BY <1>4
<1>6. \A i \in DOMAIN log' : log'[i].at \in Int
  BY <1>3, <1>4, LimiterNumbers DEF Action
<1> QED BY <1>2, <1>3, <1>4, <1>5, <1>6 DEF Action

\* Actions whose stamps are held are no more than the stamps.
LEMMA NoMoreThanHeld ==
    ASSUME NEW R, IsFiniteSet(R), NEW T, \A i \in T : \E a \in R : a.n = i
    PROVE  /\ Cardinality(T) <= Cardinality(R)
           /\ Cardinality(T) \in Nat /\ Cardinality(R) \in Nat
<1> DEFINE f == [a \in R |-> a.n]
<1>1. \A i \in T : \E a \in R : f[a] = i
  OBVIOUS
<1> HIDE DEF f
<1> QED BY <1>1, NoMoreThan

\* An action that is allowed fits into every window that is not over.
LEMMA AllowedFits ==
    ASSUME LimiterInv, NEW r \in Run, log' = Append(log, [run |-> r, at |-> now]),
           UNCHANGED <<limits, now>>, IsFiniteSet(recent'), Cardinality(recent') <= limits.perHour,
           \A i \in DOMAIN log' : log'[i].at + (Hour - MaxLag) > now => \E a \in recent' : a.n = i
    PROVE  FewInAnyHour'
<1> DEFINE L == Hour - MaxLag
<1> SUFFICES ASSUME NEW from \in Int
             PROVE  Cardinality(Limiter!InWindow(from, L)') <= limits.perHour
  BY DEF FewInAnyHour
<1> DEFINE window == Limiter!InWindow(from, L)
<1>0. L \in Int /\ now \in Int /\ limits.perHour \in Nat
  BY LimiterNumbers DEF LimiterInv
<1>1. CASE from <= now /\ now < from + L
  <2> DEFINE T == Limiter!InWindow(from, L)'
  <2>1. ASSUME NEW i \in T PROVE \E a \in recent' : a.n = i
    <3>1. i \in DOMAIN log' /\ from <= log'[i].at
      BY DEF Limiter!InWindow
    <3>2. log'[i].at \in Int
      BY <3>1, LogAppended DEF LimiterInv
    <3>3. log'[i].at + (Hour - MaxLag) > now
      BY <1>0, <1>1, <3>1, <3>2
    <3> QED BY <3>1, <3>3
  <2> HIDE DEF T
  <2>2. Cardinality(T) <= Cardinality(recent') /\ {Cardinality(T), Cardinality(recent')} \subseteq Nat
    BY <2>1, NoMoreThanHeld
  <2> QED BY <1>0, <2>2 DEF T
<1>2. CASE ~(from <= now /\ now < from + L)
  <2>1. window' = window
    BY <1>0, <1>2, LogAppended DEF Limiter!InWindow, LimiterInv
  <2> QED BY <1>0, <2>1 DEF FewInAnyHour, LimiterInv
<1> QED BY <1>1, <1>2

\* An action that is allowed is its run's alone.
LEMMA SinceAppended ==
    ASSUME LimiterTyped, NEW r \in Run, log' = Append(log, [run |-> r, at |-> now]),
           UNCHANGED <<limits, now>>, NEW q \in Run, NEW from \in Int
    PROVE  Since(q, from)' = IF q = r /\ from <= now THEN Since(q, from) \cup {Len(log) + 1}
                             ELSE Since(q, from)
<1>1. /\ DOMAIN log' = DOMAIN log \cup {Len(log) + 1} /\ Len(log) + 1 \notin DOMAIN log
      /\ log'[Len(log) + 1].run = r /\ log'[Len(log) + 1].at = now
      /\ \A i \in DOMAIN log : log'[i] = log[i]
  BY LogAppended
<1> QED BY <1>1 DEF Since

\* The counter of an action that is allowed counts it with the others.
LEMMA AllowedCounts ==
    ASSUME LimiterInv, Limiter!Roomy, NEW stamp \in Int, now - MaxLag <= stamp, stamp <= now,
           NEW kept \in Limiter!Survivors(stamp), NEW r \in Run,
           log' = Append(log, [run |-> r, at |-> now]), UNCHANGED <<limits, now>>,
           DOMAIN counts' = kept \cup {r}, \A q \in kept \ {r} : counts'[q] = counts[q],
           counts'[r].used = (IF r \in kept THEN counts[r].used ELSE 0) + 1
    PROVE  CountersCount'
<1> SUFFICES ASSUME NEW q \in Run, NEW from \in Int,
                    from + (CycleTTL - MaxLag) > now, Since(q, from)' # {}
             PROVE  q \in DOMAIN counts' /\ Cardinality(Since(q, from)') <= counts'[q].used
  BY DEF CountersCount
<1>1. IsFiniteSet(Since(q, from)) /\ Cardinality(Since(q, from)) \in Nat /\ Len(log) \in Nat
  BY LogTyped, FS_CardinalityType DEF LimiterInv
<1>2. Since(q, from) # {} => q \in kept /\ Cardinality(Since(q, from)) <= counts[q].used
  BY KeptCounters
<1>3. \A p \in kept : counts[p].used \in Nat
  <2>1. kept \subseteq DOMAIN counts
    BY SurvivorsBounded
  <2>2. \A p \in DOMAIN counts : counts[p].used \in 1..limits.perCycle
    BY DEF LimiterInv, LimiterTyped
  <2> QED BY <2>1, <2>2, LimiterNumbers
<1>4. CASE q = r /\ from <= now
  <2>1. Since(q, from)' = Since(q, from) \cup {Len(log) + 1}
    BY <1>4, SinceAppended DEF LimiterInv
  <2> DEFINE S == Since(q, from)
             T == Since(q, from)'
  <2> HIDE DEF S, T
  <2>2. T = S \cup {Len(log) + 1} /\ IsFiniteSet(S) /\ Cardinality(S) \in Nat
    BY <1>1, <2>1 DEF S, T
  <2>3. Cardinality(T) = IF Len(log) + 1 \in S THEN Cardinality(S) ELSE Cardinality(S) + 1
    BY <2>2, FS_AddElement
  <2>4. Cardinality(Since(q, from)') <= Cardinality(Since(q, from)) + 1
        /\ Cardinality(Since(q, from)') \in Nat
    BY <2>2, <2>3 DEF S, T
  <2>5. Since(q, from) = {} => Cardinality(Since(q, from)) = 0
    BY FS_EmptySet
  <2> QED BY <1>1, <1>2, <1>3, <1>4, <2>4, <2>5
<1>5. CASE ~(q = r /\ from <= now)
  <2>1. Since(q, from)' = Since(q, from)
    BY <1>5, SinceAppended DEF LimiterInv
  <2>2. q \in kept /\ Cardinality(Since(q, from)) <= counts[q].used
    BY <1>2, <2>1
  <2> QED BY <1>1, <1>3, <2>1, <2>2
<1> QED BY <1>4, <1>5

\* An action that is allowed fits into every life of its counter.
LEMMA AllowedLives ==
    ASSUME LimiterInv, Limiter!Roomy, NEW r \in Run, log' = Append(log, [run |-> r, at |-> now]),
           UNCHANGED <<limits, now>>, CountersCount', LimiterTyped'
    PROVE  FewInAnyLife'
<1> DEFINE L == CycleTTL - MaxLag
           Of(q, from) == {i \in Limiter!InWindow(from, L) : log[i].run = q}
<1> SUFFICES ASSUME NEW q \in Run, NEW from \in Int
             PROVE  Cardinality(Of(q, from)') <= limits.perCycle
  BY DEF FewInAnyLife
<1>0. /\ L \in Int /\ now \in Int /\ limits.perCycle \in Nat
      /\ Cardinality(Of(q, from)) <= limits.perCycle
  BY LimiterNumbers DEF LimiterInv, FewInAnyLife
<1>1. CASE q = r /\ from <= now /\ now < from + L
  <2> DEFINE T == Of(q, from)'
             S == Since(q, from)'
  <2>1. T \subseteq S /\ Len(log) + 1 \in S
    BY <1>1, LogAppended DEF Limiter!InWindow, Since, LimiterInv
  <2>2. IsFiniteSet(S)
    BY LogTyped, SinceAppended, FS_AddElement DEF LimiterInv
  <2>3. q \in DOMAIN counts' /\ Cardinality(S) <= counts'[q].used
    BY <1>0, <1>1, <2>1 DEF CountersCount
  <2>4. counts'[q].used \in 1..limits.perCycle
    BY <2>3 DEF LimiterTyped
  <2> HIDE DEF T, S
  <2>5. Cardinality(T) <= Cardinality(S) /\ {Cardinality(T), Cardinality(S)} \subseteq Nat
    BY <2>1, <2>2, Part
  <2>6. Cardinality(T) <= limits.perCycle
    BY <1>0, <2>3, <2>4, <2>5
  <2> QED BY <2>6 DEF T
<1>2. CASE ~(q = r /\ from <= now /\ now < from + L)
  <2>1. Of(q, from)' = Of(q, from)
    BY <1>0, <1>2, LogAppended DEF Limiter!InWindow, LimiterInv
  <2> QED BY <1>0, <2>1
<1> QED BY <1>1, <1>2

\* A check that allows an action keeps the invariant.
LEMMA AllowedKeeps ==
    ASSUME LimiterInv, NEW t \in Worker, NEW stamp \in 0..MaxTime, now - MaxLag <= stamp, stamp <= now,
           NEW kept \in Limiter!Survivors(stamp), NEW r \in Run, answer' = "allowed",
           Cardinality(Limiter!Recent(stamp)) < limits.perHour,
           (IF r \in kept THEN counts[r].used ELSE 0) < limits.perCycle,
           recent' = Limiter!Recent(stamp) \cup {[n |-> Len(log) + 1, stamp |-> stamp]},
           counts' = [q \in kept \cup {r} |->
               IF q = r THEN [used |-> (IF r \in kept THEN counts[r].used ELSE 0) + 1, seen |-> stamp]
               ELSE counts[q]],
           log' = Append(log, [run |-> r, at |-> now]),
           waiting' = [waiting EXCEPT ![t] = Idle], UNCHANGED <<limits, now>>
    PROVE  LimiterInv'
<1> DEFINE held == Limiter!Recent(stamp)
           fresh == [n |-> Len(log) + 1, stamp |-> stamp]
           used == (IF r \in kept THEN counts[r].used ELSE 0) + 1
<1>0. stamp \in Int /\ now \in Int /\ limits.perHour \in Nat /\ limits.tracked \in Nat
      /\ MaxLag \in Nat /\ limits.perCycle \in Nat
  BY LimiterNumbers DEF LimiterInv
<1>1. /\ kept \subseteq DOMAIN counts /\ IsFiniteSet(kept)
      /\ Cardinality(kept) \in Nat /\ Cardinality(kept) <= limits.tracked
  BY <1>0, SurvivorsBounded
<1>2. /\ held \subseteq recent /\ IsFiniteSet(held) /\ Cardinality(held) \in Nat
      /\ \A i \in DOMAIN log :
             log[i].at + (Hour - MaxLag) > now => \E a \in held : a.n = i
  BY <1>0, KeptStamps
<1>3. /\ DOMAIN log' = DOMAIN log \cup {Len(log) + 1} /\ Len(log) + 1 \notin DOMAIN log
      /\ Len(log') = Len(log) + 1 /\ Len(log) \in Nat
      /\ log'[Len(log) + 1].run = r /\ log'[Len(log) + 1].at = now
      /\ \A i \in DOMAIN log : log'[i] = log[i] /\ log[i].at \in Int
  BY LogAppended, LogTyped DEF LimiterInv
<1>4. FewHeld' /\ YoungAreHeld'
  <2>1. IsFiniteSet(recent') /\ Cardinality(recent') <= limits.perHour
    <3> HIDE DEF held, fresh
    <3>1. /\ IsFiniteSet(held \cup {fresh})
          /\ Cardinality(held \cup {fresh}) = IF fresh \in held THEN Cardinality(held)
                                              ELSE Cardinality(held) + 1
      BY <1>2, FS_AddElement
    <3>2. recent' = held \cup {fresh} /\ Cardinality(held) < limits.perHour
      BY DEF held, fresh
    <3>3. Cardinality(held) + 1 <= limits.perHour
      BY <1>0, <1>2, <3>2
    <3>4. Cardinality(held \cup {fresh}) <= limits.perHour
      BY <1>0, <1>2, <3>1, <3>3
    <3> QED BY <3>1, <3>2, <3>4
  <2>2. \A i \in DOMAIN log' : log'[i].at + (Hour - MaxLag) > now => \E a \in recent' : a.n = i
    <3>1. fresh \in recent' /\ fresh.n = Len(log) + 1 /\ held \subseteq recent'
      OBVIOUS
    <3> HIDE DEF held, fresh
    <3>2. ASSUME NEW i \in DOMAIN log, log'[i].at + (Hour - MaxLag) > now
          PROVE  \E a \in recent' : a.n = i
      BY <1>2, <1>3, <3>1, <3>2
    <3> QED BY <1>3, <3>1, <3>2
  <2> QED BY <2>1, <2>2 DEF FewHeld, YoungAreHeld
<1>5. DOMAIN counts' = kept \cup {r} /\ (\A q \in kept \ {r} : counts'[q] = counts[q])
      /\ counts'[r].used = used /\ counts'[r].seen = stamp /\ counts'[r] = [used |-> used, seen |-> stamp]
  OBVIOUS
<1>6. /\ IsFiniteSet(DOMAIN counts') /\ DOMAIN counts' \subseteq Run
      /\ Cardinality(DOMAIN counts') <= limits.tracked + 1
  <2>1. /\ IsFiniteSet(kept \cup {r})
        /\ Cardinality(kept \cup {r}) = IF r \in kept THEN Cardinality(kept) ELSE Cardinality(kept) + 1
    BY <1>1, FS_AddElement
  <2>2. kept \cup {r} \subseteq Run
    BY <1>1 DEF LimiterInv, LimiterTyped
  <2> QED BY <1>0, <1>1, <1>5, <2>1, <2>2
<1>7. \A q \in DOMAIN counts' : counts'[q] \in [used : 1..limits.perCycle, seen : 0..MaxTime]
  <2>1. \A q \in DOMAIN counts : /\ counts[q] \in [used : 1..limits.perCycle, seen : 0..MaxTime]
                                 /\ counts[q].used \in 1..limits.perCycle
    BY DEF LimiterInv, LimiterTyped
  <2>2. used \in 1..limits.perCycle
    BY <1>0, <1>1, <2>1
  <2> QED BY <1>1, <1>5, <2>1, <2>2
<1>8. LimiterTyped'
  <2>1. waiting' \in [Worker -> [stamp : 0..MaxTime, run : Run] \cup {Idle}]
    BY DEF LimiterInv, LimiterTyped
  <2>2. recent' \subseteq [n : 1..Len(log'), stamp : 0..MaxTime]
    <3>1. recent \subseteq [n : 1..Len(log), stamp : 0..MaxTime]
      BY DEF LimiterInv, LimiterTyped
    <3>2. recent \subseteq [n : 1..Len(log'), stamp : 0..MaxTime]
      BY <1>3, <3>1
    <3> QED BY <1>2, <1>3, <3>2
  <2>3. log' \in Seq([run : Run \cup {"reset"}, at : 0..MaxTime])
    BY LogAppended DEF LimiterInv
  <2> QED BY <1>6, <1>7, <2>1, <2>2, <2>3 DEF LimiterInv, LimiterTyped
<1>9. Timely'
  BY <1>0, <1>3, SMTT(20) DEF LimiterInv, Timely, LimiterTyped
<1>10. HeldAreLogged'
  <2>1. \A a \in recent : /\ a.n \in DOMAIN log /\ a.n # Len(log) + 1
                          /\ a.stamp <= log'[a.n].at /\ log'[a.n].at - MaxLag <= a.stamp
    BY <1>3, LogTyped DEF LimiterInv, LimiterTyped, HeldAreLogged
  <2>2. fresh.n = Len(log) + 1 /\ fresh.stamp = stamp
    OBVIOUS
  <2>3. fresh.stamp <= log'[fresh.n].at /\ log'[fresh.n].at - MaxLag <= fresh.stamp
    BY <1>0, <1>3, <2>2
  <2>4. \A a \in recent' : a \in recent \/ a = fresh
    BY <1>2
  <2> HIDE DEF fresh
  <2> QED BY <2>1, <2>2, <2>3, <2>4 DEF LimiterInv, HeldAreLogged
<1>11. SeenAreLogged'
  <2>1. \A q \in DOMAIN counts : \E i \in DOMAIN log : log[i].run = q /\ counts[q].seen <= log[i].at
    BY DEF LimiterInv, SeenAreLogged
  <2>2. \A q \in DOMAIN counts : \A i \in DOMAIN log : log[i].run = q => log[i].at - MaxLag <= counts[q].seen
    BY DEF LimiterInv, SeenAreLogged
  <2>3. \A i \in DOMAIN log : log[i].at - MaxLag <= stamp
    BY <1>0, <1>3 DEF LimiterInv, Timely
  <2>4. ASSUME NEW q \in kept \ {r}
        PROVE  /\ \E i \in DOMAIN log' : log'[i].run = q /\ counts'[q].seen <= log'[i].at
               /\ \A i \in DOMAIN log' : log'[i].run = q => log'[i].at - MaxLag <= counts'[q].seen
    <3>1. q \in DOMAIN counts /\ counts'[q].seen = counts[q].seen
      BY <1>1, <1>5
    <3> QED BY <1>3, <2>1, <2>2, <3>1, SMTT(20)
  <2>5. /\ \E i \in DOMAIN log' : log'[i].run = r /\ counts'[r].seen <= log'[i].at
        /\ \A i \in DOMAIN log' : log'[i].at - MaxLag <= counts'[r].seen
    BY <1>0, <1>3, <1>5, <2>3
  <2> QED BY <1>5, <2>4, <2>5 DEF SeenAreLogged
<1>12. FewInAnyHour'
  BY <1>4, AllowedFits DEF FewHeld, YoungAreHeld
<1>13. ASSUME Limiter!Roomy PROVE CountersCount' /\ FewInAnyLife'
  <2>1. CountersCount'
    BY <1>0, <1>5, <1>13, AllowedCounts
  <2> QED BY <1>8, <1>13, <2>1, AllowedLives
<1>14. Limiter!Roomy' <=> Limiter!Roomy
  BY DEF Limiter!Roomy
<1> QED BY <1>4, <1>6, <1>8, <1>9, <1>10, <1>11, <1>12, <1>13, <1>14 DEF LimiterInv

\* A thread that holds the lock is refused, or its action counts.
LEMMA Decisions ==
    ASSUME LimiterInv, NEW t \in Worker, Limiter!Check(t)
    PROVE  LimiterInv'
<1>1. /\ waiting[t] # Idle /\ waiting' = [waiting EXCEPT ![t] = Idle] /\ UNCHANGED <<limits, now>>
      /\ \E kept \in Limiter!Survivors(waiting[t].stamp) :
             Limiter!Decide(waiting[t].run, waiting[t].stamp, kept)
  BY DEF Limiter!Check, Idle
<1>2. /\ waiting[t].stamp \in 0..MaxTime /\ waiting[t].run \in Run
      /\ now - MaxLag <= waiting[t].stamp /\ waiting[t].stamp <= now
  BY <1>1 DEF LimiterInv, LimiterTyped, Timely
<1> DEFINE stamp == waiting[t].stamp
           run == waiting[t].run
<1>3. stamp \in Int
  BY <1>2
<1>4. PICK kept \in Limiter!Survivors(stamp) : Limiter!Decide(run, stamp, kept)
  BY <1>1
<1>5. CASE answer' \in {"hourly", "cycle"} /\ UNCHANGED log /\ recent' = Limiter!Recent(stamp)
           /\ counts' = [r \in kept |-> counts[r]]
  BY <1>1, <1>2, <1>3, <1>5, RefusedKeeps
<1> DEFINE used == IF run \in kept THEN counts[run].used ELSE 0
<1>6. CASE /\ Cardinality(Limiter!Recent(stamp)) < limits.perHour /\ answer' = "allowed"
           /\ used < limits.perCycle
           /\ recent' = Limiter!Recent(stamp) \cup {[n |-> Len(log) + 1, stamp |-> stamp]}
           /\ counts' = [r \in kept \cup {run} |->
                  IF r = run THEN [used |-> used + 1, seen |-> stamp] ELSE counts[r]]
           /\ log' = Append(log, [run |-> run, at |-> now])
  BY <1>1, <1>2, <1>3, <1>6, AllowedKeeps
<1>7. Cardinality(Limiter!Recent(stamp)) \in Nat /\ limits.perHour \in Nat
  BY <1>2, <1>3, KeptStamps, LimiterNumbers DEF LimiterInv
<1>8. Limiter!HourSpent(Limiter!Recent(stamp)) <=> Cardinality(Limiter!Recent(stamp)) >= limits.perHour
  BY SameCardinality DEF Limiter!HourSpent
<1> QED BY <1>4, <1>5, <1>6, <1>7, <1>8 DEF Limiter!Decide, Limiter!Used

LEMMA LimiterStart == Limiter!Init => LimiterInv
<1> SUFFICES ASSUME Limiter!Init PROVE LimiterInv
  OBVIOUS
<1>1. /\ limits \in Limits /\ now = 0 /\ waiting = [t \in Worker |-> Idle] /\ recent = {}
      /\ DOMAIN counts = {} /\ log = <<>> /\ Len(log) = 0 /\ DOMAIN log = {} /\ answer = "none"
  BY DEF Limiter!Init, Idle
<1>2. LimiterTyped
  BY <1>1, LimiterNumbers, FS_EmptySet DEF LimiterTyped
<1>3. {limits.perHour, limits.perCycle, limits.tracked} \subseteq Nat
  BY <1>2, LimiterNumbers
<1>4. /\ \A from, length : Limiter!InWindow(from, length) = {}
      /\ \A r, from : Since(r, from) = {}
  BY <1>1 DEF Limiter!InWindow, Since
<1>5. FewHeld /\ Cardinality(DOMAIN counts) <= limits.tracked + 1
  BY <1>1, <1>3, FS_EmptySet DEF FewHeld
<1>6. FewInAnyHour
  BY <1>3, <1>4, FS_EmptySet DEF FewInAnyHour
<1>7. FewInAnyLife
  <2>1. \A r, from : {i \in Limiter!InWindow(from, CycleTTL - MaxLag) : log[i].run = r} = {}
    BY <1>4
  <2> QED BY <1>3, <2>1, FS_EmptySet DEF FewInAnyLife
<1>8. Timely /\ HeldAreLogged /\ YoungAreHeld /\ SeenAreLogged /\ CountersCount
  BY <1>1, <1>4 DEF Timely, HeldAreLogged, YoungAreHeld, SeenAreLogged, CountersCount
<1> QED BY <1>2, <1>5, <1>6, <1>7, <1>8 DEF LimiterInv

\* Time and the threads that come to the lock keep the invariant.
LEMMA WaitingKeeps ==
    ASSUME LimiterInv, UNCHANGED <<limits, recent, counts, log, answer>>,
           now' \in 0..MaxTime, now <= now',
           waiting' \in [Worker -> [stamp : 0..MaxTime, run : Run] \cup {Idle}],
           \A t \in Worker : waiting'[t] # Idle =>
               waiting'[t].stamp <= now' /\ now' - MaxLag <= waiting'[t].stamp
    PROVE  LimiterInv'
<1> USE DEF LimiterInv
<1>1. /\ FewInAnyHour' /\ (Limiter!Roomy => FewInAnyLife')
      /\ \A r, from : Since(r, from)' = Since(r, from)
      /\ \A i \in DOMAIN log' : log'[i].at <= now'
      /\ Limiter!Roomy' <=> Limiter!Roomy
  BY QuietCaps
<1>2. LimiterTyped' /\ Timely' /\ HeldAreLogged' /\ FewHeld' /\ SeenAreLogged'
  BY <1>1 DEF LimiterTyped, Timely, HeldAreLogged, FewHeld, SeenAreLogged
<1>3. YoungAreHeld'
  BY LogTyped, LimiterNumbers DEF YoungAreHeld
<1>4. Limiter!Roomy => CountersCount'
  BY <1>1, LimiterNumbers DEF CountersCount
<1> QED BY <1>1, <1>2, <1>3, <1>4

\* A run that starts afresh has no past.
LEMMA ResetKeeps ==
    ASSUME LimiterInv, NEW r \in Run, Limiter!ResetCycle(r)
    PROVE  LimiterInv'
<1> USE DEF LimiterInv
<1>1. /\ UNCHANGED <<limits, now, waiting, recent, answer>>
      /\ DOMAIN counts' = DOMAIN counts \ {r} /\ \A q \in DOMAIN counts' : counts'[q] = counts[q]
      /\ DOMAIN log' = DOMAIN log
      /\ \A i \in DOMAIN log : log'[i] = IF log[i].run = r THEN [log[i] EXCEPT !.run = "reset"] ELSE log[i]
  BY DEF Limiter!ResetCycle
<1> DEFINE Action == [run : Run \cup {"reset"}, at : 0..MaxTime]
<1>2. Len(log) \in Nat /\ DOMAIN log = 1..Len(log) /\ \A i \in DOMAIN log : log[i] \in Action
  <2>1. log \in Seq(Action)
    BY DEF LimiterTyped
  <2> HIDE DEF Action
  <2> QED BY <2>1
<1>3. \A i \in DOMAIN log : /\ log'[i] \in Action /\ log'[i].at = log[i].at
                            /\ log[i].run = r => log'[i].run = "reset"
                            /\ log[i].run # r => log'[i] = log[i]
  BY <1>1, <1>2
<1>4. log' \in Seq(Action) /\ Len(log') = Len(log)
  <2>1. log' = [i \in 1..Len(log) |-> log'[i]]
    BY <1>1, <1>2 DEF Limiter!ResetCycle
  <2> HIDE DEF Action
  <2>2. log' \in [1..Len(log) -> Action]
    BY <1>2, <1>3, <2>1
  <2> QED BY <1>2, <2>2
<1>5. IsFiniteSet(DOMAIN counts') /\ Cardinality(DOMAIN counts') <= limits.tracked + 1
  <2>1. DOMAIN counts' \subseteq DOMAIN counts /\ IsFiniteSet(DOMAIN counts)
    BY <1>1 DEF LimiterTyped
  <2>2. /\ IsFiniteSet(DOMAIN counts') /\ Cardinality(DOMAIN counts') <= Cardinality(DOMAIN counts)
        /\ {Cardinality(DOMAIN counts'), Cardinality(DOMAIN counts)} \subseteq Nat
    BY <2>1, Part
  <2> QED BY <2>2, LimiterNumbers
<1>6. LimiterTyped'
  BY <1>1, <1>4, <1>5 DEF LimiterTyped
<1>7. Timely' /\ HeldAreLogged' /\ YoungAreHeld' /\ FewHeld'
  <2>1. \A a \in recent : a.n \in DOMAIN log
    BY <1>2 DEF LimiterTyped
  <2> QED BY <1>1, <1>3, <2>1 DEF Timely, HeldAreLogged, YoungAreHeld, FewHeld
<1>8. SeenAreLogged'
  <2> SUFFICES ASSUME NEW q \in DOMAIN counts'
               PROVE  /\ \E i \in DOMAIN log' : log'[i].run = q /\ counts'[q].seen <= log'[i].at
                      /\ \A i \in DOMAIN log' :
                             log'[i].run = q => log'[i].at - MaxLag <= counts'[q].seen
    BY DEF SeenAreLogged
  <2>1. q \in DOMAIN counts /\ q # r /\ q # "reset" /\ counts'[q] = counts[q]
    BY <1>1, LimiterNumbers DEF LimiterTyped
  <2>2. /\ \E i \in DOMAIN log : log[i].run = q /\ counts[q].seen <= log[i].at
        /\ \A i \in DOMAIN log : log[i].run = q => log[i].at - MaxLag <= counts[q].seen
    BY <2>1 DEF SeenAreLogged
  <2> QED BY <1>1, <1>3, <2>1, <2>2
<1>9. \A from, length : Limiter!InWindow(from, length)' = Limiter!InWindow(from, length)
  BY <1>1, <1>3 DEF Limiter!InWindow
<1>10. FewInAnyHour'
  BY <1>1, <1>9 DEF FewInAnyHour
<1>11. ASSUME NEW q \in Run, NEW from
       PROVE  Since(q, from)' = IF q = r THEN {} ELSE Since(q, from)
  BY <1>1, <1>3, LimiterNumbers DEF Since
<1>12. CountersCount => CountersCount'
  BY <1>1, <1>11 DEF CountersCount
<1>13. FewInAnyLife => FewInAnyLife'
  <2> SUFFICES ASSUME FewInAnyLife, NEW q \in Run, NEW from \in Int
               PROVE  Cardinality({i \in Limiter!InWindow(from, CycleTTL - MaxLag)' : log'[i].run = q})
                          <= limits.perCycle
    BY <1>1 DEF FewInAnyLife
  <2>1. \A i \in Limiter!InWindow(from, CycleTTL - MaxLag) : i \in DOMAIN log
    BY DEF Limiter!InWindow
  <2>2. CASE q = r
    <3>1. {i \in Limiter!InWindow(from, CycleTTL - MaxLag)' : log'[i].run = q} = {}
      BY <1>3, <1>9, <2>1, <2>2, LimiterNumbers
    <3>2. Cardinality({}) = 0 /\ 0 <= limits.perCycle
      BY FS_EmptySet, LimiterNumbers DEF LimiterTyped
    <3> QED BY <3>1, <3>2
  <2>3. CASE q # r
    <3>1. {i \in Limiter!InWindow(from, CycleTTL - MaxLag)' : log'[i].run = q}
              = {i \in Limiter!InWindow(from, CycleTTL - MaxLag) : log[i].run = q}
      BY <1>3, <1>9, <2>1, <2>3, LimiterNumbers
    <3> QED BY <3>1 DEF FewInAnyLife
  <2> QED BY <2>2, <2>3
<1>14. Limiter!Roomy' <=> Limiter!Roomy
  BY <1>1 DEF Limiter!Roomy
<1> QED BY <1>1, <1>5, <1>6, <1>7, <1>8, <1>10, <1>12, <1>13, <1>14

LEMMA LimiterStep == LimiterInv /\ [Limiter!Next]_limiterVars => LimiterInv'
<1> SUFFICES ASSUME LimiterInv, [Limiter!Next]_limiterVars PROVE LimiterInv'
  OBVIOUS
<1>1. ASSUME NEW t \in Worker, NEW r \in Run, Limiter!ReadClock(t, r) PROVE LimiterInv'
  <2>1. /\ UNCHANGED <<limits, now, recent, counts, log, answer>>
        /\ waiting' = [waiting EXCEPT ![t] = [stamp |-> now, run |-> r]]
    BY <1>1 DEF Limiter!ReadClock
  <2>2. now \in 0..MaxTime /\ waiting \in [Worker -> [stamp : 0..MaxTime, run : Run] \cup {Idle}]
    BY DEF LimiterInv, LimiterTyped
  <2>3. waiting' \in [Worker -> [stamp : 0..MaxTime, run : Run] \cup {Idle}]
    BY <2>1, <2>2
  <2>4. ASSUME NEW u \in Worker, waiting'[u] # Idle
        PROVE  waiting'[u].stamp <= now' /\ now' - MaxLag <= waiting'[u].stamp
    BY <2>1, <2>2, <2>4, LimiterNumbers DEF LimiterInv, Timely
  <2> QED BY <2>1, <2>2, <2>3, <2>4, LimiterNumbers, WaitingKeeps
<1>2. CASE Limiter!Tick
  <2>1. /\ UNCHANGED <<limits, waiting, recent, counts, log, answer>> /\ now' = now + 1 /\ now < MaxTime
        /\ \A t \in Worker : waiting[t] # Idle => now - waiting[t].stamp < MaxLag
    BY <1>2 DEF Limiter!Tick, Idle
  <2>2. now \in 0..MaxTime /\ waiting \in [Worker -> [stamp : 0..MaxTime, run : Run] \cup {Idle}]
    BY DEF LimiterInv, LimiterTyped
  <2>3. now' \in 0..MaxTime /\ now <= now'
    BY <2>1, <2>2, LimiterNumbers
  <2>4. ASSUME NEW u \in Worker, waiting'[u] # Idle
        PROVE  waiting'[u].stamp <= now' /\ now' - MaxLag <= waiting'[u].stamp
    <3>1. waiting[u].stamp \in Int /\ waiting[u].stamp <= now
      BY <2>1, <2>2, <2>4 DEF LimiterInv, Timely
    <3> QED BY <2>1, <2>2, <2>4, <3>1, LimiterNumbers
  <2> QED BY <2>1, <2>2, <2>3, <2>4, WaitingKeeps
<1>3. CASE UNCHANGED limiterVars
  <2>1. UNCHANGED <<limits, now, waiting, recent, counts, log, answer>>
    BY <1>3 DEF limiterVars
  <2>2. now \in 0..MaxTime /\ waiting \in [Worker -> [stamp : 0..MaxTime, run : Run] \cup {Idle}]
    BY DEF LimiterInv, LimiterTyped
  <2> QED BY <2>1, <2>2, LimiterNumbers, WaitingKeeps DEF LimiterInv, Timely
<1> QED BY <1>1, <1>2, <1>3, Decisions, ResetKeeps DEF Limiter!Next

\* The invariant, for every policy and however threads overtake each other
\* (guardrails.py:190-251).
THEOREM LimiterInvariant == Limiter!Spec => []LimiterInv
<1>1. LimiterInv /\ [Limiter!Next]_(Limiter!vars) => LimiterInv'
  BY LimiterStep DEF limiterVars, Limiter!vars
<1> QED BY LimiterStart, <1>1, PTL DEF Limiter!Spec

\* No window of an hour, less the time a thread waits for the lock, allows more than the
\* hourly cap, and no window of a counter's life more than its run's cap, wherever the
\* ceiling leaves room for two hours' actions (guardrails.py:193-199, 226-241).
THEOREM CapsAreKept == Limiter!Spec => []CapsHold
<1>1. ASSUME LimiterInv PROVE CapsHold
  <2> USE <1>1, LogTyped, LimiterNumbers, SameCardinality DEF LimiterInv
  <2>1. Limiter!HourlyCap
    BY DEF Limiter!HourlyCap, FewInAnyHour
  <2>2. Limiter!CycleCap
    BY DEF Limiter!CycleCap, FewInAnyLife
  <2> QED BY <2>1, <2>2 DEF CapsHold
<1> QED BY <1>1, LimiterInvariant, PTL

\* The table of a process that lives long holds one run more than its ceiling at most
\* (guardrails.py:214-224, 240).
THEOREM TableIsBounded == Limiter!Spec => []TableBounded
<1>1. LimiterInv => TableBounded
  BY SameCardinality DEF LimiterInv, TableBounded, Limiter!TableBounded
<1> QED BY <1>1, LimiterInvariant, PTL

\* A refusal for the hour is earned by allowed actions of the last hour; refused attempts
\* use up nothing (guardrails.py:232-241).
THEOREM RefusalsAreEarned == Limiter!Spec => RefusalsEarned
<1>1. ASSUME LimiterInv, Limiter!Next PROVE Limiter!RefusalsEarned
  <2> DEFINE lately == {i \in DOMAIN log : now - log[i].at < Hour + MaxLag}
  <2> SUFFICES ASSUME answer' = "hourly", NEW t \in Worker, waiting[t] # Idle, waiting'[t] = Idle
               PROVE  Cardinality(lately) >= limits.perHour
    BY SameCardinality DEF Limiter!RefusalsEarned, Idle
  <2>1. Limiter!Check(t)
    <3>1. waiting \in [Worker -> [stamp : 0..MaxTime, run : Run] \cup {Idle}] /\ now \in 0..MaxTime
      BY <1>1 DEF LimiterInv, LimiterTyped
    <3>2. ASSUME NEW u \in Worker, NEW r \in Run, Limiter!ReadClock(u, r) PROVE FALSE
      BY <3>1, <3>2 DEF Limiter!ReadClock, Idle, Limiter!Idle
    <3>3. ASSUME NEW u \in Worker, Limiter!Check(u) PROVE u = t
      BY <3>1, <3>3 DEF Limiter!Check, Idle
    <3>4. ~Limiter!Tick /\ \A r \in Run : ~Limiter!ResetCycle(r)
      BY DEF Limiter!Tick, Limiter!ResetCycle
    <3> QED BY <1>1, <3>2, <3>3, <3>4 DEF Limiter!Next
  <2> DEFINE stamp == waiting[t].stamp
             held == Limiter!Recent(stamp)
  <2>2. stamp \in Int /\ now - MaxLag <= stamp /\ stamp <= now
    BY <1>1 DEF LimiterInv, LimiterTyped, Timely
  <2>3. Cardinality(held) >= limits.perHour
    BY <2>1, SameCardinality DEF Limiter!Check, Limiter!Decide, Limiter!HourSpent
  <2>4. ASSUME NEW a \in held PROVE a.n \in lately
    <3>1. a \in recent /\ stamp - a.stamp < Hour
      BY DEF Limiter!Recent
    <3>2. a.n \in DOMAIN log /\ a.stamp \in Int /\ a.stamp <= log[a.n].at /\ log[a.n].at \in Int
      BY <1>1, <3>1, LogTyped DEF LimiterInv, LimiterTyped, HeldAreLogged
    <3> QED BY <1>1, <2>2, <3>1, <3>2, LimiterNumbers DEF LimiterInv
  <2>5. \A a, b \in held : a.n = b.n => a = b
    BY <1>1 DEF LimiterInv, HeldAreLogged, Limiter!Recent
  <2> DEFINE f == [i \in lately |-> CHOOSE a \in held : a.n = i]
  <2>6. \A a \in held : \E i \in lately : f[i] = a
    BY <2>4, <2>5
  <2>7. IsFiniteSet(lately)
    BY <1>1, LogTyped, Part DEF LimiterInv
  <2> HIDE DEF f, held, lately
  <2>8. Cardinality(held) <= Cardinality(lately) /\ {Cardinality(held), Cardinality(lately)} \subseteq Nat
    BY <2>6, <2>7, NoMoreThan
  <2>9. limits.perHour \in Nat
    BY <1>1, LimiterNumbers DEF LimiterInv
  <2> QED BY <2>3, <2>8, <2>9
<1>2. LimiterInv /\ [Limiter!Next]_(Limiter!vars) => [Limiter!RefusalsEarned]_limiterVars
  BY <1>1 DEF limiterVars, Limiter!vars
<1> QED BY <1>2, LimiterInvariant, PTL DEF Limiter!Spec, RefusalsEarned

-----------------------------------------------------------------------------
(* The verdict.  Of finitely many numbers there is a k-th in ascending order. *)

\* The elements of S with a value up to that of i, and those with a smaller one.
UpTo(S, value, i) == {j \in S : value[j] <= value[i]}
Before(S, value, i) == {j \in S : value[j] < value[i]}

LEMMA Counts ==
    ASSUME NEW S, IsFiniteSet(S), NEW T, T \subseteq S
    PROVE  /\ IsFiniteSet(T) /\ Cardinality(T) \in Nat /\ Cardinality(S) \in Nat
           /\ Cardinality(T) <= Cardinality(S)
           /\ T # S => Cardinality(T) < Cardinality(S)
           /\ T = {} <=> Cardinality(T) = 0
BY FS_Subset, FS_CardinalityType, FS_EmptySet

\* An element with the most elements up to it has the largest value.
LEMMA LargestExists ==
    ASSUME NEW S, IsFiniteSet(S), S # {}, NEW value \in [S -> Nat]
    PROVE  \E i \in S : \A j \in S : value[j] <= value[i]
<1> DEFINE n == Cardinality(S)
           missing(i) == n - Cardinality(UpTo(S, value, i))
           Missing == {missing(i) : i \in S}
<1>1. \A i \in S : /\ UpTo(S, value, i) \subseteq S /\ IsFiniteSet(UpTo(S, value, i))
                   /\ Cardinality(UpTo(S, value, i)) \in Nat
                   /\ Cardinality(UpTo(S, value, i)) <= n /\ n \in Nat
  BY Counts DEF UpTo
<1>2. \E i \in S : \A j \in S : missing(i) <= missing(j)
  <2>1. Missing \subseteq Nat /\ Missing # {}
    BY <1>1
  <2>2. PICK m \in Missing : \A l \in Missing : m <= l
    <3> HIDE DEF Missing
    <3> QED BY <2>1, LeastExists
  <2> QED BY <2>2
<1>3. PICK i \in S : \A j \in S : missing(i) <= missing(j)
  BY <1>2
<1>4. ASSUME NEW j \in S, ~(value[j] <= value[i]) PROVE FALSE
  <2>1. /\ UpTo(S, value, i) \subseteq UpTo(S, value, j)
        /\ j \in UpTo(S, value, j) /\ j \notin UpTo(S, value, i)
    BY <1>4 DEF UpTo
  <2>2. Cardinality(UpTo(S, value, i)) < Cardinality(UpTo(S, value, j))
    BY <1>1, <2>1, Counts
  <2> QED BY <1>1, <1>3, <2>2
<1> QED BY <1>4

LEMMA KthExists ==
    ASSUME NEW S, IsFiniteSet(S), NEW value \in [S -> Nat], NEW k \in Nat, k < Cardinality(S)
    PROVE  \E i \in S : /\ Cardinality(Before(S, value, i)) <= k
                        /\ Cardinality(UpTo(S, value, i)) > k
<1> DEFINE Far == {i \in S : Cardinality(UpTo(S, value, i)) > k}
           Values == {value[i] : i \in Far}
<1>1. \A i \in S : /\ UpTo(S, value, i) \subseteq S /\ IsFiniteSet(Before(S, value, i))
                   /\ Cardinality(UpTo(S, value, i)) \in Nat
                   /\ Cardinality(Before(S, value, i)) \in Nat
  BY Counts DEF UpTo, Before
<1>2. Far # {}
  <2>1. S # {}
    BY FS_EmptySet
  <2>2. PICK i \in S : \A j \in S : value[j] <= value[i]
    BY <2>1, LargestExists
  <2>3. UpTo(S, value, i) = S
    BY <2>2 DEF UpTo
  <2> QED BY <2>3
<1>3. PICK i \in Far : \A j \in Far : value[i] <= value[j]
  <2>1. Values \subseteq Nat /\ Values # {}
    BY <1>2
  <2>2. PICK v \in Values : \A w \in Values : v <= w
    <3> HIDE DEF Values
    <3> QED BY <2>1, LeastExists
  <2> QED BY <2>2
<1>4. ASSUME ~(Cardinality(Before(S, value, i)) <= k) PROVE FALSE
  <2> DEFINE B == Before(S, value, i)
  <2>1. B \subseteq S /\ IsFiniteSet(B) /\ B # {}
    BY <1>1, <1>4, FS_EmptySet DEF Before
  <2>2. [j \in B |-> value[j]] \in [B -> Nat]
    BY <2>1
  <2>3. PICK j \in B : \A l \in B : value[l] <= value[j]
    <3> HIDE DEF B
    <3>1. \E j \in B : \A l \in B : [m \in B |-> value[m]][l] <= [m \in B |-> value[m]][j]
      BY <2>1, <2>2, LargestExists
    <3> QED BY <3>1
  <2>4. UpTo(S, value, j) = B /\ value[j] < value[i] /\ j \in S
    BY <2>3 DEF UpTo, Before
  <2>5. j \in Far
    BY <1>1, <1>4, <2>4
  <2> QED BY <1>3, <2>4, <2>5
<1> QED BY <1>3, <1>4

\* v is the k-th of the values, counted from 0; there is one.
IsKth(S, value, k, v) ==
    \E i \in S : /\ v = value[i]
                 /\ Cardinality(Before(S, value, i)) <= k
                 /\ Cardinality(UpTo(S, value, i)) > k

LEMMA KthIsOne ==
    ASSUME NEW S, IsFiniteSet(S), NEW value \in [S -> Nat], NEW k \in Nat,
           NEW v, NEW w, IsKth(S, value, k, v), IsKth(S, value, k, w)
    PROVE  v = w
<1>1. \A i \in S : /\ IsFiniteSet(Before(S, value, i)) /\ IsFiniteSet(UpTo(S, value, i))
                   /\ Cardinality(Before(S, value, i)) \in Nat /\ Cardinality(UpTo(S, value, i)) \in Nat
  BY Counts DEF UpTo, Before
<1>2. ASSUME NEW i \in S, NEW j \in S, value[i] < value[j]
      PROVE  Cardinality(UpTo(S, value, i)) <= Cardinality(Before(S, value, j))
  <2>1. UpTo(S, value, i) \subseteq Before(S, value, j)
    BY <1>2 DEF UpTo, Before
  <2> QED BY <1>1, <2>1, Counts
<1>3. PICK i \in S : /\ v = value[i] /\ Cardinality(Before(S, value, i)) <= k
                     /\ Cardinality(UpTo(S, value, i)) > k
  BY DEF IsKth
<1>4. PICK j \in S : /\ w = value[j] /\ Cardinality(Before(S, value, j)) <= k
                     /\ Cardinality(UpTo(S, value, j)) > k
  BY DEF IsKth
<1>5. ~(value[i] < value[j]) /\ ~(value[j] < value[i])
  BY <1>1, <1>2, <1>3, <1>4
<1>6. value[i] \in Nat /\ value[j] \in Nat
  OBVIOUS
<1> QED BY <1>3, <1>4, <1>5, <1>6

PolicyInv == text \in Texts /\ evidence \in Seq(Lines) /\ Len(evidence) <= MaxLines

\* The readings that are about the claim.
About == Policy!UsableLines
Readings == [i \in About |-> Policy!Value(i)]

LEMMA ReadingsAreNumbers ==
    PolicyInv => IsFiniteSet(About) /\ Cardinality(About) \in Nat /\ Readings \in [About -> Nat]
<1> SUFFICES ASSUME PolicyInv
             PROVE  IsFiniteSet(About) /\ Cardinality(About) \in Nat /\ Readings \in [About -> Nat]
  OBVIOUS
<1>1. About \subseteq 1..Len(evidence) /\ Len(evidence) \in Nat
  BY DEF PolicyInv, About, Policy!UsableLines
<1>2. IsFiniteSet(1..Len(evidence))
  BY <1>1, FS_Interval
<1>3. ASSUME NEW i \in About PROVE Policy!Value(i) \in Nat
  <2>1. evidence[i] \in Lines /\ evidence[i].quotes # <<>>
    BY <1>1 DEF PolicyInv, About, Policy!UsableLines, Policy!Usable
  <2> DEFINE Quote == [symbol : Symbol, value : Nat]
  <2>2. evidence[i].quotes \in Seq(Quote)
    BY <2>1, CoreAssumption DEF Policy!PolicyAssumption
  <2> HIDE DEF Quote
  <2>3. Head(evidence[i].quotes) \in Quote
    BY <2>1, <2>2
  <2> QED BY <2>3 DEF Quote, Policy!Value, Policy!Reading
<1> QED BY <1>1, <1>2, <1>3, Counts DEF Readings

\* Sorted is what its name says.
SortedSorts ==
    \A k \in Nat : k < Cardinality(About) => IsKth(About, Readings, k, Policy!Sorted(About, k))

LEMMA SortedReadings == PolicyInv => SortedSorts
<1> SUFFICES ASSUME PolicyInv, NEW k \in Nat, k < Cardinality(About)
             PROVE  IsKth(About, Readings, k, Policy!Sorted(About, k))
  BY DEF SortedSorts
<1> DEFINE Is(i) == /\ Cardinality({j \in About : Policy!Value(j) < Policy!Value(i)}) <= k
                    /\ Cardinality({j \in About : Policy!Value(j) <= Policy!Value(i)}) > k
<1>1. ASSUME NEW i \in About
      PROVE  /\ Before(About, Readings, i) = {j \in About : Policy!Value(j) < Policy!Value(i)}
             /\ UpTo(About, Readings, i) = {j \in About : Policy!Value(j) <= Policy!Value(i)}
  BY DEF Before, UpTo, Readings
<1>2. \E i \in About : Is(i)
  <2>1. \E i \in About : /\ Cardinality(Before(About, Readings, i)) <= k
                         /\ Cardinality(UpTo(About, Readings, i)) > k
    BY ReadingsAreNumbers, KthExists
  <2> QED BY <1>1, <2>1
<1> DEFINE at == CHOOSE i \in About : Is(i)
<1>3. at \in About /\ Is(at)
  BY <1>2
<1>4. Policy!Sorted(About, k) = Policy!Value(at)
  BY SameCardinality DEF Policy!Sorted
<1> HIDE DEF at
<1> QED BY <1>1, <1>3, <1>4 DEF IsKth, Readings

\* A claim that can be checked is a comparison with a number.
LEMMA ClaimIsComparison ==
    PolicyInv /\ Policy!Checkable => Policy!Claim.op \in Policy!Op /\ Policy!Claim.threshold \in Nat
<1> SUFFICES ASSUME PolicyInv, Policy!Checkable
             PROVE  Policy!Claim.op \in Policy!Op /\ Policy!Claim.threshold \in Nat
  OBVIOUS
<1> DEFINE Comparison == [symbol : Symbol, op : Policy!Op, threshold : Nat, block : Nat \cup {Policy!NoBlock}]
<1>1. text \in Seq(Comparison) /\ text # <<>>
  BY CoreAssumption DEF PolicyInv, Policy!Checkable, Policy!PolicyAssumption
<1> HIDE DEF Comparison
<1>2. Head(text) \in Comparison
  BY <1>1
<1> QED BY <1>2 DEF Comparison, Policy!Claim

\* One side of the threshold is a half-line upwards, the other one downwards.
LEMMA SidesAreHalfLines ==
    ASSUME PolicyInv, Policy!Checkable, NEW side \in {"Yes", "No"}
    PROVE  \/ \A a, b \in Nat : a <= b /\ Policy!Side(a) = side => Policy!Side(b) = side
           \/ \A a, b \in Nat : b <= a /\ Policy!Side(a) = side => Policy!Side(b) = side
<1> DEFINE op == Policy!Claim.op
           T == Policy!Claim.threshold
<1>1. op \in {">=", ">", "<=", "<"} /\ T \in Nat
  BY ClaimIsComparison DEF Policy!Op
<1>2. \A d : Policy!Side(d) = IF Policy!Holds(op, d, 2 * T) THEN "Yes" ELSE "No"
  BY DEF Policy!Side
<1> HIDE DEF op, T
<1>3. CASE op = ">="
  <2>1. \A d : Policy!Holds(op, d, 2 * T) <=> d >= 2 * T
    BY <1>3 DEF Policy!Holds
  <2> QED BY <1>1, <1>2, <2>1
<1>4. CASE op = ">"
  <2>1. \A d : Policy!Holds(op, d, 2 * T) <=> d > 2 * T
    BY <1>4 DEF Policy!Holds
  <2> QED BY <1>1, <1>2, <2>1
<1>5. CASE op = "<="
  <2>1. \A d : Policy!Holds(op, d, 2 * T) <=> d <= 2 * T
    BY <1>5 DEF Policy!Holds
  <2> QED BY <1>1, <1>2, <2>1
<1>6. CASE op = "<"
  <2>1. \A d : Policy!Holds(op, d, 2 * T) <=> d < 2 * T
    BY <1>6 DEF Policy!Holds
  <2> QED BY <1>1, <1>2, <2>1
<1> QED BY <1>1, <1>3, <1>4, <1>5, <1>6

\* Where most readings are on one side, so is every reading in the middle: up to it, or
\* from it on, there are too many for the other side to hold.
LEMMA MiddleIsOnSide ==
    ASSUME PolicyInv, Policy!Checkable, NEW side \in {"Yes", "No"},
           2 * Cardinality(Policy!On(side)) > Cardinality(About),
           NEW k \in Nat, 2 * k <= Cardinality(About), Cardinality(About) <= 2 * k + 2,
           NEW v, IsKth(About, Readings, k, v)
    PROVE  v \in Nat /\ Policy!Side(2 * v) = side
<1> DEFINE S == About
           On == Policy!On(side)
           Off == S \ On
<1>1. IsFiniteSet(S) /\ Cardinality(S) \in Nat /\ Readings \in [S -> Nat]
  BY ReadingsAreNumbers
<1>3. On \subseteq S /\ \A i \in S : i \in On <=> Policy!Side(2 * Readings[i]) = side
  BY DEF Policy!On, About, Readings
<1>4. Cardinality(On) \in Nat /\ Cardinality(Off) = Cardinality(S) - Cardinality(On)
  <2>1. S \cap On = On
    BY <1>3
  <2>2. Cardinality(S \ On) = Cardinality(S) - Cardinality(S \cap On)
    BY <1>1, FS_Difference
  <2> QED BY <1>1, <1>3, <2>1, <2>2, Counts
<1>5. PICK i \in S : /\ v = Readings[i]
                     /\ Cardinality(Before(S, Readings, i)) <= k
                     /\ Cardinality(UpTo(S, Readings, i)) > k
  BY DEF IsKth
<1>6. ASSUME NEW P, P \subseteq Off PROVE Cardinality(P) \in Nat /\ 2 * Cardinality(P) < Cardinality(S)
  <2>1. IsFiniteSet(Off)
    BY <1>1, FS_Difference
  <2>2. Cardinality(P) \in Nat /\ Cardinality(Off) \in Nat /\ Cardinality(P) <= Cardinality(Off)
    BY <1>6, <2>1, Counts
  <2> QED BY <1>1, <1>4, <2>2
<1>7. ASSUME Policy!Side(2 * v) # side PROVE FALSE
  <2>1. v \in Nat
    BY <1>1, <1>5
  <2>2. \/ \A j \in S : Readings[j] <= v => Policy!Side(2 * Readings[j]) # side
        \/ \A j \in S : v <= Readings[j] => Policy!Side(2 * Readings[j]) # side
    <3>1. \A j \in S : Readings[j] \in Nat
      BY <1>1
    <3>2. CASE \A a, b \in Nat : a <= b /\ Policy!Side(a) = side => Policy!Side(b) = side
      BY <1>7, <2>1, <3>1, <3>2
    <3>3. CASE \A a, b \in Nat : b <= a /\ Policy!Side(a) = side => Policy!Side(b) = side
      BY <1>7, <2>1, <3>1, <3>3
    <3> QED BY <3>2, <3>3, SidesAreHalfLines
  <2>3. CASE \A j \in S : Readings[j] <= v => Policy!Side(2 * Readings[j]) # side
    <3>1. UpTo(S, Readings, i) \subseteq Off
      BY <1>3, <1>5, <2>3 DEF UpTo
    <3>2. /\ Cardinality(UpTo(S, Readings, i)) \in Nat
          /\ 2 * Cardinality(UpTo(S, Readings, i)) < Cardinality(S)
      BY <1>6, <3>1
    <3> QED BY <1>1, <1>5, <3>2
  <2>4. CASE \A j \in S : v <= Readings[j] => Policy!Side(2 * Readings[j]) # side
    <3> DEFINE B == Before(S, Readings, i)
    <3>1. S \ B \subseteq Off
      BY <1>1, <1>3, <1>5, <2>4 DEF Before
    <3>2. Cardinality(S \ B) \in Nat /\ 2 * Cardinality(S \ B) < Cardinality(S)
      BY <1>6, <3>1
    <3>3. B \subseteq S /\ S \cap B = B
      BY DEF Before
    <3>4. Cardinality(S \ B) = Cardinality(S) - Cardinality(S \cap B)
      BY <1>1, FS_Difference
    <3>5. Cardinality(B) \in Nat /\ Cardinality(B) <= k /\ 2 * k <= Cardinality(S)
      BY <1>1, <1>5, <3>3, Counts
    <3>6. Cardinality(S \ B) = Cardinality(S) - Cardinality(B)
      BY <3>3, <3>4
    <3> HIDE DEF B, S
    <3> QED BY <1>1, <3>2, <3>5, <3>6
  <2> QED BY <2>2, <2>3, <2>4
<1> QED BY <1>1, <1>5, <1>7

\* So the median is on that side, be it one reading or the middle of two.
LEMMA MedianIsOnSide ==
    ASSUME PolicyInv, Policy!Checkable, NEW side \in {"Yes", "No"},
           2 * Cardinality(Policy!On(side)) > Cardinality(About)
    PROVE  About # {} /\ Policy!Side(Policy!DoubledMedian(About)) = side
<1> DEFINE n == Cardinality(About)
<1>1. n \in Nat /\ IsFiniteSet(About)
  BY ReadingsAreNumbers
<1>2. Policy!On(side) \subseteq About
  BY DEF Policy!On, About
<1>3. n > 0 /\ About # {}
  <2>1. Cardinality(Policy!On(side)) \in Nat /\ Cardinality(Policy!On(side)) <= n
    BY <1>1, <1>2, Counts
  <2>2. n > 0
    BY <1>1, <2>1
  <2> QED BY <2>2, FS_EmptySet
<1>4. ASSUME NEW k \in Nat, 2 * k <= n, n <= 2 * k + 2, k < n
      PROVE  Policy!Sorted(About, k) \in Nat /\ Policy!Side(2 * Policy!Sorted(About, k)) = side
  BY <1>4, SortedReadings, MiddleIsOnSide DEF SortedSorts
<1>5. CASE n % 2 = 1
  <2>1. n \div 2 \in Nat /\ 2 * (n \div 2) <= n /\ n <= 2 * (n \div 2) + 2 /\ n \div 2 < n
    BY <1>1, <1>3
  <2>2. Policy!Side(2 * Policy!Sorted(About, n \div 2)) = side
    BY <1>4, <2>1
  <2> QED BY <1>3, <1>5, <2>2, SameCardinality DEF Policy!DoubledMedian
<1>6. CASE n % 2 # 1
  <2>1. /\ n \div 2 \in Nat /\ 2 * (n \div 2) <= n /\ n <= 2 * (n \div 2) + 2 /\ n \div 2 < n
        /\ n \div 2 - 1 \in Nat /\ 2 * (n \div 2 - 1) <= n /\ n <= 2 * (n \div 2 - 1) + 2
        /\ n \div 2 - 1 < n
    BY <1>1, <1>3, <1>6
  <2> DEFINE a == Policy!Sorted(About, n \div 2 - 1)
             b == Policy!Sorted(About, n \div 2)
  <2>2. /\ a \in Nat /\ Policy!Side(2 * a) = side
        /\ b \in Nat /\ Policy!Side(2 * b) = side
    BY <1>4, <2>1
  <2>3. Policy!DoubledMedian(About) = a + b
    BY <1>6, SameCardinality DEF Policy!DoubledMedian
  <2> HIDE DEF a, b
  <2>4. CASE a <= b
    <3>1. 2 * a <= a + b /\ a + b <= 2 * b /\ {2 * a, a + b, 2 * b} \subseteq Nat
      BY <2>2, <2>4
    <3> QED BY <1>3, <2>2, <2>3, <3>1, SidesAreHalfLines
  <2>5. CASE b <= a
    <3>1. 2 * b <= a + b /\ a + b <= 2 * a /\ {2 * a, a + b, 2 * b} \subseteq Nat
      BY <2>2, <2>5
    <3> QED BY <1>3, <2>2, <2>3, <3>1, SidesAreHalfLines
  <2> QED BY <2>2, <2>4, <2>5
<1> QED BY <1>5, <1>6

LEMMA PolicyStart == Policy!Init => PolicyInv
BY CoreAssumption DEF Policy!Init, PolicyInv, Policy!PolicyAssumption

LEMMA PolicyStep == PolicyInv /\ [Policy!Next]_policyVars => PolicyInv'
<1> SUFFICES ASSUME PolicyInv, [Policy!Next]_policyVars PROVE PolicyInv'
  OBVIOUS
<1>1. ASSUME NEW line \in Lines, Policy!AddLine(line) PROVE PolicyInv'
  BY <1>1, CoreAssumption DEF PolicyInv, Policy!AddLine, Policy!PolicyAssumption
<1>2. CASE UNCHANGED policyVars
  BY <1>2 DEF PolicyInv, policyVars
<1> QED BY <1>1, <1>2 DEF Policy!Next

\* The invariant, for every claim and all evidence.
THEOREM PolicyInvariant == Policy!Spec => []PolicyInv
<1>1. PolicyInv /\ [Policy!Next]_(Policy!vars) => PolicyInv'
  BY PolicyStep DEF policyVars, Policy!vars
<1> QED BY PolicyStart, <1>1, PTL DEF Policy!Spec

\* More than half of the readings settle the verdict, whatever the others say and in
\* whatever order they came, and a stale quote is right where most readings are on its side
\* (policy.py:118-131, 154).
THEOREM VerdictsAreEarned == Policy!Spec => []VerdictsEarned
<1>1. ASSUME PolicyInv PROVE VerdictsEarned
  <2>1. ASSUME Policy!Checkable, NEW side \in {"Yes", "No"},
               2 * Policy!Cardinality(Policy!On(side)) > Policy!Cardinality(Policy!UsableLines)
        PROVE  Policy!PolicyFor(TRUE) = side
    <3>1. Policy!UsableLines # {} /\ Policy!Side(Policy!DoubledMedian(Policy!UsableLines)) = side
      BY <1>1, <2>1, SameCardinality, MedianIsOnSide DEF About
    <3> QED BY <2>1, <3>1 DEF Policy!PolicyFor, Policy!EvidenceVerdict
  <2>2. Policy!MajorityDecides
    BY <2>1 DEF Policy!MajorityDecides, Policy!PolicyFor, Policy!EvidenceVerdict, Policy!Committable
  <2>3. Policy!StaleWinsWhenTheWorldAgrees
    <3> SUFFICES ASSUME Policy!Checkable, Policy!Committable(Policy!PolicyFor(FALSE)),
                        2 * Policy!Cardinality(Policy!On(Policy!Side(2 * Quotes[Policy!Claim.symbol])))
                            > Policy!Cardinality(Policy!UsableLines)
                 PROVE  Policy!PolicyFor(FALSE) = Policy!PolicyFor(TRUE)
      BY DEF Policy!StaleWinsWhenTheWorldAgrees
    <3>1. Policy!PolicyFor(FALSE) = Policy!Side(2 * Quotes[Policy!Claim.symbol])
      BY DEF Policy!Committable, Policy!PolicyFor, Policy!StaleVerdict
    <3>2. Policy!Side(2 * Quotes[Policy!Claim.symbol]) \in {"Yes", "No"}
      BY DEF Policy!Side
    <3> QED BY <2>1, <3>1, <3>2
  <2> QED BY <2>2, <2>3 DEF VerdictsEarned
<1> QED BY <1>1, PolicyInvariant, PTL

\* The verdict depends on the readings about the claim, and on nothing else.
LEMMA SameReadingsSameVerdict ==
    PolicyInv /\ PolicyInv' /\ text' = text /\ About' = About /\ Readings' = Readings
        => Policy!EvidenceVerdict' = Policy!EvidenceVerdict
<1> SUFFICES ASSUME PolicyInv, PolicyInv', text' = text, About' = About, Readings' = Readings
             PROVE  Policy!EvidenceVerdict' = Policy!EvidenceVerdict
  OBVIOUS
<1>1. IsFiniteSet(About) /\ Cardinality(About) \in Nat /\ Readings \in [About -> Nat]
  BY ReadingsAreNumbers
<1>2. ASSUME NEW k \in Nat, k < Cardinality(About)
      PROVE  Policy!Sorted(About, k)' = Policy!Sorted(About, k)
  <2>1. IsKth(About, Readings, k, Policy!Sorted(About, k))
    BY <1>2, SortedReadings DEF SortedSorts
  <2>2. (PolicyInv => SortedSorts)'
    BY SortedReadings, PTL
  <2>3. IsKth(About, Readings, k, Policy!Sorted(About, k)')
    BY <1>2, <2>2 DEF SortedSorts, IsKth, Before, UpTo
  <2> QED BY <1>1, <2>1, <2>3, KthIsOne
<1>3. About # {} => Policy!DoubledMedian(About)' = Policy!DoubledMedian(About)
  <2> SUFFICES ASSUME About # {} PROVE Policy!DoubledMedian(About)' = Policy!DoubledMedian(About)
    OBVIOUS
  <2> DEFINE n == Cardinality(About)
  <2>1. n > 0
    BY <1>1, FS_EmptySet
  <2>2. n % 2 = 1 => n \div 2 \in Nat /\ n \div 2 < n
    BY <1>1, <2>1
  <2>3. n % 2 # 1 => /\ n \div 2 \in Nat /\ n \div 2 < n
                     /\ n \div 2 - 1 \in Nat /\ n \div 2 - 1 < n
    BY <1>1, <2>1
  <2> QED BY <1>2, <2>2, <2>3, SameCardinality DEF Policy!DoubledMedian
<1> QED BY <1>3 DEF Policy!EvidenceVerdict, Policy!Side, Policy!Claim, Policy!Checkable, About

\* A line on another symbol or another block changes nothing (policy.py:119).
THEOREM OtherLinesCountForNothing == Policy!Spec => OtherLinesIgnored
<1>1. ASSUME PolicyInv, PolicyInv', UNCHANGED text PROVE Policy!OtherLinesIgnored
  <2> SUFFICES ASSUME NEW line \in Lines, Policy!Checkable, evidence' = Append(evidence, line),
                      \/ \A q \in DOMAIN line.quotes : line.quotes[q].symbol # Policy!Claim.symbol
                      \/ /\ Policy!Claim.block # Policy!NoBlock
                         /\ \A b \in DOMAIN line.blocks : line.blocks[b] # Policy!Claim.block
               PROVE  Policy!EvidenceVerdict' = Policy!EvidenceVerdict
    BY DEF Policy!OtherLinesIgnored
  <2>1. ~Policy!Usable(line)
    <3> DEFINE Quote == [symbol : Symbol, value : Nat]
    <3>1. line.quotes \in Seq(Quote) /\ line.blocks \in Seq(Nat)
      BY CoreAssumption DEF Policy!PolicyAssumption
    <3> HIDE DEF Quote
    <3>2. line.quotes # <<>> => 1 \in DOMAIN line.quotes /\ Head(line.quotes) = line.quotes[1]
      BY <3>1
    <3>3. line.blocks # <<>> => 1 \in DOMAIN line.blocks /\ Head(line.blocks) = line.blocks[1]
      BY <3>1
    <3> QED BY <3>2, <3>3 DEF Policy!Usable, Policy!Reading
  <2>2. /\ Len(evidence) \in Nat /\ DOMAIN evidence = 1..Len(evidence)
        /\ DOMAIN evidence' = 1..(Len(evidence) + 1) /\ evidence'[Len(evidence) + 1] = line
        /\ \A i \in DOMAIN evidence : evidence'[i] = evidence[i]
    BY <1>1 DEF PolicyInv
  <2>3. \A l : Policy!Usable(l)' <=> Policy!Usable(l)
    BY <1>1 DEF Policy!Usable, Policy!Claim
  <2>4. About' = About
    BY <2>1, <2>2, <2>3 DEF About, Policy!UsableLines
  <2>5. Readings' = Readings
    BY <2>2, <2>4 DEF Readings, About, Policy!UsableLines, Policy!Value, Policy!Reading
  <2> QED BY <1>1, <2>4, <2>5, SameReadingsSameVerdict
<1>2. PolicyInv /\ PolicyInv' /\ [Policy!Next]_(Policy!vars) => [Policy!OtherLinesIgnored]_policyVars
  BY <1>1 DEF Policy!Next, Policy!AddLine, policyVars, Policy!vars
<1> QED BY <1>2, PolicyInvariant, PTL DEF Policy!Spec, OtherLinesIgnored

-----------------------------------------------------------------------------
(* The whole. *)

\* Every part keeps to its types in every behaviour of the core.
THEOREM CoreTypeCorrect == CoreSpec => []CoreTypeOK
<1>1. StoreInv => TypeOK
  BY DEF StoreInv
<1>2. LimiterInv => Limiter!TypeOK
  BY SameCardinality DEF LimiterInv, LimiterTyped, FewHeld, Limiter!TypeOK, Idle
<1>3. PolicyInv => Policy!TypeOK
  BY DEF PolicyInv, Policy!TypeOK, Policy!PolicyFor, Policy!EvidenceVerdict, Policy!StaleVerdict,
     Policy!Side, Policy!Verdict
<1>4. EnvironmentInv => Environment!TypeOK
  BY DEF EnvironmentInv
<1>5. Spec => []StoreInv
  BY CoreAssumption, StoreInvariant
<1> QED BY <1>1, <1>2, <1>3, <1>4, <1>5, LimiterInvariant, PolicyInvariant,
           EnvironmentInvariant, PTL DEF CoreSpec, CoreTypeOK
=============================================================================
