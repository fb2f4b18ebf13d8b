----------------------------- MODULE StateStore -----------------------------
(***************************************************************************)
(* The run journal (src/agent_core/state.py).  Each process makes one store *)
(* over a backend: its own memory, or a remote one shared by all processes  *)
(* (Firestore, or one handed in that has no atomic `mutate`).  Threads call *)
(* the store; a process may crash and be started again; the remote backend  *)
(* may be unreachable for a while.  Documents keep what the properties tell *)
(* apart: the appended items, the data keys, status, signature, recurrence. *)
(***************************************************************************)
EXTENDS Integers, Sequences, FiniteSets, SequencesExt

CONSTANTS
    Process, Thread,
    HomeOf,          \* Thread -> the process it runs in
    Settings,        \* the [optIn, require] a process may be configured with
    HasMutate,       \* whether the remote backend implements `mutate`
    Ops,             \* the mutations called besides detect_recurrence's
    Run, Signature, Remote, NoDoc, None,
    WindowDays,      \* detect_recurrence's window
    FindLimit,       \* documents a remote query returns at most
    MaxCalls,        \* bound: mutations begun
    MaxDay, MaxCrash \* bounds: the calendar, the crashes and outages

Backend == Process \cup {Remote}
Item == 1..MaxCalls

Doc == [started : 0..MaxDay, guardrails : Seq(Item), data : SUBSET Item,
        status : {0} \cup Item, signature : Signature \cup {None},
        recurrence : SUBSET Run]

StoreAssumption ==
    /\ HomeOf \in [Thread -> Process]
    /\ Settings \subseteq [optIn : BOOLEAN, require : BOOLEAN]
    /\ HasMutate \in BOOLEAN
    /\ Ops \subseteq {"append", "set_data", "update"}
    /\ Remote \notin Process /\ None \notin Thread /\ NoDoc \notin Doc
    /\ None \notin Backend /\ NoDoc \notin Backend /\ None # NoDoc
    /\ \A entries \in SUBSET Item : NoDoc # entries
    /\ {WindowDays, FindLimit, MaxCalls, MaxDay, MaxCrash} \subseteq Nat

\* The lock of a backend without `mutate` is the store's own (state.py:196, 270-278):
\* it keeps apart the writers of one process only.
OneWriter == ~HasMutate => \A t, u \in Thread : HomeOf[t] = HomeOf[u]

VARIABLES
    store,   \* Process -> its store object, or None
    docs,    \* backend -> run id -> document, or NoDoc
    keptOn,  \* run id -> the backend it was begun on, None before, NoDoc once that memory died
    busy,    \* Thread -> the call it is in, or None
    lock,    \* Process -> the thread that holds _fallback_lock, or None
    up,      \* the remote backend answers
    today, calls, faults,
    acked    \* history: the items whose append or set_data returned, per backend and run

vars == <<store, docs, keptOn, busy, lock, up, today, calls, faults, acked>>

Durable(p) == store[p] # None /\ store[p].kind = "remote"
Home(p) == IF Durable(p) THEN Remote ELSE p
At(t) == Home(HomeOf[t])
Reachable(t) == At(t) = Remote => up
Exists(t, r) == docs[At(t)][r] # NoDoc
HandedOut(r) == keptOn[r] # None

-----------------------------------------------------------------------------
(* Making a store. *)

\* Falls back to memory without saying so.
FallBackSilently(s) == [kind |-> "memory", optIn |-> s.optIn, degraded |-> FALSE]

FallBack(s) == [kind |-> "memory", optIn |-> s.optIn, degraded |-> TRUE]

\* The bounded read of ping() decides; required durability raises instead.
Create(p, s) ==
    /\ store[p] = None
    /\ \/ s.optIn /\ store' = [store EXCEPT ![p] =
              [kind |-> "memory", optIn |-> TRUE, degraded |-> FALSE]]
       \/ ~s.optIn /\ up /\ store' = [store EXCEPT ![p] =
              [kind |-> "remote", optIn |-> FALSE, degraded |-> FALSE]]
       \/ ~s.optIn /\ ~up /\ ~s.require /\ store' = [store EXCEPT ![p] = FallBack(s)]
    /\ UNCHANGED <<docs, keptOn, busy, lock, up, today, calls, faults, acked>>

\* new_run_id is unique over all processes.
StartRun(t, r) ==
    /\ store[HomeOf[t]] # None /\ busy[t] = None /\ Reachable(t)
    /\ ~HandedOut(r)
    /\ keptOn' = [keptOn EXCEPT ![r] = At(t)]
    /\ docs' = [docs EXCEPT ![At(t)][r] =
           [started |-> today, guardrails |-> <<>>, data |-> {}, status |-> 0,
            signature |-> None, recurrence |-> {}]]
    /\ UNCHANGED <<store, busy, lock, up, today, calls, faults, acked>>

-----------------------------------------------------------------------------
(* Mutations: append, set_data and update differ in what they do to a document. *)

Effect(doc, m) ==
    CASE m.op = "append" -> [doc EXCEPT !.guardrails = Append(@, m.item)]
      [] m.op = "set_data" -> [doc EXCEPT !.data = @ \cup {m.item}]
      [] m.op = "update" -> [doc EXCEPT !.status = m.item]
      [] m.op = "signature" ->
             [doc EXCEPT !.signature = m.signature, !.recurrence = m.recurrence]

\* A thread enters a mutation of any run whose id was handed out, by this store or another one;
\* the number of the call is what it writes.  Status 0 is "started".
Call(t, op, r) ==
    /\ store[HomeOf[t]] # None /\ busy[t] = None /\ HandedOut(r) /\ calls < MaxCalls
    /\ calls' = calls + 1
    /\ busy' = [busy EXCEPT ![t] =
           [at |-> "mutate", m |-> [op |-> op, run |-> r, item |-> calls + 1]]]
    /\ UNCHANGED <<store, docs, keptOn, lock, up, today, faults, acked>>

\* The call returns: the thread is free, and its caller takes its item for recorded.
Return(t, m) ==
    /\ busy' = [busy EXCEPT ![t] = None]
    /\ acked' = IF m.op \in {"append", "set_data"}
                THEN [acked EXCEPT ![At(t)][m.run] = @ \cup {m.item}]
                ELSE acked

\* Memory does the whole mutation under its own lock.
MutateInMemory(t) ==
    /\ busy[t] # None /\ busy[t].at = "mutate" /\ At(t) # Remote /\ Exists(t, busy[t].m.run)
    /\ LET m == busy[t].m
       IN  /\ docs' = [docs EXCEPT ![At(t)][m.run] = Effect(@, m)]
           /\ Return(t, m)
    /\ UNCHANGED <<store, keptOn, lock, up, today, calls, faults>>

\* Two threads may be between reading and writing.
LockIgnored(t) == TRUE

\* _fallback_lock keeps the threads of one process apart.
LockFree(t) == HasMutate \/ lock[HomeOf[t]] = None

\* A Firestore transaction reads the document; without `mutate`, the store reads it
\* under its process's lock.
ReadForMutation(t) ==
    /\ busy[t] # None /\ busy[t].at = "mutate" /\ At(t) = Remote /\ up
    /\ LockFree(t) /\ Exists(t, busy[t].m.run)
    /\ lock' = IF HasMutate THEN lock ELSE [lock EXCEPT ![HomeOf[t]] = t]
    /\ busy' = [busy EXCEPT ![t] =
           [at |-> "write", m |-> busy[t].m, doc |-> docs[Remote][busy[t].m.run]]]
    /\ UNCHANGED <<store, docs, keptOn, up, today, calls, faults, acked>>

\* A mutation of a run that has no document here returns like any other and writes nothing.
Miss(t) ==
    /\ busy[t] # None /\ busy[t].at = "mutate" /\ ~Exists(t, busy[t].m.run)
    /\ At(t) = Remote => up /\ LockFree(t)
    /\ Return(t, busy[t].m)
    /\ UNCHANGED <<store, docs, keptOn, lock, up, today, calls, faults>>

\* A transaction that commits over whatever others wrote since it read.
CommitsBlindly(doc, m) == TRUE

\* Firestore aborts a transaction whose document changed since it was read; the
\* plain set of the fallback overwrites it.
Commits(doc, m) == HasMutate => docs[Remote][m.run] = doc

\* The write of what was computed from the document read, or another attempt.
WriteBack(t) ==
    /\ busy[t] # None /\ busy[t].at = "write" /\ up
    /\ LET m == busy[t].m
       IN  \/ /\ Commits(busy[t].doc, m)
              /\ docs' = [docs EXCEPT ![Remote][m.run] = Effect(busy[t].doc, m)]
              /\ Return(t, m)
              /\ lock' = IF HasMutate THEN lock ELSE [lock EXCEPT ![HomeOf[t]] = None]
           \/ /\ ~Commits(busy[t].doc, m)
              /\ busy' = [busy EXCEPT ![t] = [at |-> "mutate", m |-> m]]
              /\ UNCHANGED <<docs, acked, lock>>
    /\ UNCHANGED <<store, keptOn, up, today, calls, faults>>

\* An unreachable backend raises into the caller, which gives the call up.
Raise(t) ==
    /\ busy[t] # None /\ At(t) = Remote /\ ~up /\ busy[t].at # "find"
    /\ busy' = [busy EXCEPT ![t] = None]
    /\ lock' = IF lock[HomeOf[t]] = t THEN [lock EXCEPT ![HomeOf[t]] = None] ELSE lock
    /\ UNCHANGED <<store, docs, keptOn, up, today, calls, faults, acked>>

-----------------------------------------------------------------------------
(* Recurrence memory. *)

\* The runs, other than r, that carry the signature, on the backend of t.
Bearers(t, r, s) ==
    {q \in Run \ {r} : docs[At(t)][q] # NoDoc /\ docs[At(t)][q].signature = s}

\* `known` is history: the runs whose signature was recorded when the call began.
Detect(t, r, s) ==
    /\ store[HomeOf[t]] # None /\ busy[t] = None /\ HandedOut(r) /\ calls < MaxCalls
    /\ calls' = calls + 1
    /\ busy' = [busy EXCEPT ![t] =
           [at |-> "find", run |-> r, signature |-> s, known |-> Bearers(t, r, s)]]
    /\ UNCHANGED <<store, docs, keptOn, lock, up, today, faults, acked>>

\* What a query returns: everything, or on the remote backend the FindLimit documents
\* that come first.  It asks for no order, so they come by document name, and the run
\* ids are names that start with the time of the run: the oldest come first.
Found(t, r, s) ==
    LET all == {q \in Run : docs[At(t)][q] # NoDoc /\ docs[At(t)][q].signature = s}
        Day(q) == docs[At(t)][q].started
        FirstOf(some) == \A p \in some, q \in all \ some : Day(p) <= Day(q)
    IN  IF At(t) # Remote \/ Cardinality(all) <= FindLimit
        THEN {all \ {r}}
        ELSE {some \ {r} : some \in
                  {q \in SUBSET all : Cardinality(q) = FindLimit /\ FirstOf(q)}}

\* Keeps the runs that are out of the window.
OutOfWindow(day) == today - day > WindowDays

InWindow(day) == today - day <= WindowDays

\* Looks, and then goes on to record the signature with what it found in the window;
\* if looking fails, with nothing.
Find(t) ==
    /\ busy[t] # None /\ busy[t].at = "find"
    /\ LET r == busy[t].run
           s == busy[t].signature
       IN  \E found \in (IF Reachable(t) THEN Found(t, r, s) ELSE {{}}) :
               busy' = [busy EXCEPT ![t] =
                   [at |-> "mutate",
                    m |-> [op |-> "signature", run |-> r, signature |-> s,
                           known |-> IF Reachable(t) THEN busy[t].known ELSE {},
                           recurrence |-> {q \in found : InWindow(docs[At(t)][q].started)}]]]
    /\ UNCHANGED <<store, docs, keptOn, lock, up, today, calls, faults, acked>>

-----------------------------------------------------------------------------
(* The environment. *)

\* A process dies with its memory and is started again later.
Crash(p) ==
    /\ store[p] # None /\ faults < MaxCrash
    /\ faults' = faults + 1
    /\ store' = [store EXCEPT ![p] = None]
    /\ docs' = [docs EXCEPT ![p] = [r \in Run |-> NoDoc]]
    /\ keptOn' = [r \in Run |-> IF keptOn[r] = p THEN NoDoc ELSE keptOn[r]]
    /\ acked' = [acked EXCEPT ![p] = [r \in Run |-> {}]]
    /\ busy' = [t \in Thread |-> IF HomeOf[t] = p THEN None ELSE busy[t]]
    /\ lock' = [lock EXCEPT ![p] = None]
    /\ UNCHANGED <<up, today, calls>>

Outage ==
    /\ up => faults < MaxCrash
    /\ up' = ~up
    /\ faults' = IF up THEN faults + 1 ELSE faults
    /\ UNCHANGED <<store, docs, keptOn, busy, lock, today, calls, acked>>

NextDay ==
    /\ today < MaxDay
    /\ today' = today + 1
    /\ UNCHANGED <<store, docs, keptOn, busy, lock, up, calls, faults, acked>>

Init ==
    /\ store = [p \in Process |-> None]
    /\ docs = [b \in Backend |-> [r \in Run |-> NoDoc]]
    /\ keptOn = [r \in Run |-> None]
    /\ busy = [t \in Thread |-> None]
    /\ lock = [p \in Process |-> None]
    /\ up = TRUE
    /\ today = 0 /\ calls = 0 /\ faults = 0
    /\ acked = [b \in Backend |-> [r \in Run |-> {}]]

Next ==
    \/ \E p \in Process, s \in Settings : Create(p, s)
    \/ \E t \in Thread, r \in Run : StartRun(t, r)
    \/ \E t \in Thread, op \in Ops, r \in Run : Call(t, op, r)
    \/ \E t \in Thread : MutateInMemory(t)
    \/ \E t \in Thread : ReadForMutation(t)
    \/ \E t \in Thread : Miss(t)
    \/ \E t \in Thread : WriteBack(t)
    \/ \E t \in Thread : Raise(t)
    \/ \E t \in Thread, r \in Run, s \in Signature : Detect(t, r, s)
    \/ \E t \in Thread : Find(t)
    \/ \E p \in Process : Crash(p)
    \/ Outage
    \/ NextDay

Spec == Init /\ [][Next]_vars

-----------------------------------------------------------------------------
TypeOK ==
    /\ store \in [Process -> [kind : {"memory", "remote"}, optIn : BOOLEAN,
                              degraded : BOOLEAN] \cup {None}]
    /\ docs \in [Backend -> [Run -> Doc \cup {NoDoc}]]
    /\ keptOn \in [Run -> Backend \cup {None, NoDoc}]
    /\ \A t \in Thread : busy[t] = None \/ busy[t].at \in {"find", "mutate", "write"}
    /\ lock \in [Process -> Thread \cup {None}]
    /\ up \in BOOLEAN
    /\ today \in 0..MaxDay /\ calls \in 0..MaxCalls /\ faults \in 0..MaxCrash
    /\ acked \in [Backend -> [Run -> SUBSET Item]]

Entries(doc) == ToSet(doc.guardrails) \cup doc.data

\* A run has its document for as long as the backend it was begun on lives, and every item
\* whose append or set_data returned there is in it, once, however the threads' and processes'
\* reads and writes interleave: "Concurrent writers do not lose writes" (state.py:31-34).
\* Calls on a backend that the run was not begun on are DurabilityNeverSilent's matter.
NothingLost ==
    \A b \in Backend, r \in Run : keptOn[r] = b =>
        /\ docs[b][r] # NoDoc
        /\ acked[b][r] \subseteq Entries(docs[b][r])
        /\ Cardinality(ToSet(docs[b][r].guardrails)) = Len(docs[b][r].guardrails)

\* In every step: the remote documents keep the promise of a journal, also through crashes and
\* outages (state.py:31-34).
Recorded == [r \in Run |->
    IF docs[Remote][r] = NoDoc THEN NoDoc ELSE Entries(docs[Remote][r])]
Journal == INSTANCE RunJournal WITH Entry <- Item, Unopened <- NoDoc, journal <- Recorded
KeepsJournal == [Journal!Next]_Recorded
JournalKept == [][KeepsJournal]_vars

\* The store said that it keeps nothing for long: its app opted into that, or was told.
Told(p) == store[p] # None /\ (store[p].optIn \/ store[p].degraded)

Forgets(b, r) ==
    docs[b][r] # NoDoc /\ (docs'[b][r] = NoDoc \/ ~(Entries(docs[b][r]) \subseteq Entries(docs'[b][r])))

\* The call of t returns, and what it was to record is nowhere.
Drops(t) ==
    /\ busy[t] # None /\ busy[t].at # "find" /\ busy[t].m.op \in {"append", "set_data"}
    /\ LET m == busy[t].m
       IN  /\ m.item \in acked'[At(t)][m.run] \ acked[At(t)][m.run]
           /\ docs'[At(t)][m.run] = NoDoc \/ m.item \notin Entries(docs'[At(t)][m.run])

\* In every step: "Durability is never silent" (state.py:25-29).  An entry disappears only from
\* a store that said it was not durable; and a call that returns without having recorded
\* anything (state.py:93-94, 156-157, 274-275 raise nothing) was about a run that was not
\* begun here, and was made on such a store, or on the durable one about a run begun in memory.
ForgetsAsTold ==
    /\ \A b \in Backend, r \in Run : Forgets(b, r) => b # Remote /\ ~Durable(b) /\ Told(b)
    /\ \A t \in Thread : Drops(t) =>
           /\ keptOn[busy[t].m.run] # At(t)
           /\ At(t) # Remote => Told(HomeOf[t])
DurabilityNeverSilent == [][ForgetsAsTold]_vars

\* In every step: a run that records its signature names other runs of that signature only; and if
\* one of them had recorded it before this detection began, is still in the window
\* and the backend answered, it names at least one: "if the same signature was seen
\* within `window_days`, return a recurrence record" (state.py:326-327).
NoticesRecurrence ==
    \A t \in Thread :
        busy[t] # None /\ busy[t].at # "find" /\ busy[t].m.op = "signature"
                /\ busy'[t] = None /\ docs' # docs
            => LET b == At(t)
                   m == busy[t].m
                   told == docs'[b][m.run].recurrence
               IN  /\ told \subseteq Bearers(t, m.run, m.signature)
                   /\ (\E q \in m.known : today <= docs[b][q].started + WindowDays)
                          => told # {}
=============================================================================
