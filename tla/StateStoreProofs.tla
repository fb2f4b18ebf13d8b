-------------------------- MODULE StateStoreProofs --------------------------
(***************************************************************************)
(* Proofs, for any processes, threads, runs and number of calls, crashes    *)
(* and outages, that the run journal loses no recorded entry, that the      *)
(* remote documents implement the abstract journal, and that entries are    *)
(* forgotten only where somebody was told.                                  *)
(***************************************************************************)
EXTENDS StateStore, SequenceTheorems, FiniteSetTheorems, TLAPS

\* The calls a thread can be in.
Mutation == [op : {"append", "set_data", "update"}, run : Run, item : Item]
Recording == [op : {"signature"}, run : Run, signature : Signature,
              known : SUBSET Run, recurrence : SUBSET Run]
Finding == [at : {"find"}, run : Run, signature : Signature, known : SUBSET Run]
Mutating == [at : {"mutate"}, m : Mutation \cup Recording]
Writing == [at : {"write"}, m : Mutation \cup Recording, doc : Doc]
InCall == Finding \cup Mutating \cup Writing

Target(c) == IF c.at = "find" THEN c.run ELSE c.m.run
Writes(t) == busy[t] # None /\ busy[t].at = "write"
Pending(t) == busy[t] # None /\ busy[t].at # "find" /\ busy[t].m.op # "signature"

\* A call is on a run that was begun, by a store that is there; a writer found the document.
CallsInUse ==
    /\ busy \in [Thread -> InCall \cup {None}]
    /\ \A t \in Thread : busy[t] # None =>
           /\ store[HomeOf[t]] # None
           /\ HandedOut(Target(busy[t]))
           /\ Writes(t) => At(t) = Remote /\ docs[Remote][Target(busy[t])] # NoDoc

\* A run's document is where the run was begun, and nowhere else.
KeptWhereBegun ==
    \A r \in Run :
        /\ keptOn[r] \in Backend => docs[keptOn[r]][r] # NoDoc
        /\ \A b \in Backend : docs[b][r] # NoDoc => keptOn[r] = b

\* No item is recorded before its call, and no two calls write the same one.
ItemsAreOwn ==
    /\ \A b \in Backend, r \in Run : docs[b][r] # NoDoc => Entries(docs[b][r]) \subseteq 1..calls
    /\ \A t \in Thread : Pending(t) =>
           /\ busy[t].m.item \in 1..calls
           /\ \A b \in Backend, r \in Run :
                  docs[b][r] # NoDoc => busy[t].m.item \notin Entries(docs[b][r])
           /\ \A u \in Thread \ {t} : Pending(u) => busy[u].m.item # busy[t].m.item

\* Without `mutate`, what a writer read is still what the document holds.
WritesAreCurrent ==
    ~HasMutate => \A t \in Thread : Writes(t) =>
        /\ busy[t].doc = docs[Remote][busy[t].m.run]
        /\ lock[HomeOf[t]] = t

IsOnce(s) == \A i, j \in 1..Len(s) : s[i] = s[j] => i = j

\* What was acknowledged where the document is, is recorded, and recorded once; of a run that
\* was not begun nothing was.
Kept(doc, items) == doc # NoDoc => items \subseteq Entries(doc) /\ IsOnce(doc.guardrails)

AcksAreKept ==
    \A b \in Backend, r \in Run :
        Kept(docs[b][r], acked[b][r]) /\ (keptOn[r] = None => acked[b][r] = {})

\* Only a store in memory keeps documents of its own, and it says so.
MemoryIsTold ==
    \A p \in Process :
        /\ store[p] # None /\ store[p].kind = "memory" => store[p].optIn \/ store[p].degraded
        /\ \A r \in Run : docs[p][r] # NoDoc => store[p] # None /\ store[p].kind = "memory"

StoreInv ==
    /\ TypeOK /\ CallsInUse /\ KeptWhereBegun /\ ItemsAreOwn /\ WritesAreCurrent
    /\ AcksAreKept /\ MemoryIsTold

-----------------------------------------------------------------------------
\* Where a thread's documents are.
LEMMA Homes ==
    ASSUME StoreAssumption, NEW t \in Thread
    PROVE  /\ HomeOf[t] \in Process /\ HomeOf[t] # Remote
           /\ At(t) \in Backend
           /\ At(t) # Remote => At(t) = HomeOf[t] /\ ~Durable(HomeOf[t])
           /\ At(t) = Remote => Durable(HomeOf[t])
BY DEF StoreAssumption, At, Home, Backend

\* An appended item is one more entry, and repeats none.
LEMMA AppendRecords ==
    ASSUME NEW s \in Seq(Item), NEW v \in Item, NEW t, t = Append(s, v)
    PROVE  /\ t \in Seq(Item)
           /\ ToSet(t) = ToSet(s) \cup {v}
           /\ IsOnce(s) /\ v \notin ToSet(s) => IsOnce(t)
<1>1. /\ t \in Seq(Item)
      /\ Len(t) = Len(s) + 1
      /\ \A i \in 1..Len(s) : t[i] = s[i]
      /\ t[Len(s) + 1] = v
  BY AppendProperties
<1>2. Len(s) \in Nat /\ DOMAIN s = 1..Len(s) /\ DOMAIN t = 1..(Len(s) + 1)
  BY <1>1, LenProperties
<1>3. ToSet(t) = ToSet(s) \cup {v}
  BY <1>1, <1>2 DEF ToSet
<1>4. ASSUME IsOnce(s), v \notin ToSet(s)
      PROVE  IsOnce(t)
  <2>1. \A i \in 1..Len(s) : s[i] # v
    BY <1>2, <1>4 DEF ToSet
  <2> SUFFICES ASSUME NEW i \in 1..Len(t), NEW j \in 1..Len(t), t[i] = t[j]
               PROVE  i = j
    BY DEF IsOnce
  <2> QED BY <2>1, <1>1, <1>2, <1>4 DEF IsOnce
<1> QED BY <1>1, <1>3, <1>4

\* What a mutation makes of a document.
LEMMA EffectRecords ==
    ASSUME StoreAssumption, NEW doc \in Doc, NEW m \in Mutation \cup Recording,
           NEW e, e = Effect(doc, m)
    PROVE  /\ e \in Doc /\ e # NoDoc
           /\ Entries(e) = IF m.op \in {"append", "set_data"}
                           THEN Entries(doc) \cup {m.item} ELSE Entries(doc)
           /\ IsOnce(doc.guardrails) /\ (m.op # "signature" => m.item \notin Entries(doc))
                  => IsOnce(e.guardrails)
<1>1. NoDoc \notin Doc
  BY DEF StoreAssumption
<1>2. CASE m.op = "append"
  <2>1. m.item \in Item /\ doc.guardrails \in Seq(Item)
    BY <1>2 DEF Mutation, Recording, Doc
  <2>2. e = [doc EXCEPT !.guardrails = Append(doc.guardrails, m.item)]
    BY <1>2 DEF Effect
  <2>3. PICK t : t = Append(doc.guardrails, m.item)
    OBVIOUS
  <2>4. /\ t \in Seq(Item)
        /\ ToSet(t) = ToSet(doc.guardrails) \cup {m.item}
        /\ IsOnce(doc.guardrails) /\ m.item \notin ToSet(doc.guardrails) => IsOnce(t)
    BY <2>1, <2>3, AppendRecords
  <2>5. e \in Doc /\ e.guardrails = t /\ e.data = doc.data
    BY <2>2, <2>3, <2>4 DEF Doc
  <2> QED BY <2>4, <2>5, <1>1, <1>2 DEF Entries
<1>3. CASE m.op = "set_data"
  <2>1. m.item \in Item
    BY <1>3 DEF Mutation, Recording
  <2>2. e = [doc EXCEPT !.data = doc.data \cup {m.item}]
    BY <1>3 DEF Effect
  <2>3. e \in Doc /\ e.guardrails = doc.guardrails /\ e.data = doc.data \cup {m.item}
    BY <2>1, <2>2 DEF Doc
  <2> QED BY <2>3, <1>1, <1>3 DEF Entries
<1>4. CASE m.op = "update"
  <2>1. m.item \in Item
    BY <1>4 DEF Mutation, Recording
  <2>2. e = [doc EXCEPT !.status = m.item]
    BY <1>4 DEF Effect
  <2>3. e \in Doc /\ e.guardrails = doc.guardrails /\ e.data = doc.data
    BY <2>1, <2>2 DEF Doc
  <2> QED BY <2>3, <1>1, <1>4 DEF Entries
<1>5. CASE m.op = "signature"
  <2>1. m.signature \in Signature /\ m.recurrence \in SUBSET Run
    BY <1>5 DEF Mutation, Recording
  <2>2. e = [doc EXCEPT !.signature = m.signature, !.recurrence = m.recurrence]
    BY <1>5 DEF Effect
  <2>3. e \in Doc /\ e.guardrails = doc.guardrails /\ e.data = doc.data
    BY <2>1, <2>2 DEF Doc
  <2> QED BY <2>3, <1>1, <1>5 DEF Entries
<1> QED BY <1>2, <1>3, <1>4, <1>5 DEF Mutation, Recording

LEMMA InitStore == ASSUME StoreAssumption, Init PROVE StoreInv
<1>1. TypeOK
  BY DEF StoreAssumption, Init, TypeOK
<1>2. CallsInUse /\ KeptWhereBegun /\ ItemsAreOwn /\ WritesAreCurrent
  BY DEF Init, CallsInUse, KeptWhereBegun, ItemsAreOwn, WritesAreCurrent, Pending, Writes,
         StoreAssumption
<1>3. AcksAreKept
  BY DEF Init, AcksAreKept, Kept
<1>4. MemoryIsTold
  BY DEF Init, MemoryIsTold, Backend
<1> QED BY <1>1, <1>2, <1>3, <1>4 DEF StoreInv

-----------------------------------------------------------------------------
(* The steps, by what they do to the calls and the documents. *)

\* A thread's call moves on, or is given up, without a trace in the documents.
Moves(t, c) ==
    /\ busy[t] # None /\ c \in InCall \cup {None}
    /\ busy' = [busy EXCEPT ![t] = c]
    /\ c # None =>
           /\ Target(c) = Target(busy[t])
           /\ c.at = "write" => At(t) = Remote
           /\ c.at # "find" /\ c.m.op # "signature" => Pending(t) /\ c.m.item = busy[t].m.item
    /\ lock' \in [Process -> Thread \cup {None}]
    /\ c # None /\ c.at = "write" => docs[Remote][Target(c)] # NoDoc
    /\ UNCHANGED <<store, docs, keptOn, up, today, calls, faults, acked>>

\* A thread enters a call; what the call writes carries its number.
Enters(t, c) ==
    /\ store[HomeOf[t]] # None /\ busy[t] = None
    /\ c \in InCall /\ c.at # "write" /\ HandedOut(Target(c))
    /\ c.at = "mutate" => c.m.item = calls + 1
    /\ busy' = [busy EXCEPT ![t] = c]
    /\ calls' = calls + 1 /\ calls' \in 0..MaxCalls
    /\ UNCHANGED <<store, docs, keptOn, lock, up, today, faults, acked>>

\* A thread's mutation takes effect on the document as it is, and returns.
Applies(t) ==
    /\ busy[t] # None /\ busy[t].at # "find" /\ Exists(t, busy[t].m.run)
    /\ docs' = [docs EXCEPT ![At(t)][busy[t].m.run] = Effect(docs[At(t)][busy[t].m.run], busy[t].m)]
    /\ Return(t, busy[t].m)
    /\ ~HasMutate => \A u \in Thread \ {t} : ~Writes(u)
    /\ lock' \in [Process -> Thread \cup {None}]
    /\ UNCHANGED <<store, keptOn, up, today, calls, faults>>

\* Nothing but the clocks and the backend's reach changes.
Rests ==
    /\ up' \in BOOLEAN /\ today' \in 0..MaxDay /\ faults' \in 0..MaxCrash
    /\ UNCHANGED <<store, docs, keptOn, busy, lock, calls, acked>>

LEMMA MovesType ==
    ASSUME StoreAssumption, StoreInv, NEW t \in Thread, NEW c, Moves(t, c)
    PROVE  /\ TypeOK' /\ CallsInUse' /\ KeptWhereBegun' /\ ItemsAreOwn'
           /\ AcksAreKept' /\ MemoryIsTold'
<1>1. KeptWhereBegun' /\ AcksAreKept' /\ MemoryIsTold'
  BY DEF StoreInv, Moves, KeptWhereBegun, AcksAreKept, MemoryIsTold
<1>2. /\ busy \in [Thread -> InCall \cup {None}]
      /\ busy' \in [Thread -> InCall \cup {None}]
      /\ busy'[t] = c
      /\ \A u \in Thread \ {t} : busy'[u] = busy[u]
  BY DEF StoreInv, CallsInUse, Moves
<1>3. \A u \in Thread : At(u)' = At(u)
  BY DEF Moves, At, Home, Durable
<1>4. TypeOK'
  <2>1. \A u \in Thread : busy'[u] = None \/ busy'[u].at \in {"find", "mutate", "write"}
    BY <1>2 DEF InCall, Finding, Mutating, Writing
  <2> QED BY <2>1 DEF StoreInv, TypeOK, Moves
<1>5. CallsInUse'
  <2>1. ASSUME NEW u \in Thread, busy'[u] # None
        PROVE  /\ store'[HomeOf[u]] # None
               /\ keptOn'[Target(busy'[u])] # None
               /\ Writes(u)' => At(u)' = Remote /\ docs'[Remote][Target(busy'[u])] # NoDoc
    <3>1. CASE u = t
      BY <1>2, <1>3, <2>1, <3>1 DEF StoreInv, CallsInUse, Moves, Writes, HandedOut
    <3>2. CASE u # t
      BY <1>2, <1>3, <2>1, <3>2 DEF StoreInv, CallsInUse, Moves, Writes, HandedOut
    <3> QED BY <3>1, <3>2
  <2> QED BY <1>2, <2>1 DEF CallsInUse, Target, HandedOut
<1>6. ItemsAreOwn'
  <2>1. \A u \in Thread : Pending(u)' => Pending(u) /\ busy'[u].m.item = busy[u].m.item
    BY <1>2 DEF Pending, Moves
  <2> QED BY <2>1 DEF StoreInv, ItemsAreOwn, Moves
<1> QED BY <1>1, <1>4, <1>5, <1>6

LEMMA EntersKeeps ==
    ASSUME StoreAssumption, StoreInv, NEW t \in Thread, NEW c, Enters(t, c)
    PROVE  StoreInv'
<1>1. KeptWhereBegun' /\ AcksAreKept' /\ MemoryIsTold'
  BY DEF StoreInv, Enters, KeptWhereBegun, AcksAreKept, MemoryIsTold
<1>2. /\ busy \in [Thread -> InCall \cup {None}]
      /\ busy' \in [Thread -> InCall \cup {None}]
      /\ busy'[t] = c
      /\ \A u \in Thread \ {t} : busy'[u] = busy[u]
  BY DEF StoreInv, CallsInUse, Enters
<1>3. \A u \in Thread : At(u)' = At(u)
  BY DEF Enters, At, Home, Durable
<1>4. c.at \in {"find", "mutate"}
  BY DEF Enters, InCall, Finding, Mutating, Writing
<1>5. TypeOK'
  <2>1. \A u \in Thread : busy'[u] = None \/ busy'[u].at \in {"find", "mutate", "write"}
    BY <1>2 DEF InCall, Finding, Mutating, Writing
  <2> QED BY <2>1 DEF StoreInv, TypeOK, Enters
<1>6. CallsInUse'
  <2>1. ASSUME NEW u \in Thread, busy'[u] # None
        PROVE  /\ store'[HomeOf[u]] # None
               /\ keptOn'[Target(busy'[u])] # None
               /\ Writes(u)' => At(u)' = Remote /\ docs'[Remote][Target(busy'[u])] # NoDoc
    <3>1. CASE u = t
      BY <1>2, <1>3, <1>4, <2>1, <3>1 DEF Enters, Writes, HandedOut
    <3>2. CASE u # t
      BY <1>2, <1>3, <2>1, <3>2 DEF StoreInv, CallsInUse, Enters, Writes, HandedOut
    <3> QED BY <3>1, <3>2
  <2> QED BY <1>2, <2>1 DEF CallsInUse, Target, HandedOut
<1>7. ItemsAreOwn'
  <2>1. calls \in Nat /\ calls' = calls + 1 /\ docs' = docs
    BY DEF StoreInv, TypeOK, Enters
  <2>2. \A b \in Backend, r \in Run : docs[b][r] # NoDoc =>
            Entries(docs[b][r]) \subseteq 1..calls
    BY DEF StoreInv, ItemsAreOwn
  <2>3. \A u \in Thread \ {t} :
            (Pending(u)' => Pending(u)) /\ busy'[u] = busy[u]
    BY <1>2 DEF Pending
  <2>4. Pending(t)' => busy'[t].m.item = calls + 1
    BY <1>2, <1>4 DEF Pending, Enters
  <2>5. \A u \in Thread \ {t} : Pending(u)' =>
            /\ busy'[u].m.item \in 1..calls
            /\ \A b \in Backend, r \in Run :
                   docs[b][r] # NoDoc => busy'[u].m.item \notin Entries(docs[b][r])
            /\ \A v \in Thread \ {u, t} : Pending(v)' => busy'[v].m.item # busy'[u].m.item
    BY <2>3 DEF StoreInv, ItemsAreOwn
  <2>6. ASSUME NEW u \in Thread, Pending(u)'
        PROVE  /\ busy'[u].m.item \in 1..calls'
               /\ \A b \in Backend, r \in Run :
                      docs[b][r] # NoDoc => busy'[u].m.item \notin Entries(docs[b][r])
               /\ \A v \in Thread \ {u} : Pending(v)' => busy'[v].m.item # busy'[u].m.item
    <3>1. CASE u = t
      BY <2>1, <2>2, <2>4, <2>5, <2>6, <3>1
    <3>2. CASE u # t
      BY <2>1, <2>4, <2>5, <2>6, <3>2
    <3> QED BY <3>1, <3>2
  <2>7. \A b \in Backend, r \in Run : docs'[b][r] # NoDoc =>
            Entries(docs'[b][r]) \subseteq 1..calls'
    BY <2>1, <2>2
  <2> QED BY <2>1, <2>6, <2>7 DEF ItemsAreOwn, Entries
<1>8. WritesAreCurrent'
  <2>1. \A u \in Thread : Writes(u)' => u # t /\ Writes(u)
    BY <1>2, <1>4 DEF Writes
  <2> QED BY <1>2, <2>1 DEF StoreInv, WritesAreCurrent, Enters
<1> QED BY <1>1, <1>5, <1>6, <1>7, <1>8 DEF StoreInv

\* What an effective mutation leaves in the documents, one by one.
LEMMA AppliesDocs ==
    ASSUME StoreAssumption, StoreInv, NEW t \in Thread, Applies(t),
           NEW m, m = busy[t].m, NEW a, a = At(t)
    PROVE  /\ m \in Mutation \cup Recording /\ m.run \in Run /\ a \in Backend
           /\ docs[a][m.run] \in Doc /\ docs[a][m.run] # NoDoc
           /\ docs' \in [Backend -> [Run -> Doc \cup {NoDoc}]]
           /\ docs'[a][m.run] = Effect(docs[a][m.run], m)
           /\ \A b \in Backend, r \in Run : b # a \/ r # m.run => docs'[b][r] = docs[b][r]
<1>1. busy[t] \in InCall /\ busy[t].at # "find"
  BY DEF StoreInv, CallsInUse, Applies
<1>2. m \in Mutation \cup Recording
  BY <1>1 DEF InCall, Finding, Mutating, Writing
<1>3. m.run \in Run
  BY <1>2 DEF Mutation, Recording
<1>4. a \in Backend
  BY Homes
<1>5. docs[a][m.run] # NoDoc
  BY <1>1 DEF Applies, Exists
<1>6. docs \in [Backend -> [Run -> Doc \cup {NoDoc}]]
  BY DEF StoreInv, TypeOK
<1>7. docs[a][m.run] \in Doc
  BY <1>3, <1>4, <1>5, <1>6
<1>8. PICK e : e = Effect(docs[a][m.run], m)
  OBVIOUS
<1>9. e \in Doc
  BY <1>2, <1>7, <1>8, EffectRecords
<1>10. docs' = [docs EXCEPT ![a][m.run] = e]
  BY <1>8 DEF Applies
<1>11. /\ docs' \in [Backend -> [Run -> Doc \cup {NoDoc}]]
       /\ docs'[a][m.run] = e
       /\ \A b \in Backend, r \in Run : b # a \/ r # m.run => docs'[b][r] = docs[b][r]
  BY <1>3, <1>4, <1>6, <1>9, <1>10
<1> QED BY <1>2, <1>3, <1>4, <1>5, <1>7, <1>8, <1>11

LEMMA AppliesKeeps ==
    ASSUME StoreAssumption, StoreInv, NEW t \in Thread, Applies(t)
    PROVE  StoreInv'
<1>1. PICK m, a : m = busy[t].m /\ a = At(t)
  OBVIOUS
<1>2. /\ m \in Mutation \cup Recording /\ m.run \in Run /\ a \in Backend
      /\ docs[a][m.run] \in Doc /\ docs[a][m.run] # NoDoc
      /\ docs' \in [Backend -> [Run -> Doc \cup {NoDoc}]]
      /\ docs'[a][m.run] = Effect(docs[a][m.run], m)
      /\ \A b \in Backend, r \in Run : b # a \/ r # m.run => docs'[b][r] = docs[b][r]
  BY <1>1, AppliesDocs
<1>3. PICK e : e = docs'[a][m.run]
  OBVIOUS
<1>4. /\ e \in Doc /\ e # NoDoc
      /\ Entries(e) = IF m.op \in {"append", "set_data"}
                      THEN Entries(docs[a][m.run]) \cup {m.item} ELSE Entries(docs[a][m.run])
      /\ IsOnce(docs[a][m.run].guardrails)
         /\ (m.op # "signature" => m.item \notin Entries(docs[a][m.run])) => IsOnce(e.guardrails)
  <2>1. PICK d : d = docs[a][m.run]
    OBVIOUS
  <2>2. d \in Doc /\ e = Effect(d, m)
    BY <1>2, <1>3, <2>1
  <2>3. /\ e \in Doc /\ e # NoDoc
        /\ Entries(e) = IF m.op \in {"append", "set_data"}
                        THEN Entries(d) \cup {m.item} ELSE Entries(d)
        /\ IsOnce(d.guardrails) /\ (m.op # "signature" => m.item \notin Entries(d))
               => IsOnce(e.guardrails)
    BY <1>2, <2>2, EffectRecords
  <2> QED BY <2>1, <2>3
<1>5. /\ busy \in [Thread -> InCall \cup {None}]
      /\ busy' \in [Thread -> InCall \cup {None}]
      /\ busy'[t] = None
      /\ \A u \in Thread \ {t} : busy'[u] = busy[u]
  BY DEF StoreInv, CallsInUse, Applies, Return
<1>6. \A u \in Thread : At(u)' = At(u)
  BY DEF Applies, At, Home, Durable
<1>7. \A b \in Backend, r \in Run : docs'[b][r] # NoDoc <=> docs[b][r] # NoDoc
  BY <1>2, <1>3, <1>4
<1>8. m.op # "signature" => Pending(t) /\ m.item \in Item
  BY <1>1, <1>2 DEF Pending, Applies, Mutation, Recording
<1>9. \A b \in Backend, r \in Run : docs[b][r] # NoDoc => Entries(docs[b][r]) \subseteq 1..calls
  BY DEF StoreInv, ItemsAreOwn
<1>10. m.op # "signature" => m.item \in 1..calls /\ m.item \notin Entries(docs[a][m.run])
  BY <1>1, <1>2, <1>8 DEF StoreInv, ItemsAreOwn
<1>11. \A b \in Backend, r \in Run : docs[b][r] # NoDoc =>
          \/ Entries(docs'[b][r]) = Entries(docs[b][r])
          \/ m.op # "signature" /\ Entries(docs'[b][r]) = Entries(docs[b][r]) \cup {m.item}
  <2>1. \A b \in Backend, r \in Run : (b = a /\ r = m.run) \/ docs'[b][r] = docs[b][r]
    BY <1>2
  <2>2. \/ Entries(docs'[a][m.run]) = Entries(docs[a][m.run])
        \/ m.op # "signature" /\ Entries(docs'[a][m.run]) = Entries(docs[a][m.run]) \cup {m.item}
    BY <1>3, <1>4
  <2> QED BY <2>1, <2>2
<1>12. TypeOK'
  <2>1. \A u \in Thread : busy'[u] = None \/ busy'[u].at \in {"find", "mutate", "write"}
    BY <1>5 DEF InCall, Finding, Mutating, Writing
  <2>2. acked' \in [Backend -> [Run -> SUBSET Item]]
    <3>1. CASE m.op \in {"append", "set_data"}
      <4>1. acked' = [acked EXCEPT ![a][m.run] = acked[a][m.run] \cup {m.item}] /\ m.item \in Item
        BY <1>1, <1>8, <3>1 DEF Applies, Return
      <4> QED BY <1>2, <4>1 DEF StoreInv, TypeOK
    <3>2. CASE m.op \notin {"append", "set_data"}
      BY <1>1, <3>2 DEF Applies, Return, StoreInv, TypeOK
    <3> QED BY <3>1, <3>2
  <2> QED BY <1>2, <2>1, <2>2 DEF StoreInv, TypeOK, Applies
<1>13. CallsInUse'
  <2>1. ASSUME NEW u \in Thread, busy'[u] # None
        PROVE  /\ store'[HomeOf[u]] # None
               /\ keptOn'[Target(busy'[u])] # None
               /\ Writes(u)' => At(u)' = Remote /\ docs'[Remote][Target(busy'[u])] # NoDoc
    <3>1. u # t /\ busy'[u] = busy[u] /\ busy[u] # None /\ busy[u] \in InCall
      BY <1>5, <2>1
    <3>2. Target(busy[u]) \in Run /\ Remote \in Backend
      BY <3>1 DEF InCall, Finding, Mutating, Writing, Mutation, Recording, Target, Backend
    <3>3. keptOn[Target(busy[u])] # None /\ store[HomeOf[u]] # None
      BY <3>1 DEF StoreInv, CallsInUse, HandedOut
    <3>4. Writes(u)' => At(u) = Remote /\ docs[Remote][Target(busy[u])] # NoDoc
      BY <3>1 DEF StoreInv, CallsInUse, Writes
    <3>5. Writes(u)' => docs'[Remote][Target(busy[u])] # NoDoc
      BY <1>7, <3>2, <3>4
    <3> QED BY <1>6, <3>1, <3>3, <3>4, <3>5 DEF Applies
  <2> QED BY <1>5, <2>1 DEF CallsInUse, Target, HandedOut
<1>14. ItemsAreOwn'
  <2>1. calls' = calls
    BY DEF Applies
  <2>2. \A b \in Backend, r \in Run : docs'[b][r] # NoDoc =>
            Entries(docs'[b][r]) \subseteq 1..calls'
    BY <2>1, <1>7, <1>9, <1>10, <1>11
  <2>3. ASSUME NEW u \in Thread, Pending(u)'
        PROVE  /\ busy'[u].m.item \in 1..calls'
               /\ \A b \in Backend, r \in Run :
                      docs'[b][r] # NoDoc => busy'[u].m.item \notin Entries(docs'[b][r])
               /\ \A v \in Thread \ {u} : Pending(v)' => busy'[v].m.item # busy'[u].m.item
    <3>1. u # t /\ busy'[u] = busy[u] /\ Pending(u)
      BY <1>5, <2>3 DEF Pending
    <3>2. /\ busy[u].m.item \in 1..calls
          /\ \A b \in Backend, r \in Run :
                 docs[b][r] # NoDoc => busy[u].m.item \notin Entries(docs[b][r])
          /\ \A v \in Thread \ {u} : Pending(v) => busy[v].m.item # busy[u].m.item
      BY <3>1 DEF StoreInv, ItemsAreOwn
    <3>3. m.op # "signature" => m.item # busy[u].m.item
      BY <1>1, <1>8, <3>1, <3>2
    <3>4. \A v \in Thread : Pending(v)' => Pending(v) /\ busy'[v] = busy[v]
      BY <1>5 DEF Pending
    <3> QED BY <2>1, <3>1, <3>2, <3>3, <3>4, <1>7, <1>11
  <2> QED BY <2>2, <2>3 DEF ItemsAreOwn, Entries
<1>15. WritesAreCurrent'
  BY <1>5 DEF WritesAreCurrent, Writes, Applies
<1>16. AcksAreKept'
  <2>0. keptOn[m.run] # None
    BY <1>1 DEF StoreInv, CallsInUse, Applies, Target, HandedOut
  <2>1. SUFFICES ASSUME NEW b \in Backend, NEW r \in Run
                 PROVE  Kept(docs'[b][r], acked'[b][r]) /\ (keptOn[r] = None => acked'[b][r] = {})
    BY DEF AcksAreKept, Kept, Entries, IsOnce, Applies
  <2>2. Kept(docs[b][r], acked[b][r]) /\ (keptOn[r] = None => acked[b][r] = {})
    BY DEF StoreInv, AcksAreKept
  <2>3. CASE b = a /\ r = m.run
    <3>1. /\ acked[a][m.run] \subseteq Entries(docs[a][m.run])
          /\ IsOnce(docs[a][m.run].guardrails)
      BY <1>2, <2>2, <2>3 DEF Kept
    <3>2. acked'[a][m.run] = IF m.op \in {"append", "set_data"}
                             THEN acked[a][m.run] \cup {m.item} ELSE acked[a][m.run]
      BY <1>1, <1>2, ZenonT(60) DEF Applies, Return, StoreInv, TypeOK
    <3>3. IsOnce(e.guardrails)
      BY <1>4, <1>10, <3>1
    <3> QED BY <1>3, <1>4, <2>0, <2>3, <3>1, <3>2, <3>3 DEF Kept
  <2>4. CASE b # a \/ r # m.run
    <3>1. docs'[b][r] = docs[b][r]
      BY <1>2, <2>4
    <3>2. acked'[b][r] = acked[b][r]
      BY <1>1, <1>2, <2>4 DEF Applies, Return, StoreInv, TypeOK
    <3> QED BY <2>2, <3>1, <3>2
  <2> QED BY <2>3, <2>4
<1>17. MemoryIsTold' /\ KeptWhereBegun'
  BY <1>7 DEF StoreInv, MemoryIsTold, KeptWhereBegun, Applies, Backend
<1> QED BY <1>12, <1>13, <1>14, <1>15, <1>16, <1>17 DEF StoreInv

\* A call that found no document returns, and leaves what it was to record nowhere.
LEMMA MissKeeps ==
    ASSUME StoreAssumption, StoreInv, NEW t \in Thread, Miss(t)
    PROVE  StoreInv'
<1>1. PICK m, a : m = busy[t].m /\ a = At(t)
  OBVIOUS
<1>2. busy[t] \in Mutating /\ m \in Mutation \cup Recording /\ Target(busy[t]) = m.run
  BY <1>1 DEF StoreInv, CallsInUse, Miss, InCall, Finding, Mutating, Writing, Target
<1>3. m.run \in Run /\ a \in Backend /\ docs[a][m.run] = NoDoc /\ keptOn[m.run] # None
  BY <1>1, <1>2, Homes DEF Mutation, Recording, Miss, Exists, StoreInv, CallsInUse, HandedOut
<1>4. m.op \in {"append", "set_data"} => m.item \in Item
  BY <1>2 DEF Mutation, Recording
<1>5. /\ busy' = [busy EXCEPT ![t] = None]
      /\ acked' = IF m.op \in {"append", "set_data"}
                  THEN [acked EXCEPT ![a][m.run] = acked[a][m.run] \cup {m.item}] ELSE acked
      /\ UNCHANGED <<store, docs, keptOn, lock, up, today, calls, faults>>
  BY <1>1 DEF Miss, Return
<1>6. /\ acked' \in [Backend -> [Run -> SUBSET Item]]
      /\ \A b \in Backend, r \in Run : b # a \/ r # m.run => acked'[b][r] = acked[b][r]
  BY <1>3, <1>4, <1>5 DEF StoreInv, TypeOK
<1>7. /\ busy' \in [Thread -> InCall \cup {None}]
      /\ \A u \in Thread : busy'[u] # None => busy'[u] = busy[u] /\ busy[u] # None
      /\ \A u \in Thread : At(u)' = At(u)
  BY <1>5 DEF StoreInv, CallsInUse, At, Home, Durable
<1>8. TypeOK'
  <2>1. \A u \in Thread : busy'[u] = None \/ busy'[u].at \in {"find", "mutate", "write"}
    BY <1>7 DEF StoreInv, TypeOK
  <2> QED BY <1>5, <1>6, <2>1 DEF StoreInv, TypeOK
<1>9. CallsInUse'
  <2>1. ASSUME NEW u \in Thread, busy'[u] # None
        PROVE  /\ store'[HomeOf[u]] # None
               /\ keptOn'[Target(busy'[u])] # None
               /\ Writes(u)' => At(u)' = Remote /\ docs'[Remote][Target(busy'[u])] # NoDoc
    BY <1>5, <1>7, <2>1 DEF StoreInv, CallsInUse, Writes, HandedOut
  <2> QED BY <1>7, <2>1 DEF CallsInUse, Target, HandedOut
<1>10. ItemsAreOwn' /\ WritesAreCurrent'
  <2>1. \A u \in Thread : /\ Pending(u)' => Pending(u) /\ busy'[u] = busy[u]
                          /\ Writes(u)' => Writes(u) /\ busy'[u] = busy[u]
    BY <1>7 DEF Pending, Writes
  <2> QED BY <1>5, <2>1 DEF StoreInv, ItemsAreOwn, WritesAreCurrent
<1>11. AcksAreKept'
  <2>1. ASSUME NEW b \in Backend, NEW r \in Run
        PROVE  Kept(docs[b][r], acked'[b][r]) /\ (keptOn[r] = None => acked'[b][r] = {})
    <3>1. CASE b = a /\ r = m.run
      BY <1>3, <3>1 DEF Kept
    <3>2. CASE b # a \/ r # m.run
      BY <1>6, <3>2 DEF StoreInv, AcksAreKept
    <3> QED BY <3>1, <3>2
  <2> QED BY <1>5, <2>1 DEF AcksAreKept, Kept, Entries, IsOnce
<1>12. MemoryIsTold' /\ KeptWhereBegun'
  BY <1>5 DEF StoreInv, MemoryIsTold, KeptWhereBegun
<1> QED BY <1>8, <1>9, <1>10, <1>11, <1>12 DEF StoreInv

-----------------------------------------------------------------------------
(* Each operation is a step of one of these kinds. *)

LEMMA MovesKeeps ==
    ASSUME StoreAssumption, StoreInv, NEW t \in Thread, NEW c, Moves(t, c), WritesAreCurrent'
    PROVE  StoreInv'
BY MovesType DEF StoreInv

LEMMA RestsKeeps == ASSUME StoreAssumption, StoreInv, Rests PROVE StoreInv'
<1>1. TypeOK'
  BY DEF StoreInv, TypeOK, Rests
<1>2. \A u \in Thread : At(u)' = At(u)
  BY DEF Rests, At, Home, Durable
<1>3. CallsInUse'
  BY <1>2 DEF StoreInv, CallsInUse, Rests, Writes, Target, HandedOut
<1>4. KeptWhereBegun' /\ ItemsAreOwn' /\ WritesAreCurrent' /\ AcksAreKept' /\ MemoryIsTold'
  BY DEF StoreInv, Rests, KeptWhereBegun, ItemsAreOwn, WritesAreCurrent, AcksAreKept, MemoryIsTold,
         Pending, Writes
<1> QED BY <1>1, <1>3, <1>4 DEF StoreInv

\* Without `mutate`, the writer that reads next to nobody is current.
LEMMA ReadMoves ==
    ASSUME StoreAssumption, OneWriter, StoreInv, NEW t \in Thread, ReadForMutation(t)
    PROVE  \E c : Moves(t, c) /\ WritesAreCurrent'
<1>1. PICK m : m = busy[t].m
  OBVIOUS
<1>2. PICK d : d = docs[Remote][m.run]
  OBVIOUS
<1>3. PICK c : c = [at |-> "write", m |-> m, doc |-> d]
  OBVIOUS
<1>4. busy' = [busy EXCEPT ![t] = c]
  BY <1>1, <1>2, <1>3 DEF ReadForMutation
<1>5. busy[t] \in Mutating /\ m \in Mutation \cup Recording
  BY <1>1 DEF StoreInv, CallsInUse, ReadForMutation, InCall, Finding, Mutating, Writing
<1>6. m.run \in Run /\ Target(busy[t]) = m.run
  BY <1>1, <1>5 DEF Mutation, Recording, Mutating, Target
<1>7. d \in Doc
  BY <1>1, <1>2, <1>6 DEF StoreInv, TypeOK, ReadForMutation, Exists, Backend
<1>8. c \in InCall /\ Target(c) = m.run /\ c.m = m /\ c.at = "write" /\ c.doc = d
  BY <1>3, <1>5, <1>7 DEF InCall, Writing, Target
<1>9. lock' \in [Process -> Thread \cup {None}]
  BY DEF ReadForMutation, StoreInv, TypeOK
<1>10. Moves(t, c)
  BY <1>1, <1>2, <1>4, <1>6, <1>7, <1>8, <1>9 DEF Moves, ReadForMutation, Pending, StoreAssumption
<1>11. ASSUME ~HasMutate, NEW u \in Thread, Writes(u)'
       PROVE  busy'[u].doc = docs[Remote][busy'[u].m.run] /\ lock'[HomeOf[u]] = u
  <2>1. /\ lock[HomeOf[t]] = None /\ None \notin Thread
        /\ lock' = [lock EXCEPT ![HomeOf[t]] = t] /\ HomeOf[t] = HomeOf[u]
    BY <1>11 DEF ReadForMutation, LockFree, OneWriter, StoreAssumption
  <2>2. CASE u = t
    BY <1>2, <1>4, <1>8, <2>1, <2>2, Homes DEF StoreInv, CallsInUse, TypeOK
  <2>3. CASE u # t
    <3>1. Writes(u)
      BY <1>4, <1>11, <2>3 DEF StoreInv, CallsInUse, Writes
    <3>2. lock[HomeOf[u]] = u
      BY <1>11, <3>1 DEF StoreInv, WritesAreCurrent
    <3> QED BY <2>1, <3>2
  <2> QED BY <2>2, <2>3
<1>12. WritesAreCurrent'
  BY <1>11 DEF WritesAreCurrent, ReadForMutation
<1> QED BY <1>10, <1>12

\* Whoever applies a mutation without `mutate` is the only writer.
LEMMA MemoryApplies ==
    ASSUME StoreAssumption, OneWriter, StoreInv, NEW t \in Thread, MutateInMemory(t)
    PROVE  Applies(t)
<1>1. ASSUME ~HasMutate, NEW u \in Thread, Writes(u)
      PROVE  FALSE
  <2>1. At(u) = Remote
    BY <1>1 DEF StoreInv, CallsInUse, Writes
  <2>2. At(u) = At(t)
    BY <1>1 DEF OneWriter, At
  <2> QED BY <2>1, <2>2 DEF MutateInMemory
<1>2. lock' \in [Process -> Thread \cup {None}]
  BY DEF MutateInMemory, StoreInv, TypeOK
<1> QED BY <1>1, <1>2 DEF MutateInMemory, Applies

\* A write lands on the document it was computed from, or starts again.
LEMMA WriteSteps ==
    ASSUME StoreAssumption, OneWriter, StoreInv, NEW t \in Thread, WriteBack(t)
    PROVE  Applies(t) \/ \E c : Moves(t, c) /\ WritesAreCurrent'
<1>1. PICK m : m = busy[t].m
  OBVIOUS
<1>2. busy[t] \in Writing /\ m \in Mutation \cup Recording /\ Writes(t) /\ At(t) = Remote
  BY <1>1 DEF StoreInv, CallsInUse, WriteBack, InCall, Finding, Mutating, Writing, Writes
<1>3. CASE Commits(busy[t].doc, m)
  <2>1. /\ docs' = [docs EXCEPT ![Remote][m.run] = Effect(busy[t].doc, m)]
        /\ Return(t, m)
        /\ lock' = IF HasMutate THEN lock ELSE [lock EXCEPT ![HomeOf[t]] = None]
        /\ UNCHANGED <<store, keptOn, up, today, calls, faults>>
    BY <1>1, <1>3 DEF WriteBack
  <2>2. busy[t].doc = docs[Remote][m.run]
    BY <1>1, <1>2, <1>3 DEF Commits, StoreInv, WritesAreCurrent
  <2>3. ASSUME ~HasMutate, NEW u \in Thread \ {t}, Writes(u)
        PROVE  FALSE
    <3>1. lock[HomeOf[t]] = t /\ lock[HomeOf[u]] = u
      BY <1>2, <2>3 DEF StoreInv, WritesAreCurrent
    <3> QED BY <2>3, <3>1 DEF OneWriter
  <2>4. lock' \in [Process -> Thread \cup {None}]
    BY <2>1 DEF StoreInv, TypeOK
  <2>5. docs' = [docs EXCEPT ![At(t)][m.run] = Effect(docs[At(t)][m.run], m)]
    BY <1>2, <2>1, <2>2
  <2>6. busy[t] # None /\ busy[t].at # "find" /\ Exists(t, busy[t].m.run)
    BY <1>1, <1>2 DEF WriteBack, Exists, StoreInv, CallsInUse, Target
  <2> QED BY <1>1, <2>1, <2>3, <2>4, <2>5, <2>6 DEF Applies
<1>4. CASE ~Commits(busy[t].doc, m)
  <2>1. PICK c : c = [at |-> "mutate", m |-> m]
    OBVIOUS
  <2>2. HasMutate /\ busy' = [busy EXCEPT ![t] = c]
        /\ UNCHANGED <<store, docs, keptOn, lock, up, today, calls, faults, acked>>
    BY <1>1, <1>4, <2>1 DEF WriteBack, Commits
  <2>3. c \in InCall /\ c.m = m /\ c.at = "mutate" /\ Target(c) = Target(busy[t])
    BY <1>1, <1>2, <2>1 DEF InCall, Mutating, Writing, Target
  <2>4. Moves(t, c)
    BY <1>1, <2>2, <2>3 DEF Moves, WriteBack, Pending, StoreInv, TypeOK
  <2>5. WritesAreCurrent'
    BY <2>2 DEF WritesAreCurrent, StoreAssumption
  <2> QED BY <2>4, <2>5
<1> QED BY <1>3, <1>4

LEMMA RaiseMoves ==
    ASSUME StoreAssumption, StoreInv, NEW t \in Thread, Raise(t)
    PROVE  \E c : Moves(t, c) /\ WritesAreCurrent'
<1>1. busy' = [busy EXCEPT ![t] = None] /\ docs' = docs
  BY DEF Raise
<1>2. lock' \in [Process -> Thread \cup {None}]
  BY DEF Raise, StoreInv, TypeOK
<1>3. Moves(t, None)
  BY <1>1, <1>2 DEF Moves, Raise
<1>4. ASSUME ~HasMutate, NEW u \in Thread, Writes(u)'
      PROVE  busy'[u].doc = docs[Remote][busy'[u].m.run] /\ lock'[HomeOf[u]] = u
  <2>1. u # t /\ Writes(u) /\ busy'[u] = busy[u]
    BY <1>1, <1>4 DEF StoreInv, CallsInUse, Writes
  <2>2. busy[u].doc = docs[Remote][busy[u].m.run] /\ lock[HomeOf[u]] = u
    BY <1>4, <2>1 DEF StoreInv, WritesAreCurrent
  <2>3. lock'[HomeOf[u]] = u
    BY <2>1, <2>2, Homes DEF Raise, StoreInv, TypeOK
  <2> QED BY <2>1, <2>2, <2>3
<1> QED BY <1>1, <1>3, <1>4 DEF WritesAreCurrent

LEMMA FindMoves ==
    ASSUME StoreAssumption, StoreInv, NEW t \in Thread, Find(t)
    PROVE  \E c : Moves(t, c) /\ WritesAreCurrent'
<1>1. busy[t] \in Finding
  BY DEF Find, StoreInv, CallsInUse, InCall, Finding, Mutating, Writing
<1>2. PICK r, s, k : r = busy[t].run /\ s = busy[t].signature /\ k = busy[t].known
  OBVIOUS
<1>3. r \in Run /\ s \in Signature /\ k \in SUBSET Run /\ Target(busy[t]) = r
  BY <1>1, <1>2 DEF Finding, Target
<1>4. PICK found \in (IF Reachable(t) THEN Found(t, r, s) ELSE {{}}) :
          busy' = [busy EXCEPT ![t] =
              [at |-> "mutate",
               m |-> [op |-> "signature", run |-> r, signature |-> s,
                      known |-> IF Reachable(t) THEN k ELSE {},
                      recurrence |-> {q \in found : InWindow(docs[At(t)][q].started)}]]]
  BY <1>2 DEF Find
<1>5. found \in SUBSET Run
  BY <1>4 DEF Found
<1>6. PICK w, x : w = (IF Reachable(t) THEN k ELSE {})
                  /\ x = {q \in found : InWindow(docs[At(t)][q].started)}
  OBVIOUS
<1>7. PICK m : m = [op |-> "signature", run |-> r, signature |-> s, known |-> w, recurrence |-> x]
  OBVIOUS
<1>8. m \in Recording /\ m.run = r /\ m.op = "signature"
  BY <1>3, <1>5, <1>6, <1>7 DEF Recording
<1>9. PICK c : c = [at |-> "mutate", m |-> m]
  OBVIOUS
<1>10. c \in InCall /\ c.m = m /\ c.at = "mutate" /\ Target(c) = Target(busy[t])
  BY <1>3, <1>8, <1>9 DEF InCall, Mutating, Target
<1>11. busy' = [busy EXCEPT ![t] = c]
  BY <1>4, <1>6, <1>7, <1>9
<1>12. Moves(t, c)
  BY <1>8, <1>10, <1>11 DEF Moves, Find, StoreInv, TypeOK
<1>13. \A u \in Thread : Writes(u)' => Writes(u) /\ busy'[u] = busy[u]
  BY <1>10, <1>11 DEF Writes, StoreInv, CallsInUse
<1>14. WritesAreCurrent'
  BY <1>13 DEF WritesAreCurrent, StoreInv, Find
<1> QED BY <1>12, <1>14

LEMMA CallEnters ==
    ASSUME StoreAssumption, StoreInv, NEW t \in Thread, NEW op \in Ops, NEW r \in Run, Call(t, op, r)
    PROVE  \E c : Enters(t, c)
<1>1. calls \in 0..MaxCalls /\ MaxCalls \in Nat /\ calls + 1 \in Item
      /\ op \in {"append", "set_data", "update"}
  BY DEF StoreInv, TypeOK, StoreAssumption, Call, Item
<1>2. PICK m : m = [op |-> op, run |-> r, item |-> calls + 1]
  OBVIOUS
<1>3. m \in Mutation /\ m.run = r /\ m.item = calls + 1
  BY <1>1, <1>2 DEF Mutation
<1>4. PICK c : c = [at |-> "mutate", m |-> m]
  OBVIOUS
<1>5. c \in InCall /\ c.at = "mutate" /\ c.m = m /\ Target(c) = r
  BY <1>3, <1>4 DEF InCall, Mutating, Target
<1>6. Enters(t, c)
  BY <1>1, <1>2, <1>3, <1>4, <1>5 DEF Call, Enters
<1> QED BY <1>6

LEMMA DetectEnters ==
    ASSUME StoreAssumption, StoreInv, NEW t \in Thread, NEW r \in Run, NEW s \in Signature,
           Detect(t, r, s)
    PROVE  \E c : Enters(t, c)
<1>1. calls \in 0..MaxCalls /\ MaxCalls \in Nat /\ calls < MaxCalls /\ calls' = calls + 1
  BY DEF StoreInv, TypeOK, StoreAssumption, Detect
<1>2. PICK k : k = Bearers(t, r, s)
  OBVIOUS
<1>3. PICK c : c = [at |-> "find", run |-> r, signature |-> s, known |-> k]
  OBVIOUS
<1>4. k \in SUBSET Run
  BY <1>2 DEF Bearers
<1>5. c \in InCall /\ c.at = "find" /\ Target(c) = r
  BY <1>3, <1>4 DEF InCall, Finding, Target
<1>6. Enters(t, c)
  BY <1>1, <1>2, <1>3, <1>5 DEF Detect, Enters
<1> QED BY <1>6

LEMMA CreateKeeps ==
    ASSUME StoreAssumption, StoreInv, NEW p \in Process, NEW s \in Settings, Create(p, s)
    PROVE  StoreInv'
<1>1. /\ store[p] = None
      /\ UNCHANGED <<docs, keptOn, busy, lock, up, today, calls, faults, acked>>
  BY DEF Create
<1>2. PICK o : /\ store' = [store EXCEPT ![p] = o]
               /\ o \in [kind : {"memory", "remote"}, optIn : BOOLEAN, degraded : BOOLEAN]
               /\ o.kind = "memory" => o.optIn \/ o.degraded
  <2>1. s.optIn \in BOOLEAN
    BY DEF StoreAssumption
  <2>2. PICK o : /\ store' = [store EXCEPT ![p] = o]
                 /\ \/ o = [kind |-> "memory", optIn |-> TRUE, degraded |-> FALSE]
                    \/ o = [kind |-> "remote", optIn |-> FALSE, degraded |-> FALSE]
                    \/ o = [kind |-> "memory", optIn |-> s.optIn, degraded |-> TRUE]
    BY Zenon DEF Create, FallBack
  <2>3. /\ o \in [kind : {"memory", "remote"}, optIn : BOOLEAN, degraded : BOOLEAN]
        /\ o.kind = "memory" => o.optIn \/ o.degraded
    <3>1. CASE o = [kind |-> "memory", optIn |-> TRUE, degraded |-> FALSE]
      BY <3>1
    <3>2. CASE o = [kind |-> "remote", optIn |-> FALSE, degraded |-> FALSE]
      BY <3>2
    <3>3. CASE o = [kind |-> "memory", optIn |-> s.optIn, degraded |-> TRUE]
      BY <2>1, <3>3
    <3> QED BY <2>2, <3>1, <3>2, <3>3
  <2> QED BY <2>2, <2>3, Zenon
<1>3. /\ store'[p] = o
      /\ \A q \in Process \ {p} : store'[q] = store[q]
      /\ TypeOK'
  BY <1>1, <1>2 DEF StoreInv, TypeOK
<1>4. \A r \in Run : docs[p][r] = NoDoc
  BY <1>1 DEF StoreInv, MemoryIsTold
<1>5. MemoryIsTold'
  BY <1>1, <1>2, <1>3, <1>4 DEF StoreInv, MemoryIsTold
<1>6. CallsInUse'
  <2>1. ASSUME NEW u \in Thread, busy[u] # None
        PROVE  store'[HomeOf[u]] = store[HomeOf[u]] /\ At(u)' = At(u)
    <3>1. HomeOf[u] \in Process \ {p}
      BY <1>1, <2>1, Homes DEF StoreInv, CallsInUse
    <3> QED BY <1>3, <3>1 DEF At, Home, Durable
  <2>2. \A u \in Thread : busy[u] # None =>
            /\ store'[HomeOf[u]] # None
            /\ HandedOut(Target(busy[u]))
            /\ Writes(u) => At(u)' = Remote /\ docs[Remote][Target(busy[u])] # NoDoc
    BY <2>1 DEF StoreInv, CallsInUse
  <2> QED BY <1>1, <2>2 DEF StoreInv, CallsInUse, Writes, Target, HandedOut
<1>7. KeptWhereBegun' /\ ItemsAreOwn' /\ WritesAreCurrent' /\ AcksAreKept'
  BY <1>1 DEF StoreInv, KeptWhereBegun, ItemsAreOwn, WritesAreCurrent, AcksAreKept, Pending, Writes
<1> QED BY <1>3, <1>5, <1>6, <1>7 DEF StoreInv

\* A new run's document, on the store of the thread that opens it.
LEMMA StartDocs ==
    ASSUME StoreAssumption, StoreInv, NEW t \in Thread, NEW r \in Run, StartRun(t, r),
           NEW a, a = At(t), NEW e, e = docs'[a][r]
    PROVE  /\ a \in Backend
           /\ docs' \in [Backend -> [Run -> Doc \cup {NoDoc}]]
           /\ e # NoDoc /\ Entries(e) = {} /\ e.guardrails = <<>>
           /\ \A b \in Backend : docs[b][r] = NoDoc
           /\ \A b \in Backend, q \in Run : b # a \/ q # r => docs'[b][q] = docs[b][q]
<1>1. PICK d : d = [started |-> today, guardrails |-> <<>>, data |-> {}, status |-> 0,
                    signature |-> None, recurrence |-> {}]
  OBVIOUS
<1>2. d \in Doc
  <2>1. <<>> \in Seq(Item) /\ today \in 0..MaxDay
    BY EmptySeq DEF StoreInv, TypeOK
  <2> QED BY <1>1, <2>1 DEF Doc
<1>3. d # NoDoc
  BY <1>2 DEF StoreAssumption
<1>4. Entries(d) = {} /\ d.guardrails = <<>>
  <2>1. d.guardrails = <<>> /\ d.data = {}
    BY <1>1
  <2>2. ToSet(<<>>) = {}
    BY DEF ToSet
  <2> QED BY <2>1, <2>2 DEF Entries
<1>5. docs' = [docs EXCEPT ![a][r] = d] /\ \A b \in Backend : docs[b][r] = NoDoc
  BY <1>1 DEF StartRun, HandedOut, StoreInv, KeptWhereBegun, StoreAssumption
<1>6. a \in Backend /\ docs \in [Backend -> [Run -> Doc \cup {NoDoc}]]
  BY Homes DEF StoreInv, TypeOK
<1>7. /\ docs' \in [Backend -> [Run -> Doc \cup {NoDoc}]]
      /\ docs'[a][r] = d
      /\ \A b \in Backend, q \in Run : b # a \/ q # r => docs'[b][q] = docs[b][q]
  BY <1>2, <1>5, <1>6
<1> QED BY <1>3, <1>4, <1>5, <1>6, <1>7

LEMMA StartKeeps ==
    ASSUME StoreAssumption, StoreInv, NEW t \in Thread, NEW r \in Run, StartRun(t, r)
    PROVE  StoreInv'
<1>1. PICK a : a = At(t)
  OBVIOUS
<1>2. /\ a \in Backend
      /\ docs' \in [Backend -> [Run -> Doc \cup {NoDoc}]]
      /\ docs'[a][r] # NoDoc /\ Entries(docs'[a][r]) = {} /\ docs'[a][r].guardrails = <<>>
      /\ \A b \in Backend : docs[b][r] = NoDoc
      /\ \A b \in Backend, q \in Run : b # a \/ q # r => docs'[b][q] = docs[b][q]
  <2>1. /\ a \in Backend
        /\ docs' \in [Backend -> [Run -> Doc \cup {NoDoc}]]
        /\ \A b \in Backend : docs[b][r] = NoDoc
    BY <1>1, StartDocs
  <2>2. PICK e : e = docs'[a][r]
    OBVIOUS
  <2>3. e # NoDoc /\ Entries(e) = {} /\ e.guardrails = <<>>
    BY <1>1, <2>2, StartDocs, SMTT(20)
  <2>4. \A b \in Backend, q \in Run : b # a \/ q # r => docs'[b][q] = docs[b][q]
    BY <1>1, StartDocs
  <2> QED BY <2>1, <2>2, <2>3, <2>4
<1>3. /\ UNCHANGED <<store, busy, lock, up, today, calls, faults, acked>>
      /\ keptOn[r] = None
      /\ keptOn' \in [Run -> Backend \cup {None, NoDoc}]
      /\ keptOn'[r] = a /\ \A q \in Run \ {r} : keptOn'[q] = keptOn[q]
      /\ a # None
  BY <1>1, <1>2 DEF StartRun, HandedOut, StoreInv, TypeOK, StoreAssumption
<1>4. \A u \in Thread : At(u)' = At(u)
  BY <1>3 DEF At, Home, Durable
<1>5. TypeOK'
  BY <1>2, <1>3 DEF StoreInv, TypeOK
<1>6. \A b \in Backend, q \in Run : docs[b][q] # NoDoc => docs'[b][q] = docs[b][q]
  BY <1>2
<1>7. \A b \in Backend, q \in Run :
          \/ docs'[b][q] = docs[b][q]
          \/ /\ docs[b][q] = NoDoc /\ docs'[b][q] # NoDoc
             /\ Entries(docs'[b][q]) = {} /\ docs'[b][q].guardrails = <<>>
  BY <1>2
<1>8. \A u \in Thread : busy[u] # None => Target(busy[u]) \in Run /\ At(u) \in Backend
  BY Homes DEF StoreInv, CallsInUse, InCall, Finding, Mutating, Writing, Mutation, Recording, Target
<1>9. CallsInUse'
  <2>1. \A u \in Thread : busy[u] # None =>
            /\ keptOn'[Target(busy[u])] # None
            /\ Writes(u) => docs'[Remote][Target(busy[u])] # NoDoc
    BY <1>3, <1>6, <1>8 DEF StoreInv, CallsInUse, HandedOut
  <2> QED BY <1>3, <1>4, <2>1 DEF StoreInv, CallsInUse, Writes, Target, HandedOut
<1>10. ItemsAreOwn'
  <2>1. \A b \in Backend, q \in Run : docs'[b][q] # NoDoc => Entries(docs'[b][q]) \subseteq 1..calls
    BY <1>7 DEF StoreInv, ItemsAreOwn
  <2>2. ASSUME NEW u \in Thread, Pending(u)
        PROVE  /\ busy[u].m.item \in 1..calls
               /\ \A b \in Backend, q \in Run :
                      docs'[b][q] # NoDoc => busy[u].m.item \notin Entries(docs'[b][q])
               /\ \A v \in Thread \ {u} : Pending(v) => busy[v].m.item # busy[u].m.item
    <3>1. /\ busy[u].m.item \in 1..calls
          /\ \A b \in Backend, q \in Run :
                 docs[b][q] # NoDoc => busy[u].m.item \notin Entries(docs[b][q])
          /\ \A v \in Thread \ {u} : Pending(v) => busy[v].m.item # busy[u].m.item
      BY <2>2 DEF StoreInv, ItemsAreOwn
    <3> QED BY <1>7, <3>1
  <2> QED BY <1>3, <2>1, <2>2 DEF ItemsAreOwn, Pending, Entries
<1>11. WritesAreCurrent'
  <2>1. ASSUME ~HasMutate, NEW u \in Thread, Writes(u)
        PROVE  busy[u].doc = docs'[Remote][busy[u].m.run]
    <3>1. At(u) = Remote /\ Target(busy[u]) = busy[u].m.run /\ busy[u] # None
          /\ docs[Remote][Target(busy[u])] # NoDoc
      BY <2>1 DEF Writes, Target, StoreInv, CallsInUse
    <3>2. docs'[Remote][busy[u].m.run] = docs[Remote][busy[u].m.run]
      BY <1>6, <1>8, <3>1
    <3> QED BY <2>1, <3>2 DEF StoreInv, WritesAreCurrent
  <2> QED BY <1>3, <2>1 DEF StoreInv, WritesAreCurrent, Writes
<1>12. AcksAreKept'
  <2>1. SUFFICES ASSUME NEW b \in Backend, NEW q \in Run
                 PROVE  Kept(docs'[b][q], acked[b][q]) /\ (keptOn'[q] = None => acked[b][q] = {})
    BY <1>3 DEF AcksAreKept, Kept, Entries, IsOnce
  <2>2. Kept(docs[b][q], acked[b][q]) /\ (keptOn[q] = None => acked[b][q] = {})
    BY DEF StoreInv, AcksAreKept
  <2>3. IsOnce(<<>>)
    BY DEF IsOnce
  <2>4. CASE q = r
    BY <1>2, <1>3, <1>7, <2>2, <2>3, <2>4 DEF Kept
  <2>5. CASE q # r
    BY <1>2, <1>3, <2>2, <2>5
  <2> QED BY <2>4, <2>5
<1>13. MemoryIsTold'
  <2>1. a \in Process => store[a] # None /\ store[a].kind = "memory"
    <3>1. a \in Process => a = HomeOf[t] /\ ~Durable(a) /\ store[a] # None
      BY <1>1, Homes DEF StartRun, StoreAssumption
    <3> QED BY <3>1 DEF Durable, StoreInv, TypeOK
  <2>2. \A p \in Process, q \in Run : docs'[p][q] # NoDoc => docs[p][q] # NoDoc \/ p = a
    BY <1>2 DEF Backend
  <2> QED BY <1>3, <2>1, <2>2 DEF StoreInv, MemoryIsTold
<1>14. KeptWhereBegun'
  BY <1>2, <1>3 DEF StoreInv, KeptWhereBegun
<1> QED BY <1>5, <1>9, <1>10, <1>11, <1>12, <1>13, <1>14 DEF StoreInv

LEMMA CrashKeeps ==
    ASSUME StoreAssumption, StoreInv, NEW p \in Process, Crash(p)
    PROVE  StoreInv'
<1>1. /\ store[p] # None /\ faults < MaxCrash /\ faults' = faults + 1
      /\ store' = [store EXCEPT ![p] = None]
      /\ docs' = [docs EXCEPT ![p] = [r \in Run |-> NoDoc]]
      /\ keptOn' = [r \in Run |-> IF keptOn[r] = p THEN NoDoc ELSE keptOn[r]]
      /\ acked' = [acked EXCEPT ![p] = [r \in Run |-> {}]]
      /\ busy' = [t \in Thread |-> IF HomeOf[t] = p THEN None ELSE busy[t]]
      /\ lock' = [lock EXCEPT ![p] = None]
      /\ UNCHANGED <<up, today, calls>>
  BY DEF Crash
<1>2. p \in Backend /\ p # Remote /\ Remote \in Backend
  BY DEF Backend, StoreAssumption
<1>3. TypeOK /\ CallsInUse
  BY DEF StoreInv
<1>4. /\ store'[p] = None /\ \A q \in Process \ {p} : store'[q] = store[q]
      /\ \A r \in Run : docs'[p][r] = NoDoc /\ acked'[p][r] = {}
      /\ \A b \in Backend \ {p}, r \in Run : docs'[b][r] = docs[b][r] /\ acked'[b][r] = acked[b][r]
  BY <1>1, <1>2, <1>3 DEF TypeOK
<1>5. \A u \in Thread : busy'[u] # None => HomeOf[u] # p /\ busy'[u] = busy[u]
  BY <1>1
<1>6. ASSUME NEW u \in Thread, HomeOf[u] # p
      PROVE  At(u)' = At(u) /\ At(u) \in Backend \ {p} /\ lock'[HomeOf[u]] = lock[HomeOf[u]]
             /\ store'[HomeOf[u]] = store[HomeOf[u]]
  <2>1. HomeOf[u] \in Process
    BY Homes
  <2>2. store'[HomeOf[u]] = store[HomeOf[u]]
    BY <1>4, <1>6, <2>1
  <2>3. At(u)' = At(u)
    BY <2>2 DEF At, Home, Durable
  <2>4. At(u) \in Backend \ {p}
    BY <1>2, <1>6, Homes
  <2>5. lock'[HomeOf[u]] = lock[HomeOf[u]]
    BY <1>1, <1>3, <1>6, <2>1 DEF TypeOK
  <2> QED BY <2>2, <2>3, <2>4, <2>5
<1>7. TypeOK'
  <2>1. faults' \in 0..MaxCrash
    BY <1>1, <1>3 DEF TypeOK, StoreAssumption
  <2>2. \A u \in Thread : busy'[u] = None \/ busy'[u].at \in {"find", "mutate", "write"}
    BY <1>3, <1>5 DEF TypeOK
  <2> QED BY <1>1, <1>2, <1>3, <2>1, <2>2 DEF TypeOK
<1>8. CallsInUse'
  <2>1. busy' \in [Thread -> InCall \cup {None}]
    BY <1>1, <1>3 DEF CallsInUse
  <2>2. ASSUME NEW u \in Thread, busy'[u] # None
        PROVE  /\ store'[HomeOf[u]] # None
               /\ keptOn'[Target(busy'[u])] # None
               /\ Writes(u)' => At(u)' = Remote /\ docs'[Remote][Target(busy'[u])] # NoDoc
    <3>1. HomeOf[u] # p /\ busy'[u] = busy[u] /\ busy[u] # None
      BY <1>5, <2>2
    <3>2. Target(busy[u]) \in Run
      BY <1>3, <3>1 DEF CallsInUse, InCall, Finding, Mutating, Writing, Mutation, Recording, Target
    <3>3. /\ store[HomeOf[u]] # None /\ keptOn[Target(busy[u])] # None
          /\ Writes(u) => At(u) = Remote /\ docs[Remote][Target(busy[u])] # NoDoc
      BY <1>3, <3>1 DEF CallsInUse, HandedOut
    <3>4. keptOn'[Target(busy[u])] # None
      BY <1>1, <3>2, <3>3 DEF StoreAssumption
    <3> QED BY <1>2, <1>4, <1>6, <3>1, <3>2, <3>3, <3>4 DEF Writes
  <2> QED BY <2>1, <2>2 DEF CallsInUse, Target, HandedOut
<1>9. \A b \in Backend, r \in Run :
          \/ docs'[b][r] = NoDoc /\ acked'[b][r] = {}
          \/ docs'[b][r] = docs[b][r] /\ acked'[b][r] = acked[b][r]
  BY <1>4
<1>10. ItemsAreOwn'
  <2>1. \A b \in Backend, r \in Run : docs'[b][r] # NoDoc => Entries(docs'[b][r]) \subseteq 1..calls'
    BY <1>1, <1>9 DEF StoreInv, ItemsAreOwn
  <2>2. \A u \in Thread : Pending(u)' => Pending(u) /\ busy'[u] = busy[u]
    BY <1>5 DEF Pending
  <2>3. ASSUME NEW u \in Thread, Pending(u)'
        PROVE  /\ busy'[u].m.item \in 1..calls'
               /\ \A b \in Backend, r \in Run :
                      docs'[b][r] # NoDoc => busy'[u].m.item \notin Entries(docs'[b][r])
               /\ \A v \in Thread \ {u} : Pending(v)' => busy'[v].m.item # busy'[u].m.item
    BY <1>1, <1>9, <2>2, <2>3 DEF StoreInv, ItemsAreOwn
  <2> QED BY <2>1, <2>3 DEF ItemsAreOwn, Entries
<1>11. WritesAreCurrent'
  <2>1. ASSUME ~HasMutate, NEW u \in Thread, Writes(u)'
        PROVE  busy'[u].doc = docs'[Remote][busy'[u].m.run] /\ lock'[HomeOf[u]] = u
    <3>1. HomeOf[u] # p /\ busy'[u] = busy[u] /\ Writes(u)
      BY <1>5, <2>1 DEF Writes
    <3>2. busy[u].doc = docs[Remote][busy[u].m.run] /\ lock[HomeOf[u]] = u
      BY <2>1, <3>1 DEF StoreInv, WritesAreCurrent
    <3>3. docs'[Remote] = docs[Remote]
      BY <1>1, <1>2, <1>3 DEF TypeOK
    <3> QED BY <1>6, <3>1, <3>2, <3>3
  <2> QED BY <2>1 DEF WritesAreCurrent
<1>12. AcksAreKept'
  <2>1. SUFFICES ASSUME NEW b \in Backend, NEW r \in Run
                 PROVE  Kept(docs'[b][r], acked'[b][r]) /\ (keptOn'[r] = None => acked'[b][r] = {})
    BY DEF AcksAreKept, Kept, Entries, IsOnce
  <2>2. Kept(docs[b][r], acked[b][r]) /\ (keptOn[r] = None => acked[b][r] = {})
    BY DEF StoreInv, AcksAreKept
  <2>3. keptOn'[r] = None => keptOn[r] = None
    BY <1>1 DEF StoreAssumption
  <2> QED BY <1>9, <2>2, <2>3 DEF Kept
<1>13. MemoryIsTold'
  BY <1>2, <1>4 DEF StoreInv, MemoryIsTold, Backend
<1>14. KeptWhereBegun'
  <2>1. ASSUME NEW r \in Run, keptOn'[r] \in Backend
        PROVE  docs'[keptOn'[r]][r] # NoDoc
    <3>1. keptOn[r] # p /\ keptOn'[r] = keptOn[r]
      BY <1>1, <2>1 DEF StoreAssumption
    <3>2. docs[keptOn[r]][r] # NoDoc
      BY <2>1, <3>1 DEF StoreInv, KeptWhereBegun
    <3> QED BY <1>4, <2>1, <3>1, <3>2
  <2>2. ASSUME NEW r \in Run, NEW b \in Backend, docs'[b][r] # NoDoc
        PROVE  keptOn'[r] = b
    <3>1. b # p /\ docs[b][r] # NoDoc
      BY <1>4, <2>2
    <3> QED BY <1>1, <3>1 DEF StoreInv, KeptWhereBegun
  <2> QED BY <2>1, <2>2 DEF KeptWhereBegun
<1> QED BY <1>7, <1>8, <1>10, <1>11, <1>12, <1>13, <1>14 DEF StoreInv

LEMMA EnvironmentRests ==
    ASSUME StoreAssumption, StoreInv, Outage \/ NextDay \/ UNCHANGED vars
    PROVE  Rests
<1>1. up \in BOOLEAN /\ today \in 0..MaxDay /\ faults \in 0..MaxCrash /\ {MaxDay, MaxCrash} \subseteq Nat
  BY DEF StoreInv, TypeOK, StoreAssumption
<1>2. CASE Outage
  <2>1. up' \in BOOLEAN
    BY <1>2 DEF Outage
  <2>2. faults' \in 0..MaxCrash
    <3>1. CASE up
      BY <1>1, <1>2, <3>1 DEF Outage
    <3>2. CASE ~up
      BY <1>1, <1>2, <3>2 DEF Outage
    <3> QED BY <3>1, <3>2
  <2> QED BY <1>1, <1>2, <2>1, <2>2 DEF Outage, Rests
<1>3. CASE NextDay
  BY <1>1, <1>3 DEF NextDay, Rests
<1>4. CASE UNCHANGED vars
  BY <1>1, <1>4 DEF vars, Rests
<1> QED BY <1>2, <1>3, <1>4

LEMMA StoreStep ==
    ASSUME StoreAssumption, OneWriter, StoreInv, [Next]_vars
    PROVE  StoreInv'
<1>1. ASSUME NEW p \in Process, NEW s \in Settings, Create(p, s)
      PROVE  StoreInv'
  BY <1>1, CreateKeeps
<1>2. ASSUME NEW t \in Thread, NEW r \in Run, StartRun(t, r)
      PROVE  StoreInv'
  BY <1>2, StartKeeps
<1>3. ASSUME NEW t \in Thread, NEW op \in Ops, NEW r \in Run, Call(t, op, r)
      PROVE  StoreInv'
  BY <1>3, CallEnters, EntersKeeps
<1>4. ASSUME NEW t \in Thread, MutateInMemory(t)
      PROVE  StoreInv'
  BY <1>4, MemoryApplies, AppliesKeeps
<1>5. ASSUME NEW t \in Thread, ReadForMutation(t)
      PROVE  StoreInv'
  BY <1>5, ReadMoves, MovesKeeps
<1>6. ASSUME NEW t \in Thread, WriteBack(t)
      PROVE  StoreInv'
  BY <1>6, WriteSteps, MovesKeeps, AppliesKeeps
<1>7. ASSUME NEW t \in Thread, Raise(t)
      PROVE  StoreInv'
  BY <1>7, RaiseMoves, MovesKeeps
<1>8. ASSUME NEW t \in Thread, NEW r \in Run, NEW s \in Signature, Detect(t, r, s)
      PROVE  StoreInv'
  BY <1>8, DetectEnters, EntersKeeps
<1>9. ASSUME NEW t \in Thread, Find(t)
      PROVE  StoreInv'
  BY <1>9, FindMoves, MovesKeeps
<1>10. ASSUME NEW p \in Process, Crash(p)
       PROVE  StoreInv'
  BY <1>10, CrashKeeps
<1>11. CASE Outage \/ NextDay \/ UNCHANGED vars
  BY <1>11, EnvironmentRests, RestsKeeps
<1>12. ASSUME NEW t \in Thread, Miss(t)
       PROVE  StoreInv'
  BY <1>12, MissKeeps
<1> QED BY <1>1, <1>2, <1>3, <1>4, <1>5, <1>6, <1>7, <1>8, <1>9, <1>10, <1>11, <1>12 DEF Next

\* The inductive invariant: StoreStep starts again from what it shows, whatever
\* processes crash in between (state.py:243-324).
THEOREM StoreInvariant == ASSUME StoreAssumption, OneWriter PROVE Spec => []StoreInv
<1>1. Init => StoreInv
  BY InitStore
<1>2. StoreInv /\ [Next]_vars => StoreInv'
  BY StoreStep
<1> QED BY <1>1, <1>2, PTL DEF Spec

\* As many different items as places: no item is in a sequence twice.
LEMMA OnceCounts ==
    ASSUME NEW s \in Seq(Item), IsOnce(s)
    PROVE  Cardinality(ToSet(s)) = Len(s)
<1>1. Len(s) \in Nat /\ DOMAIN s = 1..Len(s) /\ s \in [1..Len(s) -> Item]
  BY LenProperties
<1>2. PICK n : n = Len(s)
  OBVIOUS
<1>3. IsFiniteSet(1..n) /\ Cardinality(1..n) = n
  <2>1. n \in Nat
    BY <1>1, <1>2
  <2>2. IsFiniteSet(1..n) /\ Cardinality(1..n) = IF 1 > n THEN 0 ELSE n - 1 + 1
    BY <2>1, FS_Interval
  <2> QED BY <2>1, <2>2
<1>4. PICK img : img = ToSet(s)
  OBVIOUS
<1>5. s \in Bijection(1..n, img)
  BY <1>1, <1>2, <1>4 DEF ToSet, IsOnce, Bijection, Injection, Surjection, IsInjective
<1>6. ExistsBijection(1..n, img)
  BY <1>5 DEF ExistsBijection
<1> QED BY <1>2, <1>3, <1>4, <1>6, FS_Bijection

\* Every append and set_data that returned on the backend its run was begun on is in the run's
\* document, which is there, once, however the reads and writes of threads and processes
\* interleave (state.py:31-34, 149-164, 264-278).
THEOREM JournalLosesNothing == ASSUME StoreAssumption, OneWriter PROVE Spec => []NothingLost
<1>1. ASSUME StoreInv PROVE NothingLost
  <2> SUFFICES ASSUME NEW b \in Backend, NEW r \in Run, keptOn[r] = b
               PROVE  /\ docs[b][r] # NoDoc
                      /\ acked[b][r] \subseteq Entries(docs[b][r])
                      /\ Cardinality(ToSet(docs[b][r].guardrails)) = Len(docs[b][r].guardrails)
    BY DEF NothingLost
  <2>0. docs[b][r] # NoDoc
    BY <1>1 DEF StoreInv, KeptWhereBegun
  <2>1. Kept(docs[b][r], acked[b][r]) /\ docs[b][r] \in Doc
    BY <1>1, <2>0 DEF StoreInv, AcksAreKept, TypeOK
  <2>2. PICK s : s = docs[b][r].guardrails
    OBVIOUS
  <2>3. acked[b][r] \subseteq Entries(docs[b][r]) /\ IsOnce(s) /\ s \in Seq(Item)
    BY <2>0, <2>1, <2>2 DEF Kept, Doc
  <2>4. Cardinality(ToSet(s)) = Len(s)
    BY <2>3, OnceCounts
  <2> QED BY <2>0, <2>2, <2>3, <2>4
<1> QED BY <1>1, StoreInvariant, PTL

-----------------------------------------------------------------------------
(* What the steps do to the entries. *)

\* The documents keep their entries in every step but a crash; one step adds one.
LEMMA EntriesGrow ==
    ASSUME StoreAssumption, OneWriter, StoreInv, [Next]_vars, ~\E p \in Process : Crash(p)
    PROVE  \/ docs' = docs
           \/ \E t \in Thread, r \in Run : StartRun(t, r)
           \/ \E t \in Thread : Applies(t)
<1>1. \A t \in Thread : MutateInMemory(t) => Applies(t)
  BY MemoryApplies
<1>2. ASSUME NEW t \in Thread, WriteBack(t)
      PROVE  Applies(t) \/ docs' = docs
  BY <1>2, WriteSteps DEF Moves
<1> QED BY <1>1, <1>2
        DEF Next, vars, Create, Call, ReadForMutation, Miss, Raise, Detect, Find, Outage, NextDay

\* What an effective mutation does to the entries of its document.
LEMMA AppliesEntries ==
    ASSUME StoreAssumption, StoreInv, NEW t \in Thread, Applies(t),
           NEW b \in Backend, NEW r \in Run, docs[b][r] # NoDoc
    PROVE  /\ docs'[b][r] # NoDoc
           /\ \/ Entries(docs'[b][r]) = Entries(docs[b][r])
              \/ /\ b = At(t) /\ r = busy[t].m.run /\ busy[t].m.item \in Item
                 /\ busy[t].m.item \notin Entries(docs[b][r])
                 /\ Entries(docs'[b][r]) = Entries(docs[b][r]) \cup {busy[t].m.item}
<1>1. PICK m, a : m = busy[t].m /\ a = At(t)
  OBVIOUS
<1>2. /\ m \in Mutation \cup Recording /\ m.run \in Run /\ a \in Backend
      /\ docs[a][m.run] \in Doc /\ docs[a][m.run] # NoDoc
      /\ docs'[a][m.run] = Effect(docs[a][m.run], m)
      /\ \A c \in Backend, q \in Run : c # a \/ q # m.run => docs'[c][q] = docs[c][q]
  BY <1>1, AppliesDocs
<1>3. CASE b = a /\ r = m.run
  <2>1. PICK d, e : d = docs[b][r] /\ e = docs'[b][r]
    OBVIOUS
  <2>2. d \in Doc /\ e = Effect(d, m)
    BY <1>2, <1>3, <2>1
  <2>3. /\ e # NoDoc
        /\ Entries(e) = IF m.op \in {"append", "set_data"}
                        THEN Entries(d) \cup {m.item} ELSE Entries(d)
    BY <1>2, <2>2, EffectRecords
  <2>4. CASE m.op \in {"append", "set_data"}
    <3>1. Pending(t) /\ m.item \in Item
      BY <1>1, <1>2, <2>4 DEF Pending, Applies, Mutation, Recording
    <3>2. m.item \notin Entries(d)
      BY <1>1, <2>1, <3>1 DEF StoreInv, ItemsAreOwn
    <3> QED BY <1>1, <1>3, <2>1, <2>3, <2>4, <3>1, <3>2
  <2>5. CASE m.op \notin {"append", "set_data"}
    BY <2>1, <2>3, <2>5
  <2> QED BY <2>4, <2>5
<1>4. CASE b # a \/ r # m.run
  BY <1>2, <1>4
<1> QED BY <1>3, <1>4

\* What is new in the documents is empty, whatever opened it.
LEMMA AppliesOpens ==
    ASSUME StoreAssumption, StoreInv, NEW t \in Thread, Applies(t),
           NEW b \in Backend, NEW r \in Run, docs[b][r] = NoDoc
    PROVE  docs'[b][r] = NoDoc
<1>1. PICK m, a : m = busy[t].m /\ a = At(t)
  OBVIOUS
<1>2. /\ docs[a][m.run] # NoDoc
      /\ \A c \in Backend, q \in Run : c # a \/ q # m.run => docs'[c][q] = docs[c][q]
  BY <1>1, AppliesDocs
<1> QED BY <1>2

\* An entry disappears only in a crash, from the memory of the process that died.
LEMMA OnlyCrashesForget ==
    ASSUME StoreAssumption, OneWriter, StoreInv, [Next]_vars,
           NEW b \in Backend, NEW r \in Run, docs[b][r] # NoDoc
    PROVE  \/ docs'[b][r] # NoDoc /\ Entries(docs[b][r]) \subseteq Entries(docs'[b][r])
           \/ b \in Process /\ Crash(b)
<1>1. CASE docs' = docs
  BY <1>1
<1>2. ASSUME NEW t \in Thread, NEW q \in Run, StartRun(t, q)
      PROVE  docs'[b][r] = docs[b][r]
  <2>1. PICK a, e : a = At(t) /\ e = docs'[a][q]
    OBVIOUS
  <2>2. /\ \A c \in Backend : docs[c][q] = NoDoc
        /\ \A c \in Backend, x \in Run : c # a \/ x # q => docs'[c][x] = docs[c][x]
    BY <1>2, <2>1, StartDocs
  <2> QED BY <2>2
<1>3. ASSUME NEW t \in Thread, Applies(t)
      PROVE  docs'[b][r] # NoDoc /\ Entries(docs[b][r]) \subseteq Entries(docs'[b][r])
  BY <1>3, AppliesEntries
<1>4. ASSUME NEW p \in Process, Crash(p), b # p
      PROVE  docs'[b][r] = docs[b][r]
  BY <1>4 DEF Crash, StoreInv, TypeOK, Backend
<1>5. CASE \E p \in Process : Crash(p)
  BY <1>4, <1>5
<1>6. CASE ~\E p \in Process : Crash(p)
  BY <1>1, <1>2, <1>3, <1>6, EntriesGrow
<1> QED BY <1>5, <1>6

\* A call that returns and leaves its item nowhere found no document.
LEMMA DropsAreMisses ==
    ASSUME StoreAssumption, OneWriter, StoreInv, [Next]_vars, NEW t \in Thread, Drops(t)
    PROVE  Miss(t)
<1>1. PICK m, a : m = busy[t].m /\ a = At(t)
  OBVIOUS
<1>2. busy[t] \in InCall /\ busy[t].at # "find" /\ m.op \in {"append", "set_data"}
  BY <1>1 DEF Drops, StoreInv, CallsInUse
<1>3. m \in Mutation /\ m.run \in Run /\ m.item \in Item /\ a \in Backend /\ Pending(t)
  BY <1>1, <1>2, Homes
     DEF Drops, InCall, Finding, Mutating, Writing, Mutation, Recording, Pending
<1>4. m.item \in acked'[a][m.run] \ acked[a][m.run]
  BY <1>1 DEF Drops
<1>5. ASSUME NEW u \in Thread, NEW w, w = busy[u].m, Return(u, w),
             w.op \in {"append", "set_data"} => Pending(u),
             acked \in [Backend -> [Run -> SUBSET Item]]
      PROVE  u = t
  <2>1. w.op \in {"append", "set_data"}
    BY <1>4, <1>5 DEF Return
  <2>2. acked' = [acked EXCEPT ![At(u)][w.run] = acked[At(u)][w.run] \cup {w.item}]
    BY <1>5, <2>1 DEF Return
  <2>3. m.item = w.item
    BY <1>3, <1>4, <1>5, <2>2
  <2> QED BY <1>1, <1>3, <1>5, <2>1, <2>3 DEF StoreInv, ItemsAreOwn
<1>6. acked \in [Backend -> [Run -> SUBSET Item]]
  BY DEF StoreInv, TypeOK
<1>7. ASSUME NEW u \in Thread, Applies(u)
      PROVE  FALSE
  <2>1. PICK w : w = busy[u].m
    OBVIOUS
  <2>2. u = t
    BY <1>5, <1>6, <1>7, <2>1 DEF Applies, Pending
  <2>3. /\ docs[a][m.run] \in Doc /\ docs[a][m.run] # NoDoc
        /\ docs'[a][m.run] = Effect(docs[a][m.run], m)
    BY <1>1, <1>7, <2>2, AppliesDocs
  <2>4. PICK d, e : d = docs[a][m.run] /\ e = docs'[a][m.run]
    OBVIOUS
  <2>5. e # NoDoc /\ Entries(e) = Entries(d) \cup {m.item}
    BY <1>2, <1>3, <2>3, <2>4, EffectRecords
  <2>6. e = NoDoc \/ m.item \notin Entries(e)
    BY <1>1, <2>4 DEF Drops
  <2> QED BY <2>5, <2>6
<1>8. ASSUME NEW u \in Thread, Miss(u)
      PROVE  u = t
  <2>1. PICK w : w = busy[u].m
    OBVIOUS
  <2> QED BY <1>5, <1>6, <1>8, <2>1 DEF Miss, Pending
<1>9. acked' # acked
  BY <1>4
<1>10. ASSUME NEW p \in Process, Crash(p)
       PROVE  FALSE
  <2>1. acked'[a][m.run] \subseteq acked[a][m.run]
    BY <1>3, <1>6, <1>10 DEF Crash
  <2> QED BY <1>4, <2>1
<1>11. ASSUME NEW u \in Thread, MutateInMemory(u) \/ WriteBack(u)
       PROVE  FALSE
  BY <1>7, <1>9, <1>11, MemoryApplies, WriteSteps DEF Moves
<1> QED BY <1>8, <1>9, <1>10, <1>11
        DEF Next, vars, Create, StartRun, Call, ReadForMutation, Raise, Detect, Find, Outage, NextDay

\* "Durability is never silent": what a crash forgets was kept in the memory of a store that the
\* app had opted into or that had said it is degraded, and a call that returns and records
\* nothing was about a run begun elsewhere, on such a store or in the memory of one
\* (state.py:25-29, 93-94, 156-157, 212-241).
THEOREM ForgettingIsTold ==
    ASSUME StoreAssumption, OneWriter PROVE Spec => DurabilityNeverSilent
<1>1. ASSUME StoreInv, [Next]_vars, NEW b \in Backend, NEW r \in Run, Forgets(b, r)
      PROVE  b # Remote /\ ~Durable(b) /\ Told(b)
  <2>1. b \in Process
    BY <1>1, OnlyCrashesForget DEF Forgets, Entries
  <2>2. store[b] # None /\ store[b].kind = "memory" /\ (store[b].optIn \/ store[b].degraded)
    BY <1>1, <2>1 DEF StoreInv, MemoryIsTold, Forgets
  <2> QED BY <2>1, <2>2 DEF StoreAssumption, Durable, Told
<1>2. ASSUME StoreInv, [Next]_vars, NEW t \in Thread, Drops(t)
      PROVE  keptOn[busy[t].m.run] # At(t) /\ (At(t) # Remote => Told(HomeOf[t]))
  <2>1. Miss(t) /\ busy[t] # None /\ busy[t].at # "find"
    BY <1>2, DropsAreMisses DEF Drops
  <2>2. busy[t].m.run \in Run /\ store[HomeOf[t]] # None
    BY <2>1, <1>2 DEF StoreInv, CallsInUse, InCall, Finding, Mutating, Writing, Mutation, Recording
  <2>3. docs[At(t)][busy[t].m.run] = NoDoc
    BY <2>1 DEF Miss, Exists
  <2>4. keptOn[busy[t].m.run] # At(t)
    BY <1>2, <2>2, <2>3, Homes DEF StoreInv, KeptWhereBegun
  <2>5. ASSUME At(t) # Remote
        PROVE  Told(HomeOf[t])
    <3>1. HomeOf[t] \in Process /\ store[HomeOf[t]].kind # "remote"
      BY <2>2, <2>5, Homes DEF Durable
    <3>2. store[HomeOf[t]].kind = "memory"
      BY <1>2, <2>2, <3>1 DEF StoreInv, TypeOK
    <3> QED BY <1>2, <2>2, <3>1, <3>2 DEF StoreInv, MemoryIsTold, Told
  <2> QED BY <2>4, <2>5
<1>3. StoreInv /\ [Next]_vars => [ForgetsAsTold]_vars
  <2> SUFFICES ASSUME StoreInv, [Next]_vars PROVE ForgetsAsTold
    OBVIOUS
  <2> QED BY <1>1, <1>2 DEF ForgetsAsTold
<1> QED BY <1>3, StoreInvariant, PTL DEF Spec, DurabilityNeverSilent

-----------------------------------------------------------------------------
(* The remote documents are a journal. *)

\* What is recorded, run by run.
LEMMA RecordedAt ==
    ASSUME NEW r \in Run
    PROVE  /\ docs[Remote][r] = NoDoc => Recorded[r] = NoDoc
           /\ docs[Remote][r] # NoDoc => Recorded[r] = Entries(docs[Remote][r])
           /\ docs'[Remote][r] = NoDoc => Recorded'[r] = NoDoc
           /\ docs'[Remote][r] # NoDoc => Recorded'[r] = Entries(docs'[Remote][r])
BY DEF Recorded, Entries

\* Two journals with the same entries are the same.
LEMMA SameJournal ==
    ASSUME \A r \in Run : Recorded'[r] = Recorded[r]
    PROVE  Recorded' = Recorded
BY DEF Recorded

\* Opening a run on the remote backend opens it in the journal; elsewhere it is no step.
LEMMA StartOpens ==
    ASSUME StoreAssumption, StoreInv, NEW t \in Thread, NEW r \in Run, StartRun(t, r)
    PROVE  Journal!Open(r) \/ Recorded' = Recorded
<1>1. PICK a, e : a = At(t) /\ e = docs'[a][r]
  OBVIOUS
<1>2. /\ a \in Backend /\ e # NoDoc /\ Entries(e) = {}
      /\ \A b \in Backend : docs[b][r] = NoDoc
      /\ \A b \in Backend, q \in Run : b # a \/ q # r => docs'[b][q] = docs[b][q]
  BY <1>1, StartDocs
<1>3. Remote \in Backend
  BY DEF Backend
<1>4. CASE a = Remote
  <2>1. \A q \in Run \ {r} : Recorded'[q] = Recorded[q]
    BY <1>2, <1>3, RecordedAt
  <2>2. Recorded[r] = NoDoc /\ Recorded'[r] = {}
    BY <1>1, <1>2, <1>3, <1>4, RecordedAt
  <2>3. Recorded' = [Recorded EXCEPT ![r] = {}]
    BY <2>1, <2>2 DEF Recorded
  <2> QED BY <2>2, <2>3 DEF Journal!Open
<1>5. CASE a # Remote
  <2>1. \A q \in Run : Recorded'[q] = Recorded[q]
    BY <1>2, <1>3, <1>5, RecordedAt
  <2> QED BY <2>1, SameJournal
<1> QED BY <1>4, <1>5

\* A mutation that takes effect records its item, if it is one that records.
LEMMA AppliesOnce ==
    ASSUME StoreAssumption, StoreInv, NEW t \in Thread, Applies(t)
    PROVE  (\E r \in Run, v \in Item : Journal!Record(r, v)) \/ Recorded' = Recorded
<1>1. Remote \in Backend
  BY DEF Backend
<1>2. \A r \in Run : docs[Remote][r] = NoDoc => Recorded'[r] = Recorded[r]
  BY <1>1, AppliesOpens, RecordedAt
<1>3. CASE \A r \in Run : docs[Remote][r] # NoDoc =>
              Entries(docs'[Remote][r]) = Entries(docs[Remote][r])
  <2>1. \A r \in Run : docs[Remote][r] # NoDoc => Recorded'[r] = Recorded[r]
    BY <1>1, <1>3, AppliesEntries, RecordedAt
  <2> QED BY <1>2, <2>1, SameJournal
<1>4. CASE \E r \in Run : docs[Remote][r] # NoDoc /\
              Entries(docs'[Remote][r]) # Entries(docs[Remote][r])
  <2>1. PICK r \in Run : /\ docs[Remote][r] # NoDoc
                         /\ Entries(docs'[Remote][r]) # Entries(docs[Remote][r])
    BY <1>4
  <2>2. PICK v : v = busy[t].m.item
    OBVIOUS
  <2>3. /\ r = busy[t].m.run /\ v \in Item
        /\ docs'[Remote][r] # NoDoc
        /\ v \notin Entries(docs[Remote][r])
        /\ Entries(docs'[Remote][r]) = Entries(docs[Remote][r]) \cup {v}
    BY <1>1, <2>1, <2>2, AppliesEntries
  <2>4. \A q \in Run \ {r} : Recorded'[q] = Recorded[q]
    BY <1>1, <1>2, <2>3, AppliesEntries, RecordedAt
  <2>5. Recorded[r] = Entries(docs[Remote][r]) /\ Recorded'[r] = Recorded[r] \cup {v}
    BY <2>1, <2>3, RecordedAt
  <2>6. Recorded' = [Recorded EXCEPT ![r] = Recorded[r] \cup {v}]
    BY <2>4, <2>5 DEF Recorded
  <2>7. Recorded[r] # NoDoc
    <3>1. docs[Remote][r] \in Doc
      BY <1>1, <2>1 DEF StoreInv, TypeOK
    <3>2. Entries(docs[Remote][r]) \in SUBSET Item
      BY <3>1, LenProperties DEF Entries, Doc, ToSet
    <3> QED BY <2>5, <3>2 DEF StoreAssumption
  <2>8. Journal!Record(r, v)
    BY <2>3, <2>5, <2>6, <2>7 DEF Journal!Record
  <2> QED BY <2>3, <2>8
<1> QED BY <1>3, <1>4

\* The remote documents implement the abstract journal: a run, once opened, gains entries
\* one at a time and never loses one, whatever crashes or is unreachable (state.py:3-6, 31-34).
THEOREM JournalImplemented ==
    ASSUME StoreAssumption, OneWriter PROVE Spec => Journal!Spec
<1>1. Init => Journal!Init
  BY DEF Init, Backend, Recorded, Journal!Init
<1>2. ASSUME StoreInv, [Next]_vars
      PROVE  [Journal!Next]_Recorded
  <2>1. ASSUME docs'[Remote] = docs[Remote]
        PROVE  Recorded' = Recorded
    BY <2>1 DEF Recorded, Entries
  <2>2. ASSUME NEW p \in Process, Crash(p)
        PROVE  Recorded' = Recorded
    BY <1>2, <2>1, <2>2 DEF Crash, StoreInv, TypeOK, StoreAssumption, Backend
  <2>3. ASSUME NEW t \in Thread, NEW r \in Run, StartRun(t, r)
        PROVE  [Journal!Next]_Recorded
    BY <1>2, <2>3, StartOpens DEF Journal!Next
  <2>4. ASSUME NEW t \in Thread, Applies(t)
        PROVE  [Journal!Next]_Recorded
    BY <1>2, <2>4, AppliesOnce DEF Journal!Next
  <2> QED BY <1>2, <2>1, <2>2, <2>3, <2>4, EntriesGrow
<1>3. StoreInv /\ [Next]_vars => [Journal!Next]_Recorded
  BY <1>2
<1> QED BY <1>1, <1>3, StoreInvariant, PTL DEF Spec, Journal!Spec

\* The same as an action property of the store: every step of it is a step of the journal
\* (state.py:31-34).
THEOREM EveryStepKeepsJournal ==
    ASSUME StoreAssumption, OneWriter PROVE Spec => JournalKept
<1>1. [Journal!Next]_Recorded => KeepsJournal
  BY DEF KeepsJournal
<1> QED BY <1>1, JournalImplemented, PTL DEF Spec, Journal!Spec, JournalKept

=============================================================================
