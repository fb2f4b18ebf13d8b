----------------------------- MODULE RunJournal -----------------------------
(***************************************************************************)
(* What the audit trail of agent runs promises: a run, once opened, gains   *)
(* entries one at a time and never loses one (state.py:3-6, 31-34).         *)
(***************************************************************************)
CONSTANTS Run, Entry, Unopened

VARIABLE journal   \* Run -> its entries, or Unopened

Init == journal = [r \in Run |-> Unopened]

Open(r) ==
    /\ journal[r] = Unopened
    /\ journal' = [journal EXCEPT ![r] = {}]

Record(r, e) ==
    /\ journal[r] # Unopened
    /\ e \notin journal[r]
    /\ journal' = [journal EXCEPT ![r] = @ \cup {e}]

Next == \E r \in Run : Open(r) \/ \E e \in Entry : Record(r, e)

Spec == Init /\ [][Next]_journal
=============================================================================
