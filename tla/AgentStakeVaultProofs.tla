----------------------- MODULE AgentStakeVaultProofs -----------------------
(***************************************************************************)
(* Proofs, for any operators, keys, agents, amounts and allowances, that    *)
(* the vault holds exactly the collateral of its open bonds, that its       *)
(* counters say so, and that a bond is final once it is closed.             *)
(***************************************************************************)
EXTENDS AgentStakeVaultProperties, TotalTheorems

\* Custody is inductive given the types alone: an open bond names an agent that
\* is counted and an amount that is a number.
CustodyInv == TypeOK /\ VaultCustody

-----------------------------------------------------------------------------
(* Bonds and their totals. *)

LEMMA OpenBondTyped ==
    ASSUME TypeOK, NEW k \in BondKey, IsOpen(k)
    PROVE  /\ bonds[k] \in Bond
           /\ bonds[k].agentId \in AgentId /\ bonds[k].amount \in Nat /\ ~bonds[k].closed
<1>1. bonds[k] \in Bond
  BY DEF TypeOK, IsOpen, BondExists, NoBond
<1> QED BY <1>1 DEF Bond, IsOpen

LEMMA CollateralTyped ==
    ASSUME TypeOK, NEW S \in SUBSET BondKey
    PROVE  IsFiniteSet(S) /\ Amounts(Collateral, S)
<1>1. IsFiniteSet(S)
  BY VaultAssumption, FS_Subset
<1>2. \A k \in BondKey : bonds[k].amount \in Nat
  BY DEF TypeOK, Bond, NoBond
<1> QED BY <1>1, <1>2 DEF Amounts, Collateral

\* The keys of an agent, or of all, as the code's counters range over them.
LEMMA KeySets ==
    /\ OpenKeys \in SUBSET BondKey
    /\ \A a : OpenFor(a) \in SUBSET BondKey /\ ClosedFor(a) \in SUBSET BondKey
BY DEF OpenKeys, OpenFor, ClosedFor

\* What a ledger moved out of, or into, the vault holds there.
LEMMA MovedVault ==
    ASSUME NEW b \in [Address -> Nat], NEW p \in Party, NEW v \in Nat
    PROVE  /\ Token!Covers(b, p, v) =>
                  /\ Token!Moved(b, p, Vault, v) \in [Address -> Nat]
                  /\ Token!Moved(b, p, Vault, v)[Vault] = b[Vault] + v
           /\ Token!Covers(b, Vault, v) =>
                  /\ Token!Moved(b, Vault, p, v) \in [Address -> Nat]
                  /\ Token!Moved(b, Vault, p, v)[Vault] = b[Vault] - v
<1>1. p \in Address /\ Vault \in Address /\ p # Vault
  BY VaultAssumption DEF Party
<1>2. ASSUME Token!Covers(b, p, v)
      PROVE  /\ Token!Moved(b, p, Vault, v) \in [Address -> Nat]
             /\ Token!Moved(b, p, Vault, v)[Vault] = b[Vault] + v
  BY <1>1, <1>2 DEF Token!Covers, Token!Moved
<1>3. ASSUME Token!Covers(b, Vault, v)
      PROVE  /\ Token!Moved(b, Vault, p, v) \in [Address -> Nat]
             /\ Token!Moved(b, Vault, p, v)[Vault] = b[Vault] - v
  BY <1>1, <1>3 DEF Token!Covers, Token!Moved
<1> QED BY <1>2, <1>3

-----------------------------------------------------------------------------
(* The initial state. *)

LEMMA InitCustody == Init => CustodyInv
<1> SUFFICES ASSUME Init PROVE CustodyInv
  OBVIOUS
<1>1. TypeOK
  BY VaultAssumption DEF Init, TypeOK, Party
<1>2. OpenKeys = {}
  BY DEF Init, OpenKeys, IsOpen, BondExists, NoBond
<1>3. \A a \in AgentId : OpenFor(a) = {} /\ ClosedFor(a) = {}
  BY <1>2 DEF Init, OpenFor, ClosedFor, NoBond
<1>4. Total(Collateral, {}) = 0
  BY TotalEmpty
<1>5. balanceOf[Vault] = 0 /\ \A a \in AgentId : stakeOf[a] = 0 /\ slashedOf[a] = 0
  BY VaultAssumption DEF Init
<1>6. VaultCustody
  BY <1>2, <1>3, <1>4, <1>5, SMTT(20) DEF VaultCustody
<1> QED BY <1>1, <1>6 DEF CustodyInv

-----------------------------------------------------------------------------
(* Opening a bond. *)

LEMMA BondForTyped ==
    ASSUME TypeOK, NEW o \in Operator, NEW k \in BondKey, NEW a \in AgentId, NEW d \in Party,
           NEW v \in Amount, BondFor(o, k, a, d, v, balanceOf), UNCHANGED owners
    PROVE  TypeOK'
<1>1. v \in Nat /\ d \in Address /\ Vault \in Address /\ MaxUint256 \in Nat
  BY VaultAssumption DEF Party
<1>2. balanceOf' \in [Address -> Nat]
  BY <1>1, MovedVault DEF BondFor, TypeOK
<1>3. allowance' \in [Address -> [Address -> Nat]]
  BY <1>1 DEF BondFor, TypeOK, Token!Spent, Token!Allows
<1>4. [agentId |-> a, depositor |-> d, amount |-> v, closed |-> FALSE] \in Bond
  BY <1>1 DEF Bond, Party
<1>5. bonds' \in [BondKey -> Bond \cup {NoBond}]
  BY <1>4 DEF BondFor, TypeOK
<1>6. stakeOf' \in [AgentId -> Nat]
  BY <1>1 DEF BondFor, TypeOK
<1> QED BY <1>2, <1>3, <1>5, <1>6 DEF BondFor, TypeOK

LEMMA BondForCustody ==
    ASSUME CustodyInv, NEW o \in Operator, NEW k \in BondKey, NEW a \in AgentId, NEW d \in Party,
           NEW v \in Amount, BondFor(o, k, a, d, v, balanceOf), UNCHANGED owners
    PROVE  VaultCustody'
<1>1. v \in Nat /\ d # NoOne
  BY VaultAssumption DEF Party
<1>2. bonds \in [BondKey -> Bond \cup {NoBond}]
      /\ bonds' = [bonds EXCEPT ![k] =
            [agentId |-> a, depositor |-> d, amount |-> v, closed |-> FALSE]]
  BY DEF CustodyInv, TypeOK, BondFor
<1>3. ~IsOpen(k) /\ ~bonds[k].closed
  BY <1>2, VaultAssumption DEF BondFor, BondFresh, BondExists, IsOpen, Bond, NoBond
<1>4. /\ OpenKeys' = OpenKeys \cup {k} /\ k \notin OpenKeys
      /\ OpenFor(a)' = OpenFor(a) \cup {k} /\ k \notin OpenFor(a)
      /\ \A b \in AgentId : b # a => OpenFor(b)' = OpenFor(b)
  BY <1>1, <1>2, <1>3 DEF OpenKeys, OpenFor, IsOpen, BondExists
<1>5. \A b \in AgentId : ClosedFor(b)' = ClosedFor(b) /\ k \notin ClosedFor(b)
  BY <1>2, <1>3 DEF ClosedFor
<1>6. ASSUME NEW S \in SUBSET BondKey, k \notin S
      PROVE  /\ Total(Collateral', S) = Total(Collateral, S)
             /\ Total(Collateral', S \cup {k}) = Total(Collateral, S) + v
  <2>1. AgreeOn(Collateral, Collateral', S)
    BY <1>2, <1>6 DEF AgreeOn, Collateral
  <2>2. Collateral'[k] = v
    BY <1>2 DEF Collateral
  <2>3. IsFiniteSet(S) /\ Amounts(Collateral, S)
    BY CollateralTyped DEF CustodyInv
  <2>4. Total(Collateral', S \cup {k}) = Total(Collateral, S) + v
    BY <1>1, <1>6, <2>1, <2>2, <2>3, TotalEnter
  <2>5. Total(Collateral', S) = Total(Collateral, S)
    BY <2>1, TotalSame DEF AgreeOn
  <2> QED BY <2>4, <2>5
<1>7. balanceOf'[Vault] = balanceOf[Vault] + v
  BY <1>1, MovedVault DEF CustodyInv, TypeOK, BondFor
<1>8. balanceOf'[Vault] = Total(Collateral', OpenKeys')
  BY <1>4, <1>6, <1>7, KeySets DEF CustodyInv, VaultCustody
<1>9. ASSUME NEW b \in AgentId PROVE stakeOf'[b] = Total(Collateral', OpenFor(b)')
  <2>1. OpenFor(b) \in SUBSET BondKey /\ k \notin OpenFor(b)
    BY <1>3, KeySets DEF OpenFor, OpenKeys
  <2>2. stakeOf[b] = Total(Collateral, OpenFor(b))
    BY DEF CustodyInv, VaultCustody
  <2>3. stakeOf'[b] = IF b = a THEN stakeOf[b] + v ELSE stakeOf[b]
    BY DEF BondFor, CustodyInv, TypeOK
  <2> QED BY <1>4, <1>6, <2>1, <2>2, <2>3
<1>10. ASSUME NEW b \in AgentId PROVE slashedOf'[b] <= Total(Collateral', ClosedFor(b)')
  <2>1. slashedOf[b] <= Total(Collateral, ClosedFor(b)) /\ slashedOf' = slashedOf
    BY DEF CustodyInv, VaultCustody, BondFor
  <2> QED BY <1>5, <1>6, <2>1, KeySets
<1> QED BY <1>8, <1>9, <1>10 DEF VaultCustody

-----------------------------------------------------------------------------
(* Closing one. *)

LEMMA PayOutTyped ==
    ASSUME TypeOK, NEW o \in Operator, NEW k \in BondKey, NEW to \in Party,
           Release(o, k, to) \/ Slash(o, k, to), UNCHANGED owners
    PROVE  TypeOK'
<1>1. PayOut(o, k, to) /\ IsOpen(k)
  BY DEF Release, Slash, PayOut, Close
<1>2. bonds[k] \in Bond /\ bonds[k].agentId \in AgentId /\ bonds[k].amount \in Nat
  BY <1>1, OpenBondTyped
<1>3. balanceOf' \in [Address -> Nat]
  BY <1>1, <1>2, MovedVault DEF PayOut, TypeOK
<1>4. [bonds[k] EXCEPT !.closed = TRUE] \in Bond
  BY <1>2 DEF Bond
<1>5. bonds' = [bonds EXCEPT ![k] = [bonds[k] EXCEPT !.closed = TRUE]]
  BY <1>1 DEF PayOut, Close
<1>6. bonds' \in [BondKey -> Bond \cup {NoBond}]
  BY <1>4, <1>5 DEF TypeOK
<1>7. stakeOf' \in [AgentId -> Nat]
  BY <1>1, <1>2 DEF PayOut, Close, TypeOK
<1>8. slashedOf' \in [AgentId -> Nat]
  BY <1>2 DEF Release, Slash, TypeOK
<1> QED BY <1>1, <1>3, <1>6, <1>7, <1>8 DEF PayOut, TypeOK

LEMMA PayOutCustody ==
    ASSUME CustodyInv, NEW o \in Operator, NEW k \in BondKey, NEW to \in Party,
           Release(o, k, to) \/ Slash(o, k, to), UNCHANGED owners
    PROVE  VaultCustody'
<1>1. PayOut(o, k, to) /\ IsOpen(k)
  BY DEF Release, Slash, PayOut, Close
<1> PICK a \in AgentId, v \in Nat : a = bonds[k].agentId /\ v = bonds[k].amount
  BY <1>1, OpenBondTyped DEF CustodyInv
<1>2. bonds[k] \in Bond /\ ~bonds[k].closed
  BY <1>1, OpenBondTyped DEF CustodyInv
<1>3. /\ bonds \in [BondKey -> Bond \cup {NoBond}]
      /\ bonds' = [bonds EXCEPT ![k] = [bonds[k] EXCEPT !.closed = TRUE]]
  BY <1>1 DEF PayOut, Close, CustodyInv, TypeOK
<1>4. /\ \A j \in BondKey \ {k} : bonds'[j] = bonds[j]
      /\ bonds'[k].closed /\ bonds'[k].agentId = a /\ bonds'[k].amount = v
      /\ bonds'[k].depositor = bonds[k].depositor
  BY <1>2, <1>3 DEF Bond
<1>5. Collateral' = Collateral
  BY <1>4 DEF Collateral
<1>6. /\ OpenKeys' = OpenKeys \ {k} /\ k \in OpenKeys
      /\ OpenFor(a)' = OpenFor(a) \ {k} /\ k \in OpenFor(a)
      /\ \A b \in AgentId : b # a => OpenFor(b)' = OpenFor(b)
  BY <1>1, <1>4 DEF OpenKeys, OpenFor, IsOpen, BondExists
<1>7. /\ ClosedFor(a)' = ClosedFor(a) \cup {k} /\ k \notin ClosedFor(a)
      /\ \A b \in AgentId : b # a => ClosedFor(b)' = ClosedFor(b)
  BY <1>2, <1>4 DEF ClosedFor
<1>8. Collateral[k] = v
  BY DEF Collateral
<1>9. ASSUME NEW S \in SUBSET BondKey, k \in S
      PROVE  Total(Collateral, S \ {k}) = Total(Collateral, S) - v
  <2>1. IsFiniteSet(S) /\ Amounts(Collateral, S)
    BY CollateralTyped DEF CustodyInv
  <2>2. Total(Collateral, S) = Collateral[k] + Total(Collateral, S \ {k})
    BY <1>9, <2>1, TotalSplit
  <2>3. Total(Collateral, S \ {k}) \in Nat
    BY <1>9, <2>1, TotalSplit
  <2> QED BY <1>8, <2>2, <2>3
<1>10. ASSUME NEW S \in SUBSET BondKey, k \notin S
       PROVE  /\ Total(Collateral, S \cup {k}) = Total(Collateral, S) + v
              /\ Total(Collateral, S) \in Nat
  <2>1. IsFiniteSet(S) /\ Amounts(Collateral, S) /\ AgreeOn(Collateral, Collateral, S)
    BY CollateralTyped DEF CustodyInv, AgreeOn
  <2> QED BY <1>2, <1>8, <1>10, <2>1, TotalEnter
<1>11. balanceOf'[Vault] = balanceOf[Vault] - v
  BY <1>1, <1>2, MovedVault DEF PayOut, CustodyInv, TypeOK
<1>12. /\ stakeOf \in [AgentId -> Nat] /\ slashedOf \in [AgentId -> Nat]
       /\ stakeOf' = [stakeOf EXCEPT ![a] = @ - v]
       /\ slashedOf' = slashedOf \/ slashedOf' = [slashedOf EXCEPT ![a] = @ + v]
  BY DEF CustodyInv, TypeOK, Release, Slash, PayOut, Close
<1>13. KeySets!1 /\ OpenFor(a) \in SUBSET BondKey /\ ClosedFor(a) \in SUBSET BondKey
  BY KeySets
<1>14. balanceOf'[Vault] = Total(Collateral', OpenKeys')
  BY <1>5, <1>6, <1>9, <1>11, <1>13 DEF CustodyInv, VaultCustody
<1>15. ASSUME NEW b \in AgentId PROVE stakeOf'[b] = Total(Collateral', OpenFor(b)')
  <2>1. stakeOf[b] = Total(Collateral, OpenFor(b))
    BY DEF CustodyInv, VaultCustody
  <2>2. stakeOf'[b] = IF b = a THEN stakeOf[b] - v ELSE stakeOf[b]
    BY <1>12
  <2>3. CASE b = a
    <3>1. Total(Collateral, OpenFor(a) \ {k}) = Total(Collateral, OpenFor(a)) - v
      BY <1>6, <1>9, <1>13
    <3> QED BY <1>5, <1>6, <2>1, <2>2, <2>3, <3>1
  <2>4. CASE b # a
    BY <1>5, <1>6, <2>1, <2>2, <2>4
  <2> QED BY <2>3, <2>4
<1>16. ASSUME NEW b \in AgentId PROVE slashedOf'[b] <= Total(Collateral', ClosedFor(b)')
  <2>1. slashedOf[b] <= Total(Collateral, ClosedFor(b)) /\ slashedOf[b] \in Nat
    BY <1>12 DEF CustodyInv, VaultCustody
  <2>2. CASE b = a
    <3>1. slashedOf'[b] <= slashedOf[b] + v
      BY <1>2, <1>12, <2>1, <2>2
    <3>2. slashedOf'[b] \in Nat
      BY <1>2, <1>12, <2>1, <2>2
    <3>3. /\ Total(Collateral', ClosedFor(b)') = Total(Collateral, ClosedFor(b)) + v
          /\ Total(Collateral, ClosedFor(b)) \in Nat
      <4>1. /\ Total(Collateral, ClosedFor(a) \cup {k}) = Total(Collateral, ClosedFor(a)) + v
            /\ Total(Collateral, ClosedFor(a)) \in Nat
        BY <1>7, <1>10, <1>13
      <4> QED BY <1>5, <1>7, <2>2, <4>1
    <3> QED BY <1>2, <2>1, <3>1, <3>2, <3>3
  <2>3. CASE b # a
    <3>1. slashedOf'[b] = slashedOf[b]
      BY <1>12, <2>3
    <3> QED BY <1>5, <1>7, <2>1, <2>3, <3>1
  <2> QED BY <2>2, <2>3
<1> QED BY <1>14, <1>15, <1>16 DEF VaultCustody

-----------------------------------------------------------------------------
(* All steps. *)

\* A step that touches no bond, no counter and no balance.
LEMMA UntouchedCustody ==
    ASSUME VaultCustody, UNCHANGED <<bonds, stakeOf, slashedOf, balanceOf>>
    PROVE  VaultCustody'
BY DEF VaultCustody, Collateral, OpenKeys, OpenFor, ClosedFor, IsOpen, BondExists

LEMMA NextCustody == CustodyInv /\ [Next]_vars => CustodyInv'
<1> SUFFICES ASSUME CustodyInv, [Next]_vars PROVE CustodyInv'
  OBVIOUS
<1> USE DEF CustodyInv
<1>1. ASSUME NEW o \in Operator, NEW b \in BOOLEAN, SetOperator(o, b) PROVE CustodyInv'
  BY <1>1, UntouchedCustody DEF SetOperator, TypeOK
<1>2. ASSUME NEW o \in Operator, NEW k \in BondKey, NEW a \in AgentId, NEW d \in Party,
             NEW v \in Amount, BondFor(o, k, a, d, v, balanceOf), UNCHANGED owners
      PROVE CustodyInv'
  BY <1>2, BondForTyped, BondForCustody
<1>3. ASSUME NEW o \in Operator, NEW k \in BondKey, NEW to \in Party,
             Release(o, k, to) \/ Slash(o, k, to), UNCHANGED owners
      PROVE CustodyInv'
  BY <1>3, PayOutTyped, PayOutCustody
<1>4. ASSUME NEW d \in Party, NEW v \in Approvals, ApproveVault(d, v) PROVE CustodyInv'
  <2>1. v \in Nat /\ d \in Address /\ Vault \in Address
    BY VaultAssumption DEF Party
  <2>2. TypeOK'
    BY <1>4, <2>1 DEF ApproveVault, TypeOK, vaultVars
  <2> QED BY <1>4, <2>2, UntouchedCustody DEF ApproveVault, vaultVars
<1>5. ASSUME NEW a \in AgentId, NEW d \in Party, RegisterAgent(a, d) PROVE CustodyInv'
  <2>1. TypeOK'
    BY <1>5 DEF RegisterAgent, TypeOK, vaultVars
  <2> QED BY <1>5, <2>1, UntouchedCustody DEF RegisterAgent, vaultVars
<1>6. CASE UNCHANGED vars
  <2>1. TypeOK'
    BY <1>6 DEF vars, vaultVars, TypeOK
  <2> QED BY <1>6, <2>1, UntouchedCustody DEF vars, vaultVars
<1> QED BY <1>1, <1>2, <1>3, <1>4, <1>5, <1>6 DEF Next

-----------------------------------------------------------------------------
\* No counter and no balance ever goes below zero, and every bond names an agent
\* and a depositor other than the vault (AgentStakeVault.sol:75-79, 103-109).
THEOREM VaultTypeCorrect == Spec => []TypeOK
<1>1. CustodyInv => TypeOK
  BY DEF CustodyInv
<1> QED BY InitCustody, NextCustody, <1>1, PTL DEF Spec

\* The vault holds the collateral of its open bonds, to the token; an agent's stake
\* is the sum of its open bonds, and what was slashed of it no more than that of its
\* closed ones (AgentStakeVault.sol:15-19, 103-109).
THEOREM CustodyIsExact == Spec => []VaultCustody
<1>1. CustodyInv => VaultCustody
  BY DEF CustodyInv
<1> QED BY InitCustody, NextCustody, <1>1, PTL DEF Spec

FinalStep ==
    \A k \in BondKey : BondExists(k) =>
        bonds'[k] \in {bonds[k], [bonds[k] EXCEPT !.closed = TRUE]}

\* A bond is only ever closed, and only once (AgentStakeVault.sol:76, 106).
THEOREM BondsStayFinal == Spec => BondsAreFinal
<1>1. TypeOK /\ [Next]_vars => [FinalStep]_vars
  <2> SUFFICES ASSUME TypeOK, Next PROVE FinalStep
    OBVIOUS
  <2>1. ASSUME NEW j \in BondKey, BondFresh(j), NEW r, bonds' = [bonds EXCEPT ![j] = r]
        PROVE  FinalStep
    BY <2>1 DEF FinalStep, BondFresh, TypeOK
  <2>2. ASSUME NEW j \in BondKey, bonds' = [bonds EXCEPT ![j].closed = TRUE]
        PROVE  FinalStep
    BY <2>2 DEF FinalStep, TypeOK
  <2>3. ASSUME UNCHANGED bonds PROVE FinalStep
    BY <2>3 DEF FinalStep
  <2>4. ASSUME NEW o, NEW j \in BondKey, NEW to, PayOut(o, j, to) PROVE FinalStep
    BY <2>2, <2>4 DEF PayOut, Close
  <2> QED
    BY <2>1, <2>3, <2>4
    DEF Next, SetOperator, BondFor, Release, Slash, ApproveVault, RegisterAgent, vaultVars
<1>2. Spec => [][FinalStep]_vars
  BY <1>1, VaultTypeCorrect, PTL DEF Spec
<1> QED BY <1>2 DEF FinalStep, BondsAreFinal
=============================================================================
