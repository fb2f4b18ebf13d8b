-------------------------- MODULE MockERC20Proofs --------------------------
(***************************************************************************)
(* Proofs, for any holders, nonces, amounts and width, that the token's     *)
(* balances add up to its supply, that no balance leaves the width of its   *)
(* type, and that a signed nonce is charged once.                           *)
(***************************************************************************)
EXTENDS MockERC20Properties, TotalTheorems

\* No amount exceeds the supply, so none exceeds the width; the supply is what
\* a mint checks.
SupplyInv == TypeOK /\ SupplyConserved

\* Any balances that add up to a supply within the width are within it.
LEMMA WithinWidth ==
    ASSUME NEW b \in [Address -> Nat], NEW s \in 0..MaxUint256, Total(b, Address) = s
    PROVE  b \in [Address -> 0..MaxUint256]
<1>1. IsFiniteSet(Address) /\ MaxUint256 \in Nat
  BY TokenAssumption
<1>2. Amounts(b, Address)
  BY DEF Amounts
<1>3. \A a \in Address : b[a] <= s
  BY <1>1, <1>2, TotalBounds
<1> QED BY <1>1, <1>3

\* Moving what is there keeps the balances typed and their total.
LEMMA MovedKeepsSupply ==
    ASSUME SupplyInv, NEW from \in Address, NEW to \in Address, NEW v \in Nat,
           Covers(balanceOf, from, v)
    PROVE  /\ Moved(balanceOf, from, to, v) \in [Address -> 0..MaxUint256]
           /\ Total(Moved(balanceOf, from, to, v), Address) = totalSupply
<1>1. IsFiniteSet(Address) /\ balanceOf \in [Address -> Nat] /\ totalSupply \in 0..MaxUint256
      /\ Total(balanceOf, Address) = totalSupply
  BY TokenAssumption DEF SupplyInv, TypeOK, SupplyConserved
<1>2. v <= balanceOf[from]
  BY <1>1 DEF Covers
<1>3. Moved(balanceOf, from, to, v) = Plus(Minus(balanceOf, from, v), to, v)
  BY DEF Moved, Plus, Minus
<1>4. /\ Moved(balanceOf, from, to, v) \in [Address -> Nat]
      /\ Total(Moved(balanceOf, from, to, v), Address) = totalSupply
  BY <1>1, <1>2, <1>3, TotalMove
<1> QED BY <1>1, <1>4, WithinWidth

LEMMA SpentKeepsType ==
    ASSUME TypeOK, NEW o \in Address, NEW s \in Address, NEW v \in Nat, Allows(allowance, o, s, v)
    PROVE  Spent(allowance, o, s, v) \in [Address -> [Address -> 0..MaxUint256]]
<1>1. MaxUint256 \in Nat /\ allowance[o][s] - v \in 0..MaxUint256
  BY TokenAssumption DEF TypeOK, Allows
<1> QED BY <1>1 DEF TypeOK, Spent

LEMMA InitSupply == Init => SupplyInv
<1> SUFFICES ASSUME Init PROVE SupplyInv
  OBVIOUS
<1>1. TypeOK
  BY TokenAssumption DEF Init, TypeOK
<1>2. \A a \in Address : balanceOf[a] = 0
  BY DEF Init
<1>3. Total(balanceOf, Address) = totalSupply
  BY <1>2, TotalZero DEF Init
<1> QED BY <1>1, <1>3 DEF SupplyInv, SupplyConserved

LEMMA MintSupply ==
    ASSUME SupplyInv, NEW to \in Address, NEW v \in Value, Mint(to, v)
    PROVE  SupplyInv'
<1>1. IsFiniteSet(Address) /\ MaxUint256 \in Nat /\ v \in Nat
  BY TokenAssumption
<1>2. balanceOf \in [Address -> Nat] /\ totalSupply \in Nat /\ Total(balanceOf, Address) = totalSupply
  BY <1>1 DEF SupplyInv, TypeOK, SupplyConserved
<1>3. balanceOf' \in [Address -> Nat]
  BY <1>1, <1>2 DEF Mint
<1>4. totalSupply' = totalSupply + v /\ totalSupply' \in 0..MaxUint256
  BY <1>1, <1>2 DEF Mint
<1>5. Total(balanceOf', Address) = totalSupply'
  <2>1. balanceOf' = Plus(balanceOf, to, v)
    BY DEF Mint, Plus
  <2> QED BY <1>1, <1>2, <1>4, <2>1, TotalPlus
<1>6. balanceOf' \in [Address -> 0..MaxUint256]
  BY <1>3, <1>4, <1>5, WithinWidth
<1> QED BY <1>4, <1>5, <1>6 DEF Mint, SupplyInv, TypeOK, SupplyConserved

LEMMA SignSupply ==
    ASSUME SupplyInv, NEW from \in Address, NEW to \in Address, NEW v \in Value, NEW n \in Nonce,
           Sign(from, to, v, n)
    PROVE  SupplyInv'
<1> DEFINE auth == [from |-> from, to |-> to, value |-> v, validAfter |-> 0,
                    validBefore |-> now + ValidityWindow, nonce |-> n]
<1>1. auth \in Authorization
  BY TokenAssumption DEF SupplyInv, TypeOK, Authorization
<1>2. signed' \subseteq Authorization
  BY <1>1 DEF Sign, SupplyInv, TypeOK
<1> QED BY <1>2 DEF Sign, SupplyInv, TypeOK, SupplyConserved

LEMMA PaymentSupply ==
    ASSUME SupplyInv, NEW auth \in signed, TransferWithAuthorization(auth)
    PROVE  SupplyInv'
<1>1. auth \in Authorization
  BY DEF SupplyInv, TypeOK
<1>2. /\ auth.from \in Address /\ auth.to \in Address /\ auth.value \in Nat /\ auth.nonce \in Nonce
  BY <1>1, TokenAssumption DEF Authorization
<1>3. balanceOf' \in [Address -> 0..MaxUint256] /\ Total(balanceOf', Address) = totalSupply
  BY <1>2, MovedKeepsSupply DEF TransferWithAuthorization
<1>4. authorizationState' \in [Address -> SUBSET Nonce]
  BY <1>2 DEF TransferWithAuthorization, Used, SupplyInv, TypeOK
<1> QED BY <1>3, <1>4 DEF TransferWithAuthorization, SupplyInv, TypeOK, SupplyConserved

LEMMA NextSupply == SupplyInv /\ [Next]_vars => SupplyInv'
<1> SUFFICES ASSUME SupplyInv, [Next]_vars PROVE SupplyInv'
  OBVIOUS
<1>1. ASSUME NEW to \in Address, NEW v \in Value, Mint(to, v) PROVE SupplyInv'
  BY <1>1, MintSupply
<1>2. ASSUME NEW o \in Address, NEW s \in Address, NEW v \in Approvals, Approve(o, s, v)
      PROVE SupplyInv'
  BY <1>2, TokenAssumption DEF Approve, SupplyInv, TypeOK, SupplyConserved
<1>3. ASSUME NEW from \in Address, NEW to \in Address, NEW v \in Value, Transfer(from, to, v)
      PROVE SupplyInv'
  <2>1. v \in Nat
    BY TokenAssumption
  <2>2. balanceOf' \in [Address -> 0..MaxUint256] /\ Total(balanceOf', Address) = totalSupply
    BY <1>3, <2>1, MovedKeepsSupply DEF Transfer
  <2> QED BY <1>3, <2>2 DEF Transfer, SupplyInv, TypeOK, SupplyConserved
<1>4. ASSUME NEW s \in Address, NEW from \in Address, NEW to \in Address, NEW v \in Value,
             TransferFrom(s, from, to, v)
      PROVE SupplyInv'
  <2>1. v \in Nat
    BY TokenAssumption
  <2>2. balanceOf' \in [Address -> 0..MaxUint256] /\ Total(balanceOf', Address) = totalSupply
    BY <1>4, <2>1, MovedKeepsSupply DEF TransferFrom
  <2>3. allowance' \in [Address -> [Address -> 0..MaxUint256]]
    BY <1>4, <2>1, SpentKeepsType DEF TransferFrom, SupplyInv
  <2> QED BY <1>4, <2>2, <2>3 DEF TransferFrom, SupplyInv, TypeOK, SupplyConserved
<1>5. ASSUME NEW from \in Address, NEW to \in Address, NEW v \in Value, NEW n \in Nonce,
             Sign(from, to, v, n)
      PROVE SupplyInv'
  BY <1>5, SignSupply
<1>6. ASSUME Tick PROVE SupplyInv'
  BY <1>6, TokenAssumption DEF Tick, SupplyInv, TypeOK, SupplyConserved
<1>7. ASSUME NEW auth \in signed, TransferWithAuthorization(auth) PROVE SupplyInv'
  BY <1>7, PaymentSupply
<1>8. CASE UNCHANGED vars
  BY <1>8 DEF vars, SupplyInv, TypeOK, SupplyConserved
<1> QED BY <1>1, <1>2, <1>3, <1>4, <1>5, <1>6, <1>7, <1>8 DEF Next, Others

\* Every amount stays within its width, whatever is minted, approved, signed and
\* moved: the checked and the unchecked additions of the code never overflow
\* (MockERC20.sol:52-55, 107-113).
THEOREM TokenTypeCorrect == Spec => []TypeOK
<1>1. SupplyInv => TypeOK
  BY DEF SupplyInv
<1> QED BY InitSupply, NextSupply, <1>1, PTL DEF Spec

\* The balances add up to the supply at every moment (MockERC20.sol:52-55, 107-113).
THEOREM SupplyIsConserved == Spec => []SupplyConserved
<1>1. SupplyInv => SupplyConserved
  BY DEF SupplyInv
<1> QED BY InitSupply, NextSupply, <1>1, PTL DEF Spec

-----------------------------------------------------------------------------
(* The history of payments. *)

\* A pair was paid once if the contract has marked its nonce, never otherwise.
PaidMarked ==
    /\ paid \in [Address \X Nonce -> Nat]
    /\ \A p \in Address \X Nonce :
           paid[p] = IF p[2] \in authorizationState[p[1]] THEN 1 ELSE 0

LEMMA PaymentMarks ==
    ASSUME TypeOK, PaidMarked, NEW auth \in signed, TransferWithAuthorization(auth),
           paid' = [paid EXCEPT ![<<auth.from, auth.nonce>>] = @ + 1]
    PROVE  PaidMarked'
<1> DEFINE q == <<auth.from, auth.nonce>>
<1>1. q \in Address \X Nonce /\ q[1] = auth.from /\ q[2] = auth.nonce
  BY DEF TypeOK, Authorization
<1>2. paid[q] = 0
  BY <1>1 DEF PaidMarked, TransferWithAuthorization, Authorized, UnusedNonce
<1>3. paid' \in [Address \X Nonce -> Nat]
  BY <1>1 DEF PaidMarked
<1>4. ASSUME NEW p \in Address \X Nonce
      PROVE  paid'[p] = IF p[2] \in authorizationState'[p[1]] THEN 1 ELSE 0
  <2>1. p[1] \in Address /\ auth.from \in Address /\ p = <<p[1], p[2]>>
    BY <1>1
  <2>2. authorizationState'[p[1]] =
            IF p[1] = auth.from THEN authorizationState[p[1]] \cup {auth.nonce}
                                ELSE authorizationState[p[1]]
    BY <2>1 DEF TransferWithAuthorization, Used, TypeOK
  <2>3. CASE p = q
    <3>1. paid'[p] = paid[p] + 1
      BY <2>3, <1>1 DEF PaidMarked
    <3> QED BY <1>1, <1>2, <2>2, <2>3, <3>1
  <2>4. CASE p # q
    <3>1. paid'[p] = paid[p]
      BY <2>4, <1>1 DEF PaidMarked
    <3>2. p[1] # auth.from \/ p[2] # auth.nonce
      BY <2>1, <2>4
    <3> QED BY <2>2, <3>1, <3>2 DEF PaidMarked
  <2> QED BY <2>3, <2>4
<1> QED BY <1>3, <1>4 DEF PaidMarked

\* No other call marks a nonce.
LEMMA OthersMarkNothing == Others => UNCHANGED authorizationState
BY DEF Others, Mint, Approve, Transfer, TransferFrom, Sign, Tick

\* A nonce is charged at most once, for any number of signatures over it with any
\* amounts and payees, submitted by anybody in any order (MockERC20.sol:94, 102).
THEOREM NonceIsPaidOnce == HistorySpec => []NoncePaidOnce
<1> DEFINE Inv == SupplyInv /\ PaidMarked
<1>1. HistoryInit => Inv
  <2> SUFFICES ASSUME HistoryInit PROVE PaidMarked
    BY InitSupply DEF HistoryInit
  <2> QED BY DEF HistoryInit, Init, PaidMarked
<1>2. Inv /\ [HistoryNext]_historyVars => Inv'
  <2> SUFFICES ASSUME SupplyInv, PaidMarked, [HistoryNext]_historyVars PROVE SupplyInv' /\ PaidMarked'
    OBVIOUS
  <2>1. [Next]_vars
    BY DEF HistoryNext, historyVars, Next
  <2>2. SupplyInv'
    BY <2>1, NextSupply
  <2>3. ASSUME NEW auth \in signed, TransferWithAuthorization(auth),
               paid' = [paid EXCEPT ![<<auth.from, auth.nonce>>] = @ + 1]
        PROVE  PaidMarked'
    BY <2>3, PaymentMarks DEF SupplyInv
  <2>4. ASSUME UNCHANGED <<authorizationState, paid>> PROVE PaidMarked'
    BY <2>4 DEF PaidMarked
  <2> QED BY <2>2, <2>3, <2>4, OthersMarkNothing DEF HistoryNext, historyVars, vars
<1>3. Inv => NoncePaidOnce
  BY DEF PaidMarked, NoncePaidOnce
<1> QED BY <1>1, <1>2, <1>3, PTL DEF HistorySpec
=============================================================================
