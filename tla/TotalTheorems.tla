---------------------------- MODULE TotalTheorems ----------------------------
(***************************************************************************)
(* The laws of Total that the proofs about ledgers rest on: how a sum over  *)
(* a finite set changes when the set or one of the amounts does; and that a *)
(* set of naturals has a least one.                                         *)
(***************************************************************************)
EXTENDS Totals, FiniteSetTheorems, TLAPS

\* The amounts f gives the members of S.
Amounts(f, S) == \A x \in S : f[x] \in Nat

\* A holder has as many units as its amount.
LEMMA UnitsOfOne ==
    ASSUME NEW f, NEW x, f[x] \in Nat
    PROVE  IsFiniteSet(UnitsOf(f, x)) /\ Cardinality(UnitsOf(f, x)) = f[x]
<1>1. IsFiniteSet({x}) /\ Cardinality({x}) = 1
  BY FS_Singleton
<1>2. IsFiniteSet(1..f[x]) /\ Cardinality(1..f[x]) = f[x]
  <2>1. IsFiniteSet(1..f[x]) /\ Cardinality(1..f[x]) = IF 1 > f[x] THEN 0 ELSE f[x] - 1 + 1
    BY FS_Interval, SMTT(20)
  <2> QED BY <2>1
<1>3. IsFiniteSet(UnitsOf(f, x)) /\ Cardinality(UnitsOf(f, x)) = 1 * f[x]
  BY <1>1, <1>2, FS_Product, ZenonT(20) DEF UnitsOf
<1> QED BY <1>3

\* Finitely many holders have finitely many units.
LEMMA UnitsFinite ==
    ASSUME NEW f, NEW S, IsFiniteSet(S), Amounts(f, S)
    PROVE  IsFiniteSet(Units(f, S))
<1> DEFINE own == [x \in S |-> UnitsOf(f, x)]
           all == {UnitsOf(f, x) : x \in S}
<1>1. own \in Surjection(S, all)
  BY DEF Surjection
<1>2. IsFiniteSet(all)
  BY <1>1, FS_Surjection
<1>3. \A T \in all : IsFiniteSet(T)
  BY UnitsOfOne DEF Amounts
<1> HIDE DEF all
<1>4. IsFiniteSet(UNION all)
  BY <1>2, <1>3, FS_UNION
<1> QED BY <1>4 DEF all, Units

LEMMA TotalType ==
    ASSUME NEW f, NEW S, IsFiniteSet(S), Amounts(f, S)
    PROVE  Total(f, S) \in Nat
BY UnitsFinite, FS_CardinalityType DEF Total

LEMMA TotalEmpty == \A f : Total(f, {}) = 0
<1>1. \A f : Units(f, {}) = {}
  BY DEF Units
<1> QED BY <1>1, FS_EmptySet DEF Total

\* Only the amounts of the members matter.
LEMMA TotalSame ==
    ASSUME NEW f, NEW g, NEW S, \A x \in S : f[x] = g[x]
    PROVE  Total(f, S) = Total(g, S)
<1>1. \A x \in S : UnitsOf(f, x) = UnitsOf(g, x)
  BY DEF UnitsOf
<1>2. Units(f, S) = Units(g, S)
  BY <1>1 DEF Units
<1> QED BY <1>2 DEF Total

\* Two disjoint groups of holders have the sum of their totals.
LEMMA TotalUnion ==
    ASSUME NEW f, NEW S, NEW T, IsFiniteSet(S), IsFiniteSet(T), S \cap T = {},
           Amounts(f, S), Amounts(f, T)
    PROVE  Total(f, S \cup T) = Total(f, S) + Total(f, T)
<1>1. Units(f, S \cup T) = Units(f, S) \cup Units(f, T)
  BY DEF Units
<1>2. Units(f, S) \cap Units(f, T) = {}
  <2> SUFFICES ASSUME NEW u \in Units(f, S), u \in Units(f, T) PROVE FALSE
    OBVIOUS
  <2>1. PICK x \in S : u \in UnitsOf(f, x)
    BY DEF Units
  <2>2. PICK y \in T : u \in UnitsOf(f, y)
    BY DEF Units
  <2>3. u[1] = x /\ u[1] = y
    BY <2>1, <2>2 DEF UnitsOf
  <2> QED BY <2>3
<1>3. IsFiniteSet(Units(f, S)) /\ IsFiniteSet(Units(f, T))
  BY UnitsFinite
<1>4. Cardinality(Units(f, S)) \in Nat /\ Cardinality(Units(f, T)) \in Nat
  BY <1>3, FS_CardinalityType
<1>5. Cardinality(Units(f, S) \cup Units(f, T))
        = Cardinality(Units(f, S)) + Cardinality(Units(f, T)) - Cardinality(Units(f, S) \cap Units(f, T))
  BY <1>3, FS_Union
<1>6. Cardinality(Units(f, S) \cap Units(f, T)) = 0
  BY <1>2, FS_EmptySet
<1>7. Cardinality(Units(f, S) \cup Units(f, T)) = Cardinality(Units(f, S)) + Cardinality(Units(f, T))
  BY <1>4, <1>5, <1>6
<1> QED BY <1>1, <1>7 DEF Total

\* A single holder's total is its amount.
LEMMA TotalOne ==
    ASSUME NEW f, NEW x, f[x] \in Nat
    PROVE  Total(f, {x}) = f[x]
<1>1. Units(f, {x}) = UnitsOf(f, x)
  BY DEF Units
<1> QED BY <1>1, UnitsOfOne DEF Total

\* A member's amount can be told apart from the rest.
LEMMA TotalSplit ==
    ASSUME NEW f, NEW S, IsFiniteSet(S), Amounts(f, S), NEW x \in S
    PROVE  /\ Total(f, S) = f[x] + Total(f, S \ {x})
           /\ Total(f, S \ {x}) \in Nat
           /\ f[x] \in Nat
<1>1. f[x] \in Nat /\ Amounts(f, {x}) /\ Amounts(f, S \ {x})
  BY DEF Amounts
<1>2. IsFiniteSet({x}) /\ IsFiniteSet(S \ {x})
  BY FS_Singleton, FS_RemoveElement
<1>3. {x} \cap (S \ {x}) = {} /\ {x} \cup (S \ {x}) = S
  OBVIOUS
<1>4. Total(f, {x} \cup (S \ {x})) = Total(f, {x}) + Total(f, S \ {x})
  BY <1>1, <1>2, <1>3, TotalUnion
<1>5. Total(f, S \ {x}) \in Nat
  BY <1>1, <1>2, TotalType
<1> QED BY <1>1, <1>3, <1>4, <1>5, TotalOne

\* A new member brings its amount.
LEMMA TotalAdd ==
    ASSUME NEW f, NEW S, IsFiniteSet(S), Amounts(f, S), NEW x, x \notin S, f[x] \in Nat
    PROVE  Total(f, S \cup {x}) = f[x] + Total(f, S)
<1>1. IsFiniteSet(S \cup {x}) /\ Amounts(f, S \cup {x})
  BY FS_AddElement DEF Amounts
<1>2. (S \cup {x}) \ {x} = S
  OBVIOUS
<1> QED BY <1>1, <1>2, TotalSplit

\* Nobody holds more than there is.
LEMMA TotalBounds ==
    ASSUME NEW f, NEW S, IsFiniteSet(S), Amounts(f, S), NEW x \in S
    PROVE  f[x] <= Total(f, S)
<1>1. Total(f, S) = f[x] + Total(f, S \ {x})
  BY TotalSplit
<1>2. Total(f, S \ {x}) \in Nat
  BY TotalSplit
<1>3. f[x] \in Nat
  BY DEF Amounts
<1> QED BY <1>1, <1>2, <1>3

\* Neither do two of them together.
LEMMA TotalBoundsTwo ==
    ASSUME NEW f, NEW S, IsFiniteSet(S), Amounts(f, S), NEW x \in S, NEW y \in S, x # y
    PROVE  f[x] + f[y] <= Total(f, S)
<1>1. IsFiniteSet(S \ {x}) /\ Amounts(f, S \ {x}) /\ y \in S \ {x}
  BY FS_RemoveElement DEF Amounts
<1>2. f[y] <= Total(f, S \ {x})
  BY <1>1, TotalBounds
<1>3. f[y] \in Nat
  BY DEF Amounts
<1> QED BY <1>2, <1>3, TotalSplit

\* A total of nothing is nothing.
LEMMA TotalZero ==
    ASSUME NEW f, NEW S, \A x \in S : f[x] = 0
    PROVE  Total(f, S) = 0
<1>1. \A x \in S : UnitsOf(f, x) = {}
  BY DEF UnitsOf
<1>2. Units(f, S) = {}
  BY <1>1 DEF Units
<1> QED BY <1>2, FS_EmptySet DEF Total

-----------------------------------------------------------------------------
(* What an update of one amount does to a total.  The hypotheses are named,  *)
(* so that a prover finds the instance it needs.                             *)

\* f and g give the members of S the same amounts, but for x.
AgreeOff(f, g, S, x) == \A y \in S \ {x} : g[y] = f[y]

\* When one amount changes the total changes by the difference.
LEMMA TotalUpdate ==
    ASSUME NEW f, NEW g, NEW S, NEW x, IsFiniteSet(S), x \in S, Amounts(f, S), Amounts(g, S),
           AgreeOff(f, g, S, x)
    PROVE  /\ Total(g, S) = Total(f, S) - f[x] + g[x]
           /\ Total(f, S) \in Nat /\ Total(g, S) \in Nat
           /\ f[x] \in Nat /\ g[x] \in Nat
<1>1. Total(g, S \ {x}) = Total(f, S \ {x})
  BY TotalSame DEF AgreeOff
<1>2. Total(f, S) = f[x] + Total(f, S \ {x})
  BY TotalSplit
<1>3. Total(g, S) = g[x] + Total(g, S \ {x})
  BY TotalSplit
<1>4. Total(f, S \ {x}) \in Nat
  BY TotalSplit
<1>5. f[x] \in Nat /\ g[x] \in Nat
  BY DEF Amounts
<1> QED BY <1>1, <1>2, <1>3, <1>4, <1>5

-----------------------------------------------------------------------------
(* A member that comes or goes. *)

\* f and g give the members of S the same amounts.
AgreeOn(f, g, S) == \A y \in S : g[y] = f[y]

\* A newcomer brings its amount.
LEMMA TotalEnter ==
    ASSUME NEW f, NEW g, NEW S, NEW x, IsFiniteSet(S), Amounts(f, S), AgreeOn(f, g, S),
           x \notin S, g[x] \in Nat
    PROVE  /\ Total(g, S \cup {x}) = Total(f, S) + g[x]
           /\ Total(f, S) \in Nat
<1>1. Amounts(g, S)
  BY DEF Amounts, AgreeOn
<1>2. Total(g, S) = Total(f, S)
  BY TotalSame DEF AgreeOn
<1>3. Total(f, S) \in Nat
  BY TotalType
<1>4. Total(g, S \cup {x}) = g[x] + Total(g, S)
  BY <1>1, TotalAdd
<1> QED BY <1>2, <1>3, <1>4

\* T has one member more than S, and g gives it v.
Grown(f, g, S, T, v) ==
    AgreeOn(f, g, S) /\ \E x : x \notin S /\ T = S \cup {x} /\ g[x] = v

LEMMA TotalGrows ==
    ASSUME NEW f, NEW g, NEW S, NEW T, NEW v \in Nat, IsFiniteSet(S), Amounts(f, S),
           Grown(f, g, S, T, v)
    PROVE  Total(g, T) = Total(f, S) + v /\ Total(f, S) \in Nat
<1>1. PICK x : x \notin S /\ T = S \cup {x} /\ g[x] = v
  BY DEF Grown
<1>2. AgreeOn(f, g, S) /\ g[x] \in Nat
  BY <1>1 DEF Grown
<1>3. Total(g, S \cup {x}) = Total(f, S) + g[x]
  BY <1>1, <1>2, TotalEnter
<1>4. Total(f, S) \in Nat
  BY TotalType
<1> QED BY <1>1, <1>3, <1>4

\* A leaver takes its amount along.
LEMMA TotalLeave ==
    ASSUME NEW f, NEW g, NEW S, NEW x, IsFiniteSet(S), Amounts(f, S), AgreeOn(f, g, S \ {x}),
           x \in S
    PROVE  /\ Total(g, S \ {x}) = Total(f, S) - f[x]
           /\ Total(g, S \ {x}) \in Nat
           /\ f[x] \in Nat
           /\ Total(f, S) \in Nat
<1>1. Total(f, S) = f[x] + Total(f, S \ {x})
  BY TotalSplit
<1>2. Total(f, S \ {x}) \in Nat
  BY TotalSplit
<1>3. f[x] \in Nat
  BY DEF Amounts
<1>4. Total(g, S \ {x}) = Total(f, S \ {x})
  BY TotalSame DEF AgreeOn
<1> QED BY <1>1, <1>2, <1>3, <1>4

-----------------------------------------------------------------------------
(* Ledgers: functions from a finite set of holders to amounts. *)

Plus(b, x, v) == [b EXCEPT ![x] = @ + v]
Minus(b, x, v) == [b EXCEPT ![x] = @ - v]

\* A credit adds to the total what it adds to one holder.
LEMMA TotalPlus ==
    ASSUME NEW S, NEW b, NEW x, NEW v, IsFiniteSet(S), b \in [S -> Nat], x \in S, v \in Nat
    PROVE  /\ Plus(b, x, v) \in [S -> Nat]
           /\ Total(Plus(b, x, v), S) = Total(b, S) + v
           /\ Total(b, S) \in Nat
<1> DEFINE c == Plus(b, x, v)
<1>1. c \in [S -> Nat] /\ c[x] = b[x] + v
  BY DEF Plus
<1>2. AgreeOff(b, c, S, x)
  BY DEF Plus, AgreeOff
<1>3. Amounts(b, S) /\ Amounts(c, S)
  BY <1>1 DEF Amounts
<1> HIDE DEF c
<1>4. Total(c, S) = Total(b, S) - b[x] + c[x]
  BY <1>2, <1>3, TotalUpdate
<1>5. Total(b, S) \in Nat
  BY <1>3, TotalType
<1>6. b[x] \in Nat
  OBVIOUS
<1>7. Total(c, S) = Total(b, S) + v
  BY <1>1, <1>4, <1>5, <1>6
<1> QED BY <1>1, <1>5, <1>7 DEF c

\* A debit takes away what it takes from one holder.
LEMMA TotalMinus ==
    ASSUME NEW S, NEW b, NEW x, NEW v, IsFiniteSet(S), b \in [S -> Nat], x \in S, v \in Nat,
           v <= b[x]
    PROVE  /\ Minus(b, x, v) \in [S -> Nat]
           /\ Total(Minus(b, x, v), S) = Total(b, S) - v
           /\ Total(b, S) \in Nat
<1> DEFINE c == Minus(b, x, v)
<1>1. c \in [S -> Nat] /\ c[x] = b[x] - v
  BY DEF Minus
<1>2. AgreeOff(b, c, S, x)
  BY DEF Minus, AgreeOff
<1>3. Amounts(b, S) /\ Amounts(c, S)
  BY <1>1 DEF Amounts
<1> HIDE DEF c
<1>4. Total(c, S) = Total(b, S) - b[x] + c[x]
  BY <1>2, <1>3, TotalUpdate
<1>5. Total(b, S) \in Nat
  BY <1>3, TotalType
<1>6. b[x] \in Nat
  OBVIOUS
<1>7. Total(c, S) = Total(b, S) - v
  BY <1>1, <1>4, <1>5, <1>6
<1> QED BY <1>1, <1>5, <1>7 DEF c

\* A transfer keeps the total, also one to oneself.
LEMMA TotalMove ==
    ASSUME NEW S, NEW b, NEW from, NEW to, NEW v, IsFiniteSet(S), b \in [S -> Nat],
           from \in S, to \in S, v \in Nat, v <= b[from]
    PROVE  /\ Plus(Minus(b, from, v), to, v) \in [S -> Nat]
           /\ Total(Plus(Minus(b, from, v), to, v), S) = Total(b, S)
<1>1. Minus(b, from, v) \in [S -> Nat] /\ Total(Minus(b, from, v), S) = Total(b, S) - v
      /\ Total(b, S) \in Nat
  BY TotalMinus
<1>2. /\ Plus(Minus(b, from, v), to, v) \in [S -> Nat]
      /\ Total(Plus(Minus(b, from, v), to, v), S) = Total(Minus(b, from, v), S) + v
  BY <1>1, TotalPlus
<1> QED BY <1>1, <1>2

-----------------------------------------------------------------------------
(* Amounts of either sign. *)

Balances(f, S) == \A x \in S : f[x] \in Int

LEMMA GainsAndLosses ==
    ASSUME NEW f, NEW S, Balances(f, S)
    PROVE  Amounts(Gains(f, S), S) /\ Amounts(Losses(f, S), S)
BY DEF Amounts, Balances, Gains, Losses

LEMMA NetTotalType ==
    ASSUME NEW f, NEW S, IsFiniteSet(S), Balances(f, S)
    PROVE  NetTotal(f, S) \in Int
<1>1. Amounts(Gains(f, S), S) /\ Amounts(Losses(f, S), S)
  BY GainsAndLosses
<1>2. Total(Gains(f, S), S) \in Nat /\ Total(Losses(f, S), S) \in Nat
  BY <1>1, TotalType
<1> QED BY <1>2 DEF NetTotal

\* Only the balances of the members matter.
LEMMA NetTotalSame ==
    ASSUME NEW f, NEW g, NEW S, \A x \in S : f[x] = g[x]
    PROVE  NetTotal(f, S) = NetTotal(g, S)
<1>1. Gains(f, S) = Gains(g, S) /\ Losses(f, S) = Losses(g, S)
  BY DEF Gains, Losses
<1> QED BY <1>1 DEF NetTotal

LEMMA NetTotalZero ==
    ASSUME NEW f, NEW S, \A x \in S : f[x] = 0
    PROVE  NetTotal(f, S) = 0
<1>1. \A x \in S : Gains(f, S)[x] = 0 /\ Losses(f, S)[x] = 0
  BY DEF Gains, Losses
<1>2. Total(Gains(f, S), S) = 0 /\ Total(Losses(f, S), S) = 0
  BY <1>1, TotalZero
<1> QED BY <1>2 DEF NetTotal

\* When one balance changes the net total changes by the difference.
LEMMA NetTotalUpdate ==
    ASSUME NEW f, NEW g, NEW S, NEW x, IsFiniteSet(S), x \in S, Balances(f, S), Balances(g, S),
           AgreeOff(f, g, S, x)
    PROVE  /\ NetTotal(g, S) = NetTotal(f, S) - f[x] + g[x]
           /\ NetTotal(f, S) \in Int
           /\ f[x] \in Int /\ g[x] \in Int
<1> DEFINE fg == Gains(f, S)  gg == Gains(g, S)
           fl == Losses(f, S) gl == Losses(g, S)
<1>1. Amounts(fg, S) /\ Amounts(fl, S) /\ Amounts(gg, S) /\ Amounts(gl, S)
  BY GainsAndLosses
<1>2. AgreeOff(fg, gg, S, x) /\ AgreeOff(fl, gl, S, x)
  BY DEF AgreeOff, Gains, Losses
<1>3. f[x] \in Int /\ g[x] \in Int
  BY DEF Balances
<1>4. fg[x] - fl[x] = f[x] /\ gg[x] - gl[x] = g[x]
  BY <1>3 DEF Gains, Losses
<1>5. NetTotal(f, S) \in Int
  BY NetTotalType
<1>6. NetTotal(f, S) = Total(fg, S) - Total(fl, S) /\ NetTotal(g, S) = Total(gg, S) - Total(gl, S)
  BY DEF NetTotal
<1> HIDE DEF fg, fl, gg, gl
<1>7. /\ Total(gg, S) = Total(fg, S) - fg[x] + gg[x] /\ Total(fg, S) \in Nat
      /\ fg[x] \in Nat /\ gg[x] \in Nat
  BY <1>1, <1>2, TotalUpdate
<1>8. /\ Total(gl, S) = Total(fl, S) - fl[x] + gl[x] /\ Total(fl, S) \in Nat
      /\ fl[x] \in Nat /\ gl[x] \in Nat
  BY <1>1, <1>2, TotalUpdate
<1>9. NetTotal(g, S) = NetTotal(f, S) - f[x] + g[x]
  BY <1>4, <1>6, <1>7, <1>8
<1> QED BY <1>3, <1>5, <1>9

-----------------------------------------------------------------------------
LEMMA LeastExists ==
    ASSUME NEW T, T \subseteq Nat, T # {}
    PROVE  \E x \in T : \A y \in T : x <= y
<1>1. \E x \in T : \A y \in T : <<y, x>> \notin OpToRel(<, Nat)
  BY NatLessThanWellFounded, WFMin
<1>2. \A x, y \in Nat : y < x => <<y, x>> \in OpToRel(<, Nat)
  BY DEF OpToRel
<1>3. PICK x \in T : \A y \in T : <<y, x>> \notin OpToRel(<, Nat)
  BY <1>1
<1>4. ASSUME NEW y \in T PROVE x <= y
  <2>1. x \in Nat /\ y \in Nat /\ ~(y < x)
    BY <1>2, <1>3
  <2> QED BY <2>1
<1> QED BY <1>4
=============================================================================
