--------------------------- MODULE EvidencePolicy ---------------------------
(***************************************************************************)
(* How a resolver comes to its verdict (src/priceright/policy.py): a claim  *)
(* is a threshold question, evidence arrives line by line, and the median   *)
(* of the readings that are about the claim answers it.  A text or a line   *)
(* is given by what the parsers can find in it, in order; they take the     *)
(* first of each.  Numbers are compared doubled, so that half of a sum is   *)
(* a whole number.                                                          *)
(***************************************************************************)
EXTENDS Integers, Sequences, FiniteSets

CONSTANTS
    Symbol,     \* what a quote can be of
    Texts,      \* claims as texts: sequences of [symbol, op, threshold, block]
    Lines,      \* lines of evidence: [quotes: sequence of [symbol, value], blocks: sequence]
    Quotes,     \* what the stale policy has cached: symbol -> value
    MaxLines    \* bound on the length of the evidence

NoBlock == -1   \* a claim or a reading that names no block

Op == {">=", ">", "<=", "<"}

\* The parsers find no signs: a number is not negative.
PolicyAssumption ==
    /\ MaxLines \in Nat
    /\ Texts \subseteq Seq([symbol : Symbol, op : Op, threshold : Nat, block : Nat \cup {NoBlock}])
    /\ Lines \subseteq [quotes : Seq([symbol : Symbol, value : Nat]), blocks : Seq(Nat)]
    /\ DOMAIN Quotes \subseteq Symbol /\ \A symbol \in DOMAIN Quotes : Quotes[symbol] \in Nat

VARIABLES text, evidence

vars == <<text, evidence>>

Verdict == {"Abstain", "Yes", "No"}

-----------------------------------------------------------------------------
(* Parsing. *)

Checkable == text # <<>>
Claim == Head(text)

Reading(line) ==
    [symbol |-> Head(line.quotes).symbol, value |-> Head(line.quotes).value,
     block |-> IF line.blocks = <<>> THEN NoBlock ELSE Head(line.blocks)]

-----------------------------------------------------------------------------
(* The decision. *)

Holds(op, a, b) ==
    CASE op = ">=" -> a >= b [] op = ">" -> a > b [] op = "<=" -> a <= b [] op = "<" -> a < b

\* A reading of another block will do.
UsableAtAnyBlock(line) == line.quotes # <<>> /\ Reading(line).symbol = Claim.symbol

Usable(line) ==
    /\ line.quotes # <<>>
    /\ Reading(line).symbol = Claim.symbol
    /\ Claim.block # NoBlock => Reading(line).block = Claim.block

UsableLines == {i \in DOMAIN evidence : Usable(evidence[i])}
Value(i) == Reading(evidence[i]).value

\* The lines in the order they came in.
SortedAsGiven(lines, k) ==
    Value(CHOOSE i \in lines : Cardinality({j \in lines : j < i}) = k)

\* The k-th of the values in ascending order, counted from 0.
Sorted(lines, k) ==
    LET at == CHOOSE i \in lines :
            /\ Cardinality({j \in lines : Value(j) < Value(i)}) <= k
            /\ Cardinality({j \in lines : Value(j) <= Value(i)}) > k
    IN  Value(at)

DoubledMedian(lines) ==
    LET n == Cardinality(lines)
    IN  IF n % 2 = 1 THEN 2 * Sorted(lines, n \div 2)
        ELSE Sorted(lines, n \div 2 - 1) + Sorted(lines, n \div 2)

Side(doubled) == IF Holds(Claim.op, doubled, 2 * Claim.threshold) THEN "Yes" ELSE "No"

EvidenceVerdict ==
    IF ~Checkable \/ (Checkable /\ UsableLines = {}) THEN "Abstain" ELSE Side(DoubledMedian(UsableLines))

StaleVerdict ==
    IF ~Checkable \/ (Checkable /\ Claim.symbol \notin DOMAIN Quotes) THEN "Abstain"
    ELSE Side(2 * Quotes[Claim.symbol])

PolicyFor(honest) == IF honest THEN EvidenceVerdict ELSE StaleVerdict

\* The agent claims a task only with a verdict it can commit to.
Committable(verdict) == verdict \in {"Yes", "No"}

-----------------------------------------------------------------------------
Init == text \in Texts /\ evidence = <<>>

AddLine(line) == Len(evidence) < MaxLines /\ evidence' = Append(evidence, line) /\ UNCHANGED text

Next == \E line \in Lines : AddLine(line)
Spec == Init /\ [][Next]_vars

-----------------------------------------------------------------------------
TypeOK ==
    /\ text \in Texts
    /\ evidence \in Seq(Lines) /\ Len(evidence) <= MaxLines
    /\ \A honest \in BOOLEAN : PolicyFor(honest) \in Verdict

\* The readings about the claim that answer it one way, each taken alone.
On(side) == {i \in UsableLines : Side(2 * Value(i)) = side}

\* More than half of the readings about the claim settle it, whatever the others say
\* and in whatever order they came; a claim with no reading is never committed to
\* (policy.py:118-131).
MajorityDecides ==
    Checkable =>
        /\ Committable(PolicyFor(TRUE)) => UsableLines # {}
        /\ \A side \in {"Yes", "No"} :
               2 * Cardinality(On(side)) > Cardinality(UsableLines) => PolicyFor(TRUE) = side

\* In every step: a line on another symbol or another block changes nothing (policy.py:119).
OtherLinesIgnored ==
    \A line \in Lines :
        Checkable /\ evidence' = Append(evidence, line)
            /\ \/ \A q \in DOMAIN line.quotes : line.quotes[q].symbol # Claim.symbol
               \/ Claim.block # NoBlock /\ (\A b \in DOMAIN line.blocks : line.blocks[b] # Claim.block)
        => EvidenceVerdict' = EvidenceVerdict

\* "Feed it evidence that agrees with its cache and it wins" (policy.py:154): when most
\* readings are on the side of the cached quote the two policies answer alike.
StaleWinsWhenTheWorldAgrees ==
    Checkable /\ Committable(PolicyFor(FALSE))
        /\ 2 * Cardinality(On(Side(2 * Quotes[Claim.symbol]))) > Cardinality(UsableLines)
    => PolicyFor(FALSE) = PolicyFor(TRUE)
=============================================================================
