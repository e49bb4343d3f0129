---------------------------- MODULE TotalsProofs ----------------------------
(***************************************************************************)
(* What the sums of Totals are when an element comes, goes or changes, and *)
(* how they are bounded.                                                   *)
(***************************************************************************)
EXTENDS Totals, FiniteSetTheorems, TLAPS

LEMMA TotalType ==
    ASSUME NEW f, NEW S, IsFiniteSet(Tokens(f, S))
    PROVE  Total(f, S) \in Nat
BY FS_CardinalityType DEF Total

\* Where f and g agree, their sums do.
LEMMA TotalSame ==
    ASSUME NEW f, NEW g, NEW S, \A x \in S : f[x] = g[x]
    PROVE  Tokens(f, S) = Tokens(g, S) /\ Total(f, S) = Total(g, S)
<1>1. {{x} \X (1..f[x]) : x \in S} = {{x} \X (1..g[x]) : x \in S}
  OBVIOUS
<1>2. QED
  BY <1>1 DEF Tokens, Total

\* A sum of zeros, or over no elements.
LEMMA TotalZero ==
    ASSUME NEW f, NEW S, \A x \in S : f[x] = 0
    PROVE  IsFiniteSet(Tokens(f, S)) /\ Total(f, S) = 0
<1>1. Tokens(f, S) = {}
  <2>1. \A x \in S : {x} \X (1..f[x]) = {}
    OBVIOUS
  <2>2. QED
    BY <2>1 DEF Tokens
<1>2. QED
  BY <1>1, FS_EmptySet DEF Total

\* The tokens of one element.
LEMMA TokensOfOne ==
    ASSUME NEW x, NEW n \in Nat
    PROVE  IsFiniteSet({x} \X (1..n)) /\ Cardinality({x} \X (1..n)) = n
<1>1. IsFiniteSet(1..n) /\ Cardinality(1..n) = n
  BY FS_Interval
<1>2. IsFiniteSet({x}) /\ Cardinality({x}) = 1
  BY FS_Singleton
<1>3. QED
  BY <1>1, <1>2, FS_Product

LEMMA TotalAdd ==
    ASSUME NEW f, NEW S, NEW x, x \notin S, f[x] \in Nat, IsFiniteSet(Tokens(f, S))
    PROVE  /\ IsFiniteSet(Tokens(f, S \cup {x}))
           /\ Total(f, S \cup {x}) = Total(f, S) + f[x]
<1> DEFINE one == {x} \X (1..f[x])
<1>1. Tokens(f, S \cup {x}) = Tokens(f, S) \cup one
  BY DEF Tokens
<1>2. Tokens(f, S) \cap one = {}
  <2>1. \A p \in Tokens(f, S) : p[1] \in S
    BY DEF Tokens
  <2>2. \A p \in one : p[1] = x
    OBVIOUS
  <2>3. QED
    BY <2>1, <2>2
<1>3. IsFiniteSet(one) /\ Cardinality(one) = f[x]
  BY TokensOfOne
<1> HIDE DEF one
<1>4. Cardinality(Tokens(f, S) \cap one) = 0
  BY <1>2, FS_EmptySet
<1>5. Total(f, S) \in Nat
  BY TotalType
<1>6. /\ IsFiniteSet(Tokens(f, S) \cup one)
      /\ Cardinality(Tokens(f, S) \cup one) = Cardinality(Tokens(f, S)) + f[x] - 0
  BY <1>3, <1>4, FS_Union, Zenon
<1>7. Total(f, S \cup {x}) = Total(f, S) + f[x] - 0
  BY <1>1, <1>6, Zenon DEF Total
<1>8. Total(f, S \cup {x}) = Total(f, S) + f[x]
  BY <1>5, <1>7
<1>9. QED
  BY <1>1, <1>6, <1>8, Zenon

LEMMA TotalPart ==
    ASSUME NEW f, NEW S, NEW R \in SUBSET S, IsFiniteSet(Tokens(f, S))
    PROVE  IsFiniteSet(Tokens(f, R)) /\ Total(f, R) \in Nat /\ Total(f, R) <= Total(f, S)
<1>1. Tokens(f, R) \subseteq Tokens(f, S)
  BY DEF Tokens
<1>2. QED
  BY <1>1, FS_Subset, TotalType DEF Total

LEMMA TotalRemove ==
    ASSUME NEW f, NEW S, NEW x \in S, f[x] \in Nat, IsFiniteSet(Tokens(f, S))
    PROVE  /\ IsFiniteSet(Tokens(f, S \ {x})) /\ Total(f, S \ {x}) \in Nat
           /\ Total(f, S) = Total(f, S \ {x}) + f[x]
<1>1. IsFiniteSet(Tokens(f, S \ {x})) /\ Total(f, S \ {x}) \in Nat
  BY TotalPart
<1>2. S = (S \ {x}) \cup {x} /\ x \notin S \ {x}
  OBVIOUS
<1>3. QED
  BY <1>1, <1>2, TotalAdd

\* The sums of f and of g over S have everything in common but what x adds.
DifferAt(f, g, S, x) ==
    /\ IsFiniteSet(Tokens(g, S)) /\ Total(f, S \ {x}) \in Nat
    /\ Total(f, S) = Total(f, S \ {x}) + f[x]
    /\ Total(g, S) = Total(f, S \ {x}) + g[x]

\* The value of one element changes.
LEMMA TotalChange ==
    ASSUME NEW f, NEW g, NEW S, NEW x \in S, f[x] \in Nat, g[x] \in Nat,
           \A y \in S \ {x} : f[y] = g[y], IsFiniteSet(Tokens(f, S))
    PROVE  DifferAt(f, g, S, x)
<1> DEFINE R == S \ {x}
<1>1. /\ IsFiniteSet(Tokens(f, R)) /\ Total(f, R) \in Nat
      /\ Total(f, S) = Total(f, R) + f[x]
  BY TotalRemove
<1>2. Tokens(g, R) = Tokens(f, R) /\ Total(g, R) = Total(f, R)
  BY TotalSame
<1>3. S = R \cup {x} /\ x \notin R
  OBVIOUS
<1> HIDE DEF R
<1>4. IsFiniteSet(Tokens(g, R))
  BY <1>1, <1>2, Zenon
<1>5. IsFiniteSet(Tokens(g, S)) /\ Total(g, S) = Total(g, R) + g[x]
  BY <1>3, <1>4, TotalAdd
<1>6. Total(g, S) = Total(f, R) + g[x]
  BY <1>2, <1>5, Zenon
<1>7. QED
  BY <1>1, <1>5, <1>6, Zenon DEF R, DifferAt

\* A finite set of elements of m units at most.
LEMMA TotalBounded ==
    ASSUME NEW f, NEW S, IsFiniteSet(S), NEW m \in Nat, \A x \in S : f[x] \in Nat /\ f[x] <= m
    PROVE  /\ IsFiniteSet(Tokens(f, S))
           /\ Total(f, S) \in Nat /\ Total(f, S) <= Cardinality(S) * m
<1>1. Tokens(f, S) \subseteq S \X (1..m)
  BY DEF Tokens
<1>2. IsFiniteSet(1..m) /\ Cardinality(1..m) = m
  BY FS_Interval
<1>3. IsFiniteSet(S \X (1..m)) /\ Cardinality(S \X (1..m)) = Cardinality(S) * m
  BY <1>2, FS_Product
<1>4. QED
  BY <1>1, <1>3, FS_Subset, TotalType DEF Total

LEMMA TotalMonotone ==
    ASSUME NEW f, NEW g, NEW S, \A x \in S : f[x] \in Nat /\ g[x] \in Nat /\ f[x] <= g[x],
           IsFiniteSet(Tokens(g, S))
    PROVE  IsFiniteSet(Tokens(f, S)) /\ Total(f, S) \in Nat /\ Total(f, S) <= Total(g, S)
<1>1. Tokens(f, S) \subseteq Tokens(g, S)
  <2>1. \A x \in S : {x} \X (1..f[x]) \subseteq {x} \X (1..g[x])
    OBVIOUS
  <2>2. QED
    BY <2>1 DEF Tokens
<1>2. QED
  BY <1>1, FS_Subset, TotalType DEF Total
=============================================================================
