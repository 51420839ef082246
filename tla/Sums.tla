-------------------------------- MODULE Sums --------------------------------
(***************************************************************************)
(* What SumFunctionOnSet of the community modules computes, for any finite *)
(* set: the stage queue adds up the costs of a run's stages and of a       *)
(* stage's attempts with it (_rollup_run, the SUM of a SELECT).            *)
(*                                                                         *)
(* The operator is a recursive function, and a recursive function in TLA+  *)
(* is some function that satisfies its equation, if there is one.  That    *)
(* there is one is shown by naming it: the number of units f counts.  That *)
(* there is no other follows from a smallest subset on which two would     *)
(* differ (WFMin).                                                         *)
(***************************************************************************)
EXTENDS Functions, FiniteSetTheorems, WellFoundedInduction, TLAPS

\* One element for each unit that f counts on S.
Units(f, S) == UNION {{x} \X (1..f[x]) : x \in S}

\* A finite set on which f is a natural number.
Countable(f, S) == IsFiniteSet(S) /\ \A x \in S : f[x] \in Nat

\* The units of a finite set are finitely many.
LEMMA UnitsAreFinite ==
  ASSUME NEW f, NEW S, Countable(f, S)
  PROVE  IsFiniteSet(Units(f, S)) /\ Cardinality(Units(f, S)) \in Nat
<1> DEFINE boxes == {{x} \X (1..f[x]) : x \in S}
<1> DEFINE box == [x \in S |-> {x} \X (1..f[x])]
<1>1. box \in Surjection(S, boxes)
  BY DEF Surjection
<1>2. IsFiniteSet(boxes)
  <2> HIDE DEF box, boxes
  <2> QED BY <1>1, FS_Surjection DEF Countable
<1>3. \A T \in boxes : IsFiniteSet(T)
  <2>1. ASSUME NEW x \in S PROVE IsFiniteSet({x} \X (1..f[x]))
    <3>1. IsFiniteSet({x}) BY FS_Singleton
    <3>2. f[x] \in Int BY DEF Countable
    <3>3. IsFiniteSet(1..f[x]) BY <3>2, FS_Interval
    <3> QED BY <3>1, <3>3, FS_Product
  <2> QED BY <2>1
<1>4. IsFiniteSet(UNION boxes)
  <2> HIDE DEF boxes
  <2> QED BY <1>2, <1>3, FS_UNION
<1> QED BY <1>4, FS_CardinalityType DEF Units

\* One more element brings its own units.
LEMMA UnitsOfOneMore ==
  ASSUME NEW f, NEW S, Countable(f, S), NEW x \in S
  PROVE  Cardinality(Units(f, S)) = f[x] + Cardinality(Units(f, S \ {x}))
<1> DEFINE own == {x} \X (1..f[x])
<1> DEFINE rest == Units(f, S \ {x})
<1>1. Units(f, S) = own \cup rest
  BY DEF Units
<1>2. own \cap rest = {}
  BY DEF Units
<1>3. IsFiniteSet(rest) /\ Cardinality(rest) \in Nat
  <2>1. Countable(f, S \ {x}) BY FS_RemoveElement DEF Countable
  <2> QED BY <2>1, UnitsAreFinite
<1>4. IsFiniteSet(own) /\ Cardinality(own) = f[x]
  <2>1. IsFiniteSet({x}) /\ Cardinality({x}) = 1 BY FS_Singleton
  <2>2. f[x] \in Nat BY DEF Countable
  <2>3. IsFiniteSet(1..f[x]) /\ Cardinality(1..f[x]) = f[x] BY <2>2, FS_Interval
  <2>4. IsFiniteSet(own) /\ Cardinality(own) = Cardinality({x}) * Cardinality(1..f[x])
    BY <2>1, <2>3, FS_Product
  <2> QED BY <2>1, <2>2, <2>3, <2>4
<1>5. f[x] \in Nat BY DEF Countable
<1> HIDE DEF own, rest
<1>6. Cardinality(own \cup rest) = Cardinality(own) + Cardinality(rest) - Cardinality(own \cap rest)
  BY <1>3, <1>4, FS_Union
<1>7. Cardinality(own \cap rest) = 0 BY <1>2, FS_EmptySet
<1> QED BY <1>1, <1>3, <1>4, <1>5, <1>6, <1>7 DEF own, rest

\* The element the fold takes first.
Pick(s) == CHOOSE x \in s : TRUE

\* The equation of the fold.
Adds(g, f, S) == g = [s \in SUBSET S |-> IF s = {} THEN 0 ELSE f[Pick(s)] + g[s \ {Pick(s)}]]

\* The operator is what CHOOSE finds for the equation.
LEMMA SumIs ==
  ASSUME NEW f, NEW S
  PROVE  SumFunctionOnSet(f, S) = (CHOOSE g : Adds(g, f, S))[S]
BY DEF SumFunctionOnSet, FoldFunctionOnSet, MapThenFoldSet, Adds, Pick

\* The recursion of the fold has a solution, so CHOOSE picks one.
LEMMA SumExists ==
  ASSUME NEW f, NEW S, Countable(f, S)
  PROVE  \E g : Adds(g, f, S)
<1> DEFINE g == [s \in SUBSET S |-> Cardinality(Units(f, s))]
<1>1. Cardinality(Units(f, {})) = 0
  <2>1. Units(f, {}) = {} BY DEF Units
  <2> QED BY <2>1, FS_EmptySet
<1>2. ASSUME NEW s \in SUBSET S, s # {}
      PROVE  g[s] = f[Pick(s)] + g[s \ {Pick(s)}]
  <2>1. Countable(f, s)
    BY FS_Subset DEF Countable
  <2>2. Pick(s) \in s
    BY <1>2 DEF Pick
  <2> QED BY <2>1, <2>2, UnitsOfOneMore
<1>3. Adds(g, f, S)
  BY <1>1, <1>2 DEF Adds
<1> QED BY <1>3

\* Every solution counts the units.
LEMMA SumIsUnique ==
  ASSUME NEW f, NEW S, Countable(f, S), NEW g, Adds(g, f, S)
  PROVE  g[S] = Cardinality(Units(f, S))
<1> DEFINE Wrong == {s \in SUBSET S : g[s] # Cardinality(Units(f, s))}
<1> SUFFICES ASSUME Wrong # {} PROVE FALSE
  OBVIOUS
<1>1. IsWellFoundedOn(StrictSubsetOrdering(S), FiniteSubsetsOf(S))
  BY FS_StrictSubsetOrderingWellFounded
<1>2. Wrong \subseteq FiniteSubsetsOf(S)
  BY FS_Subset DEF FiniteSubsetsOf, Countable
<1>3. PICK s \in Wrong : \A t \in Wrong : <<t, s>> \notin StrictSubsetOrdering(S)
  <2> HIDE DEF Wrong
  <2> QED BY <1>1, <1>2, WFMin
<1>4. CASE s = {}
  <2>1. g[s] = 0 BY <1>4 DEF Adds
  <2>2. Units(f, {}) = {} BY DEF Units
  <2> QED BY <1>4, <2>1, <2>2, FS_EmptySet
<1>5. CASE s # {}
  <2>1. Countable(f, s) BY FS_Subset DEF Countable
  <2>2. Pick(s) \in s BY <1>5 DEF Pick
  <2>3. g[s] = f[Pick(s)] + g[s \ {Pick(s)}] BY <1>5 DEF Adds
  <2>4. s \ {Pick(s)} \notin Wrong
    <3>1. s \in SUBSET S /\ s \ {Pick(s)} \in SUBSET S
      OBVIOUS
    <3>2. <<s \ {Pick(s)}, s>> \in StrictSubsetOrdering(S)
      BY <2>2, <3>1 DEF StrictSubsetOrdering
    <3> HIDE DEF Wrong
    <3> QED BY <1>3, <3>2
  <2>5. g[s \ {Pick(s)}] = Cardinality(Units(f, s \ {Pick(s)}))
    BY <2>4
  <2> QED BY <2>1, <2>2, <2>3, <2>5, UnitsOfOneMore
<1> QED BY <1>4, <1>5

\* The sum of f over a finite set is the number of units.
LEMMA SumCountsUnits ==
  ASSUME NEW f, NEW S, Countable(f, S)
  PROVE  SumFunctionOnSet(f, S) = Cardinality(Units(f, S))
<1>1. Adds(CHOOSE g : Adds(g, f, S), f, S)
  BY SumExists
<1> DEFINE h == CHOOSE g : Adds(g, f, S)
<1>2. h[S] = Cardinality(Units(f, S))
  <2>1. Adds(h, f, S) BY <1>1
  <2> HIDE DEF h
  <2> QED BY <2>1, SumIsUnique
<1> QED BY <1>2, SumIs

-----------------------------------------------------------------------------
(***************************************************************************)
(* What the proofs about costs cite.                                       *)
(***************************************************************************)

\* A sum of natural numbers is one.
LEMMA SumIsNatural ==
  ASSUME NEW f, NEW S, Countable(f, S)
  PROVE  SumFunctionOnSet(f, S) \in Nat
BY SumCountsUnits, UnitsAreFinite

\* Nothing is the sum of nothings.
LEMMA SumOfZeros ==
  ASSUME NEW f, NEW S, IsFiniteSet(S), \A x \in S : f[x] = 0
  PROVE  SumFunctionOnSet(f, S) = 0
<1>1. Units(f, S) = {}
  BY DEF Units
<1>2. Countable(f, S)
  BY DEF Countable
<1> QED BY <1>1, <1>2, SumCountsUnits, FS_EmptySet

\* Functions that agree on the set have the same sum.
LEMMA SumOfEquals ==
  ASSUME NEW f, NEW g, NEW S, Countable(f, S), \A x \in S : g[x] = f[x]
  PROVE  SumFunctionOnSet(g, S) = SumFunctionOnSet(f, S)
<1>1. Countable(g, S)
  BY DEF Countable
<1>2. Units(g, S) = Units(f, S)
  BY DEF Units
<1> QED BY <1>1, <1>2, SumCountsUnits

\* A change at one element changes the sum by as much.
LEMMA SumAfterChange ==
  ASSUME NEW f, NEW g, NEW S, Countable(f, S), NEW x \in S, g[x] \in Nat,
         \A y \in S \ {x} : g[y] = f[y]
  PROVE  SumFunctionOnSet(g, S) = SumFunctionOnSet(f, S) + g[x] - f[x]
<1>1. Countable(g, S)
  BY DEF Countable
<1>2. Units(g, S \ {x}) = Units(f, S \ {x})
  BY DEF Units
<1>3. Countable(f, S \ {x})
  BY FS_RemoveElement DEF Countable
<1>4. Cardinality(Units(f, S \ {x})) \in Nat
  BY <1>3, UnitsAreFinite
<1>5. f[x] \in Nat
  BY DEF Countable
<1>6. Cardinality(Units(f, S)) = f[x] + Cardinality(Units(f, S \ {x}))
  BY UnitsOfOneMore
<1>7. Cardinality(Units(g, S)) = g[x] + Cardinality(Units(g, S \ {x}))
  BY <1>1, UnitsOfOneMore
<1> QED BY <1>1, <1>2, <1>4, <1>5, <1>6, <1>7, SumCountsUnits

=============================================================================
