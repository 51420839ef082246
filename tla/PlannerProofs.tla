--------------------------- MODULE PlannerProofs ---------------------------
(***************************************************************************)
(* Lemmas about the stage planner, for any houses, contributors and        *)
(* verify_count: what the contributors of a coverage are, and where the    *)
(* stages of a plan stand.                                                 *)
(***************************************************************************)
EXTENDS Planner, FiniteSetTheorems, SequenceTheorems, TLAPS

\* How many of the houses come before h.
Before(houses, h) == Cardinality({g \in houses : g < h})

\* A house has its own number of houses before it, less than there are.
LEMMA BeforeIsStrict ==
  ASSUME NEW S \in SUBSET Nat, IsFiniteSet(S), NEW h \in S
  PROVE  /\ Before(S, h) \in 0 .. Cardinality(S) - 1
         /\ \A g \in S : g < h => Before(S, g) < Before(S, h)
<1> DEFINE Smaller(x) == {g \in S : g < x}
<1>1. \A x \in S : /\ IsFiniteSet(Smaller(x))
                   /\ Cardinality(Smaller(x)) \in Nat
                   /\ Cardinality(Smaller(x)) < Cardinality(S)
  <2> TAKE x \in S
  <2>1. /\ IsFiniteSet(Smaller(x))
        /\ Cardinality(Smaller(x)) <= Cardinality(S)
        /\ Cardinality(S) = Cardinality(Smaller(x)) => S = Smaller(x)
    BY FS_Subset
  <2>2. S # Smaller(x)
    OBVIOUS
  <2> HIDE DEF Smaller
  <2>3. Cardinality(S) \in Nat /\ Cardinality(Smaller(x)) \in Nat
    BY <2>1, FS_CardinalityType
  <2> QED BY <2>1, <2>2, <2>3
<1>2. ASSUME NEW g \in S, g < h PROVE Cardinality(Smaller(g)) < Cardinality(Smaller(h))
  <2>1. Smaller(g) \in SUBSET Smaller(h)
    <3>1. \A x \in S : x < g => x < h
      BY <1>2
    <3> QED BY <3>1
  <2>2. g \in Smaller(h) /\ g \notin Smaller(g)
    BY <1>2
  <2> HIDE DEF Smaller
  <2>3. /\ Cardinality(Smaller(g)) <= Cardinality(Smaller(h))
        /\ Cardinality(Smaller(h)) = Cardinality(Smaller(g)) => Smaller(h) = Smaller(g)
    BY <1>1, <2>1, FS_Subset
  <2> QED BY <1>1, <2>2, <2>3
<1>3. Cardinality(S) \in Nat
  BY FS_CardinalityType
<1> HIDE DEF Smaller
<1>4. Cardinality(Smaller(h)) \in 0 .. Cardinality(S) - 1
  BY <1>1, <1>3
<1> QED BY <1>2, <1>4 DEF Before, Smaller

\* InOrder lists each house once, in order.
LEMMA InOrderLists ==
  ASSUME NEW S \in SUBSET Nat, IsFiniteSet(S)
  PROVE  /\ InOrder(S) \in Seq(S)
         /\ Len(InOrder(S)) = Cardinality(S)
         /\ Cardinality(S) \in Nat
         /\ \A i, j \in 1 .. Cardinality(S) : InOrder(S)[i] = InOrder(S)[j] => i = j
<1> DEFINE n == Cardinality(S)
           place == [h \in S |-> Before(S, h)]
<1>1. n \in Nat
  BY FS_CardinalityType
<1>2. IsFiniteSet(0 .. n - 1) /\ Cardinality(0 .. n - 1) = n
  <2>1. /\ IsFiniteSet(0 .. n - 1)
        /\ Cardinality(0 .. n - 1) = IF 0 > n - 1 THEN 0 ELSE n - 1 - 0 + 1
    BY <1>1, FS_Interval
  <2> QED BY <1>1, <2>1
<1>3. place \in Injection(S, 0 .. n - 1)
  <2>1. place \in [S -> 0 .. n - 1]
    BY BeforeIsStrict
  <2>2. ASSUME NEW g \in S, NEW h \in S, g # h PROVE place[g] # place[h]
    <3>1. g < h \/ h < g
      BY <2>2
    <3>2. Before(S, g) \in Int /\ Before(S, h) \in Int
      BY BeforeIsStrict
    <3>3. Before(S, g) < Before(S, h) \/ Before(S, h) < Before(S, g)
      BY <3>1, BeforeIsStrict
    <3> QED BY <3>2, <3>3
  <2> QED BY <2>1, <2>2 DEF Injection, IsInjective
<1>4. place \in Surjection(S, 0 .. n - 1)
  BY <1>2, <1>3, FS_Injection
<1>5. \A i \in 1 .. n : \E h \in S : Before(S, h) = i - 1
  <2>1. \A k \in 0 .. n - 1 : \E h \in S : place[h] = k
    BY <1>4 DEF Surjection
  <2>2. \A i \in 1 .. n : i - 1 \in 0 .. n - 1
    BY <1>1
  <2> QED BY <2>1, <2>2
<1>6. \A i \in 1 .. n : InOrder(S)[i] \in S /\ Before(S, InOrder(S)[i]) = i - 1
  BY <1>5 DEF InOrder, Before
<1>7. InOrder(S) \in [1 .. n -> S]
  BY <1>6 DEF InOrder
<1>8. InOrder(S) \in Seq(S) /\ Len(InOrder(S)) = n
  BY <1>1, <1>7
<1> QED BY <1>1, <1>6, <1>8

\* The contributors of a coverage are houses, each once; the lead or a meta house
\* is one of them only if the PM's rows name it.
LEMMA ContributorsAreOthers ==
  ASSUME NEW lead, NEW explicit \in SUBSET Houses
  PROVE  LET cs == ResolveContributors(lead, explicit) IN
           /\ cs \in Seq(Houses)
           /\ \A i, j \in DOMAIN cs : cs[i] = cs[j] => i = j
           /\ \A i \in DOMAIN cs : cs[i] \in MetaHouses \cup {lead} => cs[i] \in explicit
<1> DEFINE S == IF explicit # {} THEN explicit ELSE (Houses \ MetaHouses) \ {lead}
           cs == ResolveContributors(lead, explicit)
<1>1. S \in SUBSET Houses /\ \A h \in S : h \in MetaHouses \cup {lead} => h \in explicit
  OBVIOUS
<1>2. cs = InOrder(S)
  BY DEF ResolveContributors
<1> HIDE DEF S
<1>3. S \in SUBSET Nat /\ IsFiniteSet(S)
  BY <1>1, PlannerAssumption, FS_Subset
<1>4. /\ cs \in Seq(S)
      /\ Len(cs) = Cardinality(S)
      /\ \A i, j \in 1 .. Cardinality(S) : cs[i] = cs[j] => i = j
  BY <1>2, <1>3, InOrderLists
<1> HIDE DEF cs
<1>5. /\ cs \in Seq(Houses)
      /\ DOMAIN cs = 1 .. Cardinality(S)
      /\ \A i \in DOMAIN cs : cs[i] \in S
  BY <1>1, <1>4
<1> QED BY <1>1, <1>4, <1>5 DEF cs

-----------------------------------------------------------------------------

PlanRoles == {"author", "verifier", "data_checker", "finalizer", "monitor", "pm_query"}

\* The verifiers a run of the type gets.
VerifiersOf(type, contributors, n) ==
  CASE type = "initiation" -> PickVerifiers(contributors, n)
    [] type = "deep_review" -> PickVerifiers(contributors, 1)
    [] OTHER -> <<>>

\* pick_verifiers takes the first ones, and no more than asked for.
LEMMA PicksTheFirst ==
  ASSUME NEW cs \in Seq(Houses), NEW n \in Int
  PROVE  LET vs == PickVerifiers(cs, n) IN
           /\ vs \in Seq(Houses)
           /\ Len(vs) <= (IF n > 0 THEN n ELSE 0)
           /\ \A i \in DOMAIN vs : i \in DOMAIN cs /\ vs[i] = cs[i]
<1> DEFINE m == IF n < Len(cs) THEN n ELSE Len(cs)
           vs == SubSeq(cs, 1, m)
<1>1. Len(cs) \in Nat /\ DOMAIN cs = 1 .. Len(cs) /\ \A i \in 1 .. Len(cs) : cs[i] \in Houses
  OBVIOUS
<1>2. m \in Int /\ \A i \in 1 .. m : i \in 1 .. Len(cs)
  BY <1>1
<1>3. \A i \in 1 .. m : cs[i] \in Houses
  BY <1>1, <1>2
<1> HIDE DEF m
<1>4. /\ vs \in Seq(Houses)
      /\ Len(vs) = IF 1 <= m THEN m - 1 + 1 ELSE 0
      /\ \A i \in 1 .. m - 1 + 1 : vs[i] = cs[1 + i - 1]
  BY <1>2, <1>3, SubSeqProperties
<1>5. Len(vs) = (IF 1 <= m THEN m ELSE 0) /\ \A i \in 1 .. m : vs[i] = cs[i]
  BY <1>2, <1>4
<1>6. DOMAIN vs = 1 .. m
  BY <1>2, <1>4, <1>5
<1>7. Len(vs) <= (IF n > 0 THEN n ELSE 0)
  BY <1>1, <1>5 DEF m
<1> HIDE DEF vs
<1> QED BY <1>1, <1>2, <1>4, <1>5, <1>6, <1>7 DEF PickVerifiers, vs, m

\* Where the steps s of a run stand: after an opening step come its verifiers
\* vs, in order, and after them no verifier; an initiation begins and ends with
\* its lead.
Shape(type, lead, s, vs) ==
  /\ s \in Seq([role : PlanRoles, house : Houses \cup {NoHouse}])
  /\ vs \in Seq(Houses)
  /\ Len(s) >= Len(vs) + 1
  /\ \A i \in DOMAIN s : s[i].role = "verifier" <=> i \in 2 .. Len(vs) + 1
  /\ \A i \in 2 .. Len(vs) + 1 : s[i].house = vs[i - 1]
  /\ type = "initiation" =>
       /\ Len(s) >= 2
       /\ s[1] = [role |-> "author", house |-> lead]
       /\ s[Len(s)] = [role |-> "finalizer", house |-> lead]

LEMMA StepsShape ==
  ASSUME NEW type \in RunTypes, NEW lead \in Houses \cup {NoHouse}, NEW cs \in Seq(Houses),
         NEW n \in Int, NEW dc \in BOOLEAN
  PROVE  Shape(type, lead, Steps(type, lead, cs, n, dc), VerifiersOf(type, cs, n))
<1> DEFINE E == [role : PlanRoles, house : Houses \cup {NoHouse}]
           One(role, house) == [role |-> role, house |-> house]
           vs == VerifiersOf(type, cs, n)
           s == Steps(type, lead, cs, n, dc)
<1>1. vs \in Seq(Houses)
  BY PicksTheFirst DEF VerifiersOf, RunTypes
<1> HIDE DEF vs
<1>2. Len(vs) \in Nat /\ DOMAIN vs = 1 .. Len(vs) /\ \A i \in 1 .. Len(vs) : vs[i] \in Houses
  BY <1>1
<1> DEFINE V == Verifiers(vs)
<1>3. /\ V \in Seq(E) /\ Len(V) = Len(vs) /\ DOMAIN V = 1 .. Len(vs)
      /\ \A i \in 1 .. Len(vs) : V[i] = One("verifier", vs[i])
  BY <1>2 DEF Verifiers, PlanRoles
<1>4. \A h \in Houses \cup {NoHouse}, role \in PlanRoles :
        /\ Step(role, h) \in Seq(E) /\ Len(Step(role, h)) = 1
        /\ Step(role, h)[1] = One(role, h)
  BY DEF Step
<1>9. \A role, h : One(role, h).role = role /\ One(role, h).house = h
  OBVIOUS
<1> HIDE DEF V, One, E
<1> DEFINE A == Step("author", lead)
<1>5. /\ A \o V \in Seq(E) /\ Len(A \o V) = Len(vs) + 1
      /\ (A \o V)[1] = One("author", lead)
      /\ \A i \in 2 .. Len(vs) + 1 : (A \o V)[i] = One("verifier", vs[i - 1])
  <2>1. A \in Seq(E) /\ Len(A) = 1 /\ A[1] = One("author", lead)
    BY <1>4 DEF PlanRoles
  <2> HIDE DEF A
  <2>2. /\ A \o V \in Seq(E) /\ Len(A \o V) = Len(A) + Len(V)
        /\ \A i \in 1 .. Len(A) + Len(V) :
             (A \o V)[i] = IF i <= Len(A) THEN A[i] ELSE V[i - Len(A)]
    <3>1. A \in Seq(E) /\ V \in Seq(E)
      BY <1>3, <2>1
    <3> QED BY ONLY <3>1, ConcatProperties
  <2> QED BY <1>2, <1>3, <2>1, <2>2
<1>6. CASE type = "initiation"
  <2> DEFINE D == IF dc THEN DataChecker(lead, cs) ELSE <<>>
             F == Step("finalizer", lead)
             W == A \o V
  <2>1. s = (W \o D) \o F
    BY <1>6 DEF Steps, V, vs, VerifiersOf
  <2>2. /\ D \in Seq(E) /\ Len(D) \in 0 .. 1
        /\ \A i \in 1 .. Len(D) : D[i].role = "data_checker"
    <3>1. cs = <<>> \/ cs[1] \in Houses
      OBVIOUS
    <3>2. \E h \in Houses \cup {NoHouse} : DataChecker(lead, cs) = Step("data_checker", h)
      BY <3>1 DEF DataChecker
    <3>3. /\ DataChecker(lead, cs) \in Seq(E) /\ Len(DataChecker(lead, cs)) = 1
          /\ DataChecker(lead, cs)[1].role = "data_checker"
      BY <1>4, <1>9, <3>2 DEF PlanRoles
    <3> QED BY <3>3
  <2>3. F \in Seq(E) /\ Len(F) = 1 /\ F[1] = One("finalizer", lead)
    BY <1>4 DEF PlanRoles
  <2>4. W \in Seq(E) /\ Len(W) = Len(vs) + 1
    BY <1>5
  <2> HIDE DEF A, D, F, W, s
  <2>5. /\ W \o D \in Seq(E) /\ Len(W \o D) = Len(W) + Len(D)
        /\ \A i \in 1 .. Len(W) + Len(D) : (W \o D)[i] = IF i <= Len(W) THEN W[i] ELSE D[i - Len(W)]
    BY <2>2, <2>4, ConcatProperties
  <2>6. /\ s \in Seq(E) /\ Len(s) = Len(W) + Len(D) + 1
        /\ \A i \in 1 .. Len(W) + Len(D) + 1 :
             s[i] = IF i <= Len(W) + Len(D) THEN (W \o D)[i] ELSE F[i - (Len(W) + Len(D))]
    <3>1. /\ (W \o D) \o F \in Seq(E) /\ Len((W \o D) \o F) = Len(W \o D) + Len(F)
          /\ \A i \in 1 .. Len(W \o D) + Len(F) :
               ((W \o D) \o F)[i] =
                 IF i <= Len(W \o D) THEN (W \o D)[i] ELSE F[i - Len(W \o D)]
      <4>1. W \o D \in Seq(E) /\ F \in Seq(E)
        BY <2>3, <2>5
      <4> QED BY ONLY <4>1, ConcatProperties
    <3> QED BY <2>1, <2>3, <2>5, <3>1
  <2>7. \A i \in 1 .. Len(vs) + 1 : s[i] = W[i]
    BY <1>2, <2>2, <2>4, <2>5, <2>6
  <2>8. s[1] = One("author", lead) /\ \A i \in 2 .. Len(vs) + 1 : s[i] = One("verifier", vs[i - 1])
    <3>1. 1 \in 1 .. Len(vs) + 1 /\ \A i \in 2 .. Len(vs) + 1 : i \in 1 .. Len(vs) + 1
      BY <1>2
    <3> QED BY <1>5, <2>7, <3>1 DEF W
  <2>9. s[Len(s)] = One("finalizer", lead)
    BY <1>2, <2>2, <2>3, <2>4, <2>6
  <2>10. \A i \in Len(vs) + 2 .. Len(s) : s[i].role # "verifier"
    <3> SUFFICES ASSUME NEW i \in Len(vs) + 2 .. Len(s) PROVE s[i].role # "verifier"
      OBVIOUS
    <3>1. CASE i <= Len(W) + Len(D)
      <4>1. i - Len(W) \in 1 .. Len(D) /\ s[i] = D[i - Len(W)]
        BY <1>2, <2>2, <2>4, <2>5, <2>6, <3>1
      <4> QED BY <2>2, <4>1
    <3>2. CASE i > Len(W) + Len(D)
      <4>1. i = Len(s)
        <5>1. Len(s) = Len(W) + Len(D) + 1 /\ Len(W) + Len(D) \in Nat
          BY <1>2, <2>2, <2>4, <2>6
        <5> QED BY <1>2, <3>2, <5>1
      <4> QED BY <1>9, <2>9, <4>1
    <3> QED BY <1>2, <2>2, <2>4, <3>1, <3>2
  <2>11. DOMAIN s = 1 .. Len(s) /\ Len(s) \in Nat /\ Len(s) >= Len(vs) + 2
    BY <1>2, <2>2, <2>4, <2>6
  <2>12. \A i \in 1 .. Len(s) : i = 1 \/ i \in 2 .. Len(vs) + 1 \/ i \in Len(vs) + 2 .. Len(s)
    BY <1>2, <2>11
  <2>13. \A i \in 1 .. Len(s) : s[i].role = "verifier" <=> i \in 2 .. Len(vs) + 1
    <3> SUFFICES ASSUME NEW i \in 1 .. Len(s)
                 PROVE  s[i].role = "verifier" <=> i \in 2 .. Len(vs) + 1
      OBVIOUS
    <3>1. CASE i = 1
      BY <1>2, <1>9, <2>8, <3>1
    <3>2. CASE i \in 2 .. Len(vs) + 1
      BY <1>9, <2>8, <3>2
    <3>3. CASE i \in Len(vs) + 2 .. Len(s)
      BY <1>2, <2>10, <3>3
    <3> QED BY <2>12, <3>1, <3>2, <3>3
  <2>14. /\ \A i \in 2 .. Len(vs) + 1 : s[i].house = vs[i - 1]
         /\ Len(s) >= Len(vs) + 1 /\ Len(s) >= 2
    BY <1>2, <1>9, <2>8, <2>11
  <2>15. s \in Seq(E) /\ s[1] = One("author", lead) /\ s[Len(s)] = One("finalizer", lead)
    BY <2>6, <2>8, <2>9
  <2>16. \A i \in DOMAIN s : s[i].role = "verifier" <=> i \in 2 .. Len(vs) + 1
    BY <2>11, <2>13
  <2> QED BY <1>1, <2>14, <2>15, <2>16 DEF E, One, Shape, s, vs
<1>7. CASE type = "deep_review"
  <2>1. s = A \o V
    BY <1>7 DEF Steps, V, vs, VerifiersOf
  <2>2. s[1].role = "author" /\ \A i \in 2 .. Len(vs) + 1 : s[i].role = "verifier" /\ s[i].house = vs[i - 1]
    BY <1>5, <1>9, <2>1
  <2> HIDE DEF A, s
  <2>3. s \in Seq(E) /\ Len(s) = Len(vs) + 1 /\ DOMAIN s = 1 .. Len(vs) + 1
    BY <1>2, <1>5, <2>1
  <2>4. \A i \in DOMAIN s : s[i].role = "verifier" <=> i \in 2 .. Len(vs) + 1
    <3>1. \A i \in DOMAIN s : i = 1 \/ i \in 2 .. Len(vs) + 1
      BY <1>2, <2>3
    <3>2. 1 \notin 2 .. Len(vs) + 1
      OBVIOUS
    <3> QED BY <2>2, <3>1, <3>2
  <2>5. Len(s) >= Len(vs) + 1 /\ type # "initiation"
    BY <1>2, <1>7, <2>3
  <2> QED BY <1>1, <2>2, <2>3, <2>4, <2>5 DEF E, Shape, s, vs
<1>8. CASE type \in {"event_analysis", "monitor_tick", "pm_query"}
  <2>1. vs = <<>>
    BY <1>8 DEF vs, VerifiersOf
  <2>2. MonitorHouse \in Houses
    BY PlannerAssumption
  <2>3. \E role \in PlanRoles \ {"verifier"}, h \in Houses \cup {NoHouse} : s = Step(role, h)
    BY <1>8, <2>2 DEF Steps, PlanRoles
  <2> HIDE DEF s
  <2>4. s \in Seq(E) /\ Len(s) = 1 /\ s[1].role # "verifier"
    BY <1>4, <1>9, <2>3
  <2> QED BY <1>1, <1>8, <2>1, <2>4 DEF s, vs, E, Shape
<1> QED BY <1>6, <1>7, <1>8 DEF RunTypes

PlanRows == [role : PlanRoles, house : Houses \cup {NoHouse}, depends_on : Nat]

Checks(plan) == {i \in DOMAIN plan : plan[i].role = "verifier"}

\* A plan's verifiers are asked once; an initiation takes no more of them than
\* wanted, and is opened and closed by one house.
WellPlanned(type, plan, n) ==
  /\ \A i, k \in Checks(plan) : plan[i].house = plan[k].house => i = k
  /\ type = "initiation" =>
       /\ Cardinality(Checks(plan)) <= (IF n > 0 THEN n ELSE 0)
       /\ plan[1].role = "author" /\ plan[Len(plan)].role = "finalizer"
       /\ plan[1].house = plan[Len(plan)].house

\* A meta house or the coverage's lead verifies only where the PM's rows name it.
ChosenByPm(plan, covLead, explicit) ==
  \A i \in Checks(plan) :
    plan[i].house \in MetaHouses \cup {covLead} => plan[i].house \in explicit

LEMMA SoundPlan ==
  ASSUME NEW type \in RunTypes, NEW lead \in Houses \cup {NoHouse}, NEW covLead,
         NEW explicit \in SUBSET Houses, NEW n \in Int, NEW dc \in BOOLEAN,
         NEW plan, plan = PlanStages(type, lead, ResolveContributors(covLead, explicit), n, dc)
  PROVE  /\ plan \in Seq(PlanRows)
         /\ WellPlanned(type, plan, n)
         /\ ChosenByPm(plan, covLead, explicit)
<1> DEFINE cs == ResolveContributors(covLead, explicit)
           s == Steps(type, lead, cs, n, dc)
           vs == VerifiersOf(type, cs, n)
           checks == Checks(plan)
<1>1. /\ cs \in Seq(Houses)
      /\ \A i, j \in DOMAIN cs : cs[i] = cs[j] => i = j
      /\ \A i \in DOMAIN cs : cs[i] \in MetaHouses \cup {covLead} => cs[i] \in explicit
  BY ContributorsAreOthers
<1> HIDE DEF cs
<1>2. Shape(type, lead, s, vs)
  BY <1>1, StepsShape
<1>3. /\ \A i \in DOMAIN vs : i \in DOMAIN cs /\ vs[i] = cs[i]
      /\ type = "initiation" => Len(vs) <= (IF n > 0 THEN n ELSE 0)
  BY <1>1, PicksTheFirst DEF VerifiersOf, RunTypes
<1>4. plan = [i \in DOMAIN s |-> [role |-> s[i].role, house |-> s[i].house,
                                  depends_on |-> i - 1]]
  BY DEF PlanStages, Chained, cs
<1> HIDE DEF s, vs
<1> USE DEF Shape
<1>5. /\ Len(s) \in Nat /\ DOMAIN s = 1 .. Len(s)
      /\ Len(vs) \in Nat /\ DOMAIN vs = 1 .. Len(vs)
  BY <1>2
<1>6. \A i \in DOMAIN s : s[i].role \in PlanRoles /\ s[i].house \in Houses \cup {NoHouse}
  <2> DEFINE E == [role : PlanRoles, house : Houses \cup {NoHouse}]
  <2>1. s \in Seq(E)
    BY <1>2
  <2> HIDE DEF E
  <2>2. \A i \in DOMAIN s : s[i] \in E
    BY <2>1
  <2> QED BY <2>2 DEF E
<1>7. plan \in [1 .. Len(s) -> PlanRows]
  BY <1>4, <1>5, <1>6 DEF PlanRows
<1>8. \A i \in 1 .. Len(s) : plan[i].role = s[i].role /\ plan[i].house = s[i].house
                             /\ plan[i].depends_on = i - 1
  BY <1>4, <1>5
<1>9. plan \in Seq(PlanRows) /\ DOMAIN plan = 1 .. Len(s) /\ Len(plan) = Len(s)
  BY <1>5, <1>7
<1>10. checks = 2 .. Len(vs) + 1
  <2>1. \A i \in 1 .. Len(s) : plan[i].role = "verifier" <=> i \in 2 .. Len(vs) + 1
    BY <1>2, <1>5, <1>8
  <2>2. \A i \in 2 .. Len(vs) + 1 : i \in 1 .. Len(s)
    BY <1>2, <1>5
  <2> QED BY <1>9, <2>1, <2>2 DEF Checks
<1>11. \A i \in checks : /\ i \in 2 .. Len(vs) + 1
                         /\ i - 1 \in DOMAIN cs /\ plan[i].house = cs[i - 1]
  <2> SUFFICES ASSUME NEW i \in 2 .. Len(vs) + 1
               PROVE  i - 1 \in DOMAIN cs /\ plan[i].house = cs[i - 1]
    BY <1>10
  <2>1. i \in 1 .. Len(s) /\ i - 1 \in DOMAIN vs
    BY <1>2, <1>5
  <2> QED BY <1>2, <1>3, <1>8, <2>1
<1>12. \A i, k \in checks : plan[i].house = plan[k].house => i = k
  <2> HIDE DEF checks
  <2> SUFFICES ASSUME NEW i \in checks, NEW k \in checks, plan[i].house = plan[k].house
               PROVE  i = k
    OBVIOUS
  <2>1. i - 1 = k - 1
    BY <1>1, <1>11
  <2> QED BY <1>11, <2>1
<1>13. \A i \in checks :
         plan[i].house \in MetaHouses \cup {covLead} => plan[i].house \in explicit
  <2> HIDE DEF checks
  <2> QED BY <1>1, <1>11
<1>14. ASSUME type = "initiation"
       PROVE  /\ Cardinality(checks) <= (IF n > 0 THEN n ELSE 0)
              /\ plan[1].role = "author" /\ plan[Len(plan)].role = "finalizer"
              /\ plan[1].house = plan[Len(plan)].house
  <2>1. Cardinality(2 .. Len(vs) + 1) = IF 2 > Len(vs) + 1 THEN 0 ELSE Len(vs) + 1 - 2 + 1
    <3>1. 2 \in Int /\ Len(vs) + 1 \in Int
      BY <1>5
    <3> QED BY ONLY <3>1, FS_Interval
  <2>2. Cardinality(checks) <= (IF n > 0 THEN n ELSE 0)
    <3>1. Cardinality(checks) = Len(vs)
      <4>1. Cardinality(checks) = Cardinality(2 .. Len(vs) + 1)
        BY <1>10
      <4> HIDE DEF checks
      <4> QED BY <1>5, <2>1, <4>1
    <3> HIDE DEF checks
    <3> QED BY <1>3, <1>14, <3>1
  <2>3. 1 \in 1 .. Len(s) /\ Len(s) \in 1 .. Len(s)
    BY <1>2, <1>5, <1>14
  <2>4. /\ plan[1].role = "author" /\ plan[1].house = lead
        /\ plan[Len(s)].role = "finalizer" /\ plan[Len(s)].house = lead
    BY <1>2, <1>8, <1>14, <2>3
  <2> QED BY <1>9, <2>2, <2>4
<1> QED BY <1>9, <1>12, <1>13, <1>14 DEF WellPlanned, ChosenByPm
=============================================================================
