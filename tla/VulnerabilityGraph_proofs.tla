--------------------- MODULE VulnerabilityGraph_proofs ---------------------
(* Proofs about one assessment, for any hosts, facts, answers and limits: the types,
   that every id derived has one finding, in which order and with which severity, and
   when a scan is called clean. *)
EXTENDS VulnerabilityGraph, FiniteSetTheorems, FunctionTheorems, TLAPS

----------------------------------------------------------------------------
(* Places in a finite total order. *)

\* How many elements of S stand before x in the order R.
Place(S, R, x) == Cardinality({y \in S : <<y, x>> \in R})

\* R is a strict total order on S.
Orders(R, S) ==
  /\ \A x \in S : <<x, x>> \notin R
  /\ \A x, y \in S : x = y \/ <<x, y>> \in R \/ <<y, x>> \in R
  /\ \A x, y, z \in S : <<x, y>> \in R /\ <<y, z>> \in R => <<x, z>> \in R

\* Places follow the order.
LEMMA PlacesAreOrdered ==
  ASSUME NEW S, IsFiniteSet(S), NEW R, Orders(R, S)
  PROVE  \A x, y \in S :
            /\ Place(S, R, x) \in 0 .. Cardinality(S) - 1
            /\ <<x, y>> \in R <=> Place(S, R, x) < Place(S, R, y)
<1> DEFINE Under(x) == {y \in S : <<y, x>> \in R}
<1>1. ASSUME NEW x \in S, NEW y \in S, <<x, y>> \in R
      PROVE  Place(S, R, x) < Place(S, R, y)
  <2>1. Under(x) \in SUBSET Under(y) /\ x \in Under(y) /\ x \notin Under(x)
    BY <1>1 DEF Orders
  <2>2. IsFiniteSet(Under(y))
    BY FS_Subset, Under(y) \in SUBSET S
  <2>3. /\ Cardinality(Under(x)) <= Cardinality(Under(y))
        /\ Cardinality(Under(y)) = Cardinality(Under(x)) => Under(y) = Under(x)
    BY <2>1, <2>2, FS_Subset
  <2>4. Cardinality(Under(x)) \in Nat /\ Cardinality(Under(y)) \in Nat
    BY <2>1, <2>2, FS_Subset, FS_CardinalityType
  <2> HIDE DEF Under
  <2>5. Cardinality(Under(x)) # Cardinality(Under(y))
    BY <2>1, <2>3
  <2>6. Cardinality(Under(x)) < Cardinality(Under(y))
    BY <2>3, <2>4, <2>5
  <2> QED BY <2>6 DEF Under, Place
<1>2. ASSUME NEW x \in S
      PROVE  Place(S, R, x) \in 0 .. Cardinality(S) - 1
  <2>1. Under(x) \in SUBSET (S \ {x})
    BY DEF Orders
  <2>2. IsFiniteSet(S \ {x}) /\ Cardinality(S \ {x}) = Cardinality(S) - 1
    BY FS_RemoveElement
  <2> HIDE DEF Under
  <2>3. IsFiniteSet(Under(x)) /\ Cardinality(Under(x)) <= Cardinality(S) - 1
    BY <2>1, <2>2, FS_Subset
  <2>4. Cardinality(Under(x)) \in Nat /\ Cardinality(S) \in Nat
    BY <2>3, FS_CardinalityType
  <2>5. Cardinality(Under(x)) \in 0 .. Cardinality(S) - 1
    BY <2>3, <2>4
  <2> QED BY <2>5 DEF Under, Place
<1>3. ASSUME NEW x \in S, NEW y \in S, Place(S, R, x) < Place(S, R, y)
      PROVE  <<x, y>> \in R
  <2>1. Place(S, R, x) \in Int /\ Place(S, R, y) \in Int
    BY <1>2, FS_CardinalityType
  <2>2. x # y
    BY <1>3, <2>1
  <2>3. <<y, x>> \in R => Place(S, R, y) < Place(S, R, x)
    BY <1>1
  <2>4. <<y, x>> \notin R
    BY <1>3, <2>1, <2>3
  <2> QED BY <2>2, <2>4 DEF Orders
<1> QED BY <1>1, <1>2, <1>3

\* Every place is taken.
LEMMA PlacesAreTaken ==
  ASSUME NEW S, IsFiniteSet(S), NEW R, Orders(R, S)
  PROVE  \A n \in 0 .. Cardinality(S) - 1 : \E x \in S : Place(S, R, x) = n
<1> DEFINE N == 0 .. Cardinality(S) - 1
           place == [x \in S |-> Place(S, R, x)]
<1>1. Cardinality(S) \in Nat
  BY FS_CardinalityType
<1>2. IsFiniteSet(N) /\ Cardinality(N) = Cardinality(S)
  BY <1>1, FS_Interval
<1>3. place \in [S -> N]
  BY PlacesAreOrdered
<1>4. \A x, y \in S : place[x] = place[y] => x = y
  <2> SUFFICES ASSUME NEW x \in S, NEW y \in S, place[x] = place[y], x # y
               PROVE  FALSE
    OBVIOUS
  <2>1. Place(S, R, x) = Place(S, R, y)
    OBVIOUS
  <2>4. Place(S, R, x) \in 0 .. Cardinality(S) - 1
    BY PlacesAreOrdered
  <2>2. <<x, y>> \in R \/ <<y, x>> \in R
    BY DEF Orders
  <2>3. Place(S, R, x) < Place(S, R, y) \/ Place(S, R, y) < Place(S, R, x)
    BY <2>2, PlacesAreOrdered
  <2> HIDE DEF place
  <2> QED BY <1>1, <2>1, <2>3, <2>4
<1> HIDE DEF N, place
<1>5. place \in Injection(S, N)
  BY <1>3, <1>4, Fun_IsInj
<1>6. place \in Surjection(S, N)
  BY <1>2, <1>5, FS_Injection
<1>7. \A n \in N : \E x \in S : place[x] = n
  BY <1>6 DEF Surjection
<1> QED BY <1>7 DEF N, place

\* A finite set of integers has a maximum: the element in the last place.
LEMMA MaxIsElement ==
  ASSUME NEW I \in SUBSET Int, IsFiniteSet(I), I # {}
  PROVE  Max(I) \in I
<1> DEFINE R == {p \in I \X I : p[1] < p[2]}
<1>1. Orders(R, I)
  BY DEF Orders
<1>2. \A x, y \in I : <<x, y>> \in R <=> x < y
  OBVIOUS
<1> HIDE DEF R
<1>3. Cardinality(I) \in Nat
  BY FS_CardinalityType
<1>4. Cardinality(I) # 0
  BY FS_EmptySet
<1>5. Cardinality(I) - 1 \in 0 .. Cardinality(I) - 1
  BY <1>3, <1>4
<1>6. PICK x \in I : Place(I, R, x) = Cardinality(I) - 1
  BY <1>1, <1>5, PlacesAreTaken
<1>7. \A y \in I : x >= y
  <2> TAKE y \in I
  <2>1. Place(I, R, y) \in 0 .. Cardinality(I) - 1
    BY <1>1, PlacesAreOrdered
  <2>2. <<x, y>> \notin R
    BY <1>1, <1>3, <1>6, <2>1, PlacesAreOrdered
  <2> QED BY <1>2, <2>2
<1> QED BY <1>7 DEF Max

----------------------------------------------------------------------------
(* The order of the facts, and that of the scores. *)

\* sort_key is a strict total order on the facts.
LEMMA BeforeOrders ==
  ASSUME NEW f \in Fact, NEW g \in Fact, NEW h \in Fact
  PROVE  /\ ~Before(f, f)
         /\ f = g \/ Before(f, g) \/ Before(g, f)
         /\ Before(f, g) /\ Before(g, h) => Before(f, h)
<1>1. \A x \in Fact : SeverityPoints[x.severity] \in Int /\ x.place \in Int
  BY FactAssumption DEF Facts, Severity, SeverityPoints
<1>2. \A x, y \in Severity : SeverityPoints[x] = SeverityPoints[y] => x = y
  BY DEF Severity, SeverityPoints
<1>3. \A x, y \in Fact : x.place = y.place => x = y
  BY FactAssumption
<1>4. \A x \in Fact : x.severity \in Severity
  BY FactAssumption DEF Facts
<1> QED BY <1>1, <1>2, <1>3, <1>4 DEF Before

\* InOrder lists the facts of a set, each once, as sort_key orders them.
LEMMA InOrderSorts ==
  ASSUME NEW K \in SUBSET Fact
  PROVE  /\ IsFiniteSet(K) /\ Cardinality(K) \in Nat
         /\ InOrder(K) \in [1 .. Cardinality(K) -> K]
         /\ \A i, j \in 1 .. Cardinality(K) : i < j => Before(InOrder(K)[i], InOrder(K)[j])
         /\ \A f \in K : \E i \in 1 .. Cardinality(K) : InOrder(K)[i] = f
<1> DEFINE n == Cardinality(K)
           R == {p \in K \X K : Before(p[1], p[2])}
<1>1. IsFiniteSet(K) /\ n \in Nat
  BY FactAssumption, FS_Subset, FS_CardinalityType
<1>2. \A f, g \in K : <<f, g>> \in R <=> Before(f, g)
  OBVIOUS
<1>3. Orders(R, K)
  <2> HIDE DEF R
  <2> QED BY <1>2, BeforeOrders DEF Orders
<1>4. ASSUME NEW f \in K
      PROVE  Place(K, R, f) = Cardinality({g \in K : Before(g, f)})
  <2>1. {g \in K : <<g, f>> \in R} = {g \in K : Before(g, f)}
    BY <1>2
  <2> HIDE DEF R
  <2> QED BY <2>1 DEF Place
<1> HIDE DEF R
<1>5. \A i \in 1 .. n : InOrder(K)[i] \in K /\ Place(K, R, InOrder(K)[i]) = i - 1
  <2> TAKE i \in 1 .. n
  <2>1. i - 1 \in 0 .. n - 1
    BY <1>1
  <2>2. \E f \in K : Place(K, R, f) = i - 1
    BY <1>1, <1>3, <2>1, PlacesAreTaken
  <2>3. \E f \in K : Cardinality({g \in K : Before(g, f)}) = i - 1
    BY <1>4, <2>2
  <2>4. InOrder(K)[i] = CHOOSE f \in K : Cardinality({g \in K : Before(g, f)}) = i - 1
    BY DEF InOrder
  <2> QED BY <1>4, <2>3, <2>4
<1>6. InOrder(K) \in [1 .. n -> K]
  BY <1>5 DEF InOrder
<1>7. \A i, j \in 1 .. n : i < j => Before(InOrder(K)[i], InOrder(K)[j])
  <2> TAKE i, j \in 1 .. n
  <2> HAVE i < j
  <2>1. Place(K, R, InOrder(K)[i]) < Place(K, R, InOrder(K)[j])
    BY <1>1, <1>5
  <2>2. <<InOrder(K)[i], InOrder(K)[j]>> \in R
    BY <1>1, <1>3, <1>5, <2>1, PlacesAreOrdered
  <2> QED BY <1>2, <1>5, <2>2
<1>8. \A f \in K : \E i \in 1 .. n : InOrder(K)[i] = f
  <2> TAKE f \in K
  <2>1. Place(K, R, f) \in 0 .. n - 1
    BY <1>1, <1>3, PlacesAreOrdered
  <2>2. PICK i \in 1 .. n : Place(K, R, f) = i - 1
    BY <1>1, <2>1
  <2> DEFINE g == InOrder(K)[i]
  <2>3. g \in K /\ Place(K, R, g) = Place(K, R, f)
    BY <1>5, <2>2
  <2> HIDE DEF g
  <2>4. <<f, g>> \notin R /\ <<g, f>> \notin R
    BY <1>1, <1>3, <2>1, <2>3, PlacesAreOrdered
  <2>5. f = g
    BY <1>3, <2>3, <2>4 DEF Orders
  <2> QED BY <2>5 DEF g
<1> QED BY <1>1, <1>6, <1>7, <1>8

\* Where one candidate ranks above another.
Above(numbers, i, j) == numbers[i] > numbers[j] \/ (numbers[i] = numbers[j] /\ i < j)

\* The ranks are the places 1 .. n, each taken by one candidate.
LEMMA RanksArePlaces ==
  ASSUME NEW n \in Nat, NEW numbers \in [1 .. n -> Int]
  PROVE  /\ \A i, j \in 1 .. n : Rank(numbers, i) < Rank(numbers, j) <=> Above(numbers, i, j)
         /\ \A i \in 1 .. n : Rank(numbers, i) \in 1 .. n
         /\ \A r \in 1 .. n : \E i \in 1 .. n : Rank(numbers, i) = r
<1> DEFINE D == 1 .. n
           R == {p \in D \X D : Above(numbers, p[1], p[2])}
<1>1. IsFiniteSet(D) /\ Cardinality(D) = n
  BY FS_Interval
<1>2. \A i, j \in D : <<i, j>> \in R <=> Above(numbers, i, j)
  OBVIOUS
<1>3. Orders(R, D)
  <2>1. \A i, j, k \in D :
           /\ ~Above(numbers, i, i)
           /\ i = j \/ Above(numbers, i, j) \/ Above(numbers, j, i)
           /\ Above(numbers, i, j) /\ Above(numbers, j, k) => Above(numbers, i, k)
    BY DEF Above
  <2> HIDE DEF R, D
  <2> QED BY <1>2, <2>1 DEF Orders
<1>4. \A i \in D : Rank(numbers, i) = 1 + Place(D, R, i)
  <2> TAKE i \in D
  <2>1. {j \in D : <<j, i>> \in R}
          = {j \in D : numbers[j] > numbers[i] \/ (numbers[j] = numbers[i] /\ j < i)}
    BY <1>2 DEF Above
  <2>2. DOMAIN numbers = D
    OBVIOUS
  <2> HIDE DEF R, D
  <2> QED BY <2>1, <2>2 DEF Place, Rank
<1> HIDE DEF R
<1>5. \A i, j \in D : /\ Place(D, R, i) \in 0 .. n - 1
                      /\ <<i, j>> \in R <=> Place(D, R, i) < Place(D, R, j)
  BY <1>1, <1>3, PlacesAreOrdered
<1>6. \A m \in 0 .. n - 1 : \E i \in D : Place(D, R, i) = m
  BY <1>1, <1>3, PlacesAreTaken
<1>7. \A i, j \in D : Rank(numbers, i) < Rank(numbers, j) <=> Above(numbers, i, j)
  <2> TAKE i, j \in D
  <2>1. Place(D, R, i) \in 0 .. n - 1 /\ Place(D, R, j) \in 0 .. n - 1
    BY <1>5
  <2>2. Rank(numbers, i) = 1 + Place(D, R, i) /\ Rank(numbers, j) = 1 + Place(D, R, j)
    BY <1>4
  <2>3. <<i, j>> \in R <=> Place(D, R, i) < Place(D, R, j)
    BY <1>5
  <2> QED BY <1>2, <2>1, <2>2, <2>3
<1>8. \A i \in D : Rank(numbers, i) \in 1 .. n
  <2> TAKE i \in D
  <2>1. Place(D, R, i) \in 0 .. n - 1
    BY <1>5
  <2>2. Rank(numbers, i) = 1 + Place(D, R, i)
    BY <1>4
  <2> QED BY <2>1, <2>2
<1>9. \A r \in 1 .. n : \E i \in D : Rank(numbers, i) = r
  <2> TAKE r \in 1 .. n
  <2>1. r - 1 \in 0 .. n - 1
    OBVIOUS
  <2>2. PICK i \in D : Place(D, R, i) = r - 1
    BY <1>6, <2>1
  <2>3. Rank(numbers, i) = r
    BY <1>4, <2>2
  <2> QED BY <2>3
<1> QED BY <1>7, <1>8, <1>9

----------------------------------------------------------------------------
(* The inductive invariant: what each node leaves for those after it. *)

\* A scan word is set, and without live hosts there is no output.
ScanSound ==
  node \notin {"intake", "failed"} =>
    status # "none" /\ (status = "no-live-hosts" => artifact.text = "none")

\* A host found alive and not scanned was refused, unless the sweep was cut short.
Disclosed(found, scanned, declined) ==
  Cardinality(found) > MaxSweepHosts \/ found \ scanned \subseteq declined

Derived == \E K \in Kept(artifact.facts) : candidates = InOrder(K)
Scored == scores = [i \in DOMAIN candidates |-> Urgency(candidates[i])]
Emitted ==
  findings = IF candidates = <<>> THEN <<NoFindings>>
             ELSE [r \in DOMAIN candidates |-> ToFinding(Ranked[r])]

Inv ==
  /\ TypeOK
  /\ ScanSound
  /\ Disclosed(live, reached, refused)
  /\ node \in {"enrich", "prioritize", "reason"} => artifact.facts # {}
  /\ node \notin {"intake", "correlate", "failed"} => Derived
  /\ node \in {"reason", "emit_findings", "done"} /\ artifact.facts # {} => Scored
  /\ node = "done" => Emitted

----------------------------------------------------------------------------
(* The operators the graph is built from. *)

\* The points of a table are numbers.
LEMMA PointsAreNumbers ==
  /\ \A x \in Severity : SeverityPoints[x] \in Nat
  /\ \A x \in Exposure : ExposurePoints[x] \in Nat
  /\ \A x \in Exploit : ExploitPoints[x] \in Nat
  /\ \A x \in Authentication : AuthPoints[x] \in Nat
  /\ \A x \in AssetType : AssetTypePoints[x] \in Nat
BY DEF Severity, SeverityPoints, Exposure, ExposurePoints, Exploit, ExploitPoints,
       Authentication, AuthPoints, AssetType, AssetTypePoints

\* The urgency of a fact is a number, whatever was looked up.
LEMMA UrgencyIsNumber ==
  ASSUME TypeOK, NEW f \in Fact
  PROVE  Urgency(f) \in Nat
<1>1. f.severity \in Severity /\ f.authentication \in Authentication /\ f.asset_type \in AssetType
  BY FactAssumption DEF Facts
<1>2. ExposureOf(f) \in Exposure
  BY DEF ExposureOf, TypeOK, Range, Exposure, ExposurePoints
<1>3. ExploitStatus(f) \in Exploit
  BY DEF ExploitStatus, Exploit, ExploitPoints
<1> QED BY <1>1, <1>2, <1>3, PointsAreNumbers DEF Urgency, Score

\* What is looked up is among what there is to look up.
LEMMA LookedUpIsThere ==
  ASSUME NEW s, NEW n
  PROVE  FirstDistinct(s, n) \subseteq Range(s) \ {None}
BY DEF FirstDistinct

\* A write-up is one the model gave, to this candidate.
LEMMA WriteUpIsGiven ==
  ASSUME answer \in Seq(Assessed), NEW f
  PROVE  WriteUp(f) # None =>
           \E e \in Range(answer) : e.candidate_id = f.id /\ e.severity = WriteUp(f)
<1> DEFINE I == {i \in 1 .. Len(answer) : answer[i].candidate_id = f.id}
<1>1. WriteUp(f) = IF (IF I # {} THEN Max(I) ELSE 0) = 0 THEN None
                   ELSE answer[IF I # {} THEN Max(I) ELSE 0].severity
  BY DEF WriteUp, SelectLastInSeq
<1>2. I # {} => Max(I) \in I
  <2>1. IsFiniteSet(1 .. Len(answer))
    BY FS_Interval
  <2>2. IsFiniteSet(I)
    BY <2>1, FS_Subset
  <2>3. I \subseteq Int
    OBVIOUS
  <2> HIDE DEF I
  <2> QED BY <2>2, <2>3, MaxIsElement
<1>3. DOMAIN answer = 1 .. Len(answer)
  OBVIOUS
<1> HIDE DEF I
<1>4. WriteUp(f) # None => Max(I) \in I /\ WriteUp(f) = answer[Max(I)].severity
  BY <1>1, <1>2
<1> QED BY <1>3, <1>4 DEF I, Range

\* What the rules derived is a sequence of the kept facts, in their order.
LEMMA DerivedIsOrdered ==
  ASSUME Derived, artifact.facts \in SUBSET Fact
  PROVE  \E K \in Kept(artifact.facts), n \in Nat :
           /\ n = Cardinality(K) /\ K \in SUBSET artifact.facts /\ IsFiniteSet(K)
           /\ candidates \in [1 .. n -> K]
           /\ \A i, j \in 1 .. n : i < j => Before(candidates[i], candidates[j])
           /\ \A f \in K : \E i \in 1 .. n : candidates[i] = f
<1>1. PICK K \in Kept(artifact.facts) : candidates = InOrder(K)
  BY DEF Derived
<1>2. K \in SUBSET artifact.facts
  BY DEF Kept
<1>3. K \in SUBSET Fact
  BY <1>2
<1>4. IsFiniteSet(K) /\ Cardinality(K) \in Nat
  BY <1>3, InOrderSorts
<1>5. /\ candidates \in [1 .. Cardinality(K) -> K]
      /\ \A i, j \in 1 .. Cardinality(K) : i < j => Before(candidates[i], candidates[j])
      /\ \A f \in K : \E i \in 1 .. Cardinality(K) : candidates[i] = f
  BY <1>1, <1>3, InOrderSorts
<1> QED BY <1>1, <1>2, <1>4, <1>5

\* Without facts there are no candidates, and with facts there are.
LEMMA FactsGiveCandidates ==
  ASSUME Derived, artifact.facts \in SUBSET Fact
  PROVE  candidates = <<>> <=> artifact.facts = {}
<1>1. PICK K \in Kept(artifact.facts), n \in Nat :
         /\ n = Cardinality(K) /\ K \in SUBSET artifact.facts /\ IsFiniteSet(K)
         /\ candidates \in [1 .. n -> K]
         /\ \A f \in K : \E i \in 1 .. n : candidates[i] = f
  BY DerivedIsOrdered
<1>2. artifact.facts # {} => K # {}
  <2> SUFFICES ASSUME NEW f \in artifact.facts, K = {}
               PROVE  FALSE
    OBVIOUS
  <2>1. Cardinality({g \in K : g.id = f.id}) = 1
    BY DEF Kept
  <2>2. {g \in K : g.id = f.id} = {}
    OBVIOUS
  <2> QED BY <2>1, <2>2, FS_EmptySet
<1>3. K = {} => n = 0
  BY <1>1, FS_EmptySet
<1>4. n = 0 => candidates = <<>>
  BY <1>1
<1>5. K # {} => n # 0 /\ candidates # <<>>
  BY <1>1
<1> QED BY <1>1, <1>2, <1>3, <1>4, <1>5

\* One fact is more urgent than another.
MoreUrgent(f, g) == Urgency(f) > Urgency(g) \/ (Urgency(f) = Urgency(g) /\ Before(f, g))

\* The ranked candidates are the kept facts, each once, the most urgent first.
LEMMA RankedIsByUrgency ==
  ASSUME TypeOK, Derived, Scored
  PROVE  \E K \in Kept(artifact.facts), n \in Nat :
           /\ K \in SUBSET artifact.facts
           /\ DOMAIN candidates = 1 .. n
           /\ Ranked \in [1 .. n -> K]
           /\ \A r, q \in 1 .. n : r < q => MoreUrgent(Ranked[r], Ranked[q])
           /\ \A f \in K : \E r \in 1 .. n : Ranked[r] = f
<1>1. artifact.facts \in SUBSET Fact
  BY DEF TypeOK, Artifacts
<1>2. PICK K \in Kept(artifact.facts), n \in Nat :
         /\ n = Cardinality(K) /\ K \in SUBSET artifact.facts /\ IsFiniteSet(K)
         /\ candidates \in [1 .. n -> K]
         /\ \A i, j \in 1 .. n : i < j => Before(candidates[i], candidates[j])
         /\ \A f \in K : \E i \in 1 .. n : candidates[i] = f
  BY <1>1, DerivedIsOrdered
<1>3. \A i \in 1 .. n : scores[i] = Urgency(candidates[i]) /\ Urgency(candidates[i]) \in Nat
  BY <1>1, <1>2, UrgencyIsNumber DEF Scored
<1>4. scores \in [1 .. n -> Int]
  BY <1>2, <1>3 DEF Scored
<1>5. /\ \A i, j \in 1 .. n : Rank(scores, i) < Rank(scores, j) <=> Above(scores, i, j)
      /\ \A i \in 1 .. n : Rank(scores, i) \in 1 .. n
      /\ \A r \in 1 .. n : \E i \in 1 .. n : Rank(scores, i) = r
  BY <1>4, RanksArePlaces
<1> DEFINE At(r) == CHOOSE i \in 1 .. n : Rank(scores, i) = r
<1>6. \A r \in 1 .. n : At(r) \in 1 .. n /\ Rank(scores, At(r)) = r
  BY <1>5
<1>7. \A r \in 1 .. n : Ranked[r] = candidates[At(r)]
  BY <1>2 DEF Ranked
<1>8. DOMAIN candidates = 1 .. n /\ DOMAIN Ranked = 1 .. n
  BY <1>2 DEF Ranked
<1>9. Ranked = [r \in 1 .. n |-> Ranked[r]]
  BY <1>8 DEF Ranked
<1> HIDE DEF At
<1>10. Ranked \in [1 .. n -> K]
  BY <1>2, <1>6, <1>7, <1>9
<1>11. \A r, q \in 1 .. n : r < q => MoreUrgent(Ranked[r], Ranked[q])
  <2> TAKE r, q \in 1 .. n
  <2> HAVE r < q
  <2>1. Above(scores, At(r), At(q))
    BY <1>5, <1>6
  <2>2. PICK i \in 1 .. n, j \in 1 .. n : i = At(r) /\ j = At(q)
    BY <1>6
  <2>3. Above(scores, i, j) /\ Ranked[r] = candidates[i] /\ Ranked[q] = candidates[j]
    BY <1>7, <2>1, <2>2
  <2>4. scores[i] > scores[j] \/ (scores[i] = scores[j] /\ Before(candidates[i], candidates[j]))
    BY <1>2, <2>3 DEF Above
  <2> QED BY <1>3, <2>3, <2>4 DEF MoreUrgent
<1>12. \A f \in K : \E r \in 1 .. n : Ranked[r] = f
  <2> TAKE f \in K
  <2>1. PICK i \in 1 .. n : candidates[i] = f
    BY <1>2
  <2>2. Rank(scores, i) \in 1 .. n
    BY <1>5
  <2>3. At(Rank(scores, i)) = i
    <3> DEFINE j == At(Rank(scores, i))
    <3>1. j \in 1 .. n /\ Rank(scores, j) = Rank(scores, i)
      BY <1>6, <2>2
    <3> HIDE DEF j
    <3>2. ~Above(scores, i, j) /\ ~Above(scores, j, i)
      BY <1>5, <2>2, <3>1
    <3>3. scores[i] \in Int /\ scores[j] \in Int
      BY <1>4, <3>1
    <3>4. i = j
      BY <3>1, <3>2, <3>3 DEF Above
    <3> QED BY <3>4 DEF j
  <2>4. Ranked[Rank(scores, i)] = f
    BY <1>7, <2>1, <2>2, <2>3
  <2> QED BY <2>2, <2>4
<1> QED BY <1>2, <1>8, <1>10, <1>11, <1>12

----------------------------------------------------------------------------
(* Every node preserves the invariant. *)

LEMMA InitSound == Init => Inv
<1> SUFFICES ASSUME Init PROVE Inv
  OBVIOUS
<1>1. TypeOK
  BY DEF Init, TypeOK, Nodes, NoOutput, Artifacts, Range
<1>2. Disclosed(live, reached, refused)
  BY DEF Init, Disclosed
<1> QED BY <1>1, <1>2 DEF Init, Inv, ScanSound

\* A node before the findings leaves what is derived and what is scored alone.
LEMMA DerivedStands ==
  ASSUME Derived, UNCHANGED <<artifact, candidates>>
  PROVE  Derived'
BY DEF Derived

LEMMA ScoredStands ==
  ASSUME Scored, UNCHANGED <<candidates, exposure, records, scores>>
  PROVE  Scored'
BY DEF Scored, Urgency, ExposureOf, ExploitStatus

\* However the artifact is obtained.
LEMMA ObtainsSound ==
  ASSUME Inv, NEW word, NEW found \in SUBSET Host, NEW scanned \in SUBSET found,
         NEW declined \in SUBSET found, Disclosed(found, scanned, declined),
         NEW output \in Artifacts, Obtains(word, found, scanned, declined, output),
         word \in {"parsed-by-backend", "provided", "no-target", "scanner-unavailable",
                   "scan-failed", "scanned", "no-live-hosts", "swept"},
         word = "no-live-hosts" => output.text = "none"
  PROVE  Inv'
<1>1. TypeOK'
  BY DEF Inv, TypeOK, Obtains, Goes, Nodes
<1>2. Disclosed(live, reached, refused)'
  BY DEF Obtains, Disclosed
<1> QED BY <1>1, <1>2 DEF Inv, ScanSound, Obtains, Goes

\* Where no host is left out there is nothing to disclose.
LEMMA AllScanned == \A hosts : Disclosed(hosts, hosts, {})
BY DEF Disclosed

LEMMA TakeSuppliedSound == Inv /\ TakeSupplied => Inv'
<1> SUFFICES ASSUME Inv, TakeSupplied PROVE Inv'
  OBVIOUS
<1>1. Readable(Host) \cup Garbled \subseteq Artifacts /\ NoOutput \in Artifacts
  BY FactAssumption DEF Readable, Garbled, NoOutput, Artifacts
<1>2. CASE \E a \in Readable(Host) : Obtains("parsed-by-backend", {}, {}, {}, a)
  BY <1>1, <1>2, AllScanned, ObtainsSound
<1>3. CASE \E a \in Readable(Host) \cup Garbled : Obtains("provided", {}, {}, {}, a)
  BY <1>1, <1>3, AllScanned, ObtainsSound
<1>4. CASE Obtains("no-target", {}, {}, {}, NoOutput)
  BY <1>1, <1>4, AllScanned, ObtainsSound
<1> QED BY <1>2, <1>3, <1>4 DEF TakeSupplied

LEMMA ScanUnavailableSound == Inv /\ ScanUnavailable => Inv'
<1>1. NoOutput \in Artifacts
  BY DEF NoOutput, Artifacts
<1> QED BY <1>1, AllScanned, ObtainsSound DEF ScanUnavailable

LEMMA ScanHostSound == Inv /\ ScanHost => Inv'
<1> SUFFICES ASSUME Inv, ScanHost PROVE Inv'
  OBVIOUS
<1>1. PICK h \in Host : \E a \in Readable({h}) \cup Garbled \cup {NoOutput} :
                           Obtains("scanned", {h}, {h}, {}, a)
  BY DEF ScanHost
<1>2. Readable({h}) \cup Garbled \cup {NoOutput} \subseteq Artifacts
  BY FactAssumption DEF Readable, Garbled, NoOutput, Artifacts
<1> QED BY <1>1, <1>2, AllScanned, ObtainsSound

LEMMA SweepSound == Inv /\ Sweep => Inv'
<1> SUFFICES ASSUME Inv, Sweep PROVE Inv'
  OBVIOUS
<1>1. NoOutput \in Artifacts /\ NoOutput.text = "none"
  BY DEF NoOutput, Artifacts
<1>2. CASE Obtains("no-live-hosts", {}, {}, {}, NoOutput)
  BY <1>1, <1>2, AllScanned, ObtainsSound
<1>3. CASE Obtains("scan-failed", {}, {}, {}, NoOutput)
  BY <1>1, <1>3, AllScanned, ObtainsSound
<1>4. CASE \E found \in (SUBSET Host) \ {{}} : \E hosts \in Swept(found) :
              \E declined \in (SUBSET hosts) \ {hosts} :
              \E a \in Readable(hosts \ declined) \cup Garbled \cup {NoOutput} :
                 Obtains("swept", found, hosts \ declined, declined, a)
  <2>1. PICK found \in SUBSET Host : \E hosts \in Swept(found) : \E declined \in SUBSET hosts :
               \E a \in Readable(hosts \ declined) \cup Garbled \cup {NoOutput} :
                  Obtains("swept", found, hosts \ declined, declined, a)
    BY <1>4
  <2>2. PICK hosts \in Swept(found) : \E declined \in SUBSET hosts :
               \E a \in Readable(hosts \ declined) \cup Garbled \cup {NoOutput} :
                  Obtains("swept", found, hosts \ declined, declined, a)
    BY <2>1
  <2>3. PICK declined \in SUBSET hosts :
               \E a \in Readable(hosts \ declined) \cup Garbled \cup {NoOutput} :
                  Obtains("swept", found, hosts \ declined, declined, a)
    BY <2>2
  <2>4. hosts \in SUBSET found /\ Cardinality(hosts) = Min({Cardinality(found), MaxSweepHosts})
    BY DEF Swept
  <2>5. Readable(hosts \ declined) \cup Garbled \cup {NoOutput} \subseteq Artifacts
    BY FactAssumption DEF Readable, Garbled, NoOutput, Artifacts
  <2>6. Disclosed(found, hosts \ declined, declined)
    <3>1. CASE Cardinality(found) > MaxSweepHosts
      BY <3>1 DEF Disclosed
    <3>2. CASE ~(Cardinality(found) > MaxSweepHosts)
      <4>1. IsFiniteSet(found) /\ Cardinality(found) \in Nat
        BY FactAssumption, FS_Subset, FS_CardinalityType
      <4>2. Min({Cardinality(found), MaxSweepHosts}) = Cardinality(found)
        BY <3>2, <4>1, LimitAssumption DEF Min
      <4>3. hosts = found
        BY <2>4, <4>1, <4>2, FS_Subset
      <4> QED BY <4>3 DEF Disclosed
    <3> QED BY <3>1, <3>2
  <2> QED BY <2>4, <2>5, <2>6, <2>3, ObtainsSound
<1> QED BY <1>2, <1>3, <1>4 DEF Sweep

LEMMA CorrelateSound == Inv /\ Correlate => Inv'
<1> SUFFICES ASSUME Inv, Correlate PROVE Inv'
  OBVIOUS
<1>1. PICK K \in Kept(artifact.facts) : candidates' = InOrder(K)
  BY DEF Correlate
<1>2. K \in SUBSET Fact
  BY DEF Kept, Inv, TypeOK, Artifacts
<1>3. Range(candidates') \subseteq Fact
  BY <1>1, <1>2, InOrderSorts DEF Range
<1>4. Derived'
  BY <1>1 DEF Derived, Correlate, scan
<1>5. TypeOK'
  BY <1>3 DEF Inv, TypeOK, Correlate, Goes, Nodes, scan
<1> QED BY <1>4, <1>5 DEF Inv, ScanSound, Disclosed, Correlate, Goes, scan

LEMMA EnrichSound == Inv /\ Enrich => Inv'
<1> SUFFICES ASSUME Inv, Enrich PROVE Inv'
  OBVIOUS
<1>1. /\ DOMAIN exposure' \subseteq Range(Hosts) /\ Range(exposure') \subseteq Exposure
      /\ DOMAIN records' \subseteq Range(Cves) \ {None} /\ Range(records') \subseteq {"known", "other"}
  BY LookedUpIsThere DEF Enrich, Range
<1>2. \A i \in DOMAIN candidates : candidates[i] \in Fact
  BY DEF Inv, TypeOK, Range
<1>3. \A f \in Fact : f.host \in Host /\ f.cve \in Cve \cup {None}
  BY FactAssumption DEF Facts
<1>4. Range(Hosts) \subseteq Host /\ Range(Cves) \subseteq Cve \cup {None}
  BY <1>2, <1>3 DEF Hosts, Cves, Range
<1>5. TypeOK'
  BY <1>1, <1>4 DEF Inv, TypeOK, Enrich, Goes, Nodes, scan
<1>6. Derived'
  BY DerivedStands DEF Inv, Enrich, Goes, scan
<1> QED BY <1>5, <1>6 DEF Inv, ScanSound, Disclosed, Enrich, Goes, scan

LEMMA CloseFailsSound == Inv /\ CloseFails => Inv'
<1> SUFFICES ASSUME Inv, CloseFails PROVE Inv'
  OBVIOUS
<1>1. TypeOK'
  BY DEF Inv, TypeOK, CloseFails, Goes, Nodes, scan
<1> QED BY <1>1 DEF Inv, ScanSound, Disclosed, CloseFails, Goes, scan

LEMMA PrioritizeSound == Inv /\ Prioritize => Inv'
<1> SUFFICES ASSUME Inv, Prioritize PROVE Inv'
  OBVIOUS
<1>1. Derived /\ artifact.facts \in SUBSET Fact
  BY DEF Inv, Prioritize, Goes, TypeOK, Artifacts
<1>2. PICK n \in Nat : candidates \in [1 .. n -> Fact]
  <2>1. PICK K \in Kept(artifact.facts), n \in Nat :
           K \in SUBSET artifact.facts /\ candidates \in [1 .. n -> K]
    BY <1>1, DerivedIsOrdered
  <2> QED BY <1>1, <2>1
<1>3. \A i \in 1 .. n : Urgency(candidates[i]) \in Nat
  BY <1>2, UrgencyIsNumber DEF Inv
<1>4. scores' \in Seq(Nat)
  <2>1. scores' \in [1 .. n -> Nat]
    BY <1>2, <1>3 DEF Prioritize
  <2> QED BY <2>1
<1>5. TypeOK'
  BY <1>4 DEF Inv, TypeOK, Prioritize, Goes, Nodes, scan
<1>6. Derived'
  BY <1>1, DerivedStands DEF Prioritize, scan
<1>7. Scored'
  BY DEF Prioritize, Scored, Urgency, ExposureOf, ExploitStatus
<1> QED BY <1>5, <1>6, <1>7 DEF Inv, ScanSound, Disclosed, Prioritize, Goes, scan

LEMMA ReasonSound == Inv /\ Reason => Inv'
<1> SUFFICES ASSUME Inv, Reason PROVE Inv'
  OBVIOUS
<1>1. answer' \in Seq(Assessed)
  <2>1. answer' \in Answers \/ answer' = <<>>
    BY DEF Reason
  <2>2. <<>> \in Seq(Assessed)
    OBVIOUS
  <2> QED BY <2>1, <2>2, AnswerAssumption
<1>2. TypeOK'
  BY <1>1 DEF Inv, TypeOK, Reason, Goes, Nodes, scan
<1>3. Derived'
  BY DerivedStands DEF Inv, Reason, Goes, scan
<1>4. Scored'
  BY ScoredStands DEF Inv, Reason, Goes
<1> QED BY <1>2, <1>3, <1>4 DEF Inv, ScanSound, Disclosed, Reason, Goes, scan

LEMMA ReasonRaisesSound == Inv /\ ReasonRaises => Inv'
<1> SUFFICES ASSUME Inv, ReasonRaises PROVE Inv'
  OBVIOUS
<1>1. TypeOK'
  BY DEF Inv, TypeOK, ReasonRaises, Goes, Nodes, scan
<1> QED BY <1>1 DEF Inv, ScanSound, Disclosed, ReasonRaises, Goes, scan

\* A finding about a candidate is a finding.
LEMMA ToFindingIsFinding ==
  ASSUME TypeOK, NEW f \in Fact
  PROVE  ToFinding(f) \in Findings
<1>1. f.severity \in Severity
  BY FactAssumption DEF Facts
<1>2. WriteUp(f) # None => WriteUp(f) \in Severity
  <2> SUFFICES ASSUME WriteUp(f) # None
               PROVE  WriteUp(f) \in Severity
    OBVIOUS
  <2>1. PICK e \in Range(answer) : e.severity = WriteUp(f)
    BY WriteUpIsGiven DEF TypeOK
  <2>2. e \in Assessed
    BY DEF TypeOK, Range
  <2> QED BY <2>1, <2>2 DEF Assessed
<1> QED BY <1>1, <1>2 DEF ToFinding, Findings

LEMMA EmitFindingsSound == Inv /\ EmitFindings => Inv'
<1> SUFFICES ASSUME Inv, EmitFindings PROVE Inv'
  OBVIOUS
<1>1. Derived /\ artifact.facts \in SUBSET Fact
  BY DEF Inv, EmitFindings, Goes, TypeOK, Artifacts
<1>2. NoFindings \in Findings
  BY DEF Inv, TypeOK, NoFindings, Findings, Severity, SeverityPoints
<1>3. Range(findings') \subseteq Findings
  <2>1. CASE candidates = <<>>
    BY <1>2, <2>1 DEF EmitFindings, Range
  <2>2. CASE candidates # <<>>
    <3>1. artifact.facts # {}
      BY <1>1, <2>2, FactsGiveCandidates
    <3>2. Scored
      BY <3>1 DEF Inv, EmitFindings, Goes
    <3>3. PICK K \in Kept(artifact.facts), n \in Nat :
             /\ K \in SUBSET artifact.facts
             /\ DOMAIN candidates = 1 .. n
             /\ Ranked \in [1 .. n -> K]
      BY <1>1, <3>2, RankedIsByUrgency DEF Inv
    <3>4. \A r \in DOMAIN candidates : ToFinding(Ranked[r]) \in Findings
      BY <1>1, <3>3, ToFindingIsFinding DEF Inv
    <3> QED BY <2>2, <3>4 DEF EmitFindings, Range
  <2> QED BY <2>1, <2>2
<1>4. TypeOK'
  BY <1>3 DEF Inv, TypeOK, EmitFindings, Goes, Nodes, scan
<1>5. Derived'
  BY <1>1, DerivedStands DEF EmitFindings, scan
<1>6. artifact.facts # {} => Scored'
  BY ScoredStands DEF Inv, EmitFindings, Goes
<1>7. Emitted'
  BY DEF EmitFindings, Emitted, NoFindings, ToFinding, Ranked, WriteUp, SelectLastInSeq, scan
<1> QED BY <1>4, <1>5, <1>6, <1>7 DEF Inv, ScanSound, Disclosed, EmitFindings, Goes, scan

LEMMA StutterSound == Inv /\ UNCHANGED vars => Inv'
<1> SUFFICES ASSUME Inv, UNCHANGED vars PROVE Inv'
  OBVIOUS
<1>1. TypeOK'
  BY DEF Inv, TypeOK, vars
<1>2. Derived => Derived'
  BY DerivedStands DEF vars
<1>3. Scored => Scored'
  BY ScoredStands DEF vars
<1>4. Emitted => Emitted'
  BY DEF vars, Emitted, NoFindings, ToFinding, Ranked, WriteUp, SelectLastInSeq
<1> QED BY <1>1, <1>2, <1>3, <1>4 DEF Inv, ScanSound, Disclosed, vars

\* The inductive invariant holds of every assessment.
THEOREM Invariance == Spec => []Inv
<1>1. Inv /\ [Next]_vars => Inv'
  BY TakeSuppliedSound, ScanUnavailableSound, ScanHostSound, SweepSound, CorrelateSound,
     EnrichSound, CloseFailsSound, PrioritizeSound, ReasonSound, ReasonRaisesSound,
     EmitFindingsSound, StutterSound DEF Next
<1> QED BY <1>1, InitSound, PTL DEF Spec

----------------------------------------------------------------------------
(* What follows. *)

\* Every variable has its type: lookups are about hosts and CVEs of the facts, scores
\* are numbers, and every finding is about a fact with a severity (nodes.py).
THEOREM TypeCorrect == Spec => []TypeOK
BY Invariance, PTL DEF Inv

\* What an assessment returns about an artifact that shows something.
LEMMA WhatIsReported ==
  ASSUME Inv, node = "done", artifact.facts # {}
  PROVE  \E K \in Kept(artifact.facts), n \in Nat :
           /\ K \in SUBSET artifact.facts
           /\ DOMAIN findings = 1 .. n
           /\ \A i \in 1 .. n : findings[i].fact \in K
           /\ \A i, j \in 1 .. n : i < j => MoreUrgent(findings[i].fact, findings[j].fact)
           /\ \A f \in K : \E i \in 1 .. n : findings[i].fact = f
<1>1. Derived /\ Scored /\ Emitted /\ TypeOK
  BY DEF Inv
<1>2. artifact.facts \in SUBSET Fact
  BY <1>1 DEF TypeOK, Artifacts
<1>3. candidates # <<>>
  BY <1>1, <1>2, FactsGiveCandidates
<1>4. PICK K \in Kept(artifact.facts), n \in Nat :
         /\ K \in SUBSET artifact.facts
         /\ DOMAIN candidates = 1 .. n
         /\ Ranked \in [1 .. n -> K]
         /\ \A r, q \in 1 .. n : r < q => MoreUrgent(Ranked[r], Ranked[q])
         /\ \A f \in K : \E r \in 1 .. n : Ranked[r] = f
  BY <1>1, RankedIsByUrgency
<1>5. DOMAIN findings = 1 .. n /\ \A i \in 1 .. n : findings[i] = ToFinding(Ranked[i])
  BY <1>1, <1>3, <1>4 DEF Emitted
<1>6. \A i \in 1 .. n : findings[i].fact = Ranked[i]
  BY <1>5 DEF ToFinding
<1>7. \A i \in 1 .. n : findings[i].fact \in K
  BY <1>4, <1>6
<1>8. \A i, j \in 1 .. n : i < j => MoreUrgent(findings[i].fact, findings[j].fact)
  BY <1>4, <1>6
<1>9. \A f \in K : \E i \in 1 .. n : findings[i].fact = f
  BY <1>4, <1>6
<1>10. /\ K \in Kept(artifact.facts)
       /\ n \in Nat
       /\ K \in SUBSET artifact.facts
       /\ DOMAIN findings = 1 .. n
  BY <1>4, <1>5
<1> QED BY <1>7, <1>8, <1>9, <1>10, Zenon

\* Whatever lookups fail and whatever the model answers, an assessment that returns has
\* one finding for every id the rules derived, each about a fact of the artifact: of the
\* facts with an id one is kept, the ranks are a permutation, and every rank is emitted.
THEOREM OneFindingEach == Spec => []OneFindingPerId
<1>1. Inv => OneFindingPerId
  <2> SUFFICES ASSUME Inv, node = "done", artifact.facts # {}
               PROVE  /\ \A i \in DOMAIN findings : findings[i].fact \in artifact.facts
                      /\ \A f \in artifact.facts :
                            Cardinality({i \in DOMAIN findings : findings[i].fact.id = f.id}) = 1
    BY DEF OneFindingPerId
  <2>1. PICK K \in Kept(artifact.facts), n \in Nat :
           /\ K \in SUBSET artifact.facts
           /\ DOMAIN findings = 1 .. n
           /\ \A i \in 1 .. n : findings[i].fact \in K
           /\ \A i, j \in 1 .. n : i < j => MoreUrgent(findings[i].fact, findings[j].fact)
           /\ \A f \in K : \E i \in 1 .. n : findings[i].fact = f
    BY WhatIsReported
  <2>2. ASSUME NEW f \in artifact.facts
        PROVE  Cardinality({i \in DOMAIN findings : findings[i].fact.id = f.id}) = 1
    <3> DEFINE Same == {g \in K : g.id = f.id}
    <3>1. Cardinality(Same) = 1 /\ IsFiniteSet(Same)
      <4>1. Cardinality(Same) = 1
        BY DEF Kept
      <4>2. IsFiniteSet(Fact) /\ Same \in SUBSET Fact
        BY <2>1, FactAssumption DEF Inv, TypeOK, Artifacts
      <4> HIDE DEF Same
      <4> QED BY <4>1, <4>2, FS_Subset
    <3>2. PICK g : Same = {g}
      <4> HIDE DEF Same
      <4> QED BY <3>1, FS_Singleton
    <3>3. g \in K /\ \A h \in K : h.id = f.id <=> h = g
      BY <3>2
    <3>4. PICK i \in 1 .. n : findings[i].fact = g
      BY <2>1, <3>3
    <3>5. ~MoreUrgent(g, g)
      <4>1. g \in Fact
        BY <2>1, <3>3 DEF Inv, TypeOK, Artifacts
      <4>2. Urgency(g) \in Nat /\ ~Before(g, g)
        BY <4>1, UrgencyIsNumber, BeforeOrders DEF Inv
      <4> QED BY <4>2 DEF MoreUrgent
    <3>6. \A j \in 1 .. n : findings[j].fact = g => j = i
      BY <2>1, <3>4, <3>5
    <3>7. {j \in DOMAIN findings : findings[j].fact.id = f.id} = {i}
      BY <2>1, <3>3, <3>4, <3>6
    <3> QED BY <3>7, FS_Singleton
  <2> QED BY <2>1, <2>2
<1> QED BY <1>1, Invariance, PTL

\* Findings stand in the order of their urgency, equally urgent ones in the order of
\* their rules' severity: the model has no say in it.
THEOREM MostUrgentFirst == Spec => []RankedByUrgency
<1>1. Inv => RankedByUrgency
  <2> SUFFICES ASSUME Inv, node = "done", artifact.facts # {}
               PROVE  \A i, j \in DOMAIN findings :
                        i < j => MoreUrgent(findings[i].fact, findings[j].fact)
    BY DEF RankedByUrgency, MoreUrgent
  <2> QED BY WhatIsReported
<1> QED BY <1>1, Invariance, PTL

\* A finding has the severity of its rule or one the model gave to this candidate,
\* whatever ids an answer repeats, leaves out or makes up.
THEOREM SeverityIsTraced == Spec => []SeverityIsAccountedFor
<1>1. Inv => SeverityIsAccountedFor
  <2> SUFFICES ASSUME Inv, node = "done", NEW i \in DOMAIN findings, findings[i].fact # None
               PROVE  \/ findings[i].severity = findings[i].fact.severity
                      \/ \E e \in Range(answer) :
                            /\ e.candidate_id = findings[i].fact.id
                            /\ e.severity = findings[i].severity
    BY DEF SeverityIsAccountedFor
  <2>1. candidates # <<>>
    <3> SUFFICES ASSUME candidates = <<>>
                 PROVE  FALSE
      OBVIOUS
    <3>1. findings = <<NoFindings>>
      BY DEF Inv, Emitted
    <3>2. findings[i] = NoFindings
      BY <3>1
    <3> QED BY <3>2 DEF NoFindings
  <2>2. findings[i] = ToFinding(Ranked[i])
    BY <2>1 DEF Inv, Emitted
  <2> DEFINE f == Ranked[i]
  <2>3. /\ findings[i].fact = f
        /\ findings[i].severity = IF WriteUp(f) = None THEN f.severity ELSE WriteUp(f)
    BY <2>2 DEF ToFinding
  <2>4. answer \in Seq(Assessed)
    BY DEF Inv, TypeOK
  <2> HIDE DEF f
  <2> QED BY <2>3, <2>4, WriteUpIsGiven
<1> QED BY <1>1, Invariance, PTL

\* A scan is called clean only if there was one, it could be read and it shows nothing,
\* and the report tells of the hosts it found and did not scan.
THEOREM CleanIsExamined == Spec => []CleanMeansExamined
<1>1. Inv => CleanMeansExamined
  <2> SUFFICES ASSUME Inv, node = "done", NEW i \in DOMAIN findings, findings[i].title = "clean"
               PROVE  /\ status \in {"parsed-by-backend", "provided", "scanned", "swept"}
                      /\ artifact = [text |-> "readable", facts |-> {}]
                      /\ findings[i].partial \/ live \ reached \subseteq findings[i].refused
    BY DEF CleanMeansExamined
  <2>1. candidates = <<>>
    BY DEF Inv, Emitted, ToFinding
  <2>2. findings[i] = NoFindings
    <3>1. findings = <<NoFindings>>
      BY <2>1 DEF Inv, Emitted
    <3> QED BY <3>1
  <2>3. artifact.facts = {}
    BY <2>1, FactsGiveCandidates DEF Inv, TypeOK, Artifacts
  <2>4. /\ status \notin {"no-target", "scanner-unavailable", "scan-failed"}
        /\ artifact.text = "readable"
        /\ findings[i].partial = (Cardinality(live) > MaxSweepHosts)
        /\ findings[i].refused = refused
    BY <2>2 DEF NoFindings
  <2>5. status \notin {"none", "no-live-hosts"}
    BY <2>4 DEF Inv, ScanSound
  <2>6. artifact = [text |-> "readable", facts |-> {}]
    BY <2>3, <2>4 DEF Inv, TypeOK, Artifacts
  <2>7. Disclosed(live, reached, refused)
    BY DEF Inv
  <2> QED BY <2>4, <2>5, <2>6, <2>7 DEF Inv, TypeOK, Disclosed
<1> QED BY <1>1, Invariance, PTL
=============================================================================
