------------------------ MODULE PhishingAgent_proofs ------------------------
(* Proofs about one phishing analysis, for any messages, brands, phrases, answers and
   caps: that the evidence is what rules and lookups established, that the severity is
   never below it, that an attempt to address the analyser is reported, and that
   a host said to imitate a brand is few edits from it or carries its name. *)
EXTENDS PhishingAgent, FiniteSetTheorems, FunctionTheorems, SequenceTheorems, TLAPS

----------------------------------------------------------------------------
(* Finite sets of keyed elements. *)

\* How many elements of S have a smaller key than x.
Place(S, key, x) == Cardinality({y \in S : key[y] < key[x]})

\* Places follow the keys.
LEMMA PlacesFollowKeys ==
  ASSUME NEW S, IsFiniteSet(S), NEW key \in [S -> Int]
  PROVE  \A x, y \in S :
            /\ Place(S, key, x) \in 0 .. Cardinality(S) - 1
            /\ key[x] < key[y] <=> Place(S, key, x) < Place(S, key, y)
<1> DEFINE Under(x) == {y \in S : key[y] < key[x]}
<1>0. Cardinality(S) \in Nat
  BY FS_CardinalityType
<1>1. ASSUME NEW x \in S
      PROVE  IsFiniteSet(Under(x)) /\ Cardinality(Under(x)) \in 0 .. Cardinality(S) - 1
  <2>1. Under(x) \in SUBSET (S \ {x})
    OBVIOUS
  <2>2. IsFiniteSet(S \ {x}) /\ Cardinality(S \ {x}) = Cardinality(S) - 1
    BY FS_RemoveElement
  <2> HIDE DEF Under
  <2>3. IsFiniteSet(Under(x)) /\ Cardinality(Under(x)) <= Cardinality(S) - 1
    BY <2>1, <2>2, FS_Subset
  <2>4. Cardinality(Under(x)) \in Nat
    BY <2>3, FS_CardinalityType
  <2> QED BY <1>0, <2>3, <2>4
<1>2. ASSUME NEW x \in S, NEW y \in S, key[x] < key[y]
      PROVE  Cardinality(Under(x)) < Cardinality(Under(y))
  <2>1. Under(x) \in SUBSET Under(y) /\ x \in Under(y) /\ x \notin Under(x)
    BY <1>2
  <2> HIDE DEF Under
  <2>2. /\ Cardinality(Under(x)) <= Cardinality(Under(y))
        /\ Cardinality(Under(y)) = Cardinality(Under(x)) => Under(y) = Under(x)
    BY <1>1, <2>1, FS_Subset
  <2>3. Cardinality(Under(x)) \in 0 .. Cardinality(S) - 1
    BY <1>1
  <2>4. Cardinality(Under(y)) \in 0 .. Cardinality(S) - 1
    BY <1>1
  <2>5. Cardinality(Under(x)) # Cardinality(Under(y))
    BY <2>1, <2>2
  <2> QED BY <1>0, <2>2, <2>3, <2>4, <2>5
<1>3. ASSUME NEW x \in S, NEW y \in S, key[x] = key[y]
      PROVE  Under(x) = Under(y)
  BY <1>3
<1>4. \A x \in S : Place(S, key, x) = Cardinality(Under(x))
  BY DEF Place
<1> HIDE DEF Under
<1>5. ASSUME NEW x \in S, NEW y \in S
      PROVE  key[x] < key[y] <=> Cardinality(Under(x)) < Cardinality(Under(y))
  <2>1. Cardinality(Under(x)) \in 0 .. Cardinality(S) - 1
    BY <1>1
  <2>2. Cardinality(Under(y)) \in 0 .. Cardinality(S) - 1
    BY <1>1
  <2>3. key[x] < key[y] => Cardinality(Under(x)) < Cardinality(Under(y))
    BY <1>2
  <2>4. key[y] < key[x] => Cardinality(Under(y)) < Cardinality(Under(x))
    BY <1>2
  <2>5. key[x] = key[y] => Cardinality(Under(x)) = Cardinality(Under(y))
    BY <1>3
  <2>6. key[x] \in Int /\ key[y] \in Int
    OBVIOUS
  <2> QED BY <1>0, <2>1, <2>2, <2>3, <2>4, <2>5, <2>6
<1> QED BY <1>1, <1>4, <1>5

\* With different keys every place is taken, once.
LEMMA PlacesAreTaken ==
  ASSUME NEW S, IsFiniteSet(S), NEW key \in [S -> Int],
         \A x, y \in S : key[x] = key[y] => x = y
  PROVE  \A n \in 0 .. Cardinality(S) - 1 :
            \E x \in S : Place(S, key, x) = n /\ \A y \in S : Place(S, key, y) = n => y = x
<1> DEFINE N == 0 .. Cardinality(S) - 1
           place == [x \in S |-> Place(S, key, x)]
<1>1. Cardinality(S) \in Nat
  BY FS_CardinalityType
<1>2. IsFiniteSet(N) /\ Cardinality(N) = Cardinality(S)
  <2>1. Cardinality(S) - 1 \in Int /\ 0 \in Int
    BY <1>1
  <2>2. /\ IsFiniteSet(N)
        /\ Cardinality(N) = IF 0 > Cardinality(S) - 1 THEN 0 ELSE Cardinality(S) - 1 - 0 + 1
    BY <2>1, FS_Interval
  <2> QED BY <1>1, <2>2
<1>3. place \in [S -> N]
  BY PlacesFollowKeys
<1>4. \A x, y \in S : place[x] = place[y] => x = y
  <2> SUFFICES ASSUME NEW x \in S, NEW y \in S, place[x] = place[y]
               PROVE  x = y
    OBVIOUS
  <2>1. Place(S, key, x) = Place(S, key, y)
    OBVIOUS
  <2>2. Place(S, key, x) \in 0 .. Cardinality(S) - 1
    BY PlacesFollowKeys
  <2> HIDE DEF place
  <2>3. ~(key[x] < key[y]) /\ ~(key[y] < key[x])
    BY <1>1, <2>1, <2>2, PlacesFollowKeys
  <2>4. key[x] \in Int /\ key[y] \in Int
    OBVIOUS
  <2> QED BY <2>3, <2>4
<1> HIDE DEF N, place
<1>5. place \in Injection(S, N)
  BY <1>3, <1>4, Fun_IsInj
<1>6. place \in Surjection(S, N)
  BY <1>2, <1>5, FS_Injection
<1>7. \A n \in N : \E x \in S : place[x] = n
  BY <1>6 DEF Surjection
<1>8. \A n \in N : \E x \in S : place[x] = n /\ \A y \in S : place[y] = n => y = x
  BY <1>4, <1>7
<1> QED BY <1>8 DEF N, place

\* Some element has the greatest key.
LEMMA GreatestKey ==
  ASSUME NEW S, IsFiniteSet(S), S # {}, NEW key \in [S -> Int]
  PROVE  \E x \in S : \A y \in S : key[x] >= key[y]
<1> DEFINE T == Range(key)
           same == [k \in T |-> k]
<1>1. key \in Surjection(S, T)
  BY Fun_IsSurj DEF Range
<1>2. IsFiniteSet(T) /\ T \subseteq Int /\ T # {}
  BY <1>1, FS_Surjection DEF Range
<1>3. Cardinality(T) \in Nat /\ Cardinality(T) # 0
  BY <1>2, FS_CardinalityType, FS_EmptySet
<1>4. same \in [T -> Int] /\ \A k, m \in T : same[k] = same[m] => k = m
  BY <1>2
<1>5. Cardinality(T) - 1 \in 0 .. Cardinality(T) - 1
  BY <1>3
<1> HIDE DEF T, same
<1>6. PICK k \in T : Place(T, same, k) = Cardinality(T) - 1
  <2>1. \A n \in 0 .. Cardinality(T) - 1 :
           \E k \in T : Place(T, same, k) = n /\ \A m \in T : Place(T, same, m) = n => m = k
    BY <1>2, <1>4, PlacesAreTaken
  <2> QED BY <1>5, <2>1
<1>7. \A m \in T : k >= m
  <2> TAKE m \in T
  <2>1. Place(T, same, m) \in 0 .. Cardinality(T) - 1
    BY <1>2, <1>4, PlacesFollowKeys
  <2>2. ~(Place(T, same, k) < Place(T, same, m))
    BY <1>3, <1>6, <2>1
  <2>3. ~(same[k] < same[m])
    BY <1>2, <1>4, <2>2, PlacesFollowKeys
  <2> QED BY <1>2, <2>3 DEF same
<1>8. PICK x \in S : key[x] = k
  BY DEF T, Range
<1>9. \A y \in S : key[y] \in T
  BY DEF T, Range
<1> QED BY <1>7, <1>8, <1>9

\* Some element has the least key.
LEMMA LeastKey ==
  ASSUME NEW S, IsFiniteSet(S), S # {}, NEW key \in [S -> Int]
  PROVE  \E x \in S : \A y \in S : key[x] <= key[y]
<1> DEFINE back == [x \in S |-> 0 - key[x]]
<1>1. back \in [S -> Int]
  OBVIOUS
<1>2. PICK x \in S : \A y \in S : back[x] >= back[y]
  <2> HIDE DEF back
  <2> QED BY <1>1, GreatestKey
<1> QED BY <1>2

\* A set of positions has a first one.
LEMMA MinIsElement ==
  ASSUME NEW I \in SUBSET Int, IsFiniteSet(I), I # {}
  PROVE  Min(I) \in I /\ \A i \in I : Min(I) <= i
<1> DEFINE same == [i \in I |-> i]
<1>1. same \in [I -> Int]
  OBVIOUS
<1>2. PICK x \in I : \A y \in I : same[x] <= same[y]
  <2> HIDE DEF same
  <2> QED BY <1>1, LeastKey
<1>3. \A y \in I : x <= y
  BY <1>2
<1> QED BY <1>3 DEF Min

\* The smaller of two numbers.
LEMMA MinOfTwo ==
  ASSUME NEW a \in Int, NEW b \in Int
  PROVE  Min({a, b}) = IF a <= b THEN a ELSE b
<1>1. \E x \in {a, b} : \A y \in {a, b} : x <= y
  OBVIOUS
<1>2. Min({a, b}) \in {a, b} /\ \A y \in {a, b} : Min({a, b}) <= y
  BY <1>1 DEF Min
<1> QED BY <1>2

\* The larger of two numbers.
LEMMA MaxOfTwo ==
  ASSUME NEW a \in Int, NEW b \in Int
  PROVE  Max({a, b}) = IF a >= b THEN a ELSE b
<1>1. \E x \in {a, b} : \A y \in {a, b} : x >= y
  OBVIOUS
<1>2. Max({a, b}) \in {a, b} /\ \A y \in {a, b} : Max({a, b}) >= y
  BY <1>1 DEF Max
<1> QED BY <1>2

\* Induction up to a bound, over a set of numbers.
LEMMA UpTo ==
  ASSUME NEW n \in Nat, NEW G, 0 \in G, \A k \in 0 .. n - 1 : k \in G => k + 1 \in G
  PROVE  \A k \in 0 .. n : k \in G
<1> DEFINE Bad == {k \in 0 .. n : k \notin G}
<1> SUFFICES ASSUME Bad # {}
             PROVE  FALSE
  OBVIOUS
<1>1. Bad \in SUBSET Int /\ Bad \in SUBSET (0 .. n)
  OBVIOUS
<1>2. IsFiniteSet(Bad)
  <2>1. IsFiniteSet(0 .. n)
    BY FS_Interval
  <2> HIDE DEF Bad
  <2> QED BY <1>1, <2>1, FS_Subset
<1> DEFINE m == Min(Bad)
<1>3. m \in Bad /\ \A k \in Bad : m <= k
  <2> HIDE DEF Bad
  <2> QED BY <1>1, <1>2, MinIsElement
<1> HIDE DEF m
<1>4. m \in 1 .. n /\ m \notin G
  BY <1>3
<1>5. m - 1 \in G
  BY <1>3, <1>4
<1>6. m - 1 \in 0 .. n - 1 /\ (m - 1) + 1 = m
  BY <1>4
<1> QED BY <1>4, <1>5, <1>6

----------------------------------------------------------------------------
(* Elements in some positions of a sequence. *)

\* The n elements of t are those of s in the positions I, each once and in their order.
Lists(t, s, I, n, pos) ==
  /\ n = Cardinality(I)
  /\ t = [k \in 1 .. n |-> s[pos[k]]]
  /\ \A k, m \in 1 .. n : k < m => pos[k] < pos[m]
  /\ \A i \in I : \E k \in 1 .. n : pos[k] = i

\* At is such a list.
LEMMA AtPositions ==
  ASSUME NEW s, NEW I \in SUBSET Int, IsFiniteSet(I)
  PROVE  \E n \in Nat : \E pos \in [1 .. n -> I] : Lists(At(s, I), s, I, n, pos)
<1> DEFINE n == Cardinality(I)
           same == [i \in I |-> i]
           Chosen(k) == CHOOSE i \in I : Cardinality({j \in I : j < i}) = k - 1
           pos == [k \in 1 .. n |-> Chosen(k)]
<1>1. n \in Nat
  BY FS_CardinalityType
<1>2. same \in [I -> Int] /\ \A i, j \in I : same[i] = same[j] => i = j
  OBVIOUS
<1>3. ASSUME NEW i \in I
      PROVE  Place(I, same, i) = Cardinality({j \in I : j < i})
  <2>1. {j \in I : same[j] < same[i]} = {j \in I : j < i}
    OBVIOUS
  <2> HIDE DEF same
  <2> QED BY <2>1 DEF Place
<1>4. \A i, j \in I : same[i] < same[j] <=> i < j
  OBVIOUS
<1> HIDE DEF same
<1>5. \A m \in 0 .. n - 1 :
         \E i \in I : Place(I, same, i) = m /\ \A j \in I : Place(I, same, j) = m => j = i
  BY <1>2, PlacesAreTaken
<1>6. \A i, j \in I : /\ Place(I, same, i) \in 0 .. n - 1
                      /\ same[i] < same[j] <=> Place(I, same, i) < Place(I, same, j)
  BY <1>2, PlacesFollowKeys
<1>7. \A k \in 1 .. n : Chosen(k) \in I /\ Place(I, same, Chosen(k)) = k - 1
  <2> TAKE k \in 1 .. n
  <2>1. k - 1 \in 0 .. n - 1
    BY <1>1
  <2>2. \E i \in I : Place(I, same, i) = k - 1
    BY <1>5, <2>1
  <2>3. \E i \in I : Cardinality({j \in I : j < i}) = k - 1
    BY <1>3, <2>2
  <2> QED BY <1>3, <2>3
<1>8. pos \in [1 .. n -> I]
  BY <1>7
<1>9. At(s, I) = [k \in 1 .. n |-> s[pos[k]]]
  BY DEF At
<1>10. \A k, m \in 1 .. n : k < m => pos[k] < pos[m]
  <2> TAKE k, m \in 1 .. n
  <2> HAVE k < m
  <2> HIDE DEF Chosen
  <2>1. Place(I, same, Chosen(k)) < Place(I, same, Chosen(m))
    <3>1. Place(I, same, Chosen(k)) = k - 1
      BY <1>7
    <3>2. Place(I, same, Chosen(m)) = m - 1
      BY <1>7
    <3> QED BY <3>1, <3>2
  <2>2. same[Chosen(k)] < same[Chosen(m)]
    BY <1>6, <1>7, <2>1
  <2> QED BY <1>4, <1>7, <2>2
<1>11. \A i \in I : \E k \in 1 .. n : pos[k] = i
  <2> TAKE i \in I
  <2>1. Place(I, same, i) \in 0 .. n - 1
    BY <1>6
  <2>2. PICK k \in 1 .. n : Place(I, same, i) = k - 1
    BY <1>1, <2>1
  <2> HIDE DEF Chosen
  <2>3. Chosen(k) \in I /\ Place(I, same, Chosen(k)) = k - 1
    BY <1>7
  <2>4. k - 1 \in 0 .. n - 1
    BY <1>1
  <2>5. Chosen(k) = i
    BY <1>5, <2>2, <2>3, <2>4
  <2> QED BY <2>5
<1> HIDE DEF pos, n
<1>12. Lists(At(s, I), s, I, n, pos)
  BY <1>9, <1>10, <1>11 DEF Lists, n
<1> QED BY <1>1, <1>8, <1>12

\* Of a sequence, At makes a sequence of elements of it.
LEMMA AtIsSequence ==
  ASSUME NEW T, NEW s \in Seq(T), NEW I \in SUBSET (DOMAIN s)
  PROVE  /\ At(s, I) \in Seq(T)
         /\ \A i \in I : \E k \in DOMAIN At(s, I) : At(s, I)[k] = s[i]
         /\ \A k \in DOMAIN At(s, I) : \E i \in I : At(s, I)[k] = s[i]
<1>1. I \in SUBSET Int /\ I \in SUBSET (1 .. Len(s))
  OBVIOUS
<1>2. IsFiniteSet(I)
  BY <1>1, FS_Interval, FS_Subset
<1>3. PICK n \in Nat : \E pos \in [1 .. n -> I] : Lists(At(s, I), s, I, n, pos)
  BY <1>1, <1>2, AtPositions
<1>4. PICK pos \in [1 .. n -> I] :
         /\ At(s, I) = [k \in 1 .. n |-> s[pos[k]]]
         /\ \A i \in I : \E k \in 1 .. n : pos[k] = i
  BY <1>3 DEF Lists
<1>5. At(s, I) \in [1 .. n -> T]
  <2>1. \A i \in I : s[i] \in T
    OBVIOUS
  <2> QED BY <1>4, <2>1
<1>6. At(s, I) \in Seq(T)
  BY <1>5
<1>7. DOMAIN At(s, I) = 1 .. n
  BY <1>4
<1>8. \A i \in I : \E k \in 1 .. n : At(s, I)[k] = s[i]
  BY <1>4
<1>9. \A k \in 1 .. n : \E i \in I : At(s, I)[k] = s[i]
  BY <1>4
<1> QED BY <1>6, <1>7, <1>8, <1>9

----------------------------------------------------------------------------
(* Sorting. *)

\* What sort_key compares.
Comparable(S) ==
  \A i \in S : i.weight \in Int /\ Book[i.rule].place \in Int /\ i.at \in Int

\* The place of a locus is a number.
LEMMA LocusIsNumber ==
  ASSUME NEW i, i.at \in Int
  PROVE  Locus(i) \in Int
BY DEF Locus

\* A finite set of indicators that is not empty has a heaviest one.
LEMMA HeaviestIsThere ==
  ASSUME NEW S, IsFiniteSet(S), S # {}, Comparable(S)
  PROVE  Heaviest(S) \in S /\ \A i \in S : i.weight <= Heaviest(S).weight
<1> DEFINE weight == [i \in S |-> i.weight]
<1>1. PICK x \in S : \A y \in S : x.weight >= y.weight
  <2>1. weight \in [S -> Int]
    BY DEF Comparable
  <2>2. \E x \in S : \A y \in S : weight[x] >= weight[y]
    <3> HIDE DEF weight
    <3> QED BY <2>1, GreatestKey
  <2> QED BY <2>2
<1> DEFINE A == {i \in S : i.weight = x.weight}
           place == [i \in A |-> Book[i.rule].place]
<1>2. PICK y \in A : \A i \in A : Book[y.rule].place <= Book[i.rule].place
  <2>1. place \in [A -> Int] /\ A # {} /\ A \in SUBSET S
    BY DEF Comparable
  <2>2. IsFiniteSet(A)
    BY <2>1, FS_Subset
  <2>3. \E y \in A : \A i \in A : place[y] <= place[i]
    <3> HIDE DEF place, A
    <3> QED BY <2>1, <2>2, LeastKey
  <2> QED BY <2>3
<1> DEFINE B == {i \in A : Book[i.rule].place = Book[y.rule].place}
           at == [i \in B |-> Locus(i)]
<1>0. \A i \in S : Locus(i) \in Int
  BY LocusIsNumber DEF Comparable
<1>3. PICK z \in B : \A i \in B : Locus(z) <= Locus(i)
  <2>1. at \in [B -> Int] /\ B # {} /\ B \in SUBSET S
    BY <1>0
  <2>2. IsFiniteSet(B)
    BY <2>1, FS_Subset
  <2>3. \E z \in B : \A i \in B : at[z] <= at[i]
    <3> HIDE DEF at, B
    <3> QED BY <2>1, <2>2, LeastKey
  <2> QED BY <2>3
<1>4. \A i \in S : ~Heavier(i, z)
  <2> TAKE i \in S
  <2>1. z \in S /\ z.weight = x.weight /\ Book[z.rule].place = Book[y.rule].place
    OBVIOUS
  <2>2. ~(i.weight > z.weight)
    BY <1>1, <2>1 DEF Comparable
  <2>3. ~(i.weight = z.weight /\ Book[i.rule].place < Book[z.rule].place)
    BY <1>2, <2>1 DEF Comparable
  <2>4. ~(i.weight = z.weight /\ i.rule = z.rule /\ Locus(i) < Locus(z))
    BY <1>0, <1>3, <2>1
  <2> QED BY <2>2, <2>3, <2>4 DEF Heavier
<1>5. z \in S
  OBVIOUS
<1> HIDE DEF A, B
<1>6. Heaviest(S) \in S /\ \A i \in S : ~Heavier(i, Heaviest(S))
  BY <1>4, <1>5 DEF Heaviest
<1> QED BY <1>6 DEF Heavier, Comparable

\* One step of sorting, and a function that takes such steps on the sets D.
SortStep(g, rest) ==
  IF rest = {} THEN <<>> ELSE <<Heaviest(rest)>> \o g[rest \ {Heaviest(rest)}]
Sorts(g, D) == g = [rest \in D |-> SortStep(g, rest)]

Small(S, k) == {R \in SUBSET S : Cardinality(R) <= k}

\* What is left without its heaviest element is smaller.
LEMMA RestIsSmaller ==
  ASSUME NEW S, IsFiniteSet(S), Comparable(S), NEW R \in SUBSET S, R # {}
  PROVE  /\ IsFiniteSet(R) /\ Cardinality(R) \in Nat /\ Cardinality(R) # 0
         /\ Heaviest(R) \in R /\ \A i \in R : i.weight <= Heaviest(R).weight
         /\ R \ {Heaviest(R)} \in SUBSET S
         /\ Cardinality(R \ {Heaviest(R)}) = Cardinality(R) - 1
<1>1. IsFiniteSet(R)
  BY FS_Subset
<1>2. Cardinality(R) \in Nat /\ Cardinality(R) # 0
  BY <1>1, FS_CardinalityType, FS_EmptySet
<1>3. Comparable(R)
  BY DEF Comparable
<1>4. Heaviest(R) \in R /\ \A i \in R : i.weight <= Heaviest(R).weight
  BY <1>1, <1>3, HeaviestIsThere
<1> QED BY <1>1, <1>2, <1>4, FS_RemoveElement

\* Such a function exists on all subsets: it is built one size after the other.
LEMMA SorterExists ==
  ASSUME NEW S, IsFiniteSet(S), Comparable(S)
  PROVE  \E g : Sorts(g, SUBSET S)
<1> DEFINE n == Cardinality(S)
           G == {k \in 0 .. n : \E g : Sorts(g, Small(S, k))}
<1>1. n \in Nat
  BY FS_CardinalityType
<1>2. 0 \in G
  <2> DEFINE g == [rest \in Small(S, 0) |-> <<>>]
  <2>1. \A R \in Small(S, 0) : R = {}
    <3> TAKE R \in Small(S, 0)
    <3>1. IsFiniteSet(R) /\ Cardinality(R) <= 0
      BY FS_Subset DEF Small
    <3> QED BY <3>1, FS_CardinalityType, FS_EmptySet
  <2>2. \A R \in Small(S, 0) : SortStep(g, R) = <<>>
    BY <2>1 DEF SortStep
  <2> HIDE DEF g
  <2>3. Sorts(g, Small(S, 0))
    BY <2>2 DEF Sorts, g
  <2> QED BY <1>1, <2>3
<1>3. ASSUME NEW k \in 0 .. n - 1, k \in G
      PROVE  k + 1 \in G
  <2>1. PICK g : Sorts(g, Small(S, k))
    BY <1>3
  <2> DEFINE h == [rest \in Small(S, k + 1) |->
                     IF rest \in Small(S, k) THEN g[rest] ELSE SortStep(g, rest)]
  <2>2. Small(S, k) \subseteq Small(S, k + 1)
    <3> SUFFICES ASSUME NEW R \in Small(S, k)
                 PROVE  R \in Small(S, k + 1)
      OBVIOUS
    <3>1. R \in SUBSET S /\ Cardinality(R) <= k
      BY DEF Small
    <3>2. Cardinality(R) \in Nat
      BY <3>1, FS_Subset, FS_CardinalityType
    <3>3. Cardinality(R) <= k + 1
      BY <3>1, <3>2
    <3> QED BY <3>1, <3>3 DEF Small
  <2>3. \A R \in Small(S, k) : h[R] = g[R] /\ g[R] = SortStep(g, R)
    BY <2>1, <2>2 DEF Sorts
  <2>4. \A R \in Small(S, k + 1) : R # {} => R \ {Heaviest(R)} \in Small(S, k)
    <3> SUFFICES ASSUME NEW R \in Small(S, k + 1), R # {}
                 PROVE  R \ {Heaviest(R)} \in Small(S, k)
      OBVIOUS
    <3>1. R \in SUBSET S /\ Cardinality(R) <= k + 1
      BY DEF Small
    <3>2. /\ Cardinality(R) \in Nat
          /\ R \ {Heaviest(R)} \in SUBSET S
          /\ Cardinality(R \ {Heaviest(R)}) = Cardinality(R) - 1
      BY <3>1, RestIsSmaller
    <3>3. Cardinality(R \ {Heaviest(R)}) <= k
      BY <3>1, <3>2
    <3> QED BY <3>2, <3>3 DEF Small
  <2>5. \A R \in Small(S, k + 1) : h[R] = SortStep(g, R)
    BY <2>3
  <2>6. \A R \in Small(S, k + 1) : SortStep(g, R) = SortStep(h, R)
    <3> HIDE DEF h
    <3> QED BY <2>3, <2>4 DEF SortStep
  <2>7. h = [R \in Small(S, k + 1) |-> h[R]]
    OBVIOUS
  <2> HIDE DEF h
  <2>8. Sorts(h, Small(S, k + 1))
    BY <2>5, <2>6, <2>7 DEF Sorts
  <2>9. k + 1 \in 0 .. n
    BY <1>1
  <2> QED BY <2>8, <2>9
<1> HIDE DEF G
<1>4. n \in G
  BY <1>1, <1>2, <1>3, UpTo
<1>5. Small(S, n) = SUBSET S
  BY FS_Subset DEF Small
<1> QED BY <1>4, <1>5 DEF G

\* Sorted takes such steps.
LEMMA SortedSorts ==
  ASSUME NEW S, IsFiniteSet(S), Comparable(S)
  PROVE  \E g : Sorts(g, SUBSET S) /\ Sorted(S) = g[S]
<1> DEFINE Steps(f) == f = [rest \in SUBSET S |->
                  IF rest = {} THEN <<>> ELSE <<Heaviest(rest)>> \o f[rest \ {Heaviest(rest)}]]
           g == CHOOSE f : Steps(f)
<1>1. \A f : Steps(f) <=> Sorts(f, SUBSET S)
  <2> TAKE f
  <2>1. [rest \in SUBSET S |-> SortStep(f, rest)]
        = [rest \in SUBSET S |->
             IF rest = {} THEN <<>> ELSE <<Heaviest(rest)>> \o f[rest \ {Heaviest(rest)}]]
    BY DEF SortStep
  <2> QED BY <2>1 DEF Sorts
<1>2. Sorted(S) = g[S]
  BY SMT DEF Sorted
<1> HIDE DEF Steps
<1>3. \E f : Steps(f)
  BY <1>1, SorterExists
<1>4. Steps(g)
  BY <1>3
<1> HIDE DEF g
<1> QED BY <1>1, <1>2, <1>4

\* The sequence s has the elements of R, each once.
Arranges(s, R) ==
  /\ s \in Seq(R) /\ Len(s) = Cardinality(R)
  /\ \A x \in R : \E i \in 1 .. Len(s) : s[i] = x
  /\ \A i, j \in 1 .. Len(s) : s[i] = s[j] => i = j

\* Its elements come in the order of their weights.
Descends(s) == \A i, j \in 1 .. Len(s) : i < j => s[j].weight <= s[i].weight

\* The empty sequence arranges the empty set.
LEMMA NothingIsArranged == Arranges(<<>>, {}) /\ Descends(<<>>)
<1>1. Cardinality({}) = 0
  BY FS_EmptySet
<1> QED BY <1>1 DEF Arranges, Descends

\* An element before an arrangement of the others.
LEMMA PrependArranges ==
  ASSUME NEW R, IsFiniteSet(R), NEW h \in R, NEW t, Arranges(t, R \ {h})
  PROVE  Arranges(<<h>> \o t, R)
<1> DEFINE s == <<h>> \o t
<1>1. Cardinality(R) \in Nat /\ Cardinality(R \ {h}) = Cardinality(R) - 1
  BY FS_RemoveElement, FS_CardinalityType
<1>2. /\ t \in Seq(R \ {h}) /\ Len(t) = Cardinality(R) - 1
      /\ \A x \in R \ {h} : \E i \in 1 .. Len(t) : t[i] = x
      /\ \A i, j \in 1 .. Len(t) : t[i] = t[j] => i = j
  BY <1>1 DEF Arranges
<1>3. t \in Seq(R) /\ \A i \in 1 .. Len(t) : t[i] # h
  BY <1>2
<1>4. s \in Seq(R) /\ Len(s) = Len(t) + 1
  BY <1>3
<1>5. s[1] = h /\ \A i \in 1 .. Len(t) : s[i + 1] = t[i]
  BY <1>3
<1>6. \A i \in 1 .. Len(s) : i = 1 \/ (i - 1 \in 1 .. Len(t) /\ s[i] = t[i - 1])
  BY <1>3, <1>4, <1>5
<1> HIDE DEF s
<1>7. \A x \in R : \E i \in 1 .. Len(s) : s[i] = x
  <2> TAKE x \in R
  <2>1. CASE x = h
    BY <1>1, <1>2, <1>4, <1>5, <2>1
  <2>2. CASE x # h
    <3>1. PICK i \in 1 .. Len(t) : t[i] = x
      BY <1>2, <2>2
    <3>2. i + 1 \in 1 .. Len(s) /\ s[i + 1] = x
      BY <1>3, <1>4, <1>5, <3>1
    <3> QED BY <3>2
  <2> QED BY <2>1, <2>2
<1>8. \A i, j \in 1 .. Len(s) : s[i] = s[j] => i = j
  <2> SUFFICES ASSUME NEW i \in 1 .. Len(s), NEW j \in 1 .. Len(s), s[i] = s[j]
               PROVE  i = j
    OBVIOUS
  <2>1. CASE i = 1 \/ j = 1
    BY <1>3, <1>5, <1>6, <2>1
  <2>2. CASE i # 1 /\ j # 1
    <3>1. i - 1 \in 1 .. Len(t) /\ j - 1 \in 1 .. Len(t) /\ t[i - 1] = t[j - 1]
      BY <1>6, <2>2
    <3>2. i - 1 = j - 1
      BY <1>2, <3>1
    <3> QED BY <3>2
  <2> QED BY <2>1, <2>2
<1>9. Len(s) = Cardinality(R)
  BY <1>1, <1>2, <1>4
<1> QED BY <1>4, <1>7, <1>8, <1>9 DEF Arranges, s

\* A heavier element before elements that descend.
LEMMA PrependDescends ==
  ASSUME NEW R, NEW h, \A x \in R : x.weight <= h.weight, NEW t \in Seq(R), Descends(t)
  PROVE  Descends(<<h>> \o t)
<1> DEFINE s == <<h>> \o t
<1>1. Len(s) = Len(t) + 1 /\ Len(t) \in Nat
  OBVIOUS
<1>2. s[1] = h /\ \A i \in 1 .. Len(t) : s[i + 1] = t[i] /\ t[i] \in R
  OBVIOUS
<1> HIDE DEF s
<1> SUFFICES ASSUME NEW i \in 1 .. Len(s), NEW j \in 1 .. Len(s), i < j
             PROVE  s[j].weight <= s[i].weight
  BY DEF Descends, s
<1>3. j - 1 \in 1 .. Len(t) /\ (j - 1) + 1 = j
  BY <1>1
<1>4. s[j] = t[j - 1] /\ t[j - 1] \in R
  BY <1>2, <1>3
<1>5. CASE i = 1
  BY <1>2, <1>4, <1>5
<1>6. CASE i # 1
  <2>1. i - 1 \in 1 .. Len(t) /\ (i - 1) + 1 = i /\ i - 1 < j - 1
    BY <1>1, <1>6
  <2>2. s[i] = t[i - 1]
    BY <1>2, <2>1
  <2>3. t[j - 1].weight <= t[i - 1].weight
    BY <1>3, <2>1 DEF Descends
  <2> QED BY <1>4, <2>2, <2>3
<1> QED BY <1>5, <1>6

\* Sorting arranges a set in the order of the weights.
LEMMA SortedArranges ==
  ASSUME NEW S, IsFiniteSet(S), Comparable(S)
  PROVE  Arranges(Sorted(S), S) /\ Descends(Sorted(S))
<1>1. PICK g : Sorts(g, SUBSET S) /\ Sorted(S) = g[S]
  BY SortedSorts
<1> DEFINE n == Cardinality(S)
           G == {k \in 0 .. n : \A R \in Small(S, k) : Arranges(g[R], R) /\ Descends(g[R])}
<1>2. n \in Nat /\ Cardinality(S) <= n
  BY FS_CardinalityType
<1>3. \A R \in SUBSET S : g[R] = SortStep(g, R)
  BY <1>1 DEF Sorts
<1>4. 0 \in G
  <2>1. ASSUME NEW R \in Small(S, 0)
        PROVE  Arranges(g[R], R) /\ Descends(g[R])
    <3>1. R \in SUBSET S /\ Cardinality(R) <= 0
      BY DEF Small
    <3>2. R = {}
      BY <3>1, FS_Subset, FS_CardinalityType, FS_EmptySet
    <3>3. g[R] = <<>>
      BY <1>3, <3>1, <3>2 DEF SortStep
    <3> QED BY <3>2, <3>3, NothingIsArranged
  <2> QED BY <1>2, <2>1
<1>5. ASSUME NEW k \in 0 .. n - 1, k \in G
      PROVE  k + 1 \in G
  <2>1. ASSUME NEW R \in Small(S, k + 1)
        PROVE  Arranges(g[R], R) /\ Descends(g[R])
    <3>1. R \in SUBSET S /\ Cardinality(R) <= k + 1
      BY DEF Small
    <3>2. CASE R = {}
      BY <1>3, <3>1, <3>2, NothingIsArranged DEF SortStep
    <3>3. CASE R # {}
      <4> DEFINE h == Heaviest(R)
                 rest == R \ {Heaviest(R)}
      <4>1. /\ IsFiniteSet(R) /\ Cardinality(R) \in Nat /\ h \in R /\ (\A x \in R : x.weight <= h.weight)
            /\ rest \in SUBSET S /\ Cardinality(rest) = Cardinality(R) - 1
        BY <3>1, <3>3, RestIsSmaller
      <4>2. Cardinality(rest) <= k
        BY <3>1, <4>1
      <4>3. Arranges(g[rest], rest) /\ Descends(g[rest])
        BY <1>5, <4>1, <4>2 DEF Small
      <4>4. g[R] = <<h>> \o g[rest]
        BY <1>3, <3>1, <3>3 DEF SortStep
      <4>5. rest = R \ {h}
        OBVIOUS
      <4> HIDE DEF h, rest
      <4>6. Arranges(<<h>> \o g[rest], R)
        BY <4>1, <4>3, <4>5, PrependArranges
      <4>7. Descends(<<h>> \o g[rest])
        <5>1. g[rest] \in Seq(rest) /\ \A x \in rest : x.weight <= h.weight
          BY <4>1, <4>3, <4>5 DEF Arranges
        <5> QED BY <4>3, <5>1, PrependDescends
      <4> QED BY <4>4, <4>6, <4>7
    <3> QED BY <3>2, <3>3
  <2>2. k + 1 \in 0 .. n
    BY <1>2
  <2> QED BY <2>1, <2>2
<1> HIDE DEF G
<1>6. n \in G
  BY <1>2, <1>4, <1>5, UpTo
<1> HIDE DEF n
<1>7. S \in SUBSET S
  BY Zenon
<1>8. S \in Small(S, n)
  BY <1>2, <1>7, Zenon DEF Small
<1> QED BY <1>1, <1>6, <1>8 DEF G

----------------------------------------------------------------------------
(* The rules and what they find. *)

\* The severities of evidence, the rules of the lookups, and the rules that come in degrees.
Strong == {"low", "medium", "high", "critical"}
Looked == {"enrich-credential-form", "enrich-no-dmarc-policy", "enrich-redirect-chain",
           "enrich-spf-claim-unsupported", "enrich-young-sender-domain"}

Graded == {"auth-spf-failed", "content-credential-language", "content-payment-language",
           "content-secrecy-language", "content-threat-language", "content-urgency-language"}

\* The entries of the rule book: one for each rule, and those of the lookups together.
LEMMA EntriesOfTheBook ==
  /\ DOMAIN RuleBook = 1 .. 52
  /\ \A n \in 1 .. 52 : /\ RuleBook[n][3] \in Nat
                        /\ RuleBook[n][4] \in Strong
                        /\ RuleBook[n][1] \in Looked <=> n \in 19 .. 23
  /\ \A n, k \in 1 .. 52 : RuleBook[n][1] = RuleBook[k][1] => n = k
<1>1. DOMAIN RuleBook = 1 .. 52
  BY DEF RuleBook
<1>2. \A n \in 1 .. 52 : /\ RuleBook[n][3] \in Nat
                        /\ RuleBook[n][4] \in Strong
  BY DEF RuleBook, Strong
<1>3. \A n \in 1 .. 52 : RuleBook[n][1] \in Looked <=> n \in 19 .. 23
  BY DEF RuleBook, Looked
<1>4. \A n, k \in 1 .. 52 : RuleBook[n][1] = RuleBook[k][1] => n = k
  BY DEF RuleBook
<1> QED BY <1>1, <1>2, <1>3, <1>4

\* The rules by name.
LEMMA AllRules == Rules =
   {"attachment-bidi-override", "attachment-container", "attachment-double-extension",
    "attachment-executable", "attachment-macro-capable", "attachment-type-mismatch",
    "auth-dkim-failed", "auth-dmarc-failed", "auth-envelope-mismatch",
    "auth-reply-to-mismatch", "auth-results-absent", "auth-spf-failed",
    "content-credential-language", "content-payment-language", "content-secrecy-language",
    "content-single-link-with-pressure", "content-threat-language", "content-urgency-language",
    "identity-brand-impersonation", "identity-display-name-is-an-address",
    "identity-lookalike-brand-in-subdomain", "identity-lookalike-homoglyph",
    "identity-lookalike-punycode", "identity-lookalike-typosquat",
    "identity-mixed-script-domain", "identity-punycode-domain", "injection-chat-template",
    "injection-configuration-exfiltration", "injection-fence-escape",
    "injection-instruction-override", "injection-mode-switch", "injection-new-instructions",
    "injection-role-impersonation", "injection-suppression-request",
    "injection-verdict-dictation", "url-anchor-text-mismatch",
    "url-credentials-in-authority", "url-dangerous-scheme", "url-excessive-subdomains",
    "url-ip-literal-host", "url-links-point-away-from-sender", "url-lookalike-brand-in-subdomain",
    "url-lookalike-homoglyph", "url-lookalike-punycode", "url-lookalike-typosquat",
    "url-nonstandard-port", "url-shortener"} \cup Looked
BY SMTT(60), EntriesOfTheBook DEF Rules, RuleBook, Looked

\* Every rule has its entry of the rule book.
LEMMA BookIsWhole ==
  ASSUME NEW rule \in Rules
  PROVE  /\ Book[rule].place \in 1 .. 52 /\ RuleBook[Book[rule].place][1] = rule
         /\ Book[rule].category = RuleBook[Book[rule].place][2]
         /\ Book[rule].weight = RuleBook[Book[rule].place][3]
         /\ Book[rule].floor = RuleBook[Book[rule].place][4]
<1> DEFINE n == CHOOSE k \in DOMAIN RuleBook : RuleBook[k][1] = rule
<1>0. \E k \in DOMAIN RuleBook : RuleBook[k][1] = rule
  BY DEF Rules
<1>1. n \in DOMAIN RuleBook /\ RuleBook[n][1] = rule
  BY <1>0
<1>2. Book[rule] = [place |-> n, category |-> RuleBook[n][2],
                    weight |-> RuleBook[n][3], floor |-> RuleBook[n][4]]
  BY DEF Book
<1> HIDE DEF n
<1>3. /\ Book[rule].place = n /\ Book[rule].category = RuleBook[n][2]
      /\ Book[rule].weight = RuleBook[n][3] /\ Book[rule].floor = RuleBook[n][4]
  BY <1>2
<1>4. DOMAIN RuleBook = 1 .. 52
  BY EntriesOfTheBook, Zenon
<1> QED BY <1>1, <1>3, <1>4

\* What the book says of a rule can be compared, and tells the lookups from the other rules.
LEMMA BookValues ==
  ASSUME NEW rule \in Rules
  PROVE  /\ Book[rule].weight \in Nat /\ Book[rule].floor \in Strong
         /\ Book[rule].place \in Int
         /\ rule \in Looked <=> Book[rule].place \in 19 .. 23
<1> DEFINE n == Book[rule].place
<1>1. /\ n \in 1 .. 52 /\ RuleBook[n][1] = rule
      /\ Book[rule].weight = RuleBook[n][3] /\ Book[rule].floor = RuleBook[n][4]
  BY BookIsWhole, Zenon
<1> HIDE DEF n
<1>2. RuleBook[n][3] \in Nat /\ RuleBook[n][4] \in Strong
  BY <1>1, EntriesOfTheBook, Zenon
<1>3. RuleBook[n][1] \in Looked <=> n \in 19 .. 23
  BY <1>1, EntriesOfTheBook, Zenon
<1>4. n \in Int
  BY <1>1
<1> QED BY <1>1, <1>2, <1>3, <1>4 DEF n

\* What orders them.
Strength ==
  /\ SeverityOrder["info"] = 0 /\ SeverityOrder["low"] = 1 /\ SeverityOrder["medium"] = 2
  /\ SeverityOrder["high"] = 3 /\ SeverityOrder["critical"] = 4

\* No rule that lookups or degrees decide is about injection.
LEMMA GradedAndLooked ==
  \A rule \in Looked \cup Graded : rule \in Rules /\ Book[rule].category # "injection"
<1>1. \A rule \in Looked \cup Graded : rule \in Rules
  BY AllRules DEF Graded
<1>2. \A n \in 1 .. 52 : RuleBook[n][1] \in Looked \cup Graded => RuleBook[n][2] # "injection"
  BY DEF RuleBook, Looked, Graded
<1>3. ASSUME NEW rule \in Looked \cup Graded
      PROVE  Book[rule].category # "injection"
  <2>1. rule \in Rules
    BY <1>1
  <2>2. /\ Book[rule].place \in 1 .. 52 /\ RuleBook[Book[rule].place][1] = rule
        /\ Book[rule].category = RuleBook[Book[rule].place][2]
    BY <2>1, BookIsWhole
  <2> QED BY <1>2, <2>2
<1> QED BY <1>1, <1>3

\* The severities in their order.
LEMMA SeverityIsOrdered == Severity = Strong \cup {"info"} /\ Strength
BY DEF Severity, SeverityOrder, Strong, Strength

\* The rules that read the message.
Own == Rules \ Looked

\* An indicator is worth what the book says.
AsPriced(i) == i.weight = Book[i.rule].weight /\ i.floor = Book[i.rule].floor

\* An indicator of the message m: what it is worth follows from its rule, from the SPF result it
\* is about, or from the phrases of the message.
Priced(m, i) ==
  /\ i = Indicator(i.rule, i.part, i.at, i.disc, i.hosts, i.weight, i.floor)
  /\ i.rule \in Rules /\ i.at \in Int /\ i.weight \in Nat /\ i.floor \in Strong
  /\ \/ i.rule \notin Graded /\ AsPriced(i)
     \/ i = SpfFailed(i.disc)
     \/ \E kind \in Kinds : i \in Language(m, kind)

\* A finite set of indicators of the rules R.
Sound(m, D, R) == IsFiniteSet(D) /\ \A i \in D : Priced(m, i) /\ i.rule \in R

\* Sound sets are made of sound parts.
LEMMA SoundParts ==
  ASSUME NEW m, NEW R
  PROVE  /\ Sound(m, {}, R)
         /\ \A i : Priced(m, i) /\ i.rule \in R => Sound(m, {i}, R)
         /\ \A C, D : Sound(m, C, R) /\ Sound(m, D, R) => Sound(m, C \cup D, R)
         /\ \A S : IsFiniteSet(S) /\ (\A D \in S : Sound(m, D, R)) => Sound(m, UNION S, R)
<1>1. Sound(m, {}, R)
  BY FS_EmptySet DEF Sound
<1>2. \A i : Priced(m, i) /\ i.rule \in R => Sound(m, {i}, R)
  BY FS_Singleton DEF Sound
<1>3. \A C, D : Sound(m, C, R) /\ Sound(m, D, R) => Sound(m, C \cup D, R)
  BY FS_Union DEF Sound
<1>4. ASSUME NEW S, IsFiniteSet(S), \A D \in S : Sound(m, D, R)
      PROVE  Sound(m, UNION S, R)
  <2>1. IsFiniteSet(UNION S)
    BY <1>4, FS_UNION DEF Sound
  <2> QED BY <1>4, <2>1 DEF Sound
<1> QED BY <1>1, <1>2, <1>3, <1>4

\* What is found of a rule without degrees has the price of the book.
LEMMA FoundIsPriced ==
  ASSUME NEW m, NEW rule \in Rules \ Graded, NEW part, NEW at \in Int, NEW disc, NEW hosts
  PROVE  Priced(m, FoundWith(rule, part, at, disc, hosts)) /\ FoundWith(rule, part, at, disc, hosts).rule = rule
<1> DEFINE i == FoundWith(rule, part, at, disc, hosts)
<1>1. /\ i.rule = rule /\ i.at = at /\ i.weight = Book[rule].weight /\ i.floor = Book[rule].floor
      /\ i = Indicator(i.rule, i.part, i.at, i.disc, i.hosts, i.weight, i.floor)
  BY DEF FoundWith, Indicator
<1> HIDE DEF i
<1>2. i.weight \in Nat /\ i.floor \in Strong
  BY <1>1, BookValues
<1>3. AsPriced(i)
  BY <1>1 DEF AsPriced
<1>4. Priced(m, i)
  BY <1>1, <1>2, <1>3 DEF Priced
<1> QED BY <1>1, <1>4 DEF i

\* Each way in which a rule says what it found gives a sound set.
LEMMA FoundIsSound ==
  ASSUME NEW m, NEW R \in SUBSET Rules
  PROVE  \A rule \in R \ Graded :
           /\ \A at \in Int : \A part, disc, hosts :
                 Sound(m, {FoundWith(rule, part, at, disc, hosts)}, R)
           /\ \A at \in Int : \A c, part, disc, hosts :
                 Sound(m, When(c, FoundWith(rule, part, at, disc, hosts)), R)
           /\ \A at \in Int : \A part, hosts : Sound(m, {Found(rule, part, at, hosts)}, R)
           /\ \A at \in Int : \A c, part, hosts : Sound(m, When(c, Found(rule, part, at, hosts)), R)
           /\ \A header, hosts : Sound(m, {InHeader(rule, header, hosts)}, R)
           /\ \A c, header, hosts : Sound(m, When(c, InHeader(rule, header, hosts)), R)
<1> TAKE rule \in R \ Graded
<1>1. ASSUME NEW i, Priced(m, i), i.rule \in R
      PROVE  Sound(m, {i}, R) /\ \A c : Sound(m, When(c, i), R)
  <2>1. Sound(m, {i}, R) /\ Sound(m, {}, R)
    BY <1>1, SoundParts
  <2>2. \A c : When(c, i) = {} \/ When(c, i) = {i}
    BY DEF When
  <2> QED BY <2>1, <2>2
<1>2. ASSUME NEW at \in Int, NEW part, NEW disc, NEW hosts
      PROVE  /\ Sound(m, {FoundWith(rule, part, at, disc, hosts)}, R)
             /\ \A c : Sound(m, When(c, FoundWith(rule, part, at, disc, hosts)), R)
  <2>1. Priced(m, FoundWith(rule, part, at, disc, hosts)) /\ FoundWith(rule, part, at, disc, hosts).rule = rule
    BY FoundIsPriced
  <2> QED BY <1>1, <2>1
<1>3. ASSUME NEW at \in Int, NEW part, NEW hosts
      PROVE  /\ Sound(m, {Found(rule, part, at, hosts)}, R)
             /\ \A c : Sound(m, When(c, Found(rule, part, at, hosts)), R)
  BY <1>2 DEF Found
<1>4. ASSUME NEW header, NEW hosts
      PROVE  /\ Sound(m, {InHeader(rule, header, hosts)}, R)
             /\ \A c : Sound(m, When(c, InHeader(rule, header, hosts)), R)
  <2>1. 0 \in Int
    OBVIOUS
  <2> QED BY <1>3, <2>1 DEF InHeader
<1> QED BY <1>2, <1>3, <1>4

\* As many things as a finite set has are finitely many.
LEMMA ImageIsFinite ==
  ASSUME NEW I, IsFiniteSet(I), NEW f
  PROVE  IsFiniteSet({f[i] : i \in I})
<1> DEFINE T == {f[i] : i \in I}
           g == [i \in I |-> f[i]]
<1>1. g \in Surjection(I, T)
  BY DEF Surjection
<1> HIDE DEF T, g
<1> QED BY <1>1, FS_Surjection DEF T

\* A registrable domain is a host, or there is none.
LEMMA DomainsAreHosts ==
  \A host \in Hosts : RegistrableDomain(host) \in Hosts
<1>1. RegistrableDomain(NoHost) = NoHost
  BY DEF RegistrableDomain, NoHost
<1> QED BY <1>1, HostAssumption DEF Hosts

\* The techniques of imitation.
Tricks == {"homoglyph", "punycode", "brand-in-subdomain", "typosquat"}

\* An imitation is one of the known tricks.
LEMMA ImitationIsATrick ==
  \A host \in Hosts : Imitation[host] = Silent \/ Imitation[host].technique \in Tricks
<1>1. \A host, domain : IsLookalike(host, domain) \in Tricks \cup {NotOne}
  BY DEF IsLookalike, Tricks
<1>2. ASSUME NEW host
      PROVE  FindLookalike(host) = Silent \/ FindLookalike(host).technique \in Tricks
  <2> DEFINE I == {i \in 1 .. Len(BrandDomains) : IsLookalike(host, BrandDomains[i]) # NotOne}
             i == SelectInSeq(BrandDomains, LAMBDA domain : IsLookalike(host, domain) # NotOne)
  <2>1. i = IF I # {} THEN Min(I) ELSE 0
    BY DEF SelectInSeq
  <2>2. FindLookalike(host) = IF i = 0 THEN Silent
          ELSE [brand |-> BrandDomains[i], technique |-> IsLookalike(host, BrandDomains[i])]
    BY DEF FindLookalike
  <2>3. I \in SUBSET Int /\ IsFiniteSet(I)
    <3>1. I \in SUBSET (1 .. Len(BrandDomains)) /\ Len(BrandDomains) \in Int
      BY LookalikeAssumption
    <3>2. IsFiniteSet(1 .. Len(BrandDomains))
      BY <3>1, FS_Interval
    <3>3. I \in SUBSET Int
      OBVIOUS
    <3> HIDE DEF I
    <3> QED BY <3>1, <3>2, <3>3, FS_Subset
  <2>4. I # {} => Min(I) \in I
    <3> HIDE DEF I
    <3> QED BY <2>3, MinIsElement
  <2> HIDE DEF i
  <2>5. i = 0 \/ IsLookalike(host, BrandDomains[i]) # NotOne
    BY <2>1, <2>4
  <2>6. i = 0 \/ IsLookalike(host, BrandDomains[i]) \in Tricks
    BY <1>1, <2>5
  <2> QED BY <2>2, <2>6
<1>3. \A host \in Hosts : Imitation[host] = IF host = NoHost THEN Silent ELSE FindLookalike(host)
  BY DEF Imitation, Hosts
<1> QED BY <1>2, <1>3

\* Every trick has a rule; it has no degrees and is no rule of a lookup.
LEMMA LookalikeRules ==
  ASSUME NEW family, NEW technique \in Tricks
  PROVE  LookalikeRule(family, technique) \in Own \ Graded
BY AllRules DEF LookalikeRule, Tricks, Own, Graded, Looked

\* What is found of a lookalike.
LEMMA ImitatesIsSound ==
  ASSUME NEW m, NEW family, NEW part, NEW at \in Int, NEW host \in Hosts
  PROVE  Sound(m, Imitates(family, part, at, host), Own)
<1> DEFINE l == Imitation[host]
           rule == LookalikeRule(family, l.technique)
           i == Found(rule, part, at, <<host, l.brand>>)
<1>1. Imitates(family, part, at, host) = IF l = Silent THEN {} ELSE {i}
  BY DEF Imitates
<1>2. CASE l = Silent
  BY <1>1, <1>2, SoundParts
<1>3. CASE l # Silent
  <2>1. l.technique \in Tricks
    BY <1>3, ImitationIsATrick
  <2>2. rule \in Own \ Graded
    BY <2>1, LookalikeRules
  <2>3. rule \in Rules \ Graded
    BY <2>2 DEF Own
  <2> HIDE DEF rule
  <2>4. ASSUME NEW hosts
        PROVE  Priced(m, Found(rule, part, at, hosts)) /\ Found(rule, part, at, hosts).rule = rule
    <3>1. ASSUME NEW disc
          PROVE  /\ Priced(m, FoundWith(rule, part, at, disc, hosts))
                 /\ FoundWith(rule, part, at, disc, hosts).rule = rule
      <4> HIDE DEF l, i
      <4> QED BY <2>3, FoundIsPriced
    <3> QED BY <3>1 DEF Found
  <2>5. Priced(m, i) /\ i.rule = rule
    BY <2>4
  <2> HIDE DEF i
  <2> QED BY <1>1, <1>3, <2>2, <2>5, SoundParts
<1> QED BY <1>2, <1>3

\* A message that the rules can read.
Schemes == {"http", "https", "", "javascript", "mailto", "relative"}
LinkTypes == [url : Urls, scheme : Schemes, host : Hosts, label : Labels]
Readable(m) ==
  /\ m.sender \in Senders /\ m.subject \in SUBSET Word /\ m.body \in SUBSET Word
  /\ m.links \in Seq(LinkTypes) /\ m.attachments \in Seq(AttachedFiles)

\* The rules that read the message are rules.
LEMMA OwnRules == Own \in SUBSET Rules
BY DEF Own

\* What the authentication rules find.
LEMMA AuthenticationIsSound ==
  ASSUME NEW m
  PROVE  Sound(m, AuthenticationRules(m), Own)
<1>1. Priced(m, SpfFailed(m.auth.spf)) /\ SpfFailed(m.auth.spf).rule \in Own
  <2> DEFINE i == SpfFailed(m.auth.spf)
  <2>0. /\ Book["auth-spf-failed"].weight \in Nat /\ Book["auth-spf-failed"].floor \in Strong
        /\ "auth-spf-failed" \in Own
    BY AllRules, BookValues DEF Own, Looked
  <2>1. /\ i.rule = "auth-spf-failed" /\ i.at = 0 /\ i.disc = m.auth.spf
        /\ i.weight \in Nat /\ i.floor \in Strong
        /\ i = Indicator(i.rule, i.part, i.at, i.disc, i.hosts, i.weight, i.floor)
    BY <2>0 DEF SpfFailed, FoundWith, Indicator, Strong
  <2>2. i = SpfFailed(i.disc)
    BY <2>1
  <2> HIDE DEF i
  <2>3. Priced(m, i)
    BY <2>0, <2>1, <2>2 DEF Priced, Own
  <2> QED BY <2>0, <2>1, <2>3 DEF i
<1>2. Sound(m, When(m.auth.spf \in {"fail", "softfail", "permerror", "temperror"}, SpfFailed(m.auth.spf)), Own)
  <2>1. \/ When(m.auth.spf \in {"fail", "softfail", "permerror", "temperror"}, SpfFailed(m.auth.spf)) = {}
        \/ When(m.auth.spf \in {"fail", "softfail", "permerror", "temperror"}, SpfFailed(m.auth.spf)) = {SpfFailed(m.auth.spf)}
    BY DEF When
  <2> QED BY <1>1, <2>1, SoundParts
<1>3. {"auth-dkim-failed", "auth-dmarc-failed", "auth-results-absent", "auth-reply-to-mismatch",
       "auth-envelope-mismatch"} \subseteq Own \ Graded
  BY AllRules DEF Own, Graded, Looked
<1>4. \A rule \in Own \ Graded : \A c, header, hosts : Sound(m, When(c, InHeader(rule, header, hosts)), Own)
  BY OwnRules, FoundIsSound
<1>5. Sound(m, When(m.auth.dkim = "fail", InHeader("auth-dkim-failed", "auth", <<>>)), Own)
  BY <1>3, <1>4
<1>6. Sound(m, When(m.auth.dmarc = "fail", InHeader("auth-dmarc-failed", "auth", <<>>)), Own)
  BY <1>3, <1>4
<1>7. Sound(m, When(~m.auth.present, InHeader("auth-results-absent", "auth", <<>>)), Own)
  BY <1>3, <1>4
<1>8. Sound(m, Disagrees(m, "auth-reply-to-mismatch", "reply-to", m.reply_to), Own)
  BY <1>3, <1>4 DEF Disagrees
<1>9. Sound(m, Disagrees(m, "auth-envelope-mismatch", "return-path", m.return_path), Own)
  BY <1>3, <1>4 DEF Disagrees
<1> DEFINE answered == When(m.auth.spf \in {"fail", "softfail", "permerror", "temperror"}, SpfFailed(m.auth.spf))
                       \cup When(m.auth.dkim = "fail", InHeader("auth-dkim-failed", "auth", <<>>))
                       \cup When(m.auth.dmarc = "fail", InHeader("auth-dmarc-failed", "auth", <<>>))
           absent == When(~m.auth.present, InHeader("auth-results-absent", "auth", <<>>))
           replies == Disagrees(m, "auth-reply-to-mismatch", "reply-to", m.reply_to)
           returns == Disagrees(m, "auth-envelope-mismatch", "return-path", m.return_path)
<1>10. \A C, D : Sound(m, C, Own) /\ Sound(m, D, Own) => Sound(m, C \cup D, Own)
  BY SoundParts
<1>11. Sound(m, answered, Own)
  BY <1>2, <1>5, <1>6, <1>10
<1>12. AuthenticationRules(m) = answered \cup absent \cup replies \cup returns
  BY DEF AuthenticationRules
<1> HIDE DEF answered, absent, replies, returns
<1>13. Sound(m, absent, Own) /\ Sound(m, replies, Own) /\ Sound(m, returns, Own)
  BY <1>7, <1>8, <1>9 DEF absent, replies, returns
<1> QED BY <1>10, <1>11, <1>12, <1>13

\* What the identity rules find.
LEMMA IdentityIsSound ==
  ASSUME NEW m, Readable(m)
  PROVE  Sound(m, IdentityRules(m), Own)
<1>1. SenderDomain(m) \in Hosts
  BY DomainsAreHosts DEF Readable, Senders, SenderDomain
<1>2. {"identity-brand-impersonation", "identity-mixed-script-domain", "identity-punycode-domain",
       "identity-display-name-is-an-address"} \subseteq Own \ Graded
  BY AllRules DEF Own, Graded, Looked
<1>3. Sound(m, Impersonates(m), Own)
  <2> DEFINE Against(brand) == When(SenderDomain(m) \notin DomainsOf[brand],
                                    FoundWith("identity-brand-impersonation", "from", 0, brand, <<>>))
  <2>1. \A brand : Sound(m, Against(brand), Own)
    <3>1. \A rule \in Own \ Graded : \A c, disc, hosts :
             Sound(m, When(c, FoundWith(rule, "from", 0, disc, hosts)), Own)
      BY OwnRules, FoundIsSound
    <3> QED BY <1>2, <3>1
  <2>2. \A aliases : BrandClaimedIn(aliases) = {} \/ \E brand : BrandClaimedIn(aliases) = {brand}
    BY DEF BrandClaimedIn
  <2>3. ClaimedBrand(m) = {} \/ \E brand : ClaimedBrand(m) = {brand}
    BY <2>2 DEF ClaimedBrand
  <2> HIDE DEF Against
  <2>4. \/ UNION {Against(brand) : brand \in ClaimedBrand(m)} = {}
        \/ \E one : UNION {Against(brand) : brand \in ClaimedBrand(m)} = Against(one)
    BY <2>3
  <2>5. Sound(m, UNION {Against(brand) : brand \in ClaimedBrand(m)}, Own)
    BY <2>1, <2>4, SoundParts
  <2> QED BY <2>5 DEF Against, Impersonates
<1>4. Sound(m, Imitates("identity", "from", 0, SenderDomain(m)), Own)
  BY <1>1, ImitatesIsSound
<1>5. \A rule \in Own \ Graded : \A c, hosts : Sound(m, When(c, InHeader(rule, "from", hosts)), Own)
  BY OwnRules, FoundIsSound
<1>6. Sound(m, When(IsMixedScript(SenderDomain(m)),
                    InHeader("identity-mixed-script-domain", "from", <<>>)), Own)
  BY <1>2, <1>5
<1>7. Sound(m, When(~IsMixedScript(SenderDomain(m)) /\ SenderDomain(m) # NoHost /\ HasPunycode(m.sender.domain),
                    InHeader("identity-punycode-domain", "from", <<>>)), Own)
  BY <1>2, <1>5
<1>8. Sound(m, When(DisplayedDomain(m) # NoHost /\ DisplayedDomain(m) # SenderDomain(m),
                    InHeader("identity-display-name-is-an-address", "from", <<DisplayedDomain(m)>>)), Own)
  BY <1>2, <1>5
<1> QED BY <1>3, <1>4, <1>6, <1>7, <1>8, SoundParts DEF IdentityRules

\* What the rules about a link find.
LEMMA LinksAreSound ==
  ASSUME NEW m, NEW link \in LinkTypes, NEW i \in Int
  PROVE  Sound(m, UrlRules(link, i) \cup HostRules(link, i), Own)
<1>1. {"url-anchor-text-mismatch", "url-dangerous-scheme", "url-ip-literal-host",
       "url-credentials-in-authority", "url-shortener", "url-nonstandard-port",
       "url-excessive-subdomains"} \subseteq Own \ Graded
  BY AllRules DEF Own, Graded, Looked
<1>2. \A rule \in Own \ Graded : \A c, hosts : Sound(m, When(c, Found(rule, "link", i, hosts)), Own)
  BY OwnRules, FoundIsSound
<1>3. Sound(m, UrlRules(link, i), Own)
  BY <1>1, <1>2, SoundParts DEF UrlRules, OfLink
<1>4. Sound(m, Imitates("url", "link", i, link.host), Own)
  BY ImitatesIsSound DEF LinkTypes
<1>5. Sound(m, HostRules(link, i), Own)
  BY <1>1, <1>2, <1>4, SoundParts DEF HostRules, OfLink
<1> QED BY <1>3, <1>5, SoundParts

\* What the rules about an attachment find.
LEMMA FilesAreSound ==
  ASSUME NEW m, NEW file \in AttachedFiles
  PROVE  Sound(m, NameRules(file) \cup TypeRules(file), Own)
<1>1. {"attachment-bidi-override", "attachment-double-extension", "attachment-executable",
       "attachment-macro-capable", "attachment-container", "attachment-type-mismatch"} \subseteq Own \ Graded
  BY AllRules DEF Own, Graded, Looked
<1>2. file.name \in Int
  BY DEF AttachedFiles
<1>3. \A rule \in Own \ Graded : \A c, disc, hosts :
          /\ Sound(m, When(c, Found(rule, "attachment", file.name, hosts)), Own)
          /\ Sound(m, When(c, FoundWith(rule, "attachment", file.name, disc, hosts)), Own)
  BY <1>2, OwnRules, FoundIsSound
<1>4. Sound(m, NameRules(file), Own)
  BY <1>1, <1>3, SoundParts DEF NameRules
<1>5. Sound(m, TypeRules(file), Own)
  BY <1>1, <1>3, SoundParts DEF TypeRules
<1> QED BY <1>4, <1>5, SoundParts

\* What is found of links that all lead elsewhere: finitely many domains.
LEMMA ElsewhereIsSound ==
  ASSUME NEW m, Readable(m)
  PROVE  Sound(m, LinkedElsewhere(m), Own)
<1> DEFINE X == IF SenderDomain(m) = NoHost THEN {} ELSE Dominant(m) \ {SenderDomain(m)}
           domains == [i \in DOMAIN m.links |-> RegistrableDomain(m.links[i].host)]
           found == [domain \in X |-> InHeader("url-links-point-away-from-sender", "links", <<domain>>)]
<1>1. IsFiniteSet(DOMAIN m.links)
  <2>1. DOMAIN m.links = 1 .. Len(m.links) /\ Len(m.links) \in Int /\ 1 \in Int
    BY DEF Readable
  <2> QED BY <2>1, FS_Interval
<1>2. IsFiniteSet({domains[i] : i \in DOMAIN m.links})
  <2> HIDE DEF domains
  <2> QED BY <1>1, ImageIsFinite
<1>3. X \in SUBSET {domains[i] : i \in DOMAIN m.links}
  BY DEF Dominant
<1>4. IsFiniteSet(X)
  <2> HIDE DEF X
  <2> QED BY <1>2, <1>3, FS_Subset
<1>5. LinkedElsewhere(m) = {found[domain] : domain \in X}
  BY DEF LinkedElsewhere
<1>6. \A domain \in X : Priced(m, found[domain]) /\ found[domain].rule \in Own
  <2>1. "url-links-point-away-from-sender" \in Own \ Graded
    BY AllRules DEF Own, Graded, Looked
  <2>2. ASSUME NEW hosts
        PROVE  Sound(m, {InHeader("url-links-point-away-from-sender", "links", hosts)}, Own)
    BY <2>1, OwnRules, FoundIsSound
  <2>3. \A domain \in X : Sound(m, {found[domain]}, Own)
    <3> HIDE DEF X
    <3> QED BY <2>2
  <2> HIDE DEF X, found
  <2> QED BY <2>3 DEF Sound
<1> HIDE DEF X, found
<1>7. IsFiniteSet({found[domain] : domain \in X})
  BY <1>4, ImageIsFinite
<1> QED BY <1>5, <1>6, <1>7 DEF Sound

\* What a phrase weighs is a natural number.
LEMMA PhraseWeights ==
  ASSUME NEW m, NEW p \in Phrase
  PROVE  PhraseWeight(m, p) \in Nat
<1>1. PhraseBook[p].weight \in Nat
  BY PhraseAssumption
<1> DEFINE w == IF p \in m.subject THEN (PhraseBook[p].weight * 5) \div 4 ELSE PhraseBook[p].weight
<1>2. w \in Nat
  BY <1>1
<1>3. PhraseWeight(m, p) = Min({7500, w})
  BY DEF PhraseWeight
<1> HIDE DEF w
<1> QED BY <1>2, <1>3, MinOfTwo

\* What is found of one kind of language.
LEMMA LanguageIsSound ==
  ASSUME NEW m, NEW kind \in Kinds
  PROVE  Sound(m, Language(m, kind), Own)
<1> DEFINE hits == {p \in Phrase \cap (m.subject \cup m.body) : PhraseBook[p].kind = kind}
           Key(p) == 1000 * PhraseWeight(m, p) + PhraseBook[p].place
           key == [p \in hits |-> Key(p)]
           heaviest == CHOOSE p \in hits : \A q \in hits : Key(p) >= Key(q)
           i == Indicator(LanguageRule[kind], IF heaviest \in m.subject THEN "subject" ELSE "body", 0,
                          "", <<>>, PhraseWeight(m, heaviest), Book[LanguageRule[kind]].floor)
<1>1. Language(m, kind) = IF hits = {} THEN {} ELSE {i}
  BY DEF Language
<1>2. CASE hits = {}
  BY <1>1, <1>2, SoundParts
<1>3. CASE hits # {}
  <2>1. hits \in SUBSET Phrase
    OBVIOUS
  <2>2. IsFiniteSet(hits)
    <3> HIDE DEF hits
    <3> QED BY <2>1, PhraseAssumption, FS_Subset
  <2>3. key \in [hits -> Int]
    <3>1. \A p \in hits : PhraseWeight(m, p) \in Int /\ PhraseBook[p].place \in Int
      BY PhraseWeights, PhraseAssumption
    <3> HIDE DEF hits
    <3> QED BY <3>1
  <2>4. \E p \in hits : \A q \in hits : key[p] >= key[q]
    <3> HIDE DEF hits, key
    <3> QED BY <1>3, <2>2, <2>3, GreatestKey
  <2>5. heaviest \in hits
    <3> HIDE DEF hits
    <3>1. \E p \in hits : \A q \in hits : Key(p) >= Key(q)
      BY <2>4
    <3> HIDE DEF Key
    <3> QED BY <3>1
  <2>6. PhraseWeight(m, heaviest) \in Nat
    <3> HIDE DEF heaviest
    <3> QED BY <2>5, PhraseWeights
  <2> HIDE DEF heaviest
  <2>7. LanguageRule[kind] \in Own /\ Book[LanguageRule[kind]].floor \in Strong
    BY AllRules, BookValues DEF Kinds, LanguageRule, Own, Looked
  <2>8. /\ i.rule = LanguageRule[kind] /\ i.at = 0 /\ i.weight = PhraseWeight(m, heaviest)
        /\ i.floor = Book[LanguageRule[kind]].floor
        /\ i = Indicator(i.rule, i.part, i.at, i.disc, i.hosts, i.weight, i.floor)
    BY DEF Indicator
  <2>9. i \in Language(m, kind)
    BY <1>1, <1>3
  <2> HIDE DEF i, hits
  <2>10. Priced(m, i)
    BY <2>6, <2>7, <2>8, <2>9 DEF Priced, Own
  <2> QED BY <1>1, <1>3, <2>7, <2>8, <2>10, SoundParts
<1> QED BY <1>2, <1>3

\* What the content rules find.
LEMMA ContentIsSound ==
  ASSUME NEW m
  PROVE  Sound(m, ContentRules(m), Own)
<1> DEFINE of == [kind \in Kinds |-> Language(m, kind)]
           all == {of[kind] : kind \in Kinds}
<1>1. IsFiniteSet(Kinds)
  <2>1. Kinds = {"credential"} \cup {"payment"} \cup {"secrecy"} \cup {"threat"} \cup {"urgency"}
    BY DEF Kinds, LanguageRule
  <2> QED BY <2>1, FS_Singleton, FS_Union
<1>2. IsFiniteSet(all)
  <2> HIDE DEF of
  <2> QED BY <1>1, ImageIsFinite
<1>3. \A D \in all : Sound(m, D, Own)
  BY LanguageIsSound
<1>4. {Language(m, kind) : kind \in Kinds} = all
  OBVIOUS
<1> HIDE DEF all
<1>5. Sound(m, UNION all, Own)
  BY <1>2, <1>3, SoundParts
<1>6. "content-single-link-with-pressure" \in Own \ Graded
  BY AllRules DEF Own, Graded, Looked
<1>7. \A c : Sound(m, When(c, InHeader("content-single-link-with-pressure", "shape", <<>>)), Own)
  BY <1>6, OwnRules, FoundIsSound
<1> QED BY <1>4, <1>5, <1>7, SoundParts DEF ContentRules

\* What is read for attempts to address the analyser.
Sayings == SUBSET Word
Texts == [part : {"subject", "body", "attachment", "link"}, at : Int, says : Sayings]

\* The texts that are searched, whatever the message.
LEMMA HaystacksAreTexts ==
  ASSUME NEW m, Readable(m)
  PROVE  Haystacks(m) \in Seq(Texts)
<1> DEFINE prose == <<[part |-> "subject", at |-> 0, says |-> m.subject],
                      [part |-> "body", at |-> 0, says |-> m.body]>>
           files == [i \in DOMAIN m.attachments |->
                       [part |-> "attachment", at |-> m.attachments[i].name, says |-> m.attachments[i].says]]
           labels == [i \in DOMAIN m.links |-> [part |-> "link", at |-> i, says |-> m.links[i].label.says]]
<1>1. prose \in Seq(Texts)
  <2>1. m.subject \in Sayings /\ m.body \in Sayings
    BY DEF Readable, Sayings
  <2>2. /\ [part |-> "subject", at |-> 0, says |-> m.subject] \in Texts
        /\ [part |-> "body", at |-> 0, says |-> m.body] \in Texts
    BY <2>1 DEF Texts
  <2> QED BY <2>2
<1>2. files \in Seq(Texts)
  <2>1. DOMAIN m.attachments = 1 .. Len(m.attachments) /\ Len(m.attachments) \in Nat
    BY DEF Readable
  <2>2. \A i \in DOMAIN m.attachments : m.attachments[i] \in AttachedFiles
    BY DEF Readable
  <2>3. \A i \in DOMAIN m.attachments : files[i] \in Texts
    <3>1. ASSUME NEW file \in AttachedFiles
          PROVE  [part |-> "attachment", at |-> file.name, says |-> file.says] \in Texts
      <4>1. file.name \in Int /\ file.says \in Sayings
        BY DEF AttachedFiles, Sayings
      <4> QED BY <4>1 DEF Texts
    <3> QED BY <2>2, <3>1
  <2>4. files = [i \in 1 .. Len(m.attachments) |-> files[i]]
    BY <2>1
  <2> HIDE DEF files
  <2> QED BY <2>1, <2>3, <2>4
<1>3. labels \in Seq(Texts)
  <2>1. DOMAIN m.links = 1 .. Len(m.links) /\ Len(m.links) \in Nat
    BY DEF Readable
  <2>2. \A i \in DOMAIN m.links : m.links[i] \in LinkTypes
    BY DEF Readable
  <2>3. \A i \in DOMAIN m.links : labels[i] \in Texts
    <3>1. ASSUME NEW link \in LinkTypes, NEW i \in Int
          PROVE  [part |-> "link", at |-> i, says |-> link.label.says] \in Texts
      <4>1. link.label \in Labels
        BY DEF LinkTypes
      <4>2. link.label.says \in Sayings
        BY <4>1 DEF Labels, Sayings
      <4> QED BY <4>2 DEF Texts
    <3>2. \A i \in DOMAIN m.links : i \in Int
      BY <2>1
    <3> QED BY <2>2, <3>1, <3>2
  <2>4. labels = [i \in 1 .. Len(m.links) |-> labels[i]]
    BY <2>1
  <2> HIDE DEF labels
  <2> QED BY <2>1, <2>3, <2>4
<1>4. Haystacks(m) = prose \o files \o labels
  BY DEF Haystacks
<1> HIDE DEF prose, files, labels
<1> QED BY <1>1, <1>2, <1>3, <1>4

\* Where a technique is met, and what is found of it.
LEMMA TechniqueIsFound ==
  ASSUME NEW m, Readable(m), NEW technique \in Technique
  PROVE  LET texts == Haystacks(m)
             i == SelectInSeq(texts, LAMBDA text : technique \in text.says)
         IN  /\ i = 0 \/ (i \in DOMAIN texts /\ texts[i].at \in Int)
             /\ (\E h \in Range(texts) : technique \in h.says) => i # 0
<1> DEFINE texts == Haystacks(m)
           I == {i \in 1 .. Len(texts) : technique \in texts[i].says}
           i == SelectInSeq(texts, LAMBDA text : technique \in text.says)
<1>1. texts \in Seq(Texts)
  BY HaystacksAreTexts
<1>2. i = IF I # {} THEN Min(I) ELSE 0
  BY DEF SelectInSeq
<1> HIDE DEF texts, i
<1>3. I # {} => Min(I) \in I
  <2>1. I \in SUBSET (1 .. Len(texts)) /\ Len(texts) \in Int /\ I \in SUBSET Int
    BY <1>1
  <2>2. IsFiniteSet(1 .. Len(texts))
    BY <2>1, FS_Interval
  <2> HIDE DEF I
  <2> QED BY <2>1, <2>2, FS_Subset, MinIsElement
<1>4. i = 0 \/ i \in 1 .. Len(texts)
  BY <1>2, <1>3
<1>5. i = 0 \/ texts[i].at \in Int
  <2>1. \A text \in Texts : text.at \in Int
    BY DEF Texts
  <2>2. i = 0 \/ texts[i] \in Texts
    BY <1>1, <1>4
  <2> QED BY <2>1, <2>2
<1>6. ASSUME NEW h \in Range(texts), technique \in h.says
      PROVE  i # 0
  <2>1. PICK k \in 1 .. Len(texts) : texts[k] = h
    BY <1>1 DEF Range
  <2>2. k \in I
    BY <1>6, <2>1
  <2> QED BY <1>2, <1>3, <2>2
<1>7. DOMAIN texts = 1 .. Len(texts)
  BY <1>1
<1>8. /\ i = 0 \/ (i \in DOMAIN texts /\ texts[i].at \in Int)
      /\ (\E h \in Range(texts) : technique \in h.says) => i # 0
  BY <1>4, <1>5, <1>6, <1>7
<1> QED BY <1>8 DEF texts, i

\* What the injection rules find, and that they find every technique there is.
LEMMA InjectionIsSound ==
  ASSUME NEW m, Readable(m)
  PROVE  /\ Sound(m, InjectionRules(m), Own)
         /\ \A technique \in Technique :
               (\E h \in Range(Haystacks(m)) : technique \in h.says)
               => \E i \in InjectionRules(m) : i.rule = technique
<1> DEFINE Of(technique) == LET texts == Haystacks(m)
                                i == SelectInSeq(texts, LAMBDA text : technique \in text.says)
                            IN  IF i = 0 THEN {} ELSE {Found(technique, texts[i].part, texts[i].at, <<>>)}
           of == [technique \in Technique |-> Of(technique)]
           all == {of[technique] : technique \in Technique}
<1>1. InjectionRules(m) = UNION all
  BY DEF InjectionRules
<1>2. \A technique \in Technique : technique \in Own \ Graded
  <2> TAKE technique \in Technique
  <2>1. technique \in Rules /\ Book[technique].category = "injection"
    BY TechniqueAssumption
  <2>2. \A rule \in Looked \cup Graded : Book[rule].category # "injection"
    BY GradedAndLooked
  <2> QED BY <2>1, <2>2 DEF Own
<1>3. ASSUME NEW technique \in Technique
      PROVE  /\ Sound(m, Of(technique), Own)
             /\ (\E h \in Range(Haystacks(m)) : technique \in h.says) => \E i \in Of(technique) : i.rule = technique
  <2> DEFINE texts == Haystacks(m)
             i == SelectInSeq(texts, LAMBDA text : technique \in text.says)
             found == Found(technique, texts[i].part, texts[i].at, <<>>)
  <2>1. Of(technique) = IF i = 0 THEN {} ELSE {found}
    OBVIOUS
  <2>2. /\ i = 0 \/ (i \in DOMAIN texts /\ texts[i].at \in Int)
        /\ (\E h \in Range(texts) : technique \in h.says) => i # 0
    BY TechniqueIsFound
  <2>3. found.rule = technique
    BY DEF Found, FoundWith, Indicator
  <2>4. i # 0 => Sound(m, {found}, Own)
    <3>1. \A at \in Int : \A part : Sound(m, {Found(technique, part, at, <<>>)}, Own)
      BY <1>2, OwnRules, FoundIsSound
    <3> HIDE DEF i, texts
    <3> QED BY <2>2, <3>1
  <2> HIDE DEF Of, i, found
  <2>5. Sound(m, Of(technique), Own)
    BY <2>1, <2>4, SoundParts
  <2> QED BY <2>1, <2>2, <2>3, <2>5
<1>4. IsFiniteSet(all)
  <2>1. IsFiniteSet(Technique)
    BY TechniqueAssumption
  <2> HIDE DEF of
  <2> QED BY <2>1, ImageIsFinite
<1> HIDE DEF Of
<1>5. \A D \in all : Sound(m, D, Own)
  BY <1>3
<1>6. \A technique \in Technique : Of(technique) \in all
  OBVIOUS
<1> HIDE DEF all
<1>7. Sound(m, UNION all, Own)
  BY <1>4, <1>5, SoundParts
<1>8. ASSUME NEW technique \in Technique, \E h \in Range(Haystacks(m)) : technique \in h.says
      PROVE  \E i \in InjectionRules(m) : i.rule = technique
  BY <1>1, <1>3, <1>6, <1>8
<1> QED BY <1>1, <1>7, <1>8

\* What the rules find in a message.
LEMMA DetectIsSound ==
  ASSUME NEW m, Readable(m)
  PROVE  Sound(m, Detect(m), Own)
<1> DEFINE ofLink == [i \in DOMAIN m.links |-> UrlRules(m.links[i], i) \cup HostRules(m.links[i], i)]
           ofFile == [i \in DOMAIN m.attachments |-> NameRules(m.attachments[i]) \cup TypeRules(m.attachments[i])]
           links == {ofLink[i] : i \in DOMAIN m.links}
           files == {ofFile[i] : i \in DOMAIN m.attachments}
<1>1. /\ DOMAIN m.links = 1 .. Len(m.links) /\ Len(m.links) \in Int
      /\ \A i \in DOMAIN m.links : m.links[i] \in LinkTypes /\ i \in Int
      /\ DOMAIN m.attachments = 1 .. Len(m.attachments) /\ Len(m.attachments) \in Int
      /\ \A i \in DOMAIN m.attachments : m.attachments[i] \in AttachedFiles
  BY DEF Readable
<1>2. IsFiniteSet(DOMAIN m.links) /\ IsFiniteSet(DOMAIN m.attachments)
  <2>1. \A n \in Int : IsFiniteSet(1 .. n)
    BY FS_Interval
  <2> QED BY <1>1, <2>1
<1>3. IsFiniteSet(links) /\ IsFiniteSet(files)
  <2> HIDE DEF ofLink, ofFile
  <2>1. IsFiniteSet(links)
    BY <1>2, ImageIsFinite
  <2>2. IsFiniteSet(files)
    BY <1>2, ImageIsFinite
  <2> QED BY <2>1, <2>2
<1>4. \A D \in links : Sound(m, D, Own)
  <2>1. \A i \in DOMAIN m.links : Sound(m, UrlRules(m.links[i], i) \cup HostRules(m.links[i], i), Own)
    <3> TAKE i \in DOMAIN m.links
    <3>1. m.links[i] \in LinkTypes /\ i \in Int
      BY <1>1
    <3> QED BY <3>1, LinksAreSound
  <2> QED BY <2>1
<1>5. \A D \in files : Sound(m, D, Own)
  BY <1>1, FilesAreSound
<1>6. /\ (UNION {UrlRules(m.links[i], i) \cup HostRules(m.links[i], i) : i \in DOMAIN m.links}) = (UNION links)
      /\ (UNION {NameRules(m.attachments[i]) \cup TypeRules(m.attachments[i]) : i \in DOMAIN m.attachments})
         = (UNION files)
  OBVIOUS
<1> HIDE DEF links, files
<1>7. Sound(m, UNION links, Own) /\ Sound(m, UNION files, Own)
  BY <1>3, <1>4, <1>5, SoundParts
<1>8. Detect(m) = AuthenticationRules(m) \cup IdentityRules(m) \cup (UNION links) \cup LinkedElsewhere(m)
                  \cup (UNION files) \cup ContentRules(m) \cup InjectionRules(m)
  BY <1>6 DEF Detect
<1>9. /\ Sound(m, AuthenticationRules(m), Own) /\ Sound(m, IdentityRules(m), Own)
      /\ Sound(m, LinkedElsewhere(m), Own) /\ Sound(m, ContentRules(m), Own)
      /\ Sound(m, InjectionRules(m), Own)
  BY AuthenticationIsSound, IdentityIsSound, ElsewhereIsSound, ContentIsSound, InjectionIsSound
<1>10. \A C, D : Sound(m, C, Own) /\ Sound(m, D, Own) => Sound(m, C \cup D, Own)
  BY SoundParts
<1> DEFINE A == AuthenticationRules(m) \cup IdentityRules(m) \cup (UNION links) \cup LinkedElsewhere(m)
<1>11. Sound(m, A, Own)
  BY <1>7, <1>9, <1>10
<1>12. Detect(m) = A \cup (UNION files) \cup ContentRules(m) \cup InjectionRules(m)
  BY <1>8
<1> HIDE DEF A
<1>13. Sound(m, A \cup (UNION files), Own)
  BY <1>7, <1>10, <1>11
<1>14. Sound(m, A \cup (UNION files) \cup ContentRules(m), Own)
  BY <1>9, <1>10, <1>13
<1> QED BY <1>9, <1>10, <1>12, <1>14

----------------------------------------------------------------------------
(* What is parsed of a message. *)

\* What FlattenSeq makes of the first k sequences.
Flattens(f, ss, k) ==
  f = [i \in 1 .. k |-> IF i = 1 THEN ss[i] ELSE f[i - 1] \o ss[i]]

\* The recursive function of FlattenSeq exists, by induction on how far it goes.
LEMMA FlattenerExists ==
  ASSUME NEW ss, NEW n \in Nat
  PROVE  \E f : Flattens(f, ss, n)
<1> DEFINE G == {k \in 0 .. n : \E f : Flattens(f, ss, k)}
<1>1. 0 \in G
  <2> DEFINE f == [i \in 1 .. 0 |-> ss[i]]
  <2>1. f = [i \in 1 .. 0 |-> IF i = 1 THEN ss[i] ELSE f[i - 1] \o ss[i]]
    OBVIOUS
  <2> HIDE DEF f
  <2>2. Flattens(f, ss, 0)
    BY <2>1 DEF Flattens
  <2> QED BY <2>2
<1>2. ASSUME NEW k \in 0 .. n - 1, k \in G
      PROVE  k + 1 \in G
  <2>1. PICK f : Flattens(f, ss, k)
    BY <1>2
  <2> DEFINE h == [i \in 1 .. k + 1 |-> IF i <= k THEN f[i] ELSE IF i = 1 THEN ss[i] ELSE f[i - 1] \o ss[i]]
  <2>2. \A i \in 1 .. k : f[i] = IF i = 1 THEN ss[i] ELSE f[i - 1] \o ss[i]
    BY <2>1 DEF Flattens
  <2>3. \A i \in 1 .. k : h[i] = f[i]
    OBVIOUS
  <2>4. \A i \in 1 .. k + 1 : h[i] = IF i = 1 THEN ss[i] ELSE f[i - 1] \o ss[i]
    BY <2>2
  <2>5. h = [i \in 1 .. k + 1 |-> h[i]]
    OBVIOUS
  <2> HIDE DEF h
  <2>6. \A i \in 1 .. k + 1 : i # 1 => h[i - 1] = f[i - 1]
    <3> TAKE i \in 1 .. k + 1
    <3> HAVE i # 1
    <3>1. i - 1 \in 1 .. k
      OBVIOUS
    <3> QED BY <2>3, <3>1
  <2>7. \A i \in 1 .. k + 1 : h[i] = IF i = 1 THEN ss[i] ELSE h[i - 1] \o ss[i]
    BY <2>4, <2>6
  <2>8. Flattens(h, ss, k + 1)
    BY <2>5, <2>7 DEF Flattens
  <2>9. k + 1 \in 0 .. n
    OBVIOUS
  <2> QED BY <2>8, <2>9
<1> HIDE DEF G
<1>3. n \in G
  BY <1>1, <1>2, UpTo
<1> QED BY <1>3 DEF G

\* Flattening sequences of elements of T gives a sequence of elements of T.
LEMMA FlattenIsSequence ==
  ASSUME NEW T, NEW ss \in Seq(Seq(T))
  PROVE  FlattenSeq(ss) \in Seq(T)
<1> DEFINE n == Len(ss)
           f == CHOOSE g : Flattens(g, ss, n)
<1>1. n \in Nat /\ (n = 0 => ss = <<>>) /\ \A i \in 1 .. n : ss[i] \in Seq(T)
  OBVIOUS
<1>2. FlattenSeq(ss) = IF n = 0 THEN ss ELSE f[n]
  BY SMT DEF FlattenSeq, Flattens
<1>3. Flattens(f, ss, n)
  BY <1>1, FlattenerExists
<1> DEFINE G == {k \in 0 .. n : k = 0 \/ f[k] \in Seq(T)}
<1> HIDE DEF n, f
<1>4. \A i \in 1 .. n : f[i] = IF i = 1 THEN ss[i] ELSE f[i - 1] \o ss[i]
  BY <1>3 DEF Flattens
<1>5. ASSUME NEW k \in 0 .. n - 1, k \in G
      PROVE  k + 1 \in G
  <2>1. k + 1 \in 1 .. n /\ (k + 1) - 1 = k /\ ss[k + 1] \in Seq(T)
    BY <1>1
  <2>2. f[k + 1] = IF k + 1 = 1 THEN ss[k + 1] ELSE f[k] \o ss[k + 1]
    BY <1>4, <2>1
  <2>3. f[k + 1] \in Seq(T)
    BY <1>5, <2>1, <2>2
  <2> QED BY <2>1, <2>3
<1>6. 0 \in G
  BY <1>1
<1> HIDE DEF G
<1>7. n \in G
  <2>1. n \in Nat /\ 0 \in G /\ \A k \in 0 .. n - 1 : k \in G => k + 1 \in G
    BY <1>1, <1>5, <1>6
  <2>2. \A k \in 0 .. n : k \in G
    BY <2>1, UpTo
  <2>3. n \in 0 .. n
    BY <1>1
  <2> QED BY <2>2, <2>3
<1> QED BY <1>1, <1>2, <1>7 DEF G

\* The items of a message are what bodies consist of.
LEMMA ItemsAreBodyItems ==
  ASSUME NEW parts \in Seq(Parts), NEW kind \in {"plain", "html"}
  PROVE  Items(parts, kind) \in Seq(BodyItems)
<1> DEFINE ss == [i \in DOMAIN parts |-> IF parts[i].kind = kind THEN parts[i].items ELSE <<>>]
<1>1. \A part \in Parts : part.kind = kind => part.items \in Seq(BodyItems)
  BY DEF Parts
<1>2. \A i \in DOMAIN parts : parts[i] \in Parts
  OBVIOUS
<1>3. \A i \in DOMAIN parts : ss[i] \in Seq(BodyItems)
  BY <1>1, <1>2
<1>4. ss = [i \in 1 .. Len(parts) |-> ss[i]] /\ Len(parts) \in Nat /\ DOMAIN parts = 1 .. Len(parts)
  OBVIOUS
<1>5. Items(parts, kind) = FlattenSeq(ss)
  BY DEF Items
<1> HIDE DEF ss
<1>6. ss \in Seq(Seq(BodyItems))
  BY <1>3, <1>4
<1> QED BY <1>5, <1>6, FlattenIsSequence

\* So are some of them.
LEMMA ThoseAreItems ==
  ASSUME NEW items \in Seq(BodyItems), NEW I \in SUBSET (DOMAIN items)
  PROVE  At(items, I) \in Seq(BodyItems)
BY AtIsSequence

\* The label of a link that is no anchor.
LEMMA NoLabelIsALabel == NoLabel \in Labels
BY DEF NoLabel, Labels, Hosts

\* A link is made of a URL and its label.
LEMMA LinkIsALink ==
  ASSUME NEW url \in Urls, NEW label \in Labels
  PROVE  LinkOf(url, label) \in LinkTypes
<1>1. url.scheme \in Schemes /\ url.host \in Hosts
  BY DEF Urls, Schemes
<1> QED BY <1>1 DEF LinkOf, LinkTypes

\* The links of items.
LEMMA LinksAreLinks ==
  ASSUME NEW items \in Seq(BodyItems), NEW labelled
  PROVE  LinksOf(items, labelled) \in Seq(LinkTypes)
<1> DEFINE I == {i \in DOMAIN items : items[i].url.scheme # "relative"}
           chosen == At(items, I)
           links == [i \in DOMAIN chosen |-> LinkOf(chosen[i].url, IF labelled THEN chosen[i].label ELSE NoLabel)]
<1>1. LinksOf(items, labelled) = links
  BY DEF LinksOf, Those
<1>2. I \in SUBSET (DOMAIN items)
  OBVIOUS
<1> HIDE DEF I
<1>3. chosen \in Seq(BodyItems)
  BY <1>2, ThoseAreItems
<1> HIDE DEF chosen
<1>4. ASSUME NEW item \in BodyItems
      PROVE  LinkOf(item.url, IF labelled THEN item.label ELSE NoLabel) \in LinkTypes
  <2>1. item.url \in Urls /\ (IF labelled THEN item.label ELSE NoLabel) \in Labels
    BY NoLabelIsALabel DEF BodyItems
  <2> QED BY <2>1, LinkIsALink
<1>5. \A i \in DOMAIN chosen : chosen[i] \in BodyItems
  BY <1>3
<1>6. \A i \in DOMAIN chosen : links[i] \in LinkTypes
  BY <1>4, <1>5
<1>7. links = [i \in 1 .. Len(chosen) |-> links[i]] /\ Len(chosen) \in Nat /\ DOMAIN chosen = 1 .. Len(chosen)
  BY <1>3
<1> HIDE DEF links
<1> QED BY <1>1, <1>6, <1>7

\* The links of a message.
LEMMA ExtractedAreLinks ==
  ASSUME NEW html \in Seq(BodyItems), NEW text \in Seq(BodyItems)
  PROVE  ExtractLinks(html, text) \in Seq(LinkTypes)
<1>1. /\ Anchors(html) \in Seq(BodyItems) /\ Tags(html) \in Seq(BodyItems)
      /\ Shown(text) \in Seq(BodyItems) /\ Shown(html) \in Seq(BodyItems)
  <2>1. Anchors(html) \in Seq(BodyItems)
    BY ThoseAreItems DEF Anchors, Those
  <2>2. Tags(html) \in Seq(BodyItems)
    BY ThoseAreItems DEF Tags, Those
  <2>3. \A items \in Seq(BodyItems) : Shown(items) \in Seq(BodyItems)
    BY ThoseAreItems DEF Shown, Those
  <2> QED BY <2>1, <2>2, <2>3
<1> DEFINE all == LinksOf(Anchors(html), TRUE) \o LinksOf(Tags(html), FALSE)
                  \o LinksOf(Shown(text) \o Shown(html), FALSE)
           I == {i \in DOMAIN all : \A k \in 1 .. i - 1 : all[k].url # all[i].url}
<1>2. all \in Seq(LinkTypes)
  <2>1. LinksOf(Anchors(html), TRUE) \in Seq(LinkTypes) /\ LinksOf(Tags(html), FALSE) \in Seq(LinkTypes)
    BY <1>1, LinksAreLinks
  <2>2. Shown(text) \o Shown(html) \in Seq(BodyItems)
    BY <1>1
  <2>3. ASSUME NEW shown \in Seq(BodyItems)
        PROVE  LinksOf(shown, FALSE) \in Seq(LinkTypes)
    BY LinksAreLinks
  <2>4. LinksOf(Shown(text) \o Shown(html), FALSE) \in Seq(LinkTypes)
    BY <2>2, <2>3
  <2>5. \A a, b, c \in Seq(LinkTypes) : a \o b \o c \in Seq(LinkTypes)
    OBVIOUS
  <2> QED BY <2>1, <2>4, <2>5
<1>3. I \in SUBSET (DOMAIN all)
  OBVIOUS
<1>4. ExtractLinks(html, text) = At(all, I)
  BY DEF ExtractLinks, Distinct
<1> HIDE DEF all, I
<1> QED BY <1>2, <1>3, <1>4, AtIsSequence

\* The attachments of a message.
LEMMA FilesAreAttached ==
  ASSUME NEW parts \in Seq(Parts)
  PROVE  Files(parts) \in Seq(AttachedFiles)
<1> DEFINE I == {i \in DOMAIN parts : parts[i].kind = "attachment"}
           chosen == At(parts, I)
           files == [i \in DOMAIN chosen |-> chosen[i].file]
<1>1. Files(parts) = files
  BY DEF Files, Those
<1>2. I \in SUBSET (DOMAIN parts) /\ \A i \in I : parts[i] \in Parts /\ parts[i].kind = "attachment"
  OBVIOUS
<1>3. \A part \in Parts : part.kind = "attachment" => part.file \in AttachedFiles
  BY DEF Parts
<1> HIDE DEF I
<1>4. chosen \in Seq(Parts) /\ \A k \in DOMAIN chosen : \E i \in I : chosen[k] = parts[i]
  BY <1>2, AtIsSequence
<1> HIDE DEF chosen
<1>5. \A k \in DOMAIN chosen : files[k] \in AttachedFiles
  BY <1>2, <1>3, <1>4
<1>6. files = [k \in 1 .. Len(chosen) |-> files[k]] /\ Len(chosen) \in Nat /\ DOMAIN chosen = 1 .. Len(chosen)
  BY <1>4
<1> HIDE DEF files
<1> QED BY <1>1, <1>5, <1>6

\* A message the rules read is made of whatever is submitted.
LEMMA ParsedIsReadable ==
  ASSUME NEW mail \in Emails
  PROVE  Readable(ParseEmailMime(mail))
<1> DEFINE html == Items(mail.parts, "html")
           plain == Items(mail.parts, "plain")
           m == ParseEmailMime(mail)
<1>1. mail.sender \in Senders /\ mail.subject \in SUBSET Word /\ mail.parts \in Seq(Parts)
  BY DEF Emails
<1>2. html \in Seq(BodyItems) /\ plain \in Seq(BodyItems)
  BY <1>1, ItemsAreBodyItems
<1>3. /\ m.sender = mail.sender /\ m.subject = mail.subject /\ m.body = Says(Prose(plain, html))
      /\ m.links = ExtractLinks(html, plain) /\ m.attachments = Files(mail.parts)
  BY DEF ParseEmailMime
<1> HIDE DEF html, plain, m
<1>4. Prose(plain, html) \in Seq(BodyItems)
  BY <1>2 DEF Prose
<1>5. \A items \in Seq(BodyItems) : Says(items) \in SUBSET Word
  <2> TAKE items \in Seq(BodyItems)
  <2>1. \A i \in DOMAIN items : items[i] \in BodyItems
    OBVIOUS
  <2>2. \A item \in BodyItems : item.label.says \in SUBSET Word
    BY DEF BodyItems, Labels
  <2> QED BY <2>1, <2>2 DEF Says
<1>6. m.links \in Seq(LinkTypes) /\ m.attachments \in Seq(AttachedFiles)
  BY <1>1, <1>2, <1>3, ExtractedAreLinks, FilesAreAttached
<1>7. Readable(m)
  BY <1>1, <1>3, <1>4, <1>5, <1>6 DEF Readable
<1> QED BY <1>7 DEF m

\* A message is made of a submitted URL as well.
LEMMA UrlIsReadable ==
  ASSUME NEW url \in Urls, SplitHost(url) \in Hosts
  PROVE  Readable(UrlAsMessage(url))
<1> DEFINE m == UrlAsMessage(url)
           link == [LinkOf(url, NoLabel) EXCEPT !.host = SplitHost(url)]
<1>1. /\ m.sender = NoSender /\ m.subject = {} /\ m.body = {}
      /\ m.links = <<link>> /\ m.attachments = <<>>
  BY DEF UrlAsMessage
<1> HIDE DEF m
<1>2. NoSender \in Senders
  BY DEF NoSender, Senders, Hosts
<1>3. link \in LinkTypes
  <2>1. LinkOf(url, NoLabel) \in LinkTypes
    BY NoLabelIsALabel, LinkIsALink
  <2> QED BY <2>1 DEF LinkTypes
<1> HIDE DEF link
<1>4. m.links \in Seq(LinkTypes) /\ m.attachments \in Seq(AttachedFiles)
  BY <1>1, <1>3
<1>5. Readable(m)
  BY <1>1, <1>2, <1>4 DEF Readable
<1> QED BY <1>5 DEF m

----------------------------------------------------------------------------
(* What the lookups add. *)

\* The rules of the lookups have no degrees.
LEMMA LookedRules == Looked \in SUBSET Rules /\ \A rule \in Looked : rule \in Looked \ Graded
BY AllRules DEF Looked, Graded

\* What a lookup says it found is sound.
LEMMA LookedIsSound ==
  ASSUME NEW m
  PROVE  \A rule \in Looked :
           /\ \A c, part, hosts : Sound(m, When(c, Found(rule, part, 0, hosts)), Looked)
           /\ \A header, hosts : Sound(m, {InHeader(rule, header, hosts)}, Looked)
           /\ \A c, header, hosts : Sound(m, When(c, InHeader(rule, header, hosts)), Looked)
<1>1. 0 \in Int
  OBVIOUS
<1> QED BY <1>1, LookedRules, FoundIsSound

\* What the name service adds.
LEMMA DnsIsSound ==
  ASSUME NEW m, NEW D \in DnsSignals(m)
  PROVE  Sound(m, D, Looked)
<1>1. "enrich-spf-claim-unsupported" \in Looked /\ "enrich-no-dmarc-policy" \in Looked
  BY DEF Looked
<1>2. \A c, d : /\ Sound(m, When(c, InHeader("enrich-spf-claim-unsupported", "auth", <<>>)), Looked)
                /\ Sound(m, When(d, InHeader("enrich-no-dmarc-policy", "dns", <<>>)), Looked)
  BY <1>1, LookedIsSound
<1>3. \A c, d : Sound(m, When(c, InHeader("enrich-spf-claim-unsupported", "auth", <<>>))
                         \cup When(d, InHeader("enrich-no-dmarc-policy", "dns", <<>>)), Looked)
  BY <1>2, SoundParts
<1>4. CASE D = {}
  BY <1>4, SoundParts
<1>5. CASE D # {}
  BY <1>3, <1>5 DEF DnsSignals
<1> QED BY <1>4, <1>5

\* What the age of the domain adds.
LEMMA AgeIsSound ==
  ASSUME NEW m, NEW D \in AgeSignals(m)
  PROVE  Sound(m, D, Looked)
<1>1. "enrich-young-sender-domain" \in Looked
  BY DEF Looked
<1>2. Sound(m, {InHeader("enrich-young-sender-domain", "from", <<>>)}, Looked) /\ Sound(m, {}, Looked)
  BY <1>1, LookedIsSound, SoundParts
<1> QED BY <1>2 DEF AgeSignals

\* What the fetched pages add.
LEMMA PagesAreSound ==
  ASSUME NEW m, Readable(m), NEW D \in FetchSignals(m)
  PROVE  Sound(m, D, Looked)
<1>1. "enrich-credential-form" \in Looked /\ "enrich-redirect-chain" \in Looked
  BY DEF Looked
<1>2. ASSUME NEW url, NEW form, NEW chain
      PROVE  Sound(m, PageSignals(url, form, chain), Looked)
  <2>1. \A c, hosts : /\ Sound(m, When(c, Found("enrich-credential-form", "fetched", 0, hosts)), Looked)
                      /\ Sound(m, When(c, Found("enrich-redirect-chain", "fetched", 0, hosts)), Looked)
    BY <1>1, LookedIsSound
  <2> QED BY <2>1, SoundParts DEF PageSignals
<1>3. CASE ~submitted.fetch
  BY <1>3, SoundParts DEF FetchSignals
<1>4. CASE submitted.fetch
  <2>1. PICK targets \in FetchTargets(m) :
           \E form, chain \in [targets -> BOOLEAN] :
              D = UNION {PageSignals(m.links[i].url, form[i], chain[i]) : i \in targets}
    BY <1>4 DEF FetchSignals
  <2>2. PICK form, chain \in [targets -> BOOLEAN] :
           D = UNION {PageSignals(m.links[i].url, form[i], chain[i]) : i \in targets}
    BY <2>1
  <2> DEFINE of == [i \in targets |-> PageSignals(m.links[i].url, form[i], chain[i])]
             all == {of[i] : i \in targets}
  <2>3. targets \in SUBSET (DOMAIN m.links)
    BY DEF FetchTargets
  <2>4. IsFiniteSet(targets)
    <3>1. DOMAIN m.links = 1 .. Len(m.links) /\ Len(m.links) \in Int /\ 1 \in Int
      BY DEF Readable
    <3>2. IsFiniteSet(DOMAIN m.links)
      BY <3>1, FS_Interval
    <3> QED BY <2>3, <3>2, FS_Subset
  <2>5. IsFiniteSet(all)
    <3> HIDE DEF of
    <3> QED BY <2>4, ImageIsFinite
  <2>6. \A E \in all : Sound(m, E, Looked)
    BY <1>2
  <2>7. D = UNION all
    BY <2>2
  <2> HIDE DEF all
  <2> QED BY <2>5, <2>6, <2>7, SoundParts
<1> QED BY <1>3, <1>4

----------------------------------------------------------------------------
(* Ids. *)

\* One kind of language gives at most one indicator, of its own rule.
LEMMA LanguageIsOne ==
  ASSUME NEW m, NEW kind \in Kinds
  PROVE  \A i, j \in Language(m, kind) : i.rule = LanguageRule[kind] /\ i = j
<1> DEFINE hits == {p \in Phrase \cap (m.subject \cup m.body) : PhraseBook[p].kind = kind}
           Key(p) == 1000 * PhraseWeight(m, p) + PhraseBook[p].place
           heaviest == CHOOSE p \in hits : \A q \in hits : Key(p) >= Key(q)
           one == Indicator(LanguageRule[kind], IF heaviest \in m.subject THEN "subject" ELSE "body", 0,
                            "", <<>>, PhraseWeight(m, heaviest), Book[LanguageRule[kind]].floor)
<1>1. Language(m, kind) = IF hits = {} THEN {} ELSE {one}
  BY DEF Language
<1> HIDE DEF hits, heaviest
<1>2. one.rule = LanguageRule[kind]
  BY DEF Indicator
<1> HIDE DEF one
<1> QED BY <1>1, <1>2

\* The id of an indicator of a message tells it from the others.
LEMMA IdsDiffer ==
  ASSUME NEW m, NEW i, NEW j, Priced(m, i), Priced(m, j), Id(i) = Id(j)
  PROVE  i = j
<1>1. /\ i.rule = j.rule /\ i.part = j.part /\ i.at = j.at /\ i.disc = j.disc /\ i.hosts = j.hosts
      /\ i = Indicator(i.rule, i.part, i.at, i.disc, i.hosts, i.weight, i.floor)
      /\ j = Indicator(j.rule, j.part, j.at, j.disc, j.hosts, j.weight, j.floor)
  BY DEF Id, Priced
<1>2. \A disc : SpfFailed(disc).rule = "auth-spf-failed"
  BY DEF SpfFailed, FoundWith, Indicator
<1>3. \A kind \in Kinds : LanguageRule[kind] \in Graded /\ LanguageRule[kind] # "auth-spf-failed"
  BY DEF Kinds, LanguageRule, Graded
<1>4. \A kind, other \in Kinds : LanguageRule[kind] = LanguageRule[other] => kind = other
  BY DEF Kinds, LanguageRule
<1>5. \A k \in {i, j} : \/ k.rule \notin Graded /\ AsPriced(k)
                        \/ k.rule = "auth-spf-failed" /\ k = SpfFailed(k.disc)
                        \/ \E kind \in Kinds : k \in Language(m, kind) /\ k.rule = LanguageRule[kind]
  BY <1>2, LanguageIsOne DEF Priced
<1>6. CASE i.rule \notin Graded
  <2>1. AsPriced(i) /\ AsPriced(j)
    BY <1>1, <1>3, <1>5, <1>6 DEF Graded
  <2> QED BY <1>1, <2>1 DEF AsPriced
<1>7. CASE i.rule = "auth-spf-failed"
  <2>1. i = SpfFailed(i.disc) /\ j = SpfFailed(j.disc)
    BY <1>1, <1>3, <1>5, <1>7 DEF Graded
  <2> QED BY <1>1, <2>1
<1>8. CASE i.rule \in Graded /\ i.rule # "auth-spf-failed"
  <2>1. PICK kind \in Kinds : i \in Language(m, kind) /\ i.rule = LanguageRule[kind]
    BY <1>5, <1>8
  <2>2. PICK other \in Kinds : j \in Language(m, other) /\ j.rule = LanguageRule[other]
    BY <1>1, <1>5, <1>8
  <2>3. kind = other
    BY <1>1, <1>4, <2>1, <2>2
  <2> QED BY <2>1, <2>2, <2>3, LanguageIsOne
<1> QED BY <1>6, <1>7, <1>8 DEF Graded

----------------------------------------------------------------------------
(* Severities. *)

\* Worst is as severe as any of a set of severities.
LEMMA WorstIsWorst ==
  ASSUME NEW S \in SUBSET Severity, S # {}
  PROVE  Worst(S) \in S /\ \A s \in S : SeverityOrder[s] <= SeverityOrder[Worst(S)]
<1>1. \E s \in S : \A t \in S : SeverityOrder[t] <= SeverityOrder[s]
  <2>1. CASE "critical" \in S
    BY <2>1, SeverityIsOrdered DEF Strong, Strength
  <2>2. CASE "critical" \notin S /\ "high" \in S
    BY <2>2, SeverityIsOrdered DEF Strong, Strength
  <2>3. CASE "critical" \notin S /\ "high" \notin S /\ "medium" \in S
    BY <2>3, SeverityIsOrdered DEF Strong, Strength
  <2>4. CASE "critical" \notin S /\ "high" \notin S /\ "medium" \notin S /\ "low" \in S
    BY <2>4, SeverityIsOrdered DEF Strong, Strength
  <2>5. CASE "critical" \notin S /\ "high" \notin S /\ "medium" \notin S /\ "low" \notin S
    <3>1. \A s \in S : s = "info" /\ SeverityOrder[s] = 0
      BY <2>5, SeverityIsOrdered DEF Strong, Strength
    <3> QED BY <3>1
  <2> QED BY <2>1, <2>2, <2>3, <2>4, <2>5
<1> QED BY <1>1 DEF Worst

\* What orders severities.
LEMMA SeverityNumbers ==
  /\ \A s \in Severity : SeverityOrder[s] \in 0 .. 4
  /\ \A s, t \in Severity : SeverityOrder[s] = SeverityOrder[t] => s = t
  /\ \A s \in Strong : s \in Severity /\ SeverityOrder[s] > 0
BY SeverityIsOrdered DEF Strong, Strength

\* The aggregate has a severity.
LEMMA BandIsASeverity == \A value : BandFor(value) \in Severity
BY SeverityIsOrdered DEF BandFor, Strong

\* The indicators of one category, in their order, and what the first of them add up to.
Family(s, category) == Those(s, LAMBDA i : CategoryOf(i) = category)
Totals(f, own, N) ==
  f = [n \in 0 .. N |-> IF n = 0 THEN 0 ELSE f[n - 1] + Decayed(own[n].weight, n)]

\* The totals exist, by induction on how many are added up.
LEMMA TotalsExist ==
  ASSUME NEW own, NEW N \in Nat
  PROVE  \E f : Totals(f, own, N)
<1> DEFINE G == {k \in 0 .. N : \E f : Totals(f, own, k)}
<1>1. 0 \in G
  <2> DEFINE f == [n \in 0 .. 0 |-> 0]
  <2>1. f = [n \in 0 .. 0 |-> IF n = 0 THEN 0 ELSE f[n - 1] + Decayed(own[n].weight, n)]
    <3>1. \A n \in 0 .. 0 : n = 0
      OBVIOUS
    <3> QED BY <3>1
  <2> HIDE DEF f
  <2>2. Totals(f, own, 0)
    BY <2>1 DEF Totals
  <2> QED BY <2>2
<1>2. ASSUME NEW k \in 0 .. N - 1, k \in G
      PROVE  k + 1 \in G
  <2>1. PICK f : Totals(f, own, k)
    BY <1>2
  <2> DEFINE h == [n \in 0 .. k + 1 |->
                     IF n <= k THEN f[n] ELSE f[k] + Decayed(own[n].weight, n)]
  <2>2. \A n \in 0 .. k : f[n] = IF n = 0 THEN 0 ELSE f[n - 1] + Decayed(own[n].weight, n)
    BY <2>1 DEF Totals
  <2>3. \A n \in 0 .. k : h[n] = f[n]
    OBVIOUS
  <2>4. h[k + 1] = f[k] + Decayed(own[k + 1].weight, k + 1)
    OBVIOUS
  <2>5. h = [n \in 0 .. k + 1 |-> h[n]]
    OBVIOUS
  <2> HIDE DEF h
  <2>6. \A n \in 0 .. k + 1 : h[n] = IF n = 0 THEN 0 ELSE h[n - 1] + Decayed(own[n].weight, n)
    <3> TAKE n \in 0 .. k + 1
    <3>1. CASE n = k + 1
      <4>1. n # 0 /\ n - 1 = k /\ k \in 0 .. k
        BY <3>1
      <4>2. h[k] = f[k]
        BY <2>3, <4>1
      <4> QED BY <2>4, <3>1, <4>1, <4>2
    <3>2. CASE n # k + 1 /\ n # 0
      <4>1. n \in 0 .. k /\ n - 1 \in 0 .. k
        BY <3>2
      <4> QED BY <2>2, <2>3, <3>2, <4>1
    <3>3. CASE n = 0
      <4>1. n \in 0 .. k
        BY <3>3
      <4> QED BY <2>2, <2>3, <3>3, <4>1
    <3> QED BY <3>1, <3>2, <3>3
  <2>7. Totals(h, own, k + 1)
    BY <2>5, <2>6 DEF Totals
  <2>8. k + 1 \in 0 .. N
    OBVIOUS
  <2> QED BY <2>7, <2>8
<1> HIDE DEF G
<1>3. N \in G
  BY <1>1, <1>2, UpTo
<1> QED BY <1>3 DEF G

\* What a category contributes is the last of its totals, at its ceiling.
LEMMA ContributionIs ==
  ASSUME NEW s, NEW category, Len(Family(s, category)) \in Nat
  PROVE  \E f : /\ Totals(f, Family(s, category), Len(Family(s, category)))
                /\ Contribution(s, category) = Min({f[Len(Family(s, category))], Ceiling[category]})
<1> DEFINE own == Family(s, category)
           Steps(f) == f = [n \in 0 .. Len(own) |->
                              IF n = 0 THEN 0 ELSE f[n - 1] + Decayed(own[n].weight, n)]
           total == CHOOSE f : Steps(f)
<1>1. Contribution(s, category) = Min({total[Len(own)], Ceiling[category]})
  BY DEF Contribution, Family
<1>2. \E f : Totals(f, own, Len(own))
  BY TotalsExist
<1>3. \A f : Steps(f) <=> Totals(f, own, Len(own))
  BY DEF Totals
<1> HIDE DEF Steps
<1>4. Steps(total)
  BY <1>2, <1>3
<1> HIDE DEF total
<1> QED BY <1>1, <1>3, <1>4

\* Nothing adds up to nothing.
LEMMA NothingScoresNothing == WeightedScore(<<>>) = 0 /\ BandFor(0) = "info"
<1>1. ASSUME NEW c, Ceiling[c] \in Nat
      PROVE  Contribution(<<>>, c) = 0
  <2>1. Len(Family(<<>>, c)) = 0
    <3> DEFINE I == {i \in DOMAIN <<>> : CategoryOf(<<>>[i]) = c}
    <3>1. I = {} /\ Cardinality({}) = 0
      BY FS_EmptySet
    <3>2. Family(<<>>, c) = At(<<>>, I)
      BY DEF Family, Those
    <3>3. <<>> \in Seq({}) /\ I \in SUBSET (DOMAIN <<>>)
      OBVIOUS
    <3> HIDE DEF I
    <3>4. At(<<>>, I) \in Seq({})
      BY <3>3, AtIsSequence
    <3> QED BY <3>2, <3>4
  <2>4. \E f : Totals(f, Family(<<>>, c), Len(Family(<<>>, c))) /\ Contribution(<<>>, c) = Min({f[Len(Family(<<>>, c))], Ceiling[c]})
    <3>1. Len(Family(<<>>, c)) \in Nat
      BY <2>1
    <3> QED BY <3>1, ContributionIs
  <2>2. PICK f : Totals(f, Family(<<>>, c), 0) /\ Contribution(<<>>, c) = Min({f[0], Ceiling[c]})
    BY <2>1, <2>4
  <2>3. f[0] = 0
    BY <2>1, <2>2 DEF Totals
  <2> QED BY <1>1, <2>2, <2>3, MinOfTwo
<1>2. /\ Contribution(<<>>, "authentication") = 0 /\ Contribution(<<>>, "identity") = 0
      /\ Contribution(<<>>, "url") = 0 /\ Contribution(<<>>, "attachment") = 0
      /\ Contribution(<<>>, "content") = 0 /\ Contribution(<<>>, "injection") = 0
  BY <1>1 DEF Ceiling
<1> DEFINE families == {CategoryOf(i) : i \in Range(<<>>)}
           further == Max({0, Min({Cardinality(families) - 1, 3})})
<1>3. further = 0
  <2>1. families = {}
    BY DEF Range
  <2>2. Cardinality({}) - 1 = -1
    BY FS_EmptySet
  <2>3. Min({-1, 3}) = -1
    BY MinOfTwo
  <2>5. Max({0, -1}) = 0
    BY MaxOfTwo
  <2> QED BY <2>1, <2>2, <2>3, <2>5
<1> DEFINE total == Contribution(<<>>, "authentication") + Contribution(<<>>, "identity")
                    + Contribution(<<>>, "url") + Contribution(<<>>, "attachment")
                    + Contribution(<<>>, "content") + Contribution(<<>>, "injection")
                    + further * 3120
<1>4. WeightedScore(<<>>) = Min({total, Available})
  BY DEF WeightedScore
<1> HIDE DEF further
<1>8. \A a, b, c, d, e, f, g : /\ a = 0 /\ b = 0 /\ c = 0 /\ d = 0 /\ e = 0 /\ f = 0 /\ g = 0
                              => a + b + c + d + e + f + g * 3120 = 0
  OBVIOUS
<1>9. total = 0
  BY <1>2, <1>3, <1>8
<1> HIDE DEF total
<1>5. WeightedScore(<<>>) = Min({0, Available})
  BY <1>4, <1>9
<1>6. WeightedScore(<<>>) = 0
  BY <1>5, MinOfTwo DEF Available
<1>7. BandFor(0) = "info"
  BY DEF BandFor, Available
<1> QED BY <1>6, <1>7

----------------------------------------------------------------------------
(* More evidence. *)

\* The sequence s has the elements of R, each once, the heavier ones first.
Ranks(s, R) ==
  /\ s \in Seq(R) /\ Descends(s)
  /\ \A x \in R : x.weight \in Nat
  /\ \A x \in R : \E i \in 1 .. Len(s) : s[i] = x
  /\ \A i, j \in 1 .. Len(s) : s[i] = s[j] => i = j

\* Nothing else is in it.
LEMMA RangeOfRanks ==
  ASSUME NEW s, NEW R, Ranks(s, R)
  PROVE  Range(s) = R
<1>1. s \in Seq(R) /\ DOMAIN s = 1 .. Len(s)
  BY DEF Ranks
<1>2. \A i \in DOMAIN s : s[i] \in R
  BY <1>1
<1>3. \A x \in R : \E i \in DOMAIN s : s[i] = x
  BY <1>1 DEF Ranks
<1> QED BY <1>2, <1>3 DEF Range

\* Of what is ranked, the indicators of one category are.
LEMMA FamilyIsRanked ==
  ASSUME NEW s, NEW R, Ranks(s, R), NEW category
  PROVE  Ranks(Family(s, category), {x \in R : CategoryOf(x) = category})
<1> DEFINE I == {i \in DOMAIN s : CategoryOf(s[i]) = category}
           own == Family(s, category)
           S == {x \in R : CategoryOf(x) = category}
<1>1. own = At(s, I)
  BY DEF Family, Those
<1>2. s \in Seq(R) /\ DOMAIN s = 1 .. Len(s) /\ Len(s) \in Nat
  BY DEF Ranks
<1>3. I \in SUBSET Int /\ I \in SUBSET (1 .. Len(s))
  BY <1>2
<1>4. IsFiniteSet(I)
  <2>1. IsFiniteSet(1 .. Len(s))
    BY <1>2, FS_Interval
  <2> HIDE DEF I
  <2> QED BY <1>3, <2>1, FS_Subset
<1>5. \A i \in I : s[i] \in S
  BY <1>2
<1>6. \A x \in S : \E i \in I : s[i] = x
  BY <1>2 DEF Ranks
<1> HIDE DEF I, own, S
<1>7. \E n \in Nat : \E pos \in [1 .. n -> I] : Lists(At(s, I), s, I, n, pos)
  BY <1>3, <1>4, AtPositions
<1>8. PICK n \in Nat : \E pos \in [1 .. n -> I] : Lists(At(s, I), s, I, n, pos)
  BY <1>7
<1>9. PICK pos \in [1 .. n -> I] : Lists(At(s, I), s, I, n, pos)
  BY <1>8
<1>10. /\ own = [k \in 1 .. n |-> s[pos[k]]]
       /\ \A k, m \in 1 .. n : k < m => pos[k] < pos[m]
       /\ \A i \in I : \E k \in 1 .. n : pos[k] = i
  BY <1>1, <1>9 DEF Lists
<1>11. \A k \in 1 .. n : pos[k] \in I /\ pos[k] \in 1 .. Len(s) /\ own[k] = s[pos[k]] /\ own[k] \in S
  BY <1>3, <1>5, <1>10
<1>12. own \in Seq(S) /\ Len(own) = n
  <2>1. own = [k \in 1 .. n |-> own[k]]
    BY <1>10
  <2>2. own \in [1 .. n -> S]
    BY <1>11, <2>1
  <2> QED BY <2>2
<1>13. \A x \in S : \E k \in 1 .. n : own[k] = x
  <2> TAKE x \in S
  <2>1. PICK i \in I : s[i] = x
    BY <1>6
  <2>2. PICK k \in 1 .. n : pos[k] = i
    BY <1>10
  <2> QED BY <1>11, <2>1, <2>2
<1>14. \A k, m \in 1 .. n : own[k] = own[m] => k = m
  <2> SUFFICES ASSUME NEW k \in 1 .. n, NEW m \in 1 .. n, own[k] = own[m]
               PROVE  k = m
    OBVIOUS
  <2>1. s[pos[k]] = s[pos[m]]
    BY <1>11
  <2>2. pos[k] = pos[m]
    BY <1>11, <2>1 DEF Ranks
  <2>3. pos[k] \in Int /\ pos[m] \in Int
    BY <1>11
  <2> QED BY <1>10, <2>2, <2>3
<1>15. Descends(own)
  <2> SUFFICES ASSUME NEW k \in 1 .. n, NEW m \in 1 .. n, k < m
               PROVE  own[m].weight <= own[k].weight
    BY <1>12 DEF Descends
  <2>1. pos[k] < pos[m] /\ pos[k] \in 1 .. Len(s) /\ pos[m] \in 1 .. Len(s)
    BY <1>10, <1>11
  <2>2. s[pos[m]].weight <= s[pos[k]].weight
    BY <2>1 DEF Ranks, Descends
  <2> QED BY <1>11, <2>2
<1>16. \A x \in S : x.weight \in Nat
  BY DEF Ranks, S
<1> QED BY <1>12, <1>13, <1>14, <1>15, <1>16 DEF Ranks, own, S

\* Among more elements, the one in each place is no lighter.
LEMMA MoreWeighsMore ==
  ASSUME NEW R, NEW S, R \subseteq S, NEW s, NEW t, Ranks(s, R), Ranks(t, S)
  PROVE  /\ Len(s) \in Nat /\ Len(t) \in Nat /\ Len(s) <= Len(t)
         /\ \A k \in 1 .. Len(s) : s[k].weight \in Nat /\ s[k].weight <= t[k].weight
         /\ \A k \in 1 .. Len(t) : t[k].weight \in Nat
<1>1. /\ Len(s) \in Nat /\ Len(t) \in Nat
      /\ \A k \in 1 .. Len(s) : s[k] \in R /\ s[k].weight \in Nat
      /\ \A k \in 1 .. Len(t) : t[k] \in S /\ t[k].weight \in Nat
  BY DEF Ranks
<1> DEFINE Spot(k) == CHOOSE i \in 1 .. Len(t) : t[i] = s[k]
<1>2. \A k \in 1 .. Len(s) : Spot(k) \in 1 .. Len(t) /\ t[Spot(k)] = s[k]
  <2> TAKE k \in 1 .. Len(s)
  <2>1. s[k] \in S
    BY <1>1
  <2>2. \E i \in 1 .. Len(t) : t[i] = s[k]
    BY <2>1 DEF Ranks
  <2> QED BY <2>2
<1> HIDE DEF Spot
<1>3. \A k, m \in 1 .. Len(s) : Spot(k) = Spot(m) => k = m
  <2> SUFFICES ASSUME NEW k \in 1 .. Len(s), NEW m \in 1 .. Len(s), Spot(k) = Spot(m)
               PROVE  k = m
    OBVIOUS
  <2>1. s[k] = s[m]
    BY <1>2
  <2> QED BY <2>1 DEF Ranks
<1>4. \A n \in Nat : IsFiniteSet(1 .. n) /\ Cardinality(1 .. n) = n
  BY FS_Interval
<1>5. ASSUME NEW k \in 1 .. Len(s), NEW m \in Nat, m < k
      PROVE  \E j \in 1 .. k : ~(Spot(j) <= m)
  <2> SUFFICES ASSUME \A j \in 1 .. k : Spot(j) <= m
               PROVE  FALSE
    OBVIOUS
  <2> DEFINE f == [j \in 1 .. k |-> Spot(j)]
  <2>1. k \in Nat /\ \A j \in 1 .. k : j \in 1 .. Len(s)
    BY <1>1
  <2>2. f \in [1 .. k -> 1 .. m]
    BY <1>1, <1>2, <2>1
  <2>3. \A i, j \in 1 .. k : f[i] = f[j] => i = j
    BY <1>3, <2>1
  <2>4. /\ IsFiniteSet(1 .. k) /\ IsFiniteSet(1 .. m)
        /\ Cardinality(1 .. m) < Cardinality(1 .. k)
    BY <1>4, <1>5, <2>1
  <2> HIDE DEF f
  <2>5. \E i, j \in 1 .. k : i # j /\ f[i] = f[j]
    BY <2>2, <2>4, FS_PigeonHole
  <2> QED BY <2>3, <2>5
<1>6. Len(s) <= Len(t)
  <2> SUFFICES ASSUME Len(t) < Len(s)
               PROVE  FALSE
    BY <1>1
  <2>1. Len(s) \in 1 .. Len(s)
    BY <1>1
  <2>2. \E j \in 1 .. Len(s) : ~(Spot(j) <= Len(t))
    BY <1>1, <1>5, <2>1
  <2> QED BY <1>1, <1>2, <2>2
<1>7. ASSUME NEW k \in 1 .. Len(s)
      PROVE  s[k].weight <= t[k].weight
  <2>1. k - 1 \in Nat /\ k - 1 < k /\ k \in 1 .. Len(t)
    BY <1>1, <1>6
  <2>2. PICK j \in 1 .. k : ~(Spot(j) <= k - 1)
    BY <1>5, <2>1
  <2>3. j \in 1 .. Len(s) /\ j <= k
    BY <1>1
  <2>4. Spot(j) \in 1 .. Len(t) /\ t[Spot(j)] = s[j] /\ k <= Spot(j)
    BY <1>1, <1>2, <2>2, <2>3
  <2>5. s[k].weight <= s[j].weight
    <3>1. CASE j = k
      BY <1>1, <3>1
    <3>2. CASE j < k
      BY <2>3, <3>2 DEF Ranks, Descends
    <3> QED BY <2>3, <3>1, <3>2
  <2>6. t[Spot(j)].weight <= t[k].weight
    <3>1. CASE Spot(j) = k
      BY <1>1, <2>1, <3>1
    <3>2. CASE k < Spot(j)
      BY <2>1, <2>4, <3>2 DEF Ranks, Descends
    <3> QED BY <2>1, <2>4, <3>1, <3>2
  <2>7. s[k].weight \in Nat /\ s[j].weight \in Nat /\ t[k].weight \in Nat
    BY <1>1, <2>1, <2>3
  <2> QED BY <2>4, <2>5, <2>6, <2>7
<1> QED BY <1>1, <1>6, <1>7

\* Dividing keeps the order.
LEMMA QuotientsFollow ==
  ASSUME NEW a \in Nat, NEW b \in Nat, a <= b, NEW d \in Nat, d > 0
  PROVE  a \div d \in Nat /\ b \div d \in Nat /\ a \div d <= b \div d
<1> DEFINE p == a \div d
           q == b \div d
<1>1. p \in Int /\ q \in Int /\ a = d * p + (a % d) /\ b = d * q + (b % d)
      /\ a % d \in 0 .. d - 1 /\ b % d \in 0 .. d - 1
  OBVIOUS
<1> DEFINE u == a % d
           v == b % d
<1>2. u \in Int /\ v \in Int /\ 0 <= u /\ u < d /\ 0 <= v /\ v < d
  BY <1>1
<1>3. a = d * p + u /\ b = d * q + v
  BY <1>1
<1> HIDE DEF p, q, u, v
<1>4. \A x, y \in Int : x > y => d * x >= d * y + d
  OBVIOUS
<1>5. d * p \in Int /\ d * q \in Int /\ d * 0 = 0 /\ d * (-1) = 0 - d
  BY <1>1
<1>6. p >= 0
  BY <1>1, <1>2, <1>3, <1>4, <1>5
<1>7. q >= 0
  BY <1>1, <1>2, <1>3, <1>4, <1>5
<1>8. p <= q
  BY <1>1, <1>2, <1>3, <1>4, <1>5
<1> QED BY <1>1, <1>6, <1>7, <1>8 DEF p, q

\* What an indicator counts for follows its weight.
LEMMA DecayFollows ==
  ASSUME NEW v \in Nat, NEW w \in Nat, v <= w, NEW n \in Nat, n > 0
  PROVE  Decayed(v, n) \in Nat /\ Decayed(w, n) \in Nat /\ Decayed(v, n) <= Decayed(w, n)
<1>1. CASE n = 1
  BY <1>1 DEF Decayed
<1>2. CASE n = 2
  BY <1>2 DEF Decayed
<1>3. CASE n = 3
  BY <1>3 DEF Decayed
<1>4. CASE n > 3
  <2>1. 100 * n \in Nat /\ 100 * n > 0 /\ v * 15 \in Nat /\ w * 15 \in Nat /\ v * 15 <= w * 15
    OBVIOUS
  <2>2. /\ (v * 15) \div (100 * n) \in Nat /\ (w * 15) \div (100 * n) \in Nat
        /\ (v * 15) \div (100 * n) <= (w * 15) \div (100 * n)
    BY <2>1, QuotientsFollow
  <2>3. n # 1 /\ n # 2 /\ n # 3
    BY <1>4
  <2>4. \A x : Decayed(x, n) = (x * 15) \div (100 * n)
    BY <2>3 DEF Decayed
  <2> QED BY <2>2, <2>4
<1> QED BY <1>1, <1>2, <1>3, <1>4

\* Of more, a category adds up to no less.
LEMMA TotalsFollow ==
  ASSUME NEW R, NEW S, R \subseteq S, NEW s, NEW t, Ranks(s, R), Ranks(t, S),
         NEW f, NEW g, Totals(f, s, Len(s)), Totals(g, t, Len(t))
  PROVE  f[Len(s)] \in Nat /\ g[Len(t)] \in Nat /\ f[Len(s)] <= g[Len(t)]
<1> DEFINE a == Len(s)
           b == Len(t)
           Less == {k \in 0 .. a : f[k] \in Nat /\ g[k] \in Nat /\ f[k] <= g[k]}
           Grown == {k \in 0 .. b : k >= a => g[k] \in Nat /\ g[a] <= g[k]}
<1>1. /\ a \in Nat /\ b \in Nat /\ a <= b
      /\ \A k \in 1 .. a : s[k].weight \in Nat /\ s[k].weight <= t[k].weight
      /\ \A k \in 1 .. b : t[k].weight \in Nat
  BY MoreWeighsMore
<1>2. /\ f[0] = 0
      /\ \A k \in 1 .. a : f[k] = f[k - 1] + Decayed(s[k].weight, k)
  <2>1. f = [n \in 0 .. a |-> IF n = 0 THEN 0 ELSE f[n - 1] + Decayed(s[n].weight, n)]
    BY DEF Totals
  <2> HIDE DEF a
  <2>2. 0 \in 0 .. a /\ \A k \in 1 .. a : k \in 0 .. a /\ k # 0
    BY <1>1
  <2> QED BY <2>1, <2>2
<1>3. /\ g[0] = 0
      /\ \A k \in 1 .. b : g[k] = g[k - 1] + Decayed(t[k].weight, k)
  <2>1. g = [n \in 0 .. b |-> IF n = 0 THEN 0 ELSE g[n - 1] + Decayed(t[n].weight, n)]
    BY DEF Totals
  <2> HIDE DEF b
  <2>2. 0 \in 0 .. b /\ \A k \in 1 .. b : k \in 0 .. b /\ k # 0
    BY <1>1
  <2> QED BY <2>1, <2>2
<1> HIDE DEF a, b
<1>4. ASSUME NEW k \in 0 .. a - 1, k \in Less
      PROVE  k + 1 \in Less
  <2>1. k + 1 \in 1 .. a /\ k + 1 \in 1 .. b /\ (k + 1) - 1 = k /\ k + 1 \in Nat /\ k + 1 > 0
    BY <1>1
  <2>2. /\ s[k + 1].weight \in Nat /\ t[k + 1].weight \in Nat
        /\ s[k + 1].weight <= t[k + 1].weight
    BY <1>1, <2>1
  <2> DEFINE x == Decayed(s[k + 1].weight, k + 1)
             y == Decayed(t[k + 1].weight, k + 1)
  <2>3. x \in Nat /\ y \in Nat /\ x <= y
    BY <2>1, <2>2, DecayFollows
  <2>4. f[k + 1] = f[k] + x /\ g[k + 1] = g[k] + y
    BY <1>2, <1>3, <2>1
  <2>5. f[k] \in Nat /\ g[k] \in Nat /\ f[k] <= g[k]
    BY <1>4
  <2> HIDE DEF x, y
  <2>6. k + 1 \in 0 .. a
    BY <1>1
  <2>7. f[k + 1] \in Nat /\ g[k + 1] \in Nat /\ f[k + 1] <= g[k + 1]
    <3>1. f[k] + x \in Nat /\ g[k] + y \in Nat /\ f[k] + x <= g[k] + y
      BY <2>3, <2>5
    <3> QED BY <2>4, <3>1, Zenon
  <2> QED BY <2>6, <2>7
<1>5. 0 \in Less
  BY <1>1, <1>2, <1>3
<1>6. a \in 0 .. a
  BY <1>1
<1>7. f[a] \in Nat /\ g[a] \in Nat /\ f[a] <= g[a]
  <2> HIDE DEF Less
  <2>1. \A k \in 0 .. a : k \in Less
    BY <1>1, <1>4, <1>5, UpTo
  <2>2. a \in Less
    BY <1>6, <2>1
  <2> QED BY <2>2 DEF Less
<1>8. ASSUME NEW k \in 0 .. b - 1, k \in Grown
      PROVE  k + 1 \in Grown
  <2>1. k + 1 \in 1 .. b /\ (k + 1) - 1 = k /\ k + 1 \in Nat /\ k + 1 > 0 /\ k + 1 \in 0 .. b
    BY <1>1
  <2>2. t[k + 1].weight \in Nat /\ t[k + 1].weight <= t[k + 1].weight
    BY <1>1, <2>1
  <2>3. Decayed(t[k + 1].weight, k + 1) \in Nat
    BY <2>1, <2>2, DecayFollows
  <2>4. g[k + 1] = g[k] + Decayed(t[k + 1].weight, k + 1)
    BY <1>3, <2>1
  <2>5. CASE k + 1 < a
    BY <1>1, <2>1, <2>5
  <2>6. CASE k + 1 = a
    BY <1>7, <2>1, <2>6
  <2>7. CASE k + 1 > a
    <3>1. k >= a
      BY <1>1, <2>7
    <3>2. g[k] \in Nat /\ g[a] <= g[k]
      BY <1>8, <3>1
    <3> DEFINE y == Decayed(t[k + 1].weight, k + 1)
    <3>3. y \in Nat /\ g[k + 1] = g[k] + y
      BY <2>3, <2>4
    <3> HIDE DEF y
    <3>4. g[k + 1] \in Nat /\ g[a] <= g[k + 1]
      BY <1>7, <3>2, <3>3
    <3> QED BY <2>1, <3>4
  <2> QED BY <1>1, <2>5, <2>6, <2>7
<1>9. 0 \in Grown
  BY <1>1, <1>3, <1>7
<1>10. b \in 0 .. b
  BY <1>1
<1>11. g[b] \in Nat /\ g[a] <= g[b]
  <2> HIDE DEF Grown
  <2>1. \A k \in 0 .. b : k \in Grown
    BY <1>1, <1>8, <1>9, UpTo
  <2>2. b \in Grown
    BY <1>10, <2>1
  <2> QED BY <1>1, <2>2 DEF Grown
<1> QED BY <1>7, <1>11 DEF a, b
\* Of more, a category contributes no less.
LEMMA ContributionFollows ==
  ASSUME NEW R, NEW S, R \subseteq S, NEW s, NEW t, Ranks(s, R), Ranks(t, S),
         NEW c, Ceiling[c] \in Nat
  PROVE  /\ Contribution(s, c) \in Nat /\ Contribution(t, c) \in Nat
         /\ Contribution(s, c) <= Contribution(t, c)
<1> DEFINE v == Family(s, c)
           w == Family(t, c)
           V == {x \in R : CategoryOf(x) = c}
           W == {x \in S : CategoryOf(x) = c}
<1>1. Ranks(v, V) /\ Ranks(w, W) /\ V \subseteq W
  BY FamilyIsRanked
<1> HIDE DEF v, w, V, W
<1>2. Len(v) \in Nat /\ Len(w) \in Nat
  BY <1>1 DEF Ranks
<1>3. \E f : Totals(f, v, Len(v)) /\ Contribution(s, c) = Min({f[Len(v)], Ceiling[c]})
  BY <1>2, ContributionIs DEF v
<1>4. \E g : Totals(g, w, Len(w)) /\ Contribution(t, c) = Min({g[Len(w)], Ceiling[c]})
  BY <1>2, ContributionIs DEF w
<1>5. PICK f : Totals(f, v, Len(v)) /\ Contribution(s, c) = Min({f[Len(v)], Ceiling[c]})
  BY <1>3
<1>6. PICK g : Totals(g, w, Len(w)) /\ Contribution(t, c) = Min({g[Len(w)], Ceiling[c]})
  BY <1>4
<1>7. f[Len(v)] \in Nat /\ g[Len(w)] \in Nat /\ f[Len(v)] <= g[Len(w)]
  BY <1>1, <1>5, <1>6, TotalsFollow
<1>8. /\ Contribution(s, c) = IF f[Len(v)] <= Ceiling[c] THEN f[Len(v)] ELSE Ceiling[c]
      /\ Contribution(t, c) = IF g[Len(w)] <= Ceiling[c] THEN g[Len(w)] ELSE Ceiling[c]
  BY <1>5, <1>6, <1>7, MinOfTwo
<1> QED BY <1>7, <1>8

\* More evidence never scores less.
LEMMA ScoreFollows ==
  ASSUME NEW R, NEW S, R \subseteq S, IsFiniteSet(S), NEW s, NEW t, Ranks(s, R), Ranks(t, S)
  PROVE  /\ WeightedScore(s) \in Int /\ WeightedScore(t) \in Int
         /\ WeightedScore(s) <= WeightedScore(t)
<1> DEFINE Bonus(n) == Max({0, Min({n - 1, 3})})
           Families(u) == {CategoryOf(i) : i \in Range(u)}
           Sum(u) == Contribution(u, "authentication") + Contribution(u, "identity")
                     + Contribution(u, "url") + Contribution(u, "attachment")
                     + Contribution(u, "content") + Contribution(u, "injection")
<1>1. \A u : WeightedScore(u) = Min({Sum(u) + Bonus(Cardinality(Families(u))) * 3120, Available})
  BY DEF WeightedScore
<1>2. Sum(s) \in Nat /\ Sum(t) \in Nat /\ Sum(s) <= Sum(t)
  <2>1. \A c \in DOMAIN Ceiling : Ceiling[c] \in Nat
    BY DEF Ceiling
  <2>2. \A c \in DOMAIN Ceiling :
           /\ Contribution(s, c) \in Nat /\ Contribution(t, c) \in Nat
           /\ Contribution(s, c) <= Contribution(t, c)
    BY <2>1, ContributionFollows
  <2>3. {"authentication", "identity", "url", "attachment", "content", "injection"} \subseteq DOMAIN Ceiling
    BY DEF Ceiling
  <2>4. \A c \in {"authentication", "identity", "url", "attachment", "content", "injection"} :
           /\ Contribution(s, c) \in Nat /\ Contribution(t, c) \in Nat
           /\ Contribution(s, c) <= Contribution(t, c)
    BY <2>2, <2>3
  <2> QED BY <2>4
<1> HIDE DEF Sum
<1>3. Families(s) \subseteq Families(t) /\ IsFiniteSet(Families(t))
  <2>1. Range(s) = R /\ Range(t) = S
    BY RangeOfRanks
  <2> DEFINE f == [x \in S |-> CategoryOf(x)]
  <2>2. IsFiniteSet({f[x] : x \in S})
    <3> HIDE DEF f
    <3> QED BY ImageIsFinite
  <2>3. Families(t) \in SUBSET {f[x] : x \in S}
    BY <2>1
  <2>4. IsFiniteSet(Families(t))
    <3> HIDE DEF Families, f
    <3> QED BY <2>2, <2>3, FS_Subset
  <2> QED BY <2>1, <2>4
<1> DEFINE m == Cardinality(Families(s))
           n == Cardinality(Families(t))
<1>4. m \in Nat /\ n \in Nat /\ m <= n
  <2> HIDE DEF Families
  <2> QED BY <1>3, FS_Subset, FS_CardinalityType
<1>5. WeightedScore(s) = Min({Sum(s) + Bonus(m) * 3120, Available})
      /\ WeightedScore(t) = Min({Sum(t) + Bonus(n) * 3120, Available})
  <2> HIDE DEF Bonus, Families
  <2> QED BY <1>1, Zenon
<1> HIDE DEF m, n, Families
<1>6. \A k \in Nat : Bonus(k) = IF k = 0 THEN 0 ELSE IF k <= 4 THEN k - 1 ELSE 3
  <2> TAKE k \in Nat
  <2>1. Min({k - 1, 3}) = IF k - 1 <= 3 THEN k - 1 ELSE 3
    BY MinOfTwo
  <2> DEFINE l == Min({k - 1, 3})
  <2>2. l \in Int
    BY <2>1
  <2> HIDE DEF l
  <2>3. Max({0, l}) = IF 0 >= l THEN 0 ELSE l
    BY <2>2, MaxOfTwo
  <2> QED BY <2>1, <2>3 DEF l
<1> HIDE DEF Bonus
<1>7. Bonus(m) \in Nat /\ Bonus(n) \in Nat /\ Bonus(m) <= Bonus(n)
  BY <1>4, <1>6
<1> DEFINE x == Sum(s) + Bonus(m) * 3120
           y == Sum(t) + Bonus(n) * 3120
<1>8. x \in Int /\ y \in Int /\ x <= y /\ Available \in Int
  BY <1>2, <1>7 DEF Available
<1>9. WeightedScore(s) = Min({x, Available}) /\ WeightedScore(t) = Min({y, Available})
  BY <1>5
<1> HIDE DEF x, y
<1> QED BY <1>8, <1>9, MinOfTwo

\* A higher score has no lower band.
LEMMA BandFollows ==
  ASSUME NEW v \in Int, NEW w \in Int, v <= w
  PROVE  SeverityOrder[BandFor(v)] <= SeverityOrder[BandFor(w)]
BY SeverityIsOrdered DEF BandFor, Available, Strength

\* More evidence never has a lower floor.
LEMMA FloorFollows ==
  ASSUME NEW R, NEW S, R \subseteq S, IsFiniteSet(S), NEW s, NEW t, Ranks(s, R), Ranks(t, S),
         \A x \in S : x.floor \in Strong
  PROVE  SeverityOrder[Floor(s)] <= SeverityOrder[Floor(t)]
<1> DEFINE Claims(u) == {BandFor(WeightedScore(u))} \cup {i.floor : i \in Range(u)}
<1>1. Range(s) \subseteq Range(t) /\ Range(t) \subseteq S
  BY RangeOfRanks
<1>2. Claims(s) \in SUBSET Severity /\ Claims(t) \in SUBSET Severity /\ Claims(s) # {} /\ Claims(t) # {}
  BY <1>1, BandIsASeverity, SeverityNumbers
<1>3. \A a \in Claims(s) : \E b \in Claims(t) : SeverityOrder[a] <= SeverityOrder[b]
  <2>1. SeverityOrder[BandFor(WeightedScore(s))] <= SeverityOrder[BandFor(WeightedScore(t))]
    BY ScoreFollows, BandFollows
  <2>2. \A i \in Range(s) : i.floor \in Claims(t) /\ i.floor \in Severity
    BY <1>1, SeverityNumbers
  <2>3. \A a \in Severity : SeverityOrder[a] <= SeverityOrder[a]
    BY SeverityNumbers
  <2> QED BY <2>1, <2>2, <2>3
<1>4. Floor(s) = Worst(Claims(s)) /\ Floor(t) = Worst(Claims(t))
  BY DEF Floor
<1> HIDE DEF Claims
<1>5. /\ Worst(Claims(s)) \in Claims(s) /\ Worst(Claims(t)) \in Claims(t)
      /\ \A b \in Claims(t) : SeverityOrder[b] <= SeverityOrder[Worst(Claims(t))]
  BY <1>2, WorstIsWorst
<1>6. PICK b \in Claims(t) : SeverityOrder[Worst(Claims(s))] <= SeverityOrder[b]
  BY <1>3, <1>5
<1>7. \A a \in Severity : SeverityOrder[a] \in 0 .. 4
  BY SeverityNumbers
<1>8. /\ SeverityOrder[Worst(Claims(s))] \in Int /\ SeverityOrder[b] \in Int
      /\ SeverityOrder[Worst(Claims(t))] \in Int
  BY <1>2, <1>5, <1>7
<1> QED BY <1>4, <1>5, <1>6, <1>8

----------------------------------------------------------------------------
(* The order the model proposes. *)

\* A place of its own for every indicator, whatever numbers the model names.
LEMMA MentionedOnce ==
  ASSUME NEW N \in Nat, NEW named \in Seq(Nat)
  PROVE  /\ \A n \in 1 .. N : Mentioned(named, n) \in Int
         /\ \A j, k \in 1 .. N : Mentioned(named, j) = Mentioned(named, k) => j = k
<1> DEFINE At1(n) == {i \in 1 .. Len(named) : named[i] = n}
           First(n) == SelectInSeq(named, LAMBDA k : k = n)
<1>1. Len(named) \in Nat
  OBVIOUS
<1>2. ASSUME NEW n \in 1 .. N
      PROVE  \/ First(n) = 0 /\ Mentioned(named, n) = Len(named) + n
             \/ /\ First(n) \in 1 .. Len(named) /\ named[First(n)] = n
                /\ Mentioned(named, n) = First(n)
  <2>1. First(n) = IF At1(n) # {} THEN Min(At1(n)) ELSE 0
    BY DEF SelectInSeq
  <2>2. Mentioned(named, n) = IF First(n) = 0 THEN Len(named) + n ELSE First(n)
    BY DEF Mentioned
  <2>3. At1(n) # {} => Min(At1(n)) \in At1(n)
    <3>1. At1(n) \in SUBSET (1 .. Len(named)) /\ At1(n) \in SUBSET Int
      OBVIOUS
    <3>2. IsFiniteSet(1 .. Len(named))
      BY <1>1, FS_Interval
    <3> HIDE DEF At1
    <3> QED BY <3>1, <3>2, FS_Subset, MinIsElement
  <2> HIDE DEF First
  <2> QED BY <1>1, <2>1, <2>2, <2>3
<1> HIDE DEF First
<1>3. \A n \in 1 .. N : Mentioned(named, n) \in Int
  BY <1>1, <1>2
<1>4. ASSUME NEW j \in 1 .. N, NEW k \in 1 .. N, Mentioned(named, j) = Mentioned(named, k)
      PROVE  j = k
  BY <1>1, <1>2, <1>4
<1> QED BY <1>3, <1>4

\* What the model makes of an arrangement has the same indicators, each once.
LEMMA ReconcileArranges ==
  ASSUME NEW E, IsFiniteSet(E), NEW s, Arranges(s, E), NEW named \in Seq(Nat)
  PROVE  Arranges(Reconcile(s, named), E)
<1> DEFINE N == Cardinality(E)
           D == 1 .. N
           key == [n \in D |-> Mentioned(named, n)]
           Chosen(k) == CHOOSE n \in D : Place(D, key, n) = k - 1
           r == [k \in D |-> s[Chosen(k)]]
<1>1. /\ N \in Nat /\ s \in Seq(E) /\ Len(s) = N /\ DOMAIN s = D
      /\ \A x \in E : \E i \in D : s[i] = x
      /\ \A i, j \in D : s[i] = s[j] => i = j
  BY FS_CardinalityType DEF Arranges
<1>2. IsFiniteSet(D) /\ Cardinality(D) = N
  BY <1>1, FS_Interval
<1>3. key \in [D -> Int] /\ \A j, k \in D : key[j] = key[k] => j = k
  <2>1. /\ \A n \in 1 .. N : Mentioned(named, n) \in Int
        /\ \A j, k \in 1 .. N : Mentioned(named, j) = Mentioned(named, k) => j = k
    <3> HIDE DEF N
    <3> QED BY <1>1, MentionedOnce
  <2> QED BY <2>1
<1>4. \A n \in D : Cardinality({j \in D : Mentioned(named, j) < Mentioned(named, n)}) = Place(D, key, n)
  <2> TAKE n \in D
  <2>1. {j \in D : Mentioned(named, j) < Mentioned(named, n)} = {j \in D : key[j] < key[n]}
    OBVIOUS
  <2> HIDE DEF key
  <2> QED BY <2>1 DEF Place
<1>5. Reconcile(s, named) = r
  <2>1. \A k : (CHOOSE n \in D : Cardinality({j \in D : Mentioned(named, j) < Mentioned(named, n)}) = k - 1)
               = Chosen(k)
    <3> HIDE DEF key, D
    <3> QED BY <1>4
  <2> HIDE DEF key, D, Chosen
  <2>2. Reconcile(s, named)
        = [k \in D |-> s[CHOOSE n \in D :
              Cardinality({j \in D : Mentioned(named, j) < Mentioned(named, n)}) = k - 1]]
    BY <1>1 DEF Reconcile
  <2> QED BY <2>1, <2>2
<1> HIDE DEF key, N
<1>6. \A n \in D : Place(D, key, n) \in 0 .. N - 1
  <2> HIDE DEF D
  <2> QED BY <1>2, <1>3, PlacesFollowKeys
<1>7. \A n \in 0 .. N - 1 :
         \E x \in D : Place(D, key, x) = n /\ \A y \in D : Place(D, key, y) = n => y = x
  <2> HIDE DEF D
  <2> QED BY <1>2, <1>3, PlacesAreTaken
<1> HIDE DEF D
<1>8. \A k \in D : k - 1 \in 0 .. N - 1
  BY <1>1 DEF D
<1>9. \A k \in D : Chosen(k) \in D /\ Place(D, key, Chosen(k)) = k - 1
  BY <1>7, <1>8
<1>10. \A n \in D : \E k \in D : Chosen(k) = n
  <2> TAKE n \in D
  <2> DEFINE k == Place(D, key, n) + 1
  <2>1. k \in D /\ k - 1 = Place(D, key, n)
    BY <1>1, <1>6 DEF D
  <2>2. Place(D, key, Chosen(k)) = Place(D, key, n) /\ Chosen(k) \in D
    BY <1>9, <2>1
  <2> HIDE DEF Chosen
  <2>3. Chosen(k) = n
    BY <1>6, <1>7, <2>2
  <2> QED BY <2>1, <2>3
<1> HIDE DEF Chosen
<1>11. \A j, k \in D : Chosen(j) = Chosen(k) => j = k
  BY <1>1, <1>9 DEF D
<1>12. r \in Seq(E) /\ Len(r) = N
  <2>1. \A n \in D : s[n] \in E
    BY <1>1 DEF D
  <2>2. r \in [D -> E]
    BY <1>9, <2>1
  <2> HIDE DEF r
  <2> QED BY <1>1, <2>2 DEF D
<1>13. \A x \in E : \E k \in D : r[k] = x
  <2> TAKE x \in E
  <2>1. PICK n \in D : s[n] = x
    BY <1>1
  <2>2. PICK k \in D : Chosen(k) = n
    BY <1>10
  <2>3. r[k] = s[n]
    BY <2>2
  <2> QED BY <2>1, <2>3
<1>14. \A j, k \in D : r[j] = r[k] => j = k
  BY <1>1, <1>9, <1>11
<1> HIDE DEF r
<1> QED BY <1>1, <1>5, <1>12, <1>13, <1>14 DEF Arranges, D, N

----------------------------------------------------------------------------
(* The hosts an indicator names. *)

\* None of the indicators D names two hosts.
Brief(D) == \A i \in D : Len(i.hosts) # 2

\* What names no host, or one, is brief.
LEMMA BriefParts ==
  /\ Brief({})
  /\ \A C, D : Brief(C) /\ Brief(D) => Brief(C \cup D)
  /\ \A S : (\A D \in S : Brief(D)) => Brief(UNION S)
  /\ \A c, rule, part, at, disc :
        /\ Brief(When(c, FoundWith(rule, part, at, disc, <<>>)))
        /\ \A h : Brief(When(c, FoundWith(rule, part, at, disc, <<h>>)))
<1>1. \A rule, part, at, disc, hosts : FoundWith(rule, part, at, disc, hosts).hosts = hosts
  BY DEF FoundWith, Indicator
<1>2. Len(<<>>) # 2 /\ \A h : Len(<<h>>) # 2
  OBVIOUS
<1>3. \A c, i : Len(i.hosts) # 2 => Brief(When(c, i))
  BY DEF Brief, When
<1>4. ASSUME NEW c, NEW rule, NEW part, NEW at, NEW disc
      PROVE  /\ Brief(When(c, FoundWith(rule, part, at, disc, <<>>)))
             /\ \A h : Brief(When(c, FoundWith(rule, part, at, disc, <<h>>)))
  BY <1>1, <1>2, <1>3
<1>5. /\ Brief({})
      /\ \A C, D : Brief(C) /\ Brief(D) => Brief(C \cup D)
      /\ \A S : (\A D \in S : Brief(D)) => Brief(UNION S)
  BY DEF Brief
<1> QED BY <1>4, <1>5

\* The lookups name no host, or the one that a page came from.
LEMMA LookupsAreBrief ==
  ASSUME NEW m
  PROVE  /\ \A D \in DnsSignals(m) : Brief(D)
         /\ \A D \in AgeSignals(m) : Brief(D)
         /\ \A D \in FetchSignals(m) : Brief(D)
<1>1. \A c, rule, header : Brief(When(c, InHeader(rule, header, <<>>)))
  BY BriefParts DEF InHeader, Found
<1>2. ASSUME NEW D \in DnsSignals(m)
      PROVE  Brief(D)
  <2>1. \A c, d : Brief(When(c, InHeader("enrich-spf-claim-unsupported", "auth", <<>>))
                        \cup When(d, InHeader("enrich-no-dmarc-policy", "dns", <<>>)))
    BY <1>1, BriefParts
  <2>2. CASE D = {}
    BY <2>2, BriefParts
  <2>3. CASE D # {}
    BY <2>1, <2>3 DEF DnsSignals
  <2> QED BY <2>2, <2>3
<1>3. ASSUME NEW D \in AgeSignals(m)
      PROVE  Brief(D)
  <2> DEFINE young == InHeader("enrich-young-sender-domain", "from", <<>>)
  <2>1. young.hosts = <<>>
    BY DEF InHeader, Found, FoundWith, Indicator
  <2>2. Len(<<>>) # 2
    OBVIOUS
  <2>3. D = {} \/ D = {young}
    BY DEF AgeSignals
  <2> HIDE DEF young
  <2> QED BY <2>1, <2>2, <2>3 DEF Brief
<1>4. \A url, form, chain : Brief(PageSignals(url, form, chain))
  <2>1. \A c, rule, part, h : Brief(When(c, Found(rule, part, 0, <<h>>)))
    BY BriefParts DEF Found
  <2> QED BY <2>1, BriefParts DEF PageSignals
<1>5. ASSUME NEW D \in FetchSignals(m)
      PROVE  Brief(D)
  <2>1. CASE ~submitted.fetch
    BY <2>1, BriefParts DEF FetchSignals
  <2>2. CASE submitted.fetch
    <3>1. PICK targets \in FetchTargets(m) :
             \E form, chain \in [targets -> BOOLEAN] :
                D = UNION {PageSignals(m.links[i].url, form[i], chain[i]) : i \in targets}
      BY <2>2 DEF FetchSignals
    <3>2. PICK form, chain \in [targets -> BOOLEAN] :
             D = UNION {PageSignals(m.links[i].url, form[i], chain[i]) : i \in targets}
      BY <3>1
    <3>3. \A E \in {PageSignals(m.links[i].url, form[i], chain[i]) : i \in targets} : Brief(E)
      BY <1>4
    <3> QED BY <3>2, <3>3, BriefParts
  <2> QED BY <2>1, <2>2
<1> QED BY <1>2, <1>3, <1>5

----------------------------------------------------------------------------
(* What an analysis has established at each step. *)

Analysing == {"detect", "enrich", "score", "reason", "emit_findings", "persist", "completed"}
Cap == Min({MaxIndicators, Len(detected)})
Ordering == IF answer = None THEN indicators ELSE Reconcile(indicators, answer.named)

Input == submitted \in Submissions /\ node \in Analysing \cup {"submitted", "refused", "failed"}
Read ==
  node \in Analysing => /\ Readable(message)
                        /\ submitted.what = "mail" => message = ParseEmailMime(submitted.mail)
Cut ==
  /\ detected = Sorted(Detect(message))
  /\ overflow = {Id(detected[i]) : i \in Cap + 1 .. Len(detected)}
Enriched == \E added : /\ Sound(message, added, Looked) /\ Brief(added)
                      /\ indicators = Merge(Before, added)
Asked == IF indicators = <<>> THEN answer = None ELSE answer \in Answers
Emitted == findings = <<PrimaryFinding(Ordering)>> \o InjectionFinding(Ordering)
Named == verdict = VerdictFor(Worst({findings[i].severity : i \in DOMAIN findings}))

Inv ==
  /\ Input /\ Read
  /\ node \in Analysing \ {"detect"} => Cut
  /\ node = "enrich" => indicators = Before
  /\ node \in Analysing \ {"detect", "enrich"} => Enriched
  /\ node \in {"reason", "emit_findings", "persist", "completed"} => floor = Floor(indicators)
  /\ node \in {"emit_findings", "persist", "completed"} => Asked
  /\ node \in {"persist", "completed"} => Emitted
  /\ node = "completed" => Named

\* Every step keeps it.
LEMMA Invariance == Spec => []Inv
<1>1. Init => Inv
  BY DEF Init, Inv, Input, Read, Analysing
<1>2. Inv /\ [Next]_vars => Inv'
  <2> SUFFICES ASSUME Inv, [Next]_vars
               PROVE  Inv'
    OBVIOUS
  <2>1. CASE Refuse
    BY <2>1 DEF Inv, Input, Read, Analysing, Refuse, Goes
  <2>2. CASE ParseFails
    BY <2>2 DEF Inv, Input, Read, Analysing, ParseFails, Goes
  <2>3. CASE Parse
    <3>1. node = "submitted" /\ node' = "detect" /\ submitted' = submitted /\ submitted \in Submissions
      BY <2>3 DEF Parse, Goes, Inv, Input
    <3>2. Readable(message')
      <4>1. CASE submitted.what = "mail" /\ message' = ParseEmailMime(submitted.mail)
        <5>1. submitted.mail \in Emails
          BY <3>1, <4>1, MailAssumption DEF Submissions
        <5> QED BY <4>1, <5>1, ParsedIsReadable
      <4>2. CASE submitted.what = "url" /\ IsAcceptedUrl(submitted.url)
                 /\ message' = UrlAsMessage(submitted.url)
        <5>1. submitted.url \in Urls /\ SplitHost(submitted.url) \in Hosts
          BY <3>1, <4>2, UrlAssumption DEF Submissions
        <5> QED BY <4>2, <5>1, UrlIsReadable
      <4> QED BY <2>3, <4>1, <4>2 DEF Parse
    <3>3. submitted.what = "mail" => message' = ParseEmailMime(submitted.mail)
      BY <2>3 DEF Parse
    <3> QED BY <3>1, <3>2, <3>3 DEF Inv, Input, Read, Analysing
  <2>4. CASE DetectIndicators
    <3>1. /\ node = "detect" /\ node' = "enrich" /\ submitted' = submitted /\ message' = message
          /\ detected' = Sorted(Detect(message))
          /\ indicators' = SubSeq(detected', 1, Cap')
          /\ overflow' = {Id(detected'[i]) : i \in Cap' + 1 .. Len(detected')}
      BY <2>4 DEF DetectIndicators, Goes, Cap
    <3> QED BY <3>1 DEF Inv, Input, Read, Cut, Analysing, Before, Cap
  <2>5. CASE Enrich
    <3>1. /\ node = "enrich" /\ node' = "score" /\ indicators = Before
          /\ UNCHANGED <<submitted, message, detected, overflow>>
      BY <2>5 DEF Enrich, Goes, Inv
    <3>2. Readable(message) /\ Cut
      BY <3>1 DEF Inv, Read, Analysing
    <3>3. PICK dns \in DnsSignals(message), age \in AgeSignals(message), pages \in FetchSignals(message) :
             indicators' = Merge(Before, dns \cup age \cup pages)
      BY <2>5, <3>1 DEF Enrich
    <3>4. Sound(message, dns \cup age \cup pages, Looked)
      BY <3>2, DnsIsSound, AgeIsSound, PagesAreSound, SoundParts
    <3>5. Before' = Before /\ Cap' = Cap
      BY <3>1 DEF Before, Cap
    <3>8. Brief(dns \cup age \cup pages)
      BY LookupsAreBrief, BriefParts
    <3>6. Enriched'
      BY <3>1, <3>3, <3>4, <3>5, <3>8 DEF Enriched
    <3>7. Cut'
      BY <3>1, <3>2, <3>5 DEF Cut
    <3> QED BY <3>1, <3>2, <3>6, <3>7 DEF Inv, Input, Read, Analysing
  <2>6. CASE EnrichRaises
    BY <2>6 DEF Inv, Input, Read, Analysing, EnrichRaises, Goes
  <2> DEFINE same == UNCHANGED <<submitted, message, detected, overflow, indicators>>
  <2>7. ASSUME same
        PROVE  /\ Before' = Before /\ Cut' = Cut /\ Enriched' = Enriched
               /\ (Floor(indicators))' = Floor(indicators)
    BY <2>7 DEF Before, Cut, Enriched, Cap
  <2> DEFINE told == message' = message /\ overflow' = overflow /\ floor' = floor /\ answer' = answer
  <2>14. ASSUME told, NEW o
         PROVE  (PrimaryFinding(o))' = PrimaryFinding(o) /\ (InjectionFinding(o))' = InjectionFinding(o)
    BY <2>14 DEF PrimaryFinding, InjectionFinding, Those
  <2>8. CASE ScoreIndicators
    <3>1. node = "score" /\ node' = "reason" /\ same /\ floor' = Floor(indicators)
      BY <2>8 DEF ScoreIndicators, Goes, kept
    <3> QED BY <2>7, <3>1 DEF Inv, Input, Read, Analysing
  <2>9. CASE Reason
    <3>1. node = "reason" /\ node' = "emit_findings" /\ same /\ floor' = floor /\ Asked'
      BY <2>9 DEF Reason, Goes, kept, Asked
    <3> QED BY <2>7, <3>1 DEF Inv, Input, Read, Analysing
  <2>10. CASE ReasonRaises
    BY <2>10 DEF Inv, Input, Read, Analysing, ReasonRaises, Goes
  <2>11. CASE EmitFindings
    <3>1. /\ node = "emit_findings" /\ node' = "persist" /\ same /\ floor' = floor /\ answer' = answer
          /\ findings' = <<PrimaryFinding(Ordering)>> \o InjectionFinding(Ordering)
      BY <2>11 DEF EmitFindings, Goes, kept, Ordering
    <3>2. Asked' = Asked /\ Ordering' = Ordering
      BY <3>1 DEF Asked, Ordering
    <3>3. Emitted'
      BY <3>1, <3>2, <2>14 DEF Emitted
    <3> QED BY <2>7, <3>1, <3>2, <3>3 DEF Inv, Input, Read, Analysing
  <2>12. CASE Persist
    <3>1. /\ node = "persist" /\ node' = "completed" /\ same /\ floor' = floor /\ answer' = answer
          /\ findings' = findings /\ Named'
      BY <2>12 DEF Persist, Goes, kept, Named
    <3>2. Asked' = Asked /\ Ordering' = Ordering
      BY <3>1 DEF Asked, Ordering
    <3>3. Emitted' = Emitted
      BY <3>1, <3>2, <2>14 DEF Emitted
    <3> QED BY <2>7, <3>1, <3>2, <3>3 DEF Inv, Input, Read, Analysing
  <2>13. CASE UNCHANGED vars
    <3>1. same /\ UNCHANGED <<node, floor, answer, findings, verdict>>
      BY <2>13 DEF vars, kept
    <3>2. /\ Asked' = Asked /\ Ordering' = Ordering /\ Named' = Named
          /\ Input' = Input /\ Read' = Read
      BY <3>1 DEF Asked, Ordering, Named, Input, Read
    <3>3. Emitted' = Emitted
      BY <3>1, <3>2, <2>14 DEF Emitted
    <3> QED BY <2>7, <3>1, <3>2, <3>3 DEF Inv
  <2> QED BY <2>1, <2>2, <2>3, <2>4, <2>5, <2>6, <2>8, <2>9, <2>10, <2>11, <2>12, <2>13 DEF Next
<1> QED BY <1>1, <1>2, PTL DEF Spec

----------------------------------------------------------------------------
(* The evidence. *)

\* What the rules found, and what of it is below the cap.
LEMMA KeptFacts ==
  ASSUME Readable(message), Cut
  PROVE  /\ Sound(message, Detect(message), Own) /\ Arranges(detected, Detect(message))
         /\ Len(detected) \in Nat /\ Cap \in 0 .. Len(detected) /\ (Len(detected) # 0 => Cap # 0)
         /\ Before \in Seq(Detect(message)) /\ Len(Before) = Cap
         /\ \A i \in 1 .. Cap : Before[i] = detected[i]
<1> DEFINE D == Detect(message)
<1>1. Sound(message, D, Own)
  BY DetectIsSound
<1>2. IsFiniteSet(D) /\ Comparable(D)
  <2>1. \A i \in D : i.rule \in Rules /\ i.weight \in Int /\ i.at \in Int
    BY <1>1 DEF Sound, Priced
  <2>2. \A rule \in Rules : Book[rule].place \in Int
    BY BookValues
  <2> QED BY <1>1, <2>1, <2>2 DEF Sound, Comparable
<1>3. Arranges(detected, D)
  BY <1>2, SortedArranges DEF Cut
<1> HIDE DEF D
<1>4. detected \in Seq(D) /\ Len(detected) \in Nat
  BY <1>3 DEF Arranges
<1>5. MaxIndicators \in Nat /\ MaxIndicators # 0
  BY LimitAssumption
<1>6. Cap = IF MaxIndicators <= Len(detected) THEN MaxIndicators ELSE Len(detected)
  BY <1>4, <1>5, MinOfTwo DEF Cap
<1>7. Cap \in 0 .. Len(detected) /\ (Len(detected) # 0 => Cap # 0)
  BY <1>4, <1>5, <1>6
<1>8. Before = SubSeq(detected, 1, Cap)
  BY DEF Before, Cap
<1>9. Before \in Seq(D) /\ Len(Before) = Cap /\ \A i \in 1 .. Cap : Before[i] = detected[i]
  <2> HIDE DEF Cap
  <2> QED BY <1>4, <1>7, <1>8
<1> QED BY <1>1, <1>3, <1>4, <1>7, <1>9 DEF D

\* What is kept is arranged, and so is the order the model proposes.
Established(added) ==
  LET E == Range(Before) \cup added
  IN  /\ Sound(message, added, Looked) /\ Brief(added) /\ Sound(message, E, Rules)
      /\ Arranges(indicators, E) /\ Arranges(Ordering, E)

\* After the lookups the evidence is arranged twice: as it is kept and as it is reported.
LEMMA EvidenceIsArranged ==
  ASSUME Readable(message), Cut, Enriched, Asked
  PROVE  \E added : Established(added)
<1>1. PICK added : /\ Sound(message, added, Looked) /\ Brief(added)
                   /\ indicators = Merge(Before, added)
  BY DEF Enriched
<1> DEFINE E == Range(Before) \cup added
<1>2. IsFiniteSet(Range(Before)) /\ \A i \in Range(Before) : i \in Detect(message)
  <2>1. /\ Sound(message, Detect(message), Own) /\ Before \in Seq(Detect(message))
    BY KeptFacts
  <2>2. Range(Before) \in SUBSET Detect(message)
    BY <2>1 DEF Range
  <2> QED BY <2>1, <2>2, FS_Subset DEF Sound
<1>3. Sound(message, E, Rules)
  <2>1. Sound(message, Detect(message), Own)
    BY KeptFacts
  <2>2. IsFiniteSet(E)
    BY <1>1, <1>2, FS_Union DEF Sound
  <2>3. \A i \in E : Priced(message, i) /\ i.rule \in Rules
    BY <1>1, <1>2, <2>1, LookedRules, OwnRules DEF Sound
  <2> HIDE DEF E
  <2> QED BY <2>2, <2>3 DEF Sound
<1>4. IsFiniteSet(E) /\ Comparable(E)
  <2> HIDE DEF E
  <2>1. \A i \in E : i.rule \in Rules /\ i.weight \in Int /\ i.at \in Int
    BY <1>3 DEF Sound, Priced
  <2>2. \A rule \in Rules : Book[rule].place \in Int
    BY BookValues
  <2> QED BY <1>3, <2>1, <2>2 DEF Sound, Comparable
<1>5. indicators = Sorted(E)
  BY <1>1 DEF Merge
<1> HIDE DEF E
<1>6. Arranges(indicators, E)
  BY <1>4, <1>5, SortedArranges
<1>7. Arranges(Ordering, E)
  <2>1. CASE answer = None
    BY <1>6, <2>1 DEF Ordering
  <2>2. CASE answer # None
    <3>1. answer.named \in Seq(Nat)
      BY <2>2, AnswerAssumption DEF Asked, Assessments
    <3>2. Arranges(Reconcile(indicators, answer.named), E)
      BY <1>4, <1>6, <3>1, ReconcileArranges
    <3> QED BY <2>2, <3>2 DEF Ordering
  <2> QED BY <2>1, <2>2
<1>8. Established(added)
  BY <1>1, <1>3, <1>6, <1>7 DEF Established, E
<1> QED BY <1>8

----------------------------------------------------------------------------
(* Severity. *)

\* The first finding is about the message; the other one, if any, is severe.
LEMMA FindingsAre ==
  ASSUME Emitted
  PROVE  /\ DOMAIN findings = 1 .. Len(findings) /\ Len(findings) \in {1, 2}
         /\ findings[1] = PrimaryFinding(Ordering)
         /\ Len(findings) = 2 => /\ findings[2].severity = "high"
                                 /\ findings[2].type = "prompt_injection_attempt"
         /\ InjectionFinding(Ordering) # <<>> <=> Len(findings) = 2
<1>1. \E x : /\ InjectionFinding(Ordering) = <<>> \/ InjectionFinding(Ordering) = <<x>>
             /\ x.severity = "high" /\ x.type = "prompt_injection_attempt"
  <2> DEFINE fired == Those(Ordering, LAMBDA i : CategoryOf(i) = "injection")
             ids == [i \in DOMAIN fired |-> Id(fired[i])]
             x == [type |-> "prompt_injection_attempt", severity |-> "high", indicators |-> ids, dropped |-> 0]
  <2>1. InjectionFinding(Ordering) = <<>> \/ InjectionFinding(Ordering) = <<x>>
    BY DEF InjectionFinding
  <2>2. x.severity = "high" /\ x.type = "prompt_injection_attempt"
    OBVIOUS
  <2> QED BY <2>1, <2>2
<1> DEFINE p == PrimaryFinding(Ordering)
           q == InjectionFinding(Ordering)
<1>2. findings = <<p>> \o q
  BY DEF Emitted
<1> HIDE DEF p, q
<1>3. CASE q = <<>>
  BY <1>2, <1>3 DEF p, q
<1>4. CASE \E x : q = <<x>> /\ x.severity = "high" /\ x.type = "prompt_injection_attempt"
  BY <1>2, <1>4 DEF p, q
<1> QED BY <1>1, <1>3, <1>4 DEF q

\* The floor is as severe as every indicator.
LEMMA FloorIsSevere ==
  ASSUME NEW E, Sound(message, E, Rules), Arranges(indicators, E), floor = Floor(indicators)
  PROVE  /\ floor \in Severity
         /\ \A i \in Range(indicators) : i.floor \in Strong /\ SeverityOrder[i.floor] <= SeverityOrder[floor]
         /\ indicators = <<>> => floor = "info"
<1> DEFINE S == {BandFor(WeightedScore(indicators))} \cup {i.floor : i \in Range(indicators)}
<1>1. \A i \in Range(indicators) : i.floor \in Strong
  <2>1. \A i \in Range(indicators) : i \in E
    BY DEF Arranges, Range
  <2> QED BY <2>1 DEF Sound, Priced
<1>2. S \in SUBSET Severity /\ S # {}
  BY <1>1, BandIsASeverity, SeverityNumbers
<1>3. floor = Worst(S)
  BY DEF Floor
<1>4. indicators = <<>> => S = {"info"}
  BY NothingScoresNothing DEF Range
<1>5. \A i \in Range(indicators) : i.floor \in S
  OBVIOUS
<1> HIDE DEF S
<1>6. floor \in S /\ \A s \in S : SeverityOrder[s] <= SeverityOrder[floor]
  BY <1>2, <1>3, WorstIsWorst
<1> QED BY <1>1, <1>2, <1>4, <1>5, <1>6

\* The model may raise the severity and never lower it.
LEMMA SeverityOnlyRises ==
  ASSUME floor \in Severity, Asked, NEW o
  PROVE  /\ PrimaryFinding(o).severity \in Severity
         /\ SeverityOrder[PrimaryFinding(o).severity] >= SeverityOrder[floor]
         /\ answer = None => PrimaryFinding(o).severity = floor
<1>1. PrimaryFinding(o).severity = IF answer = None THEN floor ELSE FinalSeverity(floor, answer.severity)
  BY DEF PrimaryFinding
<1>2. answer # None => answer.severity \in Severity \cup {None}
  BY AnswerAssumption DEF Asked, Assessments
<1>3. \A s \in Severity : SeverityOrder[s] \in 0 .. 4
  BY SeverityNumbers
<1> QED BY <1>1, <1>2, <1>3 DEF FinalSeverity

\* A message cannot talk its severity down: the finding is as severe as the worst of its evidence,
\* the verdict follows, and it is clean only if nothing fired (scoring.py, emit_findings, verdict_for).
THEOREM SeverityIsEarned == Spec => []SeverityMatchesEvidence
<1>1. Inv => SeverityMatchesEvidence
  <2> SUFFICES ASSUME Inv, node = "completed"
               PROVE  /\ \A i \in Range(indicators) :
                            SeverityOrder[findings[1].severity] >= SeverityOrder[i.floor]
                      /\ (\E i \in Range(indicators) : i.floor \in {"high", "critical"})
                         => verdict = "phishing"
                      /\ verdict = "clean" <=> detected = <<>> /\ indicators = <<>>
    BY DEF SeverityMatchesEvidence
  <2>1. /\ Readable(message) /\ Cut /\ Enriched /\ Asked /\ Emitted /\ Named
        /\ floor = Floor(indicators)
    BY DEF Inv, Read, Analysing
  <2>2. PICK added : Established(added)
    BY <2>1, EvidenceIsArranged
  <2>3. /\ floor \in Severity
        /\ \A i \in Range(indicators) : i.floor \in Strong /\ SeverityOrder[i.floor] <= SeverityOrder[floor]
        /\ indicators = <<>> => floor = "info"
    BY <2>1, <2>2, FloorIsSevere DEF Established
  <2> DEFINE first == findings[1].severity
             all == {findings[i].severity : i \in DOMAIN findings}
  <2>4. /\ first \in Severity /\ SeverityOrder[first] >= SeverityOrder[floor]
        /\ answer = None => first = floor
    BY <2>1, <2>3, FindingsAre, SeverityOnlyRises
  <2>5. /\ all = {first} \/ all = {first, "high"}
        /\ Len(findings) = 1 => all = {first}
    BY <2>1, FindingsAre
  <2>6. "high" \in Severity /\ \A s \in Severity : SeverityOrder[s] \in 0 .. 4
    BY SeverityNumbers DEF Strong
  <2> HIDE DEF first, all
  <2> DEFINE worst == Worst(all)
  <2>7. /\ worst \in all /\ worst \in Severity /\ SeverityOrder[first] <= SeverityOrder[worst]
    BY <2>4, <2>5, <2>6, WorstIsWorst
  <2>8. verdict = VerdictFor(worst)
    BY <2>1 DEF Named, all
  <2> HIDE DEF worst
  <2>9. \A i \in Range(indicators) : SeverityOrder[first] >= SeverityOrder[i.floor]
    <3> TAKE i \in Range(indicators)
    <3>1. SeverityOrder[i.floor] \in 0 .. 4 /\ SeverityOrder[i.floor] <= SeverityOrder[floor]
      BY <2>3, <2>6, SeverityNumbers
    <3> QED BY <2>3, <2>4, <2>6, <3>1
  <2>10. ASSUME NEW i \in Range(indicators), i.floor \in {"high", "critical"}
         PROVE  verdict = "phishing"
    <3>1. SeverityOrder[i.floor] >= 3 /\ SeverityOrder[i.floor] \in 0 .. 4
      BY <2>10, SeverityIsOrdered DEF Strong, Strength
    <3>2. SeverityOrder[worst] >= 3
      BY <2>4, <2>6, <2>7, <2>9, <3>1
    <3>3. worst \in {"high", "critical"}
      BY <2>7, <3>2, SeverityIsOrdered DEF Strong, Strength
    <3> QED BY <2>8, <3>3 DEF VerdictFor
  <2>11. ASSUME verdict = "clean"
         PROVE  detected = <<>> /\ indicators = <<>>
    <3>1. worst = "info"
      BY <2>7, <2>8, <2>11, SeverityIsOrdered DEF VerdictFor, Strong
    <3>2. SeverityOrder[first] = 0
      BY <2>4, <2>6, <2>7, <3>1, SeverityIsOrdered DEF Strength
    <3>3. Range(indicators) = {}
      <4> SUFFICES ASSUME NEW i \in Range(indicators)
                   PROVE  FALSE
        OBVIOUS
      <4>1. SeverityOrder[i.floor] \in 0 .. 4 /\ SeverityOrder[i.floor] > 0
        BY <2>3, <2>6, SeverityNumbers
      <4> QED BY <2>9, <3>2, <4>1
    <3>4. Arranges(indicators, Range(Before) \cup added)
      BY <2>2 DEF Established
    <3>5. Len(indicators) = 0 /\ indicators = <<>>
      <4>1. indicators \in Seq(Range(Before) \cup added)
        BY <3>4 DEF Arranges
      <4>2. \A i \in 1 .. Len(indicators) : indicators[i] \in Range(indicators)
        BY <4>1 DEF Range
      <4> QED BY <3>3, <4>1, <4>2
    <3>6. Range(Before) = {}
      BY <3>4, <3>5 DEF Arranges
    <3>7. /\ Len(detected) \in Nat /\ Cap \in 0 .. Len(detected) /\ (Len(detected) # 0 => Cap # 0)
          /\ Before \in Seq(Detect(message)) /\ Len(Before) = Cap
          /\ detected \in Seq(Detect(message))
      BY <2>1, KeptFacts DEF Arranges
    <3>8. Cap = 0
      <4>1. \A i \in 1 .. Len(Before) : Before[i] \in Range(Before)
        BY <3>7 DEF Range
      <4> QED BY <3>6, <3>7, <4>1
    <3> QED BY <3>5, <3>7, <3>8
  <2>12. ASSUME indicators = <<>>
         PROVE  verdict = "clean"
    <3>1. answer = None /\ first = "info"
      BY <2>1, <2>3, <2>4, <2>12 DEF Asked
    <3>2. InjectionFinding(Ordering) = <<>>
      <4>1. Ordering = <<>>
        BY <2>12, <3>1 DEF Ordering
      <4>2. Those(<<>>, LAMBDA i : CategoryOf(i) = "injection") = <<>>
        <5>1. {i \in DOMAIN <<>> : CategoryOf(<<>>[i]) = "injection"} = {}
          OBVIOUS
        <5>2. Cardinality({}) = 0
          BY FS_EmptySet
        <5> QED BY <5>1, <5>2 DEF Those, At
      <4> QED BY <3>1, <4>1, <4>2 DEF InjectionFinding
    <3>3. all = {"info"}
      BY <2>1, <2>5, <3>1, <3>2, FindingsAre
    <3>4. worst = "info"
      BY <2>7, <3>3
    <3> QED BY <2>8, <3>4 DEF VerdictFor
  <2> QED BY <2>9, <2>10, <2>11, <2>12 DEF first
<1> QED BY <1>1, Invariance, PTL

----------------------------------------------------------------------------
(* Injection. *)

\* An attempt to address the analyser, in whichever part of the message, gives a finding of its own
\* whatever the model answers, unless the cap dropped it, and then it is listed
\* (rules/injection.py, _injection_finding).
THEOREM InjectionIsNotIgnored == Spec => []InjectionIsReported
<1>1. Inv => InjectionIsReported
  <2> SUFFICES ASSUME Inv, node = "completed",
                      NEW technique \in Technique,
                      \E h \in Range(Haystacks(message)) : technique \in h.says
               PROVE  \/ \E i \in DOMAIN findings : findings[i].type = "prompt_injection_attempt"
                      \/ \E id \in overflow : id[1] = technique
    BY DEF InjectionIsReported
  <2>1. Readable(message) /\ Cut /\ Enriched /\ Asked /\ Emitted
    BY DEF Inv, Read, Analysing
  <2>2. PICK found \in InjectionRules(message) : found.rule = technique
    BY <2>1, InjectionIsSound
  <2>3. found \in Detect(message)
    BY <2>2 DEF Detect
  <2>4. /\ Arranges(detected, Detect(message)) /\ Len(detected) \in Nat /\ Cap \in 0 .. Len(detected)
        /\ Before \in Seq(Detect(message)) /\ Len(Before) = Cap
        /\ \A k \in 1 .. Cap : Before[k] = detected[k]
    BY <2>1, KeptFacts
  <2>5. PICK k \in 1 .. Len(detected) : detected[k] = found
    BY <2>3, <2>4 DEF Arranges
  <2>6. CASE k <= Cap
    <3>1. found \in Range(Before)
      BY <2>4, <2>5, <2>6 DEF Range
    <3>2. PICK added : Established(added)
      BY <2>1, EvidenceIsArranged
    <3> DEFINE E == Range(Before) \cup added
    <3>3. Arranges(Ordering, E)
      BY <3>2 DEF Established
    <3>4. found \in E
      BY <3>1
    <3> HIDE DEF E
    <3>5. Ordering \in Seq(E) /\ \E n \in DOMAIN Ordering : Ordering[n] = found
      BY <3>3, <3>4 DEF Arranges
    <3> DEFINE I == {n \in DOMAIN Ordering : CategoryOf(Ordering[n]) = "injection"}
               fired == Those(Ordering, LAMBDA i : CategoryOf(i) = "injection")
    <3>6. PICK n \in I : Ordering[n] = found
      BY <2>2, <3>5, TechniqueAssumption DEF CategoryOf
    <3>7. fired = At(Ordering, I)
      BY DEF Those
    <3>8. fired # <<>>
      <4>1. I \in SUBSET (DOMAIN Ordering)
        OBVIOUS
      <4> HIDE DEF I, fired
      <4>2. \E j \in DOMAIN At(Ordering, I) : At(Ordering, I)[j] = Ordering[n]
        BY <3>5, <4>1, AtIsSequence
      <4> QED BY <3>7, <4>2
    <3>9. InjectionFinding(Ordering) # <<>>
      BY <3>8 DEF InjectionFinding
    <3>10. /\ DOMAIN findings = 1 .. Len(findings) /\ Len(findings) = 2
           /\ findings[2].type = "prompt_injection_attempt"
      BY <2>1, <3>9, FindingsAre
    <3> QED BY <3>10
  <2>7. CASE ~(k <= Cap)
    <3>1. k \in Cap + 1 .. Len(detected)
      BY <2>4, <2>7
    <3>2. Id(detected[k]) \in overflow
      BY <2>1, <3>1 DEF Cut
    <3>3. Id(found)[1] = technique
      BY <2>2 DEF Id
    <3> QED BY <2>5, <3>2, <3>3
  <2> QED BY <2>6, <2>7
<1> QED BY <1>1, Invariance, PTL

----------------------------------------------------------------------------
(* Membership. *)

\* The ids of an arrangement are as many as its indicators.
LEMMA IdsAreDistinct ==
  ASSUME NEW E, Sound(message, E, Rules), NEW s, Arranges(s, E)
  PROVE  LET ids == [i \in DOMAIN s |-> Id(s[i])]
         IN  Cardinality(Range(ids)) = Len(ids) /\ Range(ids) = {Id(i) : i \in E}
<1> DEFINE ids == [i \in DOMAIN s |-> Id(s[i])]
           D == 1 .. Len(s)
           T == Range(ids)
<1>1. /\ s \in Seq(E) /\ Len(s) \in Nat /\ DOMAIN s = D
      /\ \A x \in E : \E i \in D : s[i] = x
      /\ \A i, j \in D : s[i] = s[j] => i = j
  BY DEF Arranges
<1>2. \A i \in D : s[i] \in E /\ Priced(message, s[i])
  <2>1. \A i \in D : s[i] \in E
    BY <1>1
  <2>2. \A i \in E : Priced(message, i)
    BY DEF Sound
  <2> HIDE DEF D
  <2> QED BY <2>1, <2>2
<1>3. IsFiniteSet(D) /\ Cardinality(D) = Len(s)
  <2>1. \A n \in Nat : IsFiniteSet(1 .. n) /\ Cardinality(1 .. n) = n
    BY FS_Interval
  <2> QED BY <1>1, <2>1
<1>4. \A i, j \in D : ids[i] = ids[j] => i = j
  <2> TAKE i, j \in D
  <2>1. ids[i] = Id(s[i]) /\ ids[j] = Id(s[j])
    BY <1>1
  <2>2. Priced(message, s[i]) /\ Priced(message, s[j])
    BY <1>2
  <2> HIDE DEF ids, D
  <2>3. ids[i] = ids[j] => s[i] = s[j]
    BY <2>1, <2>2, IdsDiffer
  <2> QED BY <1>1, <2>3
<1>5. ids \in [D -> T] /\ T = {ids[i] : i \in D}
  BY <1>1 DEF Range
<1>6. T = {Id(i) : i \in E}
  BY <1>1, <1>2, <1>5
<1>7. Len(ids) = Len(s)
  BY <1>1
<1> HIDE DEF ids, T
<1>8. ids \in Surjection(D, T) /\ ids \in Injection(D, T)
  BY <1>4, <1>5, Fun_IsInj DEF Surjection
<1>9. Cardinality(T) = Cardinality(D)
  <2> HIDE DEF D
  <2> QED BY <1>3, <1>8, FS_Surjection
<1>10. Cardinality(T) = Len(ids) /\ T = {Id(i) : i \in E}
  BY <1>3, <1>6, <1>7, <1>9
<1> QED BY <1>10 DEF ids, T

\* The rules of the lookups are together in the book.
LEMMA PlacesOfLookups ==
  Book["enrich-credential-form"].place = 19 /\ Book["enrich-young-sender-domain"].place = 23
<1>1. RuleBook[19][1] = "enrich-credential-form" /\ RuleBook[23][1] = "enrich-young-sender-domain"
  BY DEF RuleBook
<1>2. "enrich-credential-form" \in Rules /\ "enrich-young-sender-domain" \in Rules
  BY LookedRules DEF Looked
<1>3. \A n \in 1 .. 52 : /\ RuleBook[n][1] = RuleBook[19][1] => n = 19
                         /\ RuleBook[n][1] = RuleBook[23][1] => n = 23
  BY EntriesOfTheBook
<1>4. \A rule \in Rules : Book[rule].place \in 1 .. 52 /\ RuleBook[Book[rule].place][1] = rule
  BY BookIsWhole
<1>5. \A n \in 1 .. 52 : /\ RuleBook[n][1] = "enrich-credential-form" => n = 19
                         /\ RuleBook[n][1] = "enrich-young-sender-domain" => n = 23
  BY <1>1, <1>3
<1> QED BY <1>2, <1>4, <1>5

\* What the lookups add is nothing a rule finds.
LEMMA LookupsAreNew ==
  ASSUME NEW m, NEW C, Sound(m, C, Own), NEW D, Sound(m, D, Looked)
  PROVE  /\ \A i \in C, j \in D : Id(i) # Id(j)
         /\ \A j \in D : Book[Id(j)[1]].place \in Lookups
<1>1. \A i, j : Id(i) = Id(j) => i.rule = j.rule
  BY DEF Id
<1>2. ASSUME NEW j \in D
      PROVE  Book[Id(j)[1]].place \in Lookups
  <2>1. Id(j)[1] = j.rule /\ j.rule \in Looked
    BY DEF Id, Sound
  <2>2. \A rule \in Looked : Book[rule].place \in Lookups
    <3>1. Book["enrich-credential-form"].place = 19 /\ Book["enrich-young-sender-domain"].place = 23
      BY PlacesOfLookups
    <3> QED BY <3>1, BookValues, LookedRules DEF Lookups
  <2> QED BY <2>1, <2>2
<1> QED BY <1>1, <1>2 DEF Sound, Own

\* Ranking decides order, never membership, and the cap is never silent: the finding lists what the
\* rules and the lookups established, each once, and counts what the cap dropped
\* (reconcile, _merge, detect, emit_findings).
THEOREM EvidenceIsAllThereIs == Spec => []EvidenceIsExact
<1>1. Inv => EvidenceIsExact
  <2> SUFFICES ASSUME Inv, node \in {"persist", "completed"}
               PROVE  /\ Cardinality(Reported) = Len(findings[1].indicators)
                      /\ Reported = Ids(indicators)
                      /\ Ids(detected) \subseteq Reported \cup overflow
                      /\ \A id \in Reported \ Ids(detected) : Book[id[1]].place \in Lookups
                      /\ findings[1].dropped = Cardinality(Ids(detected) \ Reported)
    BY DEF EvidenceIsExact
  <2>1. Readable(message) /\ Cut /\ Enriched /\ Asked /\ Emitted
    BY DEF Inv, Read, Analysing
  <2>2. PICK added : Established(added)
    BY <2>1, EvidenceIsArranged
  <2> DEFINE D == Detect(message)
             E == Range(Before) \cup added
             ids == [i \in DOMAIN Ordering |-> Id(Ordering[i])]
  <2>3. /\ Sound(message, added, Looked) /\ Sound(message, E, Rules)
        /\ Arranges(indicators, E) /\ Arranges(Ordering, E)
    BY <2>2 DEF Established
  <2>4. findings[1].indicators = ids /\ findings[1].dropped = Cardinality(overflow)
    BY <2>1, FindingsAre DEF PrimaryFinding
  <2>5. /\ Sound(message, D, Own) /\ Arranges(detected, D)
        /\ Len(detected) \in Nat /\ Cap \in 0 .. Len(detected)
        /\ Before \in Seq(D) /\ Len(Before) = Cap
        /\ \A k \in 1 .. Cap : Before[k] = detected[k]
    BY <2>1, KeptFacts
  <2>6. Cardinality(Range(ids)) = Len(ids) /\ Range(ids) = {Id(i) : i \in E}
    <3> HIDE DEF E
    <3> QED BY <2>3, IdsAreDistinct
  <2>7. Reported = {Id(i) : i \in E} /\ Cardinality(Reported) = Len(findings[1].indicators)
    <3> HIDE DEF E, ids
    <3> QED BY <2>4, <2>6 DEF Reported
  <2>8. Ids(indicators) = {Id(i) : i \in E}
    <3> HIDE DEF E
    <3>3. indicators \in Seq(E) /\ \A x \in E : \E i \in 1 .. Len(indicators) : indicators[i] = x
      BY <2>3 DEF Arranges
    <3>1. indicators \in Seq(E) /\ \A x \in E : \E i \in DOMAIN indicators : indicators[i] = x
      BY <3>3
    <3>2. \A i \in DOMAIN indicators : indicators[i] \in E
      BY <3>1
    <3> QED BY <3>1, <3>2 DEF Ids
  <2> DEFINE all == 1 .. Len(detected)
  <2>9. /\ DOMAIN detected = all /\ \A k \in all : detected[k] \in D
        /\ \A j, k \in all : detected[j] = detected[k] => j = k
    BY <2>5 DEF Arranges
  <2>10. Range(Before) = {detected[k] : k \in 1 .. Cap}
    BY <2>5 DEF Range
  <2>11. /\ \A i, j \in D : Id(i) = Id(j) => i = j
         /\ \A i \in D, j \in added : Id(i) # Id(j)
         /\ \A j \in added : Book[Id(j)[1]].place \in Lookups
    <3>1. \A i \in D : Priced(message, i)
      BY <2>5 DEF Sound
    <3>2. \A i, j \in D : Id(i) = Id(j) => i = j
      BY <3>1, IdsDiffer
    <3> HIDE DEF D
    <3> QED BY <2>3, <2>5, <3>2, LookupsAreNew
  <2>12. \A k \in all : Id(detected[k]) \in Reported <=> k <= Cap
    <3> TAKE k \in all
    <3>1. CASE k <= Cap
      <4>1. detected[k] \in E
        BY <2>5, <2>10, <3>1
      <4> HIDE DEF E
      <4> QED BY <2>7, <3>1, <4>1
    <3>2. CASE ~(k <= Cap)
      <4> SUFFICES ASSUME NEW i \in E, Id(i) = Id(detected[k])
                   PROVE  FALSE
        BY <2>7, <3>2
      <4>1. i \in Range(Before)
        BY <2>9, <2>11
      <4>2. PICK j \in 1 .. Cap : i = detected[j]
        BY <2>10, <4>1
      <4>3. j \in all /\ detected[j] = detected[k]
        BY <2>5, <2>9, <2>11, <4>2
      <4> QED BY <2>5, <2>9, <3>2, <4>3
    <3> QED BY <3>1, <3>2
  <2>13. overflow = {Id(detected[k]) : k \in Cap + 1 .. Len(detected)}
    BY <2>1 DEF Cut
  <2>14. Ids(detected) = {Id(detected[k]) : k \in all}
    BY <2>9 DEF Ids
  <2>15. overflow = Ids(detected) \ Reported
    <3> HIDE DEF D, E
    <3>1. \A k : k \in Cap + 1 .. Len(detected) <=> k \in all /\ ~(k <= Cap)
      BY <2>5
    <3> HIDE DEF all
    <3> QED BY <2>12, <2>13, <2>14, <3>1
  <2>16. \A id \in Reported \ Ids(detected) : Book[id[1]].place \in Lookups
    <3> TAKE id \in Reported \ Ids(detected)
    <3>1. PICK i \in E : id = Id(i)
      BY <2>7
    <3>2. i \in added
      <4>1. CASE i \in Range(Before)
        BY <2>5, <2>10, <2>14, <3>1, <4>1
      <4> QED BY <4>1
    <3> QED BY <2>11, <3>1, <3>2
  <2> QED BY <2>4, <2>7, <2>8, <2>15, <2>16
<1> QED BY <1>1, Invariance, PTL

\* What is kept at the cap is ranked, and so is the evidence after the lookups.
LEMMA EvidenceIsRanked ==
  ASSUME Readable(message), Cut, Enriched
  PROVE  \E E : /\ Range(Before) \subseteq E /\ Sound(message, E, Rules)
                /\ Ranks(Before, Range(Before)) /\ Ranks(indicators, E)
<1>1. PICK added : /\ Sound(message, added, Looked) /\ Brief(added)
                   /\ indicators = Merge(Before, added)
  BY DEF Enriched
<1> DEFINE E == Range(Before) \cup added
           D == Detect(message)
<1>2. /\ Sound(message, D, Own) /\ Arranges(detected, D)
      /\ Len(detected) \in Nat /\ Cap \in 0 .. Len(detected)
      /\ Before \in Seq(D) /\ Len(Before) = Cap
      /\ \A i \in 1 .. Cap : Before[i] = detected[i]
  BY KeptFacts
<1>3. Range(Before) \in SUBSET D
  BY <1>2 DEF Range
<1>4. Sound(message, E, Rules) /\ \A x \in D : x.weight \in Nat
  <2>1. IsFiniteSet(Range(Before))
    BY <1>2, <1>3, FS_Subset DEF Sound
  <2>2. IsFiniteSet(E)
    BY <1>1, <2>1, FS_Union DEF Sound
  <2>3. \A i \in E : Priced(message, i) /\ i.rule \in Rules
    BY <1>1, <1>2, <1>3, LookedRules, OwnRules DEF Sound
  <2> HIDE DEF E
  <2> QED BY <1>2, <2>2, <2>3 DEF Sound, Priced
<1>5. \A R : Sound(message, R, Rules) => IsFiniteSet(R) /\ Comparable(R)
  <2>1. \A rule \in Rules : Book[rule].place \in Int
    BY BookValues
  <2> QED BY <2>1 DEF Sound, Priced, Comparable
<1>6. Sound(message, D, Rules)
  BY <1>2, OwnRules DEF Sound
<1>7. detected = Sorted(D) /\ indicators = Sorted(E)
  BY <1>1 DEF Cut, Merge
<1> HIDE DEF D, E
<1>8. Descends(detected)
  BY <1>5, <1>6, <1>7, SortedArranges
<1>9. Arranges(indicators, E) /\ Descends(indicators)
  BY <1>4, <1>5, <1>7, SortedArranges
<1>10. Ranks(indicators, E)
  <2>1. \A x \in E : x.weight \in Nat
    BY <1>4 DEF Sound, Priced
  <2> QED BY <1>9, <2>1 DEF Arranges, Ranks
<1>11. Ranks(Before, Range(Before))
  <2> DEFINE R == Range(Before)
  <2>1. Before \in Seq(R) /\ Len(Before) = Cap /\ \A x \in R : \E i \in 1 .. Cap : Before[i] = x
    BY <1>2 DEF Range
  <2>2. \A x \in R : x.weight \in Nat
    BY <1>3, <1>4
  <2> HIDE DEF R
  <2>3. \A i \in 1 .. Cap : i \in 1 .. Len(detected)
    BY <1>2
  <2>4. \A i, j \in 1 .. Cap : Before[i] = Before[j] => i = j
    BY <1>2, <2>3 DEF Arranges
  <2>5. Descends(Before)
    BY <1>2, <1>8, <2>3 DEF Descends
  <2> QED BY <2>1, <2>2, <2>4, <2>5 DEF Ranks, R
<1> QED BY <1>4, <1>10, <1>11 DEF E

\* Enrichment can only add signal: no lookup, answered or failed, removes an indicator, lowers the
\* score or lowers the floor (enrich.py, scoring.py).
THEOREM LookupsOnlyAdd == Spec => []EnrichmentOnlyAdds
<1>1. Inv => EnrichmentOnlyAdds
  <2> SUFFICES ASSUME Inv, node \in {"reason", "emit_findings", "persist", "completed"}
               PROVE  /\ Range(Before) \subseteq Range(indicators)
                      /\ WeightedScore(indicators) >= WeightedScore(Before)
                      /\ SeverityOrder[floor] >= SeverityOrder[Floor(Before)]
    BY DEF EnrichmentOnlyAdds
  <2>1. Readable(message) /\ Cut /\ Enriched /\ floor = Floor(indicators)
    BY DEF Inv, Read, Analysing
  <2>2. PICK E : /\ Range(Before) \subseteq E /\ Sound(message, E, Rules)
                 /\ Ranks(Before, Range(Before)) /\ Ranks(indicators, E)
    BY <2>1, EvidenceIsRanked
  <2>3. Range(Before) \subseteq Range(indicators)
    BY <2>2, RangeOfRanks
  <2>4. IsFiniteSet(E) /\ \A x \in E : x.floor \in Strong
    BY <2>2 DEF Sound, Priced
  <2>5. /\ WeightedScore(Before) \in Int /\ WeightedScore(indicators) \in Int
        /\ WeightedScore(Before) <= WeightedScore(indicators)
    BY <2>2, <2>4, ScoreFollows
  <2>6. SeverityOrder[Floor(Before)] <= SeverityOrder[Floor(indicators)]
    BY <2>2, <2>4, FloorFollows
  <2> QED BY <2>1, <2>3, <2>5, <2>6
<1> QED BY <1>1, Invariance, PTL

----------------------------------------------------------------------------
(* What a mail shows. *)

\* x is in s, and what comes before it is in G.
FirstIn(s, x, G) ==
    \E j \in DOMAIN s : s[j] = x /\ \A k \in DOMAIN s : k < j => s[k] \in G

\* What comes first in a sequence comes first in a part of it.
LEMMA FirstStaysFirst ==
  ASSUME NEW s \in Seq(BodyItems), NEW I \in SUBSET (DOMAIN s), NEW i \in I, NEW G,
         \A k \in I : k < i => s[k] \in G
  PROVE  FirstIn(At(s, I), s[i], G)
<1>1. I \in SUBSET Int /\ I \in SUBSET (1 .. Len(s)) /\ Len(s) \in Nat
  OBVIOUS
<1>2. IsFiniteSet(I)
  BY <1>1, FS_Interval, FS_Subset
<1>3. PICK n \in Nat : \E pos \in [1 .. n -> I] : Lists(At(s, I), s, I, n, pos)
  BY <1>1, <1>2, AtPositions
<1>4. PICK pos \in [1 .. n -> I] :
         /\ At(s, I) = [k \in 1 .. n |-> s[pos[k]]]
         /\ \A k, m \in 1 .. n : k < m => pos[k] < pos[m]
         /\ \A m \in I : \E k \in 1 .. n : pos[k] = m
  BY <1>3 DEF Lists
<1>5. PICK j \in 1 .. n : pos[j] = i
  BY <1>4
<1>6. \A k \in 1 .. n : k < j => s[pos[k]] \in G
  BY <1>4, <1>5
<1>7. DOMAIN At(s, I) = 1 .. n /\ \A k \in 1 .. n : At(s, I)[k] = s[pos[k]]
  BY <1>4
<1> QED BY <1>5, <1>6, <1>7 DEF FirstIn

\* The first anchor to a URL is a link of the message and keeps its label.
LEMMA AnchorIsALink ==
  ASSUME NEW html \in Seq(BodyItems), NEW text \in Seq(BodyItems), NEW n \in DOMAIN html,
         html[n].tag = "anchor", html[n].url.scheme # "relative",
         \A k \in 1 .. n - 1 : html[k].tag = "anchor" => html[k].url # html[n].url
  PROVE  \E i \in DOMAIN ExtractLinks(html, text) :
            ExtractLinks(html, text)[i] = LinkOf(html[n].url, html[n].label)
<1> DEFINE url == html[n].url
           Others == {item \in BodyItems : item.url # url}
           A == Anchors(html)
           kept2 == Those(A, LAMBDA item : item.url.scheme # "relative")
           first == LinksOf(A, TRUE)
           second == LinksOf(Tags(html), FALSE)
           third == LinksOf(Shown(text) \o Shown(html), FALSE)
           rest == second \o third
           all == first \o rest
           link == LinkOf(url, html[n].label)
<1>1. PICK a \in DOMAIN A : A[a] = html[n] /\ \A k \in DOMAIN A : k < a => A[k] \in Others
  <2> DEFINE I == {i \in DOMAIN html : html[i].tag = "anchor"}
  <2>1. A = At(html, I)
    BY DEF Anchors, Those
  <2>2. \A k \in I : k < n => html[k] \in Others
    OBVIOUS
  <2>3. n \in I /\ I \in SUBSET (DOMAIN html)
    OBVIOUS
  <2> HIDE DEF I, A, Others, url, kept2, first, second, third, rest, all, link
  <2>4. FirstIn(At(html, I), html[n], Others)
    BY <2>2, <2>3, FirstStaysFirst
  <2> QED BY <2>1, <2>4 DEF FirstIn
<1>2. A \in Seq(BodyItems)
  BY ThoseAreItems DEF Anchors, Those
<1> HIDE DEF A, Others
<1>3. PICK b \in DOMAIN kept2 : kept2[b] = html[n] /\ \A k \in DOMAIN kept2 : k < b => kept2[k] \in Others
  <2> DEFINE I == {i \in DOMAIN A : A[i].url.scheme # "relative"}
  <2>1. kept2 = At(A, I)
    BY DEF Those
  <2>2. \A k \in I : k < a => A[k] \in Others
    BY <1>1
  <2>3. a \in I /\ I \in SUBSET (DOMAIN A)
    BY <1>1
  <2> HIDE DEF I, kept2
  <2>5. A \in Seq(BodyItems)
    BY <1>2
  <2> HIDE DEF A, Others, url, first, second, third, rest, all, link
  <2>4. FirstIn(At(A, I), A[a], Others)
    BY <2>2, <2>3, <2>5, FirstStaysFirst
  <2> QED BY <1>1, <2>1, <2>4 DEF FirstIn
<1>4. first = [i \in DOMAIN kept2 |-> LinkOf(kept2[i].url, kept2[i].label)]
  BY DEF LinksOf
<1> HIDE DEF kept2
<1>5. /\ DOMAIN first = DOMAIN kept2 /\ first[b] = link
      /\ \A k \in DOMAIN first : k < b => first[k].url # url
  <2>1. \A item : LinkOf(item.url, item.label).url = item.url
    BY DEF LinkOf
  <2>2. \A k \in DOMAIN kept2 : k < b => kept2[k].url # url
    BY <1>3 DEF Others
  <2>3. \A k \in DOMAIN kept2 : first[k] = LinkOf(kept2[k].url, kept2[k].label)
    BY <1>4
  <2>4. DOMAIN first = DOMAIN kept2
    BY <1>4
  <2> HIDE DEF first, url
  <2>5. first[b] = link
    BY <1>3, <2>3 DEF url
  <2>6. \A k \in DOMAIN kept2 : first[k].url = kept2[k].url
    BY <2>1, <2>3
  <2> QED BY <2>2, <2>4, <2>5, <2>6
<1>6. first \in Seq(LinkTypes) /\ second \in Seq(LinkTypes) /\ third \in Seq(LinkTypes)
  <2>1. Tags(html) \in Seq(BodyItems)
    BY ThoseAreItems DEF Tags, Those
  <2>2. \A items \in Seq(BodyItems) : Shown(items) \in Seq(BodyItems)
    BY ThoseAreItems DEF Shown, Those
  <2>3. Shown(text) \o Shown(html) \in Seq(BodyItems)
    BY <2>2
  <2>4. ASSUME NEW shown \in Seq(BodyItems)
        PROVE  LinksOf(shown, FALSE) \in Seq(LinkTypes) /\ LinksOf(shown, TRUE) \in Seq(LinkTypes)
    BY LinksAreLinks
  <2> QED BY <1>2, <2>1, <2>3, <2>4
<1>7. ExtractLinks(html, text) = Distinct((first \o second) \o third)
  BY DEF ExtractLinks, A
<1> HIDE DEF first, second, third
<1>8. all \in Seq(LinkTypes) /\ (first \o second) \o third = all
  <2>1. \A x, y \in Seq(LinkTypes) : x \o y \in Seq(LinkTypes)
    BY ConcatProperties
  <2>2. rest \in Seq(LinkTypes)
    BY <1>6, <2>1, Zenon
  <2>3. (first \o second) \o third = all
    BY <1>6, ConcatAssociative
  <2> HIDE DEF rest
  <2> QED BY <1>6, <2>1, <2>2, <2>3, Zenon
<1> HIDE DEF rest, link, url
<1>9. /\ b \in DOMAIN all /\ all[b] = link
      /\ \A k \in 1 .. b - 1 : all[k].url # url
  <2>1. b \in 1 .. Len(first) /\ Len(first) \in Nat /\ DOMAIN first = 1 .. Len(first)
    BY <1>3, <1>5, <1>6
  <2>2. \A k \in 1 .. Len(first) : all[k] = first[k] /\ k \in DOMAIN all
    BY <1>6, <1>8
  <2>3. \A k \in 1 .. b - 1 : k \in DOMAIN first /\ k < b /\ k \in 1 .. Len(first)
    BY <2>1
  <2> HIDE DEF all
  <2> QED BY <1>5, <2>1, <2>2, <2>3
<1> DEFINE I == {i \in DOMAIN all : \A k \in 1 .. i - 1 : all[k].url # all[i].url}
<1> HIDE DEF all
<1>14. all \in Seq(LinkTypes) /\ ExtractLinks(html, text) = Distinct(all)
  BY <1>7, <1>8
<1>10. b \in I
  BY <1>9 DEF link, url, LinkOf
<1>11. Distinct(all) = At(all, I)
  BY DEF Distinct
<1>12. I \in SUBSET (DOMAIN all)
  OBVIOUS
<1> HIDE DEF I
<1>13. \E j \in DOMAIN At(all, I) : At(all, I)[j] = all[b]
  BY <1>10, <1>12, <1>14, AtIsSequence
<1> QED BY <1>9, <1>11, <1>13, <1>14 DEF link, url

\* Where the first DMARC result is a failure, the message has failed DMARC.
LEMMA FirstResultCounts ==
  ASSUME NEW T, NEW pairs \in Seq(T), NEW n \in DOMAIN pairs, NEW method,
         pairs[n].method = method, \A k \in 1 .. n - 1 : pairs[k].method # method
  PROVE  AuthResult(pairs, method) = pairs[n].result
<1> DEFINE I == {i \in 1 .. Len(pairs) : pairs[i].method = method}
           at == SelectInSeq(pairs, LAMBDA pair : pair.method = method)
<1>1. at = IF I # {} THEN Min(I) ELSE 0
  BY DEF SelectInSeq
<1>2. n \in I /\ n # 0 /\ \A i \in I : n <= i
  OBVIOUS
<1>3. Min(I) \in I /\ \A i \in I : Min(I) <= i
  <2>1. I \in SUBSET (1 .. Len(pairs)) /\ I \in SUBSET Int /\ Len(pairs) \in Nat
    OBVIOUS
  <2>2. IsFiniteSet(1 .. Len(pairs))
    BY <2>1, FS_Interval
  <2> HIDE DEF I
  <2> QED BY <1>2, <2>1, <2>2, FS_Subset, MinIsElement
<1>4. Min(I) = n
  <2>1. I \in SUBSET Int
    OBVIOUS
  <2> HIDE DEF I
  <2> QED BY <1>2, <1>3, <2>1
<1>5. at = n /\ n # 0
  <2> HIDE DEF I, at
  <2> QED BY <1>1, <1>2, <1>4
<1>6. AuthResult(pairs, method) = IF at = 0 THEN "none" ELSE pairs[at].result
  BY DEF AuthResult
<1> HIDE DEF at
<1> QED BY <1>5, <1>6

\* What the mail shows reaches the finding or the list of what was dropped: a DMARC failure that
\* was written first, an anchor whose label names another domain than it goes to, a file that runs
\* (_parse_auth_results, _extract_links, rules.detect).
THEOREM NothingIsLost == Spec => []NothingShownIsLost
<1>1. Inv /\ EvidenceIsExact => NothingShownIsLost
  <2> DEFINE mail == submitted.mail
             html == Items(mail.parts, "html")
             plain == Items(mail.parts, "plain")
             Known(rule) == {id \in Reported \cup overflow : id[1] = rule}
  <2> SUFFICES ASSUME Inv, EvidenceIsExact, node = "completed", submitted.what = "mail"
               PROVE  /\ \A n \in DOMAIN mail.auth.pairs :
                            /\ mail.auth.pairs[n] = [method |-> "dmarc", result |-> "fail"]
                            /\ \A k \in 1 .. n - 1 : mail.auth.pairs[k].method # "dmarc"
                            => Known("auth-dmarc-failed") # {}
                      /\ \A n \in DOMAIN html :
                            /\ html[n].tag = "anchor" /\ html[n].url.host # NoHost
                            /\ html[n].label.names # NoHost
                            /\ RegistrableDomain(html[n].label.names) # RegistrableDomain(html[n].url.host)
                            /\ \A k \in 1 .. n - 1 : html[k].tag = "anchor" => html[k].url # html[n].url
                            => \E id \in Known("url-anchor-text-mismatch") :
                                  id[5] = <<RegistrableDomain(html[n].label.names),
                                            RegistrableDomain(html[n].url.host)>>
                      /\ \A n \in DOMAIN Files(mail.parts) :
                            LET file == Files(mail.parts)[n]
                            IN  /\ file.suffixes # <<>> /\ Last(file.suffixes) \in Executable
                                => \E id \in Known("attachment-executable") : id[3] = file.name
    BY DEF NothingShownIsLost
  <2>1. /\ Readable(message) /\ Cut /\ Ids(detected) \subseteq Reported \cup overflow
        /\ message = ParseEmailMime(mail)
    BY DEF Inv, Read, Analysing, EvidenceIsExact
  <2>2. mail \in Emails
    BY MailAssumption DEF Inv, Input, Submissions
  <2>3. \A i \in Detect(message) : Id(i) \in Known(i.rule)
    <3> TAKE i \in Detect(message)
    <3>1. PICK k \in DOMAIN detected : detected[k] = i
      BY <2>1, KeptFacts DEF Arranges
    <3>2. Id(i) \in Ids(detected) /\ Id(i)[1] = i.rule
      BY <3>1 DEF Ids, Id
    <3> QED BY <2>1, <3>2
  <2>4. mail.parts \in Seq(Parts) /\ mail.auth.pairs \in Seq([method : STRING, result : STRING])
    BY <2>2 DEF Emails
  <2>5. html \in Seq(BodyItems) /\ plain \in Seq(BodyItems)
    BY <2>4, ItemsAreBodyItems
  <2>6. /\ message.links = ExtractLinks(html, plain) /\ message.attachments = Files(mail.parts)
        /\ message.auth.dmarc = AuthResult(mail.auth.pairs, "dmarc")
    BY <2>1 DEF ParseEmailMime, AuthResults
  <2> HIDE DEF mail, html, plain, Known
  <2>7. ASSUME NEW n \in DOMAIN mail.auth.pairs,
               mail.auth.pairs[n] = [method |-> "dmarc", result |-> "fail"],
               \A k \in 1 .. n - 1 : mail.auth.pairs[k].method # "dmarc"
        PROVE  Known("auth-dmarc-failed") # {}
    <3>1. mail.auth.pairs[n].method = "dmarc" /\ mail.auth.pairs[n].result = "fail"
      BY <2>7
    <3>2. message.auth.dmarc = "fail"
      BY <2>4, <2>6, <2>7, <3>1, FirstResultCounts
    <3> DEFINE i == InHeader("auth-dmarc-failed", "auth", <<>>)
    <3>3. i \in Detect(message)
      BY <3>2 DEF Detect, AuthenticationRules, When
    <3>4. i.rule = "auth-dmarc-failed"
      BY DEF InHeader, Found, FoundWith, Indicator
    <3> HIDE DEF i
    <3> QED BY <2>3, <3>3, <3>4
  <2>8. ASSUME NEW n \in DOMAIN html,
               html[n].tag = "anchor", html[n].url.host # NoHost, html[n].label.names # NoHost,
               RegistrableDomain(html[n].label.names) # RegistrableDomain(html[n].url.host),
               \A k \in 1 .. n - 1 : html[k].tag = "anchor" => html[k].url # html[n].url
        PROVE  \E id \in Known("url-anchor-text-mismatch") :
                  id[5] = <<RegistrableDomain(html[n].label.names), RegistrableDomain(html[n].url.host)>>
    <3> DEFINE shown == RegistrableDomain(html[n].label.names)
               actual == RegistrableDomain(html[n].url.host)
    <3>1. /\ html[n].url \in Urls /\ html[n].label.names \in Host /\ html[n].url.host \in Host
      <4>1. html[n] \in BodyItems
        BY <2>5
      <4>2. html[n].url \in Urls /\ html[n].label \in Labels
        BY <4>1 DEF BodyItems
      <4>3. html[n].url.host \in Hosts /\ html[n].label.names \in Hosts
        BY <4>2 DEF Urls, Labels
      <4> QED BY <2>8, <4>2, <4>3 DEF Hosts
    <3>2. html[n].url.scheme # "relative"
      BY <2>8, <3>1 DEF Urls
    <3>3. shown # NoHost /\ actual # NoHost
      BY <3>1, HostAssumption, LookalikeAssumption
    <3>4. PICK i \in DOMAIN message.links : message.links[i] = LinkOf(html[n].url, html[n].label)
      BY <2>5, <2>6, <2>8, <3>2, AnchorIsALink
    <3> DEFINE link == message.links[i]
               found == Found("url-anchor-text-mismatch", "link", i, <<shown, actual>>)
    <3>5. RegistrableDomain(link.host) = actual /\ RegistrableDomain(link.label.names) = shown
      BY <3>4 DEF LinkOf
    <3> HIDE DEF link, shown, actual
    <3>6. found \in UrlRules(link, i)
      BY <2>8, <3>3, <3>5 DEF UrlRules, When, shown, actual
    <3> HIDE DEF found
    <3>7. found \in UNION {UrlRules(message.links[k], k) \cup HostRules(message.links[k], k) :
                             k \in DOMAIN message.links}
      BY <3>6 DEF link
    <3>8. found \in Detect(message)
      BY <3>7 DEF Detect
    <3>9. found.rule = "url-anchor-text-mismatch" /\ Id(found)[5] = <<shown, actual>>
      BY DEF found, Found, FoundWith, Indicator, Id
    <3> QED BY <2>3, <3>8, <3>9 DEF shown, actual
  <2>9. ASSUME NEW n \in DOMAIN Files(mail.parts),
               Files(mail.parts)[n].suffixes # <<>>, Last(Files(mail.parts)[n].suffixes) \in Executable
        PROVE  \E id \in Known("attachment-executable") : id[3] = Files(mail.parts)[n].name
    <3> DEFINE file == Files(mail.parts)[n]
               found == Found("attachment-executable", "attachment", file.name, <<>>)
    <3>1. found \in TypeRules(file)
      BY <2>9 DEF TypeRules, FinalSuffix, When
    <3>2. file = message.attachments[n] /\ n \in DOMAIN message.attachments
      BY <2>6
    <3> HIDE DEF file, found
    <3>3. found \in UNION {NameRules(message.attachments[k]) \cup TypeRules(message.attachments[k]) :
                             k \in DOMAIN message.attachments}
      BY <3>1, <3>2
    <3>4. found \in Detect(message)
      BY <3>3 DEF Detect
    <3>5. found.rule = "attachment-executable" /\ Id(found)[3] = file.name
      BY DEF found, Found, FoundWith, Indicator, Id
    <3> QED BY <2>3, <3>4, <3>5 DEF file
  <2> QED BY <2>7, <2>8, <2>9
<1> QED BY <1>1, Invariance, EvidenceIsAllThereIs, PTL

----------------------------------------------------------------------------
(* Texts and their edits. *)

\* Equal texts are equal in every position.
LEMMA SameText ==
  ASSUME NEW A, NEW x \in Seq(A), NEW y \in Seq(A), Len(x) = Len(y),
         \A k \in 1 .. Len(x) : x[k] = y[k]
  PROVE  x = y
OBVIOUS

\* The four edits, position by position.
Removes(x, t, i) ==
  /\ i \in 1 .. Len(t) /\ Len(x) = Len(t) - 1
  /\ \A k \in 1 .. Len(x) : x[k] = IF k < i THEN t[k] ELSE t[k + 1]
Changes(x, t, i) ==
  /\ i \in 1 .. Len(t) /\ Len(x) = Len(t)
  /\ \A k \in 1 .. Len(x) : k # i => x[k] = t[k]
Inserts(x, t, i) ==
  /\ i \in 1 .. Len(t) + 1 /\ Len(x) = Len(t) + 1
  /\ \A k \in 1 .. Len(x) : /\ k < i => x[k] = t[k]
                            /\ k > i => x[k] = t[k - 1]
Swaps(x, t, i) ==
  /\ i \in 1 .. Len(t) - 1 /\ Len(x) = Len(t)
  /\ \A k \in 1 .. Len(x) : k # i /\ k # i + 1 => x[k] = t[k]
  /\ x[i] = t[i + 1] /\ x[i + 1] = t[i]
Edited(x, t) ==
  \E i \in Nat : Removes(x, t, i) \/ Changes(x, t, i) \/ Inserts(x, t, i) \/ Swaps(x, t, i)

\* A text without one of its characters.
LEMMA RemovedText ==
  ASSUME NEW A, NEW t \in Seq(A), NEW i \in 1 .. Len(t)
  PROVE  RemoveAt(t, i) \in Seq(A) /\ Removes(RemoveAt(t, i), t, i)
<1> DEFINE u == SubSeq(t, 1, i - 1)
           v == SubSeq(t, i + 1, Len(t))
<1>1. u \in Seq(A) /\ Len(u) = i - 1 /\ \A k \in 1 .. i - 1 : u[k] = t[k]
  OBVIOUS
<1>2. v \in Seq(A) /\ Len(v) = Len(t) - i /\ \A k \in 1 .. Len(t) - i : v[k] = t[k + i]
  OBVIOUS
<1>3. RemoveAt(t, i) = u \o v
  BY DEF RemoveAt
<1> HIDE DEF u, v
<1> DEFINE x == u \o v
<1>4. /\ x \in Seq(A) /\ Len(x) = Len(u) + Len(v)
      /\ \A k \in 1 .. Len(u) + Len(v) : x[k] = IF k <= Len(u) THEN u[k] ELSE v[k - Len(u)]
  BY <1>1, <1>2, ConcatProperties
<1> HIDE DEF x
<1>5. Len(t) \in Nat /\ Len(u) = i - 1 /\ Len(v) = Len(t) - i
  BY <1>1, <1>2
<1>6. ASSUME NEW k \in 1 .. Len(x)
      PROVE  x[k] = IF k < i THEN t[k] ELSE t[k + 1]
  <2>1. k \in 1 .. Len(t) - 1
    BY <1>4, <1>5
  <2>2. CASE k < i
    BY <1>1, <1>4, <1>5, <2>1, <2>2
  <2>3. CASE ~(k < i)
    <3>1. k - (i - 1) \in 1 .. Len(t) - i /\ (k - (i - 1)) + i = k + 1 /\ ~(k <= i - 1)
      BY <1>5, <2>1, <2>3
    <3>2. x[k] = v[k - (i - 1)]
      BY <1>4, <1>5, <2>1, <3>1
    <3>3. v[k - (i - 1)] = t[(k - (i - 1)) + i]
      BY <1>2, <3>1
    <3> QED BY <2>3, <3>1, <3>2, <3>3
  <2> QED BY <2>2, <2>3
<1>7. Len(x) = Len(t) - 1
  BY <1>4, <1>5
<1>8. Removes(x, t, i)
  BY <1>6, <1>7 DEF Removes
<1> QED BY <1>3, <1>4, <1>8 DEF x

\* A text with one character more.
LEMMA InsertedText ==
  ASSUME NEW A, NEW t \in Seq(A), NEW i \in 1 .. Len(t) + 1, NEW c \in A
  PROVE  /\ InsertAt(t, i, c) \in Seq(A) /\ Inserts(InsertAt(t, i, c), t, i)
         /\ InsertAt(t, i, c)[i] = c
<1> DEFINE u == SubSeq(t, 1, i - 1)
           v == SubSeq(t, i, Len(t))
<1>1. u \in Seq(A) /\ Len(u) = i - 1 /\ \A k \in 1 .. i - 1 : u[k] = t[k]
  OBVIOUS
<1>2. v \in Seq(A) /\ Len(v) = Len(t) - i + 1 /\ \A k \in 1 .. Len(t) - i + 1 : v[k] = t[k + i - 1]
  OBVIOUS
<1>3. InsertAt(t, i, c) = u \o <<c>> \o v
  BY DEF InsertAt
<1> HIDE DEF u, v
<1> DEFINE w == u \o <<c>>
<1>4. w \in Seq(A) /\ Len(w) = i /\ w[i] = c /\ \A k \in 1 .. i - 1 : w[k] = t[k]
  BY <1>1
<1> HIDE DEF w
<1> DEFINE x == w \o v
<1>5. /\ x \in Seq(A) /\ Len(x) = Len(w) + Len(v)
      /\ \A k \in 1 .. Len(w) + Len(v) : x[k] = IF k <= Len(w) THEN w[k] ELSE v[k - Len(w)]
  BY <1>2, <1>4, ConcatProperties
<1>6. InsertAt(t, i, c) = x
  BY <1>3 DEF w
<1> HIDE DEF x
<1>7. Len(t) \in Nat /\ Len(w) = i /\ Len(v) = Len(t) - i + 1
  BY <1>2, <1>4
<1>8. ASSUME NEW k \in 1 .. Len(x)
      PROVE  (k < i => x[k] = t[k]) /\ (k > i => x[k] = t[k - 1])
  <2>1. k \in 1 .. Len(t) + 1
    BY <1>5, <1>7
  <2>2. CASE k < i
    BY <1>4, <1>5, <1>7, <2>1, <2>2
  <2>3. CASE k > i
    <3>1. k - i \in 1 .. Len(t) - i + 1 /\ (k - i) + i - 1 = k - 1 /\ ~(k <= i)
      BY <1>7, <2>1, <2>3
    <3>2. x[k] = v[k - i]
      BY <1>5, <1>7, <2>1, <3>1
    <3>3. v[k - i] = t[(k - i) + i - 1]
      BY <1>2, <3>1
    <3> QED BY <2>3, <3>1, <3>2, <3>3
  <2>4. CASE k = i
    BY <2>4
  <2> QED BY <2>1, <2>2, <2>3, <2>4
<1>9. Len(x) = Len(t) + 1 /\ x[i] = c
  BY <1>4, <1>5, <1>7
<1>10. Inserts(x, t, i)
  BY <1>8, <1>9 DEF Inserts
<1> QED BY <1>5, <1>6, <1>9, <1>10

\* What an edit makes of a text.
LEMMA EditsAreEdits ==
  ASSUME NEW A, NEW t \in Seq(A)
  PROVE  /\ Edits(t, A) \in SUBSET Seq(A)
         /\ \A x \in Seq(A) : x \in Edits(t, A) <=> Edited(x, t)
<1>0. DOMAIN t = 1 .. Len(t) /\ Len(t) \in Nat
  OBVIOUS
<1> DEFINE removed == {RemoveAt(t, i) : i \in DOMAIN t}
           changed == {[t EXCEPT ![i] = c] : i \in DOMAIN t, c \in A}
           inserted == {InsertAt(t, i, c) : i \in 1 .. Len(t) + 1, c \in A}
           swapped == {[t EXCEPT ![i] = t[i + 1], ![i + 1] = t[i]] : i \in 1 .. Len(t) - 1}
<1>1. Edits(t, A) = removed \cup changed \cup inserted \cup swapped
  BY DEF Edits
<1>2. removed \in SUBSET Seq(A) /\ \A x \in Seq(A) : x \in removed <=> \E i \in Nat : Removes(x, t, i)
  <2>1. \A x \in removed : \E i \in 1 .. Len(t) : x \in Seq(A) /\ Removes(x, t, i)
    BY <1>0, RemovedText
  <2>2. ASSUME NEW x \in Seq(A), NEW i \in Nat, Removes(x, t, i)
        PROVE  x \in removed
    <3>1. i \in 1 .. Len(t)
      BY <2>2 DEF Removes
    <3>2. RemoveAt(t, i) \in Seq(A) /\ Removes(RemoveAt(t, i), t, i)
      BY <3>1, RemovedText
    <3>3. x = RemoveAt(t, i)
      BY <2>2, <3>2 DEF Removes
    <3> QED BY <1>0, <3>1, <3>3
  <2> HIDE DEF removed
  <2>3. \A i \in 1 .. Len(t) : i \in Nat
    BY <1>0
  <2> QED BY <2>1, <2>2, <2>3
<1>3. changed \in SUBSET Seq(A) /\ \A x \in Seq(A) : x \in changed <=> \E i \in Nat : Changes(x, t, i)
  <2>1. \A i \in 1 .. Len(t), c \in A :
           LET y == [t EXCEPT ![i] = c] IN y \in Seq(A) /\ Changes(y, t, i) /\ y[i] = c
    BY DEF Changes
  <2>2. \A x \in changed : \E i \in 1 .. Len(t) : x \in Seq(A) /\ Changes(x, t, i)
    BY <1>0, <2>1
  <2>3. ASSUME NEW x \in Seq(A), NEW i \in Nat, Changes(x, t, i)
        PROVE  x \in changed
    <3> DEFINE y == [t EXCEPT ![i] = x[i]]
    <3>1. i \in 1 .. Len(t) /\ Len(x) = Len(t)
      BY <2>3 DEF Changes
    <3>2. x[i] \in A
      BY <3>1
    <3>3. y \in Seq(A) /\ Len(y) = Len(t) /\ \A k \in 1 .. Len(t) : y[k] = IF k = i THEN x[i] ELSE t[k]
      BY <3>1, <3>2, ExceptSeq
    <3>4. y \in changed
      <4>1. i \in DOMAIN t /\ x[i] \in A
        BY <1>0, <3>1, <3>2
      <4> DEFINE Put(j, c) == [t EXCEPT ![j] = c]
      <4>2. changed = {Put(j, c) : j \in DOMAIN t, c \in A} /\ y = Put(i, x[i])
        OBVIOUS
      <4> HIDE DEF changed, y, Put
      <4> QED BY <4>1, <4>2
    <3> HIDE DEF y, changed
    <3>5. x = y
      <4>1. Len(x) = Len(y) /\ \A k \in 1 .. Len(x) : x[k] = y[k]
        BY <2>3, <3>1, <3>3 DEF Changes
      <4> QED BY <3>3, <4>1, SameText
    <3> QED BY <3>4, <3>5
  <2> HIDE DEF changed
  <2>4. \A i \in 1 .. Len(t) : i \in Nat
    BY <1>0
  <2> QED BY <2>2, <2>3, <2>4
<1>4. inserted \in SUBSET Seq(A) /\ \A x \in Seq(A) : x \in inserted <=> \E i \in Nat : Inserts(x, t, i)
  <2>1. \A x \in inserted : \E i \in 1 .. Len(t) + 1 : x \in Seq(A) /\ Inserts(x, t, i)
    BY InsertedText
  <2>2. ASSUME NEW x \in Seq(A), NEW i \in Nat, Inserts(x, t, i)
        PROVE  x \in inserted
    <3> DEFINE y == InsertAt(t, i, x[i])
    <3>1. i \in 1 .. Len(t) + 1 /\ Len(x) = Len(t) + 1
      BY <2>2 DEF Inserts
    <3>2. x[i] \in A
      BY <3>1
    <3>3. y \in Seq(A) /\ Inserts(y, t, i) /\ y[i] = x[i]
      BY <3>1, <3>2, InsertedText
    <3>4. y \in inserted
      BY <3>1, <3>2
    <3> HIDE DEF y, inserted
    <3>5. x = y
      <4>1. Len(x) = Len(y) /\ \A k \in 1 .. Len(x) : x[k] = y[k]
        BY <2>2, <3>3 DEF Inserts
      <4> QED BY <3>3, <4>1, SameText
    <3> QED BY <3>4, <3>5
  <2> HIDE DEF inserted
  <2>3. \A i \in 1 .. Len(t) + 1 : i \in Nat
    BY <1>0
  <2> QED BY <2>1, <2>2, <2>3
<1>5. swapped \in SUBSET Seq(A) /\ \A x \in Seq(A) : x \in swapped <=> \E i \in Nat : Swaps(x, t, i)
  <2>1. \A i \in 1 .. Len(t) - 1 :
           LET y == [t EXCEPT ![i] = t[i + 1], ![i + 1] = t[i]] IN y \in Seq(A) /\ Swaps(y, t, i)
    BY DEF Swaps
  <2>2. \A x \in swapped : \E i \in 1 .. Len(t) - 1 : x \in Seq(A) /\ Swaps(x, t, i)
    BY <2>1
  <2>3. ASSUME NEW x \in Seq(A), NEW i \in Nat, Swaps(x, t, i)
        PROVE  x \in swapped
    <3> DEFINE y == [t EXCEPT ![i] = t[i + 1], ![i + 1] = t[i]]
    <3>1. i \in 1 .. Len(t) - 1
      BY <2>3 DEF Swaps
    <3>2. y \in Seq(A) /\ Swaps(y, t, i) /\ y \in swapped
      BY <2>1, <3>1
    <3> HIDE DEF y, swapped
    <3>3. x = y
      <4>1. Len(x) = Len(y) /\ \A k \in 1 .. Len(x) : x[k] = y[k]
        BY <2>3, <3>2 DEF Swaps
      <4> QED BY <3>2, <4>1, SameText
    <3> QED BY <3>2, <3>3
  <2> HIDE DEF swapped
  <2>4. \A i \in 1 .. Len(t) - 1 : i \in Nat
    BY <1>0
  <2> QED BY <2>2, <2>3, <2>4
<1> HIDE DEF removed, changed, inserted, swapped
<1> QED BY <1>1, <1>2, <1>3, <1>4, <1>5 DEF Edited

\* Edits of what comes before a character, and of that character.
LEMMA EditsOfLonger ==
  ASSUME NEW A, NEW t \in Seq(A), NEW c \in A
  PROVE  /\ \A x \in Edits(t, A) : Append(x, c) \in Edits(Append(t, c), A)
         /\ t \in Edits(Append(t, c), A) /\ Append(t, c) \in Edits(t, A)
         /\ \A b \in A : Append(t, b) \in Edits(Append(t, c), A)
         /\ \A b \in A : Append(Append(t, c), b) \in Edits(Append(Append(t, b), c), A)
<1>0. Len(t) \in Nat /\ \A b \in A : Append(t, b) \in Seq(A)
  OBVIOUS
<1>1. ASSUME NEW x \in Edits(t, A)
      PROVE  Append(x, c) \in Edits(Append(t, c), A)
  <2>1. x \in Seq(A) /\ Edited(x, t)
    BY EditsAreEdits
  <2> DEFINE y == Append(x, c)
             u == Append(t, c)
  <2>2. /\ y \in Seq(A) /\ Len(y) = Len(x) + 1 /\ y[Len(x) + 1] = c /\ Len(x) \in Nat
        /\ \A k \in 1 .. Len(x) : y[k] = x[k]
    BY <2>1
  <2>3. /\ u \in Seq(A) /\ Len(u) = Len(t) + 1 /\ u[Len(t) + 1] = c
        /\ \A k \in 1 .. Len(t) : u[k] = t[k]
    OBVIOUS
  <2> HIDE DEF y, u
  <2>4. PICK i \in Nat : Removes(x, t, i) \/ Changes(x, t, i) \/ Inserts(x, t, i) \/ Swaps(x, t, i)
    BY <2>1 DEF Edited
  <2>5. CASE Removes(x, t, i)
    <3>1. Removes(y, u, i)
      BY <1>0, <2>2, <2>3, <2>5 DEF Removes
    <3> QED BY <2>2, <2>3, <3>1, EditsAreEdits DEF y, u, Edited
  <2>6. CASE Changes(x, t, i)
    <3>1. Changes(y, u, i)
      BY <1>0, <2>2, <2>3, <2>6 DEF Changes
    <3> QED BY <2>2, <2>3, <3>1, EditsAreEdits DEF y, u, Edited
  <2>7. CASE Inserts(x, t, i)
    <3>1. i \in 1 .. Len(t) + 1 /\ Len(x) = Len(t) + 1 /\ Len(y) = Len(t) + 2
      BY <2>2, <2>7 DEF Inserts
    <3>2. ASSUME NEW k \in 1 .. Len(y)
          PROVE  (k < i => y[k] = u[k]) /\ (k > i => y[k] = u[k - 1])
      <4>1. CASE k <= Len(x)
        <5>1. (k < i => x[k] = t[k]) /\ (k > i => x[k] = t[k - 1])
          BY <2>7, <3>1, <4>1 DEF Inserts
        <5>2. y[k] = x[k] /\ (k < i => u[k] = t[k]) /\ (k > i => u[k - 1] = t[k - 1])
          BY <1>0, <2>2, <2>3, <3>1, <4>1
        <5> QED BY <5>1, <5>2
      <4>2. CASE k = Len(x) + 1
        BY <2>2, <2>3, <3>1, <4>2
      <4> QED BY <2>2, <4>1, <4>2
    <3>3. Inserts(y, u, i)
      BY <1>0, <2>3, <3>1, <3>2 DEF Inserts
    <3> QED BY <2>2, <2>3, <3>3, EditsAreEdits DEF y, u, Edited
  <2>8. CASE Swaps(x, t, i)
    <3>1. Swaps(y, u, i)
      BY <1>0, <2>2, <2>3, <2>8 DEF Swaps
    <3> QED BY <2>2, <2>3, <3>1, EditsAreEdits DEF y, u, Edited
  <2> QED BY <2>4, <2>5, <2>6, <2>7, <2>8
<1>2. Removes(t, Append(t, c), Len(t) + 1) /\ Inserts(Append(t, c), t, Len(t) + 1)
  BY <1>0 DEF Removes, Inserts
<1>3. \A b \in A : Changes(Append(t, b), Append(t, c), Len(t) + 1)
  BY <1>0 DEF Changes
<1>4. ASSUME NEW b \in A
      PROVE  /\ Append(Append(t, c), b) \in Seq(A) /\ Append(Append(t, b), c) \in Seq(A)
             /\ Swaps(Append(Append(t, c), b), Append(Append(t, b), c), Len(t) + 1)
  BY <1>0 DEF Swaps
<1>5. Len(t) + 1 \in Nat
  BY <1>0
<1> QED BY <1>0, <1>1, <1>2, <1>3, <1>4, <1>5, EditsAreEdits DEF Edited

\* What each step computes from the one before exists.
Follows(f, T, base, n, F) ==
  f \in [0 .. n -> T] /\ f[0] = base /\ \A k \in 1 .. n : f[k] = F[k][f[k - 1]]
LEMMA Recursion ==
  ASSUME NEW T, NEW base \in T, NEW n \in Nat, NEW F \in [1 .. n -> [T -> T]]
  PROVE  \E f : Follows(f, T, base, n, F)
<1> DEFINE Start(f, k) == f \in [0 .. k -> T] /\ f[0] = base /\ \A j \in 1 .. k : f[j] = F[j][f[j - 1]]
           G == {k \in 0 .. n : \E f : Start(f, k)}
<1>1. 0 \in G
  <2> DEFINE f == [j \in 0 .. 0 |-> base]
  <2>1. f \in [0 .. 0 -> T] /\ f[0] = base /\ \A j \in 1 .. 0 : FALSE
    OBVIOUS
  <2> HIDE DEF f
  <2>2. Start(f, 0)
    BY <2>1
  <2> HIDE DEF Start
  <2> QED BY <2>2
<1>2. ASSUME NEW k \in 0 .. n - 1, k \in G
      PROVE  k + 1 \in G
  <2>1. PICK f : Start(f, k)
    BY <1>2
  <2> DEFINE g == [j \in 0 .. k + 1 |-> IF j = k + 1 THEN F[k + 1][f[k]] ELSE f[j]]
  <2>2. F[k + 1][f[k]] \in T
    BY <2>1
  <2>3. \A j \in 0 .. k : g[j] = f[j]
    OBVIOUS
  <2>4. g[k + 1] = F[k + 1][g[k]]
    BY <2>3
  <2>5. g \in [0 .. k + 1 -> T]
    BY <2>1, <2>2
  <2> HIDE DEF g
  <2>6. ASSUME NEW j \in 1 .. k + 1
        PROVE  g[j] = F[j][g[j - 1]]
    <3>1. CASE j = k + 1
      BY <2>4, <3>1
    <3>2. CASE j \in 1 .. k
      BY <2>1, <2>3, <3>2
    <3> QED BY <3>1, <3>2
  <2>7. Start(g, k + 1)
    BY <2>1, <2>3, <2>5, <2>6
  <2> QED BY <2>7
<1> HIDE DEF G
<1>3. \A k \in 0 .. n : k \in G
  BY <1>1, <1>2, UpTo
<1>4. n \in G
  BY <1>3
<1>5. PICK f : Start(f, n)
  BY <1>4 DEF G
<1> QED BY <1>5 DEF Follows

\* The texts of S, and those one edit away.
Grown(S, A) == S \cup UNION {Edits(t, A) : t \in S}

\* The texts within so many edits, step by step.
Steps(w, t, n, A) ==
  /\ w \in [0 .. n -> SUBSET Seq(A)] /\ w[0] = {t}
  /\ \A k \in 1 .. n : w[k] = Grown(w[k - 1], A)

LEMMA GrownAreTexts ==
  ASSUME NEW A, NEW S \in SUBSET Seq(A)
  PROVE  Grown(S, A) \in SUBSET Seq(A)
BY EditsAreEdits DEF Grown

LEMMA WithinIs ==
  ASSUME NEW A, NEW t \in Seq(A), NEW n \in Nat
  PROVE  \E w : Steps(w, t, n, A) /\ WithinEdits(t, n, A) = w[n]
<1> DEFINE T == SUBSET Seq(A)
           F == [k \in 1 .. n |-> [S \in T |-> Grown(S, A)]]
           Value(w, k) == IF k = 0 THEN {t}
                          ELSE LET fewer == w[k - 1] IN fewer \cup UNION {Edits(u, A) : u \in fewer}
           Is(w) == w = [k \in 0 .. n |-> Value(w, k)]
           within == CHOOSE w : Is(w)
<1>1. F \in [1 .. n -> [T -> T]] /\ {t} \in T
  BY GrownAreTexts
<1>2. \A k \in 1 .. n : \A S \in T : F[k][S] = Grown(S, A)
  OBVIOUS
<1>3. \E f \in [0 .. n -> T] : f[0] = {t} /\ \A k \in 1 .. n : f[k] = F[k][f[k - 1]]
  <2> DEFINE base == {t}
  <2>2. base \in T
    OBVIOUS
  <2> HIDE DEF T, F, base
  <2>3. n \in Nat /\ F \in [1 .. n -> [T -> T]]
    BY <1>1
  <2>4. \E f : Follows(f, T, base, n, F)
    BY <2>2, <2>3, Recursion
  <2> QED BY <2>4 DEF base, Follows
<1>4. PICK f \in [0 .. n -> T] : f[0] = {t} /\ \A k \in 1 .. n : f[k] = F[k][f[k - 1]]
  BY <1>3
<1>5. \A k \in 1 .. n : f[k - 1] \in T /\ f[k] = Grown(f[k - 1], A)
  <2> TAKE k \in 1 .. n
  <2>1. f[k - 1] \in T
    OBVIOUS
  <2> HIDE DEF T, F
  <2> QED BY <1>2, <1>4, <2>1
<1>6. \A k \in 0 .. n : f[k] = Value(f, k)
  BY <1>4, <1>5 DEF Grown
<1>7. f = [k \in 0 .. n |-> Value(f, k)]
  <2> HIDE DEF Value, T
  <2> QED BY <1>6
<1>8. Is(within)
  <2> HIDE DEF Value
  <2> QED BY <1>7
<1>9. WithinEdits(t, n, A) = within[n]
  BY DEF WithinEdits
<1> HIDE DEF within
<1>10. \A k \in 0 .. n : within[k] = Value(within, k)
  <2> HIDE DEF Value
  <2> QED BY <1>8
<1>11. /\ within[0] = {t} /\ DOMAIN within = 0 .. n
       /\ \A k \in 1 .. n : within[k] = Grown(within[k - 1], A)
  <2>1. within[0] = Value(within, 0) /\ DOMAIN within = 0 .. n
    <3> HIDE DEF Value
    <3> QED BY <1>8, <1>10
  <2>2. ASSUME NEW k \in 1 .. n
        PROVE  within[k] = Grown(within[k - 1], A)
    <3>1. k \in 0 .. n /\ k # 0
      OBVIOUS
    <3>2. within[k] = Value(within, k)
      BY <1>10, <3>1
    <3> QED BY <3>1, <3>2 DEF Grown
  <2> QED BY <2>1, <2>2
<1>12. \A k \in 0 .. n : within[k] \in SUBSET Seq(A)
  <2> DEFINE G == {k \in 0 .. n : within[k] \in SUBSET Seq(A)}
  <2>1. 0 \in G
    BY <1>11
  <2>2. ASSUME NEW k \in 0 .. n - 1, k \in G
        PROVE  k + 1 \in G
    <3>1. within[k + 1] = Grown(within[k], A) /\ k + 1 \in 0 .. n /\ within[k] \in SUBSET Seq(A)
      BY <1>11, <2>2
    <3> QED BY <3>1, GrownAreTexts
  <2> HIDE DEF G
  <2>3. \A k \in 0 .. n : k \in G
    BY <2>1, <2>2, UpTo
  <2> QED BY <2>3 DEF G
<1>13. Steps(within, t, n, A)
  BY <1>8, <1>11, <1>12 DEF Steps
<1> QED BY <1>9, <1>13

\* The texts within n + 1 edits are those within n, and those one edit away.
LEMMA WithinSteps ==
  ASSUME NEW A, NEW t \in Seq(A), NEW n \in Nat
  PROVE  /\ WithinEdits(t, 0, A) = {t}
         /\ WithinEdits(t, n, A) \in SUBSET Seq(A)
         /\ WithinEdits(t, n + 1, A) = Grown(WithinEdits(t, n, A), A)
<1>1. PICK v : Steps(v, t, n, A) /\ WithinEdits(t, n, A) = v[n]
  BY WithinIs
<1>2. n + 1 \in Nat /\ 0 \in Nat
  OBVIOUS
<1>3. PICK w : Steps(w, t, n + 1, A) /\ WithinEdits(t, n + 1, A) = w[n + 1]
  BY <1>2, WithinIs
<1>4. PICK u : Steps(u, t, 0, A) /\ WithinEdits(t, 0, A) = u[0]
  BY <1>2, WithinIs
<1> DEFINE G == {k \in 0 .. n : v[k] = w[k]}
<1>5. 0 \in G
  <2>1. v[0] = {t} /\ w[0] = {t}
    BY <1>1, <1>3 DEF Steps
  <2>2. v[0] = w[0] /\ 0 \in 0 .. n
    BY <2>1
  <2> QED BY <2>2
<1>6. ASSUME NEW k \in 0 .. n - 1, k \in G
      PROVE  k + 1 \in G
  <2>1. k + 1 \in 1 .. n /\ k + 1 \in 1 .. n + 1 /\ (k + 1) - 1 = k /\ v[k] = w[k]
    BY <1>6
  <2>2. v[k + 1] = Grown(v[k], A) /\ w[k + 1] = Grown(w[k], A)
    BY <1>1, <1>3, <2>1 DEF Steps
  <2> QED BY <2>1, <2>2
<1> HIDE DEF G
<1>7. \A k \in 0 .. n : k \in G
  BY <1>5, <1>6, UpTo
<1>8. v[n] = w[n] /\ n + 1 \in 1 .. n + 1 /\ (n + 1) - 1 = n
  BY <1>7 DEF G
<1>9. w[n + 1] = Grown(w[n], A) /\ v[n] \in SUBSET Seq(A) /\ u[0] = {t}
  BY <1>1, <1>3, <1>4, <1>8 DEF Steps
<1> QED BY <1>1, <1>3, <1>4, <1>8, <1>9

\* One edit more, wherever it is made; and characters that both texts go on with.
LEMMA WithinMore ==
  ASSUME NEW A, NEW t \in Seq(A), NEW n \in Nat
  PROVE  /\ WithinEdits(t, n, A) \subseteq WithinEdits(t, n + 1, A)
         /\ \A x \in WithinEdits(t, n, A) : Edits(x, A) \subseteq WithinEdits(t, n + 1, A)
         /\ \A u \in Edits(t, A) : WithinEdits(u, n, A) \subseteq WithinEdits(t, n + 1, A)
         /\ \A x \in WithinEdits(t, n, A) : \A c \in A : Append(x, c) \in WithinEdits(Append(t, c), n, A)
<1> DEFINE W(u, k) == WithinEdits(u, k, A)
<1>0. /\ \A u \in Seq(A) : W(u, 0) = {u}
      /\ \A u \in Seq(A) : \A k \in Nat : W(u, k) \in SUBSET Seq(A) /\ W(u, k + 1) = Grown(W(u, k), A)
  BY WithinSteps
<1> HIDE DEF W
<1>1. W(t, n) \subseteq W(t, n + 1) /\ \A x \in W(t, n) : Edits(x, A) \subseteq W(t, n + 1)
  BY <1>0 DEF Grown
<1>2. ASSUME NEW u \in Edits(t, A)
      PROVE  W(u, n) \subseteq W(t, n + 1)
  <2> DEFINE G == {k \in 0 .. n : W(u, k) \subseteq W(t, k + 1)}
  <2>1. u \in Seq(A)
    BY EditsAreEdits
  <2>2. 0 \in G
    <3>1. W(u, 0) = {u} /\ W(t, 0) = {t} /\ W(t, 0 + 1) = Grown(W(t, 0), A)
      BY <1>0, <2>1
    <3>2. W(u, 0) \subseteq W(t, 0 + 1)
      BY <3>1 DEF Grown
    <3> QED BY <3>2
  <2>3. ASSUME NEW k \in 0 .. n - 1, k \in G
        PROVE  k + 1 \in G
    <3>1. k \in Nat /\ k + 1 \in Nat /\ k + 1 \in 0 .. n
      OBVIOUS
    <3>2. W(u, k + 1) = Grown(W(u, k), A) /\ W(t, (k + 1) + 1) = Grown(W(t, k + 1), A)
      BY <1>0, <2>1, <3>1
    <3>3. W(u, k) \subseteq W(t, k + 1)
      BY <2>3
    <3>4. Grown(W(u, k), A) \subseteq Grown(W(t, k + 1), A)
      BY <3>3, Zenon DEF Grown
    <3> QED BY <3>1, <3>2, <3>4
  <2> HIDE DEF G
  <2>4. \A k \in 0 .. n : k \in G
    BY <2>2, <2>3, UpTo
  <2> QED BY <2>4 DEF G
<1>3. ASSUME NEW c \in A
      PROVE  \A x \in W(t, n) : Append(x, c) \in W(Append(t, c), n)
  <2> DEFINE u == Append(t, c)
             G == {k \in 0 .. n : \A x \in W(t, k) : Append(x, c) \in W(u, k)}
  <2>1. u \in Seq(A)
    OBVIOUS
  <2>2. 0 \in G
    <3>1. W(u, 0) = {u} /\ W(t, 0) = {t}
      BY <1>0, <2>1
    <3>2. \A x \in W(t, 0) : Append(x, c) \in W(u, 0)
      BY <3>1
    <3> QED BY <3>2
  <2>3. ASSUME NEW k \in 0 .. n - 1, k \in G
        PROVE  k + 1 \in G
    <3> HIDE DEF u
    <3>1. k \in Nat /\ k + 1 \in 0 .. n
      OBVIOUS
    <3>2. /\ W(u, k + 1) = Grown(W(u, k), A) /\ W(t, k + 1) = Grown(W(t, k), A)
          /\ W(t, k) \in SUBSET Seq(A)
      BY <1>0, <2>1, <3>1
    <3>3. ASSUME NEW x \in W(t, k + 1)
          PROVE  Append(x, c) \in W(u, k + 1)
      <4>1. CASE x \in W(t, k)
        BY <2>3, <3>2, <4>1 DEF Grown
      <4>2. CASE \E y \in W(t, k) : x \in Edits(y, A)
        <5>1. PICK y \in W(t, k) : x \in Edits(y, A)
          BY <4>2
        <5>2. y \in Seq(A) /\ Append(y, c) \in W(u, k)
          BY <2>3, <3>2
        <5>3. Append(x, c) \in Edits(Append(y, c), A)
          BY <5>1, <5>2, EditsOfLonger
        <5> QED BY <3>2, <5>2, <5>3 DEF Grown
      <4> QED BY <3>2, <4>1, <4>2 DEF Grown
    <3> QED BY <3>1, <3>3
  <2> HIDE DEF G
  <2>4. \A k \in 0 .. n : k \in G
    BY <2>2, <2>3, UpTo
  <2> QED BY <2>4 DEF G
<1> QED BY <1>1, <1>2, <1>3 DEF W

\* Fewer edits are within more.
LEMMA WithinFewer ==
  ASSUME NEW A, NEW t \in Seq(A), NEW m \in Nat, NEW n \in Nat, m <= n
  PROVE  WithinEdits(t, m, A) \subseteq WithinEdits(t, n, A)
<1> DEFINE G == {k \in 0 .. n - m : WithinEdits(t, m, A) \subseteq WithinEdits(t, m + k, A)}
<1>0. n - m \in Nat
  OBVIOUS
<1>1. 0 \in G
  OBVIOUS
<1>2. ASSUME NEW k \in 0 .. (n - m) - 1, k \in G
      PROVE  k + 1 \in G
  <2>1. m + k \in Nat /\ (m + k) + 1 = m + (k + 1) /\ k + 1 \in 0 .. n - m
    OBVIOUS
  <2>2. WithinEdits(t, m + k, A) \subseteq WithinEdits(t, (m + k) + 1, A)
    BY <2>1, WithinMore
  <2> QED BY <1>2, <2>1, <2>2
<1> HIDE DEF G
<1>3. \A k \in 0 .. n - m : k \in G
  BY <1>0, <1>1, <1>2, UpTo
<1>4. n - m \in 0 .. n - m /\ m + (n - m) = n
  OBVIOUS
<1> QED BY <1>3, <1>4 DEF G

\* What a cell of the table is the least of, and the table by its rows.
Price(x, y, i, j) == IF x[i] = y[j] THEN 0 ELSE 1
Crossed(x, y, i, j) == i > 1 /\ j > 1 /\ x[i] = y[j - 1] /\ x[i - 1] = y[j]
Prices(x, y, g, i, j) ==
  {g[i - 1][j] + 1, g[i][j - 1] + 1, g[i - 1][j - 1] + Price(x, y, i, j)}
  \cup IF Crossed(x, y, i, j) THEN {g[i - 2][j - 2] + Price(x, y, i, j)} ELSE {}
IsTable(g, x, y) ==
  /\ g \in [0 .. Len(x) -> [0 .. Len(y) -> Nat]]
  /\ \A i \in 0 .. Len(x), j \in 0 .. Len(y) : i = 0 \/ j = 0 => g[i][j] = i + j
  /\ \A i \in 1 .. Len(x), j \in 1 .. Len(y) : g[i][j] = Min(Prices(x, y, g, i, j))

\* The least of three or four numbers.
FewNumbers(D) == D = {} \/ \E d \in Nat : D = {d}
LeastOf(x, S) == x \in S /\ \A s \in S : x <= s

LEMMA LeastOfFew ==
  ASSUME NEW a \in Nat, NEW b \in Nat, NEW c \in Nat, NEW D, FewNumbers(D)
  PROVE  Min({a, b, c} \cup D) \in Nat /\ LeastOf(Min({a, b, c} \cup D), {a, b, c} \cup D)
<1> DEFINE S == {a, b, c} \cup D
<1>1. S \in SUBSET Int /\ S # {} /\ S \in SUBSET Nat
  BY DEF FewNumbers
<1>2. IsFiniteSet(S)
  <2>1. IsFiniteSet({a}) /\ IsFiniteSet({b}) /\ IsFiniteSet({c}) /\ IsFiniteSet(D)
    BY FS_EmptySet, FS_Singleton DEF FewNumbers
  <2>2. S = {a} \cup {b} \cup {c} \cup D
    OBVIOUS
  <2>3. IsFiniteSet({a} \cup {b})
    BY <2>1, FS_Union
  <2>4. IsFiniteSet({a} \cup {b} \cup {c})
    BY <2>1, <2>3, FS_Union
  <2>5. IsFiniteSet({a} \cup {b} \cup {c} \cup D)
    BY <2>1, <2>4, FS_Union
  <2> QED BY <2>2, <2>5
<1> HIDE DEF S
<1>3. Min(S) \in S /\ \A s \in S : Min(S) <= s
  BY <1>1, <1>2, MinIsElement
<1>4. Min(S) \in Nat /\ LeastOf(Min(S), S)
  BY <1>1, <1>3 DEF LeastOf
<1> QED BY <1>4 DEF S

\* A row, from the two above it.
RowPrices(before, above, last, x, y, i, j) ==
  {above[j] + 1, last + 1, above[j - 1] + Price(x, y, i, j)}
  \cup IF Crossed(x, y, i, j) THEN {before[j - 2] + Price(x, y, i, j)} ELSE {}
IsRow(row, before, above, x, y, i) ==
  /\ row \in [0 .. Len(y) -> Nat] /\ row[0] = i
  /\ \A j \in 1 .. Len(y) : row[j] = Min(RowPrices(before, above, row[j - 1], x, y, i, j))

LEMMA RowExists ==
  ASSUME NEW A, NEW x \in Seq(A), NEW y \in Seq(A), NEW i \in 1 .. Len(x),
         NEW before \in [0 .. Len(y) -> Nat], NEW above \in [0 .. Len(y) -> Nat]
  PROVE  \E row : IsRow(row, before, above, x, y, i)
<1> DEFINE n == Len(y)
           C(j, last) == RowPrices(before, above, last, x, y, i, j)
           F == [j \in 1 .. n |-> [last \in Nat |-> Min(C(j, last))]]
<1>1. n \in Nat /\ i \in Nat
  OBVIOUS
<1>2. ASSUME NEW j \in 1 .. n, NEW last \in Nat
      PROVE  Min(C(j, last)) \in Nat
  <2> DEFINE p == Price(x, y, i, j)
             D == IF Crossed(x, y, i, j) THEN {before[j - 2] + p} ELSE {}
  <2>1. p \in Nat /\ j \in 0 .. n /\ j - 1 \in 0 .. n
    BY <1>1 DEF Price
  <2>2. Crossed(x, y, i, j) => j - 2 \in 0 .. n
    BY <1>1 DEF Crossed
  <2> HIDE DEF n, p
  <2>3. above[j] \in Nat /\ above[j - 1] \in Nat /\ (Crossed(x, y, i, j) => before[j - 2] \in Nat)
    BY <2>1, <2>2 DEF n
  <2>4. above[j] + 1 \in Nat /\ last + 1 \in Nat /\ above[j - 1] + p \in Nat
    BY <2>1, <2>3
  <2>5. FewNumbers(D)
    <3> DEFINE d == before[j - 2] + p
    <3>1. Crossed(x, y, i, j) => d \in Nat
      BY <2>1, <2>3
    <3>2. D = IF Crossed(x, y, i, j) THEN {d} ELSE {}
      OBVIOUS
    <3> HIDE DEF d, D
    <3> QED BY <3>1, <3>2 DEF FewNumbers
  <2>6. C(j, last) = {above[j] + 1, last + 1, above[j - 1] + p} \cup D
    BY DEF RowPrices, p
  <2> DEFINE a == above[j] + 1
             b == last + 1
             c == above[j - 1] + p
  <2>7. a \in Nat /\ b \in Nat /\ c \in Nat /\ C(j, last) = {a, b, c} \cup D
    BY <2>4, <2>6
  <2> HIDE DEF D, C, a, b, c
  <2>8. Min({a, b, c} \cup D) \in Nat
    BY <2>5, <2>7, LeastOfFew
  <2> QED BY <2>7, <2>8
<1>3. F \in [1 .. n -> [Nat -> Nat]]
  <2> HIDE DEF C, n
  <2> QED BY <1>2
<1>4. PICK row \in [0 .. n -> Nat] : row[0] = i /\ \A j \in 1 .. n : row[j] = F[j][row[j - 1]]
  <2>1. n \in Nat /\ i \in Nat /\ F \in [1 .. n -> [Nat -> Nat]]
    BY <1>1, <1>3
  <2> HIDE DEF F, n
  <2>2. PICK row : Follows(row, Nat, i, n, F)
    BY <2>1, Recursion
  <2> QED BY <2>2 DEF Follows
<1>5. \A j \in 1 .. n : row[j] = Min(C(j, row[j - 1]))
  <2> HIDE DEF C
  <2> TAKE j \in 1 .. n
  <2>1. j - 1 \in 0 .. n
    BY <1>1
  <2>2. row[j - 1] \in Nat
    BY <2>1
  <2> QED BY <1>4, <2>2
<1> QED BY <1>4, <1>5 DEF IsRow

\* The table exists.
LEMMA TableExists ==
  ASSUME NEW A, NEW x \in Seq(A), NEW y \in Seq(A)
  PROVE  \E g : IsTable(g, x, y)
<1> DEFINE m == Len(x)
           n == Len(y)
           R == [0 .. n -> Nat]
           T == [{"before", "above"} -> R]
           Row(p, i) == CHOOSE row : IsRow(row, p["before"], p["above"], x, y, i)
           Move(p, i) == [k \in {"before", "above"} |-> IF k = "before" THEN p["above"] ELSE Row(p, i)]
           F == [i \in 1 .. m |-> [p \in T |-> Move(p, i)]]
           zero == [j \in 0 .. n |-> j]
           base == [k \in {"before", "above"} |-> zero]
<1>1. m \in Nat /\ n \in Nat
  OBVIOUS
<1>2. ASSUME NEW i \in 1 .. m, NEW p \in T
      PROVE  IsRow(Row(p, i), p["before"], p["above"], x, y, i)
  <2>1. p["before"] \in R /\ p["above"] \in R
    OBVIOUS
  <2>2. \E row : IsRow(row, p["before"], p["above"], x, y, i)
    BY <2>1, RowExists
  <2> QED BY <2>2
<1>3. F \in [1 .. m -> [T -> T]]
  <2>1. ASSUME NEW i \in 1 .. m, NEW p \in T
        PROVE  Move(p, i) \in T
    <3>1. Row(p, i) \in R
      BY <1>2 DEF IsRow
    <3>2. p["above"] \in R
      OBVIOUS
    <3> HIDE DEF R, Row
    <3> QED BY <3>1, <3>2
  <2> HIDE DEF T, Move, m
  <2> QED BY <2>1
<1>4. base \in T
  OBVIOUS
<1>5. PICK f \in [0 .. m -> T] : f[0] = base /\ \A i \in 1 .. m : f[i] = F[i][f[i - 1]]
  <2>1. m \in Nat /\ base \in T /\ F \in [1 .. m -> [T -> T]]
    BY <1>1, <1>3, <1>4
  <2> HIDE DEF F, T, base, m
  <2>2. PICK f : Follows(f, T, base, m, F)
    BY <2>1, Recursion
  <2> QED BY <2>2 DEF Follows
<1> DEFINE g == [i \in 0 .. m |-> f[i]["above"]]
<1>6. ASSUME NEW i \in 1 .. m
      PROVE  /\ f[i]["before"] = g[i - 1] /\ IsRow(g[i], f[i - 1]["before"], g[i - 1], x, y, i)
  <2>0. i - 1 \in 0 .. m /\ i \in 0 .. m
    BY <1>1
  <2>1. f[i - 1] \in T /\ i - 1 \in 0 .. m /\ i \in 0 .. m
    <3> HIDE DEF T, m
    <3> QED BY <2>0
  <2>2. f[i] = Move(f[i - 1], i)
    <3> HIDE DEF T, Move
    <3> QED BY <1>5, <2>1
  <2>3. f[i]["before"] = f[i - 1]["above"] /\ f[i]["above"] = Row(f[i - 1], i)
    <3> HIDE DEF Row
    <3> QED BY <2>2
  <2> HIDE DEF Row, T, Move, F
  <2>4. IsRow(Row(f[i - 1], i), f[i - 1]["before"], f[i - 1]["above"], x, y, i)
    BY <1>2, <2>1
  <2> QED BY <2>1, <2>3, <2>4
<1>7. g[0] = zero
  BY <1>1, <1>5
<1>8. \A i \in 0 .. m : g[i] \in R
  BY <1>5
<1> HIDE DEF F, g, T, Row, Move
<1>9. g \in [0 .. m -> R]
  <2>1. g = [i \in 0 .. m |-> g[i]]
    BY DEF g
  <2> HIDE DEF R
  <2> QED BY <1>8, <2>1
<1>10. \A i \in 0 .. m, j \in 0 .. n : i = 0 \/ j = 0 => g[i][j] = i + j
  <2> TAKE i \in 0 .. m, j \in 0 .. n
  <2>1. CASE i = 0
    BY <1>7, <2>1
  <2>2. CASE i # 0 /\ j = 0
    <3>1. i \in 1 .. m
      BY <1>1, <2>2
    <3>2. g[i][0] = i
      BY <1>6, <3>1 DEF IsRow
    <3> QED BY <2>2, <3>1, <3>2
  <2> QED BY <2>1, <2>2
<1>11. ASSUME NEW i \in 1 .. m, NEW j \in 1 .. n
       PROVE  g[i][j] = Min(Prices(x, y, g, i, j))
  <2>1. g[i][j] = Min(RowPrices(f[i - 1]["before"], g[i - 1], g[i][j - 1], x, y, i, j))
    BY <1>6 DEF IsRow
  <2>2. RowPrices(f[i - 1]["before"], g[i - 1], g[i][j - 1], x, y, i, j) = Prices(x, y, g, i, j)
    <3>1. CASE Crossed(x, y, i, j)
      <4>1. i - 1 \in 1 .. m /\ (i - 1) - 1 = i - 2
        BY <1>1, <3>1 DEF Crossed
      <4>2. f[i - 1]["before"] = g[i - 2]
        BY <1>6, <4>1
      <4> QED BY <3>1, <4>2 DEF RowPrices, Prices
    <3>2. CASE ~Crossed(x, y, i, j)
      BY <3>2 DEF RowPrices, Prices
    <3> QED BY <3>1, <3>2
  <2> QED BY <2>1, <2>2
<1> QED BY <1>9, <1>10, <1>11 DEF IsTable

\* The distance is the last cell of that table.
LEMMA DistanceIs ==
  ASSUME NEW A, NEW x \in Seq(A), NEW y \in Seq(A)
  PROVE  \E g : IsTable(g, x, y) /\ Distance(x, y) = g[Len(x)][Len(y)]
<1> DEFINE m == Len(x)
           n == Len(y)
           Value(t, at) == IF at[1] = 0 \/ at[2] = 0 THEN at[1] + at[2]
                           ELSE Min(Costs(x, y, t, at[1], at[2]))
           Is(t) == t = [at \in (0 .. m) \X (0 .. n) |-> Value(t, at)]
           table == CHOOSE t : Is(t)
<1>1. m \in Nat /\ n \in Nat
  OBVIOUS
<1>2. PICK g : IsTable(g, x, y)
  BY TableExists
<1>3. ASSUME NEW t, NEW i \in 1 .. m, NEW j \in 1 .. n,
             t[<<i - 1, j>>] = g[i - 1][j], t[<<i, j - 1>>] = g[i][j - 1],
             t[<<i - 1, j - 1>>] = g[i - 1][j - 1],
             Crossed(x, y, i, j) => t[<<i - 2, j - 2>>] = g[i - 2][j - 2]
      PROVE  Costs(x, y, t, i, j) = Prices(x, y, g, i, j)
  BY <1>3 DEF Costs, Prices, Price, Crossed
<1>4. \E t : Is(t)
  <2> DEFINE t == [at \in (0 .. m) \X (0 .. n) |-> g[at[1]][at[2]]]
  <2>1. \A i \in 0 .. m, j \in 0 .. n : t[<<i, j>>] = g[i][j]
    OBVIOUS
  <2> HIDE DEF t
  <2>2. ASSUME NEW i \in 0 .. m, NEW j \in 0 .. n
        PROVE  t[<<i, j>>] = IF i = 0 \/ j = 0 THEN i + j ELSE Min(Costs(x, y, t, i, j))
    <3>1. CASE i = 0 \/ j = 0
      BY <1>2, <2>1, <3>1 DEF IsTable
    <3>2. CASE i # 0 /\ j # 0
      <4>1. i \in 1 .. m /\ j \in 1 .. n /\ i - 1 \in 0 .. m /\ j - 1 \in 0 .. n
        BY <1>1, <3>2
      <4>2. Crossed(x, y, i, j) => i - 2 \in 0 .. m /\ j - 2 \in 0 .. n
        BY <4>1 DEF Crossed
      <4>3. Costs(x, y, t, i, j) = Prices(x, y, g, i, j)
        BY <1>3, <2>1, <4>1, <4>2
      <4>4. g[i][j] = Min(Prices(x, y, g, i, j))
        BY <1>2, <4>1 DEF IsTable
      <4> QED BY <2>1, <3>2, <4>3, <4>4
    <3> QED BY <3>1, <3>2
  <2>3. ASSUME NEW at \in (0 .. m) \X (0 .. n)
        PROVE  t[at] = Value(t, at)
    <3>1. at = <<at[1], at[2]>> /\ at[1] \in 0 .. m /\ at[2] \in 0 .. n
      OBVIOUS
    <3>2. \A i \in 0 .. m, j \in 0 .. n : at = <<i, j>> => t[at] = Value(t, at)
      BY <2>2
    <3> HIDE DEF Value, m, n
    <3> QED BY <3>1, <3>2
  <2>4. DOMAIN t = (0 .. m) \X (0 .. n) /\ t = [at \in DOMAIN t |-> t[at]]
    BY DEF t
  <2> HIDE DEF Value, m, n
  <2>5. t = [at \in (0 .. m) \X (0 .. n) |-> Value(t, at)]
    BY <2>3, <2>4
  <2> QED BY <2>5
<1>5. Is(table)
  <2> HIDE DEF Is
  <2> QED BY <1>4
<1>6. Distance(x, y) = table[<<m, n>>]
  BY Zenon DEF Distance
<1> HIDE DEF table
<1>7. \A at \in (0 .. m) \X (0 .. n) : table[at] = Value(table, at)
  <2> HIDE DEF Value, m, n
  <2> QED BY <1>5
<1>8. ASSUME NEW i \in 0 .. m, NEW j \in 0 .. n
      PROVE  table[<<i, j>>] = IF i = 0 \/ j = 0 THEN i + j ELSE Min(Costs(x, y, table, i, j))
  <2>1. <<i, j>> \in (0 .. m) \X (0 .. n)
    OBVIOUS
  <2>2. table[<<i, j>>] = Value(table, <<i, j>>)
    <3> HIDE DEF Value
    <3> QED BY <1>7, <2>1
  <2> QED BY <2>2
<1> HIDE DEF Value, Is
<1> DEFINE Same(i, j) == table[<<i, j>>] = g[i][j]
           G == {k \in 0 .. m : \A i \in 0 .. k : \A j \in 0 .. n : Same(i, j)}
<1>9. \A j \in 0 .. n : Same(0, j)
  <2> TAKE j \in 0 .. n
  <2>1. table[<<0, j>>] = j /\ g[0][j] = j
    BY <1>1, <1>2, <1>8 DEF IsTable
  <2> QED BY <2>1
<1>10. 0 \in G
  <2> HIDE DEF Same
  <2>1. \A i \in 0 .. 0 : i = 0
    OBVIOUS
  <2>2. 0 \in 0 .. m
    BY <1>1
  <2> QED BY <1>9, <2>1, <2>2
<1>11. ASSUME NEW k \in 0 .. m - 1, k \in G
       PROVE  k + 1 \in G
  <2>1. k + 1 \in 1 .. m /\ k + 1 \in 0 .. m /\ k \in 0 .. m /\ (k + 1) - 1 = k
    BY <1>1
  <2> DEFINE H == {l \in 0 .. n : \A j \in 0 .. l : Same(k + 1, j)}
  <2>2. \A i \in 0 .. k : \A j \in 0 .. n : Same(i, j)
    BY <1>11
  <2>3. Same(k + 1, 0)
    <3>1. 0 \in 0 .. n /\ (k + 1) + 0 = k + 1
      BY <1>1
    <3>2. table[<<k + 1, 0>>] = (k + 1) + 0 /\ g[k + 1][0] = (k + 1) + 0
      BY <1>2, <1>8, <2>1, <3>1 DEF IsTable
    <3> QED BY <3>2
  <2>4. 0 \in H
    <3> HIDE DEF Same
    <3>1. \A j \in 0 .. 0 : j = 0
      OBVIOUS
    <3>2. 0 \in 0 .. n
      BY <1>1
    <3> QED BY <2>3, <3>1, <3>2
  <2>5. ASSUME NEW l \in 0 .. n - 1, l \in H
        PROVE  l + 1 \in H
    <3> DEFINE i == k + 1
               j == l + 1
    <3>1. /\ i \in 1 .. m /\ j \in 1 .. n /\ j \in 0 .. n /\ i \in 0 .. m /\ i # 0 /\ j # 0
          /\ i - 1 = k /\ i - 1 \in 0 .. k /\ j - 1 \in 0 .. n /\ j - 1 \in 0 .. l
      BY <1>1, <2>1
    <3>2. Crossed(x, y, i, j) => i - 2 \in 0 .. k /\ j - 2 \in 0 .. n
      BY <3>1 DEF Crossed
    <3>3. \A b \in 0 .. l : Same(i, b)
      BY <2>5
    <3> HIDE DEF i, j
    <3>4. /\ Same(i - 1, j) /\ Same(i, j - 1) /\ Same(i - 1, j - 1)
          /\ Crossed(x, y, i, j) => Same(i - 2, j - 2)
      <4> HIDE DEF Same
      <4> QED BY <2>2, <3>1, <3>2, <3>3
    <3>5. Costs(x, y, table, i, j) = Prices(x, y, g, i, j)
      BY <1>3, <3>1, <3>4
    <3>6. Same(i, j)
      <4>1. table[<<i, j>>] = Min(Costs(x, y, table, i, j))
        BY <1>8, <3>1
      <4>2. g[i][j] = Min(Prices(x, y, g, i, j))
        BY <1>2, <3>1 DEF IsTable
      <4> QED BY <3>5, <4>1, <4>2
    <3> HIDE DEF Same
    <3>7. \A b \in 0 .. l + 1 : Same(k + 1, b)
      <4>1. \A b \in 0 .. l + 1 : b \in 0 .. l \/ b = l + 1
        OBVIOUS
      <4> QED BY <3>3, <3>6, <4>1 DEF i, j
    <3>8. l + 1 \in 0 .. n
      BY <3>1 DEF j
    <3> QED BY <3>7, <3>8
  <2> HIDE DEF H, Same
  <2>6. \A l \in 0 .. n : l \in H
    BY <1>1, <2>4, <2>5, UpTo
  <2>7. \A j \in 0 .. n : Same(k + 1, j)
    <3>1. n \in 0 .. n
      BY <1>1
    <3> QED BY <2>6, <3>1 DEF H
  <2>8. \A i \in 0 .. k + 1 : i \in 0 .. k \/ i = k + 1
    BY <1>1
  <2> QED BY <2>1, <2>2, <2>7, <2>8
<1> HIDE DEF G, Same
<1>12. \A k \in 0 .. m : k \in G
  BY <1>1, <1>10, <1>11, UpTo
<1>13. Same(m, n)
  <2>1. m \in 0 .. m /\ n \in 0 .. n
    BY <1>1
  <2> QED BY <1>12, <2>1 DEF G
<1> QED BY <1>2, <1>6, <1>13 DEF Same

\* A cell is no more than what it is the least of, and one of them.
LEMMA CellIsLeast ==
  ASSUME NEW A, NEW x \in Seq(A), NEW y \in Seq(A), NEW g, IsTable(g, x, y),
         NEW i \in 1 .. Len(x), NEW j \in 1 .. Len(y)
  PROVE  /\ g[i][j] <= g[i - 1][j] + 1 /\ g[i][j] <= g[i][j - 1] + 1
         /\ g[i][j] <= g[i - 1][j - 1] + Price(x, y, i, j)
         /\ Crossed(x, y, i, j) => g[i][j] <= g[i - 2][j - 2] + Price(x, y, i, j)
         /\ \/ g[i][j] = g[i - 1][j] + 1 \/ g[i][j] = g[i][j - 1] + 1
            \/ g[i][j] = g[i - 1][j - 1] + Price(x, y, i, j)
            \/ Crossed(x, y, i, j) /\ g[i][j] = g[i - 2][j - 2] + Price(x, y, i, j)
<1> DEFINE p == Price(x, y, i, j)
           crossed == Crossed(x, y, i, j)
           a == g[i - 1][j] + 1
           b == g[i][j - 1] + 1
           c == g[i - 1][j - 1] + p
           d == g[i - 2][j - 2] + p
           D == IF crossed THEN {d} ELSE {}
<1>0. /\ i - 1 \in 0 .. Len(x) /\ i \in 0 .. Len(x) /\ j - 1 \in 0 .. Len(y) /\ j \in 0 .. Len(y)
      /\ crossed => i - 2 \in 0 .. Len(x) /\ j - 2 \in 0 .. Len(y)
  BY DEF Crossed
<1>1. \A k \in 0 .. Len(x) : \A l \in 0 .. Len(y) : g[k][l] \in Nat
  BY DEF IsTable
<1>2. p \in Nat
  BY DEF Price
<1>3. g[i][j] = Min({a, b, c} \cup D)
  BY DEF IsTable, Prices
<1>4. a \in Nat /\ b \in Nat /\ c \in Nat /\ (crossed => d \in Nat)
  <2> HIDE DEF p, crossed
  <2>1. g[i - 1][j] \in Nat /\ g[i][j - 1] \in Nat /\ g[i - 1][j - 1] \in Nat
    BY <1>0, <1>1, Zenon
  <2>2. a \in Nat /\ b \in Nat /\ c \in Nat
    <3> DEFINE e == g[i - 1][j]
               f == g[i][j - 1]
               h == g[i - 1][j - 1]
    <3>1. e \in Nat /\ f \in Nat /\ h \in Nat /\ p \in Nat /\ a = e + 1 /\ b = f + 1 /\ c = h + p
      BY <1>2, <2>1
    <3> HIDE DEF a, b, c, e, f, h
    <3> QED BY <3>1
  <2>3. ASSUME crossed PROVE d \in Nat
    <3>1. g[i - 2][j - 2] \in Nat
      BY <1>0, <1>1, <2>3, Zenon
    <3> QED BY <1>2, <3>1
  <2> QED BY <2>2, <2>3
<1> HIDE DEF a, b, c, d, crossed
<1>5. FewNumbers(D)
  BY <1>4 DEF FewNumbers
<1> HIDE DEF D
<1>6. LeastOf(Min({a, b, c} \cup D), {a, b, c} \cup D)
  <2>1. a \in Nat /\ b \in Nat /\ c \in Nat
    BY <1>4
  <2> QED BY <1>5, <2>1, LeastOfFew, Zenon
<1>7. /\ g[i][j] <= a /\ g[i][j] <= b /\ g[i][j] <= c /\ (crossed => g[i][j] <= d)
      /\ g[i][j] = a \/ g[i][j] = b \/ g[i][j] = c \/ (crossed /\ g[i][j] = d)
  BY <1>3, <1>6 DEF D, LeastOf
<1> QED BY <1>7 DEF a, b, c, d, crossed

\* What a text begins with.
LEMMA Beginnings ==
  ASSUME NEW A, NEW x \in Seq(A)
  PROVE  /\ SubSeq(x, 1, Len(x)) = x /\ SubSeq(x, 1, 0) = <<>>
         /\ \A i \in 0 .. Len(x) : SubSeq(x, 1, i) \in Seq(A) /\ Len(SubSeq(x, 1, i)) = i
         /\ \A i \in 1 .. Len(x) : SubSeq(x, 1, i) = Append(SubSeq(x, 1, i - 1), x[i]) /\ x[i] \in A
<1>1. ASSUME NEW i \in 0 .. Len(x)
      PROVE  /\ SubSeq(x, 1, i) \in Seq(A) /\ Len(SubSeq(x, 1, i)) = i
             /\ \A k \in 1 .. i : SubSeq(x, 1, i)[k] = x[k]
  OBVIOUS
<1>2. SubSeq(x, 1, Len(x)) = x
  BY <1>1, SameText
<1>3. ASSUME NEW i \in 1 .. Len(x)
      PROVE  SubSeq(x, 1, i) = Append(SubSeq(x, 1, i - 1), x[i]) /\ x[i] \in A
  <2> DEFINE u == SubSeq(x, 1, i - 1)
             v == SubSeq(x, 1, i)
  <2>1. i - 1 \in 0 .. Len(x) /\ i \in 0 .. Len(x) /\ x[i] \in A
    OBVIOUS
  <2>2. /\ u \in Seq(A) /\ Len(u) = i - 1 /\ \A k \in 1 .. i - 1 : u[k] = x[k]
        /\ v \in Seq(A) /\ Len(v) = i /\ \A k \in 1 .. i : v[k] = x[k]
    BY <1>1, <2>1
  <2> HIDE DEF u, v
  <2>3. /\ Append(u, x[i]) \in Seq(A) /\ Len(Append(u, x[i])) = i
        /\ \A k \in 1 .. i : Append(u, x[i])[k] = x[k]
    BY <2>1, <2>2
  <2>4. v = Append(u, x[i])
    BY <2>2, <2>3, SameText
  <2> QED BY <2>1, <2>4 DEF u, v
<1>4. SubSeq(x, 1, 0) = <<>>
  OBVIOUS
<1> QED BY <1>1, <1>2, <1>3, <1>4

\* Every cell counts edits: what x begins with is within so many edits of what y begins with.
LEMMA CellsCountEdits ==
  ASSUME NEW A, NEW x \in Seq(A), NEW y \in Seq(A), NEW g, IsTable(g, x, y)
  PROVE  \A i \in 0 .. Len(x) : \A j \in 0 .. Len(y) :
            SubSeq(x, 1, i) \in WithinEdits(SubSeq(y, 1, j), g[i][j], A)
<1> DEFINE m == Len(x)
           n == Len(y)
           X(i) == SubSeq(x, 1, i)
           Y(j) == SubSeq(y, 1, j)
           W(t, k) == WithinEdits(t, k, A)
           In(i, j) == X(i) \in W(Y(j), g[i][j])
           G == {k \in 0 .. m : \A i \in 0 .. k : \A j \in 0 .. n : In(i, j)}
<1>0. m \in Nat /\ n \in Nat
  OBVIOUS
<1>1. /\ X(0) = <<>> /\ Y(0) = <<>>
      /\ \A i \in 0 .. m : X(i) \in Seq(A)
      /\ \A j \in 0 .. n : Y(j) \in Seq(A)
      /\ \A i \in 1 .. m : X(i) = Append(X(i - 1), x[i]) /\ x[i] \in A
      /\ \A j \in 1 .. n : Y(j) = Append(Y(j - 1), y[j]) /\ y[j] \in A
  BY Beginnings
<1>2. \A i \in 0 .. m, j \in 0 .. n : g[i][j] \in Nat /\ (i = 0 \/ j = 0 => g[i][j] = i + j)
  BY DEF IsTable
<1>3. \A t \in Seq(A) :
         /\ W(t, 0) = {t}
         /\ \A k \in Nat : /\ W(t, k) \in SUBSET Seq(A)
                           /\ \A u \in W(t, k) : Edits(u, A) \subseteq W(t, k + 1)
                           /\ \A u \in Edits(t, A) : W(u, k) \subseteq W(t, k + 1)
                           /\ \A u \in W(t, k) : \A c \in A : Append(u, c) \in W(Append(t, c), k)
  BY WithinSteps, WithinMore
<1> HIDE DEF m, n, X, Y, W
\* The texts that lack a character are one edit apart.
<1>4. ASSUME NEW t \in Seq(A), NEW c \in A
      PROVE  /\ Append(t, c) \in Edits(t, A) /\ t \in Edits(Append(t, c), A) /\ Append(t, c) \in Seq(A)
             /\ \A b \in A : Append(t, b) \in Edits(Append(t, c), A)
             /\ \A b \in A : Append(Append(t, c), b) \in Edits(Append(Append(t, b), c), A)
  BY EditsOfLonger
\* An insertion, and a deletion.
<1>5. ASSUME NEW i \in 1 .. m, NEW j \in 0 .. n, In(i - 1, j), g[i][j] = g[i - 1][j] + 1
      PROVE  In(i, j)
  <2>0. i - 1 \in 0 .. m
    BY <1>0
  <2>1. /\ X(i - 1) \in Seq(A) /\ Y(j) \in Seq(A) /\ X(i) = Append(X(i - 1), x[i]) /\ x[i] \in A
        /\ g[i - 1][j] \in Nat
    BY <1>1, <1>2, <2>0, Zenon
  <2>2. X(i) \in Edits(X(i - 1), A)
    BY <1>4, <2>1, Zenon
  <2>3. X(i) \in W(Y(j), g[i - 1][j] + 1)
    BY <1>3, <1>5, <2>1, <2>2, Zenon
  <2> QED BY <1>5, <2>3, Zenon
<1>6. ASSUME NEW i \in 0 .. m, NEW j \in 1 .. n, In(i, j - 1), g[i][j] = g[i][j - 1] + 1
      PROVE  In(i, j)
  <2>0. j - 1 \in 0 .. n /\ j \in 0 .. n
    BY <1>0
  <2>1. /\ Y(j - 1) \in Seq(A) /\ Y(j) \in Seq(A) /\ Y(j) = Append(Y(j - 1), y[j]) /\ y[j] \in A
        /\ g[i][j - 1] \in Nat
    BY <1>1, <1>2, <2>0, Zenon
  <2>2. Y(j - 1) \in Edits(Y(j), A)
    BY <1>4, <2>1, Zenon
  <2>3. X(i) \in W(Y(j), g[i][j - 1] + 1)
    BY <1>3, <1>6, <2>1, <2>2, Zenon
  <2> QED BY <1>6, <2>3, Zenon
\* A substitution, or the same character on both sides.
<1>7. ASSUME NEW i \in 1 .. m, NEW j \in 1 .. n, In(i - 1, j - 1),
             g[i][j] = g[i - 1][j - 1] + Price(x, y, i, j)
      PROVE  In(i, j)
  <2> DEFINE k == g[i - 1][j - 1]
  <2>1. /\ X(i - 1) \in Seq(A) /\ X(i) = Append(X(i - 1), x[i]) /\ x[i] \in A
        /\ Y(j - 1) \in Seq(A) /\ Y(j) = Append(Y(j - 1), y[j]) /\ y[j] \in A /\ Y(j) \in Seq(A)
        /\ k \in Nat
    <3>1. i - 1 \in 0 .. m /\ j - 1 \in 0 .. n /\ j \in 0 .. n
      BY <1>0
    <3> QED BY <1>1, <1>2, <3>1, Zenon
  <2>2. X(i) \in W(Append(Y(j - 1), x[i]), k)
    BY <1>3, <1>7, <2>1
  <2>3. CASE x[i] = y[j]
    <3>1. g[i][j] = k
      BY <1>7, <2>1, <2>3 DEF Price
    <3> QED BY <2>1, <2>2, <2>3, <3>1
  <2>4. CASE x[i] # y[j]
    <3>1. g[i][j] = k + 1
      BY <1>7, <2>1, <2>4 DEF Price
    <3>2. Append(Y(j - 1), x[i]) \in Edits(Y(j), A)
      BY <1>4, <2>1
    <3>3. W(Append(Y(j - 1), x[i]), k) \subseteq W(Y(j), k + 1)
      BY <1>3, <2>1, <3>2
    <3> QED BY <2>2, <3>1, <3>3
  <2> QED BY <2>3, <2>4
\* Two neighbours that changed places.
<1>8. ASSUME NEW i \in 1 .. m, NEW j \in 1 .. n, Crossed(x, y, i, j), In(i - 2, j - 2),
             g[i][j] = g[i - 2][j - 2] + Price(x, y, i, j)
      PROVE  In(i, j)
  <2> DEFINE k == g[i - 2][j - 2]
             a == x[i - 1]
             b == x[i]
             u == X(i - 2)
             v == Y(j - 2)
  <2>0. /\ i - 1 \in 1 .. m /\ j - 1 \in 1 .. n /\ (i - 1) - 1 = i - 2 /\ (j - 1) - 1 = j - 2
        /\ i - 2 \in 0 .. m /\ j - 2 \in 0 .. n /\ j \in 0 .. n
        /\ x[i] = y[j - 1] /\ x[i - 1] = y[j]
    BY <1>0, <1>8 DEF Crossed
  <2>1. /\ u \in Seq(A) /\ v \in Seq(A) /\ a \in A /\ b \in A /\ k \in Nat
        /\ X(i) = Append(Append(u, a), b) /\ Y(j) = Append(Append(v, b), a) /\ Y(j) \in Seq(A)
    <3>1. /\ u \in Seq(A) /\ v \in Seq(A) /\ a \in A /\ b \in A /\ k \in Nat /\ Y(j) \in Seq(A)
      BY <1>1, <1>2, <2>0, Zenon
    <3>2. X(i) = Append(X(i - 1), x[i]) /\ Y(j) = Append(Y(j - 1), y[j])
      BY <1>1
    <3>3. X(i - 1) = Append(u, a) /\ Y(j - 1) = Append(v, y[j - 1])
      BY <1>1, <2>0
    <3> QED BY <2>0, <3>1, <3>2, <3>3, Zenon
  <2>2. u \in W(v, k)
    BY <1>8
  <2> HIDE DEF u, v, a, b
  <2>3. Append(u, a) \in W(Append(v, a), k) /\ Append(v, a) \in Seq(A)
    BY <1>3, <1>4, <2>1, <2>2, Zenon
  <2>4. X(i) \in W(Append(Append(v, a), b), k) /\ Append(Append(v, a), b) \in Seq(A)
    <3>1. Append(Append(u, a), b) \in W(Append(Append(v, a), b), k)
      BY <1>3, <2>1, <2>3, Zenon
    <3>2. Append(Append(v, a), b) \in Seq(A)
      BY <1>4, <2>1, <2>3, Zenon
    <3> QED BY <2>1, <3>1, <3>2, Zenon
  <2>5. CASE x[i] = y[j]
    <3>1. g[i][j] = k /\ a = b
      BY <1>8, <2>0, <2>1, <2>5 DEF Price, a, b
    <3> QED BY <2>1, <2>4, <3>1
  <2>6. CASE x[i] # y[j]
    <3>1. g[i][j] = k + 1
      BY <1>8, <2>1, <2>6 DEF Price
    <3>2. Append(Append(v, a), b) \in Edits(Y(j), A)
      BY <1>4, <2>1
    <3>3. W(Append(Append(v, a), b), k) \subseteq W(Y(j), k + 1)
      BY <1>3, <2>1, <3>2
    <3> QED BY <2>4, <3>1, <3>3
  <2> QED BY <2>5, <2>6
<1>9. In(0, 0)
  <2>1. g[0][0] = 0 /\ X(0) = <<>> /\ Y(0) = <<>> /\ Y(0) \in Seq(A)
    BY <1>0, <1>1, <1>2
  <2> QED BY <1>3, <2>1
<1>10. \A j \in 0 .. n : In(0, j)
  <2> DEFINE H == {l \in 0 .. n : In(0, l)}
  <2>1. 0 \in H
    BY <1>0, <1>9
  <2>2. ASSUME NEW l \in 0 .. n - 1, l \in H
        PROVE  l + 1 \in H
    <3>1. l + 1 \in 1 .. n /\ (l + 1) - 1 = l /\ 0 \in 0 .. m /\ l \in 0 .. n /\ l + 1 \in 0 .. n
      BY <1>0
    <3>2. g[0][l + 1] = g[0][l] + 1
      BY <1>2, <3>1
    <3>3. In(0, l + 1)
      BY <1>6, <2>2, <3>1, <3>2
    <3> QED BY <3>1, <3>3
  <2> HIDE DEF H, In
  <2>3. \A l \in 0 .. n : l \in H
    BY <1>0, <2>1, <2>2, UpTo
  <2> QED BY <2>3 DEF H
<1>11. 0 \in G
  <2> HIDE DEF In
  <2>1. \A i \in 0 .. 0 : i = 0
    OBVIOUS
  <2>2. 0 \in 0 .. m
    BY <1>0
  <2> QED BY <1>10, <2>1, <2>2
<1>12. ASSUME NEW k \in 0 .. m - 1, k \in G
       PROVE  k + 1 \in G
  <2>1. k + 1 \in 1 .. m /\ k + 1 \in 0 .. m /\ k \in 0 .. m /\ k \in 0 .. k /\ (k + 1) - 1 = k
    BY <1>0
  <2>2. \A i \in 0 .. k : \A j \in 0 .. n : In(i, j)
    BY <1>12
  <2> DEFINE H == {l \in 0 .. n : In(k + 1, l)}
  <2>3. 0 \in H
    <3>1. 0 \in 0 .. n /\ In(k, 0)
      BY <1>0, <2>1, <2>2
    <3>2. g[k + 1][0] = g[k][0] + 1
      BY <1>2, <2>1, <3>1
    <3>3. In(k + 1, 0)
      BY <1>5, <2>1, <3>1, <3>2
    <3> QED BY <3>1, <3>3
  <2>4. ASSUME NEW l \in 0 .. n - 1, l \in H
        PROVE  l + 1 \in H
    <3> DEFINE i == k + 1
               j == l + 1
    <3>1. /\ i \in 1 .. m /\ j \in 1 .. n /\ j \in 0 .. n /\ i \in 0 .. m
          /\ i - 1 = k /\ i - 1 \in 0 .. k /\ j - 1 = l /\ j - 1 \in 0 .. n
      BY <1>0, <2>1
    <3>2. Crossed(x, y, i, j) => i - 2 \in 0 .. k /\ j - 2 \in 0 .. n
      <4>1. k \in Nat /\ l \in Nat /\ n \in Nat /\ l <= n
        BY <1>0, <2>1
      <4>2. Crossed(x, y, i, j) => i > 1 /\ j > 1
        BY DEF Crossed
      <4> QED BY <4>1, <4>2
    <3>3. In(i, j - 1)
      BY <2>4, <3>1
    <3> HIDE DEF i, j
    <3>4. /\ In(i - 1, j) /\ In(i - 1, j - 1)
          /\ Crossed(x, y, i, j) => In(i - 2, j - 2)
      <4> HIDE DEF In
      <4> QED BY <2>2, <3>1, <3>2
    <3>5. \/ g[i][j] = g[i - 1][j] + 1 \/ g[i][j] = g[i][j - 1] + 1
          \/ g[i][j] = g[i - 1][j - 1] + Price(x, y, i, j)
          \/ Crossed(x, y, i, j) /\ g[i][j] = g[i - 2][j - 2] + Price(x, y, i, j)
      BY <3>1, CellIsLeast DEF m, n
    <3> HIDE DEF In
    <3>6. In(i, j)
      BY <1>5, <1>6, <1>7, <1>8, <3>1, <3>3, <3>4, <3>5
    <3> QED BY <3>1, <3>6 DEF i, j
  <2> HIDE DEF H, In
  <2>5. \A l \in 0 .. n : l \in H
    BY <1>0, <2>3, <2>4, UpTo
  <2>6. \A j \in 0 .. n : In(k + 1, j)
    BY <2>5 DEF H
  <2>7. \A i \in 0 .. k + 1 : i \in 0 .. k \/ i = k + 1
    BY <1>0
  <2> QED BY <2>1, <2>2, <2>6, <2>7
<1> HIDE DEF G, In
<1>13. \A k \in 0 .. m : k \in G
  BY <1>0, <1>11, <1>12, UpTo
<1>14. m \in 0 .. m
  BY <1>0
<1>15. \A i \in 0 .. m : \A j \in 0 .. n : In(i, j)
  BY <1>13, <1>14 DEF G
<1> QED BY <1>15 DEF In, m, n, X, Y, W

\* The distance counts edits: x is within that many of y.
LEMMA DistanceCountsEdits ==
  ASSUME NEW A, NEW x \in Seq(A), NEW y \in Seq(A)
  PROVE  Distance(x, y) \in Nat /\ x \in WithinEdits(y, Distance(x, y), A)
<1>1. PICK g : IsTable(g, x, y) /\ Distance(x, y) = g[Len(x)][Len(y)]
  BY DistanceIs
<1>2. Len(x) \in 0 .. Len(x) /\ Len(y) \in 0 .. Len(y)
  OBVIOUS
<1>3. SubSeq(x, 1, Len(x)) \in WithinEdits(SubSeq(y, 1, Len(y)), g[Len(x)][Len(y)], A)
  BY <1>1, <1>2, CellsCountEdits
<1>4. SubSeq(x, 1, Len(x)) = x /\ SubSeq(y, 1, Len(y)) = y
  BY Beginnings
<1>5. g[Len(x)][Len(y)] \in Nat
  BY <1>1, <1>2 DEF IsTable
<1> QED BY <1>1, <1>3, <1>4, <1>5

\* What the cells of a table have to do with their neighbours.
LEMMA NeighbouringCells ==
  ASSUME NEW A, NEW x \in Seq(A), NEW y \in Seq(A), NEW g, IsTable(g, x, y),
         NEW i \in 0 .. Len(x), NEW j \in 0 .. Len(y)
  PROVE  /\ g[i][j] \in Nat
         /\ i + 1 \in 0 .. Len(x) => g[i + 1][j] <= g[i][j] + 1
         /\ j + 1 \in 0 .. Len(y) => g[i][j + 1] <= g[i][j] + 1
         /\ i + 1 \in 0 .. Len(x) /\ j + 1 \in 0 .. Len(y) =>
               /\ g[i + 1][j + 1] <= g[i][j] + 1
               /\ x[i + 1] = y[j + 1] => g[i + 1][j + 1] <= g[i][j]
<1> DEFINE m == Len(x)
           n == Len(y)
<1>0. m \in Nat /\ n \in Nat /\ i \in 0 .. m /\ j \in 0 .. n
  OBVIOUS
<1>1. \A k \in 0 .. m, l \in 0 .. n : g[k][l] \in Nat /\ (k = 0 \/ l = 0 => g[k][l] = k + l)
  BY DEF IsTable
<1>2. \A k \in 1 .. m, l \in 1 .. n :
         /\ g[k][l] <= g[k - 1][l] + 1 /\ g[k][l] <= g[k][l - 1] + 1
         /\ g[k][l] <= g[k - 1][l - 1] + Price(x, y, k, l)
  BY CellIsLeast
<1> HIDE DEF m, n
<1>3. ASSUME i + 1 \in 0 .. m
      PROVE  g[i + 1][j] <= g[i][j] + 1
  <2>1. i + 1 \in 1 .. m /\ (i + 1) - 1 = i
    BY <1>0, <1>3
  <2>2. CASE j = 0
    <3>1. 0 \in 0 .. n
      BY <1>0
    <3>2. g[i + 1][0] = (i + 1) + 0 /\ g[i][0] = i + 0
      BY <1>0, <1>1, <1>3, <3>1
    <3> QED BY <1>0, <2>2, <3>2
  <2>3. CASE j # 0
    <3>1. j \in 1 .. n
      BY <1>0, <2>3
    <3>2. g[i + 1][j] <= g[(i + 1) - 1][j] + 1
      BY <1>2, <2>1, <3>1
    <3> QED BY <2>1, <3>2
  <2> QED BY <2>2, <2>3
<1>4. ASSUME j + 1 \in 0 .. n
      PROVE  g[i][j + 1] <= g[i][j] + 1
  <2>1. j + 1 \in 1 .. n /\ (j + 1) - 1 = j
    BY <1>0, <1>4
  <2>2. CASE i = 0
    <3>1. 0 \in 0 .. m
      BY <1>0
    <3>2. g[0][j + 1] = 0 + (j + 1) /\ g[0][j] = 0 + j
      BY <1>0, <1>1, <1>4, <3>1
    <3> QED BY <1>0, <2>2, <3>2
  <2>3. CASE i # 0
    <3>1. i \in 1 .. m
      BY <1>0, <2>3
    <3>2. g[i][j + 1] <= g[i][(j + 1) - 1] + 1
      BY <1>2, <2>1, <3>1
    <3> QED BY <2>1, <3>2
  <2> QED BY <2>2, <2>3
<1>5. ASSUME i + 1 \in 0 .. m, j + 1 \in 0 .. n
      PROVE  /\ g[i + 1][j + 1] <= g[i][j] + 1
             /\ x[i + 1] = y[j + 1] => g[i + 1][j + 1] <= g[i][j]
  <2>1. /\ i + 1 \in 1 .. m /\ (i + 1) - 1 = i
        /\ j + 1 \in 1 .. n /\ (j + 1) - 1 = j
    BY <1>0, <1>5
  <2>2. g[i + 1][j + 1] <= g[(i + 1) - 1][(j + 1) - 1] + Price(x, y, i + 1, j + 1)
    BY <1>2, <2>1
  <2>3. g[i + 1][j + 1] <= g[i][j] + Price(x, y, i + 1, j + 1)
    BY <2>1, <2>2
  <2>4. g[i][j] \in Nat /\ g[i + 1][j + 1] \in Nat
    BY <1>0, <1>1, <1>5
  <2>5. CASE x[i + 1] = y[j + 1]
    <3>1. Price(x, y, i + 1, j + 1) = 0
      BY <2>5 DEF Price
    <3> QED BY <2>3, <2>4, <3>1
  <2>6. CASE x[i + 1] # y[j + 1]
    <3>1. Price(x, y, i + 1, j + 1) = 1
      BY <2>6 DEF Price
    <3> QED BY <2>3, <2>4, <2>6, <3>1
  <2> QED BY <2>5, <2>6
<1>6. g[i][j] \in Nat
  BY <1>0, <1>1
<1> QED BY <1>3, <1>4, <1>5, <1>6 DEF m, n

\* As long as both texts go on alike, nothing is added.
LEMMA AlikeCostsNothing ==
  ASSUME NEW A, NEW x \in Seq(A), NEW y \in Seq(A), NEW g, IsTable(g, x, y),
         NEW i \in 0 .. Len(x), NEW j \in 0 .. Len(y), NEW k \in Nat,
         i + k <= Len(x), j + k <= Len(y),
         \A q \in 1 .. k : x[i + q] = y[j + q]
  PROVE  g[i + k][j + k] <= g[i][j]
<1> DEFINE G == {q \in 0 .. k : g[i + q][j + q] <= g[i][j]}
           m == Len(x)
           n == Len(y)
<1>0. m \in Nat /\ n \in Nat /\ i \in 0 .. m /\ j \in 0 .. n /\ i + k <= m /\ j + k <= n
  OBVIOUS
<1>1. \A a \in 0 .. m, b \in 0 .. n :
         /\ g[a][b] \in Nat
         /\ a + 1 \in 0 .. m /\ b + 1 \in 0 .. n /\ x[a + 1] = y[b + 1] => g[a + 1][b + 1] <= g[a][b]
  BY NeighbouringCells
<1> HIDE DEF m, n
<1>2. 0 \in G
  <2>1. i + 0 = i /\ j + 0 = j /\ 0 \in 0 .. k /\ g[i][j] \in Nat
    BY <1>0, <1>1
  <2> QED BY <2>1
<1>3. ASSUME NEW q \in 0 .. k - 1, q \in G
      PROVE  q + 1 \in G
  <2> DEFINE a == i + q
             b == j + q
  <2>1. /\ a \in 0 .. m /\ b \in 0 .. n /\ a + 1 \in 0 .. m /\ b + 1 \in 0 .. n
        /\ a + 1 = i + (q + 1) /\ b + 1 = j + (q + 1) /\ q + 1 \in 1 .. k /\ q + 1 \in 0 .. k
    BY <1>0
  <2>2. x[i + (q + 1)] = y[j + (q + 1)]
    BY <2>1
  <2>3. g[a][b] <= g[i][j]
    BY <1>3
  <2> HIDE DEF a, b
  <2>4. g[a + 1][b + 1] <= g[a][b] /\ g[a + 1][b + 1] \in Nat /\ g[a][b] \in Nat
    BY <1>1, <2>1, <2>2
  <2>5. g[i + (q + 1)][j + (q + 1)] <= g[i][j]
    <3>1. g[i][j] \in Nat
      BY <1>0, <1>1
    <3>2. g[a + 1][b + 1] <= g[i][j]
      BY <2>3, <2>4, <3>1
    <3> QED BY <2>1, <3>2
  <2> QED BY <2>1, <2>5
<1> HIDE DEF G
<1>4. \A q \in 0 .. k : q \in G
  BY <1>2, <1>3, UpTo
<1>5. k \in 0 .. k
  OBVIOUS
<1> QED BY <1>4, <1>5 DEF G

\* One edit is no more than one apart.
LEMMA EditIsClose ==
  ASSUME NEW A, NEW x \in Seq(A), NEW y \in Seq(A), Edited(x, y)
  PROVE  Distance(x, y) \in Nat /\ Distance(x, y) <= 1
<1> DEFINE m == Len(x)
           n == Len(y)
<1>0. m \in Nat /\ n \in Nat
  OBVIOUS
<1>1. PICK g : IsTable(g, x, y) /\ Distance(x, y) = g[m][n]
  BY DistanceIs
<1>2. /\ g[0][0] = 0
      /\ \A i \in 0 .. m, j \in 0 .. n :
            /\ g[i][j] \in Nat
            /\ i + 1 \in 0 .. m => g[i + 1][j] <= g[i][j] + 1
            /\ j + 1 \in 0 .. n => g[i][j + 1] <= g[i][j] + 1
            /\ i + 1 \in 0 .. m /\ j + 1 \in 0 .. n => g[i + 1][j + 1] <= g[i][j] + 1
  <2>1. g[0][0] = 0
    <3>1. 0 \in 0 .. m /\ 0 \in 0 .. n /\ 0 + 0 = 0
      BY <1>0
    <3> QED BY <1>1, <3>1 DEF IsTable
  <2> QED BY <1>1, <2>1, NeighbouringCells
<1>3. \A i \in 0 .. m, j \in 0 .. n, k \in Nat :
         i + k <= m /\ j + k <= n /\ (\A q \in 1 .. k : x[i + q] = y[j + q]) => g[i + k][j + k] <= g[i][j]
  BY <1>1, AlikeCostsNothing
<1> HIDE DEF m, n
\* Both texts begin alike, ...
<1>4. ASSUME NEW k \in Nat, k <= m, k <= n, \A q \in 1 .. k : x[q] = y[q]
      PROVE  g[k][k] = 0
  <2>1. 0 \in 0 .. m /\ 0 \in 0 .. n /\ 0 + k = k /\ k \in 0 .. m /\ k \in 0 .. n
    BY <1>0, <1>4
  <2>2. \A q \in 1 .. k : x[0 + q] = y[0 + q]
    BY <1>4
  <2>3. g[k][k] <= g[0][0]
    BY <1>3, <1>4, <2>1, <2>2
  <2>4. g[k][k] \in Nat
    BY <1>2, <2>1
  <2> QED BY <1>2, <2>3, <2>4
\* ... and end alike.
<1>5. ASSUME NEW i \in 0 .. m, NEW j \in 0 .. n, m - i = n - j, g[i][j] <= 1,
             \A q \in 1 .. m - i : x[i + q] = y[j + q]
      PROVE  g[m][n] <= 1
  <2> DEFINE k == m - i
  <2>1. k \in Nat /\ i + k = m /\ j + k = n /\ m \in 0 .. m /\ n \in 0 .. n
    BY <1>0, <1>5
  <2>2. \A q \in 1 .. k : x[i + q] = y[j + q]
    BY <1>5
  <2> HIDE DEF k
  <2>3. i + k <= m /\ j + k <= n
    BY <1>0, <2>1
  <2>4. g[i + k][j + k] <= g[i][j]
    BY <1>3, <2>1, <2>2, <2>3
  <2>5. g[m][n] \in Nat /\ g[i][j] \in Nat
    BY <1>2, <2>1
  <2>6. g[m][n] <= g[i][j]
    BY <2>1, <2>4, Zenon
  <2>7. g[i][j] <= 1
    BY <1>5
  <2> QED BY <2>5, <2>6, <2>7
<1>6. PICK p \in Nat : Removes(x, y, p) \/ Changes(x, y, p) \/ Inserts(x, y, p) \/ Swaps(x, y, p)
  BY DEF Edited
<1>7. CASE Removes(x, y, p)
  <2>1. /\ p \in 1 .. n /\ m = n - 1
        /\ \A k \in 1 .. m : x[k] = IF k < p THEN y[k] ELSE y[k + 1]
    BY <1>7 DEF Removes, m, n
  <2> DEFINE o == p - 1
  <2>2. /\ o \in Nat /\ o \in 0 .. m /\ o \in 0 .. n /\ o + 1 \in 0 .. n /\ o <= m /\ o <= n
        /\ o + 1 = p /\ m - o = n - (o + 1)
    BY <1>0, <2>1
  <2>3. \A q \in 1 .. o : x[q] = y[q]
    BY <1>0, <2>1
  <2>4. \A q \in 1 .. m - o : x[o + q] = y[(o + 1) + q]
    <3> TAKE q \in 1 .. m - o
    <3>1. o + q \in 1 .. m /\ ~(o + q < p) /\ (o + q) + 1 = (o + 1) + q
      BY <1>0, <2>1
    <3> QED BY <2>1, <3>1
  <2> HIDE DEF o
  <2>5. g[o][o + 1] <= 1
    <3>1. g[o][o] = 0
      BY <1>4, <2>2, <2>3
    <3>2. g[o][o + 1] <= g[o][o] + 1
      BY <1>2, <2>2
    <3> QED BY <3>1, <3>2
  <2>6. g[m][n] <= 1
    BY <1>5, <2>2, <2>4, <2>5
  <2> QED BY <1>0, <1>1, <1>2, <2>6
<1>8. CASE Changes(x, y, p)
  <2>1. /\ p \in 1 .. n /\ m = n
        /\ \A k \in 1 .. m : k # p => x[k] = y[k]
    BY <1>8 DEF Changes, m, n
  <2> DEFINE o == p - 1
  <2>2. /\ o \in Nat /\ o \in 0 .. m /\ o \in 0 .. n /\ o + 1 \in 0 .. n /\ o <= m /\ o <= n
        /\ o + 1 = p /\ m - (o + 1) = n - (o + 1) /\ o + 1 \in 0 .. m
    BY <1>0, <2>1
  <2>3. \A q \in 1 .. o : x[q] = y[q]
    BY <1>0, <2>1
  <2>4. \A q \in 1 .. m - (o + 1) : x[(o + 1) + q] = y[(o + 1) + q]
    <3> TAKE q \in 1 .. m - (o + 1)
    <3>1. (o + 1) + q \in 1 .. m /\ (o + 1) + q # p
      BY <1>0, <2>1
    <3> QED BY <2>1, <3>1
  <2> HIDE DEF o
  <2>5. g[o + 1][o + 1] <= 1
    <3>1. g[o][o] = 0
      BY <1>4, <2>2, <2>3
    <3>2. g[o + 1][o + 1] <= g[o][o] + 1
      BY <1>2, <2>2
    <3> QED BY <3>1, <3>2
  <2>6. g[m][n] <= 1
    BY <1>5, <2>2, <2>4, <2>5
  <2> QED BY <1>0, <1>1, <1>2, <2>6
<1>9. CASE Inserts(x, y, p)
  <2>1. /\ p \in 1 .. n + 1 /\ m = n + 1
        /\ \A k \in 1 .. m : (k < p => x[k] = y[k]) /\ (k > p => x[k] = y[k - 1])
    BY <1>9 DEF Inserts, m, n
  <2> DEFINE o == p - 1
  <2>2. /\ o \in Nat /\ o \in 0 .. m /\ o \in 0 .. n /\ o + 1 \in 0 .. m /\ o <= m /\ o <= n
        /\ o + 1 = p /\ m - (o + 1) = n - o
    BY <1>0, <2>1
  <2>3. \A q \in 1 .. o : x[q] = y[q]
    BY <1>0, <2>1
  <2>4. \A q \in 1 .. m - (o + 1) : x[(o + 1) + q] = y[o + q]
    <3> TAKE q \in 1 .. m - (o + 1)
    <3>1. (o + 1) + q \in 1 .. m /\ (o + 1) + q > p /\ ((o + 1) + q) - 1 = o + q
      BY <1>0, <2>1
    <3> QED BY <2>1, <3>1
  <2> HIDE DEF o
  <2>5. g[o + 1][o] <= 1
    <3>1. g[o][o] = 0
      BY <1>4, <2>2, <2>3
    <3>2. g[o + 1][o] <= g[o][o] + 1
      BY <1>2, <2>2
    <3> QED BY <3>1, <3>2
  <2>6. g[m][n] <= 1
    BY <1>5, <2>2, <2>4, <2>5
  <2> QED BY <1>0, <1>1, <1>2, <2>6
<1>10. CASE Swaps(x, y, p)
  <2>1. /\ p \in 1 .. n - 1 /\ m = n
        /\ \A k \in 1 .. m : k # p /\ k # p + 1 => x[k] = y[k]
        /\ x[p] = y[p + 1] /\ x[p + 1] = y[p]
    BY <1>10 DEF Swaps, m, n
  <2> DEFINE o == p - 1
             i == p + 1
  <2>2. /\ o \in Nat /\ o \in 0 .. m /\ o \in 0 .. n /\ o <= m /\ o <= n
        /\ i \in 0 .. m /\ i \in 0 .. n /\ i \in 1 .. m /\ i \in 1 .. n /\ m - i = n - i
        /\ i - 2 = o /\ i - 1 = p /\ i > 1 /\ i = p + 1
    BY <1>0, <2>1
  <2>3. \A q \in 1 .. o : x[q] = y[q]
    BY <1>0, <2>1
  <2> HIDE DEF o, i
  <2>4. \A q \in 1 .. m - i : x[i + q] = y[i + q]
    <3> TAKE q \in 1 .. m - i
    <3>1. i + q \in 1 .. m /\ i + q # p /\ i + q # p + 1
      BY <1>0, <2>2
    <3> QED BY <2>1, <3>1
  <2>5. Crossed(x, y, i, i)
    BY <2>1, <2>2 DEF Crossed
  <2>6. g[i][i] <= g[i - 2][i - 2] + Price(x, y, i, i)
    BY <1>1, <2>2, <2>5, CellIsLeast DEF m, n
  <2>7. g[i][i] <= 1
    <3>1. g[o][o] = 0
      BY <1>4, <2>2, <2>3
    <3>2. g[i][i] <= 0 + Price(x, y, i, i) /\ g[i][i] \in Nat
      BY <1>2, <2>2, <2>6, <3>1
    <3>3. Price(x, y, i, i) = 0 \/ Price(x, y, i, i) = 1
      BY DEF Price
    <3> QED BY <3>2, <3>3
  <2>8. g[m][n] <= 1
    BY <1>5, <2>2, <2>4, <2>7
  <2> QED BY <1>0, <1>1, <1>2, <2>8
<1> QED BY <1>6, <1>7, <1>8, <1>9, <1>10

\* The distance that is_lookalike compares is about edits: nothing apart is the same, texts
\* n apart are within n edits of each other, and one edit is one apart (damerau_levenshtein).
THEOREM DistancesAndEdits ==
  ASSUME NEW A, NEW x \in Seq(A), NEW y \in Seq(A)
  PROVE  /\ Distance(x, y) \in Nat
         /\ Distance(x, y) = 0 => x = y
         /\ x \in WithinEdits(y, 0, A) => x = y
         /\ \A n \in Nat : Distance(x, y) <= n => x \in WithinEdits(y, n, A)
         /\ \A n \in Nat : x = y => x \in WithinEdits(y, n, A)
         /\ x \in WithinEdits(y, 1, A) => x = y \/ Distance(x, y) <= 1
<1>1. Distance(x, y) \in Nat /\ x \in WithinEdits(y, Distance(x, y), A)
  BY DistanceCountsEdits
<1>2. WithinEdits(y, 0, A) = {y} /\ WithinEdits(y, 1, A) = Grown({y}, A)
  <2>1. 0 \in Nat /\ 0 + 1 = 1
    OBVIOUS
  <2>2. WithinEdits(y, 0, A) = {y} /\ WithinEdits(y, 0 + 1, A) = Grown(WithinEdits(y, 0, A), A)
    BY <2>1, WithinSteps
  <2> QED BY <2>1, <2>2
<1>3. \A m \in Nat, n \in Nat : m <= n => WithinEdits(y, m, A) \subseteq WithinEdits(y, n, A)
  BY WithinFewer
<1>4. ASSUME x \in WithinEdits(y, 1, A), x # y
      PROVE  Distance(x, y) <= 1
  <2>1. x \in Edits(y, A)
    BY <1>2, <1>4 DEF Grown
  <2>2. Edited(x, y)
    BY <2>1, EditsAreEdits
  <2> QED BY <2>2, EditIsClose
<1>5. \A n \in Nat : 0 <= n /\ 0 \in Nat
  OBVIOUS
<1> QED BY <1>1, <1>2, <1>3, <1>4, <1>5

\* The text of a host is its labels, step by step.
Spells(f, h, n) ==
  /\ f[0] = <<>>
  /\ \A k \in 1 .. n : f[k] = IF k = 1 THEN h[1].chars ELSE f[k - 1] \o <<".">> \o h[k].chars

\* What precedes a label, and a dot, and the label.
LEMMA LabelAfterDot ==
  ASSUME NEW A, "." \in A, NEW s \in Seq(A), NEW c \in Seq(A)
  PROVE  /\ s \o <<".">> \o c \in Seq(A)
         /\ Range(s) \subseteq Range(s \o <<".">> \o c) /\ Range(c) \subseteq Range(s \o <<".">> \o c)
<1> DEFINE t == s \o <<".">>
           u == t \o c
<1>1. <<".">> \in Seq(A) /\ Len(<<".">>) = 1
  OBVIOUS
<1>2. t \in Seq(A) /\ Len(t) = Len(s) + 1 /\ \A k \in 1 .. Len(s) : t[k] = s[k]
  BY <1>1
<1> HIDE DEF t
<1>3. /\ u \in Seq(A) /\ Len(u) = Len(t) + Len(c)
      /\ \A k \in 1 .. Len(t) + Len(c) : u[k] = IF k <= Len(t) THEN t[k] ELSE c[k - Len(t)]
  BY <1>2, ConcatProperties
<1>7. \A k \in 1 .. Len(u) : u[k] \in Range(u)
  <2>1. DOMAIN u = 1 .. Len(u)
    BY <1>3
  <2> HIDE DEF u
  <2> QED BY <2>1 DEF Range
<1> HIDE DEF u
<1>4. ASSUME NEW k \in 1 .. Len(s)
      PROVE  s[k] \in Range(u)
  <2>1. k \in 1 .. Len(u) /\ k <= Len(t) /\ k \in 1 .. Len(t) + Len(c)
    BY <1>2, <1>3
  <2>2. u[k] = s[k]
    BY <1>2, <1>3, <2>1
  <2> QED BY <1>7, <2>1, <2>2
<1>5. ASSUME NEW k \in 1 .. Len(c)
      PROVE  c[k] \in Range(u)
  <2> DEFINE j == Len(t) + k
  <2>1. j \in 1 .. Len(u) /\ ~(j <= Len(t)) /\ j \in 1 .. Len(t) + Len(c) /\ j - Len(t) = k
    BY <1>2, <1>3
  <2> HIDE DEF j
  <2>2. u[j] = c[k]
    BY <1>3, <2>1
  <2> QED BY <1>7, <2>1, <2>2
<1>6. Range(s) \subseteq Range(u) /\ Range(c) \subseteq Range(u)
  <2>1. Range(s) = {s[k] : k \in 1 .. Len(s)} /\ Range(c) = {c[k] : k \in 1 .. Len(c)}
    BY DEF Range
  <2> QED BY <1>4, <1>5, <2>1
<1> QED BY <1>3, <1>6 DEF t, u

\* The text of a host.
LEMMA TextIs ==
  ASSUME NEW A, "." \in A, NEW h, Len(h) \in Nat, \A i \in 1 .. Len(h) : h[i].chars \in Seq(A)
  PROVE  \E f \in [0 .. Len(h) -> Seq(A)] : Spells(f, h, Len(h)) /\ Text(h) = f[Len(h)]
<1> DEFINE n == Len(h)
           T == Seq(A)
           Next1(k, s) == IF k = 1 THEN h[1].chars ELSE s \o <<".">> \o h[k].chars
           F == [k \in 1 .. n |-> [s \in T |-> Next1(k, s)]]
           Value(t, k) == IF k <= 1 THEN IF k = 0 THEN <<>> ELSE h[1].chars
                          ELSE t[k - 1] \o <<".">> \o h[k].chars
           Is(t) == t = [k \in 0 .. n |-> Value(t, k)]
           upTo == CHOOSE t : Is(t)
<1>1. n \in Nat /\ <<>> \in T
  OBVIOUS
<1>2. \A k \in 1 .. n : \A s \in T : Next1(k, s) \in T
  <2> TAKE k \in 1 .. n
  <2> TAKE s \in T
  <2>1. h[k].chars \in T /\ (k = 1 => h[1].chars \in T)
    OBVIOUS
  <2> QED BY <2>1, LabelAfterDot
<1>3. F \in [1 .. n -> [T -> T]] /\ \A k \in 1 .. n : \A s \in T : F[k][s] = Next1(k, s)
  <2> HIDE DEF T, Next1, n
  <2> QED BY <1>2
<1>4. PICK f : Follows(f, T, <<>>, n, F)
  <2> DEFINE base == <<>>
  <2>1. base \in T /\ n \in Nat /\ F \in [1 .. n -> [T -> T]]
    BY <1>1, <1>3
  <2> HIDE DEF base, F, T, n
  <2>2. \E f : Follows(f, T, base, n, F)
    BY <2>1, Recursion
  <2> QED BY <2>2 DEF base
<1>5. /\ f \in [0 .. n -> T] /\ f[0] = <<>>
      /\ \A k \in 1 .. n : f[k - 1] \in T /\ f[k] = Next1(k, f[k - 1])
  <2>1. f \in [0 .. n -> T] /\ f[0] = <<>> /\ \A k \in 1 .. n : f[k] = F[k][f[k - 1]]
    BY <1>4 DEF Follows
  <2>2. \A k \in 1 .. n : k - 1 \in 0 .. n
    BY <1>1
  <2> HIDE DEF F, T, n, Next1
  <2>3. \A k \in 1 .. n : f[k - 1] \in T
    BY <2>1, <2>2
  <2> QED BY <1>3, <2>1, <2>3
<1>6. \A k \in 0 .. n : f[k] = Value(f, k)
  <2> TAKE k \in 0 .. n
  <2>1. CASE k = 0
    BY <1>5, <2>1
  <2>2. CASE k # 0
    <3>1. k \in 1 .. n /\ (k <= 1 <=> k = 1)
      BY <1>1, <2>2
    <3> HIDE DEF n
    <3> QED BY <1>5, <2>2, <3>1
  <2> QED BY <2>1, <2>2
<1>7. Is(f)
  <2> HIDE DEF Value, T, n
  <2>1. f = [k \in 0 .. n |-> f[k]]
    BY <1>5
  <2> QED BY <1>6, <2>1
<1>8. Is(upTo)
  <2> HIDE DEF Is
  <2> QED BY <1>7
<1>9. Text(h) = upTo[n]
  BY Zenon DEF Text
<1> HIDE DEF upTo
<1>10. \A k \in 0 .. n : upTo[k] = Value(upTo, k)
  <2> HIDE DEF Value, n
  <2> QED BY <1>8
<1>11. \A k \in 0 .. n : upTo[k] = f[k]
  <2> DEFINE G == {k \in 0 .. n : upTo[k] = f[k]}
  <2>1. 0 \in G
    BY <1>1, <1>5, <1>10
  <2>2. ASSUME NEW k \in 0 .. n - 1, k \in G
        PROVE  k + 1 \in G
    <3>1. k + 1 \in 0 .. n /\ (k + 1) - 1 = k /\ upTo[k] = f[k]
      BY <1>1, <2>2
    <3>2. upTo[k + 1] = Value(upTo, k + 1) /\ f[k + 1] = Value(f, k + 1)
      <4> HIDE DEF Value
      <4> QED BY <1>6, <1>10, <3>1
    <3>3. Value(upTo, k + 1) = Value(f, k + 1)
      BY <3>1
    <3> QED BY <3>1, <3>2, <3>3
  <2> HIDE DEF G
  <2>3. \A k \in 0 .. n : k \in G
    BY <1>1, <2>1, <2>2, UpTo
  <2> QED BY <2>3 DEF G
<1>12. n \in 0 .. n
  BY <1>1
<1>13. Text(h) = f[n]
  BY <1>9, <1>11, <1>12
<1>14. Spells(f, h, n)
  BY <1>5 DEF Spells
<1> QED BY <1>5, <1>13, <1>14

\* The text of a host is of the characters of its labels, and has all of them.
LEMMA TextOfLabels ==
  ASSUME NEW A, "." \in A, NEW h, Len(h) \in Nat, \A i \in 1 .. Len(h) : h[i].chars \in Seq(A)
  PROVE  Text(h) \in Seq(A) /\ \A i \in 1 .. Len(h) : Range(h[i].chars) \subseteq Range(Text(h))
<1> DEFINE n == Len(h)
<1>1. PICK f \in [0 .. n -> Seq(A)] : Spells(f, h, n) /\ Text(h) = f[n]
  BY TextIs
<1> DEFINE G == {k \in 0 .. n : \A i \in 1 .. k : Range(h[i].chars) \subseteq Range(f[k])}
<1>2. n \in Nat /\ n \in 0 .. n
  OBVIOUS
<1>3. 0 \in G
  BY <1>2
<1>4. ASSUME NEW k \in 0 .. n - 1, k \in G
      PROVE  k + 1 \in G
  <2>1. k + 1 \in 1 .. n /\ k + 1 \in 0 .. n /\ k \in 0 .. n /\ (k + 1) - 1 = k
    BY <1>2
  <2>2. f[k + 1] = IF k + 1 = 1 THEN h[1].chars ELSE f[k] \o <<".">> \o h[k + 1].chars
    BY <1>1, <2>1 DEF Spells
  <2>3. f[k] \in Seq(A) /\ h[k + 1].chars \in Seq(A)
    BY <2>1
  <2>4. Range(h[k + 1].chars) \subseteq Range(f[k + 1])
    <3>1. CASE k = 0
      BY <2>2, <3>1
    <3>2. CASE k # 0
      <4>1. ~(k + 1 = 1)
        BY <2>1, <3>2
      <4>2. f[k + 1] = f[k] \o <<".">> \o h[k + 1].chars
        BY <2>2, <4>1, Zenon
      <4> QED BY <2>3, <4>2, LabelAfterDot
    <3> QED BY <3>1, <3>2
  <2>5. ASSUME NEW i \in 1 .. k
        PROVE  Range(h[i].chars) \subseteq Range(f[k + 1])
    <3>0. ~(k + 1 = 1)
      BY <2>1
    <3>1. f[k + 1] = f[k] \o <<".">> \o h[k + 1].chars
      BY <2>2, <3>0, Zenon
    <3>2. Range(f[k]) \subseteq Range(f[k + 1])
      BY <2>3, <3>1, LabelAfterDot
    <3>3. Range(h[i].chars) \subseteq Range(f[k])
      BY <1>4
    <3> QED BY <3>2, <3>3
  <2>6. \A i \in 1 .. k + 1 : i \in 1 .. k \/ i = k + 1
    BY <2>1
  <2>7. \A i \in 1 .. k + 1 : Range(h[i].chars) \subseteq Range(f[k + 1])
    BY <2>4, <2>5, <2>6
  <2> QED BY <2>1, <2>7
<1> HIDE DEF G
<1>5. \A k \in 0 .. n : k \in G
  BY <1>2, <1>3, <1>4, UpTo
<1>6. n \in G /\ f[n] \in Seq(A)
  BY <1>2, <1>5
<1> QED BY <1>1, <1>6 DEF G

----------------------------------------------------------------------------
(* Imitations. *)

\* Labels, and hosts made of them.
LabelTypes == [chars : Seq(STRING), puny : BOOLEAN]
Labelled == Seq(LabelTypes) \ {NoHost}

\* Hosts are labelled, decoded and folded as well.
LEMMA LabelsStay ==
  ASSUME NEW h \in Labelled
  PROVE  /\ Len(h) \in Nat /\ Len(h) # 0 /\ \A i \in 1 .. Len(h) : h[i] \in LabelTypes
         /\ Decoded(h) \in Labelled /\ Len(Decoded(h)) = Len(h)
         /\ \A i \in 1 .. Len(h) : Decoded(h)[i] = Label(h[i].chars)
         /\ Folded(h) \in Labelled /\ Len(Folded(h)) = Len(h)
         /\ \A i \in 1 .. Len(h) : Folded(h)[i] = Label(Fold(h[i].chars)) /\ Fold(h[i].chars) \in Seq(STRING)
<1>1. /\ Len(h) \in Nat /\ DOMAIN h = 1 .. Len(h) /\ Len(h) # 0
      /\ \A i \in 1 .. Len(h) : h[i] \in LabelTypes
  BY DEF Labelled, NoHost
<1>2. \A i \in 1 .. Len(h) : h[i].chars \in Seq(STRING)
  BY <1>1 DEF LabelTypes
<1>3. ASSUME NEW s \in Seq(STRING)
      PROVE  Fold(s) \in Seq(STRING) /\ Label(s) \in LabelTypes
  <2>1. \A i \in 1 .. Len(s) : s[i] \in STRING /\ (s[i] \in DOMAIN Looks => Looks[s[i]] \in STRING)
    BY LookalikeAssumption
  <2>2. Fold(s) \in [1 .. Len(s) -> STRING] /\ Len(s) \in Nat
    BY <2>1 DEF Fold
  <2>3. Fold(s) \in Seq(STRING)
    BY <2>2
  <2> QED BY <2>3 DEF Label, LabelTypes
<1>4. ASSUME NEW g, g \in [1 .. Len(h) -> LabelTypes]
      PROVE  g \in Labelled /\ Len(g) = Len(h)
  <2>1. g \in Seq(LabelTypes) /\ Len(g) = Len(h)
    BY <1>1, <1>4
  <2>2. g # NoHost
    BY <1>1, <2>1 DEF NoHost
  <2> QED BY <2>1, <2>2 DEF Labelled
<1>5. Decoded(h) \in [1 .. Len(h) -> LabelTypes] /\ \A i \in 1 .. Len(h) : Decoded(h)[i] = Label(h[i].chars)
  BY <1>1, <1>2, <1>3 DEF Decoded
<1>6. Folded(h) \in [1 .. Len(h) -> LabelTypes] /\ \A i \in 1 .. Len(h) : Folded(h)[i] = Label(Fold(h[i].chars))
  BY <1>1, <1>2, <1>3 DEF Folded
<1> QED BY <1>1, <1>2, <1>3, <1>4, <1>5, <1>6

\* A registrable domain has labels of its host, and at least one.
LEMMA DomainOfLabels ==
  ASSUME NEW h \in Labelled
  PROVE  /\ RegistrableDomain(h) \in Labelled
         /\ \A i \in 1 .. Len(RegistrableDomain(h)) : \E j \in 1 .. Len(h) : RegistrableDomain(h)[i] = h[j]
<1>1. h \in Seq(LabelTypes) /\ Len(h) \in Nat
  BY DEF Labelled
<1>2. ASSUME NEW n \in {2, 3}, Len(h) > 2
      PROVE  /\ LastLabels(h, n) \in Labelled
             /\ \A i \in 1 .. Len(LastLabels(h, n)) : \E j \in 1 .. Len(h) : LastLabels(h, n)[i] = h[j]
  <2> DEFINE a == Len(h) - n + 1
             s == SubSeq(h, a, Len(h))
  <2>1. a \in 1 .. Len(h) /\ Len(h) - a + 1 = n
    BY <1>1, <1>2
  <2> HIDE DEF a
  <2>2. /\ s \in Seq(LabelTypes) /\ Len(s) = n
        /\ \A i \in 1 .. n : s[i] = h[a + i - 1] /\ a + i - 1 \in 1 .. Len(h)
    BY <1>1, <2>1
  <2>3. s # NoHost
    <3>1. Len(s) # 0
      BY <2>2
    <3> HIDE DEF s
    <3> QED BY <3>1 DEF NoHost
  <2>4. LastLabels(h, n) = s
    BY DEF LastLabels, a
  <2> HIDE DEF s
  <2> QED BY <2>2, <2>3, <2>4 DEF Labelled
<1>3. RegistrableDomain(h) = h \/ (Len(h) > 2 /\ \E n \in {2, 3} : RegistrableDomain(h) = LastLabels(h, n))
  BY <1>1 DEF RegistrableDomain
<1> QED BY <1>2, <1>3

\* What is made of characters only is a text over them.
LEMMA TextOver ==
  ASSUME NEW B, NEW A, NEW s \in Seq(B), Range(s) \subseteq A
  PROVE  s \in Seq(A)
<1>1. \A i \in 1 .. Len(s) : s[i] \in A
  BY DEF Range
<1> QED BY <1>1

\* Hosts and their domains read as texts over the alphabet.
LEMMA HostsAreTexts ==
  ASSUME NEW host \in Host
  PROVE  /\ host \in Labelled
         /\ Text(Folded(host)) \in Seq(Alphabet)
         /\ RegistrableDomain(Decoded(host)) # NoHost
         /\ Text(Folded(RegistrableDomain(Decoded(host)))) \in Seq(Alphabet)
<1> DEFINE folded == Folded(host)
           domain == RegistrableDomain(Decoded(host))
           Char == STRING \cup {"."}
<1>1. host \in Labelled
  BY LookalikeAssumption DEF Labelled, LabelTypes
<1>2. /\ Len(host) \in Nat /\ folded \in Labelled /\ Len(folded) = Len(host)
      /\ Decoded(host) \in Labelled /\ Len(Decoded(host)) = Len(host)
      /\ \A i \in 1 .. Len(host) : /\ Decoded(host)[i] = Label(host[i].chars)
                                   /\ folded[i] = Label(Fold(host[i].chars))
                                   /\ Fold(host[i].chars) \in Seq(STRING)
  BY <1>1, LabelsStay
<1>3. \A s : Label(s).chars = s
  BY DEF Label
<1>4. \A i \in 1 .. Len(folded) : folded[i].chars = Fold(host[i].chars) /\ folded[i].chars \in Seq(Char)
  <2>1. \A s \in Seq(STRING) : s \in Seq(Char)
    OBVIOUS
  <2> HIDE DEF Char
  <2> QED BY <1>2, <1>3, <2>1
<1>5. /\ Text(folded) \in Seq(Char)
      /\ \A i \in 1 .. Len(folded) : Range(folded[i].chars) \subseteq Range(Text(folded))
  <2>1. "." \in Char
    OBVIOUS
  <2>2. Len(folded) \in Nat
    BY <1>2, Zenon
  <2> HIDE DEF folded
  <2> QED BY <1>4, <2>1, <2>2, TextOfLabels
<1>6. Range(Text(folded)) \subseteq Alphabet /\ "." \in Alphabet
  BY DEF Alphabet
<1>7. Text(folded) \in Seq(Alphabet)
  BY <1>5, <1>6, TextOver
<1>8. \A i \in 1 .. Len(host) : Fold(host[i].chars) \in Seq(Alphabet)
  <2> TAKE i \in 1 .. Len(host)
  <2>1. i \in 1 .. Len(folded)
    BY <1>2
  <2>2. /\ folded[i].chars = Fold(host[i].chars) /\ folded[i].chars \in Seq(Char)
        /\ Range(folded[i].chars) \subseteq Alphabet
    BY <1>4, <1>5, <1>6, <2>1
  <2> QED BY <2>2, TextOver
<1>9. /\ domain \in Labelled
      /\ \A i \in 1 .. Len(domain) : \E j \in 1 .. Len(host) : domain[i] = Decoded(host)[j]
  BY <1>2, DomainOfLabels
<1> HIDE DEF folded, domain
<1>10. /\ Len(Folded(domain)) \in Nat /\ Len(Folded(domain)) = Len(domain)
       /\ \A i \in 1 .. Len(domain) : Folded(domain)[i] = Label(Fold(domain[i].chars))
  BY <1>9, LabelsStay
<1>11. \A i \in 1 .. Len(Folded(domain)) : Folded(domain)[i].chars \in Seq(Alphabet)
  <2> TAKE i \in 1 .. Len(Folded(domain))
  <2>1. PICK j \in 1 .. Len(host) : domain[i] = Decoded(host)[j]
    BY <1>9, <1>10
  <2>2. domain[i].chars = host[j].chars
    BY <1>2, <1>3, <2>1
  <2>3. Folded(domain)[i].chars = Fold(host[j].chars)
    BY <1>3, <1>10, <2>2
  <2> QED BY <1>8, <2>3
<1>12. Text(Folded(domain)) \in Seq(Alphabet)
  BY <1>6, <1>10, <1>11, TextOfLabels
<1>13. domain # NoHost
  BY <1>9 DEF Labelled
<1> QED BY <1>1, <1>7, <1>12, <1>13 DEF folded, domain

\* A brand's domain is its own, and long enough to compare.
LEMMA BrandsAreHosts ==
  ASSUME NEW i \in DOMAIN BrandDomains
  PROVE  LET brand == BrandDomains[i]
         IN  /\ brand \in Host /\ RegistrableDomain(brand) = brand
             /\ Head(brand) = Label(Head(brand).chars)
             /\ Text(Folded(brand)) \in Seq(Alphabet) /\ Len(Text(Folded(brand))) > MinComparable
             /\ IsBrand(brand)
<1> DEFINE brand == BrandDomains[i]
<1>1. brand \in Host /\ brand \in Range(BrandDomains)
  BY LookalikeAssumption DEF Range
<1>2. /\ RegistrableDomain(brand) = brand /\ ~HasPunycode(brand)
      /\ Len(Text(Folded(brand))) > MinComparable
  BY <1>1, BrandAssumption
<1> HIDE DEF brand
<1>3. brand \in Labelled /\ Text(Folded(brand)) \in Seq(Alphabet)
  BY <1>1, HostsAreTexts
<1>4. Head(brand) = brand[1] /\ 1 \in DOMAIN brand /\ brand[1] \in LabelTypes
  BY <1>3 DEF Labelled, NoHost
<1>5. brand[1].puny = FALSE
  BY <1>2, <1>4 DEF HasPunycode, LabelTypes
<1>6. Head(brand) = Label(Head(brand).chars)
  BY <1>4, <1>5 DEF Label, LabelTypes
<1>7. IsBrand(brand)
  BY <1>1 DEF IsBrand
<1> QED BY <1>1, <1>2, <1>3, <1>6, <1>7 DEF brand

\* What a host turns out to be of a brand.
Imitated(host, i) == IsLookalike(host, BrandDomains[i])

\* The first brand that a host imitates, if there is one.
LEMMA FirstImitated ==
  ASSUME NEW host
  PROVE  \/ /\ FindLookalike(host) = Silent
            /\ \A i \in DOMAIN BrandDomains : Imitated(host, i) = NotOne
         \/ \E i \in DOMAIN BrandDomains :
               /\ FindLookalike(host) = [brand |-> BrandDomains[i], technique |-> Imitated(host, i)]
               /\ Imitated(host, i) # NotOne
<1> DEFINE I == {i \in 1 .. Len(BrandDomains) : IsLookalike(host, BrandDomains[i]) # NotOne}
           i == SelectInSeq(BrandDomains, LAMBDA domain : IsLookalike(host, domain) # NotOne)
<1>1. i = IF I # {} THEN Min(I) ELSE 0
  BY DEF SelectInSeq
<1>2. FindLookalike(host) = IF i = 0 THEN Silent
        ELSE [brand |-> BrandDomains[i], technique |-> IsLookalike(host, BrandDomains[i])]
  BY DEF FindLookalike
<1>3. Len(BrandDomains) \in Int /\ DOMAIN BrandDomains = 1 .. Len(BrandDomains)
  BY LookalikeAssumption
<1>4. I \in SUBSET (1 .. Len(BrandDomains)) /\ I \in SUBSET Int /\ IsFiniteSet(I)
  <2>1. I \in SUBSET (1 .. Len(BrandDomains)) /\ I \in SUBSET Int
    OBVIOUS
  <2> HIDE DEF I
  <2>2. IsFiniteSet(1 .. Len(BrandDomains))
    BY <1>3, FS_Interval
  <2>3. IsFiniteSet(I)
    BY <2>1, <2>2, FS_Subset
  <2> QED BY <2>1, <2>3
<1>5. I # {} => Min(I) \in I
  <2> HIDE DEF I
  <2> QED BY <1>4, MinIsElement
<1> HIDE DEF i
<1>6. CASE I = {}
  <2>1. i = 0
    BY <1>1, <1>6
  <2>2. \A j \in DOMAIN BrandDomains : Imitated(host, j) = NotOne
    BY <1>3, <1>6 DEF Imitated
  <2> QED BY <1>2, <2>1, <2>2
<1>7. CASE I # {}
  <2>1. i \in I
    BY <1>1, <1>5, <1>7
  <2>2. i \in DOMAIN BrandDomains /\ Imitated(host, i) # NotOne /\ i # 0
    BY <1>3, <2>1 DEF Imitated
  <2> HIDE DEF I
  <2> QED BY <1>2, <2>2 DEF Imitated
<1> QED BY <1>6, <1>7

\* How a host compares with one of the brands.
LEMMA Comparison ==
  ASSUME NEW host \in Host, NEW i \in DOMAIN BrandDomains
  PROVE  LET brand == BrandDomains[i]
             wanted == Text(Folded(brand))
             apart == Distance(Reading(host), wanted)
         IN  Imitated(host, i) =
                IF DomainOf(host) = NoHost \/ DomainOf(host) = brand THEN NotOne
                ELSE IF Reading(host) = wanted THEN "homoglyph"
                ELSE IF HasPunycode(host) /\ apart <= MaxDistance THEN "punycode"
                ELSE IF /\ Len(Head(brand).chars) >= MinComparable
                        /\ Contains(Folded(host), Label(Head(brand).chars))
                        /\ Head(Folded(DomainOf(host))) # Label(Head(brand).chars)
                     THEN "brand-in-subdomain"
                ELSE IF /\ Len(wanted) >= MinComparable /\ Len(Reading(host)) >= MinComparable
                        /\ IsClose(apart)
                     THEN "typosquat"
                ELSE NotOne
<1>1. RegistrableDomain(BrandDomains[i]) = BrandDomains[i]
  BY BrandsAreHosts
<1> QED BY <1>1 DEF Imitated, IsLookalike, DomainOf, Reading

\* A host that imitates a brand's domain is under another, and so few edits from it or carries
\* its name.
Resembles(host, i) ==
  /\ DomainOf(host) # BrandDomains[i]
  /\ \/ Reading(host) \in WithinLimit[i]
     \/ /\ Contains(Folded(host), Head(BrandDomains[i]))
        /\ Len(Head(BrandDomains[i]).chars) >= MinComparable

\* A host is told as a homoglyph of a brand exactly if it reads as the brand's domain.
ReadsTheSame(technique, host, i) ==
  technique = "homoglyph" <=> Reading(host) = Text(Folded(BrandDomains[i]))

LEMMA ImitationsResemble ==
  ASSUME NEW host \in Host, NEW i \in DOMAIN BrandDomains, Imitated(host, i) # NotOne
  PROVE  Resembles(host, i) /\ ReadsTheSame(Imitated(host, i), host, i)
<1> DEFINE brand == BrandDomains[i]
           wanted == Text(Folded(brand))
           reads == Reading(host)
           apart == Distance(reads, wanted)
<1>1. reads \in Seq(Alphabet) /\ wanted \in Seq(Alphabet) /\ Head(brand) = Label(Head(brand).chars)
  BY HostsAreTexts, BrandsAreHosts DEF Reading, DomainOf
<1>2. WithinLimit[i] = WithinEdits(wanted, MaxDistance, Alphabet) /\ MaxDistance \in Nat
  BY LookalikeAssumption DEF WithinLimit, Near
<1>3. /\ apart \in Nat
      /\ apart <= MaxDistance => reads \in WithinEdits(wanted, MaxDistance, Alphabet)
      /\ reads = wanted => reads \in WithinEdits(wanted, MaxDistance, Alphabet)
  <2> HIDE DEF wanted, reads
  <2> QED BY <1>1, <1>2, DistancesAndEdits
<1>4. /\ DomainOf(host) # brand
      /\ \/ reads = wanted
         \/ apart <= MaxDistance
         \/ Len(Head(brand).chars) >= MinComparable /\ Contains(Folded(host), Label(Head(brand).chars))
      /\ Imitated(host, i) = "homoglyph" <=> reads = wanted
  <2> DEFINE carries == Len(Head(brand).chars) >= MinComparable /\ Contains(Folded(host), Label(Head(brand).chars))
             other == Head(Folded(DomainOf(host))) # Label(Head(brand).chars)
             comparable == Len(wanted) >= MinComparable /\ Len(reads) >= MinComparable
             puny == HasPunycode(host)
  <2>1. Imitated(host, i) =
           IF DomainOf(host) = NoHost \/ DomainOf(host) = brand THEN NotOne
           ELSE IF reads = wanted THEN "homoglyph"
           ELSE IF puny /\ apart <= MaxDistance THEN "punycode"
           ELSE IF carries /\ other THEN "brand-in-subdomain"
           ELSE IF comparable /\ IsClose(apart) THEN "typosquat"
           ELSE NotOne
    BY Comparison
  <2>2. IsClose(apart) => apart <= MaxDistance
    BY DEF IsClose
  <2>3. /\ DomainOf(host) # brand /\ (reads = wanted \/ apart <= MaxDistance \/ carries)
        /\ Imitated(host, i) = "homoglyph" <=> reads = wanted
    <3> HIDE DEF brand, reads, wanted, apart, carries, other, comparable, puny
    <3> QED BY <2>1, <2>2 DEF NotOne
  <2> QED BY <2>3
<1>5. ReadsTheSame(Imitated(host, i), host, i)
  BY <1>4 DEF ReadsTheSame
<1> HIDE DEF wanted, apart
<1> QED BY <1>1, <1>2, <1>3, <1>4, <1>5 DEF Resembles

\* An edit takes one character away at most.
LEMMA EditIsShort ==
  ASSUME NEW A, NEW x \in Seq(A), NEW y \in Seq(A), Edited(x, y)
  PROVE  Len(x) + 1 >= Len(y)
<1>1. Len(x) \in Nat /\ Len(y) \in Nat
  OBVIOUS
<1> QED BY <1>1 DEF Edited, Removes, Changes, Inserts, Swaps

\* What is one edit from a brand, and is no brand, imitates it.
LEMMA NearIsNoticed ==
  ASSUME NEW host \in Host, NEW i \in DOMAIN BrandDomains,
         Reading(host) \in WithinOne[i], ~IsBrand(DomainOf(host))
  PROVE  Imitated(host, i) # NotOne
<1> DEFINE brand == BrandDomains[i]
           wanted == Text(Folded(brand))
           reads == Reading(host)
           apart == Distance(reads, wanted)
<1>1. /\ reads \in Seq(Alphabet) /\ wanted \in Seq(Alphabet)
      /\ Len(wanted) > MinComparable /\ IsBrand(brand) /\ DomainOf(host) # NoHost
  BY HostsAreTexts, BrandsAreHosts DEF Reading, DomainOf
<1>2. DomainOf(host) # brand
  BY <1>1
<1>3. reads \in WithinEdits(wanted, 1, Alphabet)
  BY DEF WithinOne, Near
<1>4. CASE reads = wanted
  <2>1. Imitated(host, i) = "homoglyph"
    BY <1>1, <1>2, <1>4, Comparison
  <2> QED BY <2>1 DEF NotOne
<1>5. CASE reads # wanted
  <2> HIDE DEF wanted, reads
  <2>1. apart \in Nat /\ apart <= 1 /\ apart # 0
    BY <1>1, <1>3, <1>5, DistancesAndEdits
  <2>2. Edited(reads, wanted)
    <3>1. 0 \in Nat /\ 0 + 1 = 1
      OBVIOUS
    <3>2. WithinEdits(wanted, 0, Alphabet) = {wanted}
          /\ WithinEdits(wanted, 0 + 1, Alphabet) = Grown(WithinEdits(wanted, 0, Alphabet), Alphabet)
      BY <1>1, <3>1, WithinSteps
    <3>3. reads \in Edits(wanted, Alphabet)
      BY <1>3, <1>5, <3>1, <3>2 DEF Grown
    <3> QED BY <1>1, <3>3, EditsAreEdits
  <2>3. Len(reads) + 1 >= Len(wanted) /\ Len(reads) \in Nat /\ Len(wanted) \in Nat
    BY <1>1, <2>2, EditIsShort
  <2> HIDE DEF apart
  <2>4. /\ IsClose(apart) /\ apart <= MaxDistance
        /\ Len(wanted) >= MinComparable /\ Len(reads) >= MinComparable
    BY <1>1, <2>1, <2>3, LookalikeAssumption DEF IsClose
  <2>5. Imitated(host, i) \in {"homoglyph", "punycode", "brand-in-subdomain", "typosquat"}
    BY <1>1, <1>2, <2>4, Comparison DEF reads, wanted, apart
  <2> QED BY <2>5 DEF NotOne
<1> QED BY <1>4, <1>5

\* What is found out about a host: that it imitates a brand, or nothing.
LEMMA ImitationIs ==
  ASSUME NEW host \in Host
  PROVE  /\ Imitation[host] # Silent => \E i \in DOMAIN BrandDomains :
               /\ Imitation[host].brand = BrandDomains[i] /\ Resembles(host, i)
               /\ ReadsTheSame(Imitation[host].technique, host, i)
         /\ ~IsBrand(DomainOf(host)) /\ (\E i \in DOMAIN BrandDomains : Reading(host) \in WithinOne[i])
               => Imitation[host] # Silent
<1>1. Imitation[host] = FindLookalike(host)
  BY LookalikeAssumption DEF Imitation
<1>2. CASE /\ FindLookalike(host) = Silent
           /\ \A i \in DOMAIN BrandDomains : Imitated(host, i) = NotOne
  BY <1>1, <1>2, NearIsNoticed
<1>3. ASSUME NEW i \in DOMAIN BrandDomains, Imitated(host, i) # NotOne,
             FindLookalike(host) = [brand |-> BrandDomains[i], technique |-> Imitated(host, i)]
      PROVE  /\ FindLookalike(host) # Silent /\ FindLookalike(host).brand = BrandDomains[i]
             /\ Resembles(host, i) /\ ReadsTheSame(FindLookalike(host).technique, host, i)
  BY <1>3, ImitationsResemble DEF Silent
<1> QED BY <1>1, <1>2, <1>3, FirstImitated

\* Where a brand is first listed.
FirstPlace(brand) == SelectInSeq(BrandDomains, LAMBDA d : d = brand)

LEMMA RankIs ==
  ASSUME NEW brand, NEW i \in DOMAIN BrandDomains, BrandDomains[i] = brand
  PROVE  FirstPlace(brand) \in DOMAIN BrandDomains /\ BrandDomains[FirstPlace(brand)] = brand
<1> DEFINE J == {k \in 1 .. Len(BrandDomains) : BrandDomains[k] = brand}
           j == SelectInSeq(BrandDomains, LAMBDA d : d = brand)
<1>1. j = IF J # {} THEN Min(J) ELSE 0
  BY DEF SelectInSeq
<1>2. Len(BrandDomains) \in Int /\ DOMAIN BrandDomains = 1 .. Len(BrandDomains)
  BY LookalikeAssumption
<1>3. J \in SUBSET (1 .. Len(BrandDomains)) /\ J \in SUBSET Int /\ IsFiniteSet(J)
  <2>1. J \in SUBSET (1 .. Len(BrandDomains)) /\ J \in SUBSET Int
    OBVIOUS
  <2> HIDE DEF J
  <2>2. IsFiniteSet(1 .. Len(BrandDomains))
    BY <1>2, FS_Interval
  <2>3. IsFiniteSet(J)
    BY <2>1, <2>2, FS_Subset
  <2> QED BY <2>1, <2>3
<1>4. i \in J
  BY <1>2
<1>5. Min(J) \in J
  <2> HIDE DEF J
  <2> QED BY <1>3, <1>4, MinIsElement
<1> HIDE DEF j
<1>6. j \in J
  BY <1>1, <1>4, <1>5
<1>7. FirstPlace(brand) = j
  BY DEF FirstPlace, j
<1> QED BY <1>2, <1>6, <1>7

----------------------------------------------------------------------------
(* What is told of lookalikes. *)

\* The rules that name two hosts are that of the anchors and those of the imitations.
Imitating(i) == Len(i.hosts) = 2 /\ i.rule # "url-anchor-text-mismatch"
Names(hosts, rule, host) ==
  /\ Imitation[host] # Silent /\ hosts = <<host, Imitation[host].brand>>
  /\ rule \in Homoglyphs <=> Imitation[host].technique = "homoglyph"
Honest(i) == \E host \in Host : Names(i.hosts, i.rule, host)

\* The rules of the homoglyphs are for that trick.
LEMMA HomoglyphsAreTold ==
  ASSUME NEW family, NEW technique \in Tricks
  PROVE  LookalikeRule(family, technique) \in Homoglyphs <=> technique = "homoglyph"
BY DEF LookalikeRule, Homoglyphs, Tricks

\* What is found of a host that imitates a brand names both.
LEMMA ImitatesNames ==
  ASSUME NEW family, NEW part, NEW at, NEW host \in Hosts
  PROVE  /\ \A i \in Imitates(family, part, at, host) : Honest(i)
         /\ Imitation[host] # Silent =>
               \E i \in Imitates(family, part, at, host) : Imitating(i) /\ i.hosts[1] = host
<1> DEFINE l == Imitation[host]
           i == Found(LookalikeRule(family, l.technique), part, at, <<host, l.brand>>)
<1>1. Imitates(family, part, at, host) = IF l = Silent THEN {} ELSE {i}
  BY DEF Imitates
<1>2. CASE l = Silent
  BY <1>1, <1>2
<1>3. CASE l # Silent
  <2>1. host \in Host
    <3>1. Imitation[NoHost] = Silent
      BY DEF Imitation
    <3> QED BY <1>3, <3>1 DEF Hosts
  <2>2. i.hosts = <<host, l.brand>> /\ i.rule = LookalikeRule(family, l.technique)
    BY DEF Found, FoundWith, Indicator
  <2>3. LookalikeRule(family, l.technique) # "url-anchor-text-mismatch"
    <3>1. l.technique \in Tricks
      BY <1>3, ImitationIsATrick
    <3> HIDE DEF l
    <3> QED BY <3>1 DEF LookalikeRule, Tricks
  <2> HIDE DEF i
  <2>4. Imitating(i) /\ i.hosts[1] = host
    <3> HIDE DEF l
    <3> QED BY <2>2, <2>3 DEF Imitating
  <2>5. Honest(i)
    <3>1. l.technique \in Tricks
      BY <1>3, ImitationIsATrick
    <3>2. i.rule \in Homoglyphs <=> l.technique = "homoglyph"
      <4> HIDE DEF l
      <4> QED BY <2>2, <3>1, HomoglyphsAreTold
    <3> QED BY <1>3, <2>1, <2>2, <3>2 DEF Honest, Names
  <2> QED BY <1>1, <1>3, <2>4, <2>5
<1> QED BY <1>2, <1>3

\* The other rules name no host, or one.
LEMMA OthersAreBrief ==
  ASSUME NEW m
  PROVE  /\ Brief(AuthenticationRules(m)) /\ Brief(LinkedElsewhere(m))
         /\ Brief(ContentRules(m)) /\ Brief(InjectionRules(m))
         /\ \A file : Brief(NameRules(file)) /\ Brief(TypeRules(file))
<1>1. \A c, rule, header : /\ Brief(When(c, InHeader(rule, header, <<>>)))
                           /\ \A h : Brief(When(c, InHeader(rule, header, <<h>>)))
  BY BriefParts DEF InHeader, Found
<1>2. Brief(AuthenticationRules(m))
  <2>1. \A c, result : Brief(When(c, SpfFailed(result)))
    <3>1. \A result : SpfFailed(result).hosts = <<>>
      BY DEF SpfFailed, FoundWith, Indicator
    <3>2. Len(<<>>) # 2
      OBVIOUS
    <3> QED BY <3>1, <3>2 DEF Brief, When
  <2>2. \A rule, header, host : Brief(Disagrees(m, rule, header, host))
    BY <1>1 DEF Disagrees
  <2> QED BY <1>1, <2>1, <2>2, BriefParts DEF AuthenticationRules
<1>3. Brief(LinkedElsewhere(m))
  <2>1. \A domain : InHeader("url-links-point-away-from-sender", "links", <<domain>>).hosts = <<domain>>
    BY DEF InHeader, Found, FoundWith, Indicator
  <2>2. \A domain : Len(<<domain>>) # 2
    OBVIOUS
  <2>3. \A i \in LinkedElsewhere(m) :
           \E domain : i = InHeader("url-links-point-away-from-sender", "links", <<domain>>)
    BY DEF LinkedElsewhere
  <2> QED BY <2>1, <2>2, <2>3 DEF Brief
<1>4. Brief(ContentRules(m))
  <2>1. ASSUME NEW kind \in Kinds
        PROVE  Brief(Language(m, kind))
    <3> DEFINE hits == {p \in Phrase \cap (m.subject \cup m.body) : PhraseBook[p].kind = kind}
               Key(p) == 1000 * PhraseWeight(m, p) + PhraseBook[p].place
               heaviest == CHOOSE p \in hits : \A q \in hits : Key(p) >= Key(q)
               one == Indicator(LanguageRule[kind], IF heaviest \in m.subject THEN "subject" ELSE "body", 0,
                                "", <<>>, PhraseWeight(m, heaviest), Book[LanguageRule[kind]].floor)
    <3>1. Language(m, kind) = IF hits = {} THEN {} ELSE {one}
      BY DEF Language
    <3> HIDE DEF hits, heaviest
    <3>2. one.hosts = <<>>
      BY DEF Indicator
    <3>3. Len(<<>>) # 2
      OBVIOUS
    <3> HIDE DEF one
    <3> QED BY <3>1, <3>2, <3>3 DEF Brief
  <2>2. Brief(UNION {Language(m, kind) : kind \in Kinds})
    BY <2>1, BriefParts
  <2> QED BY <1>1, <2>2, BriefParts DEF ContentRules
<1>5. Brief(InjectionRules(m))
  <2>1. \A rule, part, at : Found(rule, part, at, <<>>).hosts = <<>>
    BY DEF Found, FoundWith, Indicator
  <2>2. Len(<<>>) # 2
    OBVIOUS
  <2> DEFINE Of(technique) == LET texts == Haystacks(m)
                                  i == SelectInSeq(texts, LAMBDA text : technique \in text.says)
                              IN  IF i = 0 THEN {} ELSE {Found(technique, texts[i].part, texts[i].at, <<>>)}
             all == {Of(technique) : technique \in Technique}
  <2>3. InjectionRules(m) = UNION all
    BY DEF InjectionRules
  <2>4. ASSUME NEW technique \in Technique
        PROVE  Brief(Of(technique))
    <3> DEFINE texts == Haystacks(m)
               i == SelectInSeq(texts, LAMBDA text : technique \in text.says)
               found == Found(technique, texts[i].part, texts[i].at, <<>>)
    <3>1. Of(technique) = IF i = 0 THEN {} ELSE {found}
      OBVIOUS
    <3>2. found.hosts = <<>>
      BY <2>1
    <3> HIDE DEF Of, i, found
    <3> QED BY <2>2, <3>1, <3>2 DEF Brief
  <2> HIDE DEF Of
  <2>5. \A D \in all : Brief(D)
    BY <2>4
  <2> HIDE DEF all
  <2> QED BY <2>3, <2>5, BriefParts
<1>6. ASSUME NEW file
      PROVE  Brief(NameRules(file)) /\ Brief(TypeRules(file))
  <2>1. \A c, rule, part, at, disc : Brief(When(c, FoundWith(rule, part, at, disc, <<>>)))
    BY BriefParts
  <2>2. \A c, rule, part, at : Brief(When(c, Found(rule, part, at, <<>>)))
    BY <2>1 DEF Found
  <2>3. Brief(NameRules(file))
    BY <2>2, BriefParts DEF NameRules
  <2>4. Brief(TypeRules(file))
    BY <2>1, <2>2, BriefParts DEF TypeRules
  <2> QED BY <2>3, <2>4
<1> QED BY <1>2, <1>3, <1>4, <1>5, <1>6

\* What the rules of a link and of the identity of the sender name.
LEMMA HostsAreNamed ==
  ASSUME NEW m, Readable(m)
  PROVE  /\ \A i \in IdentityRules(m) : Imitating(i) => Honest(i)
         /\ \A k \in DOMAIN m.links : \A i \in UrlRules(m.links[k], k) \cup HostRules(m.links[k], k) :
               Imitating(i) => Honest(i)
<1>1. /\ \A c, rule, part, at, h : Brief(When(c, Found(rule, part, at, <<h>>)))
      /\ \A c, rule, header : /\ Brief(When(c, InHeader(rule, header, <<>>)))
                              /\ \A h : Brief(When(c, InHeader(rule, header, <<h>>)))
  BY BriefParts DEF InHeader, Found
<1>2. \A D : Brief(D) => \A i \in D : Imitating(i) => Honest(i)
  BY DEF Brief, Imitating
<1>3. \A i \in IdentityRules(m) : Imitating(i) => Honest(i)
  <2> DEFINE sender == SenderDomain(m)
             own == Imitates("identity", "from", 0, sender)
             others == Impersonates(m)
                       \cup When(IsMixedScript(sender), InHeader("identity-mixed-script-domain", "from", <<>>))
                       \cup When(~IsMixedScript(sender) /\ sender # NoHost /\ HasPunycode(m.sender.domain),
                                 InHeader("identity-punycode-domain", "from", <<>>))
                       \cup When(DisplayedDomain(m) # NoHost /\ DisplayedDomain(m) # sender,
                                 InHeader("identity-display-name-is-an-address", "from", <<DisplayedDomain(m)>>))
  <2>1. IdentityRules(m) = own \cup others
    BY DEF IdentityRules
  <2>2. sender \in Hosts
    BY DomainsAreHosts DEF SenderDomain, Readable, Senders
  <2>3. Brief(Impersonates(m))
    <3>1. \A c, brand : Brief(When(c, FoundWith("identity-brand-impersonation", "from", 0, brand, <<>>)))
      BY BriefParts
    <3> DEFINE claimed == {When(sender \notin DomainsOf[brand],
                                FoundWith("identity-brand-impersonation", "from", 0, brand, <<>>))
                           : brand \in ClaimedBrand(m)}
    <3>2. \A D \in claimed : Brief(D)
      BY <3>1
    <3>3. Impersonates(m) = UNION claimed
      BY DEF Impersonates
    <3> HIDE DEF claimed
    <3> QED BY <3>2, <3>3, BriefParts
  <2>4. Brief(others)
    BY <1>1, <2>3, BriefParts
  <2> HIDE DEF others
  <2>5. \A i \in own : Honest(i)
    <3> HIDE DEF sender
    <3> QED BY <2>2, ImitatesNames
  <2> HIDE DEF own
  <2> QED BY <1>2, <2>1, <2>4, <2>5
<1>4. ASSUME NEW k \in DOMAIN m.links
      PROVE  \A i \in UrlRules(m.links[k], k) \cup HostRules(m.links[k], k) : Imitating(i) => Honest(i)
  <2> DEFINE link == m.links[k]
             own == Imitates("url", "link", k, link.host)
  <2>1. link.host \in Hosts
    <3>1. \A j \in DOMAIN m.links : m.links[j] \in LinkTypes
      BY DEF Readable
    <3>2. \A l \in LinkTypes : l.host \in Hosts
      BY DEF LinkTypes
    <3> QED BY <3>1, <3>2
  <2> HIDE DEF link
  <2>2. \A c, rule : Brief(When(c, OfLink(rule, link, k)))
    BY <1>1 DEF OfLink
  <2>3. \A i \in UrlRules(link, k) : Imitating(i) => Honest(i)
    <3> DEFINE actual == RegistrableDomain(link.host)
               shown == RegistrableDomain(link.label.names)
               anchor == Found("url-anchor-text-mismatch", "link", k, <<shown, actual>>)
               first == When(shown # NoHost /\ actual # NoHost /\ shown # actual, anchor)
               others == When(link.scheme = "javascript", OfLink("url-dangerous-scheme", link, k))
                         \cup When(link.host \in Addresses, OfLink("url-ip-literal-host", link, k))
                         \cup When((link.url.user \/ link.url.tail.at) /\ link.scheme # "", OfLink("url-credentials-in-authority", link, k))
    <3>1. UrlRules(link, k) = first \cup others
      BY DEF UrlRules
    <3>2. Brief(others)
      BY <2>2, BriefParts
    <3>3. anchor.rule = "url-anchor-text-mismatch"
      BY DEF Found, FoundWith, Indicator
    <3>4. \A i \in first : ~Imitating(i)
      <4> HIDE DEF anchor, shown, actual
      <4> QED BY <3>3 DEF When, Imitating
    <3> HIDE DEF first, others
    <3> QED BY <1>2, <3>1, <3>2, <3>4
  <2>4. \A i \in HostRules(link, k) : Imitating(i) => Honest(i)
    <3> DEFINE others == When(RegistrableDomain(link.host) \in Shorteners, OfLink("url-shortener", link, k))
                         \cup When(link.url.port = "odd", OfLink("url-nonstandard-port", link, k))
                         \cup When(Len(link.host) > MaxLabels, OfLink("url-excessive-subdomains", link, k))
    <3>1. HostRules(link, k) = own \cup others
      BY DEF HostRules
    <3>2. Brief(others)
      BY <2>2, BriefParts
    <3>3. \A i \in own : Honest(i)
      BY <2>1, ImitatesNames
    <3> HIDE DEF own, others
    <3> QED BY <1>2, <3>1, <3>2, <3>3
  <2> QED BY <2>3, <2>4 DEF link
<1> QED BY <1>3, <1>4

\* What the rules tell of imitations is so, and they tell of each.
LEMMA DetectIsHonest ==
  ASSUME NEW m, Readable(m)
  PROVE  /\ \A i \in Detect(m) : Imitating(i) => Honest(i)
         /\ \A host \in ({SenderDomain(m)} \cup {l.host : l \in Range(m.links)}) \ {NoHost} :
               /\ host \in Host
               /\ Imitation[host] # Silent => \E i \in Detect(m) : Imitating(i) /\ i.hosts[1] = host
<1> DEFINE ofLinks == {UrlRules(m.links[k], k) \cup HostRules(m.links[k], k) : k \in DOMAIN m.links}
           ofFiles == {NameRules(m.attachments[k]) \cup TypeRules(m.attachments[k]) : k \in DOMAIN m.attachments}
<1>1. Detect(m) = AuthenticationRules(m) \cup IdentityRules(m) \cup (UNION ofLinks) \cup LinkedElsewhere(m)
                  \cup (UNION ofFiles) \cup ContentRules(m) \cup InjectionRules(m)
  BY DEF Detect
<1>2. \A D : Brief(D) => \A i \in D : Imitating(i) => Honest(i)
  BY DEF Brief, Imitating
<1>3. \A i \in UNION ofLinks : Imitating(i) => Honest(i)
  BY HostsAreNamed
<1>4. Brief(UNION ofFiles)
  <2>1. \A D \in ofFiles : Brief(D)
    BY OthersAreBrief, BriefParts
  <2> HIDE DEF ofFiles
  <2> QED BY <2>1, BriefParts
<1>5. \A k \in DOMAIN m.links : HostRules(m.links[k], k) \subseteq (UNION ofLinks)
  OBVIOUS
<1> HIDE DEF ofLinks, ofFiles
<1>6. \A i \in Detect(m) : Imitating(i) => Honest(i)
  <2>1. /\ Brief(AuthenticationRules(m)) /\ Brief(LinkedElsewhere(m))
        /\ Brief(ContentRules(m)) /\ Brief(InjectionRules(m))
    BY OthersAreBrief
  <2>2. \A i \in IdentityRules(m) : Imitating(i) => Honest(i)
    BY HostsAreNamed
  <2> QED BY <1>1, <1>2, <1>3, <1>4, <2>1, <2>2
<1>7. ASSUME NEW host \in ({SenderDomain(m)} \cup {l.host : l \in Range(m.links)}) \ {NoHost}
      PROVE  /\ host \in Host
             /\ Imitation[host] # Silent => \E i \in Detect(m) : Imitating(i) /\ i.hosts[1] = host
  <2>1. CASE host = SenderDomain(m)
    <3>1. host \in Hosts
      BY <2>1, DomainsAreHosts DEF SenderDomain, Readable, Senders
    <3>2. Imitates("identity", "from", 0, host) \subseteq Detect(m)
      BY <1>1, <2>1 DEF IdentityRules
    <3> QED BY <3>1, <3>2, ImitatesNames DEF Hosts
  <2>2. CASE host \in {l.host : l \in Range(m.links)}
    <3>1. PICK k \in DOMAIN m.links : host = m.links[k].host
      BY <2>2 DEF Range
    <3>2. host \in Hosts
      <4>1. m.links[k] \in LinkTypes
        BY DEF Readable
      <4>2. \A l \in LinkTypes : l.host \in Hosts
        BY DEF LinkTypes
      <4> QED BY <3>1, <4>1, <4>2
    <3>3. Imitates("url", "link", k, host) \subseteq HostRules(m.links[k], k)
      BY <3>1 DEF HostRules
    <3>4. Imitates("url", "link", k, host) \subseteq Detect(m)
      BY <1>1, <1>5, <3>3
    <3> QED BY <3>2, <3>4, ImitatesNames DEF Hosts
  <2> QED BY <2>1, <2>2
<1> QED BY <1>6, <1>7

\* A host is reported as imitating a brand's domain only if it is under another domain that so
\* few edits lead to, or carries the name; as a homoglyph exactly if it reads the same; and what
\* is one edit away from a brand and no brand's own domain does not go unnoticed, wherever the
\* message has the host of a link right (lookalike.py, rules/identity.py, rules/urls.py).
THEOREM LookalikesAreTold == Spec => []LookalikesAreImitations
<1>1. Inv /\ EvidenceIsExact => LookalikesAreImitations
  <2> DEFINE known == Reported \cup overflow
             Rank(brand) == FirstPlace(brand)
  <2> SUFFICES ASSUME Inv, EvidenceIsExact, node \in {"persist", "completed"}
               PROVE  /\ \A id \in Imitations :
                            LET host == id[5][1]  brand == id[5][2]
                            IN  /\ DomainOf(host) # brand
                                /\ \/ Reading(host) \in WithinLimit[Rank(brand)]
                                   \/ /\ Contains(Folded(host), Head(brand))
                                      /\ Len(Head(brand).chars) >= MinComparable
                                /\ id[1] \in Homoglyphs <=> Reading(host) = Text(Folded(brand))
                      /\ \A host \in Compared :
                            ~IsBrand(DomainOf(host)) /\ (\E i \in DOMAIN BrandDomains : Reading(host) \in WithinOne[i])
                            => \E id \in Imitations : id[5][1] = host
    BY DEF LookalikesAreImitations, FirstPlace
  <2>1. /\ Readable(message) /\ Cut /\ Enriched /\ Asked
        /\ Ids(detected) \subseteq known /\ Reported = Ids(indicators)
    BY DEF Inv, Read, Analysing, EvidenceIsExact
  <2>2. PICK added : Established(added)
    BY <2>1, EvidenceIsArranged
  <2>3. /\ Arranges(detected, Detect(message)) /\ Before \in Seq(Detect(message))
        /\ Cap \in 0 .. Len(detected) /\ Len(detected) \in Nat
    BY <2>1, KeptFacts
  <2>4. \A i : Id(i)[5] = i.hosts /\ Id(i)[1] = i.rule
    BY DEF Id
  <2>5. \A id \in known : \E i \in Detect(message) \cup added : id = Id(i)
    <3>1. \A k \in DOMAIN detected : detected[k] \in Detect(message)
      BY <2>3 DEF Arranges
    <3>2. \A k \in Cap + 1 .. Len(detected) : k \in DOMAIN detected
      <4>1. DOMAIN detected = 1 .. Len(detected)
        BY <2>3 DEF Arranges
      <4> HIDE DEF Cap
      <4> QED BY <2>3, <4>1
    <3>3. \A id \in overflow : \E i \in Detect(message) : id = Id(i)
      BY <2>1, <3>1, <3>2 DEF Cut
    <3>4. \A i \in Range(Before) : i \in Detect(message)
      BY <2>3 DEF Range
    <3>5. \A k \in DOMAIN indicators : indicators[k] \in Range(Before) \cup added
      BY <2>2 DEF Established, Arranges
    <3>6. \A id \in Ids(indicators) : \E i \in Detect(message) \cup added : id = Id(i)
      BY <3>4, <3>5 DEF Ids
    <3> QED BY <2>1, <3>3, <3>6
  <2>6. \A i \in Detect(message) : Id(i) \in known
    <3> TAKE i \in Detect(message)
    <3>1. PICK k \in DOMAIN detected : detected[k] = i
      BY <2>3 DEF Arranges
    <3> QED BY <2>1, <3>1 DEF Ids
  <2>7. ASSUME NEW id \in Imitations
        PROVE  \E host \in Host : Names(id[5], id[1], host)
    <3>0. id \in known /\ Len(id[5]) = 2 /\ id[1] # "url-anchor-text-mismatch"
      BY DEF Imitations
    <3>1. PICK i \in Detect(message) \cup added : id = Id(i)
      BY <2>5, <3>0
    <3>2. Imitating(i)
      BY <2>4, <3>0, <3>1 DEF Imitating
    <3>3. i \in Detect(message)
      BY <2>2, <3>2 DEF Established, Brief, Imitating
    <3>4. Honest(i)
      BY <2>1, <3>2, <3>3, DetectIsHonest
    <3> QED BY <2>4, <3>1, <3>4 DEF Honest
  <2>8. \A i \in Detect(message) : Imitating(i) => Id(i) \in Imitations
    BY <2>4, <2>6 DEF Imitating, Imitations
  <2> HIDE DEF known
  <2>9. ASSUME NEW id \in Imitations
        PROVE  /\ DomainOf(id[5][1]) # id[5][2]
               /\ \/ Reading(id[5][1]) \in WithinLimit[Rank(id[5][2])]
                  \/ /\ Contains(Folded(id[5][1]), Head(id[5][2]))
                     /\ Len(Head(id[5][2]).chars) >= MinComparable
               /\ id[1] \in Homoglyphs <=> Reading(id[5][1]) = Text(Folded(id[5][2]))
    <3>1. PICK host \in Host : Names(id[5], id[1], host)
      BY <2>7
    <3>2. /\ id[5][1] = host /\ id[5][2] = Imitation[host].brand /\ Imitation[host] # Silent
          /\ id[1] \in Homoglyphs <=> Imitation[host].technique = "homoglyph"
      BY <3>1 DEF Names
    <3>3. PICK i \in DOMAIN BrandDomains :
             /\ Imitation[host].brand = BrandDomains[i] /\ Resembles(host, i)
             /\ ReadsTheSame(Imitation[host].technique, host, i)
      BY <3>2, ImitationIs
    <3> DEFINE brand == id[5][2]
               j == Rank(brand)
    <3>4. brand = BrandDomains[i]
      BY <3>2, <3>3
    <3>5. j \in DOMAIN BrandDomains /\ BrandDomains[j] = brand
      <4> HIDE DEF brand
      <4> QED BY <3>4, RankIs
    <3> HIDE DEF brand, j
    <3>6. WithinLimit[j] = WithinLimit[i]
      BY <3>4, <3>5 DEF WithinLimit, Near
    <3>7. /\ DomainOf(host) # brand
          /\ \/ Reading(host) \in WithinLimit[j]
             \/ Contains(Folded(host), Head(brand)) /\ Len(Head(brand).chars) >= MinComparable
          /\ Imitation[host].technique = "homoglyph" <=> Reading(host) = Text(Folded(brand))
      BY <3>3, <3>4, <3>6 DEF Resembles, ReadsTheSame
    <3> QED BY <3>2, <3>7 DEF brand, j
  <2>10. ASSUME NEW host \in Compared, ~IsBrand(DomainOf(host)),
                NEW i \in DOMAIN BrandDomains, Reading(host) \in WithinOne[i]
         PROVE  \E id \in Imitations : id[5][1] = host
    <3>0. host \in ({SenderDomain(message)} \cup {l.host : l \in Range(message.links)}) \ {NoHost}
      BY DEF Compared
    <3>1. /\ host \in Host
          /\ Imitation[host] # Silent => \E k \in Detect(message) : Imitating(k) /\ k.hosts[1] = host
      BY <2>1, <3>0, DetectIsHonest
    <3>2. Imitation[host] # Silent
      BY <2>10, <3>1, ImitationIs
    <3>3. PICK k \in Detect(message) : Imitating(k) /\ k.hosts[1] = host
      BY <3>1, <3>2
    <3> QED BY <2>4, <2>8, <3>3
  <2> HIDE DEF Rank
  <2> QED BY <2>9, <2>10
<1> QED BY <1>1, Invariance, EvidenceIsAllThereIs, PTL
=============================================================================
