----------------------------- MODULE Fusion_proofs -----------------------------
(***************************************************************************)
(* Reciprocal-rank fusion with the constant 60: what both retrievers found *)
(* comes first, for all rankings of up to 61 chunks.  With 62 it would     *)
(* not: two last places weigh no more than one first place then.           *)
(***************************************************************************)
EXTENDS MCAgentGraph, AgentGraph_proofs, FunctionTheorems

-----------------------------------------------------------------------------
(* Finite sets in order.                                                   *)

\* Strictly ordered: the pairs of S in R, the first before the second.
Orders(R, S) ==
    /\ \A x \in S : <<x, x>> \notin R
    /\ \A x, y, z \in S : <<x, y>> \in R /\ <<y, z>> \in R => <<x, z>> \in R
    /\ \A x, y \in S : x = y \/ <<x, y>> \in R \/ <<y, x>> \in R

\* A finite set can be written down in its order: each member at the place after
\* those before it.
LEMMA OrderedSequence ==
  ASSUME NEW S, IsFiniteSet(S), NEW R, Orders(R, S)
  PROVE  \E q \in SetToSeqs(S) : \A i, j \in DOMAIN q : i < j => <<q[i], q[j]>> \in R
<1>. DEFINE n == Cardinality(S)
            below(x) == {y \in S : <<y, x>> \in R}
            place == [x \in S |-> Cardinality(below(x)) + 1]
<1>1. n \in Nat
  BY FS_CardinalityType
<1>2. ASSUME NEW x \in S
      PROVE  IsFiniteSet(below(x)) /\ Cardinality(below(x)) \in Nat /\ place[x] \in 1..n
  <2>1. below(x) \in SUBSET (S \ {x})
    BY DEF Orders
  <2>2. IsFiniteSet(S \ {x}) /\ Cardinality(S \ {x}) = n - 1
    BY FS_RemoveElement
  <2>3. IsFiniteSet(below(x)) /\ Cardinality(below(x)) <= n - 1
    <3>. HIDE DEF below, n
    <3>1. /\ IsFiniteSet(below(x))
          /\ Cardinality(below(x)) <= Cardinality(S \ {x})
      BY <2>1, <2>2, FS_Subset
    <3>. QED
      BY <2>2, <3>1
  <2>4. Cardinality(below(x)) \in Nat
    <3>. HIDE DEF below
    <3>. QED  BY <2>3, FS_CardinalityType
  <2>. HIDE DEF below, n
  <2>. QED
    BY <1>1, <2>3, <2>4
<1>3. ASSUME NEW x \in S, NEW y \in S, <<x, y>> \in R
      PROVE  place[x] < place[y]
  <2>1. x \notin below(x) /\ below(x) \cup {x} \in SUBSET below(y)
    BY <1>3 DEF Orders
  <2>2. /\ Cardinality(below(x) \cup {x}) = Cardinality(below(x)) + 1
        /\ Cardinality(below(x) \cup {x}) <= Cardinality(below(y))
    BY <1>2, <2>1, FS_AddElement, FS_Subset
  <2>3. Cardinality(below(x)) \in Nat /\ Cardinality(below(y)) \in Nat
    BY <1>2
  <2>. HIDE DEF below
  <2>. QED
    BY <2>2, <2>3
<1>. HIDE DEF n, place
<1>4. place \in [S -> 1..n]
  BY <1>2 DEF place
<1>5. \A x, y \in S : place[x] = place[y] => x = y
  <2>. SUFFICES ASSUME NEW x \in S, NEW y \in S, place[x] = place[y], x # y PROVE FALSE
    OBVIOUS
  <2>1. place[x] < place[y] \/ place[y] < place[x]
    BY <1>3 DEF Orders
  <2>2. place[x] \in 1..n /\ place[y] \in 1..n
    BY <1>4
  <2>. QED
    BY <1>1, <2>1, <2>2
<1>6. \A i \in 1..n : \E x \in S : place[x] = i
  <2>1. place \in Injection(S, 1..n)
    BY <1>4, <1>5, Fun_IsInj
  <2>2. IsFiniteSet(1..n) /\ Cardinality(1..n) = Cardinality(S)
    BY <1>1, FS_Interval DEF n
  <2>3. place \in Surjection(S, 1..n)
    BY <2>1, <2>2, FS_Injection
  <2>. QED
    BY <2>3, Fun_SurjectionProperties
<1>. DEFINE q == [i \in 1..n |-> CHOOSE x \in S : place[x] = i]
<1>7. q \in [1..n -> S] /\ \A i \in 1..n : place[q[i]] = i
  BY <1>6
<1>. HIDE DEF q
<1>8. q \in SetToSeqs(S)
  BY <1>7 DEF SetToSeqs, n
<1>9. ASSUME NEW i \in DOMAIN q, NEW j \in DOMAIN q, i < j PROVE <<q[i], q[j]>> \in R
  <2>1. i \in 1..n /\ j \in 1..n /\ q[i] \in S /\ q[j] \in S
    BY <1>7
  <2>2. place[q[i]] = i /\ place[q[j]] = j
    BY <1>7, <2>1
  <2>3. ~(j < i) /\ i # j
    BY <1>1, <1>9, <2>1
  <2>4. <<q[j], q[i]>> \notin R
    BY <1>3, <2>1, <2>2, <2>3
  <2>5. q[i] # q[j]
    BY <2>2, <2>3
  <2>. QED
    BY <2>1, <2>4, <2>5 DEF Orders
<1>. QED
  BY <1>8, <1>9

\* A sequence of all members of a finite set, each once, leaves none out.
LEMMA SequenceOfAll ==
  ASSUME NEW S, IsFiniteSet(S), NEW q \in SetToSeqs(S)
  PROVE  /\ q \in Seq(S) /\ IsInjective(q)
         /\ Range(q) = S
<1>. DEFINE n == Cardinality(S)
<1>1. n \in Nat /\ IsFiniteSet(1..n) /\ Cardinality(1..n) = n
  BY FS_CardinalityType, FS_Interval
<1>2. q \in [1..n -> S] /\ \A i, j \in 1..n : q[i] = q[j] => i = j
  BY DEF SetToSeqs
<1>. HIDE DEF n
<1>3. q \in Injection(1..n, S)
  BY <1>2, Fun_IsInj
<1>4. q \in Surjection(1..n, S)
  BY <1>1, <1>3, FS_Injection DEF n
<1>5. Range(q) = S
  BY <1>4, Fun_SurjectionProperties
<1>6. q \in Seq(S)
  BY <1>1, <1>2
<1>7. IsInjective(q)
  BY <1>2 DEF IsInjective
<1>. QED
  BY <1>5, <1>6, <1>7

-----------------------------------------------------------------------------
(* Ranks.                                                                  *)

\* A ranking of at most n chunks.
LEMMA RankingIs ==
  ASSUME NEW S, NEW n \in Nat, NEW q \in Rankings(S, n)
  PROVE  /\ q \in Seq(S) /\ Len(q) \in 0..n
         /\ \A i, j \in 1..Len(q) : q[i] = q[j] => i = j
<1>1. PICK m \in 0..n : q \in [1..m -> S]
  BY DEF Rankings
<1>2. q \in Seq(S) /\ Len(q) = m /\ DOMAIN q = 1..m
  BY <1>1
<1>3. IsInjective(q)
  BY DEF Rankings
<1>. QED
  BY <1>2, <1>3 DEF IsInjective

LEMMA RankIs ==
  ASSUME NEW S, NEW q \in Seq(S), NEW x, Ranked(q, x)
  PROVE  Rank(q, x) \in 1..Len(q) /\ q[Rank(q, x)] = x
<1>1. \E i \in DOMAIN q : q[i] = x
  BY Zenon DEF Ranked, Range
<1>2. DOMAIN q = 1..Len(q)
  OBVIOUS
<1>. QED
  BY <1>1, <1>2 DEF Rank

LEMMA PlaceIs ==
  ASSUME NEW n \in 0..61, NEW r \in 1..n
  PROVE  RRF_K + r \in 61..121 /\ r \in Nat
BY DEF RRF_K

LEMMA RangeIsFinite ==
  ASSUME NEW S, NEW q \in Seq(S)
  PROVE  IsFiniteSet(Range(q))
<1>1. q \in [1..Len(q) -> S] /\ Len(q) \in Nat
  OBVIOUS
<1>2. q \in Surjection(1..Len(q), Range(q))
  BY <1>1, Fun_RangeProperties
<1>3. IsFiniteSet(1..Len(q))
  BY <1>1, FS_Interval
<1>. QED
  BY <1>2, <1>3, FS_Surjection

-----------------------------------------------------------------------------
(* Scores. They are fractions, compared by multiplying out.                *)

Fractions == {<<m, n>> : m \in Nat, n \in Nat \ {0}}

LEMMA ExceedsOrders ==
  ASSUME NEW p \in Fractions, NEW q \in Fractions, NEW r \in Fractions
  PROVE  /\ ~Exceeds(p, p)
         /\ Exceeds(p, q) => ~Exceeds(q, p)
         /\ Exceeds(p, q) /\ Exceeds(q, r) => Exceeds(p, r)
         /\ ~Exceeds(p, q) /\ ~Exceeds(q, r) => ~Exceeds(p, r)
<1>1. PICK a \in Nat, b \in Nat \ {0} : p = <<a, b>>
  BY DEF Fractions
<1>2. PICK c \in Nat, e \in Nat \ {0} : q = <<c, e>>
  BY DEF Fractions
<1>3. PICK f \in Nat, g \in Nat \ {0} : r = <<f, g>>
  BY DEF Fractions
<1>4. /\ Exceeds(p, p) <=> a * b > a * b
      /\ Exceeds(p, q) <=> a * e > c * b
      /\ Exceeds(q, p) <=> c * b > a * e
      /\ Exceeds(q, r) <=> c * g > f * e
      /\ Exceeds(p, r) <=> a * g > f * b
  BY <1>1, <1>2, <1>3 DEF Exceeds
<1>5. /\ a * b \in Nat /\ a * e \in Nat /\ c * b \in Nat
      /\ c * g \in Nat /\ f * e \in Nat /\ a * g \in Nat /\ f * b \in Nat
  OBVIOUS
<1>6. ASSUME a * e > c * b, c * g > f * e PROVE a * g > f * b
  <2>1. (a * e) * g > (c * b) * g
    BY <1>6
  <2>2. (c * g) * b > (f * e) * b
    BY <1>6
  <2>3. (a * g) * e > (f * b) * e
    BY <2>1, <2>2
  <2>. QED
    BY <2>3
<1>7. ASSUME a * e <= c * b, c * g <= f * e PROVE a * g <= f * b
  <2>1. (a * e) * g <= (c * b) * g
    BY <1>7
  <2>2. (c * g) * b <= (f * e) * b
    BY <1>7
  <2>3. (a * g) * e <= (f * b) * e
    BY <2>1, <2>2
  <2>. QED
    BY <2>3
<1>. QED
  BY <1>4, <1>5, <1>6, <1>7

\* Two places of 61 outweigh one, whichever they are.
LEMMA TwoOutweighOne ==
  ASSUME NEW a \in 61..121, NEW b \in 61..121, NEW c \in 61..121
  PROVE  (a + b) * c > a * b
<1>. DEFINE u == a - 61
            v == b - 61
<1>1. u \in 0..60 /\ v \in 0..60 /\ a = 61 + u /\ b = 61 + v
  OBVIOUS
<1>. HIDE DEF u, v
<1>2. u * v <= 60 * v
  BY <1>1
<1>3. u * v <= 3600
  BY <1>1, <1>2
<1>4. a * b = 3721 + 61 * u + 61 * v + u * v
  BY <1>1
<1>5. (a + b) * 61 > a * b
  BY <1>1, <1>3, <1>4
<1>6. (a + b) * c >= (a + b) * 61
  OBVIOUS
<1>7. (a + b) * c \in Int /\ a * b \in Int /\ (a + b) * 61 \in Int
  OBVIOUS
<1>. QED
  BY <1>5, <1>6, <1>7

\* Two better places outweigh two worse ones.
LEMMA BetterTwice ==
  ASSUME NEW a \in Nat, NEW b \in Nat, NEW c \in Nat, NEW e \in Nat,
         0 < a, 0 < b, a < c, b < e
  PROVE  (a + b) * (c * e) > (c + e) * (a * b)
<1>1. (a * c) * e > (a * c) * b
  OBVIOUS
<1>2. (b * e) * c > (b * e) * a
  OBVIOUS
<1>3. (a + b) * (c * e) = (a * c) * e + (b * e) * c
  OBVIOUS
<1>4. (c + e) * (a * b) = (a * c) * b + (b * e) * a
  OBVIOUS
<1>. QED
  BY <1>1, <1>2, <1>3, <1>4

LEMMA ScoreIs ==
  ASSUME NEW S, NEW d \in Seq(S), NEW s \in Seq(S), NEW x, Ranked(d, x) \/ Ranked(s, x)
  PROVE  Score(d, s, x) \in Fractions
<1>. DEFINE a == RRF_K + Rank(d, x)
            b == RRF_K + Rank(s, x)
<1>1. Ranked(d, x) => a \in Nat \ {0}
  BY RankIs DEF RRF_K
<1>2. Ranked(s, x) => b \in Nat \ {0}
  BY RankIs DEF RRF_K
<1>3. Score(d, s, x) = IF Ranked(d, x) /\ Ranked(s, x) THEN <<a + b, a * b>>
                       ELSE IF Ranked(d, x) THEN <<1, a>> ELSE <<1, b>>
  BY DEF Score
<1>. HIDE DEF a, b
<1>4. CASE Ranked(d, x) /\ Ranked(s, x)
  <2>1. a + b \in Nat /\ a * b \in Nat \ {0}
    BY <1>1, <1>2, <1>4
  <2>. QED
    BY <1>3, <1>4, <2>1 DEF Fractions
<1>5. CASE Ranked(d, x) /\ ~Ranked(s, x)
  <2>1. Score(d, s, x) = <<1, a>> /\ a \in Nat \ {0}
    BY <1>1, <1>3, <1>5
  <2>. QED
    BY <2>1 DEF Fractions
<1>6. CASE ~Ranked(d, x)
  <2>1. Score(d, s, x) = <<1, b>> /\ b \in Nat \ {0}
    BY <1>2, <1>3, <1>6
  <2>. QED
    BY <2>1 DEF Fractions
<1>. QED
  BY <1>4, <1>5, <1>6

-----------------------------------------------------------------------------
(* The fusion.                                                             *)

\* Chunks are first met one after the other.
LEMMA FirstMetTells ==
  ASSUME NEW S, NEW d \in Seq(S), NEW s \in Seq(S), NEW x, NEW y,
         Ranked(d, x) \/ Ranked(s, x), Ranked(d, y) \/ Ranked(s, y)
  PROVE  /\ FirstMet(d, s, x) \in Nat
         /\ FirstMet(d, s, x) = FirstMet(d, s, y) => x = y
<1>1. /\ Ranked(d, x) => Rank(d, x) \in 1..Len(d) /\ d[Rank(d, x)] = x
      /\ Ranked(d, y) => Rank(d, y) \in 1..Len(d) /\ d[Rank(d, y)] = y
      /\ Ranked(s, x) => Rank(s, x) \in 1..Len(s) /\ s[Rank(s, x)] = x
      /\ Ranked(s, y) => Rank(s, y) \in 1..Len(s) /\ s[Rank(s, y)] = y
  BY RankIs
<1>2. /\ FirstMet(d, s, x) = IF Ranked(d, x) THEN Rank(d, x) ELSE Len(d) + Rank(s, x)
      /\ FirstMet(d, s, y) = IF Ranked(d, y) THEN Rank(d, y) ELSE Len(d) + Rank(s, y)
  BY DEF FirstMet
<1>3. Len(d) \in Nat /\ Len(s) \in Nat
  OBVIOUS
<1>. QED
  BY <1>1, <1>2, <1>3

\* Scores, and where they tie the order of first meeting, order what was found.
LEMMA FoundIsOrdered ==
  ASSUME NEW S, NEW d \in Seq(S), NEW s \in Seq(S)
  PROVE  LET F == Range(d) \cup Range(s)
         IN  Orders({e \in F \X F : Before(d, s, e[1], e[2])}, F)
<1>. DEFINE F == Range(d) \cup Range(s)
            R == {e \in F \X F : Before(d, s, e[1], e[2])}
            more(x, y) == Exceeds(Score(d, s, x), Score(d, s, y))
            met(x) == FirstMet(d, s, x)
<1>1. \A x \in F : Ranked(d, x) \/ Ranked(s, x)
  BY Zenon DEF Ranked
<1>2. \A x, y \in F : <<x, y>> \in R <=> more(x, y) \/ (~more(y, x) /\ met(x) < met(y))
  BY DEF Before
<1>3. \A x \in F : Score(d, s, x) \in Fractions
  BY <1>1, ScoreIs
<1>4. \A x, y, z \in F : /\ ~more(x, x)
                         /\ more(x, y) => ~more(y, x)
                         /\ more(x, y) /\ more(y, z) => more(x, z)
                         /\ ~more(x, y) /\ ~more(y, z) => ~more(x, z)
  BY <1>3, ExceedsOrders
<1>5. \A x, y \in F : met(x) \in Nat /\ (met(x) = met(y) => x = y)
  BY <1>1, FirstMetTells
<1>. HIDE DEF F, R, more, met
<1>6. \A x \in F : <<x, x>> \notin R
  BY <1>2, <1>4, <1>5
<1>7. ASSUME NEW x \in F, NEW y \in F, NEW z \in F, <<x, y>> \in R, <<y, z>> \in R
      PROVE  <<x, z>> \in R
  <2>1. /\ more(x, y) \/ (~more(y, x) /\ met(x) < met(y))
        /\ more(y, z) \/ (~more(z, y) /\ met(y) < met(z))
    BY <1>2, <1>7
  <2>2. met(x) \in Nat /\ met(y) \in Nat /\ met(z) \in Nat
    BY <1>5
  <2>3. /\ more(x, y) => ~more(y, x)
        /\ more(y, z) => ~more(z, y)
        /\ ~more(z, y) /\ ~more(y, x) => ~more(z, x)
    BY <1>4
  <2>4. /\ more(x, y) /\ more(y, z) => more(x, z)
        /\ ~more(x, z) /\ ~more(z, y) => ~more(x, y)
        /\ ~more(y, x) /\ ~more(x, z) => ~more(y, z)
    BY <1>4
  <2>5. more(x, z) \/ (~more(z, x) /\ met(x) < met(z))
    BY <2>1, <2>2, <2>3, <2>4
  <2>. QED
    BY <1>2, <2>5
<1>8. ASSUME NEW x \in F, NEW y \in F, x # y PROVE <<x, y>> \in R \/ <<y, x>> \in R
  <2>1. met(x) < met(y) \/ met(y) < met(x)
    BY <1>5, <1>8
  <2>. QED
    BY <1>2, <2>1
<1>9. Orders(R, F)
  BY <1>6, <1>7, <1>8 DEF Orders
<1>. QED
  BY <1>9 DEF F, R

\* The fusion has what was found, each chunk once, in that order.
LEMMA FusionIs ==
  ASSUME NEW S, NEW d \in Seq(S), NEW s \in Seq(S)
  PROVE  /\ Range(rrf(d, s)) = Range(d) \cup Range(s)
         /\ IsInjective(rrf(d, s))
         /\ \A x, y \in Range(d) \cup Range(s) :
              Before(d, s, x, y) => Rank(rrf(d, s), x) < Rank(rrf(d, s), y)
<1>. DEFINE F == Range(d) \cup Range(s)
            R == {e \in F \X F : Before(d, s, e[1], e[2])}
            q == rrf(d, s)
<1>1. IsFiniteSet(F)
  BY RangeIsFinite, FS_Union
<1>2. Orders(R, F)
  BY FoundIsOrdered
<1>3. \A x, y \in F : <<x, y>> \in R <=> Before(d, s, x, y)
  OBVIOUS
<1>4. /\ q \in SetToSeqs(F)
      /\ \A i, j \in DOMAIN q : i < j => Before(d, s, q[i], q[j])
  <2>. HIDE DEF F, R
  <2>1. PICK p \in SetToSeqs(F) : \A i, j \in DOMAIN p : i < j => <<p[i], p[j]>> \in R
    BY <1>1, <1>2, OrderedSequence
  <2>2. \A i \in DOMAIN p : p[i] \in F
    BY DEF SetToSeqs
  <2>3. \A i, j \in DOMAIN p : i < j => Before(d, s, p[i], p[j])
    BY <1>3, <2>1, <2>2
  <2>4. q = CHOOSE r \in SetToSeqs(F) :
               \A i, j \in DOMAIN r : i < j => Before(d, s, r[i], r[j])
    BY DEF rrf, F
  <2>. HIDE DEF q
  <2>. QED
    BY <2>3, <2>4
<1>. HIDE DEF F, R, q
<1>5. q \in Seq(F) /\ IsInjective(q) /\ Range(q) = F
  BY <1>1, <1>4, SequenceOfAll
<1>6. ASSUME NEW x \in F, NEW y \in F, Before(d, s, x, y)
      PROVE  Rank(q, x) < Rank(q, y)
  <2>. DEFINE i == Rank(q, x)
              j == Rank(q, y)
  <2>1. i \in 1..Len(q) /\ q[i] = x /\ j \in 1..Len(q) /\ q[j] = y
    BY <1>5, RankIs DEF Ranked
  <2>2. DOMAIN q = 1..Len(q) /\ Len(q) \in Nat
    BY <1>5
  <2>. HIDE DEF i, j
  <2>3. j < i => Before(d, s, y, x)
    BY <1>4, <2>1, <2>2
  <2>4. i = j => x = y
    BY <2>1
  <2>5. <<x, x>> \notin R /\ <<x, y>> \in R /\ (<<y, x>> \in R => <<x, x>> \in R)
    BY <1>2, <1>3, <1>6 DEF Orders
  <2>6. ~(j < i) /\ i # j
    BY <1>3, <2>3, <2>4, <2>5
  <2>. QED
    BY <2>1, <2>2, <2>6 DEF i, j
<1>. QED
  BY <1>5, <1>6 DEF F, q

\* For all rankings of up to 61 chunks: nothing is lost or repeated, a chunk both
\* retrievers found comes before every chunk only one found, and of two that both
\* found, the one neither ranks lower comes first (_rrf and its constant 60).
THEOREM FusionKeepsOrder ==
  ASSUME NEW S, NEW d \in Rankings(S, 61), NEW s \in Rankings(S, 61)
  PROVE  FusionOrder(d, s)
<1>. DEFINE F == Range(d) \cup Range(s)
            Both == Range(d) \cap Range(s)
<1>1. d \in Seq(S) /\ Len(d) \in 0..61 /\ s \in Seq(S) /\ Len(s) \in 0..61
  BY RankingIs
<1>2. ASSUME NEW x, Ranked(d, x)
      PROVE  RRF_K + Rank(d, x) \in 61..121 /\ Rank(d, x) \in Nat
  <2>1. Rank(d, x) \in 1..Len(d) /\ Len(d) \in 0..61
    BY <1>1, <1>2, RankIs
  <2>. QED
    BY <2>1, PlaceIs
<1>3. ASSUME NEW x, Ranked(s, x)
      PROVE  RRF_K + Rank(s, x) \in 61..121 /\ Rank(s, x) \in Nat
  <2>1. Rank(s, x) \in 1..Len(s) /\ Len(s) \in 0..61
    BY <1>1, <1>3, RankIs
  <2>. QED
    BY <2>1, PlaceIs
<1>4. /\ \A x \in Both : Ranked(d, x) /\ Ranked(s, x) /\ x \in F
      /\ \A y \in F \ Both : \/ Ranked(d, y) /\ ~Ranked(s, y)
                             \/ ~Ranked(d, y) /\ Ranked(s, y)
  BY Zenon DEF Ranked
<1>5. \A x \in Both :
        Score(d, s, x) = <<(RRF_K + Rank(d, x)) + (RRF_K + Rank(s, x)),
                           (RRF_K + Rank(d, x)) * (RRF_K + Rank(s, x))>>
  BY <1>4 DEF Score
<1>. HIDE DEF F, Both
<1>6. ASSUME NEW x \in Both, NEW y \in F \ Both
      PROVE  Before(d, s, x, y)
  <2>. DEFINE a == RRF_K + Rank(d, x)
              b == RRF_K + Rank(s, x)
              c == IF Ranked(d, y) THEN RRF_K + Rank(d, y) ELSE RRF_K + Rank(s, y)
  <2>1. a \in 61..121 /\ b \in 61..121 /\ c \in 61..121
    BY <1>2, <1>3, <1>4
  <2>2. Score(d, s, x) = <<a + b, a * b>> /\ Score(d, s, y) = <<1, c>>
    BY <1>4, <1>5 DEF Score
  <2>. HIDE DEF a, b, c
  <2>3. (a + b) * c > 1 * (a * b)
    BY <2>1, TwoOutweighOne
  <2>. QED
    BY <2>2, <2>3 DEF Before, Exceeds
<1>7. ASSUME NEW x \in Both, NEW y \in Both,
             Rank(d, x) < Rank(d, y), Rank(s, x) < Rank(s, y)
      PROVE  Before(d, s, x, y)
  <2>. DEFINE a == RRF_K + Rank(d, x)
              b == RRF_K + Rank(s, x)
              c == RRF_K + Rank(d, y)
              e == RRF_K + Rank(s, y)
  <2>1. a \in Nat /\ b \in Nat /\ c \in Nat /\ e \in Nat /\ 0 < a /\ 0 < b
    BY <1>2, <1>3, <1>4
  <2>2. a < c /\ b < e
    BY <1>2, <1>3, <1>4, <1>7 DEF RRF_K
  <2>3. Score(d, s, x) = <<a + b, a * b>> /\ Score(d, s, y) = <<c + e, c * e>>
    BY <1>5
  <2>. HIDE DEF a, b, c, e
  <2>4. (a + b) * (c * e) > (c + e) * (a * b)
    BY <2>1, <2>2, BetterTwice
  <2>. QED
    BY <2>3, <2>4 DEF Before, Exceeds
<1>8. /\ Range(rrf(d, s)) = F /\ IsInjective(rrf(d, s))
      /\ \A x, y \in F : Before(d, s, x, y) => Rank(rrf(d, s), x) < Rank(rrf(d, s), y)
  BY <1>1, FusionIs DEF F
<1>9. FusionOrder(d, s) <=>
        /\ Range(rrf(d, s)) = F /\ IsInjective(rrf(d, s))
        /\ \A x \in Both : \A y \in Range(rrf(d, s)) \ Both :
              Rank(rrf(d, s), x) < Rank(rrf(d, s), y)
        /\ \A x, y \in Both :
              Rank(d, x) < Rank(d, y) /\ Rank(s, x) < Rank(s, y) =>
                  Rank(rrf(d, s), x) < Rank(rrf(d, s), y)
  BY Zenon DEF FusionOrder, F, Both
<1>. QED
  BY <1>4, <1>6, <1>7, <1>8, <1>9

-----------------------------------------------------------------------------
(* The searches.                                                           *)

\* What the vector store has returned to a search is a ranking.
DenseIsRanked == \A c \in Call : call[c].dense \in Rankings(Body, 2 * K)

LEMMA RankingsGrow ==
  ASSUME NEW S, NEW T, S \subseteq T, NEW m \in Nat, NEW n \in Nat, m <= n
  PROVE  Rankings(S, m) \subseteq Rankings(T, n)
<1>. SUFFICES ASSUME NEW q \in Rankings(S, m) PROVE q \in Rankings(T, n)
  OBVIOUS
<1>1. PICK l \in 0..m : q \in [1..l -> S]
  BY DEF Rankings
<1>2. l \in 0..n /\ q \in [1..l -> T]
  BY <1>1
<1>3. IsInjective(q)
  BY DEF Rankings
<1>. QED
  BY <1>2, <1>3 DEF Rankings

LEMMA EmptyIsRanked == <<>> \in Rankings(Body, 2 * K)
<1>1. 0 \in 0..(2 * K)
  BY KAssumption
<1>2. <<>> \in [1..0 -> Body]
  OBVIOUS
<1>3. IsInjective(<<>>)
  BY DEF IsInjective
<1>. QED
  BY <1>1, <1>2, <1>3 DEF Rankings

LEMMA DenseInit == Init => DenseIsRanked
<1>. SUFFICES ASSUME Init, NEW c \in Call PROVE call[c].dense \in Rankings(Body, 2 * K)
  BY DEF DenseIsRanked
<1>1. PICK u \in User : call[c] = [Searching(u, FALSE) EXCEPT !.pc = "idle"]
  BY DEF Init, RetrievalInit
<1>2. call[c].dense = <<>>
  BY <1>1 DEF Searching
<1>. QED
  BY <1>2, EmptyIsRanked

LEMMA DenseStep == TypeOK /\ DenseIsRanked /\ [Next]_vars => DenseIsRanked'
<1>. SUFFICES ASSUME TypeOK, DenseIsRanked, [Next]_vars PROVE DenseIsRanked'
  OBVIOUS
<1>0. call \in [Call -> CallRecord]
  BY DEF TypeOK, RetrievalTypeOK
<1>1. CASE call' = call
  BY <1>1 DEF DenseIsRanked
<1>2. ASSUME NEW c \in Call, NEW next, call' = [call EXCEPT ![c] = next],
             next.dense \in Rankings(Body, 2 * K)
      PROVE  DenseIsRanked'
  <2>1. \A x \in Call : call'[x] = IF x = c THEN next ELSE call[x]
    BY <1>0, <1>2
  <2>. QED
    BY <1>2, <2>1 DEF DenseIsRanked
<1>3. ASSUME NEW c \in Call, NEW u, NEW hybrid, StartSearch(c, u, hybrid)
      PROVE  DenseIsRanked'
  <2>1. Searching(u, hybrid).dense = <<>> /\ call' = [call EXCEPT ![c] = Searching(u, hybrid)]
    BY <1>3 DEF StartSearch, Go, Searching
  <2>. QED
    BY <1>2, <2>1, EmptyIsRanked
<1>4. ASSUME NEW c \in Call, SearchStep(c) PROVE DenseIsRanked'
  <2>. DEFINE old == call[c]
  <2>0. old \in CallRecord /\ old.dense \in Rankings(Body, 2 * K)
    BY <1>0 DEF DenseIsRanked
  <2>1. CASE Dense(c)
    <3>. DEFINE k == IF old.hybrid THEN 2 * K ELSE K
                pc == IF old.hybrid THEN "read" ELSE "resolve"
    <3>1. PICK q \in Rankings(vecs[old.user], k) :
            call' = [call EXCEPT ![c] = [old EXCEPT !.dense = q, !.pc = pc]]
      BY <2>1 DEF Dense, Go
    <3>2. k \in Nat /\ 2 * K \in Nat /\ k <= 2 * K
      BY KAssumption
    <3>3. vecs[old.user] \subseteq Body
      BY <2>0 DEF TypeOK, RetrievalTypeOK, CallRecord
    <3>. HIDE DEF k, pc
    <3>4. q \in Rankings(Body, 2 * K)
      BY <3>2, <3>3, RankingsGrow
    <3>5. [old EXCEPT !.dense = q, !.pc = pc].dense = q
      BY <2>0 DEF CallRecord
    <3>. QED
      BY <1>2, <3>1, <3>4, <3>5
  <2>2. CASE ReadChunks(c)
    <3>1. [old EXCEPT !.pc = "index", !.chunks = held[old.user]].dense = old.dense
      BY <2>0 DEF CallRecord
    <3>. QED
      BY <1>2, <2>0, <2>2, <3>1 DEF ReadChunks, Go
  <2>3. CASE UseIndex(c)
    <3>1. [old EXCEPT !.pc = "resolve", !.index = bm25[old.user]].dense = old.dense
      BY <2>0 DEF CallRecord
    <3>. QED
      BY <1>2, <2>0, <2>3, <3>1 DEF UseIndex, Go
  <2>4. CASE BuildIndex(c)
    <3>. DEFINE pc == IF old.chunks # {} /\ old.chunks \subseteq Wordless THEN "failed" ELSE "resolve"
    <3>1. call' = [call EXCEPT ![c] = [old EXCEPT !.pc = pc, !.index = old.chunks]]
      BY <2>4 DEF BuildIndex, Go
    <3>. HIDE DEF pc
    <3>2. [old EXCEPT !.pc = pc, !.index = old.chunks].dense = old.dense
      BY <2>0 DEF CallRecord
    <3>. QED
      BY <1>2, <2>0, <3>1, <3>2
  <2>5. CASE Resolve(c)
    <3>1. PICK docs \in SUBSET held[old.user] :
            call' = [call EXCEPT ![c] =
                       [Searching(old.user, old.hybrid) EXCEPT !.pc = "done", !.docs = docs]]
      BY <2>5 DEF Resolve, Go, Texts
    <3>2. [Searching(old.user, old.hybrid) EXCEPT !.pc = "done", !.docs = docs].dense = <<>>
      BY DEF Searching
    <3>. QED
      BY <1>2, <3>1, <3>2, EmptyIsRanked
  <2>. QED
    BY <1>4, <2>1, <2>2, <2>3, <2>4, <2>5 DEF SearchStep
<1>5. \A a \in Agent : a \in Call
  BY AgentAssumption
<1>. QED
  BY <1>1, <1>3, <1>4, <1>5, StepIs DEF vars, ContentChanges

\* Every fusion a search can make is sound, and so are those of all small rankings,
\* as long as neither list has more than 61 places (the code asks for 8 in each).
THEOREM SearchesFuseSoundly ==
  ASSUME 2 * K <= 61
  PROVE  Spec => []FusionIsSound
<1>1. ASSUME TypeOK, DenseIsRanked PROVE FusionIsSound
  <2>1. ASSUME NEW c \in Call, NEW s \in Rankings(call[c].index \ Wordless, 2 * K)
        PROVE  FusionOrder(call[c].dense, s)
    <3>1. 2 * K \in Nat /\ 61 \in Nat
      BY KAssumption
    <3>2. call[c].index \ Wordless \subseteq Body
      BY <1>1 DEF TypeOK, RetrievalTypeOK, CallRecord
    <3>3. s \in Rankings(Body, 61)
      BY <3>1, <3>2, RankingsGrow
    <3>4. call[c].dense \in Rankings(Body, 61)
      BY <1>1, <3>1, RankingsGrow DEF DenseIsRanked
    <3>. QED
      BY <3>3, <3>4, FusionKeepsOrder
  <2>2. ASSUME NEW d \in Rankings(1..4, 3), NEW s \in Rankings(1..4, 3)
        PROVE  FusionOrder(d, s)
    <3>1. d \in Rankings(1..4, 61) /\ s \in Rankings(1..4, 61)
      BY RankingsGrow
    <3>. QED
      BY <3>1, FusionKeepsOrder
  <2>. QED
    BY <2>1, <2>2 DEF FusionIsSound
<1>2. TypeOK /\ DenseIsRanked => FusionIsSound
  BY <1>1
<1>. QED
  BY <1>2, DenseInit, DenseStep, Types, PTL DEF Spec
==============================================================================
