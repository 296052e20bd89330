-------------------------- MODULE IvyResolveProofs --------------------------
(***************************************************************************)
(* Theorems about IvyResolve, for every set of module revisions and every  *)
(* dependency graph over them.                                             *)
(***************************************************************************)
EXTENDS IvyResolve, FiniteSetTheorems, TLAPS

-----------------------------------------------------------------------------
(* The order of revisions                                                  *)

\* Induction over data, as a fact about sets: every set of numbers has a
\* least one.
LEMMA Least ==
  ASSUME NEW S \in SUBSET Nat, S # {}
  PROVE  \E m \in S : \A k \in S : m <= k
<1>1. PICK R : IsWellFoundedOn(R, Nat) /\ \A x, y \in Nat : y < x => <<y, x>> \in R
  BY NatLessThanWellFounded DEF OpToRel
<1>2. PICK m \in S : \A y \in S : ~(<<y, m>> \in R)
  BY <1>1, WFMin
<1>3. ASSUME NEW k \in S
      PROVE  m <= k
  <2>1. k \in Nat /\ m \in Nat /\ ~(<<k, m>> \in R)
    BY <1>2
  <2>2. ~(k < m)
    BY <1>1, <2>1
  <2> QED
    BY <2>1, <2>2
<1> QED
  BY <1>3

LEMMA ReadAsType ==
  ASSUME NEW t \in Token
  PROVE  ReadAs(t) \in Nat
BY LongMaxAssumption DEF Token, ReadAs, strtol

LEMMA TokenOrder ==
  ASSUME NEW s \in Token, NEW t \in Token, NEW u \in Token
  PROVE  /\ CompareTokens(s, t) \in {-1, 0, 1}
         /\ CompareTokens(s, t) > 0 <=> CompareTokens(t, s) < 0
         /\ CompareTokens(s, s) = 0
         /\ CompareTokens(s, t) = 0 <=> CompareTokens(t, s) = 0
         /\ CompareTokens(s, t) = 0 => CompareTokens(s, u) = CompareTokens(t, u)
         /\ CompareTokens(t, u) = 0 => CompareTokens(s, t) = CompareTokens(s, u)
         /\ CompareTokens(s, t) < 0 /\ CompareTokens(t, u) < 0 => CompareTokens(s, u) < 0
<1>1. /\ ReadAs(s) \in Nat /\ ReadAs(t) \in Nat /\ ReadAs(u) \in Nat
      /\ s.numeric \in BOOLEAN /\ t.numeric \in BOOLEAN /\ u.numeric \in BOOLEAN
  BY ReadAsType DEF Token
<1> DEFINE N(x) == IF x.numeric = TRUE THEN 1 ELSE 0
<1>2. ASSUME NEW x \in Token, NEW y \in Token
      PROVE  /\ N(x) \in {0, 1} /\ N(y) \in {0, 1}
             /\ N(x) = N(y) => CompareTokens(x, y) = Sign(ReadAs(x) - ReadAs(y))
             /\ N(x) > N(y) => CompareTokens(x, y) = 1
             /\ N(x) < N(y) => CompareTokens(x, y) = -1
  <2>1. x.numeric \in BOOLEAN /\ y.numeric \in BOOLEAN
    BY DEF Token
  <2>2. CASE x.numeric = TRUE /\ y.numeric = TRUE
    <3>1. x.numeric = y.numeric /\ ~(x.numeric # y.numeric)
      BY <2>2
    <3>2. CompareTokens(x, y) = Sign(ReadAs(x) - ReadAs(y))
      BY <3>1, Zenon DEF CompareTokens
    <3>3. N(x) = 1 /\ N(y) = 1
      BY <2>2
    <3> QED
      BY <3>2, <3>3
  <2>3. CASE x.numeric = TRUE /\ y.numeric = FALSE
    BY <2>3 DEF CompareTokens
  <2>4. CASE x.numeric = FALSE /\ y.numeric = TRUE
    BY <2>4 DEF CompareTokens
  <2>5. CASE x.numeric = FALSE /\ y.numeric = FALSE
    <3>1. x.numeric = y.numeric /\ ~(x.numeric # y.numeric)
      BY <2>5
    <3>2. CompareTokens(x, y) = Sign(ReadAs(x) - ReadAs(y))
      BY <3>1, Zenon DEF CompareTokens
    <3>3. N(x) = 0 /\ N(y) = 0
      BY <2>5
    <3> QED
      BY <3>2, <3>3
  <2> QED
    BY <2>1, <2>2, <2>3, <2>4, <2>5
<1> HIDE DEF N
<1> QED
  BY <1>1, <1>2 DEF Sign

\* The first difference decides.
LEMMA FirstDifference ==
  ASSUME NEW a \in Revision, NEW b \in Revision,
         NEW i \in DOMAIN a.tokens \cap DOMAIN b.tokens,
         CompareTokens(a.tokens[i], b.tokens[i]) # 0,
         \A k \in 1..i - 1 : CompareTokens(a.tokens[k], b.tokens[k]) = 0
  PROVE  CompareRevisions(a, b) = CompareTokens(a.tokens[i], b.tokens[i])
<1>1. /\ a.tokens \in Seq(Token) /\ b.tokens \in Seq(Token)
      /\ DOMAIN a.tokens = 1..Len(a.tokens) /\ DOMAIN b.tokens = 1..Len(b.tokens)
      /\ Len(a.tokens) \in Nat /\ Len(b.tokens) \in Nat
  BY DEF Revision
<1>2. i \in Differences(a, b) /\ Differences(a, b) \subseteq Nat /\ i \in Nat
  BY <1>1 DEF Differences
<1>3. \A k \in Differences(a, b) : i <= k
  <2> SUFFICES ASSUME NEW k \in Differences(a, b), k < i
               PROVE  FALSE
    BY <1>2
  <2>1. k \in 1..i - 1 /\ CompareTokens(a.tokens[k], b.tokens[k]) # 0
    BY <1>1, <1>2 DEF Differences
  <2> QED
    BY <2>1
<1>4. (CHOOSE j \in Differences(a, b) : \A k \in Differences(a, b) : j <= k) = i
  <2> DEFINE j == CHOOSE j \in Differences(a, b) : \A k \in Differences(a, b) : j <= k
  <2>1. j \in Differences(a, b) /\ \A k \in Differences(a, b) : j <= k
    BY <1>2, <1>3
  <2> QED
    BY <1>2, <1>3, <2>1
<1> QED
  BY <1>2, <1>4 DEF CompareRevisions

\* How two revisions compare: at the first position where they differ, or by
\* their lengths.
LEMMA Compared ==
  ASSUME NEW a \in Revision, NEW b \in Revision
  PROVE  \/ /\ \A k \in DOMAIN a.tokens \cap DOMAIN b.tokens :
                  CompareTokens(a.tokens[k], b.tokens[k]) = 0
            /\ CompareRevisions(a, b) = Sign(Len(a.tokens) - Len(b.tokens))
         \/ \E i \in DOMAIN a.tokens \cap DOMAIN b.tokens :
               /\ CompareTokens(a.tokens[i], b.tokens[i]) # 0
               /\ \A k \in 1..i - 1 : CompareTokens(a.tokens[k], b.tokens[k]) = 0
               /\ CompareRevisions(a, b) = CompareTokens(a.tokens[i], b.tokens[i])
<1>1. /\ DOMAIN a.tokens = 1..Len(a.tokens) /\ DOMAIN b.tokens = 1..Len(b.tokens)
      /\ Len(a.tokens) \in Nat /\ Len(b.tokens) \in Nat
  BY DEF Revision
<1>2. CASE Differences(a, b) = {}
  BY <1>2 DEF Differences, CompareRevisions
<1>3. CASE Differences(a, b) # {}
  <2>1. Differences(a, b) \in SUBSET Nat
    BY <1>1 DEF Differences
  <2>2. PICK i \in Differences(a, b) : \A k \in Differences(a, b) : i <= k
    BY <1>3, <2>1, Least
  <2>3. i \in DOMAIN a.tokens \cap DOMAIN b.tokens /\ CompareTokens(a.tokens[i], b.tokens[i]) # 0
    BY DEF Differences
  <2>4. ASSUME NEW k \in 1..i - 1
        PROVE  CompareTokens(a.tokens[k], b.tokens[k]) = 0
    <3>1. k \notin Differences(a, b) /\ k \in DOMAIN a.tokens \cap DOMAIN b.tokens
      BY <1>1, <2>2, <2>3
    <3> QED
      BY <3>1 DEF Differences
  <2> QED
    BY <2>3, <2>4, FirstDifference
<1> QED
  BY <1>2, <1>3

\* Lengths decide between revisions without a difference.
LEMMA NoDifference ==
  ASSUME NEW a \in Revision, NEW b \in Revision,
         \A k \in DOMAIN a.tokens \cap DOMAIN b.tokens :
            CompareTokens(a.tokens[k], b.tokens[k]) = 0
  PROVE  CompareRevisions(a, b) = Sign(Len(a.tokens) - Len(b.tokens))
<1>1. Differences(a, b) = {}
  BY DEF Differences
<1> QED
  BY <1>1 DEF CompareRevisions
LEMMA SignOf ==
  ASSUME NEW m \in Nat, NEW n \in Nat
  PROVE  Sign(m - n) \in {-1, 0, 1} /\ (Sign(m - n) <= 0 <=> m <= n)
  BY DEF Sign

LEMMA CompareType ==
  ASSUME NEW a \in Revision, NEW b \in Revision
  PROVE  CompareRevisions(a, b) \in {-1, 0, 1}
<1>1. Len(a.tokens) \in Nat /\ Len(b.tokens) \in Nat
  BY DEF Revision
<1>2. \A i \in DOMAIN a.tokens \cap DOMAIN b.tokens :
        CompareTokens(a.tokens[i], b.tokens[i]) \in {-1, 0, 1}
  <2> SUFFICES ASSUME NEW i \in DOMAIN a.tokens \cap DOMAIN b.tokens
               PROVE  CompareTokens(a.tokens[i], b.tokens[i]) \in {-1, 0, 1}
    OBVIOUS
  <2>1. a.tokens[i] \in Token /\ b.tokens[i] \in Token
    BY DEF Revision
  <2> QED
    BY <2>1, TokenOrder
<1>3. Sign(Len(a.tokens) - Len(b.tokens)) \in {-1, 0, 1}
  BY <1>1, SignOf
<1> QED
  BY ZenonT(40), <1>2, <1>3, Compared

LEMMA CompareTotal ==
  ASSUME NEW a \in Revision, NEW b \in Revision, CompareRevisions(a, b) > 0
  PROVE  CompareRevisions(b, a) <= 0
<1>1. /\ Len(a.tokens) \in Nat /\ Len(b.tokens) \in Nat
      /\ a.tokens \in Seq(Token) /\ b.tokens \in Seq(Token)
      /\ DOMAIN a.tokens = 1..Len(a.tokens) /\ DOMAIN b.tokens = 1..Len(b.tokens)
  BY DEF Revision
<1>2. \A k \in DOMAIN a.tokens \cap DOMAIN b.tokens :
         a.tokens[k] \in Token /\ b.tokens[k] \in Token
  BY <1>1
<1>3. CASE /\ \A k \in DOMAIN a.tokens \cap DOMAIN b.tokens :
                 CompareTokens(a.tokens[k], b.tokens[k]) = 0
           /\ CompareRevisions(a, b) = Sign(Len(a.tokens) - Len(b.tokens))
  <2>1. \A k \in DOMAIN a.tokens \cap DOMAIN b.tokens :
           CompareTokens(b.tokens[k], a.tokens[k]) = 0
    BY <1>2, <1>3, TokenOrder
  <2>2. CompareRevisions(b, a) = Sign(Len(b.tokens) - Len(a.tokens))
    BY <2>1, NoDifference
  <2>3. PICK m \in Nat, n \in Nat : m = Len(a.tokens) /\ n = Len(b.tokens)
    BY <1>1
  <2>4. Sign(m - n) > 0
    BY <1>3, <2>3
  <2>5. Sign(n - m) <= 0
    BY <2>4 DEF Sign
  <2> QED
    BY <2>2, <2>3, <2>5
<1>4. ASSUME NEW i \in DOMAIN a.tokens \cap DOMAIN b.tokens,
             CompareTokens(a.tokens[i], b.tokens[i]) # 0,
             \A k \in 1..i - 1 : CompareTokens(a.tokens[k], b.tokens[k]) = 0,
             CompareRevisions(a, b) = CompareTokens(a.tokens[i], b.tokens[i])
      PROVE  CompareRevisions(b, a) <= 0
  <2>1. \A k \in 1..i - 1 : k \in DOMAIN a.tokens \cap DOMAIN b.tokens
    BY <1>1
  <2>2. /\ CompareTokens(b.tokens[i], a.tokens[i]) # 0
        /\ CompareTokens(b.tokens[i], a.tokens[i]) < 0
    BY <1>2, <1>4, TokenOrder
  <2>3. \A k \in 1..i - 1 : CompareTokens(b.tokens[k], a.tokens[k]) = 0
    BY <1>2, <1>4, <2>1, TokenOrder
  <2>4. CompareRevisions(b, a) = CompareTokens(b.tokens[i], a.tokens[i])
    BY <2>2, <2>3, FirstDifference
  <2>5. CompareTokens(b.tokens[i], a.tokens[i]) \in {-1, 0, 1}
    BY <1>2, TokenOrder
  <2> QED
    BY <2>2, <2>4, <2>5
<1> QED
  BY <1>3, <1>4, Compared

LEMMA CompareSelf ==
  ASSUME NEW a \in Revision
  PROVE  CompareRevisions(a, a) = 0
<1>1. a.tokens \in Seq(Token) /\ Len(a.tokens) \in Nat
  BY DEF Revision
<1>2. \A k \in DOMAIN a.tokens : CompareTokens(a.tokens[k], a.tokens[k]) = 0
  BY <1>1, TokenOrder
<1>3. CompareRevisions(a, a) = Sign(Len(a.tokens) - Len(a.tokens))
  BY <1>2, NoDifference
<1>4. Len(a.tokens) - Len(a.tokens) = 0
  BY <1>1
<1> QED
  BY <1>3, <1>4 DEF Sign

LEMMA CompareTransitive ==
  ASSUME NEW a \in Revision, NEW b \in Revision, NEW c \in Revision,
         CompareRevisions(a, b) <= 0, CompareRevisions(b, c) <= 0
  PROVE  CompareRevisions(a, c) <= 0
<1> DEFINE A == a.tokens
           B == b.tokens
           C == c.tokens
<1>1. /\ Len(A) \in Nat /\ Len(B) \in Nat /\ Len(C) \in Nat
      /\ A \in Seq(Token) /\ B \in Seq(Token) /\ C \in Seq(Token)
      /\ DOMAIN A = 1..Len(A) /\ DOMAIN B = 1..Len(B) /\ DOMAIN C = 1..Len(C)
  BY DEF Revision
<1>2. ASSUME NEW i, i \in DOMAIN A, i \in DOMAIN B, i \in DOMAIN C
      PROVE  /\ CompareTokens(A[i], B[i]) = 0 => CompareTokens(A[i], C[i]) = CompareTokens(B[i], C[i])
             /\ CompareTokens(B[i], C[i]) = 0 => CompareTokens(A[i], B[i]) = CompareTokens(A[i], C[i])
             /\ CompareTokens(A[i], B[i]) < 0 /\ CompareTokens(B[i], C[i]) < 0
                => CompareTokens(A[i], C[i]) < 0
             /\ CompareTokens(A[i], B[i]) \in {-1, 0, 1}
             /\ CompareTokens(B[i], C[i]) \in {-1, 0, 1}
             /\ CompareTokens(A[i], C[i]) \in {-1, 0, 1}
  <2>1. A[i] \in Token /\ B[i] \in Token /\ C[i] \in Token
    BY <1>1, <1>2
  <2> QED
    BY <2>1, TokenOrder
<1>3. /\ \A i : i \in DOMAIN A /\ i \in DOMAIN B /\ i \in DOMAIN C /\
               CompareTokens(A[i], B[i]) = 0 /\ CompareTokens(B[i], C[i]) = 0 =>
               CompareTokens(A[i], C[i]) = 0
  BY <1>2
<1> HIDE DEF A, B, C
\* The first of the three pairs to differ, at m, decides for a and c.
<1>4. ASSUME NEW m \in DOMAIN A \cap DOMAIN C, CompareTokens(A[m], C[m]) < 0,
             \A k \in 1..m - 1 : CompareTokens(A[k], C[k]) = 0
      PROVE  CompareRevisions(a, c) <= 0
  <2>1. CompareTokens(A[m], C[m]) # 0
    BY <1>4
  <2>2. CompareRevisions(a, c) = CompareTokens(A[m], C[m])
    BY <1>4, <2>1, FirstDifference DEF A, C
  <2> QED
    BY <1>4, <2>2, CompareType
<1>5. CASE \A k \in DOMAIN A \cap DOMAIN B : CompareTokens(A[k], B[k]) = 0
  <2>1. CompareRevisions(a, b) = Sign(Len(A) - Len(B))
    BY <1>5, NoDifference DEF A, B
  <2>2. Len(A) <= Len(B)
    BY <1>1, <2>1 DEF Sign
  <2>3. CASE \A k \in DOMAIN B \cap DOMAIN C : CompareTokens(B[k], C[k]) = 0
    <3>1. CompareRevisions(b, c) = Sign(Len(B) - Len(C))
      BY <2>3, NoDifference DEF B, C
    <3>2. Len(B) <= Len(C)
      BY <1>1, <3>1 DEF Sign
    <3>3. \A k \in DOMAIN A \cap DOMAIN C : CompareTokens(A[k], C[k]) = 0
      BY <1>1, <1>3, <1>5, <2>2, <2>3
    <3>4. CompareRevisions(a, c) = Sign(Len(A) - Len(C))
      BY <3>3, NoDifference DEF A, C
    <3> QED
      BY <1>1, <2>2, <3>2, <3>4 DEF Sign
  <2>4. ASSUME NEW j \in DOMAIN B \cap DOMAIN C, CompareTokens(B[j], C[j]) # 0,
               \A k \in 1..j - 1 : CompareTokens(B[k], C[k]) = 0,
               CompareRevisions(b, c) = CompareTokens(B[j], C[j])
        PROVE  CompareRevisions(a, c) <= 0
    <3>1. CASE j <= Len(A)
      <4>1. j \in DOMAIN A /\ CompareTokens(A[j], B[j]) = 0
        BY <1>1, <1>5, <2>2, <2>4, <3>1
      <4>2. CompareTokens(A[j], C[j]) < 0
        BY <1>2, <2>4, <4>1
      <4>3. \A k \in 1..j - 1 : CompareTokens(A[k], C[k]) = 0
        BY <1>1, <1>3, <1>5, <2>2, <2>4, <3>1
      <4> QED
        BY <1>4, <2>4, <4>1, <4>2, <4>3
    <3>2. CASE j > Len(A)
      <4>1. \A k \in DOMAIN A \cap DOMAIN C : CompareTokens(A[k], C[k]) = 0
        BY <1>1, <1>3, <1>5, <2>2, <2>4, <3>2
      <4>2. CompareRevisions(a, c) = Sign(Len(A) - Len(C))
        BY <4>1, NoDifference DEF A, C
      <4>3. Len(A) < Len(C)
        BY <1>1, <2>4, <3>2
      <4> QED
        BY <1>1, <4>2, <4>3 DEF Sign
    <3> QED
      BY <1>1, <2>4, <3>1, <3>2
  <2> QED
    BY <2>3, <2>4, Compared DEF B, C
<1>6. ASSUME NEW i \in DOMAIN A \cap DOMAIN B, CompareTokens(A[i], B[i]) # 0,
             \A k \in 1..i - 1 : CompareTokens(A[k], B[k]) = 0,
             CompareRevisions(a, b) = CompareTokens(A[i], B[i])
      PROVE  CompareRevisions(a, c) <= 0
  <2>1. CASE \A k \in DOMAIN B \cap DOMAIN C : CompareTokens(B[k], C[k]) = 0
    <3>1. CompareRevisions(b, c) = Sign(Len(B) - Len(C))
      BY <2>1, NoDifference DEF B, C
    <3>2. Len(B) <= Len(C)
      BY <1>1, <3>1 DEF Sign
    <3>3. i \in DOMAIN C /\ CompareTokens(B[i], C[i]) = 0
      BY <1>1, <1>6, <2>1, <3>2
    <3>4. CompareTokens(A[i], C[i]) < 0
      BY <1>2, <1>6, <3>3
    <3>5. \A k \in 1..i - 1 : CompareTokens(A[k], C[k]) = 0
      BY <1>1, <1>3, <1>6, <2>1, <3>2
    <3> QED
      BY <1>4, <1>6, <3>3, <3>4, <3>5
  <2>2. ASSUME NEW j \in DOMAIN B \cap DOMAIN C, CompareTokens(B[j], C[j]) # 0,
               \A k \in 1..j - 1 : CompareTokens(B[k], C[k]) = 0,
               CompareRevisions(b, c) = CompareTokens(B[j], C[j])
        PROVE  CompareRevisions(a, c) <= 0
    <3>1. PICK m : m = IF i <= j THEN i ELSE j
      OBVIOUS
    <3>2. /\ m \in DOMAIN A /\ m \in DOMAIN B /\ m \in DOMAIN C
          /\ \A k \in 1..m - 1 : /\ k \in DOMAIN A /\ k \in DOMAIN B /\ k \in DOMAIN C
                                 /\ k \in 1..i - 1 /\ k \in 1..j - 1
      BY <1>1, <1>6, <2>2, <3>1
    <3>3. CompareTokens(A[m], C[m]) < 0
      <4>1. CASE i < j
        <5>1. m = i /\ CompareTokens(B[i], C[i]) = 0
          BY <1>1, <1>6, <2>2, <3>1, <4>1
        <5> QED
          BY <1>2, <1>6, <3>2, <5>1
      <4>2. CASE j < i
        <5>1. m = j /\ CompareTokens(A[j], B[j]) = 0
          BY <1>1, <1>6, <2>2, <3>1, <4>2
        <5> QED
          BY <1>2, <2>2, <3>2, <5>1
      <4>3. CASE i = j
        BY <1>2, <1>6, <2>2, <3>1, <3>2, <4>3
      <4> QED
        BY <1>1, <1>6, <2>2, <4>1, <4>2, <4>3
    <3>4. \A k \in 1..m - 1 : CompareTokens(A[k], C[k]) = 0
      BY <1>3, <1>6, <2>2, <3>2
    <3> QED
      BY <1>4, <3>2, <3>3, <3>4
  <2> QED
    BY <2>1, <2>2, Compared DEF B, C
<1> QED
  BY <1>5, <1>6, Compared DEF A, B

\* A revision that does not compare greater is not the later one, but for
\* what is read otherwise.
LEMMA NoneLater ==
  ASSUME NEW a \in Revision, NEW b \in Revision, CompareRevisions(a, b) <= 0,
         NEW i \in 1..Len(a.tokens) + 1, LaterBy(a, b, i)
  PROVE  ReadOtherwise(a, b, i)
<1> DEFINE A == a.tokens
           B == b.tokens
<1>1. /\ DOMAIN A = 1..Len(A) /\ DOMAIN B = 1..Len(B)
      /\ Len(A) \in Nat /\ Len(B) \in Nat /\ A \in Seq(Token) /\ B \in Seq(Token)
  BY DEF Revision
<1>2. \A k \in DOMAIN A : A[k] \in Token
  BY <1>1
<1>3. \A k \in DOMAIN B : B[k] \in Token
  BY <1>1
<1>4. \A k \in Nat : /\ Rank(a, k) = 1 <=> k \notin DOMAIN A
                     /\ Rank(a, k) = 2 <=> k \in DOMAIN A /\ A[k].numeric = TRUE
                     /\ Rank(a, k) = 0 <=> k \in DOMAIN A /\ A[k].numeric = FALSE
  BY <1>2 DEF Rank, Token
<1>5. \A k \in Nat : /\ Rank(b, k) = 1 <=> k \notin DOMAIN B
                     /\ Rank(b, k) = 2 <=> k \in DOMAIN B /\ B[k].numeric = TRUE
                     /\ Rank(b, k) = 0 <=> k \in DOMAIN B /\ B[k].numeric = FALSE
  BY <1>3 DEF Rank, Token
<1>6. /\ Outranks(a, b, i)
      /\ \A k \in 1..i - 1 : ~Outranks(a, b, k) /\ ~Outranks(b, a, k)
  BY DEF LaterBy
<1>7. \A k : Rank(a, k) \in {0, 1, 2} /\ Rank(b, k) \in {0, 1, 2}
  BY DEF Rank
<1>8. ASSUME NEW k \in 1..i - 1
      PROVE  /\ Rank(a, k) = Rank(b, k)
             /\ k \in DOMAIN A /\ k \in DOMAIN B
             /\ CompareTokens(A[k], B[k]) = 0
  <2>1. Rank(a, k) = Rank(b, k)
    BY <1>6, <1>7 DEF Outranks
  <2>2. k \in DOMAIN A /\ k \in DOMAIN B
    BY <1>1, <1>4, <1>5, <2>1
  <2>3. A[k].value = B[k].value
    <3>1. ~(A[k].value > B[k].value) /\ ~(B[k].value > A[k].value)
      BY <1>6, <2>1, <2>2 DEF Outranks
    <3>2. A[k].value \in Nat /\ B[k].value \in Nat
      BY <1>2, <1>3, <2>2 DEF Token
    <3> QED
      BY <3>1, <3>2
  <2>4. A[k].numeric = B[k].numeric
    <3>1. A[k].numeric \in BOOLEAN /\ B[k].numeric \in BOOLEAN
      BY <1>2, <1>3, <2>2 DEF Token
    <3> QED
      BY <1>4, <1>5, <2>1, <2>2, <3>1
  <2>5. A[k] = B[k]
    BY <1>2, <1>3, <2>2, <2>3, <2>4 DEF Token
  <2> QED
    BY <1>2, <2>1, <2>2, <2>5, TokenOrder
<1>9. CASE i \in DOMAIN A /\ i \in DOMAIN B
  <2>1. A[i] \in Token /\ B[i] \in Token
    BY <1>2, <1>3, <1>9
  <2>2. ASSUME CompareTokens(A[i], B[i]) > 0
        PROVE  FALSE
    <3>1. CompareRevisions(a, b) = CompareTokens(A[i], B[i])
      BY <1>8, <1>9, <2>2, FirstDifference
    <3> QED
      BY <2>1, <2>2, <3>1, TokenOrder
  <2>3. CASE Rank(a, i) > Rank(b, i)
    <3>1. A[i].numeric = TRUE /\ B[i].numeric = FALSE
      BY <1>4, <1>5, <1>7, <1>9, <2>3
    <3>2. CompareTokens(A[i], B[i]) = 1
      BY <3>1 DEF CompareTokens
    <3> QED
      BY <2>2, <3>2
  <2>4. CASE Rank(a, i) = Rank(b, i) /\ A[i].value > B[i].value
    <3>1. A[i].numeric = B[i].numeric /\ A[i].numeric \in BOOLEAN
      BY <1>4, <1>5, <1>7, <1>9, <2>1, <2>4 DEF Token
    <3>2. CompareTokens(A[i], B[i]) = Sign(ReadAs(A[i]) - ReadAs(B[i]))
      BY <3>1, Zenon DEF CompareTokens
    <3>3. A[i].value \in Nat /\ B[i].value \in Nat
      BY <2>1 DEF Token
    <3>4. ~(ReadAs(A[i]) > ReadAs(B[i]))
      BY <2>1, <2>2, <3>2, ReadAsType DEF Sign
    <3>5. A[i].numeric = TRUE /\ B[i].numeric = TRUE /\ B[i].value >= LongMax
      BY <2>4, <3>1, <3>3, <3>4, LongMaxAssumption DEF ReadAs, strtol
    <3> QED
      BY <1>4, <1>5, <1>9, <3>5 DEF ReadOtherwise
  <2> QED
    BY <1>6, <2>3, <2>4 DEF Outranks
<1>10. CASE i \notin DOMAIN A
  <2>1. Rank(a, i) = 1 /\ Rank(b, i) = 0
    BY <1>4, <1>6, <1>7, <1>10 DEF Outranks
  <2> QED
    BY <2>1 DEF ReadOtherwise
<1>11. CASE i \in DOMAIN A /\ i \notin DOMAIN B
  <2>1. Len(B) = i - 1
    <3>1. ~(Len(B) < i - 1)
      <4> SUFFICES ASSUME Len(B) < i - 1
                   PROVE  FALSE
        OBVIOUS
      <4>1. Len(B) + 1 \in 1..i - 1 /\ Len(B) + 1 \notin DOMAIN B
        BY <1>1
      <4> QED
        BY <1>8, <4>1
    <3> QED
      BY <1>1, <1>11, <3>1
  <2>2. \A k \in DOMAIN A \cap DOMAIN B : CompareTokens(A[k], B[k]) = 0
    BY <1>1, <1>8, <2>1
  <2>3. CompareRevisions(a, b) = Sign(Len(A) - Len(B))
    BY <2>2, NoDifference
  <2> QED
    BY <1>1, <1>11, <2>1, <2>3 DEF Sign
<1> QED
  BY <1>9, <1>10, <1>11

-----------------------------------------------------------------------------
(* The stack                                                               *)

LEMMA StackType ==
  ASSUME TypeOK, stack # <<>>
  PROVE  /\ Len(stack) \in Nat \ {0} /\ DOMAIN stack = 1..Len(stack)
         /\ Here = stack[Len(stack)] /\ Here \in Frame
         /\ \A i \in 1..Len(stack) :
               /\ stack[i] \in Frame /\ stack[i].id \in Ids \cup {Root}
               /\ stack[i].next \in Nat \ {0} /\ stack[i].excludes \in SUBSET Modules
               /\ graph[stack[i].id] \in Seq(Dependency)
               /\ DOMAIN graph[stack[i].id] = 1..Len(graph[stack[i].id])
               /\ Len(graph[stack[i].id]) \in Nat
<1>1. stack \in Seq(Frame) /\ graph \in [Ids \cup {Root} -> Seq(Dependency)]
  BY DEF TypeOK, Graph
<1>2. Len(stack) \in Nat \ {0} /\ DOMAIN stack = 1..Len(stack)
  BY <1>1
<1>3. ASSUME NEW i \in 1..Len(stack)
      PROVE  /\ stack[i] \in Frame /\ stack[i].id \in Ids \cup {Root}
             /\ stack[i].next \in Nat \ {0} /\ stack[i].excludes \in SUBSET Modules
             /\ graph[stack[i].id] \in Seq(Dependency)
             /\ DOMAIN graph[stack[i].id] = 1..Len(graph[stack[i].id])
             /\ Len(graph[stack[i].id]) \in Nat
  <2>1. stack[i] \in Frame
    BY <1>1
  <2>2. stack[i].id \in Ids \cup {Root} /\ stack[i].next \in Nat \ {0}
        /\ stack[i].excludes \in SUBSET Modules
    BY <2>1 DEF Frame
  <2>3. graph[stack[i].id] \in Seq(Dependency)
    BY <1>1, <2>2
  <2> QED
    BY <2>1, <2>2, <2>3
<1>4. Here = stack[Len(stack)]
  BY DEF Here, Last
<1> QED
  BY <1>2, <1>3, <1>4

\* The dependency the walk is at.
LEMMA HereType ==
  ASSUME TypeOK, stack # <<>>, NEW d, At(d)
  PROVE  /\ d \in Dependency /\ d.id \in Ids /\ d.id.module \in Modules /\ d.id.revision \in Revs
         /\ d.matches \in BOOLEAN /\ d.transitive \in BOOLEAN /\ d.excludes \in SUBSET Modules
         /\ Here.next \in DOMAIN graph[Here.id] /\ d = graph[Here.id][Here.next]
         /\ phase = "walk"
<1>1. /\ Here.next \in Nat \ {0} /\ graph[Here.id] \in Seq(Dependency)
      /\ DOMAIN graph[Here.id] = 1..Len(graph[Here.id]) /\ Len(graph[Here.id]) \in Nat
  BY StackType
<1>2. Here.next \in DOMAIN graph[Here.id] /\ d = graph[Here.id][Here.next] /\ phase = "walk"
  BY <1>1 DEF At, AtEnd
<1>3. d \in Dependency
  BY <1>1, <1>2
<1>4. /\ d.id \in Ids /\ d.matches \in BOOLEAN /\ d.transitive \in BOOLEAN
      /\ d.excludes \in SUBSET Modules
  BY <1>3 DEF Dependency
<1> QED
  BY <1>2, <1>3, <1>4 DEF Modules, Revs

\* stack and t differ in how far the loop of the innermost frame is.
Moved(t) ==
    /\ t \in Seq(Frame) /\ Len(t) = Len(stack)
    /\ \A i \in 1..Len(stack) : /\ t[i].id = stack[i].id
                                /\ t[i].excludes = stack[i].excludes
                                /\ i # Len(stack) => t[i].next = stack[i].next
    /\ t[Len(stack)].next = stack[Len(stack)].next + 1

LEMMA AdvancedMoves ==
  ASSUME TypeOK, stack # <<>>
  PROVE  Moved(Advanced)
<1> DEFINE L == Len(stack)
           top == [stack[L] EXCEPT !.next = @ + 1]
<1>1. L \in Nat \ {0} /\ stack \in Seq(Frame) /\ L \in DOMAIN stack /\ stack[L] \in Frame
  BY StackType DEF TypeOK
<1>2. /\ top \in Frame /\ top.id = stack[L].id /\ top.excludes = stack[L].excludes
      /\ top.next = stack[L].next + 1
  BY <1>1 DEF Frame
<1>3. Advanced = [stack EXCEPT ![L] = top]
  BY DEF Advanced
<1> HIDE DEF top
<1>4. Advanced \in Seq(Frame) /\ Len(Advanced) = L
  BY <1>1, <1>2, <1>3
<1>5. \A i \in 1..L : Advanced[i] = IF i = L THEN top ELSE stack[i]
  BY <1>1, <1>3
<1> QED
  BY <1>1, <1>2, <1>4, <1>5 DEF Moved

\* A frame is pushed on the stack that has moved.
LEMMA PushedStack ==
  ASSUME TypeOK, stack # <<>>, NEW f \in Frame
  PROVE  /\ Append(Advanced, f) \in Seq(Frame)
         /\ Len(Append(Advanced, f)) = Len(stack) + 1
         /\ Append(Advanced, f)[Len(stack) + 1] = f
         /\ \A i \in 1..Len(stack) : Append(Advanced, f)[i] = Advanced[i]
  BY AdvancedMoves, StackType DEF Moved

\* ... or the innermost one is left.
LEMMA PoppedStack ==
  ASSUME TypeOK, stack # <<>>, Len(stack) > 1
  PROVE  /\ Front(stack) \in Seq(Frame) /\ Len(Front(stack)) = Len(stack) - 1
         /\ \A i \in 1..Len(stack) - 1 : Front(stack)[i] = stack[i]
<1>1. Len(stack) - 1 \in Nat \ {0} /\ stack \in Seq(Frame)
  BY StackType DEF TypeOK
<1>2. Front(stack) = SubSeq(stack, 1, Len(stack) - 1)
  BY DEF Front
<1> QED
  BY <1>1, <1>2

LEMMA LaterType ==
  ASSUME NEW r \in Revs, NEW best \in Revs \cup {None}
  PROVE  Later(r, best) \in Revs
  BY IdsAssumption DEF Later

LEMMA TypeStep ==
  ASSUME TypeOK, stack # <<>>, [Next]_vars
  PROVE  TypeOK'
<1>1. CASE UNCHANGED vars
  BY <1>1 DEF vars, TypeOK, Frame
<1>2. ASSUME NEW d, Skip(d) \/ Cyclic(d) \/ NotFound(d) \/ Describe(d)
      PROVE  TypeOK'
  <2>1. /\ d.id \in Ids /\ d.id.module \in Modules /\ d.id.revision \in Revs
        /\ d.excludes \in SUBSET Modules /\ Here \in Frame /\ Here.id \in Ids \cup {Root}
        /\ Here.excludes \in SUBSET Modules
    BY <1>2, HereType, StackType DEF Skip, Cyclic, NotFound, Describe, Walks
  <2>2. graph' = graph /\ phase' = phase /\ verdict' = verdict /\ artifacts' = artifacts
    BY <1>2 DEF Skip, Cyclic, NotFound, Describe, Walks, Unwalked
  <2>3. stack' \in Seq(Frame)
    <3>1. Advanced \in Seq(Frame)
      BY AdvancedMoves DEF Moved
    <3>2. [id |-> d.id, next |-> 1, excludes |-> Here.excludes \cup d.excludes] \in Frame
      BY <2>1 DEF Frame
    <3>3. Append(Advanced, [id |-> d.id, next |-> 1, excludes |-> Here.excludes \cup d.excludes])
            \in Seq(Frame)
      BY <3>2, PushedStack
    <3> QED
      BY <1>2, <3>1, <3>3 DEF Skip, Cyclic, NotFound, Describe
  <2>4. callers' \in SUBSET ((Ids \cup {Root}) \X Ids)
    BY <1>2, <2>1 DEF Skip, Cyclic, NotFound, Describe, Walks, TypeOK
  <2>5. errors' \subseteq Ids /\ described' \subseteq Ids
    BY <1>2, <2>1 DEF Skip, Cyclic, NotFound, Describe, TypeOK
  <2>6. ancestors' \subseteq Modules
    BY <1>2, <2>1 DEF Skip, Cyclic, NotFound, Describe, TypeOK
  <2>7. latest' \in [Modules -> Revs \cup {None}]
    <3>1. latest[d.id.module] \in Revs \cup {None}
      BY <2>1 DEF TypeOK
    <3>2. Later(d.id.revision, latest[d.id.module]) \in Revs
      BY <2>1, <3>1, LaterType
    <3>3. \/ latest' = latest
          \/ latest' = [latest EXCEPT ![d.id.module] = Later(d.id.revision, latest[d.id.module])]
      BY <1>2 DEF Skip, Cyclic, NotFound, Describe
    <3> QED
      BY <3>2, <3>3 DEF TypeOK
  <2> QED
    BY <2>2, <2>3, <2>4, <2>5, <2>6, <2>7 DEF TypeOK
<1>3. CASE Return
  <2>1. Front(stack) \in Seq(Frame)
    BY <1>3, PoppedStack DEF Return
  <2> QED
    BY <1>3, <2>1 DEF Return, Unwalked, TypeOK
<1>4. CASE WalkDone
  BY <1>4 DEF WalkDone, TypeOK
<1>5. ASSUME NEW id \in Ids, Finalize(id)
      PROVE  TypeOK'
  BY <1>5 DEF Finalize, TypeOK
<1>6. CASE Resolved
  BY <1>6 DEF Resolved, TypeOK
<1>7. CASE Done
  BY <1>7 DEF Done, vars, TypeOK
<1> QED
  BY <1>1, <1>2, <1>3, <1>4, <1>5, <1>6, <1>7 DEF Next, Step

-----------------------------------------------------------------------------
(* The ancestor path                                                       *)

\* The loop has moved on, and a revision may have been found.
LEMMA AncestorsMoved ==
  ASSUME TypeOK, AncestorsAreStack, Moved(stack'), ancestors' = ancestors,
         described \subseteq described'
  PROVE  AncestorsAreStack'
<1>1. /\ Len(stack') = Len(stack) /\ \A i \in 1..Len(stack) : stack'[i].id = stack[i].id
      /\ stack' \in Seq(Frame)
  BY DEF Moved
<1>2. Len(stack) \in Nat \ {0}
  BY StackType DEF AncestorsAreStack
<1>3. \A i \in 2..Len(stack) : i \in 1..Len(stack)
  BY <1>2
<1>4. stack' # <<>> /\ stack'[1].id = Root
  BY <1>1, <1>2 DEF AncestorsAreStack
<1>5. ancestors' = {stack'[i].id.module : i \in 2..Len(stack')}
  BY <1>1, <1>3 DEF AncestorsAreStack
<1>6. \A i, j \in 2..Len(stack') : stack'[i].id.module = stack'[j].id.module => i = j
  BY <1>1, <1>3 DEF AncestorsAreStack
<1>7. \A i \in 2..Len(stack') : stack'[i].id \in described'
  BY <1>1, <1>3 DEF AncestorsAreStack
<1> QED
  BY <1>4, <1>5, <1>6, <1>7 DEF AncestorsAreStack

LEMMA AncestorsPushed ==
  ASSUME TypeOK, AncestorsAreStack, NEW d, Describe(d), d.transitive
  PROVE  AncestorsAreStack'
<1> DEFINE L == Len(stack)
           f == [id |-> d.id, next |-> 1, excludes |-> Here.excludes \cup d.excludes]
<1>1. /\ stack # <<>> /\ L \in Nat \ {0} /\ stack[1].id = Root
      /\ ancestors = {stack[i].id.module : i \in 2..L}
      /\ \A i, j \in 2..L : stack[i].id.module = stack[j].id.module => i = j
      /\ \A i \in 2..L : stack[i].id \in described
  BY StackType DEF AncestorsAreStack
<1>2. /\ At(d) /\ d.id.module \notin ancestors /\ described' = described \cup {d.id}
      /\ ancestors' = ancestors \cup {d.id.module} /\ stack' = Append(Advanced, f)
  BY DEF Describe, Walks
<1>3. f \in Frame /\ f.id = d.id
  BY <1>1, <1>2, HereType, StackType DEF Frame
<1>4. /\ stack' \in Seq(Frame) /\ Len(stack') = L + 1 /\ stack'[L + 1].id = d.id
      /\ \A i \in 1..L : stack'[i].id = stack[i].id
  BY <1>1, <1>2, <1>3, PushedStack, AdvancedMoves DEF Moved
<1> HIDE DEF f
<1>5. /\ \A i \in 2..L : i \in 1..L
      /\ \A i \in 2..L + 1 : i = L + 1 \/ i \in 2..L
      /\ L + 1 \in 2..L + 1
  BY <1>1
<1>6. stack' # <<>> /\ stack'[1].id = Root
  BY <1>1, <1>4
<1>7. ancestors' = {stack'[i].id.module : i \in 2..Len(stack')}
  BY SMTT(30), <1>1, <1>2, <1>4, <1>5
<1>8. \A i, j \in 2..Len(stack') : stack'[i].id.module = stack'[j].id.module => i = j
  BY <1>1, <1>2, <1>4, <1>5
<1>9. \A i \in 2..Len(stack') : stack'[i].id \in described'
  BY <1>1, <1>2, <1>4, <1>5
<1> QED
  BY <1>6, <1>7, <1>8, <1>9 DEF AncestorsAreStack

LEMMA AncestorsPopped ==
  ASSUME TypeOK, AncestorsAreStack, Return
  PROVE  AncestorsAreStack'
<1> DEFINE L == Len(stack)
<1>1. /\ stack # <<>> /\ L \in Nat \ {0} /\ stack[1].id = Root /\ Here = stack[L]
      /\ ancestors = {stack[i].id.module : i \in 2..L}
      /\ \A i, j \in 2..L : stack[i].id.module = stack[j].id.module => i = j
      /\ \A i \in 2..L : stack[i].id \in described
  BY StackType DEF AncestorsAreStack
<1>2. /\ L > 1 /\ described' = described
      /\ ancestors' = ancestors \ {stack[L].id.module} /\ stack' = Front(stack)
  BY <1>1 DEF Return
<1>3. /\ stack' \in Seq(Frame) /\ Len(stack') = L - 1
      /\ \A i \in 1..L - 1 : stack'[i] = stack[i]
  BY <1>1, <1>2, PoppedStack
<1>4. /\ \A i \in 2..L - 1 : i \in 1..L - 1 /\ i \in 2..L /\ i # L
      /\ \A i \in 2..L : i = L \/ i \in 2..L - 1
      /\ L \in 2..L
  BY <1>1, <1>2
<1>5. stack' # <<>> /\ stack'[1].id = Root
  <2>1. 1 \in 1..L - 1 /\ Len(stack') # 0
    BY <1>1, <1>2, <1>3
  <2>2. stack'[1] = stack[1] /\ stack' # <<>>
    BY <1>3, <2>1
  <2> QED
    BY <1>1, <2>2
<1>6. ancestors' = {stack'[i].id.module : i \in 2..Len(stack')}
  <2>1. \A i \in 2..L - 1 : stack'[i].id.module = stack[i].id.module
    BY <1>3, <1>4
  <2>2. \A m \in ancestors' : \E i \in 2..L - 1 : m = stack[i].id.module
    BY <1>1, <1>2, <1>4
  <2>3. \A i \in 2..L - 1 : stack[i].id.module \in ancestors /\ stack[i].id.module # stack[L].id.module
    BY <1>1, <1>4
  <2>4. \A i \in 2..L - 1 : stack[i].id.module \in ancestors'
    BY <1>2, <2>3
  <2> QED
    BY <1>3, <2>1, <2>2, <2>4
<1>7. \A i, j \in 2..Len(stack') : stack'[i].id.module = stack'[j].id.module => i = j
  BY <1>1, <1>3, <1>4
<1>8. \A i \in 2..Len(stack') : stack'[i].id \in described'
  BY <1>1, <1>2, <1>3, <1>4
<1> QED
  BY <1>5, <1>6, <1>7, <1>8 DEF AncestorsAreStack

\* The steps after the walk, and those of nobody, leave its state alone.
Still == /\ graph' = graph /\ stack' = stack /\ ancestors' = ancestors /\ described' = described
         /\ latest' = latest /\ callers' = callers /\ errors' = errors

LEMMA StepKinds ==
  ASSUME [Next]_vars
  PROVE  \/ \E d : Skip(d) \/ Cyclic(d) \/ NotFound(d) \/ Describe(d)
         \/ Return
         \/ Still /\ (UNCHANGED vars \/ WalkDone \/ (\E id \in Ids : Finalize(id)) \/ Resolved)
  BY DEF Next, Step, Still, Done, WalkDone, Finalize, Resolved, vars

LEMMA AncestorsStep ==
  ASSUME TypeOK, AncestorsAreStack, [Next]_vars
  PROVE  AncestorsAreStack'
<1>1. Moved(Advanced)
  BY AdvancedMoves DEF AncestorsAreStack
<1>2. ASSUME NEW d, Skip(d) \/ Cyclic(d) \/ NotFound(d)
      PROVE  AncestorsAreStack'
  <2>1. stack' = Advanced /\ ancestors' = ancestors /\ described' = described
    BY <1>2 DEF Skip, Cyclic, NotFound
  <2>2. Moved(stack')
    BY <1>1, <2>1
  <2> QED
    BY <2>1, <2>2, AncestorsMoved
<1>3. ASSUME NEW d, Describe(d)
      PROVE  AncestorsAreStack'
  <2>1. CASE d.transitive
    BY <1>3, <2>1, AncestorsPushed
  <2>2. CASE ~d.transitive
    <3>1. stack' = Advanced /\ ancestors' = ancestors /\ described \subseteq described'
      BY <1>3, <2>2 DEF Describe
    <3>2. Moved(stack')
      BY <1>1, <3>1
    <3> QED
      BY <3>1, <3>2, AncestorsMoved
  <2> QED
    BY <2>1, <2>2
<1>4. CASE Still
  BY <1>4 DEF Still, AncestorsAreStack
<1> QED
  BY <1>2, <1>3, <1>4, StepKinds, AncestorsPopped

-----------------------------------------------------------------------------
(* The latest revision                                                     *)

\* The revisions of m among those in D, and what LatestIsFirst says of m.
FoundIn(D, m) == {id.revision : id \in {x \in D : x.module = m}}

GreatestOf(best, D, m) ==
    IF FoundIn(D, m) = {} THEN best = None
    ELSE best \in FoundIn(D, m) /\ \A r \in FoundIn(D, m) : CompareRevisions(r, best) <= 0

LEMMA LatestIs ==
  LatestIsFirst <=> \A m \in Modules : GreatestOf(latest[m], described, m)
BY DEF LatestIsFirst, GreatestOf, FoundIn, Found

LEMMA FoundType ==
  ASSUME NEW D \in SUBSET Ids, NEW m
  PROVE  FoundIn(D, m) \subseteq Revs /\ FoundIn(D, m) \subseteq Revision /\ None \notin FoundIn(D, m)
<1>1. FoundIn(D, m) \subseteq Revs
  BY DEF FoundIn, Revs
<1> QED
  BY <1>1, IdsAssumption

LEMMA FoundOther ==
  ASSUME NEW D, NEW id, NEW m, m # id.module
  PROVE  FoundIn(D \cup {id}, m) = FoundIn(D, m)
BY DEF FoundIn

LEMMA FoundOwn ==
  ASSUME NEW D, NEW id
  PROVE  FoundIn(D \cup {id}, id.module) = FoundIn(D, id.module) \cup {id.revision}
BY DEF FoundIn

\* The new revision competes with the greatest so far.
LEMMA LaterIsGreatest ==
  ASSUME NEW D \in SUBSET Ids, NEW id \in Ids, NEW best, GreatestOf(best, D, id.module)
  PROVE  GreatestOf(Later(id.revision, best), D \cup {id}, id.module)
<1> DEFINE r == id.revision
           F == FoundIn(D, id.module)
<1>1. /\ F \subseteq Revision /\ None \notin F /\ r \in Revision
      /\ FoundIn(D \cup {id}, id.module) = F \cup {r}
  BY FoundType, FoundOwn, IdsAssumption DEF Revs
<1>2. CompareRevisions(r, r) = 0
  BY <1>1, CompareSelf
<1>3. SUFFICES /\ Later(r, best) \in F \cup {r}
               /\ \A x \in F \cup {r} : CompareRevisions(x, Later(r, best)) <= 0
  BY <1>1 DEF GreatestOf
<1> HIDE DEF r
<1>4. CASE F = {}
  <2>1. Later(r, best) = r
    BY <1>4 DEF GreatestOf, Later
  <2> QED
    BY <1>2, <1>4, <2>1
<1>5. CASE F # {}
  <2>1. /\ best \in F /\ \A x \in F : CompareRevisions(x, best) <= 0
        /\ best \in Revision /\ best # None
    BY <1>1, <1>5 DEF GreatestOf
  <2> HIDE DEF F
  <2>2. CASE CompareRevisions(r, best) > 0
    <3>1. Later(r, best) = r /\ CompareRevisions(best, r) <= 0
      BY <1>1, <2>1, <2>2, CompareTotal DEF Later
    <3>2. \A x \in F : CompareRevisions(x, r) <= 0
      BY <1>1, <2>1, <3>1, CompareTransitive
    <3> QED
      BY <1>2, <3>1, <3>2
  <2>3. CASE ~(CompareRevisions(r, best) > 0)
    <3>1. Later(r, best) = best
      BY <2>1, <2>3 DEF Later
    <3>2. CompareRevisions(r, best) <= 0
      BY <1>1, <2>1, <2>3, CompareType
    <3> QED
      BY <2>1, <3>1, <3>2
  <2> QED
    BY <2>2, <2>3
<1> QED
  BY <1>4, <1>5

LEMMA LatestStep ==
  ASSUME TypeOK, stack # <<>>, LatestIsFirst, [Next]_vars
  PROVE  LatestIsFirst'
<1>1. ASSUME latest' = latest, described' = described
      PROVE  LatestIsFirst'
  BY <1>1 DEF LatestIsFirst, Found
<1>2. ASSUME NEW d, Describe(d)
      PROVE  LatestIsFirst'
  <2>1. /\ d.id \in Ids /\ d.id.module \in Modules /\ described \in SUBSET Ids
        /\ latest \in [Modules -> Revs \cup {None}]
        /\ described' = described \cup {d.id}
        /\ latest' = [latest EXCEPT ![d.id.module] = Later(d.id.revision, latest[d.id.module])]
    BY <1>2, HereType DEF Describe, Walks, TypeOK
  <2>2. \A m \in Modules : GreatestOf(latest[m], described, m)
    BY LatestIs
  <2>3. \A m \in Modules : GreatestOf(latest'[m], described', m)
    <3> SUFFICES ASSUME NEW m \in Modules
                 PROVE  GreatestOf(latest'[m], described', m)
      OBVIOUS
    <3>1. CASE m = d.id.module
      <4>1. latest'[m] = Later(d.id.revision, latest[m])
        BY <2>1, <3>1
      <4> QED
        BY <2>1, <2>2, <3>1, <4>1, LaterIsGreatest
    <3>2. CASE m # d.id.module
      <4>1. latest'[m] = latest[m] /\ FoundIn(described', m) = FoundIn(described, m)
        BY <2>1, <3>2, FoundOther
      <4> QED
        BY <2>2, <4>1 DEF GreatestOf
    <3> QED
      BY <3>1, <3>2
  <2> QED
    BY <2>3 DEF LatestIsFirst, GreatestOf, FoundIn, Found
<1> QED
  BY <1>1, <1>2, StepKinds DEF Skip, Cyclic, NotFound, Return, Still

-----------------------------------------------------------------------------
(* The verdicts, and what becomes of a revision                            *)

LEMMA VerdictsStep ==
  ASSUME TypeOK, VerdictsFollowLatest, stack # <<>>, [Next]_vars
  PROVE  VerdictsFollowLatest'
<1>1. ASSUME NEW d, Skip(d) \/ Cyclic(d) \/ NotFound(d) \/ Describe(d)
      PROVE  VerdictsFollowLatest'
  <2>1. phase = "walk" /\ phase' = phase /\ verdict' = verdict /\ artifacts' = artifacts
    BY <1>1 DEF Skip, Cyclic, NotFound, Describe, Walks, At, Unwalked
  <2> QED
    BY <2>1 DEF VerdictsFollowLatest
<1>2. CASE Return
  BY <1>2 DEF Return, Unwalked, VerdictsFollowLatest
<1>3. CASE UNCHANGED vars
  BY <1>3 DEF vars, VerdictsFollowLatest
<1>4. CASE WalkDone
  BY <1>4 DEF WalkDone, VerdictsFollowLatest
<1>5. CASE Resolved
  BY <1>5 DEF Resolved, VerdictsFollowLatest
<1>6. ASSUME NEW id \in Ids, Finalize(id)
      PROVE  VerdictsFollowLatest'
  <2>1. /\ phase = "finalize" /\ phase' = phase /\ id \in described /\ verdict[id] = "none"
        /\ described' = described /\ latest' = latest
        /\ verdict \in [Ids -> {"none", "default", "evicted"}] /\ artifacts \subseteq Ids
    BY <1>6 DEF Finalize, TypeOK
  <2>2. verdict' = [verdict EXCEPT ![id] = IF Wins(id) THEN "default" ELSE "evicted"]
    BY <1>6 DEF Finalize
  <2>3. \A x \in Ids : x # id => verdict'[x] = verdict[x]
    BY <2>1, <2>2
  <2>4. verdict'[id] = "default" <=> id.revision = latest[id.module]
    BY <2>1, <2>2 DEF Wins
  <2>5. \A x \in Ids : verdict'[x] # "none" =>
           /\ phase' # "walk" /\ x \in described'
           /\ verdict'[x] = "default" <=> x.revision = latest'[x.module]
    BY <2>1, <2>3, <2>4 DEF VerdictsFollowLatest
  <2>6. \A x \in artifacts' : verdict'[x] = "default"
    <3>1. \A x \in artifacts : verdict[x] = "default" /\ x \in Ids /\ x # id
      BY <2>1 DEF VerdictsFollowLatest
    <3>2. artifacts' \subseteq artifacts \cup {id} /\ (artifacts' \subseteq artifacts \/ Wins(id))
      BY <1>6 DEF Finalize
    <3> QED
      BY <2>3, <2>4, <3>1, <3>2 DEF Wins
  <2> QED
    BY <2>1, <2>5, <2>6 DEF VerdictsFollowLatest
<1> QED
  BY <1>1, <1>2, <1>3, <1>4, <1>5, <1>6, StepKinds

LEMMA OutcomesStep ==
  ASSUME OutcomesReported, [Next]_vars
  PROVE  OutcomesReported'
<1>1. ASSUME NEW d, NotFound(d) \/ Describe(d)
      PROVE  OutcomesReported'
  <2>1. /\ callers' = callers \cup {<<Here.id, d.id>>}
        /\ described' \cup errors' \subseteq described \cup errors \cup {d.id}
    BY <1>1 DEF NotFound, Describe, Walks
  <2>2. /\ <<Here.id, d.id>> \in callers' /\ <<Here.id, d.id>>[2] = d.id
        /\ callers \subseteq callers'
    BY <2>1
  <2> QED
    BY <2>1, <2>2 DEF OutcomesReported, Reported
<1>2. ASSUME NEW d, Skip(d) \/ Cyclic(d)
      PROVE  OutcomesReported'
  <2>1. /\ callers \subseteq callers' /\ described' = described /\ errors' = errors
    BY <1>2 DEF Skip, Cyclic, Walks
  <2> QED
    BY <2>1 DEF OutcomesReported, Reported
<1>3. ASSUME callers' = callers, described' = described, errors' = errors
      PROVE  OutcomesReported'
  BY <1>3 DEF OutcomesReported, Reported
<1> QED
  BY <1>1, <1>2, <1>3, StepKinds DEF Return, Still

-----------------------------------------------------------------------------
(* The stack is a way                                                      *)

Entered(i) ==
    /\ stack[i - 1].next - 1 \in DOMAIN graph[stack[i - 1].id]
    /\ Passed(i - 1).id = stack[i].id
    /\ Passed(i - 1).matches /\ Passed(i - 1).transitive
    /\ stack[i].id.module \notin stack[i - 1].excludes
    /\ stack[i].excludes = UNION {Passed(k).excludes : k \in 1..i - 1}
    /\ <<stack[i - 1].id, stack[i].id>> \in callers

LEMMA StackIsWayIs ==
  StackIsWay <=> stack[1].excludes = {} /\ \A i \in 2..Len(stack) : Entered(i)
BY DEF StackIsWay, Entered

\* What a step leaves of the stack is still a way.
LEMMA WayKept ==
  ASSUME StackIsWay, stack # <<>>, TypeOK, NEW n \in 1..Len(stack), graph' = graph,
         callers \subseteq callers',
         \A i \in 1..n : stack'[i].id = stack[i].id /\ stack'[i].excludes = stack[i].excludes,
         \A i \in 1..n - 1 : stack'[i].next = stack[i].next
  PROVE  /\ \A i \in 1..n - 1 : Passed(i)' = Passed(i)
         /\ stack'[1].excludes = {} /\ \A i \in 2..n : Entered(i)'
<1>1. Len(stack) \in Nat \ {0} /\ n \in Nat \ {0} /\ n <= Len(stack) /\ 1 \in 1..n
  BY StackType
<1>2. \A i \in 1..n - 1 : i \in 1..n /\ Passed(i)' = Passed(i)
  BY <1>1 DEF Passed
<1>3. stack'[1].excludes = {}
  BY <1>1 DEF StackIsWay
<1>4. ASSUME NEW i \in 2..n
      PROVE  Entered(i)'
  <2>1. i \in 1..n /\ i - 1 \in 1..n /\ i - 1 \in 1..n - 1 /\ i \in 2..Len(stack)
    BY <1>1
  <2>2. Entered(i)
    BY <2>1, StackIsWayIs
  <2>3. \A k \in 1..i - 1 : Passed(k)' = Passed(k)
    BY <1>1, <1>2, <2>1
  <2>4. UNION {Passed(k)'.excludes : k \in 1..i - 1} = UNION {Passed(k).excludes : k \in 1..i - 1}
    BY <2>3
  <2>5. Passed(i - 1)' = Passed(i - 1)
    BY <1>2, <2>1
  <2>6. /\ stack'[i].id = stack[i].id /\ stack'[i].excludes = stack[i].excludes
        /\ stack'[i - 1].id = stack[i - 1].id /\ stack'[i - 1].excludes = stack[i - 1].excludes
        /\ stack'[i - 1].next = stack[i - 1].next
    BY <2>1
  <2>7. /\ stack[i - 1].next - 1 \in DOMAIN graph[stack[i - 1].id]
        /\ Passed(i - 1).id = stack[i].id
        /\ Passed(i - 1).matches /\ Passed(i - 1).transitive
        /\ stack[i].id.module \notin stack[i - 1].excludes
        /\ stack[i].excludes = UNION {Passed(k).excludes : k \in 1..i - 1}
        /\ <<stack[i - 1].id, stack[i].id>> \in callers
    BY <2>2 DEF Entered
  <2>8. stack'[i].excludes = UNION {Passed(k)'.excludes : k \in 1..i - 1}
    BY <2>4, <2>6, <2>7
  <2>9. Passed(i - 1)'.id = stack'[i].id /\ Passed(i - 1)'.matches /\ Passed(i - 1)'.transitive
    BY <2>5, <2>6, <2>7
  <2> QED
    BY <2>6, <2>7, <2>8, <2>9 DEF Entered
<1> QED
  BY <1>2, <1>3, <1>4

\* The dependency a frame that has moved on has passed last is the one it was
\* at.
LEMMA MovedPast ==
  ASSUME TypeOK, stack # <<>>, NEW d, At(d), graph' = graph, NEW n, n = Len(stack),
         stack'[n].id = stack[n].id,
         stack'[n].next = stack[n].next + 1
  PROVE  /\ Passed(n)' = d
         /\ stack'[n].next - 1 \in DOMAIN graph[stack[n].id]
<1>1. /\ Here = stack[n] /\ Here.next \in Nat /\ Here.next \in DOMAIN graph[Here.id]
      /\ d = graph[Here.id][Here.next]
  BY StackType, HereType
<1>2. stack'[n].next - 1 = Here.next
  BY <1>1
<1> QED
  BY <1>1, <1>2 DEF Passed

LEMMA WayPushed ==
  ASSUME TypeOK, stack # <<>>, StackIsWay, NEW d, Describe(d), d.transitive
  PROVE  StackIsWay'
<1> DEFINE f == [id |-> d.id, next |-> 1, excludes |-> Here.excludes \cup d.excludes]
<1>0. PICK L : L = Len(stack)
  OBVIOUS
<1>1. /\ At(d) /\ Participates(d) /\ stack' = Append(Advanced, f) /\ graph' = graph
      /\ callers' = callers \cup {<<Here.id, d.id>>}
  BY DEF Describe, Walks, Unwalked
<1>2. /\ d.id \in Ids /\ d.excludes \subseteq Modules /\ Here \in Frame /\ Here = stack[L]
      /\ Here.excludes \subseteq Modules /\ L \in Nat \ {0}
  BY <1>0, <1>1, HereType, StackType
<1>3. /\ f \in Frame /\ f.id = d.id /\ f.excludes = Here.excludes \cup d.excludes
  BY <1>2 DEF Frame
<1> HIDE DEF f
<1>4. /\ stack' \in Seq(Frame) /\ Len(stack') = L + 1 /\ stack'[L + 1] = f
      /\ \A i \in 1..L : /\ stack'[i].id = stack[i].id /\ stack'[i].excludes = stack[i].excludes
                         /\ i # L => stack'[i].next = stack[i].next
      /\ stack'[L].next = stack[L].next + 1
  BY <1>0, <1>1, <1>2, <1>3, PushedStack, AdvancedMoves DEF Moved
<1>5. /\ \A i \in 1..L - 1 : Passed(i)' = Passed(i)
      /\ stack'[1].excludes = {} /\ \A i \in 2..L : Entered(i)'
  <2>1. \A i \in 1..L - 1 : stack'[i].next = stack[i].next
    BY <1>2, <1>4
  <2>2. L \in 1..L
    BY <1>2
  <2> QED
    BY <1>0, <1>1, <1>4, <2>1, <2>2, WayKept
<1>6. Passed(L)' = d /\ stack'[L].next - 1 \in DOMAIN graph'[stack'[L].id]
  <2>1. stack'[L].id = stack[L].id
    BY <1>2, <1>4
  <2> QED
    BY <1>0, <1>1, <1>4, <2>1, MovedPast
<1>7. Entered(L + 1)'
  <2>1. f.excludes = UNION {Passed(k)'.excludes : k \in 1..L}
    <3>1. Here.excludes = UNION {Passed(k).excludes : k \in 1..L - 1}
      <4>1. CASE L = 1
        BY <1>2, <4>1 DEF StackIsWay
      <4>2. CASE L # 1
        <5>1. L \in 2..Len(stack)
          BY <1>0, <1>2, <4>2
        <5>2. Entered(L)
          BY <5>1, StackIsWayIs
        <5> QED
          BY <1>2, <5>2 DEF Entered
      <4> QED
        BY <4>1, <4>2
    <3>2. Here.excludes = UNION {Passed(k)'.excludes : k \in 1..L - 1}
      BY <1>5, <3>1
    <3>3. 1..L = (1..L - 1) \cup {L}
      BY <1>2
    <3>4. UNION {Passed(k)'.excludes : k \in 1..L}
            = (UNION {Passed(k)'.excludes : k \in 1..L - 1}) \cup Passed(L)'.excludes
      BY <3>3
    <3> QED
      BY <1>3, <1>6, <3>2, <3>4
  <2>2. /\ d.matches /\ d.transitive /\ d.id.module \notin stack[L].excludes
        /\ stack'[L].excludes = stack[L].excludes /\ stack'[L].id = stack[L].id
        /\ <<stack[L].id, d.id>> \in callers'
    BY <1>1, <1>2, <1>4 DEF Participates
  <2>3. (L + 1) - 1 = L /\ stack'[L + 1].id = d.id
    BY <1>2, <1>3, <1>4
  <2> QED
    BY <1>4, <1>6, <2>1, <2>2, <2>3 DEF Entered
<1>8. \A i \in 2..Len(stack') : i \in 2..L \/ i = L + 1
  BY <1>2, <1>4
<1> QED
  BY <1>5, <1>7, <1>8 DEF StackIsWay, Entered

LEMMA WayStep ==
  ASSUME TypeOK, stack # <<>>, StackIsWay, [Next]_vars
  PROVE  StackIsWay'
<1> DEFINE L == Len(stack)
<1>1. L \in Nat \ {0} /\ Moved(Advanced)
  BY StackType, AdvancedMoves
<1>2. ASSUME NEW d, Skip(d) \/ Cyclic(d) \/ NotFound(d) \/ Describe(d), stack' = Advanced
      PROVE  StackIsWay'
  <2>1. graph' = graph /\ callers \subseteq callers'
    BY <1>2 DEF Skip, Cyclic, NotFound, Describe, Walks, Unwalked
  <2>2. /\ Len(stack') = L
        /\ \A i \in 1..L : stack'[i].id = stack[i].id /\ stack'[i].excludes = stack[i].excludes
        /\ \A i \in 1..L - 1 : stack'[i].next = stack[i].next
    BY <1>1, <1>2 DEF Moved
  <2>3. L \in 1..L
    BY <1>1
  <2>4. stack'[1].excludes = {} /\ \A i \in 2..L : Entered(i)'
    BY <2>1, <2>2, <2>3, WayKept
  <2> QED
    BY <2>2, <2>4 DEF StackIsWay, Entered
<1>3. CASE Return
  <2>1. /\ L > 1 /\ stack' = Front(stack) /\ graph' = graph /\ callers' = callers
    BY <1>3 DEF Return, Unwalked
  <2>2. Len(stack') = L - 1 /\ \A i \in 1..L - 1 : stack'[i] = stack[i]
    BY <1>1, <2>1, PoppedStack
  <2>3. /\ L - 1 \in 1..L
        /\ \A i \in 1..L - 1 : stack'[i].id = stack[i].id /\ stack'[i].excludes = stack[i].excludes
        /\ \A i \in 1..(L - 1) - 1 : stack'[i].next = stack[i].next
    BY <1>1, <2>1, <2>2
  <2>4. stack'[1].excludes = {} /\ \A i \in 2..L - 1 : Entered(i)'
    BY <2>1, <2>3, WayKept
  <2> QED
    BY <2>2, <2>4 DEF StackIsWay, Entered
<1>4. CASE Still
  BY SMTT(30), <1>4 DEF Still, StackIsWay, Passed
<1>5. ASSUME NEW d, Describe(d)
      PROVE  StackIsWay'
  BY <1>2, <1>5, WayPushed DEF Describe
<1> QED
  BY <1>2, <1>3, <1>4, <1>5, StepKinds DEF Skip, Cyclic, NotFound

LEMMA OverStep ==
  ASSUME WalkOver, [Next]_vars
  PROVE  WalkOver'
<1>1. ASSUME NEW d, Skip(d) \/ Cyclic(d) \/ NotFound(d) \/ Describe(d)
      PROVE  phase' = "walk"
  BY <1>1 DEF Skip, Cyclic, NotFound, Describe, Walks, At, Unwalked
<1>2. ASSUME Return
      PROVE  phase' = "walk"
  BY <1>2 DEF Return, Unwalked
<1>3. CASE Still
  <2>1. AtEnd' = AtEnd
    BY <1>3 DEF Still, AtEnd, Here, Last
  <2>2. CASE phase = "walk"
    <3>1. phase' = "walk" \/ WalkDone
      BY <1>3, <2>2 DEF Next, Step, Skip, Cyclic, NotFound, Describe, Walks, At, Unwalked,
                        Return, Finalize, Resolved, Done, vars
    <3> QED
      BY <1>3, <2>1, <3>1 DEF WalkDone, WalkOver, Still
  <2>3. CASE phase # "walk"
    BY <1>3, <2>1, <2>3 DEF WalkOver, Still
  <2> QED
    BY <2>2, <2>3
<1> QED
  BY <1>1, <1>2, <1>3, StepKinds DEF WalkOver

-----------------------------------------------------------------------------
(* The ways in closed form                                                 *)

\* The k-th dependency of w is declared where the way has come to, ...
Link(w, k) ==
    /\ w[k] \in Range(graph[IF k = 1 THEN Root ELSE w[k - 1].id])
    /\ w[k].matches
    /\ w[k].id.module \notin UNION {w[i].excludes : i \in 1..k - 1}

\* ... and the way may go on through it.
Through(w, k) ==
    /\ w[k].transitive /\ w[k].id \in described
    /\ w[k].id.module \notin {w[i].id.module : i \in 1..k - 1}

IsWay(w) ==
    /\ w \in Seq(Dependency) /\ Len(w) # 0
    /\ \A k \in 1..Len(w) : Link(w, k)
    /\ \A k \in 1..Len(w) - 1 : Through(w, k)

WaysOf(n) == {w \in Seq(Dependency) : Len(w) = n /\ IsWay(w)}

\* What the definition of Ways starts from and adds.
First == {<<d>> : d \in {e \in Range(graph[Root]) : e.matches}}

Onward(w, n) ==
    LET through == {w[i].id.module : i \in 1..n - 2}
        excluded == UNION {w[i].excludes : i \in 1..n - 1}
        from == w[n - 1]
    IN  IF from.transitive /\ from.id \in described /\ from.id.module \notin through
        THEN {Append(w, d) : d \in {e \in Range(graph[from.id]) :
                                      e.matches /\ e.id.module \notin excluded}}
        ELSE {}

\* Both conditions look no further than k.
LEMMA LinkLocal ==
  ASSUME NEW u, NEW w, NEW k \in Nat \ {0}, \A i \in 1..k : u[i] = w[i]
  PROVE  (Link(u, k) <=> Link(w, k)) /\ (Through(u, k) <=> Through(w, k))
<1>1. u[k] = w[k] /\ (k # 1 => u[k - 1] = w[k - 1])
  BY k \in 1..k, k # 1 => k - 1 \in 1..k
<1>2. \A i \in 1..k - 1 : u[i] = w[i]
  BY \A i \in 1..k - 1 : i \in 1..k
<1>3. /\ UNION {u[i].excludes : i \in 1..k - 1} = UNION {w[i].excludes : i \in 1..k - 1}
      /\ {u[i].id.module : i \in 1..k - 1} = {w[i].id.module : i \in 1..k - 1}
  BY <1>2
<1>4. (IF k = 1 THEN Root ELSE u[k - 1].id) = (IF k = 1 THEN Root ELSE w[k - 1].id)
  BY <1>1
<1> QED
  BY <1>1, <1>3, <1>4 DEF Link, Through

LEMMA Declared ==
  ASSUME TypeOK, NEW id \in Ids \cup {Root}, NEW d \in Range(graph[id])
  PROVE  /\ d \in Dependency /\ d.id \in Ids /\ d.id.module \in Modules
         /\ d.excludes \subseteq Modules /\ d.matches \in BOOLEAN /\ d.transitive \in BOOLEAN
<1>1. graph[id] \in Seq(Dependency)
  BY DEF TypeOK, Graph
<1>2. d \in Dependency
  BY <1>1 DEF Range
<1> QED
  BY <1>2 DEF Dependency, Modules

LEMMA FirstWays ==
  ASSUME TypeOK
  PROVE  First = WaysOf(1)
<1>1. ASSUME NEW d \in Range(graph[Root]), d.matches
      PROVE  <<d>> \in WaysOf(1)
  <2>1. d \in Dependency
    BY Declared
  <2>2. <<d>> \in Seq(Dependency) /\ Len(<<d>>) = 1 /\ <<d>>[1] = d
    BY <2>1
  <2>3. PICK w : w = <<d>>
    OBVIOUS
  <2>4. w \in Seq(Dependency) /\ Len(w) = 1 /\ w[1] = d
    BY <2>2, <2>3
  <2>5. Link(w, 1)
    BY <1>1, <2>4 DEF Link
  <2> QED
    BY <2>3, <2>4, <2>5 DEF IsWay, WaysOf
<1>2. ASSUME NEW w \in WaysOf(1)
      PROVE  w \in First
  <2>1. w \in Seq(Dependency) /\ Len(w) = 1 /\ Link(w, 1)
    BY DEF WaysOf, IsWay
  <2>2. w = <<w[1]>>
    BY <2>1
  <2>3. w[1] \in Range(graph[Root]) /\ w[1].matches
    BY <2>1 DEF Link
  <2> QED
    BY <2>2, <2>3 DEF First
<1> QED
  BY <1>1, <1>2 DEF First

LEMMA OnwardIsWay ==
  ASSUME TypeOK, NEW n \in Nat \ {0, 1}, NEW u \in WaysOf(n - 1), NEW w \in Onward(u, n)
  PROVE  w \in WaysOf(n)
<1>1. /\ u \in Seq(Dependency) /\ Len(u) = n - 1
      /\ \A k \in 1..n - 1 : Link(u, k)
      /\ \A k \in 1..n - 2 : Through(u, k)
  BY DEF WaysOf, IsWay
<1>2. PICK d \in Range(graph[u[n - 1].id]) :
         /\ w = Append(u, d) /\ d.matches
         /\ d.id.module \notin UNION {u[i].excludes : i \in 1..n - 1}
         /\ u[n - 1].transitive /\ u[n - 1].id \in described
         /\ u[n - 1].id.module \notin {u[i].id.module : i \in 1..n - 2}
  BY DEF Onward
<1>3. u[n - 1] \in Dependency /\ u[n - 1].id \in Ids
  <2>1. u[n - 1] \in Dependency
    BY <1>1, n - 1 \in 1..n - 1
  <2> QED
    BY <2>1 DEF Dependency
<1>4. d \in Dependency
  BY <1>3, Declared
<1>5. /\ w \in Seq(Dependency) /\ Len(w) = n /\ w[n] = d
      /\ \A i \in 1..n - 1 : w[i] = u[i]
  BY <1>1, <1>2, <1>4
<1>6. ASSUME NEW k \in 1..n - 1
      PROVE  Link(w, k) /\ Through(w, k)
  <2>1. k \in Nat \ {0} /\ \A i \in 1..k : u[i] = w[i]
    BY <1>5
  <2>2. Through(u, k)
    <3>1. CASE k = n - 1
      <4>1. k - 1 = n - 2
        BY <3>1
      <4> QED
        BY <1>2, <3>1, <4>1 DEF Through
    <3>2. CASE k # n - 1
      BY <1>1, <3>2
    <3> QED
      BY <3>1, <3>2
  <2> QED
    BY <1>1, <2>1, <2>2, LinkLocal
<1>7. Link(w, n)
  <2>1. w[n - 1] = u[n - 1]
    BY <1>5
  <2>2. UNION {w[i].excludes : i \in 1..n - 1} = UNION {u[i].excludes : i \in 1..n - 1}
    BY <1>5
  <2>3. n # 1
    OBVIOUS
  <2> QED
    BY <1>2, <1>5, <2>1, <2>2, <2>3 DEF Link
<1>8. \A k \in 1..n : k \in 1..n - 1 \/ k = n
  OBVIOUS
<1> QED
  BY <1>5, <1>6, <1>7, <1>8 DEF WaysOf, IsWay

\* A way without its last dependency.
LEMMA Shorter ==
  ASSUME NEW w, IsWay(w), NEW m \in 1..Len(w)
  PROVE  /\ IsWay(SubSeq(w, 1, m)) /\ Len(SubSeq(w, 1, m)) = m
         /\ \A i \in 1..m : SubSeq(w, 1, m)[i] = w[i]
<1>1. w \in Seq(Dependency) /\ Len(w) \in Nat
  BY DEF IsWay
<1>2. PICK u : u = SubSeq(w, 1, m)
  OBVIOUS
<1>3. u \in Seq(Dependency) /\ Len(u) = m /\ \A i \in 1..m : u[i] = w[i]
  BY <1>1, <1>2
<1>4. \A k \in 1..m : k \in Nat \ {0} /\ \A i \in 1..k : u[i] = w[i]
  BY <1>3
<1>5. \A k \in 1..m : Link(w, k) => Link(u, k)
  BY <1>4, LinkLocal
<1>6. \A k \in 1..m : Through(w, k) => Through(u, k)
  BY <1>4, LinkLocal
<1>7. /\ \A k \in 1..m : k \in 1..Len(w)
      /\ \A k \in 1..m - 1 : k \in 1..m /\ k \in 1..Len(w) - 1
  BY <1>1
<1>8. IsWay(u)
  BY <1>3, <1>5, <1>6, <1>7 DEF IsWay
<1> QED
  BY <1>2, <1>3, <1>8

LEMMA WayIsOnward ==
  ASSUME TypeOK, NEW n \in Nat \ {0, 1}, NEW w \in WaysOf(n)
  PROVE  \E u \in WaysOf(n - 1) : w \in Onward(u, n)
<1>1. w \in Seq(Dependency) /\ Len(w) = n /\ IsWay(w)
  BY DEF WaysOf
<1>2. PICK u : u = SubSeq(w, 1, n - 1)
  OBVIOUS
<1>3. IsWay(u) /\ Len(u) = n - 1 /\ \A i \in 1..n - 1 : u[i] = w[i]
  BY <1>1, <1>2, Shorter
<1>4. u \in WaysOf(n - 1)
  BY <1>3 DEF WaysOf, IsWay
<1>5. w = Append(u, w[n])
  BY <1>1, <1>2
<1>6. Link(w, n) /\ Through(w, n - 1)
  BY <1>1 DEF IsWay
<1>7. Through(u, n - 1) /\ u[n - 1] = w[n - 1]
  BY <1>3, <1>6, LinkLocal
<1>8. UNION {w[i].excludes : i \in 1..n - 1} = UNION {u[i].excludes : i \in 1..n - 1}
  BY <1>3
<1>9. /\ w[n] \in Range(graph[u[n - 1].id]) /\ w[n].matches
      /\ w[n].id.module \notin UNION {u[i].excludes : i \in 1..n - 1}
  <2>1. n # 1
    OBVIOUS
  <2> QED
    BY <1>6, <1>7, <1>8, <2>1 DEF Link
<1>10. /\ u[n - 1].transitive /\ u[n - 1].id \in described
       /\ u[n - 1].id.module \notin {u[i].id.module : i \in 1..n - 2}
  <2>1. (n - 1) - 1 = n - 2
    OBVIOUS
  <2> QED
    BY <1>7, <2>1 DEF Through
<1>11. w \in Onward(u, n)
  BY <1>5, <1>9, <1>10 DEF Onward
<1> QED
  BY <1>4, <1>11

LEMMA ModulesFinite ==
  IsFiniteSet(Modules) /\ Cardinality(Modules) \in Nat
<1> DEFINE f == [id \in Ids |-> id.module]
<1>1. f \in Surjection(Ids, Modules)
  BY DEF Surjection, Modules
<1>2. IsFiniteSet(Modules)
  BY <1>1, IdsAssumption, FS_Surjection
<1> QED
  BY <1>2, FS_CardinalityType

\* The recursive definition is satisfied by the ways in closed form, ...
LEMMA WaysEquation ==
  ASSUME TypeOK
  PROVE  Ways = [n \in 1..Cardinality(Modules) + 1 |->
                   IF n = 1 THEN First ELSE UNION {Onward(w, n) : w \in Ways[n - 1]}]
<1> DEFINE K == 1..Cardinality(Modules) + 1
           E(f) == f = [n \in K |-> IF n = 1 THEN First
                                    ELSE UNION {Onward(w, n) : w \in f[n - 1]}]
           g == [n \in K |-> WaysOf(n)]
<1>1. Ways = CHOOSE f : E(f)
  BY DEF Ways, First, Onward
<1>2. E(g)
  <2> SUFFICES ASSUME NEW n \in K
               PROVE  WaysOf(n) = IF n = 1 THEN First
                                  ELSE UNION {Onward(w, n) : w \in g[n - 1]}
    OBVIOUS
  <2>1. CASE n = 1
    BY <2>1, FirstWays
  <2>2. CASE n # 1
    <3>1. n \in Nat \ {0, 1} /\ n - 1 \in K
      BY <2>2, ModulesFinite
    <3>2. g[n - 1] = WaysOf(n - 1)
      BY <3>1
    <3>3. \A w \in WaysOf(n) : \E u \in WaysOf(n - 1) : w \in Onward(u, n)
      BY <3>1, WayIsOnward
    <3>4. \A u \in WaysOf(n - 1) : \A w \in Onward(u, n) : w \in WaysOf(n)
      BY <3>1, OnwardIsWay
    <3> QED
      BY <2>2, <3>2, <3>3, <3>4
  <2> QED
    BY <2>1, <2>2
<1> HIDE DEF g, E
<1>3. E(Ways)
  BY <1>1, <1>2
<1> QED
  BY <1>3 DEF E

\* ... and by nothing else.
LEMMA WaysAre ==
  ASSUME TypeOK
  PROVE  /\ DOMAIN Ways = 1..Cardinality(Modules) + 1
         /\ \A n \in DOMAIN Ways : Ways[n] = WaysOf(n)
<1> DEFINE K == 1..Cardinality(Modules) + 1
<1>1. /\ DOMAIN Ways = K
      /\ \A n \in K : Ways[n] = IF n = 1 THEN First ELSE UNION {Onward(w, n) : w \in Ways[n - 1]}
  BY WaysEquation
<1>2. ASSUME {n \in K : Ways[n] # WaysOf(n)} # {}
      PROVE  FALSE
  <2>1. {n \in K : Ways[n] # WaysOf(n)} \in SUBSET Nat
    OBVIOUS
  <2>2. PICK n \in K : /\ Ways[n] # WaysOf(n)
                       /\ \A k \in K : Ways[k] # WaysOf(k) => n <= k
    BY <1>2, <2>1, Least
  <2>3. CASE n = 1
    BY <1>1, <2>2, <2>3, FirstWays
  <2>4. CASE n # 1
    <3>1. n \in Nat \ {0, 1} /\ n - 1 \in K /\ n - 1 < n
      BY <2>4, ModulesFinite
    <3>2. Ways[n - 1] = WaysOf(n - 1)
      BY <2>2, <3>1
    <3>3. Ways[n] = UNION {Onward(w, n) : w \in WaysOf(n - 1)}
      BY <1>1, <2>4, <3>2
    <3>4. \A w \in WaysOf(n) : \E u \in WaysOf(n - 1) : w \in Onward(u, n)
      BY <3>1, WayIsOnward
    <3>5. \A u \in WaysOf(n - 1) : \A w \in Onward(u, n) : w \in WaysOf(n)
      BY <3>1, OnwardIsWay
    <3>6. Ways[n] = WaysOf(n)
      BY <3>3, <3>4, <3>5
    <3> QED
      BY <2>2, <3>6
  <2> QED
    BY <2>3, <2>4
<1> QED
  BY <1>1, <1>2

\* No way is longer than that: all but its last are different modules.
LEMMA WayLength ==
  ASSUME TypeOK, NEW w, IsWay(w)
  PROVE  Len(w) \in 1..Cardinality(Modules) + 1
<1>1. IsFiniteSet(Modules)
  BY ModulesFinite
<1>2. PICK c \in Nat : c = Cardinality(Modules)
  BY ModulesFinite
<1>3. w \in Seq(Dependency) /\ Len(w) \in Nat \ {0}
  BY DEF IsWay
<1>4. \A k \in 1..Len(w) : w[k].id.module \in Modules
  <2> SUFFICES ASSUME NEW k \in 1..Len(w)
               PROVE  w[k].id.module \in Modules
    OBVIOUS
  <2>1. w[k] \in Dependency
    BY <1>3
  <2> QED
    BY <2>1 DEF Dependency, Modules
<1> DEFINE f == [k \in 1..Len(w) - 1 |-> w[k].id.module]
<1>5. f \in [1..Len(w) - 1 -> Modules]
  BY <1>3, <1>4
<1>6. \A i, j \in 1..Len(w) - 1 : i < j => f[i] # f[j]
  <2> SUFFICES ASSUME NEW i \in 1..Len(w) - 1, NEW j \in 1..Len(w) - 1, i < j
               PROVE  f[i] # f[j]
    OBVIOUS
  <2>1. Through(w, j) /\ i \in 1..j - 1
    BY <1>3 DEF IsWay
  <2> QED
    BY <2>1 DEF Through
<1>7. IsFiniteSet(1..Len(w) - 1) /\ Cardinality(1..Len(w) - 1) = Len(w) - 1
  <2>1. PICK m \in Int : m = Len(w) - 1 /\ m >= 0
    BY <1>3
  <2>2. IsFiniteSet(1..m) /\ Cardinality(1..m) = IF 1 > m THEN 0 ELSE m - 1 + 1
    BY FS_Interval
  <2> QED
    BY <2>1, <2>2
<1> HIDE DEF f
<1>8. ASSUME c < Len(w) - 1
      PROVE  FALSE
  <2>1. PICK i, j \in 1..Len(w) - 1 : i # j /\ f[i] = f[j]
    BY <1>1, <1>2, <1>5, <1>7, <1>8, FS_PigeonHole
  <2>2. i < j \/ j < i
    BY <2>1
  <2> QED
    BY <1>6, <2>1, <2>2
<1> QED
  BY <1>2, <1>3, <1>8

LEMMA DeclaredIs ==
  ASSUME TypeOK
  PROVE  DeclaredEdges = {Edge(w) : w \in {v \in Seq(Dependency) : IsWay(v)}}
<1>1. ASSUME NEW w, IsWay(w)
      PROVE  Edge(w) \in DeclaredEdges
  <2>1. Len(w) \in DOMAIN Ways /\ w \in Seq(Dependency)
    BY <1>1, WayLength, WaysAre DEF IsWay
  <2>2. w \in Ways[Len(w)]
    BY <1>1, <2>1, WaysAre DEF WaysOf
  <2> QED
    BY <2>1, <2>2 DEF DeclaredEdges
<1>2. ASSUME NEW n \in DOMAIN Ways, NEW w \in Ways[n]
      PROVE  w \in Seq(Dependency) /\ IsWay(w)
  BY WaysAre DEF WaysOf
<1> QED
  BY <1>1, <1>2 DEF DeclaredEdges

\* What the walk has left behind of w is settled.
Settled(w) ==
    w[Len(w)].id \in described \cup errors
    \/ w[Len(w)].id.module \in {w[i].id.module : i \in 1..Len(w) - 1}

LEMMA BehindIs ==
  ASSUME TypeOK
  PROVE  BehindReported <=>
           (errors \cap described = {} =>
              \A w : IsWay(w) /\ Behind(w) => Edge(w) \in callers /\ Settled(w))
<1>1. ASSUME NEW w, IsWay(w)
      PROVE  Len(w) \in DOMAIN Ways /\ w \in Ways[Len(w)]
  BY <1>1, WayLength, WaysAre DEF IsWay, WaysOf
<1>2. ASSUME NEW n \in DOMAIN Ways, NEW w \in Ways[n]
      PROVE  IsWay(w) /\ Len(w) = n
  BY WaysAre DEF WaysOf
<1>3. ASSUME BehindReported, errors \cap described = {}, NEW w, IsWay(w), Behind(w)
      PROVE  Edge(w) \in callers /\ Settled(w)
  <2>1. PICK n \in DOMAIN Ways : n = Len(w) /\ w \in {v \in Ways[n] : Behind(v)}
    BY <1>1, <1>3
  <2>2. /\ Edge(w) \in callers
        /\ w[n].id \in described \cup errors
           \/ w[n].id.module \in {w[i].id.module : i \in 1..n - 1}
    BY <1>3, <2>1, Zenon DEF BehindReported
  <2> QED
    BY <2>1, <2>2, Zenon DEF Settled
<1>4. ASSUME NEW n \in DOMAIN Ways, NEW w \in {v \in Ways[n] : Behind(v)},
             Edge(w) \in callers, Settled(w)
      PROVE  /\ Edge(w) \in callers
             /\ w[n].id \in described \cup errors
                \/ w[n].id.module \in {w[i].id.module : i \in 1..n - 1}
  <2>1. Len(w) = n
    BY <1>2
  <2> QED
    BY <1>4, <2>1, Zenon DEF Settled
<1>5. ASSUME errors \cap described = {} =>
               \A w : IsWay(w) /\ Behind(w) => Edge(w) \in callers /\ Settled(w)
      PROVE  BehindReported
  BY <1>2, <1>4, <1>5, Zenon DEF BehindReported
<1> QED
  BY <1>3, <1>5

-----------------------------------------------------------------------------
(* Every edge of the report is declared                                    *)

\* The dependencies the frames have passed make a way.
LEMMA PassedOnes ==
  ASSUME TypeOK, AncestorsAreStack, StackIsWay
  PROVE  /\ \A k \in 1..Len(stack) :
               stack[k].excludes = UNION {Passed(j).excludes : j \in 1..k - 1}
         /\ \A k \in 1..Len(stack) - 1 :
               /\ Passed(k) \in Range(graph[stack[k].id]) /\ Passed(k) \in Dependency
               /\ Passed(k).id = stack[k + 1].id
               /\ Passed(k).matches /\ Passed(k).transitive
               /\ Passed(k).id.module \notin stack[k].excludes
               /\ Passed(k).id \in described
               /\ Passed(k).id.module \notin {Passed(j).id.module : j \in 1..k - 1}
               /\ <<stack[k].id, stack[k + 1].id>> \in callers
<1>1. Len(stack) \in Nat \ {0} /\ stack # <<>>
  BY StackType DEF AncestorsAreStack
<1>2. ASSUME NEW k \in 1..Len(stack)
      PROVE  stack[k].excludes = UNION {Passed(j).excludes : j \in 1..k - 1}
  <2>1. CASE k = 1
    BY <2>1 DEF StackIsWay
  <2>2. CASE k # 1
    <3>1. k \in 2..Len(stack)
      BY <1>1, <2>2
    <3>2. Entered(k)
      BY <3>1, StackIsWayIs
    <3> QED
      BY <3>2 DEF Entered
  <2> QED
    BY <2>1, <2>2
<1>3. ASSUME NEW k \in 1..Len(stack) - 1
      PROVE  /\ Passed(k) \in Range(graph[stack[k].id]) /\ Passed(k) \in Dependency
             /\ Passed(k).id = stack[k + 1].id
             /\ Passed(k).matches /\ Passed(k).transitive
             /\ Passed(k).id.module \notin stack[k].excludes
             /\ Passed(k).id \in described
             /\ <<stack[k].id, stack[k + 1].id>> \in callers
  <2>1. k + 1 \in 2..Len(stack) /\ (k + 1) - 1 = k /\ k \in 1..Len(stack)
    BY <1>1
  <2>2. Entered(k + 1) /\ stack[k + 1].id \in described
    BY <2>1, StackIsWayIs DEF AncestorsAreStack
  <2>3. /\ stack[k].next - 1 \in DOMAIN graph[stack[k].id]
        /\ Passed(k).id = stack[k + 1].id
        /\ Passed(k).matches /\ Passed(k).transitive
        /\ stack[k + 1].id.module \notin stack[k].excludes
        /\ <<stack[k].id, stack[k + 1].id>> \in callers
    BY <2>1, <2>2 DEF Entered
  <2>4. Passed(k) \in Range(graph[stack[k].id])
    BY <2>3 DEF Passed, Range
  <2>5. Passed(k) \in Dependency
    BY <1>1, <2>1, <2>4, Declared, StackType
  <2> QED
    BY <2>2, <2>3, <2>4, <2>5
<1>4. ASSUME NEW k \in 1..Len(stack) - 1, NEW j \in 1..k - 1
      PROVE  Passed(k).id.module # Passed(j).id.module
  <2>1. j \in 1..Len(stack) - 1 /\ j + 1 \in 2..Len(stack) /\ k + 1 \in 2..Len(stack) /\ j + 1 # k + 1
    BY <1>1
  <2>2. Passed(k).id = stack[k + 1].id /\ Passed(j).id = stack[j + 1].id
    BY <1>3, <2>1
  <2>3. stack[k + 1].id.module # stack[j + 1].id.module
    BY <2>1 DEF AncestorsAreStack
  <2> QED
    BY <2>2, <2>3
<1> QED
  BY <1>2, <1>3, <1>4

\* With a dependency of the innermost frame that takes part, it goes on.
LEMMA StackWay ==
  ASSUME TypeOK, AncestorsAreStack, StackIsWay, NEW d, At(d), Participates(d)
  PROVE  \E w : /\ IsWay(w) /\ Len(w) = Len(stack)
                /\ \A k \in 1..Len(stack) - 1 : w[k] = Passed(k)
                /\ w[Len(stack)] = d
                /\ Edge(w) = <<Here.id, d.id>>
<1>0. PICK L : L = Len(stack)
  OBVIOUS
<1>1. /\ L \in Nat \ {0} /\ stack # <<>> /\ Here = stack[L] /\ stack[1].id = Root
      /\ d \in Dependency /\ d \in Range(graph[stack[L].id])
      /\ d.matches /\ d.id.module \notin stack[L].excludes
  <2>1. stack # <<>> /\ stack[1].id = Root
    BY DEF AncestorsAreStack
  <2>2. L \in Nat \ {0} /\ Here = stack[L]
    BY <1>0, <2>1, StackType
  <2>3. d \in Dependency /\ Here.next \in DOMAIN graph[Here.id] /\ d = graph[Here.id][Here.next]
    BY <2>1, HereType
  <2> QED
    BY <2>1, <2>2, <2>3 DEF Participates, Range
<1>2. PICK w : w = [k \in 1..L |-> IF k = L THEN d ELSE Passed(k)]
  OBVIOUS
<1>3. /\ \A k \in 1..L : stack[k].excludes = UNION {Passed(j).excludes : j \in 1..k - 1}
      /\ \A k \in 1..L - 1 :
            /\ Passed(k) \in Range(graph[stack[k].id]) /\ Passed(k) \in Dependency
            /\ Passed(k).id = stack[k + 1].id
            /\ Passed(k).matches /\ Passed(k).transitive
            /\ Passed(k).id.module \notin stack[k].excludes
            /\ Passed(k).id \in described
            /\ Passed(k).id.module \notin {Passed(j).id.module : j \in 1..k - 1}
  BY <1>0, PassedOnes
<1>4. /\ w[L] = d /\ \A k \in 1..L - 1 : k \in 1..L /\ w[k] = Passed(k)
  BY <1>1, <1>2
<1>5. w \in Seq(Dependency) /\ Len(w) = L
  <2>1. \A k \in 1..L : w[k] \in Dependency
    BY <1>1, <1>3, <1>4
  <2> QED
    BY <1>1, <1>2, <2>1
<1>6. ASSUME NEW k \in 1..L
      PROVE  /\ stack[k].id = IF k = 1 THEN Root ELSE w[k - 1].id
             /\ stack[k].excludes = UNION {w[j].excludes : j \in 1..k - 1}
  <2>1. \A j \in 1..k - 1 : j \in 1..L - 1 /\ w[j] = Passed(j)
    BY <1>1, <1>4
  <2>2. UNION {w[j].excludes : j \in 1..k - 1} = UNION {Passed(j).excludes : j \in 1..k - 1}
    BY <2>1
  <2>3. CASE k = 1
    BY <1>1, <1>3, <2>2, <2>3
  <2>4. CASE k # 1
    <3>1. k - 1 \in 1..k - 1 /\ k - 1 \in 1..L - 1 /\ (k - 1) + 1 = k
      BY <1>1, <2>4
    <3>2. w[k - 1].id = stack[k].id
      BY <1>3, <2>1, <3>1
    <3> QED
      BY <1>3, <2>2, <2>4, <3>2
  <2> QED
    BY <2>3, <2>4
<1>7. ASSUME NEW k \in 1..L
      PROVE  Link(w, k)
  <2>1. CASE k = L
    BY <1>1, <1>4, <1>6, <2>1 DEF Link
  <2>2. CASE k # L
    <3>1. k \in 1..L - 1
      BY <1>1, <2>2
    <3> QED
      BY <1>3, <1>4, <1>6, <3>1 DEF Link
  <2> QED
    BY <2>1, <2>2
<1>8. ASSUME NEW k \in 1..L - 1
      PROVE  Through(w, k)
  <2>1. \A j \in 1..k - 1 : j \in 1..L - 1 /\ w[j] = Passed(j)
    BY <1>1, <1>4
  <2>2. {w[j].id.module : j \in 1..k - 1} = {Passed(j).id.module : j \in 1..k - 1}
    BY <2>1
  <2> QED
    BY <1>3, <1>4, <2>2 DEF Through
<1>9. IsWay(w)
  BY <1>1, <1>5, <1>7, <1>8 DEF IsWay
<1>10. Edge(w) = <<Here.id, d.id>>
  <2>1. stack[L].id = IF L = 1 THEN Root ELSE w[L - 1].id
    BY <1>1, <1>6
  <2> QED
    BY <1>1, <1>4, <1>5, <2>1 DEF Edge
<1> QED
  BY <1>0, <1>4, <1>5, <1>9, <1>10

\* The way, the dependencies found and the report only grow.
LEMMA Grows ==
  ASSUME [Next]_vars
  PROVE  /\ graph' = graph /\ described \subseteq described'
         /\ errors \subseteq errors' /\ callers \subseteq callers'
BY StepKinds DEF Skip, Cyclic, NotFound, Describe, Walks, Unwalked, Return, Still

LEMMA WayGrows ==
  ASSUME graph' = graph, described \subseteq described', NEW w, IsWay(w)
  PROVE  IsWay(w)'
<1>1. \A k \in 1..Len(w) : Link(w, k)'
  BY DEF IsWay, Link
<1>2. \A k \in 1..Len(w) - 1 : Through(w, k)'
  BY DEF IsWay, Through
<1> QED
  BY <1>1, <1>2 DEF IsWay

CallersAreWays == \A e \in callers : \E w : IsWay(w) /\ e = Edge(w)

LEMMA CallersStep ==
  ASSUME TypeOK, AncestorsAreStack, StackIsWay, CallersAreWays, [Next]_vars
  PROVE  CallersAreWays'
<1>1. /\ graph' = graph /\ described \subseteq described'
  BY Grows
<1>2. \A e \in callers : \E w : IsWay(w)' /\ e = Edge(w)
  BY <1>1, WayGrows DEF CallersAreWays
<1>3. ASSUME callers' = callers
      PROVE  CallersAreWays'
  BY <1>2, <1>3 DEF CallersAreWays
<1>4. ASSUME NEW d, Walks(d)
      PROVE  CallersAreWays'
  <2>1. PICK w : IsWay(w) /\ Edge(w) = <<Here.id, d.id>>
    BY <1>4, StackWay DEF Walks
  <2>2. IsWay(w)' /\ callers' = callers \cup {Edge(w)}
    BY <1>1, <1>4, <2>1, WayGrows DEF Walks
  <2> QED
    BY <1>2, <2>2 DEF CallersAreWays
<1> QED
  BY <1>3, <1>4, StepKinds DEF Skip, Cyclic, NotFound, Describe, Return, Still

-----------------------------------------------------------------------------
(* What is behind the walk is in the report                                *)

BehindSettled ==
    errors \cap described = {} =>
      \A w : IsWay(w) /\ Behind(w) => Edge(w) \in callers /\ Settled(w)

\* The witness of Behind, at frame i.
BehindAt(w, i) ==
    /\ i <= Len(w)
    /\ \A k \in 1..i - 1 : w[k] = Passed(k)
    /\ \E j \in DOMAIN graph[stack[i].id] :
          /\ w[i] = graph[stack[i].id][j]
          /\ j < stack[i].next - (IF i = Len(stack) THEN 0 ELSE 1)

LEMMA BehindIsAt ==
  ASSUME NEW w
  PROVE  Behind(w) <=> \E i \in 1..Len(stack) : BehindAt(w, i)
BY DEF Behind, BehindAt

LEMMA BehindBy ==
  ASSUME NEW w, NEW i \in 1..Len(stack), i <= Len(w), \A k \in 1..i - 1 : w[k] = Passed(k),
         NEW j \in DOMAIN graph[stack[i].id], w[i] = graph[stack[i].id][j],
         j < stack[i].next - (IF i = Len(stack) THEN 0 ELSE 1)
  PROVE  Behind(w)
BY Zenon DEF Behind

\* w follows the stack and goes on by d.
Follows(w, d) ==
    /\ Len(stack) <= Len(w)
    /\ \A k \in 1..Len(stack) - 1 : w[k] = Passed(k)
    /\ w[Len(stack)] = d

\* A revision that is found only now was not found before, and then it is an
\* error: a way behind the walk does not become one by it.
LEMMA BehindWasWay ==
  ASSUME TypeOK, AncestorsAreStack, StackIsWay, BehindSettled, [Next]_vars,
         errors' \cap described' = {}, NEW w, IsWay(w)', Behind(w)
  PROVE  IsWay(w)
<1>1. /\ graph' = graph /\ errors \subseteq errors' /\ errors \cap described = {}
  BY Grows
<1>2. /\ w \in Seq(Dependency) /\ Len(w) \in Nat \ {0}
      /\ \A k \in 1..Len(w) : Link(w, k)
      /\ \A k \in 1..Len(w) - 1 :
            /\ w[k].transitive /\ w[k].id \in described'
            /\ w[k].id.module \notin {w[i].id.module : i \in 1..k - 1}
  BY <1>1 DEF IsWay, Link, Through
<1> DEFINE S == {k \in 1..Len(w) - 1 : w[k].id \notin described}
<1>3. CASE S = {}
  BY <1>2, <1>3 DEF IsWay, Through
<1>4. CASE S # {}
  <2>0. S \in SUBSET Nat
    BY <1>2
  <2>1. PICK k \in S : \A j \in S : k <= j
    BY <1>4, <2>0, Least
  <2>2. /\ k \in 1..Len(w) - 1 /\ k \in Nat \ {0} /\ w[k].id \notin described
        /\ \A j \in 1..k - 1 : w[j].id \in described
    BY <1>2, <2>1
  <2>3. PICK u : u = SubSeq(w, 1, k)
    OBVIOUS
  <2>4. u \in Seq(Dependency) /\ Len(u) = k /\ \A j \in 1..k : u[j] = w[j]
    BY <1>2, <2>2, <2>3
  <2>5. IsWay(u)
    <3>1. \A j \in 1..k : Link(u, j)
      <4> SUFFICES ASSUME NEW j \in 1..k
                   PROVE  Link(u, j)
        OBVIOUS
      <4>1. j \in Nat \ {0} /\ j \in 1..Len(w) /\ \A i \in 1..j : u[i] = w[i]
        BY <1>2, <2>2, <2>4
      <4> QED
        BY <1>2, <4>1, LinkLocal
    <3>2. \A j \in 1..k - 1 : Through(u, j)
      <4> SUFFICES ASSUME NEW j \in 1..k - 1
                   PROVE  Through(u, j)
        OBVIOUS
      <4>1. j \in Nat \ {0} /\ j \in 1..Len(w) - 1 /\ \A i \in 1..j : u[i] = w[i]
        BY <1>2, <2>2, <2>4
      <4>2. Through(w, j)
        BY <1>2, <2>2, <4>1 DEF Through
      <4> QED
        BY <4>1, <4>2, LinkLocal
    <3> QED
      BY <2>2, <2>4, <3>1, <3>2 DEF IsWay
  <2>6. PICK i \in 1..Len(stack) : BehindAt(w, i)
    BY BehindIsAt
  <2>7. Len(stack) \in Nat
    BY StackType DEF AncestorsAreStack
  <2>8. CASE i <= k
    <3>1. i \in 1..k /\ i <= Len(u) /\ \A j \in 1..i - 1 : j \in 1..k
      BY <2>2, <2>4, <2>7, <2>8
    <3>2. BehindAt(u, i)
      BY <2>4, <2>6, <3>1 DEF BehindAt
    <3>3. Settled(u)
      BY <1>1, <2>5, <2>6, <3>2, BehindIsAt DEF BehindSettled
    <3>4. {u[j].id.module : j \in 1..k - 1} = {w[j].id.module : j \in 1..k - 1}
      <4>1. \A j \in 1..k - 1 : u[j] = w[j]
        BY <2>2, <2>4
      <4> QED
        BY <4>1
    <3>5. u[k] = w[k]
      BY <2>2, <2>4
    <3>6. w[k].id \in described \cup errors \/ w[k].id.module \in {w[j].id.module : j \in 1..k - 1}
      BY <2>4, <3>3, <3>4, <3>5 DEF Settled
    <3>7. w[k].id \in errors' /\ w[k].id \in described'
      BY <1>1, <1>2, <2>2, <3>6
    <3> QED
      BY <3>7
  <2>9. CASE ~(i <= k)
    <3>1. k \in 1..i - 1 /\ k \in 1..Len(stack) - 1
      BY <2>2, <2>7, <2>9
    <3>2. w[k] = Passed(k) /\ Passed(k).id \in described
      BY <2>6, <3>1, PassedOnes DEF BehindAt
    <3> QED
      BY <2>2, <3>2
  <2> QED
    BY <2>8, <2>9
<1> QED
  BY <1>3, <1>4

\* So what was behind the walk stays in the report.
LEMMA BehindBefore ==
  ASSUME TypeOK, AncestorsAreStack, StackIsWay, BehindSettled, [Next]_vars,
         errors' \cap described' = {}, NEW w, IsWay(w)', Behind(w)
  PROVE  Edge(w) \in callers' /\ Settled(w)'
<1>1. IsWay(w)
  BY BehindWasWay
<1>2. /\ errors \cap described = {} /\ callers \subseteq callers'
      /\ described \subseteq described' /\ errors \subseteq errors'
  BY Grows
<1>3. Edge(w) \in callers /\ Settled(w)
  BY <1>1, <1>2 DEF BehindSettled
<1> QED
  BY <1>2, <1>3 DEF Settled

\* A loop that moves on leaves behind what goes on by its dependency.
LEMMA BehindMoved ==
  ASSUME TypeOK, stack # <<>>, NEW d, At(d), graph' = graph, Moved(stack'), NEW w, Behind(w)'
  PROVE  Behind(w) \/ Follows(w, d)
<1>0. PICK L : L = Len(stack)
  OBVIOUS
<1>1. /\ L \in Nat \ {0} /\ Len(stack') = L
      /\ \A k \in 1..L : stack'[k].id = stack[k].id /\ (k # L => stack'[k].next = stack[k].next)
      /\ stack'[L].next = stack[L].next + 1
      /\ stack[L].next \in Nat /\ d = graph[stack[L].id][stack[L].next]
  BY <1>0, StackType, HereType DEF Moved
<1>2. PICK i \in 1..L : /\ i <= Len(w)
                        /\ \A k \in 1..i - 1 : w[k] = Passed(k)'
                        /\ \E j \in DOMAIN graph[stack'[i].id] :
                              /\ w[i] = graph[stack'[i].id][j]
                              /\ j < stack'[i].next - (IF i = L THEN 0 ELSE 1)
  BY <1>1 DEF Behind
<1>3. \A k \in 1..i - 1 : k \in 1..L /\ k # L /\ Passed(k)' = Passed(k) /\ w[k] = Passed(k)
  BY <1>1, <1>2 DEF Passed
<1>4. PICK j \in DOMAIN graph[stack[i].id] :
         /\ w[i] = graph[stack[i].id][j]
         /\ j < stack'[i].next - (IF i = L THEN 0 ELSE 1)
  BY <1>1, <1>2
<1>5. j \in Nat
  BY <1>0, StackType
<1>6. CASE i # L
  <2>1. j < stack[i].next - (IF i = L THEN 0 ELSE 1)
    BY <1>1, <1>4, <1>6
  <2>2. BehindAt(w, i)
    BY <1>0, <1>2, <1>3, <1>4, <2>1 DEF BehindAt
  <2> QED
    BY <1>0, <2>2, BehindIsAt
<1>7. CASE i = L /\ j = stack[L].next
  BY <1>0, <1>1, <1>2, <1>3, <1>4, <1>7 DEF Follows
<1>8. CASE i = L /\ j # stack[L].next
  <2>1. j < stack[i].next - (IF i = L THEN 0 ELSE 1)
    BY <1>1, <1>4, <1>5, <1>8
  <2>2. BehindAt(w, i)
    BY <1>0, <1>2, <1>3, <1>4, <2>1 DEF BehindAt
  <2> QED
    BY <1>0, <2>2, BehindIsAt
<1> QED
  BY <1>6, <1>7, <1>8

\* The frame that is pushed has left nothing behind, and the one below it
\* waits for it.
LEMMA BehindPushed ==
  ASSUME TypeOK, AncestorsAreStack, NEW d, Describe(d), d.transitive, NEW w, Behind(w)'
  PROVE  Behind(w)
<1> DEFINE f == [id |-> d.id, next |-> 1, excludes |-> Here.excludes \cup d.excludes]
<1>0. PICK L : L = Len(stack)
  OBVIOUS
<1>1. /\ At(d) /\ stack' = Append(Advanced, f) /\ graph' = graph /\ stack # <<>>
  BY DEF Describe, Walks, Unwalked, AncestorsAreStack
<1>2. /\ d.id \in Ids /\ L \in Nat \ {0} /\ f \in Frame /\ f.next = 1 /\ f.id = d.id
  BY <1>0, <1>1, HereType, StackType DEF Frame
<1> HIDE DEF f
<1>3. /\ Len(stack') = L + 1 /\ stack'[L + 1] = f
      /\ \A k \in 1..L : stack'[k].id = stack[k].id /\ (k # L => stack'[k].next = stack[k].next)
      /\ stack'[L].next = stack[L].next + 1 /\ stack[L].next \in Nat
  BY <1>0, <1>1, <1>2, PushedStack, AdvancedMoves, StackType DEF Moved
<1>4. PICK i \in 1..L + 1 : /\ i <= Len(w)
                            /\ \A k \in 1..i - 1 : w[k] = Passed(k)'
                            /\ \E j \in DOMAIN graph[stack'[i].id] :
                                  /\ w[i] = graph[stack'[i].id][j]
                                  /\ j < stack'[i].next - (IF i = L + 1 THEN 0 ELSE 1)
  <2>1. PICK i \in 1..Len(stack') : BehindAt(w, i)'
    BY DEF Behind, BehindAt
  <2>2. i \in 1..L + 1 /\ Len(stack') = L + 1
    BY <1>3, <2>1
  <2> QED
    BY <1>1, <2>1, <2>2 DEF BehindAt
<1>5. PICK j \in DOMAIN graph[stack'[i].id] :
         /\ w[i] = graph[stack'[i].id][j]
         /\ j < stack'[i].next - (IF i = L + 1 THEN 0 ELSE 1)
  BY <1>4
<1>6. i # L + 1
  <2> SUFFICES ASSUME i = L + 1 PROVE FALSE
    OBVIOUS
  <2>1. j \in DOMAIN graph[d.id] /\ j < 1
    BY <1>2, <1>3, <1>5
  <2>2. graph[d.id] \in Seq(Dependency)
    BY <1>2 DEF TypeOK, Graph
  <2>3. DOMAIN graph[d.id] \subseteq Nat \ {0}
    BY <2>2
  <2> QED
    BY <2>1, <2>3
<1>7. i \in 1..L /\ stack'[i].id = stack[i].id
  BY <1>2, <1>3, <1>6
<1>8. \A k \in 1..i - 1 : k \in 1..L /\ k # L /\ Passed(k)' = Passed(k) /\ w[k] = Passed(k)
  <2> TAKE k \in 1..i - 1
  <2>1. k \in 1..L /\ k # L
    BY <1>2, <1>7
  <2>2. stack'[k].id = stack[k].id /\ stack'[k].next = stack[k].next
    BY <1>3, <2>1
  <2>3. Passed(k)' = Passed(k)
    BY <1>1, <2>2 DEF Passed
  <2>4. w[k] = Passed(k)'
    BY <1>4
  <2> QED
    BY <2>1, <2>3, <2>4
<1>9. j < stack[i].next - (IF i = L THEN 0 ELSE 1)
  <2>1. j \in Nat
    BY <1>0, <1>1, <1>5, <1>7, StackType
  <2> QED
    BY <1>3, <1>5, <1>6, <1>7, <2>1
<1>10. BehindAt(w, i)
  BY <1>0, <1>4, <1>5, <1>7, <1>8, <1>9 DEF BehindAt
<1> QED
  BY <1>0, <1>7, <1>10, BehindIsAt

\* A frame that is left has left everything behind; the way to it is done with
\* too, and is in the report.
LEMMA BehindPopped ==
  ASSUME TypeOK, AncestorsAreStack, StackIsWay, Return, NEW w, IsWay(w)', Behind(w)'
  PROVE  Behind(w) \/ (Edge(w) \in callers' /\ Settled(w)')
<1>0. PICK L : L = Len(stack)
  OBVIOUS
<1>1. /\ stack # <<>> /\ L \in Nat /\ L > 1 /\ stack' = Front(stack) /\ graph' = graph
      /\ callers' = callers /\ described' = described /\ errors' = errors
      /\ stack[L].next > Len(graph[stack[L].id])
  BY <1>0, StackType DEF Return, Unwalked, AncestorsAreStack, AtEnd
<1>2. Len(stack') = L - 1 /\ \A k \in 1..L - 1 : stack'[k] = stack[k]
  BY <1>0, <1>1, PoppedStack
<1>3. PICK i \in 1..L - 1 : /\ i <= Len(w)
                            /\ \A k \in 1..i - 1 : w[k] = Passed(k)'
                            /\ \E j \in DOMAIN graph[stack'[i].id] :
                                  /\ w[i] = graph[stack'[i].id][j]
                                  /\ j < stack'[i].next - (IF i = L - 1 THEN 0 ELSE 1)
  BY <1>1, <1>2 DEF Behind
<1>4. PICK j \in DOMAIN graph[stack[i].id] :
         /\ w[i] = graph[stack[i].id][j]
         /\ j < stack[i].next - (IF i = L - 1 THEN 0 ELSE 1)
  BY <1>2, <1>3
<1>5. \A k \in 1..i - 1 : k \in 1..L - 1 /\ Passed(k)' = Passed(k) /\ w[k] = Passed(k)
  BY SMTT(30), <1>1, <1>2, <1>3 DEF Passed
<1>6. i \in 1..L /\ j \in Nat /\ stack[i].next \in Nat
  BY <1>0, <1>1, StackType
<1>7. CASE j < stack[i].next - 1
  <2>1. j < stack[i].next - (IF i = Len(stack) THEN 0 ELSE 1) /\ i <= Len(w)
    BY <1>0, <1>1, <1>3, <1>7
  <2>2. \A k \in 1..i - 1 : w[k] = Passed(k)
    BY <1>5
  <2>3. i \in 1..Len(stack)
    BY <1>0, <1>6
  <2> QED
    BY <1>4, <2>1, <2>2, <2>3, BehindBy
<1>8. CASE ~(j < stack[i].next - 1)
  <2>1. i = L - 1 /\ j = stack[i].next - 1
    BY <1>1, <1>4, <1>6, <1>8
  <2>2. w[L - 1] = Passed(L - 1)
    BY <1>4, <2>1 DEF Passed
  <2>3. /\ Passed(L - 1).id = stack[L].id /\ Passed(L - 1).id \in described
        /\ <<stack[L - 1].id, stack[L].id>> \in callers
    <3>1. L - 1 \in 1..L - 1 /\ (L - 1) + 1 = L
      BY <1>1
    <3> QED
      BY <1>0, <3>1, PassedOnes
  <2>4. w \in Seq(Dependency) /\ Len(w) \in Nat /\ L - 1 <= Len(w)
        /\ \A k \in 1..Len(w) : Link(w, k)
    <3>1. w \in Seq(Dependency) /\ \A k \in 1..Len(w) : Link(w, k)'
      BY DEF IsWay
    <3>2. \A k : Link(w, k)' <=> Link(w, k)
      BY <1>1 DEF Link
    <3>3. Len(w) \in Nat /\ L - 1 <= Len(w)
      BY <1>3, <2>1, <3>1
    <3> QED
      BY <3>1, <3>2, <3>3
  <2>5. CASE Len(w) = L - 1
    <3>1. stack[L - 1].id = IF L - 1 = 1 THEN Root ELSE w[(L - 1) - 1].id
      <4>1. CASE L - 1 = 1
        BY <4>1 DEF AncestorsAreStack
      <4>2. CASE L - 1 # 1
        <5>1. (L - 1) - 1 \in 1..L - 1 /\ (L - 1) - 1 \in 1..i - 1 /\ ((L - 1) - 1) + 1 = L - 1
          BY <1>1, <2>1, <4>2
        <5>2. w[(L - 1) - 1] = Passed((L - 1) - 1)
          BY <1>5, <5>1
        <5>3. Passed((L - 1) - 1).id = stack[L - 1].id
          BY <1>0, <5>1, PassedOnes
        <5> QED
          BY <4>2, <5>2, <5>3
      <4> QED
        BY <4>1, <4>2
    <3>2. Edge(w) = <<stack[L - 1].id, stack[L].id>>
      BY <2>2, <2>3, <2>5, <3>1 DEF Edge
    <3>3. Settled(w)'
      BY <1>1, <2>2, <2>3, <2>5 DEF Settled
    <3> QED
      BY <1>1, <2>3, <3>2, <3>3
  <2>6. CASE Len(w) # L - 1
    <3>1. L \in 1..Len(w) /\ L # 1
      BY <1>1, <2>4, <2>6
    <3>2. w[L] \in Range(graph[stack[L].id])
      BY <2>2, <2>3, <2>4, <3>1 DEF Link
    <3>3. PICK m \in DOMAIN graph[stack[L].id] : w[L] = graph[stack[L].id][m]
      BY <3>2 DEF Range
    <3>4. m < stack[L].next - (IF L = Len(stack) THEN 0 ELSE 1) /\ L <= Len(w)
      <4>1. L \in 1..Len(stack)
        BY <1>0, <1>1
      <4>2. m \in 1..Len(graph[stack[L].id]) /\ stack[L].next \in Nat /\ Len(graph[stack[L].id]) \in Nat
        BY <1>1, <3>3, <4>1, StackType
      <4> QED
        BY <1>0, <1>1, <2>4, <3>1, <4>2
    <3>5. \A k \in 1..L - 1 : w[k] = Passed(k)
      <4>1. \A k \in 1..L - 1 : k \in 1..i - 1 \/ k = L - 1
        BY <1>1, <2>1
      <4> QED
        BY <1>5, <2>2, <4>1
    <3>6. L \in 1..Len(stack)
      BY <1>0, <1>1
    <3> QED
      BY <3>3, <3>4, <3>5, <3>6, BehindBy
  <2> QED
    BY <2>5, <2>6
<1> QED
  BY <1>7, <1>8

\* What follows the stack and goes on by the dependency the walk is at, when
\* that is no further frame: it takes part, and is in the report.
LEMMA FollowsSettled ==
  ASSUME TypeOK, AncestorsAreStack, StackIsWay, errors' \cap described' = {},
         NEW d, Skip(d) \/ Cyclic(d) \/ NotFound(d) \/ (Describe(d) /\ ~d.transitive),
         NEW w, IsWay(w)', Follows(w, d)
  PROVE  Edge(w) \in callers' /\ Settled(w)'
<1>0. PICK L : L = Len(stack)
  OBVIOUS
<1>1. /\ stack # <<>> /\ L \in Nat \ {0} /\ Here = stack[L] /\ At(d) /\ graph' = graph
      /\ stack[1].id = Root
  BY <1>0, StackType DEF AncestorsAreStack, Skip, Cyclic, NotFound, Describe, Walks, Unwalked
<1>2. /\ d \in Dependency /\ d.id \in Ids
  BY <1>1, HereType
<1>3. /\ w \in Seq(Dependency) /\ Len(w) \in Nat /\ L <= Len(w) /\ w[L] = d
      /\ \A k \in 1..L - 1 : w[k] = Passed(k)
  BY <1>0 DEF IsWay, Follows
<1>4. /\ stack[L].excludes = UNION {w[k].excludes : k \in 1..L - 1}
      /\ ancestors = {w[k].id.module : k \in 1..L - 1}
      /\ stack[L].id = IF L = 1 THEN Root ELSE w[L - 1].id
  <2>1. /\ stack[L].excludes = UNION {Passed(k).excludes : k \in 1..L - 1}
        /\ \A k \in 1..L - 1 : Passed(k).id = stack[k + 1].id
    <3>1. L \in 1..Len(stack)
      BY <1>0, <1>1
    <3> QED
      BY <1>0, <3>1, PassedOnes
  <2>2. UNION {w[k].excludes : k \in 1..L - 1} = UNION {Passed(k).excludes : k \in 1..L - 1}
    BY <1>3
  <2>3. \A k \in 1..L - 1 : w[k].id = stack[k + 1].id
    BY <1>3, <2>1
  <2>4. ancestors = {w[k].id.module : k \in 1..L - 1}
    <3>1. ancestors = {stack[k].id.module : k \in 2..L}
      BY <1>0 DEF AncestorsAreStack
    <3>2. /\ \A k \in 2..L : k - 1 \in 1..L - 1 /\ (k - 1) + 1 = k
          /\ \A k \in 1..L - 1 : k + 1 \in 2..L
      BY <1>1
    <3>3. \A k \in 2..L : stack[k].id.module = w[k - 1].id.module
      BY <2>3, <3>2
    <3> QED
      BY <2>3, <3>1, <3>2, <3>3
  <2>5. stack[L].id = IF L = 1 THEN Root ELSE w[L - 1].id
    <3>1. CASE L = 1
      BY <1>1, <3>1
    <3>2. CASE L # 1
      <4>1. L - 1 \in 1..L - 1 /\ (L - 1) + 1 = L
        BY <1>1, <3>2
      <4> QED
        BY <2>3, <3>2, <4>1
    <3> QED
      BY <3>1, <3>2
  <2> QED
    BY <2>1, <2>2, <2>4, <2>5
<1>5. d.matches /\ d.id.module \notin stack[L].excludes
  <2>1. Link(w, L)'
    BY <1>1, <1>3 DEF IsWay
  <2> QED
    BY <1>3, <1>4, <2>1 DEF Link
<1>6. ~Skip(d)
  BY <1>1, <1>5 DEF Skip, Participates
<1>7. <<stack[L].id, d.id>> \in callers'
  BY <1>1, <1>6 DEF Cyclic, NotFound, Describe, Walks
<1>8. CASE Len(w) = L
  <2>1. Edge(w) = <<stack[L].id, d.id>>
    BY <1>3, <1>4, <1>8 DEF Edge
  <2>2. CASE Cyclic(d)
    <3>1. d.id.module \in {w[k].id.module : k \in 1..L - 1}
      BY <1>4, <2>2 DEF Cyclic
    <3> QED
      BY <1>3, <1>7, <1>8, <2>1, <3>1 DEF Settled
  <2>3. CASE NotFound(d) \/ Describe(d)
    <3>1. d.id \in described' \cup errors'
      BY <2>3 DEF NotFound, Describe
    <3> QED
      BY <1>3, <1>7, <1>8, <2>1, <3>1 DEF Settled
  <2> QED
    BY <1>6, <2>2, <2>3
<1>9. CASE Len(w) # L
  <2>1. Through(w, L)'
    <3>1. L \in 1..Len(w) - 1
      BY <1>1, <1>3, <1>9
    <3> QED
      BY <3>1 DEF IsWay
  <2>2. d.transitive /\ d.id \in described' /\ d.id.module \notin ancestors
    BY <1>3, <1>4, <2>1 DEF Through
  <2>3. ~Cyclic(d) /\ ~(Describe(d) /\ ~d.transitive)
    BY <2>2 DEF Cyclic
  <2>4. ~NotFound(d)
    <3> SUFFICES ASSUME NotFound(d)
                 PROVE  FALSE
      OBVIOUS
    <3>1. d.id \in errors'
      BY DEF NotFound
    <3> QED
      BY <2>2, <3>1
  <2> QED
    BY <1>6, <2>3, <2>4
<1> QED
  BY <1>8, <1>9

LEMMA BehindStep ==
  ASSUME TypeOK, AncestorsAreStack, StackIsWay, BehindSettled, [Next]_vars
  PROVE  BehindSettled'
<1> SUFFICES ASSUME errors' \cap described' = {}, NEW w, IsWay(w)', Behind(w)'
             PROVE  Edge(w) \in callers' /\ Settled(w)'
  BY DEF BehindSettled, Edge
<1>1. CASE Behind(w)
  BY <1>1, BehindBefore
<1>2. stack # <<>> /\ graph' = graph /\ Moved(Advanced)
  BY Grows, AdvancedMoves DEF AncestorsAreStack
<1>3. ASSUME NEW d, Skip(d) \/ Cyclic(d) \/ NotFound(d) \/ (Describe(d) /\ ~d.transitive)
      PROVE  Edge(w) \in callers' /\ Settled(w)'
  <2>1. At(d) /\ stack' = Advanced
    BY <1>3 DEF Skip, Cyclic, NotFound, Describe, Walks
  <2>2. Moved(stack')
    BY <1>2, <2>1
  <2>3. Behind(w) \/ Follows(w, d)
    BY <1>2, <2>1, <2>2, BehindMoved
  <2> QED
    BY <1>1, <1>3, <2>3, FollowsSettled
<1>4. ASSUME NEW d, Describe(d), d.transitive
      PROVE  Edge(w) \in callers' /\ Settled(w)'
  BY <1>1, <1>4, BehindPushed
<1>5. CASE Return
  BY <1>1, <1>5, BehindPopped
<1>6. CASE Still
  <2>1. Behind(w)
    BY <1>6 DEF Still, Behind, Passed
  <2> QED
    BY <1>1, <2>1
<1> QED
  BY <1>3, <1>4, <1>5, <1>6, StepKinds

\* When the walk is over, every way is behind it.
LEMMA OverIsBehind ==
  ASSUME TypeOK, AncestorsAreStack, WalkOver, phase # "walk", NEW w, IsWay(w)
  PROVE  Behind(w)
<1>1. /\ Len(stack) = 1 /\ stack # <<>> /\ stack[1].id = Root /\ Here = stack[1]
      /\ stack[1].next > Len(graph[Root]) /\ stack[1].next \in Nat
      /\ Len(graph[Root]) \in Nat /\ DOMAIN graph[Root] = 1..Len(graph[Root])
  BY StackType DEF WalkOver, AtEnd, AncestorsAreStack
<1>2. Len(w) \in Nat \ {0} /\ Link(w, 1)
  BY DEF IsWay
<1>3. PICK j \in DOMAIN graph[Root] : w[1] = graph[Root][j]
  BY <1>2 DEF Link, Range
<1>4. j < stack[1].next - (IF 1 = Len(stack) THEN 0 ELSE 1)
  BY <1>1
<1>5. 1 <= Len(w) /\ 1 \in 1..Len(stack) /\ \A k \in 1..1 - 1 : w[k] = Passed(k)
  BY <1>1, <1>2
<1> QED
  BY <1>1, <1>3, <1>4, <1>5, BehindBy

-----------------------------------------------------------------------------
(* The theorems                                                            *)

\* IInv with the ways in closed form.
ClosedInv ==
    /\ TypeOK
    /\ AncestorsAreStack
    /\ LatestIsFirst
    /\ VerdictsFollowLatest
    /\ OutcomesReported
    /\ StackIsWay
    /\ CallersAreWays
    /\ BehindSettled
    /\ WalkOver

LEMMA InitEstablishes == Init => ClosedInv
<1> SUFFICES ASSUME Init
             PROVE  ClosedInv
  OBVIOUS
<1> DEFINE f == [id |-> Root, next |-> 1, excludes |-> {}]
<1>1. f \in Frame /\ f.id = Root /\ f.next = 1 /\ f.excludes = {}
  BY DEF Frame
<1>2. /\ graph \in Graph /\ phase = "walk" /\ stack = <<f>>
      /\ ancestors = {} /\ described = {} /\ callers = {} /\ errors = {}
      /\ latest = [m \in Modules |-> None]
      /\ verdict = [id \in Ids |-> "none"] /\ artifacts = {}
  BY GraphsAssumption DEF Init
<1> HIDE DEF f
<1>3. stack \in Seq(Frame) /\ Len(stack) = 1 /\ stack[1] = f /\ stack # <<>>
  BY <1>1, <1>2
<1>4. TypeOK
  BY <1>2, <1>3 DEF TypeOK
<1>5. \A i : i \notin 2..Len(stack)
  BY <1>3
<1>6. AncestorsAreStack
  BY <1>1, <1>2, <1>3, <1>5 DEF AncestorsAreStack
<1>7. LatestIsFirst
  BY <1>2 DEF LatestIsFirst, Found
<1>8. VerdictsFollowLatest
  BY <1>2 DEF VerdictsFollowLatest
<1>9. OutcomesReported
  BY <1>2 DEF OutcomesReported
<1>10. StackIsWay
  BY <1>1, <1>3, <1>5 DEF StackIsWay
<1>11. CallersAreWays
  BY <1>2 DEF CallersAreWays
<1>12. BehindSettled
  <2> SUFFICES ASSUME NEW w, Behind(w)
               PROVE  FALSE
    BY DEF BehindSettled
  <2>1. PICK i \in 1..Len(stack) : \E j \in DOMAIN graph[stack[i].id] :
                  j < stack[i].next - (IF i = Len(stack) THEN 0 ELSE 1)
    BY DEF Behind
  <2>2. i = 1
    BY <1>3
  <2>3. PICK j \in DOMAIN graph[Root] : j < 1
    BY <1>1, <1>3, <2>1, <2>2
  <2>4. graph[Root] \in Seq(Dependency)
    BY <1>2 DEF Graph
  <2> QED
    BY <2>3, <2>4
<1>13. WalkOver
  BY <1>2 DEF WalkOver
<1> QED
  BY <1>4, <1>6, <1>7, <1>8, <1>9, <1>10, <1>11, <1>12, <1>13 DEF ClosedInv

LEMMA StepPreserves == ClosedInv /\ [Next]_vars => ClosedInv'
<1> SUFFICES ASSUME ClosedInv, [Next]_vars
             PROVE  ClosedInv'
  OBVIOUS
<1>1. /\ TypeOK /\ AncestorsAreStack /\ LatestIsFirst /\ VerdictsFollowLatest
      /\ OutcomesReported /\ StackIsWay /\ CallersAreWays /\ BehindSettled /\ WalkOver
      /\ stack # <<>>
  BY DEF ClosedInv, AncestorsAreStack
<1>2. TypeOK'
  BY <1>1, TypeStep
<1>3. AncestorsAreStack'
  BY <1>1, AncestorsStep
<1>4. LatestIsFirst'
  BY <1>1, LatestStep
<1>5. VerdictsFollowLatest'
  BY <1>1, VerdictsStep
<1>6. OutcomesReported'
  BY <1>1, OutcomesStep
<1>7. StackIsWay'
  BY <1>1, WayStep
<1>8. CallersAreWays'
  BY <1>1, CallersStep
<1>9. BehindSettled'
  BY <1>1, BehindStep
<1>10. WalkOver'
  BY <1>1, OverStep
<1> QED
  BY <1>2, <1>3, <1>4, <1>5, <1>6, <1>7, <1>8, <1>9, <1>10 DEF ClosedInv

LEMMA ClosedIs == ClosedInv => IInv
<1> SUFFICES ASSUME ClosedInv
             PROVE  IInv
  OBVIOUS
<1>1. TypeOK
  BY DEF ClosedInv
<1>2. callers \subseteq DeclaredEdges
  <2> SUFFICES ASSUME NEW e \in callers
               PROVE  e \in DeclaredEdges
    OBVIOUS
  <2>1. PICK w : IsWay(w) /\ e = Edge(w)
    BY DEF ClosedInv, CallersAreWays
  <2>2. w \in Seq(Dependency)
    BY <2>1 DEF IsWay
  <2> QED
    BY <1>1, <2>1, <2>2, DeclaredIs
<1>3. BehindReported
  BY <1>1, BehindIs DEF ClosedInv, BehindSettled
<1> QED
  BY <1>2, <1>3 DEF ClosedInv, IInv

LEMMA ClosedInvariant == Spec => []ClosedInv
BY InitEstablishes, StepPreserves, PTL DEF Spec

\* The inductive invariant: the stack is the way the walk has come, every
\* edge of the report ends a declared way, and what is behind the walk is
\* reported (walk_module, ivy_resolve_run and finalize_revision).
THEOREM Invariance == Spec => []IInv
BY ClosedInvariant, ClosedIs, PTL

\* mr->id.revision is one of the revisions found so far, and none of them is
\* later by the order the comment of ivy_compare_revisions gives, whatever
\* the order of the walk, but where that function reads a revision otherwise.
THEOREM LatestWins == Spec => []LatestIsGreatest
<1>1. ClosedInv => LatestIsGreatest
  <2> SUFFICES ASSUME ClosedInv, NEW m \in Modules
               PROVE  /\ Found(m) = {} => latest[m] = None
                      /\ Found(m) # {} => latest[m] \in Found(m)
                      /\ \A r \in Found(m) : \A i \in 1..Len(r.tokens) + 1 :
                            LaterBy(r, latest[m], i) => ReadOtherwise(r, latest[m], i)
    BY DEF LatestIsGreatest
  <2>1. LatestIsFirst /\ TypeOK
    BY DEF ClosedInv
  <2>2. CASE Found(m) = {}
    BY <2>1, <2>2 DEF LatestIsFirst
  <2>3. CASE Found(m) # {}
    <3>1. latest[m] \in Found(m) /\ \A r \in Found(m) : CompareRevisions(r, latest[m]) <= 0
      BY <2>1, <2>3 DEF LatestIsFirst
    <3>2. Found(m) \subseteq Revision
      <4>1. Found(m) = FoundIn(described, m)
        BY DEF Found, FoundIn
      <4> QED
        BY <2>1, <4>1, FoundType DEF TypeOK
    <3> QED
      BY <3>1, <3>2, NoneLater
  <2> QED
    BY <2>2, <2>3
<1> QED
  BY <1>1, ClosedInvariant, PTL

\* The report of a resolution that is over has the edges the graph declares
\* and no others, unless a descriptor was found at one time and not at
\* another.
THEOREM ReportComplete == Spec => []ReportIsDeclared
<1>1. ClosedInv => ReportIsDeclared
  <2> SUFFICES ASSUME ClosedInv, phase = "done"
               PROVE  /\ callers \subseteq DeclaredEdges
                      /\ errors \cap described = {} => callers = DeclaredEdges
    BY DEF ReportIsDeclared
  <2>1. callers \subseteq DeclaredEdges
    BY ClosedIs DEF IInv
  <2>2. ASSUME errors \cap described = {}, NEW w, IsWay(w)
        PROVE  Edge(w) \in callers
    <3>1. Behind(w)
      BY <2>2, OverIsBehind DEF ClosedInv
    <3> QED
      BY <2>2, <3>1 DEF ClosedInv, BehindSettled
  <2>3. errors \cap described = {} => DeclaredEdges \subseteq callers
    BY <2>2, DeclaredIs DEF ClosedInv
  <2> QED
    BY <2>1, <2>3
<1> QED
  BY <1>1, ClosedInvariant, PTL

=============================================================================
