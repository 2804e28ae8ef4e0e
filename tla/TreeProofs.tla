--------------------------- MODULE TreeProofs ---------------------------
(*****************************************************************************)
(* Type correctness of the B+Tree, for any number of writers and any pages   *)
(* between two of their steps.                                               *)
(*                                                                           *)
(* The data comes first: iteration, weights, sequences, and what setting a   *)
(* key and splitting do to a node.  The invariant TypeInv adds to TypeOK     *)
(* the shape of every saved node and, per program counter, the shape of the  *)
(* locals of a writer; every action is then a lemma about values (Writer...) *)
(* and one about the state (...Type).                                        *)
(*****************************************************************************)
EXTENDS BPlusTree, FiniteSetTheorems, SequenceTheorems, WellFoundedInduction, TLAPS

-----------------------------------------------------------------------------
(* Iteration, weights, sequences, nodes.                                   *)

\* A set of natural numbers that is not empty has a least element.
LEMMA LeastNat ==
  ASSUME NEW T, T \subseteq Nat, T # {}
  PROVE  \E x \in T : \A y \in T : x <= y
  <1> DEFINE R == {ss \in Nat \X Nat : ss[1] < ss[2]}
  <1>1. IsWellFoundedOn(R, Nat)
    BY NatLessThanWellFounded DEF OpToRel
  <1> HIDE DEF R
  <1>2. PICK x \in T : \A y \in T : ~ (<<y, x>> \in R)
    BY <1>1, WFMin
  <1>3. ASSUME NEW y \in T, y < x PROVE FALSE
    <2>1. x \in Nat /\ y \in Nat /\ <<y, x>> \in Nat \X Nat
      OBVIOUS
    <2>2. <<y, x>> \in R
      BY <2>1, <1>3 DEF R
    <2>3. QED BY <2>2, <1>2
  <1>4. QED BY <1>3

\* What holds at 0 and is handed on from one number to the next holds up to n.
LEMMA UpTo ==
  ASSUME NEW n \in Nat, NEW T, 0 \in T, \A m \in 1..n : m - 1 \in T => m \in T
  PROVE  \A m \in 0..n : m \in T
  <1> DEFINE U == {m \in 0..n : m \notin T}
  <1> SUFFICES U = {}
    OBVIOUS
  <1>1. U \subseteq Nat
    OBVIOUS
  <1>2. ASSUME NEW m \in U PROVE m # 0 /\ m - 1 \in U
    OBVIOUS
  <1> HIDE DEF U
  <1>3. ASSUME U # {} PROVE FALSE
    <2>1. PICK m \in U : \A y \in U : m <= y
      BY <1>1, <1>3, LeastNat
    <2>2. QED BY <2>1, <1>1, <1>2
  <1>4. QED BY <1>3

\* The same, at n itself.
LEMMA UpToEnd ==
  ASSUME NEW n \in Nat, NEW T, 0 \in T, \A m \in 1..n : m - 1 \in T => m \in T
  PROVE  n \in T
  <1>1. \A m \in 0..n : m \in T
    BY UpTo
  <1>2. QED BY <1>1

\* it lists x, f[x], f[f[x]], ... up to the n-th application, and Iterate finds its last value.
Walk(it, f, x, n) == it[0] = x /\ (\A i \in 1..n : it[i] = f[it[i - 1]]) /\ Iterate(f, x, n) = it[n]

\* The recursive function that Iterate chooses exists.
LEMMA IterateDef ==
  ASSUME NEW S, NEW f \in [S -> S], NEW x \in S, NEW n \in Nat
  PROVE  \E it \in [0..n -> S] : Walk(it, f, x, n)
  <1> DEFINE G(g, m) == g[0] = x /\ \A i \in 1..m : g[i] = f[g[i - 1]]
             T == {m \in 0..n : \E g \in [0..m -> S] : G(g, m)}
  <1>1. \A m \in 0..n : m \in T
    <2>1. 0 \in T
      <3> DEFINE z == [i \in 0..0 |-> x]
      <3>1. z \in [0..0 -> S] /\ z[0] = x
        OBVIOUS
      <3> HIDE DEF z
      <3>2. QED BY <3>1
    <2>2. ASSUME NEW m \in 1..n, m - 1 \in T PROVE m \in T
      <3>1. PICK g \in [0..m - 1 -> S] : G(g, m - 1)
        BY <2>2
      <3> DEFINE h == [i \in 0..m |-> IF i = m THEN f[g[m - 1]] ELSE g[i]]
      <3>2. h \in [0..m -> S]
        OBVIOUS
      <3>3. h[0] = x /\ \A i \in 1..m : h[i] = f[h[i - 1]]
        BY <3>1
      <3> HIDE DEF h
      <3>4. QED BY <3>2, <3>3
    <2> HIDE DEF T
    <2>3. QED BY <2>1, <2>2, UpTo
  <1>2. PICK g \in [0..n -> S] : G(g, n)
    <2>1. n \in T
      BY <1>1
    <2> QED BY <2>1
  <1> DEFINE E(h) == [i \in 0..n |-> IF i = 0 THEN x ELSE f[h[i - 1]]]
             it == CHOOSE h : h = E(h)
  <1>3. g = E(g)
    <2>1. \A i \in 0..n : g[i] = E(g)[i]
      BY <1>2
    <2>2. QED BY <2>1
  <1>4. it = E(it)
    BY <1>3
  <1>5. Iterate(f, x, n) = it[n]
    BY DEF Iterate
  <1> HIDE DEF it
  <1>6. DOMAIN it = 0..n /\ it[0] = x /\ \A i \in 1..n : it[i] = f[it[i - 1]]
    BY <1>4
  <1>7. \A i \in 0..n : it[i] \in S
    <2> DEFINE U == {i \in 0..n : it[i] \in S}
    <2>1. 0 \in U /\ \A m \in 1..n : m - 1 \in U => m \in U
      BY <1>6
    <2> HIDE DEF U
    <2>2. \A m \in 0..n : m \in U
      BY <2>1, UpTo
    <2>3. QED BY <2>2 DEF U
  <1>8. it \in [0..n -> S]
    <2>1. it = [i \in 0..n |-> it[i]]
      BY <1>4
    <2>2. QED BY <2>1, <1>7
  <1>9. Walk(it, f, x, n)
    BY <1>5, <1>6 DEF Walk
  <1>10. QED BY <1>8, <1>9

\* The recursive function that Weight chooses exists.
LEMMA SumDef ==
  ASSUME NEW n \in Nat, NEW v, \A i \in 1..n : v[i].w \in Nat
  PROVE  \E sum \in [0..n -> Nat] :
           /\ sum[0] = 0 /\ \A i \in 1..n : sum[i] = sum[i - 1] + v[i].w
           /\ sum = CHOOSE h : h = [i \in 0..n |-> IF i = 0 THEN 0 ELSE h[i - 1] + v[i].w]
  <1> DEFINE G(g, m) == g[0] = 0 /\ \A i \in 1..m : g[i] = g[i - 1] + v[i].w
             T == {m \in 0..n : \E g \in [0..m -> Nat] : G(g, m)}
  <1>1. \A m \in 0..n : m \in T
    <2>1. 0 \in T
      <3> DEFINE z == [i \in 0..0 |-> 0]
      <3>1. z \in [0..0 -> Nat] /\ z[0] = 0
        OBVIOUS
      <3> HIDE DEF z
      <3>2. QED BY <3>1
    <2>2. ASSUME NEW m \in 1..n, m - 1 \in T PROVE m \in T
      <3>1. PICK g \in [0..m - 1 -> Nat] : G(g, m - 1)
        BY <2>2
      <3> DEFINE h == [i \in 0..m |-> IF i = m THEN g[m - 1] + v[m].w ELSE g[i]]
      <3>2. h \in [0..m -> Nat]
        OBVIOUS
      <3>3. h[0] = 0 /\ \A i \in 1..m : h[i] = h[i - 1] + v[i].w
        BY <3>1
      <3> HIDE DEF h
      <3>4. G(h, m)
        BY <3>3
      <3> HIDE DEF G
      <3>5. m \in 0..n
        OBVIOUS
      <3>6. QED BY <3>2, <3>4, <3>5
    <2> HIDE DEF T
    <2>3. QED BY <2>1, <2>2, UpTo
  <1>2. PICK g \in [0..n -> Nat] : G(g, n)
    <2>1. n \in T
      <3> HIDE DEF T
      <3> QED BY <1>1
    <2> QED BY <2>1
  <1> DEFINE E(h) == [i \in 0..n |-> IF i = 0 THEN 0 ELSE h[i - 1] + v[i].w]
             it == CHOOSE h : h = E(h)
  <1>3. g = E(g)
    <2>1. \A i \in 0..n : g[i] = E(g)[i]
      BY <1>2
    <2>2. QED BY <2>1
  <1>4. it = E(it)
    BY <1>3
  <1>5. it = CHOOSE h : h = [i \in 0..n |-> IF i = 0 THEN 0 ELSE h[i - 1] + v[i].w]
    OBVIOUS
  <1> HIDE DEF it
  <1>6. DOMAIN it = 0..n /\ it[0] = 0 /\ \A i \in 1..n : it[i] = it[i - 1] + v[i].w
    <2>1. \A i \in 0..n : it[i] = IF i = 0 THEN 0 ELSE it[i - 1] + v[i].w
      BY <1>4
    <2>2. DOMAIN it = 0..n
      BY <1>4
    <2> QED BY <2>1, <2>2
  <1>7. \A i \in 0..n : it[i] \in Nat
    <2> DEFINE U == {i \in 0..n : it[i] \in Nat}
    <2>1. 0 \in U
      BY <1>6
    <2>2. ASSUME NEW m \in 1..n, m - 1 \in U PROVE m \in U
      <3>1. it[m] = it[m - 1] + v[m].w /\ it[m - 1] \in Nat /\ v[m].w \in Nat
        BY <2>2, <1>6
      <3>2. QED BY <3>1
    <2> HIDE DEF U
    <2>3. \A m \in 0..n : m \in U
      BY <2>1, <2>2, UpTo
    <2>4. QED BY <2>3 DEF U
  <1>8. it \in [0..n -> Nat]
    <2>1. it = [i \in 0..n |-> it[i]]
      BY <1>4
    <2>2. QED BY <2>1, <1>7
  <1>9. QED BY <1>5, <1>6, <1>8

\* The values of a sequence have weights.
LEMMA ValueWeight ==
  ASSUME NEW s \in Seq(Value)
  PROVE  Len(s) \in Nat /\ \A i \in 1..Len(s) : s[i] \in Value /\ s[i].w \in Nat
  <1>1. Len(s) \in Nat /\ \A i \in 1..Len(s) : s[i] \in Value
    OBVIOUS
  <1>2. \A v \in Value : v.w \in Nat
    BY KeyAssumption DEF Value
  <1>3. QED BY <1>1, <1>2

\* Weight is the last of the partial sums.
LEMMA WeightDef ==
  ASSUME NEW s \in Seq(Value)
  PROVE  \E sum \in [0..Len(s) -> Nat] :
           /\ sum[0] = 0 /\ \A i \in 1..Len(s) : sum[i] = sum[i - 1] + s[i].w
           /\ Weight(s) = sum[Len(s)]
  <1>1. PICK n : n = Len(s)
    OBVIOUS
  <1>2. n \in Nat /\ \A i \in 1..n : s[i].w \in Nat
    BY <1>1, ValueWeight
  <1>3. PICK sum \in [0..n -> Nat] :
           /\ sum[0] = 0 /\ \A i \in 1..n : sum[i] = sum[i - 1] + s[i].w
           /\ sum = CHOOSE h : h = [i \in 0..n |-> IF i = 0 THEN 0 ELSE h[i - 1] + s[i].w]
    BY <1>2, SumDef
  <1>4. Weight(s) = sum[n]
    BY <1>1, <1>3 DEF Weight
  <1>5. QED BY <1>1, <1>3, <1>4

\* What belonging to Seq(S) means.
LEMMA SeqDomain ==
  ASSUME NEW S, NEW s \in Seq(S)
  PROVE  Len(s) \in Nat /\ DOMAIN s = 1..Len(s) /\ \A i \in 1..Len(s) : s[i] \in S
  OBVIOUS

\* A part of a sequence.
LEMMA SubSeqFacts ==
  ASSUME NEW S, NEW s \in Seq(S), NEW a \in 1..Len(s) + 1, NEW b \in 0..Len(s), a <= b + 1
  PROVE  /\ SubSeq(s, a, b) \in Seq(S) /\ Len(SubSeq(s, a, b)) = b - a + 1
         /\ \A i \in 1..b - a + 1 : SubSeq(s, a, b)[i] = s[a + i - 1]
  <1>1. \A i \in a..b : s[i] \in S
    OBVIOUS
  <1>2. SubSeq(s, a, b) \in Seq(S)
    BY <1>1, SubSeqProperties
  <1>3. Len(SubSeq(s, a, b)) = b - a + 1 /\ \A i \in 1..b - a + 1 : SubSeq(s, a, b)[i] = s[a + i - 1]
    OBVIOUS
  <1>4. QED BY <1>2, <1>3

\* A sequence with one element more.
LEMMA InsertAtFacts ==
  ASSUME NEW S, NEW s \in Seq(S), NEW i \in 1..Len(s) + 1, NEW e \in S
  PROVE  /\ InsertAt(s, i, e) \in Seq(S) /\ Len(InsertAt(s, i, e)) = Len(s) + 1
         /\ \A j \in 1..Len(s) + 1 :
              InsertAt(s, i, e)[j] = IF j < i THEN s[j] ELSE IF j = i THEN e ELSE s[j - 1]
  <1> DEFINE l == SubSeq(s, 1, i - 1)  r == SubSeq(s, i, Len(s))  m == <<e>>
  <1>1. l \in Seq(S) /\ Len(l) = i - 1 /\ \A j \in 1..i - 1 : l[j] = s[j]
    <2>1. 1 \in 1..Len(s) + 1 /\ i - 1 \in 0..Len(s) /\ 1 <= i - 1 + 1 /\ i - 1 - 1 + 1 = i - 1
      OBVIOUS
    <2>2. QED BY <2>1, SubSeqFacts
  <1>2. r \in Seq(S) /\ Len(r) = Len(s) - i + 1 /\ \A j \in 1..Len(s) - i + 1 : r[j] = s[i + j - 1]
    <2>1. Len(s) \in 0..Len(s) /\ i <= Len(s) + 1
      OBVIOUS
    <2>2. QED BY <2>1, SubSeqFacts
  <1>3. m \in Seq(S) /\ Len(m) = 1 /\ m[1] = e
    OBVIOUS
  <1>4. InsertAt(s, i, e) = (l \o m) \o r
    BY DEF InsertAt
  <1>05. PICK n \in Nat : n = Len(s)
    OBVIOUS
  <1> HIDE DEF l, r, m
  <1>5. /\ l \o m \in Seq(S) /\ Len(l \o m) = Len(l) + Len(m)
        /\ \A j \in 1..Len(l) + Len(m) : (l \o m)[j] = IF j <= Len(l) THEN l[j] ELSE m[j - Len(l)]
    BY <1>1, <1>3, ConcatProperties
  <1>6. PICK lm : lm = l \o m
    OBVIOUS
  <1>06. i \in 1..n + 1 /\ i \in Int /\ Len(l) + Len(m) = i /\ Len(l) = i - 1
    BY <1>05, <1>1, <1>3
  <1>07. lm \in Seq(S) /\ Len(lm) = i /\ \A j \in 1..i : lm[j] = IF j < i THEN s[j] ELSE e
    <2>1. ASSUME NEW j \in 1..i PROVE lm[j] = IF j < i THEN s[j] ELSE e
      <3>1. CASE j < i
        BY <3>1, <1>5, <1>6, <1>1, <1>06
      <3>2. CASE j = i
        <4>1. ~(j <= Len(l)) /\ j - Len(l) = 1 /\ j \in 1..Len(l) + Len(m)
          BY <3>2, <1>06
        <4>2. lm[j] = m[1]
          BY <4>1, <1>5, <1>6
        <4>3. QED BY <4>2, <1>3, <3>2
      <3>3. QED BY <3>1, <3>2, <1>06
    <2>2. QED BY <2>1, <1>5, <1>6, <1>06
  <1>7. /\ lm \o r \in Seq(S) /\ Len(lm \o r) = i + Len(r)
        /\ \A j \in 1..i + Len(r) : (lm \o r)[j] = IF j <= i THEN lm[j] ELSE r[j - i]
    BY <1>2, <1>07, ConcatProperties
  <1>08. i + Len(r) = n + 1
    BY <1>2, <1>05, <1>06
  <1>8. ASSUME NEW j \in 1..n + 1
        PROVE  (lm \o r)[j] = IF j < i THEN s[j] ELSE IF j = i THEN e ELSE s[j - 1]
    <2>1. (lm \o r)[j] = IF j <= i THEN lm[j] ELSE r[j - i]
      BY <1>7, <1>08
    <2>2. CASE j < i
      BY <2>1, <2>2, <1>07, <1>06, SMTT(30)
    <2>3. CASE j = i
      BY <2>1, <2>3, <1>07, <1>06
    <2>4. CASE j > i
      <3>1. j - i \in 1..Len(s) - i + 1 /\ i + (j - i) - 1 = j - 1
        BY <2>4, <1>05, <1>06
      <3>2. r[j - i] = s[j - 1]
        BY <3>1, <1>2
      <3>3. ~(j <= i) /\ ~(j < i) /\ j # i
        BY <2>4, <1>06
      <3>4. QED BY <2>1, <3>3, <3>2
    <2>5. j \in Int
      BY <1>05
    <2>6. j < i \/ j = i \/ j > i
      BY <2>5, <1>06
    <2>7. QED BY <2>2, <2>3, <2>4, <2>6
  <1>9. QED BY <1>4, <1>6, <1>7, <1>8, <1>05, <1>08

\* No values weigh nothing.
LEMMA WeightEmpty == Weight(<<>>) = 0
  <1>1. <<>> \in Seq(Value) /\ Len(<<>>) = 0
    OBVIOUS
  <1>2. QED BY <1>1, WeightDef

\* A weight is a natural number.
LEMMA WeightNat ==
  ASSUME NEW s \in Seq(Value)
  PROVE  Weight(s) \in Nat
  <1>1. Len(s) \in 0..Len(s)
    OBVIOUS
  <1>2. QED BY <1>1, WeightDef

\* A value put into a sequence adds its weight.
LEMMA WeightInsert ==
  ASSUME NEW s \in Seq(Value), NEW i \in 1..Len(s) + 1, NEW e \in Value
  PROVE  Weight(InsertAt(s, i, e)) = Weight(s) + e.w
  <1>1. PICK t : t = InsertAt(s, i, e)
    OBVIOUS
  <1>2. PICK n \in Nat : n = Len(s)
    OBVIOUS
  <1>3. /\ t \in Seq(Value) /\ Len(t) = n + 1
        /\ \A j \in 1..n + 1 : t[j] = IF j < i THEN s[j] ELSE IF j = i THEN e ELSE s[j - 1]
    BY <1>1, <1>2, InsertAtFacts, SMTT(30)
  <1>4. PICK P \in [0..n -> Nat] :
           P[0] = 0 /\ (\A j \in 1..n : P[j] = P[j - 1] + s[j].w) /\ Weight(s) = P[n]
    BY <1>2, WeightDef
  <1>5. PICK Q \in [0..n + 1 -> Nat] :
           Q[0] = 0 /\ (\A j \in 1..n + 1 : Q[j] = Q[j - 1] + t[j].w) /\ Weight(t) = Q[n + 1]
    BY <1>3, WeightDef
  <1>6. PICK x \in Nat : x = e.w
    BY KeyAssumption DEF Value
  <1>7. i \in 1..n + 1 /\ n + 1 \in Nat
    BY <1>2
  <1> DEFINE T == {m \in 0..n + 1 : Q[m] = IF m < i THEN P[m] ELSE P[m - 1] + x}
  <1>8. 0 \in T
    BY <1>4, <1>5, <1>7
  <1>9. ASSUME NEW m \in 1..n + 1, m - 1 \in T PROVE m \in T
    <2>1. Q[m] = Q[m - 1] + t[m].w
      BY <1>5
    <2>2. CASE m < i
      <3>1. Q[m - 1] = P[m - 1] /\ t[m] = s[m] /\ m \in 1..n
        BY <1>9, <2>2, <1>3, <1>7
      <3>2. P[m] = P[m - 1] + s[m].w
        BY <3>1, <1>4
      <3>3. QED BY <2>1, <2>2, <3>1, <3>2
    <2>3. CASE m = i
      <3>1. Q[m - 1] = P[m - 1] /\ t[m] = e
        BY <1>9, <2>3, <1>3, <1>7
      <3>2. QED BY <2>1, <2>3, <3>1, <1>6
    <2>4. CASE m > i
      <3>0. PICK k \in 1..n : k = m - 1
        BY <2>4, <1>7
      <3>a. k \in T /\ ~(k < i) /\ ~(m < i) /\ m # i
        BY <1>9, <2>4, <1>7, <3>0
      <3>b. Q[k] = P[k - 1] + x
        BY <3>a
      <3>c. t[m] = s[m - 1]
        BY <3>a, <1>3
      <3>1. Q[k] = P[k - 1] + x /\ t[m] = s[k]
        BY <3>b, <3>c, <3>0
      <3>2. P[k] = P[k - 1] + s[k].w
        BY <1>4
      <3>3. s[k].w \in Nat /\ P[k - 1] \in Nat
        BY <1>2, ValueWeight, SMTT(30)
      <3>4. Q[m] = P[k] + x
        <4>1. PICK a, b \in Nat : a = P[k - 1] /\ b = s[k].w
          BY <3>3
        <4>2. Q[m] = (a + x) + b
          BY <2>1, <3>0, <3>1, <4>1
        <4>3. P[k] = a + b
          BY <3>2, <4>1
        <4>4. (a + x) + b = (a + b) + x
          OBVIOUS
        <4>5. Q[m] = (a + b) + x
          BY <4>2, <4>4
        <4>6. QED BY <4>3, <4>5
      <3>5. QED BY <3>0, <3>4, <2>4
    <2>5. QED BY <2>2, <2>3, <2>4, <1>7
  <1> HIDE DEF T
  <1>10. n + 1 \in T
    BY <1>8, <1>9, <1>7, UpToEnd
  <1>11. Q[n + 1] = P[n] + x
    BY <1>10, <1>7 DEF T
  <1>12. QED BY <1>1, <1>4, <1>5, <1>6, <1>11

\* A value that replaces another adds at most its weight.
LEMMA WeightReplace ==
  ASSUME NEW s \in Seq(Value), NEW i \in 1..Len(s), NEW e \in Value
  PROVE  Weight(ReplaceAt(s, i, e)) <= Weight(s) + e.w
  <1>1. PICK t : t = ReplaceAt(s, i, e)
    OBVIOUS
  <1>2. PICK n \in Nat : n = Len(s)
    OBVIOUS
  <1>3. t \in Seq(Value) /\ Len(t) = n /\ \A j \in 1..n : t[j] = IF j = i THEN e ELSE s[j]
    BY <1>1, <1>2 DEF ReplaceAt
  <1>4. PICK P \in [0..n -> Nat] :
           P[0] = 0 /\ (\A j \in 1..n : P[j] = P[j - 1] + s[j].w) /\ Weight(s) = P[n]
    BY <1>2, WeightDef
  <1>5. PICK Q \in [0..n -> Nat] :
           Q[0] = 0 /\ (\A j \in 1..n : Q[j] = Q[j - 1] + t[j].w) /\ Weight(t) = Q[n]
    BY <1>3, WeightDef
  <1>6. PICK x \in Nat : x = e.w
    BY KeyAssumption DEF Value
  <1>7. i \in 1..n
    BY <1>2
  <1> DEFINE T == {m \in 0..n : Q[m] <= P[m] + (IF m < i THEN 0 ELSE x)}
  <1>8. 0 \in T
    BY <1>4, <1>5, <1>7
  <1>9. ASSUME NEW m \in 1..n, m - 1 \in T PROVE m \in T
    <2>1. Q[m] = Q[m - 1] + t[m].w /\ P[m] = P[m - 1] + s[m].w
      BY <1>5, <1>4
    <2>2. PICK y \in Nat : y = s[m].w
      BY <1>2, ValueWeight
    <2>3. Q[m - 1] \in Nat /\ P[m - 1] \in Nat /\ Q[m - 1] <= P[m - 1] + (IF m - 1 < i THEN 0 ELSE x)
      BY <1>9
    <2>4. CASE m = i
      <3>1. t[m] = e
        BY <2>4, <1>3
      <3>2. PICK a, b \in Nat : a = Q[m - 1] /\ b = P[m - 1]
        BY <2>3
      <3>3. Q[m] = a + x /\ P[m] = b + y /\ a <= b
        BY <2>1, <2>2, <2>3, <2>4, <3>1, <3>2, <1>6, <1>7
      <3>4. Q[m] <= P[m] + x
        BY <3>3
      <3>5. QED BY <3>4, <2>4, <1>7
    <2>5. CASE m # i
      <3>1. t[m] = s[m]
        BY <2>5, <1>3
      <3>2. PICK a, b \in Nat : a = Q[m - 1] /\ b = P[m - 1]
        BY <2>3
      <3>3. Q[m] = a + y /\ P[m] = b + y
        BY <2>1, <2>2, <3>1, <3>2
      <3>4. (m - 1 < i) = (m < i)
        BY <2>5, <1>7
      <3>5. a <= b + (IF m < i THEN 0 ELSE x)
        BY <2>3, <3>2, <3>4
      <3>6. Q[m] <= P[m] + (IF m < i THEN 0 ELSE x)
        BY <3>3, <3>5
      <3>7. QED BY <3>6
    <2>6. QED BY <2>4, <2>5
  <1> HIDE DEF T
  <1>10. n \in T
    BY <1>8, <1>9, UpToEnd
  <1>11. Q[n] <= P[n] + x
    BY <1>10, <1>7 DEF T
  <1>12. QED BY <1>1, <1>4, <1>5, <1>6, <1>11

\* The two parts of a sequence of values weigh as much as the whole.
LEMMA WeightSplit ==
  ASSUME NEW s \in Seq(Value), NEW m \in 1..Len(s) + 1
  PROVE  Weight(SubSeq(s, 1, m - 1)) + Weight(SubSeq(s, m, Len(s))) = Weight(s)
  <1>1. PICK n \in Nat : n = Len(s)
    OBVIOUS
  <1>2. PICK l, r : l = SubSeq(s, 1, m - 1) /\ r = SubSeq(s, m, n)
    OBVIOUS
  <1>3. m \in 1..n + 1 /\ m \in Int
    BY <1>1
  <1>4. l \in Seq(Value) /\ Len(l) = m - 1 /\ \A j \in 1..m - 1 : l[j] = s[j]
    <2>1. m - 1 \in 0..Len(s) /\ 1 \in 1..Len(s) + 1 /\ 1 <= m - 1 + 1 /\ (m - 1) - 1 + 1 = m - 1
      BY <1>1, <1>3
    <2>2. QED BY <2>1, <1>2, SubSeqFacts
  <1>5. r \in Seq(Value) /\ Len(r) = n - m + 1 /\ \A j \in 1..n - m + 1 : r[j] = s[m + j - 1]
    <2>1. n \in 0..Len(s) /\ m \in 1..Len(s) + 1 /\ m <= n + 1
      BY <1>1, <1>3
    <2>2. QED BY <2>1, <1>2, SubSeqFacts
  <1>6. PICK P \in [0..n -> Nat] :
           P[0] = 0 /\ (\A j \in 1..n : P[j] = P[j - 1] + s[j].w) /\ Weight(s) = P[n]
    BY <1>1, WeightDef
  <1>7. PICK A \in [0..m - 1 -> Nat] :
           A[0] = 0 /\ (\A j \in 1..m - 1 : A[j] = A[j - 1] + l[j].w) /\ Weight(l) = A[m - 1]
    BY <1>4, WeightDef
  <1>8. PICK B \in [0..n - m + 1 -> Nat] :
           B[0] = 0 /\ (\A j \in 1..n - m + 1 : B[j] = B[j - 1] + r[j].w) /\ Weight(r) = B[n - m + 1]
    BY <1>5, WeightDef
  <1>9. A[m - 1] = P[m - 1]
    <2> DEFINE T == {j \in 0..m - 1 : A[j] = P[j]}
    <2>1. 0 \in T
      BY <1>6, <1>7, <1>3
    <2>2. ASSUME NEW j \in 1..m - 1, j - 1 \in T PROVE j \in T
      <3>1. j \in 1..n /\ A[j - 1] = P[j - 1]
        BY <2>2, <1>3
      <3>2. A[j] = A[j - 1] + s[j].w /\ P[j] = P[j - 1] + s[j].w
        BY <3>1, <1>4, <1>6, <1>7
      <3>3. QED BY <3>1, <3>2
    <2>3. PICK b \in Nat : b = m - 1
      BY <1>3
    <2> HIDE DEF T
    <2>4. m - 1 \in T
      BY <2>1, <2>2, <2>3, UpToEnd
    <2>5. QED BY <2>4 DEF T
  <1>10. PICK k \in Nat : k = n - m + 1
    BY <1>3
  <1>11. P[m - 1] + B[k] = P[n]
    <2> DEFINE T == {j \in 0..k : P[m - 1] + B[j] = P[m - 1 + j]}
    <2>1. 0 \in T
      BY <1>6, <1>8, <1>3, <1>10
    <2>2. ASSUME NEW j \in 1..k, j - 1 \in T PROVE j \in T
      <3>1. PICK q \in 1..n : q = m - 1 + j
        BY <2>2, <1>3, <1>10
      <3>2. m - 1 + (j - 1) = q - 1 /\ m + j - 1 = q
        BY <3>1, <1>3, <1>10
      <3>3. P[m - 1] + B[j - 1] = P[q - 1]
        BY <2>2, <3>2
      <3>4. B[j] = B[j - 1] + s[q].w
        BY <3>2, <1>5, <1>8, <1>10
      <3>5. P[q] = P[q - 1] + s[q].w
        BY <1>6
      <3>6. s[q].w \in Nat
        BY <1>1, ValueWeight
      <3>7. P[m - 1] \in Nat /\ B[j - 1] \in Nat
        BY <1>3, <1>10
      <3>8. P[m - 1] + B[j] = P[q]
        <4>1. PICK u, v, x \in Nat : u = P[m - 1] /\ v = B[j - 1] /\ x = s[q].w
          BY <3>6, <3>7
        <4>2. P[q - 1] = u + v /\ B[j] = v + x
          BY <4>1, <3>3, <3>4
        <4>3. P[q] = (u + v) + x
          BY <4>1, <4>2, <3>5
        <4>4. (u + v) + x = u + (v + x)
          OBVIOUS
        <4>5. QED BY <4>1, <4>2, <4>3, <4>4
      <3>9. QED BY <3>8, <3>1
    <2> HIDE DEF T
    <2>3. k \in T
      BY <2>1, <2>2, UpToEnd
    <2>4. m - 1 + k = n
      BY <1>3, <1>10
    <2>5. QED BY <2>3, <2>4 DEF T
  <1>12. QED BY <1>1, <1>2, <1>6, <1>7, <1>8, <1>9, <1>10, <1>11

-----------------------------------------------------------------------------

\* The pages there are.
D == DOMAIN pages

\* A leaf has as many values as keys and no children; an internal node has no values, no
\* next leaf and one child more than keys, unless it is a page of zeros.
Shaped(node) ==
  IF node.leaf THEN node.children = <<>> /\ Len(node.values) = Len(node.keys)
  ELSE /\ node.values = <<>> /\ node.next = NoPage
       /\ Len(node.children) = Len(node.keys) + 1 \/ node = Blank

\* The pages a node names exist.
Closed(node, S) ==
  /\ node \in Node
  /\ \A i \in DOMAIN node.children : node.children[i] \in S
  /\ node.next \in S \cup {NoPage}

\* What every saved node is...
Sound(node, S) == Closed(node, S) /\ Shaped(node)

\* ... and the parent in memory while split_child has given it the key but not the child.
Open(node, S) ==
  /\ Closed(node, S)
  /\ ~node.leaf /\ node.values = <<>> /\ node.next = NoPage
  /\ Len(node.children) = Len(node.keys)

\* Between the two insertions into the parent.
Parting == {"splitAlloc", "splitBlank", "saveNew"}

\* The writer holds a path.
Walking == Parting \cup {"split", "saveChild", "saveRoot", "enter", "visit", "unwind"}

\* The last node of a path.
TopOf(p) == p[Len(p)].node

\* What the program counter c says of the locals of a writer: S are the pages, n their number.
WriterInv(c, o, p, i, g, kd, sb, S, n) ==
  /\ p \in Seq(Frame) /\ Sound(kd, S) /\ Sound(sb, S)
  /\ \A j \in DOMAIN p :
       p[j].id \in S /\ IF c \in Parting /\ j = Len(p) THEN Open(p[j].node, S) ELSE Sound(p[j].node, S)
  /\ c # "idle" => o \in [key : Keys, val : Value]
  /\ c \in Walking => p # <<>>
  /\ c \in Parting \cup {"split"} => ~TopOf(p).leaf /\ i \in 1..Len(TopOf(p).children)
  /\ c \in {"saveChild", "enter"} => ~TopOf(p).leaf /\ i \in 1..Len(TopOf(p).keys)
  /\ g <= n
  /\ c \in {"growSave", "saveNew"} => g < n

\* The same of writer w.
WriterOK(w) == WriterInv(pc[w], op[w], path[w], idx[w], page[w], kid[w], sib[w], D, num_pages)

\* Every page is a sound node that fits.
PagesOK ==
  /\ pages \in [D -> Node] /\ D = 0..num_pages - 1 /\ num_pages \in Nat /\ Root \in D
  /\ \A p \in D : Sound(pages[p], D) /\ Fits(pages[p])

\* The program counters.
Labels == {"idle", "start", "growAlloc", "growBlank", "growSave", "panicked", "reread"} \cup Walking

\* The types of the variables of the writers.
VarsOK ==
  /\ pc \in [Writers -> Labels]
  /\ op \in [Writers -> [key : Keys, val : Value] \cup {NoOp}]
  /\ growing \in [Writers -> BOOLEAN] /\ path \in [Writers -> Seq(Frame)]
  /\ idx \in [Writers -> Nat] /\ page \in [Writers -> Nat]
  /\ kid \in [Writers -> Node] /\ sib \in [Writers -> Node]
  /\ acked \in [Keys -> Value \cup {NoValue}]

\* The writers inside an insert.
Busy == {w \in Writers : pc[w] # "idle"}

\* Every error and every insert under way was counted as an insert.
CountOK ==
  /\ IsFiniteSet(Busy) /\ errors \in Nat /\ inserts \in 0..MaxInserts
  /\ errors + Cardinality(Busy) <= inserts

\* All of that of all writers.
WritersOK == VarsOK /\ \A v \in Writers : WriterOK(v)

\* The inductive invariant of TypeOK.
TypeInv == WritersOK /\ PagesOK /\ CountOK

-----------------------------------------------------------------------------

\* The fields of a node.
LEMMA NodeFields ==
  ASSUME NEW node \in Node
  PROVE  /\ node.leaf \in BOOLEAN /\ node.keys \in Seq(Keys) /\ node.children \in Seq(PageId)
         /\ node.values \in Seq(Value) /\ node.next \in PageId \cup {NoPage}
         /\ Len(node.keys) \in Nat /\ Len(node.children) \in Nat /\ Len(node.values) \in Nat
         /\ Weight(node.values) \in Nat /\ Size(node) \in Nat
  <1>1. /\ node.leaf \in BOOLEAN /\ node.keys \in Seq(Keys) /\ node.children \in Seq(PageId)
        /\ node.values \in Seq(Value) /\ node.next \in PageId \cup {NoPage}
    BY DEF Node
  <1>2. Len(node.keys) \in Nat /\ Len(node.children) \in Nat /\ Len(node.values) \in Nat
    BY <1>1
  <1>3. Weight(node.values) \in Nat
    BY <1>1, WeightNat
  <1>4. PICK a, b, c \in Nat : a = Len(node.keys) /\ b = Len(node.children) /\ c = Weight(node.values)
    BY <1>2, <1>3
  <1>5. Size(node) = a + b + c
    BY <1>4 DEF Size
  <1>6. Size(node) \in Nat
    BY <1>5
  <1>7. QED BY <1>1, <1>2, <1>3, <1>6

\* The two nodes without keys.
LEMMA EmptyNodes ==
  /\ Blank \in Node /\ new_leaf \in Node /\ Size(Blank) = 0 /\ Size(new_leaf) = 0
  /\ \A S : Sound(Blank, S) /\ Sound(new_leaf, S)
  /\ Blank.leaf = FALSE /\ Blank.keys = <<>> /\ Blank.children = <<>> /\ Blank.next = NoPage
  /\ new_leaf.leaf = TRUE /\ new_leaf.keys = <<>> /\ new_leaf.children = <<>> /\ new_leaf.next = NoPage
  /\ Blank.values = <<>> /\ new_leaf.values = <<>>
  <1>1. new_leaf \in Node
    BY DEF new_leaf, Node
  <1>2. /\ new_leaf.leaf = TRUE /\ new_leaf.keys = <<>> /\ new_leaf.children = <<>> /\ new_leaf.next = NoPage
        /\ new_leaf.values = <<>>
    BY DEF new_leaf
  <1>3. Blank \in Node
    BY <1>1 DEF Blank, new_internal, Node
  <1>4. /\ Blank.leaf = FALSE /\ Blank.keys = <<>> /\ Blank.children = <<>> /\ Blank.next = NoPage
        /\ Blank.values = <<>>
    BY <1>1, <1>2 DEF Blank, new_internal, Node
  <1>6. Size(Blank) = 0 /\ Size(new_leaf) = 0
    BY <1>2, <1>4, WeightEmpty DEF Size
  <1>5. ASSUME NEW S PROVE Sound(Blank, S) /\ Sound(new_leaf, S)
    BY <1>1, <1>2, <1>3, <1>4 DEF Sound, Closed, Shaped
  <1>7. QED BY <1>1, <1>2, <1>3, <1>4, <1>5, <1>6

\* A sound node stays sound when pages are added.
LEMMA Monotone ==
  ASSUME NEW node, NEW S, NEW T, S \subseteq T
  PROVE  (Sound(node, S) => Sound(node, T)) /\ (Open(node, S) => Open(node, T))
  BY DEF Sound, Open, Closed

\* The gap for a key is a place in the sequence or its end.
LEMMA GapRange ==
  ASSUME NEW keys \in Seq(Keys), NEW k
  PROVE  Gap(keys, k) \in 1..Len(keys) + 1
  <1>1. PICK n \in Nat : n = Len(keys) /\ DOMAIN keys = 1..n
    OBVIOUS
  <1>2. PICK U : U = {i \in DOMAIN keys : keys[i] < k}
    OBVIOUS
  <1>3. IsFiniteSet(1..n) /\ Cardinality(1..n) = n
    <2>1. IsFiniteSet(1..n) /\ Cardinality(1..n) = IF 1 > n THEN 0 ELSE n - 1 + 1
      <3>1. 1 \in Int /\ n \in Int
        OBVIOUS
      <3>2. QED BY <3>1, FS_Interval
    <2>2. QED BY <2>1, <1>1
  <1>4. IsFiniteSet(U) /\ Cardinality(U) <= n
    <2>1. U \subseteq 1..n
      BY <1>1, <1>2
    <2>2. QED BY <2>1, <1>3, FS_Subset
  <1>5. Cardinality(U) \in Nat
    BY <1>4, FS_CardinalityType
  <1>6. QED BY <1>1, <1>2, <1>4, <1>5 DEF Gap

\* A search in an internal node descends to one of its children.
LEMMA ChildRange ==
  ASSUME NEW S, NEW node, Sound(node, S), ~node.leaf, node.children # <<>>, NEW k,
         NEW i \in ChildIndexes(node, k)
  PROVE  i \in 1..Len(node.children)
  <1>1. node \in Node
    BY DEF Sound, Closed
  <1>2. PICK m \in Nat : m = Len(node.keys) /\ DOMAIN node.keys = 1..m
    BY <1>1, NodeFields
  <1>3. PICK c \in Nat \ {0} : c = Len(node.children)
    BY <1>1, NodeFields
  <1>4. Gap(node.keys, k) \in 1..m + 1
    BY <1>1, <1>2, NodeFields, GapRange
  <1> DEFINE found == {x + 1 : x \in Matches(node.keys, k)}
  <1>5. PICK j : /\ i = (IF j > c THEN c ELSE j)
                 /\ j \in (IF found = {} THEN {Gap(node.keys, k)} ELSE found)
    BY <1>3 DEF ChildIndexes
  <1>6. j \in Nat \ {0}
    <2>1. ASSUME NEW x \in Matches(node.keys, k) PROVE x + 1 \in Nat \ {0}
      BY <1>2 DEF Matches
    <2>2. QED BY <2>1, <1>4, <1>5
  <1>7. QED BY <1>3, <1>5, <1>6

\* An equal key is in the sequence.
LEMMA MatchRange ==
  ASSUME NEW keys \in Seq(Keys), NEW k, NEW i \in Matches(keys, k)
  PROVE  i \in 1..Len(keys) /\ keys[i] = k
  BY DEF Matches

\* Setting a key in a leaf: no key is lost and the size grows by at most the entry.
LEMMA LeafWithFacts ==
  ASSUME NEW S, NEW node, Sound(node, S), node.leaf, NEW k \in Keys, NEW v \in Value,
         NEW new \in LeafWith(node, k, v)
  PROVE  /\ Sound(new, S) /\ new.leaf /\ new.next = node.next
         /\ Range(node.keys) \subseteq Range(new.keys) /\ k \in Range(new.keys)
         /\ Size(new) <= Size(node) + 1 + v.w
  <1>1. node \in Node /\ node.next \in S \cup {NoPage} /\ node.children = <<>>
    BY DEF Sound, Closed, Shaped
  <1>2. PICK n \in Nat : n = Len(node.keys) /\ n = Len(node.values)
    BY <1>1, NodeFields DEF Sound, Shaped
  <1>3. node.keys \in Seq(Keys) /\ node.values \in Seq(Value)
    BY <1>1, NodeFields
  <1>4. PICK x \in Nat : x = v.w
    BY KeyAssumption DEF Value
  <1>5. PICK a \in Nat : a = Weight(node.values)
    BY <1>1, NodeFields
  <1>6. Len(node.children) = 0 /\ Size(node) = n + a
    BY <1>1, <1>2, <1>5 DEF Size
  <1>7. CASE Matches(node.keys, k) # {}
    <2>1. PICK i \in Matches(node.keys, k) : new = [node EXCEPT !.values = ReplaceAt(@, i, v)]
      BY <1>7 DEF LeafWith
    <2>2. i \in 1..n /\ node.keys[i] = k
      BY <1>2, <1>3, MatchRange
    <2>3. PICK vals : vals = ReplaceAt(node.values, i, v)
      OBVIOUS
    <2>4. vals \in Seq(Value) /\ Len(vals) = n
      BY <2>2, <2>3, <1>2, <1>3 DEF ReplaceAt
    <2>5. Weight(vals) <= a + x
      BY <2>2, <2>3, <1>2, <1>3, <1>4, <1>5, WeightReplace
    <2>6. new = [node EXCEPT !.values = vals]
      BY <2>1, <2>3
    <2>7. /\ new \in Node /\ new.leaf /\ new.next = node.next /\ new.keys = node.keys
          /\ new.children = <<>> /\ new.values = vals
      BY <2>4, <2>6, <1>1 DEF Node
    <2>8. Sound(new, S)
      BY <2>7, <2>4, <1>1, <1>2 DEF Sound, Closed, Shaped
    <2>9. k \in Range(new.keys)
      <3>1. DOMAIN node.keys = 1..n
        BY <1>2, <1>3, SeqDomain
      <3>2. QED BY <3>1, <2>2, <2>7 DEF Range
    <2>10. Size(new) <= Size(node) + 1 + x
      <3>1. PICK b \in Nat : b = Weight(vals)
        BY <2>4, WeightNat
      <3>2. Size(new) = n + b
        BY <2>7, <3>1, <1>2 DEF Size
      <3>3. QED BY <3>1, <3>2, <2>5, <1>6
    <2>11. QED BY <2>7, <2>8, <2>9, <2>10, <1>4
  <1>8. CASE Matches(node.keys, k) = {}
    <2>1. PICK g : g = Gap(node.keys, k)
      OBVIOUS
    <2>2. g \in 1..n + 1
      BY <2>1, <1>2, <1>3, GapRange
    <2>3. PICK keys, vals : keys = InsertAt(node.keys, g, k) /\ vals = InsertAt(node.values, g, v)
      OBVIOUS
    <2>4. /\ keys \in Seq(Keys) /\ Len(keys) = n + 1
          /\ \A j \in 1..n + 1 : keys[j] = IF j < g THEN node.keys[j] ELSE IF j = g THEN k ELSE node.keys[j - 1]
      <3>1. PICK nk \in Seq(Keys) : nk = node.keys
        BY <1>3
      <3>2. g \in 1..Len(nk) + 1 /\ n = Len(nk)
        BY <3>1, <2>2, <1>2
      <3>3. /\ InsertAt(nk, g, k) \in Seq(Keys) /\ Len(InsertAt(nk, g, k)) = Len(nk) + 1
            /\ \A j \in 1..Len(nk) + 1 :
                  InsertAt(nk, g, k)[j] = IF j < g THEN nk[j] ELSE IF j = g THEN k ELSE nk[j - 1]
        BY <3>2, InsertAtFacts, SMTT(30)
      <3>4. QED BY <3>1, <3>2, <3>3, <2>3
    <2>5. vals \in Seq(Value) /\ Len(vals) = n + 1
      BY <2>2, <2>3, <1>2, <1>3, InsertAtFacts
    <2>6. Weight(vals) = a + x
      BY <2>2, <2>3, <1>2, <1>3, <1>4, <1>5, WeightInsert
    <2>7. new = [node EXCEPT !.keys = keys, !.values = vals]
      BY <1>8, <2>1, <2>3 DEF LeafWith
    <2>8. /\ new \in Node /\ new.leaf /\ new.next = node.next /\ new.keys = keys
          /\ new.children = <<>> /\ new.values = vals
      BY <2>4, <2>5, <2>7, <1>1 DEF Node
    <2>9. Sound(new, S)
      BY <2>8, <2>4, <2>5, <1>1 DEF Sound, Closed, Shaped
    <2>10. keys[g] = k /\ DOMAIN keys = 1..n + 1
      BY <2>2, <2>4
    <2>11. k \in Range(new.keys)
      BY <2>2, <2>10, <2>8 DEF Range
    <2>12. ASSUME NEW j \in 1..n PROVE node.keys[j] \in Range(keys)
      <3>1. CASE j < g
        <4>1. j \in 1..n + 1 /\ keys[j] = node.keys[j]
          BY <3>1, <2>4
        <4>2. QED BY <4>1, <2>10 DEF Range
      <3>2. CASE ~(j < g)
        <4>1. j + 1 \in 1..n + 1 /\ ~(j + 1 < g) /\ j + 1 # g /\ j + 1 - 1 = j
          BY <3>2, <2>2
        <4>2. keys[j + 1] = node.keys[j]
          BY <4>1, <2>4
        <4>3. QED BY <4>1, <4>2, <2>10 DEF Range
      <3>3. QED BY <3>1, <3>2
    <2>13. Range(node.keys) \subseteq Range(keys)
      <3>1. DOMAIN node.keys = 1..n
        BY <1>2, <1>3, SeqDomain
      <3>2. QED BY <3>1, <2>12 DEF Range
    <2>14. Size(new) <= Size(node) + 1 + x
      <3>1. Size(new) = n + 1 + 0 + (a + x)
        BY <2>8, <2>4, <2>6, <1>6, <1>1 DEF Size
      <3>2. QED BY <3>1, <1>6
    <2>15. QED BY <2>8, <2>9, <2>11, <2>13, <2>14, <1>4
  <1>9. QED BY <1>7, <1>8

\* A node with keys has a middle key.
LEMMA MiddleRange ==
  ASSUME NEW node \in Node, node.keys # <<>>
  PROVE  /\ Middle(node) \in 1..Len(node.keys) /\ node.keys[Middle(node)] \in Keys
  <1>1. PICK n \in Nat \ {0} : n = Len(node.keys)
    BY NodeFields
  <1>2. n \div 2 + 1 \in 1..n
    <2>1. ASSUME NEW k \in Nat \ {0} PROVE k \div 2 + 1 \in 1..k
      OBVIOUS
    <2>2. QED BY <2>1
  <1>3. Middle(node) \in 1..n
    BY <1>1, <1>2 DEF Middle
  <1>4. QED BY <1>1, <1>3, NodeFields

\* The halves of a leaf share its keys out; none is larger than the leaf.
LEMMA LeafHalves ==
  ASSUME NEW S, NEW node, Sound(node, S), node.leaf, node.keys # <<>>,
         NEW l, NEW r, l = LeftHalf(node), r = RightHalf(node)
  PROVE  /\ Sound(l, S) /\ Sound(r, S) /\ l.leaf /\ r.leaf /\ l.next = node.next /\ r.next = node.next
         /\ l.children = <<>> /\ r.children = <<>>
         /\ Range(node.keys) = Range(l.keys) \cup Range(r.keys)
         /\ Size(l) <= Size(node) /\ Size(r) <= Size(node)
         /\ Len(l.keys) = Middle(node) - 1
         /\ \A j \in 1..Middle(node) - 1 : l.keys[j] = node.keys[j]
         /\ Len(r.keys) = Len(node.keys) - Middle(node) + 1
         /\ \A j \in 1..Len(node.keys) - Middle(node) + 1 : r.keys[j] = node.keys[Middle(node) + j - 1]
  <1>1. node \in Node /\ node.next \in S \cup {NoPage} /\ node.children = <<>>
    BY DEF Sound, Closed, Shaped
  <1>2. PICK n \in Nat : n = Len(node.keys) /\ n = Len(node.values)
    BY <1>1, NodeFields DEF Sound, Shaped
  <1>3. node.keys \in Seq(Keys) /\ node.values \in Seq(Value)
    BY <1>1, NodeFields
  <1>4. PICK m \in 1..n : m = Middle(node)
    BY <1>1, <1>2, MiddleRange
  <1>25. PICK nk \in Seq(Keys) : nk = node.keys
    BY <1>3
  <1>27. Len(nk) = n
    BY <1>2, <1>25
  <1>26. Len(nk) = n /\ DOMAIN nk = 1..n
    BY <1>27, SeqDomain
  <1>5. PICK lk, lv, rk, rv :
           /\ lk = SubSeq(node.keys, 1, m - 1) /\ lv = SubSeq(node.values, 1, m - 1)
           /\ rk = SubSeq(node.keys, m, n) /\ rv = SubSeq(node.values, m, n)
    OBVIOUS
  <1>6. 1 \in 1..n + 1 /\ m - 1 \in 0..n /\ 1 <= m - 1 + 1 /\ m \in 1..n + 1 /\ n \in 0..n /\ m <= n + 1
        /\ m - 1 - 1 + 1 = m - 1
    OBVIOUS
  <1>7. lk \in Seq(Keys) /\ Len(lk) = m - 1 /\ \A j \in 1..m - 1 : lk[j] = node.keys[1 + j - 1]
    BY <1>25, <1>26, <1>5, <1>6, SubSeqFacts
  <1>8. lv \in Seq(Value) /\ Len(lv) = m - 1
    BY <1>2, <1>3, <1>5, <1>6, SubSeqFacts
  <1>9. rk \in Seq(Keys) /\ Len(rk) = n - m + 1 /\ \A j \in 1..n - m + 1 : rk[j] = node.keys[m + j - 1]
    BY <1>25, <1>26, <1>5, <1>6, SubSeqFacts
  <1>10. rv \in Seq(Value) /\ Len(rv) = n - m + 1
    BY <1>2, <1>3, <1>5, <1>6, SubSeqFacts
  <1>11. l = [node EXCEPT !.keys = lk, !.values = lv] /\ r = [node EXCEPT !.keys = rk, !.values = rv]
    BY <1>2, <1>4, <1>5 DEF LeftHalf, RightHalf
  <1>12. /\ l \in Node /\ l.leaf /\ l.next = node.next /\ l.keys = lk /\ l.children = <<>> /\ l.values = lv
    BY <1>7, <1>8, <1>11, <1>1 DEF Node
  <1>13. /\ r \in Node /\ r.leaf /\ r.next = node.next /\ r.keys = rk /\ r.children = <<>> /\ r.values = rv
    BY <1>9, <1>10, <1>11, <1>1 DEF Node
  <1>14. Sound(l, S) /\ Sound(r, S)
    BY <1>12, <1>13, <1>7, <1>8, <1>9, <1>10, <1>1 DEF Sound, Closed, Shaped
  <1>15. DOMAIN node.keys = 1..n /\ DOMAIN lk = 1..m - 1 /\ DOMAIN rk = 1..n - m + 1
    BY <1>25, <1>26, <1>7, <1>9
  <1>16. \A j \in 1..m - 1 : lk[j] = node.keys[j]
    BY <1>7
  <1>17. Range(node.keys) \subseteq Range(lk) \cup Range(rk)
    <2>1. ASSUME NEW j \in 1..n PROVE node.keys[j] \in Range(lk) \cup Range(rk)
      <3>1. CASE j < m
        BY <3>1, <1>15, <1>16, SMTT(30) DEF Range
      <3>2. CASE ~(j < m)
        <4>1. j - m + 1 \in 1..n - m + 1 /\ m + (j - m + 1) - 1 = j
          BY <3>2
        <4>2. rk[j - m + 1] = node.keys[j]
          BY <4>1, <1>9
        <4>3. QED BY <4>1, <4>2, <1>15 DEF Range
      <3>3. QED BY <3>1, <3>2
    <2>2. QED BY <2>1, <1>15 DEF Range
  <1>18. Range(lk) \subseteq Range(node.keys)
    BY <1>15, <1>16 DEF Range
  <1>19. Range(rk) \subseteq Range(node.keys)
    <2>1. ASSUME NEW j \in 1..n - m + 1 PROVE rk[j] \in Range(node.keys)
      <3>1. m + j - 1 \in 1..n
        OBVIOUS
      <3>2. QED BY <3>1, <1>9, <1>15 DEF Range
    <2>2. QED BY <2>1, <1>15 DEF Range
  <1>20. Weight(lv) + Weight(rv) = Weight(node.values)
    BY <1>2, <1>3, <1>5, <1>6, WeightSplit
  <1>21. PICK a, b \in Nat : a = Weight(lv) /\ b = Weight(rv)
    BY <1>8, <1>10, WeightNat
  <1>22. Size(node) = n + 0 + (a + b) /\ Size(l) = m - 1 + 0 + a /\ Size(r) = n - m + 1 + 0 + b
    <2>1. Len(<<>>) = 0
      OBVIOUS
    <2>2. QED BY <2>1, <1>1, <1>2, <1>7, <1>9, <1>12, <1>13, <1>20, <1>21 DEF Size
  <1>23. Size(l) <= Size(node) /\ Size(r) <= Size(node)
    BY <1>22
  <1>24. QED BY <1>2, <1>4, <1>7, <1>9, <1>12, <1>13, <1>14, <1>16, <1>17, <1>18, <1>19, <1>23

\* The halves of an internal node share its children out, and the middle key goes up.
LEMMA InnerHalves ==
  ASSUME NEW S, NEW node, Sound(node, S), ~node.leaf, node.keys # <<>>,
         NEW l, NEW r, l = LeftHalf(node), r = RightHalf(node)
  PROVE  /\ Sound(l, S) /\ Sound(r, S) /\ ~l.leaf /\ ~r.leaf
         /\ l.next = NoPage /\ r.next = NoPage /\ l.values = <<>> /\ r.values = <<>>
         /\ l # Blank /\ r # Blank
         /\ Len(node.children) = Len(node.keys) + 1
         /\ Len(l.keys) = Middle(node) - 1 /\ Len(l.children) = Middle(node)
         /\ Len(r.keys) = Len(node.keys) - Middle(node)
         /\ Len(r.children) = Len(node.keys) - Middle(node) + 1
         /\ \A j \in 1..Middle(node) - 1 : l.keys[j] = node.keys[j]
         /\ \A j \in 1..Middle(node) : l.children[j] = node.children[j]
         /\ \A j \in 1..Len(node.keys) - Middle(node) : r.keys[j] = node.keys[Middle(node) + j]
         /\ \A j \in 1..Len(node.keys) - Middle(node) + 1 : r.children[j] = node.children[Middle(node) + j]
  <1>1. node \in Node /\ node.next = NoPage /\ node.values = <<>>
    BY DEF Sound, Closed, Shaped
  <1>2. node # Blank /\ \A i \in DOMAIN node.children : node.children[i] \in S
    BY EmptyNodes DEF Sound, Closed
  <1>3. PICK n \in Nat : n = Len(node.keys) /\ n + 1 = Len(node.children)
    BY <1>1, <1>2, NodeFields DEF Sound, Shaped
  <1>4. node.keys \in Seq(Keys) /\ node.children \in Seq(PageId) /\ DOMAIN node.children = 1..n + 1
    BY <1>1, <1>3, NodeFields
  <1>5. PICK m \in 1..n : m = Middle(node)
    BY <1>1, <1>3, MiddleRange
  <1>6. PICK lk, lc, rk, rc :
           /\ lk = SubSeq(node.keys, 1, m - 1) /\ lc = SubSeq(node.children, 1, m)
           /\ rk = SubSeq(node.keys, m + 1, n) /\ rc = SubSeq(node.children, m + 1, n + 1)
    OBVIOUS
  <1>7. 1 \in 1..n + 1 /\ m - 1 \in 0..n /\ 1 <= m - 1 + 1 /\ m - 1 - 1 + 1 = m - 1
    OBVIOUS
  <1>8. 1 \in 1..n + 1 + 1 /\ m \in 0..n + 1 /\ 1 <= m + 1 /\ m - 1 + 1 = m
    OBVIOUS
  <1>9. m + 1 \in 1..n + 1 /\ n \in 0..n /\ m + 1 <= n + 1 /\ n - (m + 1) + 1 = n - m
    OBVIOUS
  <1>10. m + 1 \in 1..n + 1 + 1 /\ n + 1 \in 0..n + 1 /\ m + 1 <= n + 1 + 1 /\ n + 1 - (m + 1) + 1 = n - m + 1
    OBVIOUS
  <1>11. lk \in Seq(Keys) /\ Len(lk) = m - 1 /\ \A j \in 1..m - 1 : lk[j] = node.keys[1 + j - 1]
    BY <1>3, <1>4, <1>6, <1>7, SubSeqFacts
  <1>12. lc \in Seq(PageId) /\ Len(lc) = m /\ \A j \in 1..m : lc[j] = node.children[1 + j - 1]
    BY <1>3, <1>4, <1>6, <1>8, SubSeqFacts
  <1>13. rk \in Seq(Keys) /\ Len(rk) = n - m /\ \A j \in 1..n - m : rk[j] = node.keys[m + 1 + j - 1]
    BY <1>3, <1>4, <1>6, <1>9, SubSeqFacts, SMTT(30)
  <1>14. rc \in Seq(PageId) /\ Len(rc) = n - m + 1 /\ \A j \in 1..n - m + 1 : rc[j] = node.children[m + 1 + j - 1]
    BY <1>3, <1>4, <1>6, <1>10, SubSeqFacts
  <1>15. l = [node EXCEPT !.keys = lk, !.children = lc]
         /\ r = [node EXCEPT !.keys = rk, !.children = rc, !.next = NoPage]
    BY <1>3, <1>5, <1>6 DEF LeftHalf, RightHalf
  <1>16. /\ l \in Node /\ ~l.leaf /\ l.next = NoPage /\ l.keys = lk /\ l.children = lc /\ l.values = <<>>
    BY <1>11, <1>12, <1>15, <1>1 DEF Node
  <1>17. /\ r \in Node /\ ~r.leaf /\ r.next = NoPage /\ r.keys = rk /\ r.children = rc /\ r.values = <<>>
    BY <1>13, <1>14, <1>15, <1>1 DEF Node
  <1>18. \A j \in 1..m - 1 : lk[j] = node.keys[j]
    BY <1>11
  <1>19. \A j \in 1..m : lc[j] = node.children[j]
    BY <1>12
  <1>20. \A j \in 1..n - m : rk[j] = node.keys[m + j]
    <2>1. ASSUME NEW j \in 1..n - m PROVE m + 1 + j - 1 = m + j
      OBVIOUS
    <2>2. QED BY <2>1, <1>13
  <1>21. \A j \in 1..n - m + 1 : rc[j] = node.children[m + j]
    <2>1. ASSUME NEW j \in 1..n - m + 1 PROVE m + 1 + j - 1 = m + j
      OBVIOUS
    <2>2. QED BY <2>1, <1>14
  <1>22. \A j \in DOMAIN lc : lc[j] \in S
    <2>1. DOMAIN lc = 1..m
      BY <1>12
    <2>2. QED BY <2>1, <1>19, <1>2, <1>4
  <1>23. \A j \in DOMAIN rc : rc[j] \in S
    <2>1. DOMAIN rc = 1..n - m + 1
      BY <1>14
    <2>2. ASSUME NEW j \in 1..n - m + 1 PROVE m + j \in 1..n + 1
      OBVIOUS
    <2>3. QED BY <2>1, <2>2, <1>21, <1>2, <1>4
  <1>24. Sound(l, S)
    <2>1. Len(lc) = Len(lk) + 1
      BY <1>11, <1>12
    <2>2. QED BY <2>1, <1>16, <1>22 DEF Sound, Closed, Shaped
  <1>25. Sound(r, S)
    <2>1. Len(rc) = Len(rk) + 1
      BY <1>13, <1>14
    <2>2. QED BY <2>1, <1>17, <1>23 DEF Sound, Closed, Shaped
  <1>26. l # Blank /\ r # Blank
    <2>1. Len(lc) # 0 /\ Len(rc) # 0 /\ Len(<<>>) = 0
      BY <1>12, <1>14
    <2>2. QED BY <2>1, <1>16, <1>17, EmptyNodes
  <1>27. QED BY <1>3, <1>5, <1>11, <1>12, <1>13, <1>14, <1>16, <1>17, <1>18, <1>19, <1>20, <1>21, <1>24, <1>25, <1>26

\* Both halves are sound.
LEMMA HalvesSound ==
  ASSUME NEW S, NEW node, Sound(node, S), node.keys # <<>>
  PROVE  Sound(LeftHalf(node), S) /\ Sound(RightHalf(node), S)
  BY LeafHalves, InnerHalves

\* A full node has a key, so that split_child does not index an empty vector.
LEMMA FullHasKeys ==
  ASSUME NEW S, NEW node, Sound(node, S), is_full(node)
  PROVE  node.keys # <<>>
  <1> SUFFICES ASSUME node.keys = <<>> PROVE FALSE
    OBVIOUS
  <1>1. node \in Node /\ Len(node.keys) = 0
    BY DEF Sound, Closed
  <1>2. node.values \in Seq(Value) /\ (node.leaf => Len(node.values) = 0)
    BY <1>1, NodeFields DEF Sound, Shaped
  <1>3. node.values = <<>>
    BY <1>2 DEF Sound, Shaped
  <1>4. Len(node.children) <= 1 /\ Len(node.children) \in Nat
    <2>1. Len(<<>>) = 0
      OBVIOUS
    <2>2. Len(node.children) \in Nat
      BY <1>1, NodeFields
    <2>3. node.children = <<>> \/ Len(node.children) = 0 + 1
      BY <1>1, EmptyNodes DEF Sound, Shaped
    <2>4. Len(node.children) = 0 \/ Len(node.children) = 1
      BY <2>1, <2>3
    <2>5. PICK c \in Nat : c = Len(node.children)
      BY <2>2
    <2>6. c = 0 \/ c = 1
      BY <2>5, <2>4
    <2>7. c <= 1 /\ c \in Nat
      BY <2>6
    <2>8. QED BY <2>5, <2>7
  <1>5. Weight(node.values) = 0
    BY <1>3, WeightEmpty
  <1>6. Size(node) <= 1
    BY <1>1, <1>4, <1>5 DEF Size
  <1>7. QED BY <1>6, <1>1, NodeFields, SizeAssumption DEF is_full

-----------------------------------------------------------------------------
(* The locals of a writer, action by action.                               *)

\* A path that is not empty has a last node.
LEMMA PathTop ==
  ASSUME NEW p \in Seq(Frame), p # <<>>
  PROVE  Len(p) \in DOMAIN p /\ Len(p) \in Nat /\ Len(p) >= 1 /\ p[Len(p)] \in Frame /\ TopOf(p) \in Node
  <1>1. Len(p) \in DOMAIN p /\ Len(p) \in Nat /\ Len(p) >= 1 /\ p[Len(p)] \in Frame
    OBVIOUS
  <1>2. QED BY <1>1 DEF Frame, TopOf

\* The path with another last node.
Put(p, node) == [p EXCEPT ![Len(p)].node = node]

\* A path whose last node was changed.
LEMMA PathWith ==
  ASSUME NEW p \in Seq(Frame), p # <<>>, NEW node \in Node, NEW q, q = Put(p, node)
  PROVE  /\ q \in Seq(Frame) /\ q # <<>> /\ Len(q) = Len(p) /\ TopOf(q) = node
         /\ q[Len(p)].id = p[Len(p)].id /\ q[Len(p)].node = node
         /\ DOMAIN q = DOMAIN p /\ \A j \in DOMAIN p : j # Len(p) => q[j] = p[j]
  <1>1. Len(p) \in DOMAIN p /\ p[Len(p)] \in Frame
    BY PathTop
  <1>2. PICK f : f = [p[Len(p)] EXCEPT !.node = node]
    OBVIOUS
  <1>3. f \in Frame /\ f.node = node /\ f.id = p[Len(p)].id
    BY <1>1, <1>2 DEF Frame
  <1>4. q = [p EXCEPT ![Len(p)] = f]
    BY <1>2 DEF Put
  <1>5. q \in Seq(Frame) /\ Len(q) = Len(p) /\ DOMAIN q = DOMAIN p
    BY <1>1, <1>3, <1>4
  <1>6. q[Len(p)] = f /\ \A j \in DOMAIN p : j # Len(p) => q[j] = p[j]
    BY <1>1, <1>4
  <1>7. q # <<>>
    BY <1>1, <1>5
  <1>8. QED BY <1>3, <1>5, <1>6, <1>7 DEF TopOf

\* A path one level longer.
LEMMA PathAppend ==
  ASSUME NEW p \in Seq(Frame), NEW f \in Frame, NEW q, q = Append(p, f)
  PROVE  /\ q \in Seq(Frame) /\ q # <<>> /\ Len(q) = Len(p) + 1 /\ TopOf(q) = f.node /\ q[Len(p) + 1] = f
         /\ \A j \in DOMAIN q : (j \in DOMAIN p /\ q[j] = p[j]) \/ (j = Len(p) + 1 /\ q[j] = f)
  <1>1. q \in Seq(Frame) /\ Len(q) = Len(p) + 1 /\ Len(p) \in Nat
    OBVIOUS
  <1>2. q[Len(p) + 1] = f /\ \A j \in 1..Len(p) : q[j] = p[j]
    OBVIOUS
  <1>3. q # <<>>
    OBVIOUS
  <1>4. DOMAIN q = 1..Len(p) + 1 /\ DOMAIN p = 1..Len(p)
    OBVIOUS
  <1>5. \A j \in DOMAIN q : (j \in DOMAIN p /\ q[j] = p[j]) \/ (j = Len(p) + 1 /\ q[j] = f)
    BY <1>1, <1>2, <1>4
  <1>6. QED BY <1>1, <1>2, <1>3, <1>5 DEF TopOf

\* A path that is only the root.
LEMMA PathOne ==
  ASSUME NEW f \in Frame
  PROVE  /\ <<f>> \in Seq(Frame) /\ <<f>> # <<>> /\ TopOf(<<f>>) = f.node /\ Len(<<f>>) = 1
         /\ DOMAIN <<f>> = 1..1 /\ <<f>>[1] = f
  BY DEF TopOf

\* A path without its last node.
LEMMA PathFront ==
  ASSUME NEW p \in Seq(Frame), Len(p) > 1, NEW q, q = Front(p)
  PROVE  /\ q \in Seq(Frame) /\ q # <<>> /\ Len(q) = Len(p) - 1 /\ \A j \in DOMAIN q : j \in DOMAIN p /\ q[j] = p[j]
         /\ TopOf(q) = p[Len(p) - 1].node
  <1>1. PICK n \in Nat : n = Len(p) /\ n > 1
    OBVIOUS
  <1>2. 1 \in 1..n + 1 /\ n - 1 \in 0..n /\ 1 <= n - 1 + 1 /\ n - 1 - 1 + 1 = n - 1
    BY <1>1
  <1>3. q \in Seq(Frame) /\ Len(q) = n - 1 /\ \A j \in 1..n - 1 : q[j] = p[1 + j - 1]
    BY <1>1, <1>2, SubSeqFacts DEF Front
  <1>4. DOMAIN q = 1..n - 1 /\ DOMAIN p = 1..n
    BY <1>1, <1>3, SeqDomain
  <1>5. \A j \in 1..n - 1 : q[j] = p[j]
    BY <1>3
  <1>6. \A j \in DOMAIN q : j \in DOMAIN p /\ q[j] = p[j]
    BY <1>4, <1>5
  <1>7. n - 1 \in 1..n - 1
    BY <1>1
  <1>8. q # <<>>
    BY <1>4, <1>7
  <1>9. QED BY <1>1, <1>3, <1>5, <1>6, <1>7, <1>8 DEF TopOf

\* A writer is not disturbed by pages that are added.
LEMMA WriterMonotone ==
  ASSUME NEW c, NEW o, NEW p, NEW i, NEW g \in Int, NEW kd, NEW sb, NEW S, NEW n \in Int, NEW T, NEW m \in Int,
         WriterInv(c, o, p, i, g, kd, sb, S, n), S \subseteq T, n <= m
  PROVE  WriterInv(c, o, p, i, g, kd, sb, T, m)
  <1>1. \A node : (Sound(node, S) => Sound(node, T)) /\ (Open(node, S) => Open(node, T))
    BY Monotone
  <1>2. g <= m /\ (g < n => g < m)
    BY DEF WriterInv
  <1>3. \A j \in DOMAIN p :
          p[j].id \in T /\ IF c \in Parting /\ j = Len(p) THEN Open(p[j].node, T) ELSE Sound(p[j].node, T)
    BY <1>1 DEF WriterInv
  <1>4. QED BY <1>1, <1>2, <1>3 DEF WriterInv

\* Return.
LEMMA WriterIdle ==
  ASSUME NEW S, NEW n \in Nat
  PROVE  WriterInv("idle", NoOp, <<>>, 0, 0, Blank, Blank, S, n)
  BY EmptyNodes DEF WriterInv, Parting, Walking

\* Insert.
LEMMA WriterInsert ==
  ASSUME NEW o, NEW p, NEW i, NEW g, NEW kd, NEW sb, NEW S, NEW n,
         WriterInv("idle", o, p, i, g, kd, sb, S, n), NEW oo \in [key : Keys, val : Value]
  PROVE  WriterInv("start", oo, p, i, g, kd, sb, S, n)
  BY DEF WriterInv, Parting, Walking

\* ReadRoot, at a full root.
LEMMA WriterGrow ==
  ASSUME NEW o, NEW p, NEW i, NEW g, NEW kd, NEW sb, NEW S, NEW n,
         WriterInv("start", o, p, i, g, kd, sb, S, n), NEW root, Sound(root, S)
  PROVE  WriterInv("growAlloc", o, p, i, g, root, sb, S, n)
  BY DEF WriterInv, Parting, Walking

\* ReadRoot at another root, and RereadRoot.
LEMMA WriterRoot ==
  ASSUME NEW c, c \in {"start", "reread"},
         NEW o, NEW p, NEW i, NEW g, NEW kd, NEW sb, NEW S, NEW n, S \subseteq Nat,
         WriterInv(c, o, p, i, g, kd, sb, S, n), NEW root, Sound(root, S), NEW id \in S
  PROVE  WriterInv("visit", o, <<[id |-> id, node |-> root]>>, i, g, kd, sb, S, n)
  <1>1. [id |-> id, node |-> root] \in Frame
    BY DEF Frame, PageId, Sound, Closed
  <1>2. PICK f \in Frame : f = [id |-> id, node |-> root]
    BY <1>1
  <1>3. f.id = id /\ f.node = root
    BY <1>2
  <1>4. QED BY <1>2, <1>3, PathOne DEF WriterInv, Parting, Walking

\* AllocatePage.
LEMMA WriterAllocate ==
  ASSUME NEW c, NEW d, <<c, d>> \in {<<"growAlloc", "growBlank">>, <<"splitAlloc", "splitBlank">>},
         NEW o, NEW p, NEW i, NEW g, NEW kd, NEW sb, NEW S, NEW n \in Int,
         WriterInv(c, o, p, i, g, kd, sb, S, n)
  PROVE  WriterInv(d, o, p, i, n, kd, sb, S, n)
  BY DEF WriterInv, Parting, Walking

\* BlankPage.
LEMMA WriterBlank ==
  ASSUME NEW c, NEW d, <<c, d>> \in {<<"growBlank", "growSave">>, <<"splitBlank", "saveNew">>},
         NEW o, NEW p, NEW i, NEW g, NEW kd, NEW sb, NEW S, NEW n, g < n,
         WriterInv(c, o, p, i, g, kd, sb, S, n)
  PROVE  WriterInv(d, o, p, i, g, kd, sb, S, n)
  BY DEF WriterInv, Parting, Walking

\* The new root with its only child is sound.
LEMMA NewRoot ==
  ASSUME NEW S, S \subseteq Nat, NEW g \in S, NEW root, root = [new_internal EXCEPT !.children = <<g>>]
  PROVE  /\ Sound(root, S) /\ root \in Node /\ ~root.leaf /\ root.keys = <<>> /\ root.children = <<g>>
         /\ root.next = NoPage /\ Len(root.children) = 1 /\ root.children[1] = g /\ Size(root) = 1
  <1>1. root = [Blank EXCEPT !.children = <<g>>]
    BY DEF Blank
  <1>2. <<g>> \in Seq(PageId) /\ Len(<<g>>) = 1 /\ DOMAIN <<g>> = {1} /\ <<g>>[1] = g
    BY DEF PageId
  <1>3. PICK cs : cs = <<g>>
    OBVIOUS
  <1>4. root = [Blank EXCEPT !.children = cs] /\ cs \in Seq(PageId)
    BY <1>1, <1>2, <1>3
  <1>5. /\ root \in Node /\ ~root.leaf /\ root.keys = <<>> /\ root.children = cs
        /\ root.next = NoPage /\ root.values = <<>>
    BY <1>4, EmptyNodes DEF Node
  <1>6. Len(<<>>) = 0
    OBVIOUS
  <1>7. Sound(root, S)
    BY <1>2, <1>3, <1>5, <1>6 DEF Sound, Closed, Shaped
  <1>9. Size(root) = 0 + 1 + 0
    BY <1>2, <1>3, <1>5, <1>6, WeightEmpty DEF Size
  <1>10. QED BY <1>2, <1>3, <1>5, <1>7, <1>9

\* GrowSave.
LEMMA WriterGrowSave ==
  ASSUME NEW o, NEW p, NEW i, NEW g, NEW kd, NEW sb, NEW S, NEW n, S \subseteq Nat,
         WriterInv("growSave", o, p, i, g, kd, sb, S, n), g \in S, NEW id \in S
  PROVE  WriterInv("split", o, <<[id |-> id, node |-> [new_internal EXCEPT !.children = <<g>>]]>>,
                   1, g, kd, sb, S, n)
  <1>1. PICK root : root = [new_internal EXCEPT !.children = <<g>>]
    OBVIOUS
  <1>2. Sound(root, S) /\ root \in Node /\ ~root.leaf /\ Len(root.children) = 1
    BY <1>1, NewRoot, ZenonT(40)
  <1>3. [id |-> id, node |-> root] \in Frame
    BY <1>2 DEF Frame, PageId
  <1>4. PICK f \in Frame : f = [id |-> id, node |-> root]
    BY <1>3
  <1>5. f.id = id /\ f.node = root
    BY <1>4
  <1>6. WriterInv("split", o, <<f>>, 1, g, kd, sb, S, n)
    BY <1>2, <1>5, PathOne DEF WriterInv, Parting, Walking
  <1>7. QED BY <1>1, <1>4, <1>6

\* A panic.
LEMMA WriterPanic ==
  ASSUME NEW c, c \in {"split", "visit"},
         NEW o, NEW p, NEW i, NEW g, NEW kd, NEW sb, NEW S, NEW n,
         WriterInv(c, o, p, i, g, kd, sb, S, n)
  PROVE  WriterInv("panicked", o, p, i, g, kd, sb, S, n)
  BY DEF WriterInv, Parting, Walking

\* The last node of the path is sound, or open in the middle of a split.
LEMMA TopSound ==
  ASSUME NEW c, NEW o, NEW p, NEW i, NEW g, NEW kd, NEW sb, NEW S, NEW n,
         WriterInv(c, o, p, i, g, kd, sb, S, n), c \in Walking
  PROVE  /\ p \in Seq(Frame) /\ p # <<>> /\ p[Len(p)].id \in S
         /\ IF c \in Parting THEN Open(TopOf(p), S) ELSE Sound(TopOf(p), S)
  <1>1. p \in Seq(Frame) /\ p # <<>>
    BY DEF WriterInv
  <1>2. Len(p) \in DOMAIN p
    BY <1>1, PathTop
  <1>3. QED BY <1>1, <1>2 DEF WriterInv, TopOf

\* An internal node that is not a page of zeros has one child more than keys.
LEMMA InnerSize ==
  ASSUME NEW S, NEW node, Sound(node, S), ~node.leaf, node.children # <<>> \/ node.keys # <<>>
  PROVE  Len(node.children) = Len(node.keys) + 1
  BY EmptyNodes DEF Sound, Shaped

\* A sequence with an element is not empty.
LEMMA RangeNotEmpty ==
  ASSUME NEW S, NEW s \in Seq(S), NEW i \in 1..Len(s)
  PROVE  s # <<>> /\ DOMAIN s = 1..Len(s) /\ s[i] \in S
  <1>1. Len(s) \in Nat /\ Len(s) # 0
    OBVIOUS
  <1>2. QED BY <1>1, SeqDomain

\* The parent of a split, first half: the middle key.
WithKey(node, i, k) == [node EXCEPT !.keys = InsertAt(@, i, k)]

\* The parent with the middle key is open.
LEMMA ParentSplit ==
  ASSUME NEW S, NEW node, Sound(node, S), ~node.leaf, NEW i \in 1..Len(node.children), NEW k \in Keys,
         NEW new, new = [node EXCEPT !.keys = InsertAt(@, i, k)]
  PROVE  /\ Open(new, S) /\ new \in Node /\ ~new.leaf /\ new.children = node.children
         /\ new.keys = InsertAt(node.keys, i, k) /\ i \in 1..Len(node.keys) + 1
         /\ Len(new.keys) = Len(node.keys) + 1 /\ Size(new) = Size(node) + 1 /\ new.values = <<>>
  <1>1. node \in Node
    BY DEF Sound, Closed
  <1>2. node.children \in Seq(PageId) /\ node.keys \in Seq(Keys)
    BY <1>1, NodeFields
  <1>3. node.children # <<>>
    BY <1>2, RangeNotEmpty
  <1>4. PICK n \in Nat : n = Len(node.keys) /\ Len(node.children) = n + 1
    BY <1>1, <1>3, InnerSize, NodeFields
  <1>5. PICK ks : ks = InsertAt(node.keys, i, k)
    OBVIOUS
  <1>6. ks \in Seq(Keys) /\ Len(ks) = n + 1
    BY <1>2, <1>4, <1>5, InsertAtFacts
  <1>7. new = [node EXCEPT !.keys = ks]
    BY <1>5
  <1>8. /\ new \in Node /\ new.leaf = node.leaf /\ new.keys = ks /\ new.children = node.children
        /\ new.values = node.values /\ new.next = node.next
    BY <1>1, <1>6, <1>7 DEF Node
  <1>9. node.values = <<>> /\ node.next = NoPage
    BY DEF Sound, Shaped
  <1>10. Open(new, S)
    BY <1>4, <1>6, <1>8, <1>9 DEF Open, Sound, Closed
  <1>11. Size(new) = Size(node) + 1
    <2>1. PICK a \in Nat : a = Weight(node.values)
      BY <1>1, NodeFields
    <2>2. Size(node) = n + (n + 1) + a /\ Size(new) = n + 1 + (n + 1) + a
      BY <2>1, <1>4, <1>6, <1>8 DEF Size
    <2>3. QED BY <2>2
  <1>12. QED BY <1>4, <1>5, <1>6, <1>8, <1>9, <1>10, <1>11

\* A page number put into the children.
LEMMA InsertPage ==
  ASSUME NEW s \in Seq(PageId), NEW h \in 1..Len(s) + 1, NEW x \in PageId
  PROVE  /\ InsertAt(s, h, x) \in Seq(PageId) /\ Len(InsertAt(s, h, x)) = Len(s) + 1
         /\ \A j \in 1..Len(s) + 1 :
              InsertAt(s, h, x)[j] = IF j < h THEN s[j] ELSE IF j = h THEN x ELSE s[j - 1]
  BY InsertAtFacts

\* The parent of a split, second half: the new child.
WithChild(node, i, g) == [node EXCEPT !.children = InsertAt(@, i + 1, g)]

\* The parent with key and child is sound again.
LEMMA ParentSplitDone ==
  ASSUME NEW S, S \subseteq Nat, NEW node, Open(node, S), NEW i \in 1..Len(node.children), NEW g \in S,
         NEW new, new = WithChild(node, i, g)
  PROVE  /\ Sound(new, S) /\ new \in Node /\ ~new.leaf /\ new.keys = node.keys /\ new.values = <<>>
         /\ new.children = InsertAt(node.children, i + 1, g) /\ i + 1 \in 1..Len(node.children) + 1
         /\ Len(new.children) = Len(node.children) + 1 /\ i \in 1..Len(new.keys)
         /\ \A j \in 1..Len(node.children) + 1 : new.children[j] =
              IF j < i + 1 THEN node.children[j] ELSE IF j = i + 1 THEN g ELSE node.children[j - 1]
         /\ Size(new) = Size(node) + 1
  <1>1. node \in Node
    BY DEF Open, Closed
  <1>2. node.children \in Seq(PageId) /\ node.keys \in Seq(Keys)
    BY <1>1, NodeFields
  <1>3. PICK n \in Nat : n = Len(node.keys) /\ Len(node.children) = n
    BY <1>1, NodeFields DEF Open
  <1>4. i \in 1..n /\ i + 1 \in 1..n + 1
    BY <1>3
  <1>5. PICK cs : cs = InsertAt(node.children, i + 1, g)
    OBVIOUS
  <1>20. PICK s \in Seq(PageId) : s = node.children
    BY <1>2
  <1>21. i + 1 \in 1..Len(s) + 1 /\ g \in PageId /\ Len(s) = n
    BY <1>3, <1>4, <1>20 DEF PageId
  <1>23. PICK h : h = i + 1
    OBVIOUS
  <1>24. h \in 1..Len(s) + 1
    BY <1>21, <1>23
  <1>25. PICK x \in PageId : x = g
    BY <1>21
  <1>26. /\ InsertAt(s, h, x) \in Seq(PageId) /\ Len(InsertAt(s, h, x)) = Len(s) + 1
         /\ \A j \in 1..Len(s) + 1 : InsertAt(s, h, x)[j] =
              IF j < h THEN s[j] ELSE IF j = h THEN x ELSE s[j - 1]
    BY <1>20, <1>23, <1>24, <1>25, InsertPage
  <1>22. /\ InsertAt(s, i + 1, g) \in Seq(PageId) /\ Len(InsertAt(s, i + 1, g)) = Len(s) + 1
         /\ \A j \in 1..Len(s) + 1 : InsertAt(s, i + 1, g)[j] =
              IF j < i + 1 THEN s[j] ELSE IF j = i + 1 THEN g ELSE s[j - 1]
    BY <1>23, <1>25, <1>26
  <1>6. cs \in Seq(PageId) /\ Len(cs) = n + 1
        /\ \A j \in 1..n + 1 : cs[j] =
             IF j < i + 1 THEN node.children[j] ELSE IF j = i + 1 THEN g ELSE node.children[j - 1]
    BY <1>5, <1>20, <1>21, <1>22
  <1>7. new = [node EXCEPT !.children = cs]
    BY <1>5 DEF WithChild
  <1>8. /\ new \in Node /\ new.leaf = node.leaf /\ new.keys = node.keys /\ new.children = cs
        /\ new.values = node.values /\ new.next = node.next
    BY <1>1, <1>6, <1>7 DEF Node
  <1>9. node.values = <<>> /\ node.next = NoPage /\ ~node.leaf
    BY DEF Open
  <1>10. \A j \in DOMAIN cs : cs[j] \in S
    <2>1. DOMAIN cs = 1..n + 1 /\ DOMAIN node.children = 1..n
      BY <1>2, <1>3, <1>6, SeqDomain
    <2>2. \A j \in 1..n : node.children[j] \in S
      BY <2>1 DEF Open, Closed
    <2>3. ASSUME NEW j \in 1..n + 1 PROVE cs[j] \in S
      <3>1. CASE j < i + 1
        <4>1. j \in 1..n /\ cs[j] = node.children[j]
          BY <3>1, <1>4, <1>6
        <4>2. QED BY <4>1, <2>2
      <3>2. CASE j = i + 1
        BY <3>2, <1>6
      <3>3. CASE j > i + 1
        <4>1. j - 1 \in 1..n /\ cs[j] = node.children[j - 1]
          BY <3>3, <1>4, <1>6
        <4>2. QED BY <4>1, <2>2
      <3>4. QED BY <3>1, <3>2, <3>3
    <2>4. QED BY <2>1, <2>3
  <1>11. Sound(new, S)
    BY <1>3, <1>6, <1>8, <1>9, <1>10 DEF Sound, Shaped, Closed, Open
  <1>12. Size(new) = Size(node) + 1
    <2>1. PICK a \in Nat : a = Weight(node.values)
      BY <1>1, NodeFields
    <2>2. Size(node) = n + n + a /\ Size(new) = n + (n + 1) + a
      BY <2>1, <1>3, <1>6, <1>8 DEF Size
    <2>3. QED BY <2>2
  <1>13. QED BY <1>3, <1>4, <1>5, <1>6, <1>8, <1>9, <1>11, <1>12

\* The path with another last node is as good as that node.
LEMMA PathEdit ==
  ASSUME NEW p \in Seq(Frame), p # <<>>, NEW new \in Node, NEW q, q = Put(p, new),
         NEW S, \A j \in DOMAIN p : j # Len(p) => p[j].id \in S /\ Sound(p[j].node, S),
         p[Len(p)].id \in S, NEW c, IF c \in Parting THEN Open(new, S) ELSE Sound(new, S)
  PROVE  /\ q \in Seq(Frame) /\ q # <<>> /\ TopOf(q) = new
         /\ \A j \in DOMAIN q :
              q[j].id \in S /\ IF c \in Parting /\ j = Len(q) THEN Open(q[j].node, S) ELSE Sound(q[j].node, S)
  <1>1. /\ q \in Seq(Frame) /\ q # <<>> /\ Len(q) = Len(p) /\ TopOf(q) = new
        /\ q[Len(p)].id = p[Len(p)].id /\ q[Len(p)].node = new
        /\ DOMAIN q = DOMAIN p /\ \A j \in DOMAIN p : j # Len(p) => q[j] = p[j]
    BY PathWith
  <1>2. ASSUME NEW j \in DOMAIN q
        PROVE  q[j].id \in S /\ IF c \in Parting /\ j = Len(q) THEN Open(q[j].node, S) ELSE Sound(q[j].node, S)
    <2>1. CASE j = Len(p)
      BY <2>1, <1>1
    <2>2. CASE j # Len(p)
      BY <2>2, <1>1
    <2>3. QED BY <2>1, <2>2
  <1>3. QED BY <1>1, <1>2

\* SplitRead.
LEMMA WriterSplit ==
  ASSUME NEW o, NEW p, NEW i, NEW g, NEW kd, NEW sb, NEW S, NEW n,
         WriterInv("split", o, p, i, g, kd, sb, S, n), NEW child, Sound(child, S), child.keys # <<>>,
         NEW q, q = [p EXCEPT ![Len(p)].node.keys = InsertAt(@, i, child.keys[Middle(child)])]
  PROVE  /\ WriterInv("splitAlloc", o, q, i, g, LeftHalf(child), RightHalf(child), S, n)
         /\ TopOf(q) = [TopOf(p) EXCEPT !.keys = InsertAt(@, i, child.keys[Middle(child)])]
         /\ q = Put(p, TopOf(q)) /\ TopOf(q) \in Node
  <1>1. p \in Seq(Frame) /\ p # <<>> /\ p[Len(p)].id \in S /\ Sound(TopOf(p), S)
    BY TopSound DEF Walking, Parting
  <1>2. ~TopOf(p).leaf /\ i \in 1..Len(TopOf(p).children) /\ g <= n /\ o \in [key : Keys, val : Value]
        /\ \A j \in DOMAIN p : p[j].id \in S /\ Sound(p[j].node, S)
    BY DEF WriterInv, Parting, Walking
  <1>3. PICK k \in Keys : k = child.keys[Middle(child)]
    BY MiddleRange DEF Sound, Closed
  <1>4. PICK new : new = [TopOf(p) EXCEPT !.keys = InsertAt(@, i, k)]
    OBVIOUS
  <1>5. Open(new, S) /\ new \in Node /\ ~new.leaf /\ new.children = TopOf(p).children
    BY <1>1, <1>2, <1>4, ParentSplit
  <1>6. q = Put(p, new)
    BY <1>3, <1>4 DEF TopOf, Put
  <1>7. "splitAlloc" \in Parting
    BY DEF Parting
  <1>8. /\ q \in Seq(Frame) /\ q # <<>> /\ TopOf(q) = new
        /\ \A j \in DOMAIN q : q[j].id \in S /\ IF "splitAlloc" \in Parting /\ j = Len(q)
                                                 THEN Open(q[j].node, S) ELSE Sound(q[j].node, S)
    BY <1>1, <1>2, <1>5, <1>6, <1>7, PathEdit
  <1>9. Sound(LeftHalf(child), S) /\ Sound(RightHalf(child), S)
    BY HalvesSound
  <1>10. WriterInv("splitAlloc", o, q, i, g, LeftHalf(child), RightHalf(child), S, n)
    BY <1>2, <1>5, <1>8, <1>9 DEF WriterInv, Walking
  <1>11. QED BY <1>3, <1>4, <1>5, <1>6, <1>8, <1>10

\* The left half of a leaf is linked to the right one.
WithNext(node, g) == [node EXCEPT !.next = IF node.leaf THEN g ELSE @]

\* SaveNew.
LEMMA WriterSaveNew ==
  ASSUME NEW o, NEW p, NEW i, NEW g, NEW kd, NEW sb, NEW S, NEW n, S \subseteq Nat, g \in S,
         WriterInv("saveNew", o, p, i, g, kd, sb, S, n),
         NEW q, q = Put(p, WithChild(TopOf(p), i, g)), NEW kk, kk = WithNext(kd, g)
  PROVE  /\ WriterInv("saveChild", o, q, i, g, kk, sb, S, n)
         /\ TopOf(q) = WithChild(TopOf(p), i, g) /\ TopOf(q) \in Node
  <1>1. p \in Seq(Frame) /\ p # <<>> /\ p[Len(p)].id \in S /\ Open(TopOf(p), S)
    BY TopSound DEF Walking, Parting
  <1>2. ~TopOf(p).leaf /\ i \in 1..Len(TopOf(p).children) /\ g <= n /\ o \in [key : Keys, val : Value]
        /\ \A j \in DOMAIN p : p[j].id \in S /\ (j # Len(p) => Sound(p[j].node, S))
    BY DEF WriterInv, Parting, Walking
  <1>3. PICK new : new = WithChild(TopOf(p), i, g)
    OBVIOUS
  <1>4. Sound(new, S) /\ new \in Node /\ ~new.leaf /\ i \in 1..Len(new.keys)
    <2>1. PICK t : t = TopOf(p)
      OBVIOUS
    <2>2. Open(t, S) /\ i \in 1..Len(t.children) /\ g \in S /\ S \subseteq Nat
      BY <2>1, <1>1, <1>2
    <2>3. new = WithChild(t, i, g)
      BY <2>1, <1>3
    <2>4. QED BY <2>2, <2>3, ParentSplitDone
  <1>5. q = Put(p, new)
    BY <1>3
  <1>6. "saveChild" \notin Parting
    BY DEF Parting
  <1>7. /\ q \in Seq(Frame) /\ q # <<>> /\ TopOf(q) = new
        /\ \A j \in DOMAIN q : q[j].id \in S /\ IF "saveChild" \in Parting /\ j = Len(q)
                                                 THEN Open(q[j].node, S) ELSE Sound(q[j].node, S)
    BY <1>1, <1>2, <1>4, <1>5, <1>6, PathEdit
  <1>8. Sound(kk, S)
    <2>1. Sound(kd, S) /\ kd \in Node
      BY DEF WriterInv, Sound, Closed
    <2>2. PICK x : x = IF kd.leaf THEN g ELSE kd.next
      OBVIOUS
    <2>3. x \in S \cup {NoPage} /\ x \in PageId \cup {NoPage} /\ (~kd.leaf => x = kd.next)
      BY <2>1, <2>2 DEF Sound, Closed, PageId, Node
    <2>4. kk = [kd EXCEPT !.next = x]
      BY <2>2 DEF WithNext
    <2>5. /\ kk \in Node /\ kk.leaf = kd.leaf /\ kk.keys = kd.keys /\ kk.children = kd.children
          /\ kk.values = kd.values /\ kk.next = x
      BY <2>1, <2>3, <2>4 DEF Node
    <2>6. ~kd.leaf => kk = kd
      BY <2>1, <2>3, <2>5 DEF Node
    <2>7. CASE kd.leaf
      BY <2>1, <2>3, <2>5, <2>7 DEF Sound, Closed, Shaped
    <2>8. QED BY <2>1, <2>6, <2>7
  <1>9. Sound(sb, S)
    BY DEF WriterInv
  <1>10. WriterInv("saveChild", o, q, i, g, kk, sb, S, n)
    BY <1>2, <1>4, <1>7, <1>8, <1>9 DEF WriterInv, Walking, Parting
  <1>11. QED BY <1>3, <1>4, <1>5, <1>7, <1>10

\* SaveChild.
LEMMA WriterSaveChild ==
  ASSUME NEW o, NEW p, NEW i, NEW g, NEW kd, NEW sb, NEW S, NEW n,
         WriterInv("saveChild", o, p, i, g, kd, sb, S, n), NEW c, c \in {"saveRoot", "enter"}
  PROVE  WriterInv(c, o, p, i, g, kd, sb, S, n)
  BY DEF WriterInv, Parting, Walking

\* SaveRoot.
LEMMA WriterSaveRoot ==
  ASSUME NEW o, NEW p, NEW i, NEW g, NEW kd, NEW sb, NEW S, NEW n,
         WriterInv("saveRoot", o, p, i, g, kd, sb, S, n)
  PROVE  WriterInv("reread", o, p, i, g, kd, sb, S, n)
  BY DEF WriterInv, Parting, Walking

\* VisitLeaf.
LEMMA WriterLeaf ==
  ASSUME NEW o, NEW p, NEW i, NEW g, NEW kd, NEW sb, NEW S, NEW n,
         WriterInv("visit", o, p, i, g, kd, sb, S, n), TopOf(p).leaf,
         NEW new \in LeafWith(TopOf(p), o.key, o.val), NEW q, q = Put(p, new)
  PROVE  WriterInv("unwind", o, q, i, g, kd, sb, S, n) /\ TopOf(q) = new
  <1>1. p \in Seq(Frame) /\ p # <<>> /\ p[Len(p)].id \in S /\ Sound(TopOf(p), S)
    BY TopSound DEF Walking, Parting
  <1>2. g <= n /\ o \in [key : Keys, val : Value] /\ Sound(kd, S) /\ Sound(sb, S)
        /\ \A j \in DOMAIN p : p[j].id \in S /\ Sound(p[j].node, S)
    BY DEF WriterInv, Parting, Walking
  <1>3. Sound(new, S) /\ new \in Node
    BY <1>1, <1>2, LeafWithFacts, ZenonT(40) DEF Sound, Closed
  <1>4. "unwind" \notin Parting
    BY DEF Parting
  <1>5. /\ q \in Seq(Frame) /\ q # <<>> /\ TopOf(q) = new
        /\ \A j \in DOMAIN q : q[j].id \in S /\ IF "unwind" \in Parting /\ j = Len(q)
                                                 THEN Open(q[j].node, S) ELSE Sound(q[j].node, S)
    BY <1>1, <1>2, <1>3, <1>4, PathEdit
  <1>6. QED BY <1>2, <1>5 DEF WriterInv, Walking, Parting

\* VisitInternal chooses a child.
LEMMA WriterChoose ==
  ASSUME NEW o, NEW p, NEW i, NEW g, NEW kd, NEW sb, NEW S, NEW n,
         WriterInv("visit", o, p, i, g, kd, sb, S, n), ~TopOf(p).leaf,
         NEW j \in 1..Len(TopOf(p).children)
  PROVE  /\ WriterInv("split", o, p, j, g, kd, sb, S, n)
         /\ WriterInv("visit", o, p, j, g, kd, sb, S, n)
  BY DEF WriterInv, Walking, Parting

\* VisitInternal and Enter go down to a child.
LEMMA WriterEnter ==
  ASSUME NEW c, c \in {"visit", "enter"}, NEW o, NEW p, NEW i, NEW g, NEW kd, NEW sb, NEW S, NEW n,
         S \subseteq Nat, WriterInv(c, o, p, i, g, kd, sb, S, n), NEW id \in S, NEW node, Sound(node, S),
         NEW q, q = Append(p, [id |-> id, node |-> node])
  PROVE  WriterInv("visit", o, q, i, g, kd, sb, S, n)
  <1>1. PICK f : f = [id |-> id, node |-> node]
    OBVIOUS
  <1>2. f \in Frame /\ f.id = id /\ f.node = node
    BY <1>1 DEF Frame, PageId, Sound, Closed
  <1>3. p \in Seq(Frame) /\ \A j \in DOMAIN p : p[j].id \in S /\ Sound(p[j].node, S)
    BY DEF WriterInv, Parting
  <1>4. /\ q \in Seq(Frame) /\ q # <<>> 
        /\ \A j \in DOMAIN q : (j \in DOMAIN p /\ q[j] = p[j]) \/ (j = Len(p) + 1 /\ q[j] = f)
    BY <1>1, <1>2, <1>3, PathAppend
  <1>5. \A j \in DOMAIN q : q[j].id \in S /\ Sound(q[j].node, S)
    BY <1>2, <1>3, <1>4
  <1>6. QED BY <1>4, <1>5 DEF WriterInv, Walking, Parting

\* Both halves of a split are children of the parent.
LEMMA EnterRange ==
  ASSUME NEW o, NEW p, NEW i, NEW g, NEW kd, NEW sb, NEW S, NEW n,
         WriterInv("enter", o, p, i, g, kd, sb, S, n), NEW j \in {i, i + 1}
  PROVE  j \in 1..Len(TopOf(p).children) /\ j \in DOMAIN TopOf(p).children /\ TopOf(p).children[j] \in S
  <1>0. "enter" \in Walking /\ "enter" \notin Parting
    BY DEF Walking, Parting
  <1>01. Sound(TopOf(p), S)
    BY <1>0, TopSound
  <1>1. Sound(TopOf(p), S) /\ ~TopOf(p).leaf /\ i \in 1..Len(TopOf(p).keys)
    BY <1>01 DEF WriterInv
  <1>2. PICK t : t = TopOf(p)
    OBVIOUS
  <1>3. Sound(t, S) /\ ~t.leaf /\ i \in 1..Len(t.keys) /\ t \in Node
    BY <1>1, <1>2 DEF Sound, Closed
  <1>4. t.keys \in Seq(Keys) /\ t.children \in Seq(PageId)
    BY <1>3, NodeFields
  <1>5. t.keys # <<>>
    BY <1>3, <1>4, RangeNotEmpty
  <1>6. PICK m \in Nat : m = Len(t.keys) /\ Len(t.children) = m + 1
    BY <1>3, <1>5, InnerSize, NodeFields
  <1>7. i \in 1..m /\ j \in 1..m + 1
    BY <1>3, <1>6
  <1>8. DOMAIN t.children = 1..m + 1
    BY <1>4, <1>6, SeqDomain
  <1>9. t.children[j] \in S
    BY <1>3, <1>7, <1>8 DEF Sound, Closed
  <1>10. QED BY <1>2, <1>6, <1>7, <1>8, <1>9

\* Unwind.
LEMMA WriterUnwind ==
  ASSUME NEW o, NEW p, NEW i, NEW g, NEW kd, NEW sb, NEW S, NEW n,
         WriterInv("unwind", o, p, i, g, kd, sb, S, n), Len(p) > 1, NEW q, q = Front(p)
  PROVE  WriterInv("unwind", o, q, i, g, kd, sb, S, n)
  <1>1. p \in Seq(Frame)
    BY DEF WriterInv
  <1>2. q \in Seq(Frame) /\ q # <<>> /\ \A j \in DOMAIN q : j \in DOMAIN p /\ q[j] = p[j]
    BY <1>1, PathFront
  <1>3. QED BY <1>2 DEF WriterInv, Walking, Parting

-----------------------------------------------------------------------------
(* Steps.                                                                  *)

\* A step of writer w: what its locals are afterwards.
Moved(w, c, o, gr, p, i, g, kd, sb) ==
  /\ pc' = [pc EXCEPT ![w] = c] /\ op' = [op EXCEPT ![w] = o]
  /\ growing' = [growing EXCEPT ![w] = gr] /\ path' = [path EXCEPT ![w] = p]
  /\ idx' = [idx EXCEPT ![w] = i] /\ page' = [page EXCEPT ![w] = g]
  /\ kid' = [kid EXCEPT ![w] = kd] /\ sib' = [sib EXCEPT ![w] = sb]

\* A step of the pages: none is lost and all are sound.
PagesGrow == PagesOK' /\ D \subseteq D' /\ num_pages <= num_pages'

\* Pages are numbered from 0 to their number less 1.
LEMMA CardPages ==
  ASSUME NEW f, NEW n \in Nat, DOMAIN f = 0..n - 1
  PROVE  Cardinality(DOMAIN f) = n
  <1>1. 0 \in Int /\ n - 1 \in Int
    OBVIOUS
  <1>2. Cardinality(0..n - 1) = IF 0 > n - 1 THEN 0 ELSE (n - 1) - 0 + 1
    BY <1>1, FS_Interval
  <1>3. (n - 1) - 0 + 1 = n /\ (0 > n - 1 => n = 0)
    OBVIOUS
  <1>4. QED BY <1>2, <1>3

\* Writing a sound node that fits, in place or at the end of the file.
LEMMA PagesStep ==
  ASSUME PagesOK, NEW id, id \in 0..num_pages, NEW node, Sound(node, D), Fits(node), WritePage(id, node)
  PROVE  /\ PagesGrow /\ id \in D' /\ id < num_pages'
         /\ D' = D \cup {id} /\ pages'[id] = node /\ \A p \in D : p # id => pages'[p] = pages[p]
         /\ (id \in D => num_pages' = num_pages) /\ (id \notin D => id = num_pages /\ num_pages' = num_pages + 1)
  <1>1. PICK n \in Nat : n = num_pages
    BY DEF PagesOK
  <1>2. D = 0..n - 1 /\ Root \in D /\ n > 0
    BY <1>1 DEF PagesOK, Root
  <1>3. pages' = [p \in D \cup {id} |-> IF p = id THEN node ELSE pages[p]]
    BY DEF WritePage, D
  <1>4. D' = D \cup {id} /\ pages'[id] = node /\ \A p \in D : p # id => pages'[p] = pages[p]
    BY <1>3 DEF D
  <1>5. PICK m \in Nat : m = IF id = n THEN n + 1 ELSE n
    BY <1>1
  <1>6. D' = 0..m - 1
    <2>1. id \in 0..n
      BY <1>1
    <2>2. CASE id = n
      <3>1. (0..n - 1) \cup {n} = 0..n /\ m - 1 = n
        BY <1>5, <2>2
      <3>2. QED BY <3>1, <2>2, <1>2, <1>4
    <2>3. CASE id # n
      <3>1. id \in 0..n - 1 /\ m = n
        BY <2>1, <2>3, <1>5
      <3>2. QED BY <3>1, <1>2, <1>4
    <2>4. QED BY <2>2, <2>3
  <1>7. num_pages' = m
    <2>1. PICK f : f = pages'
      OBVIOUS
    <2>2. DOMAIN f = 0..m - 1
      BY <2>1, <1>6 DEF D
    <2>3. Cardinality(DOMAIN f) = m
      BY <2>2, CardPages
    <2>4. QED BY <2>1, <2>3 DEF num_pages
  <1>8. D \subseteq D' /\ n <= m /\ id \in D' /\ id < m
    BY <1>1, <1>4, <1>5
  <1>9. \A p \in D' : Sound(pages'[p], D') /\ Fits(pages'[p])
    <2>1. \A x : Sound(x, D) => Sound(x, D')
      BY <1>8, Monotone
    <2>2. ASSUME NEW p \in D' PROVE Sound(pages'[p], D') /\ Fits(pages'[p])
      <3>1. CASE p = id
        BY <3>1, <2>1, <1>4
      <3>2. CASE p # id
        <4>1. p \in D /\ pages'[p] = pages[p]
          BY <3>2, <1>4
        <4>2. Sound(pages[p], D) /\ Fits(pages[p])
          BY <4>1 DEF PagesOK
        <4>3. QED BY <4>1, <4>2, <2>1
      <3>3. QED BY <3>1, <3>2
    <2>3. QED BY <2>2
  <1>10. PagesOK'
    <2>1. num_pages' \in Nat /\ D' = 0..num_pages' - 1 /\ Root \in D'
      BY <1>2, <1>6, <1>7, <1>8
    <2>2. pages' \in [D' -> Node]
      <3>1. node \in Node /\ pages \in [D -> Node]
        BY DEF PagesOK, Sound, Closed
      <3>2. QED BY <3>1, <1>3, <1>4
    <2>3. QED BY <2>1, <2>2, <1>9 DEF PagesOK
  <1>11. (id \in D => m = n) /\ (id \notin D => id = n /\ m = n + 1)
    BY <1>1, <1>2, <1>5
  <1>12. QED BY <1>1, <1>4, <1>7, <1>8, <1>10, <1>11 DEF PagesGrow

\* A step that writes no page.
LEMMA PagesSame ==
  ASSUME PagesOK, UNCHANGED pages
  PROVE  PagesGrow /\ D' = D /\ num_pages' = num_pages
  <1>1. D' = D /\ num_pages' = num_pages
    BY DEF D, num_pages
  <1>5. \A p \in D' : Sound(pages'[p], D') /\ Fits(pages'[p])
    BY <1>1 DEF PagesOK
  <1>2. PagesOK'
    BY <1>1, <1>5 DEF PagesOK
  <1>3. num_pages \in Nat
    BY DEF PagesOK
  <1>4. QED BY <1>1, <1>2, <1>3 DEF PagesGrow

\* A step of one writer keeps what holds of all of them.
LEMMA MovedOK ==
  ASSUME WritersOK, PagesOK, PagesGrow, NEW w \in Writers,
         NEW c \in Labels, NEW o \in [key : Keys, val : Value] \cup {NoOp}, NEW gr \in BOOLEAN, NEW p,
         NEW i \in Nat, NEW g \in Nat, NEW kd, NEW sb,
         Moved(w, c, o, gr, p, i, g, kd, sb), acked' \in [Keys -> Value \cup {NoValue}],
         WriterInv(c, o, p, i, g, kd, sb, D', num_pages')
  PROVE  WritersOK'
  <1>1. p \in Seq(Frame) /\ kd \in Node /\ sb \in Node
    BY DEF WriterInv, Sound, Closed
  <1>2. VarsOK'
    <2>1. pc' \in [Writers -> Labels] /\ op' \in [Writers -> [key : Keys, val : Value] \cup {NoOp}]
      BY DEF WritersOK, VarsOK, Moved
    <2>2. growing' \in [Writers -> BOOLEAN] /\ path' \in [Writers -> Seq(Frame)]
      BY <1>1 DEF WritersOK, VarsOK, Moved
    <2>3. idx' \in [Writers -> Nat] /\ page' \in [Writers -> Nat]
      BY DEF WritersOK, VarsOK, Moved
    <2>4. kid' \in [Writers -> Node] /\ sib' \in [Writers -> Node]
      BY <1>1 DEF WritersOK, VarsOK, Moved
    <2>5. QED BY <2>1, <2>2, <2>3, <2>4 DEF VarsOK
  <1>3. ASSUME NEW v \in Writers PROVE WriterOK(v)'
    <2>1. CASE v = w
      <3>1. pc'[w] = c /\ op'[w] = o /\ path'[w] = p /\ idx'[w] = i /\ page'[w] = g /\ kid'[w] = kd /\ sib'[w] = sb
        BY DEF WritersOK, VarsOK, Moved
      <3>2. QED BY <3>1, <2>1 DEF WriterOK
    <2>2. CASE v # w
      <3>1. /\ pc'[v] = pc[v] /\ op'[v] = op[v] /\ path'[v] = path[v] /\ idx'[v] = idx[v]
            /\ page'[v] = page[v] /\ kid'[v] = kid[v] /\ sib'[v] = sib[v]
        BY <2>2 DEF WritersOK, VarsOK, Moved
      <3>2. PICK c1, o1, p1, i1, g1, kd1, sb1 : c1 = pc[v] /\ o1 = op[v] /\ p1 = path[v] /\ i1 = idx[v]
              /\ g1 = page[v] /\ kd1 = kid[v] /\ sb1 = sib[v]
        OBVIOUS
      <3>3. PICK S, T, n, m : S = D /\ T = D' /\ n = num_pages /\ m = num_pages'
        OBVIOUS
      <3>4. WriterInv(c1, o1, p1, i1, g1, kd1, sb1, S, n)
        BY <3>2, <3>3 DEF WritersOK, WriterOK
      <3>5. S \subseteq T /\ n <= m /\ n \in Int /\ m \in Int /\ g1 \in Int
        <4>1. num_pages \in Nat /\ num_pages' \in Nat /\ D \subseteq D' /\ num_pages <= num_pages'
          BY DEF PagesGrow, PagesOK
        <4>2. page[v] \in Nat
          BY DEF WritersOK, VarsOK
        <4>3. QED BY <4>1, <4>2, <3>2, <3>3
      <3>6. WriterInv(c1, o1, p1, i1, g1, kd1, sb1, T, m)
        BY <3>4, <3>5, WriterMonotone
      <3>7. QED BY <3>1, <3>2, <3>3, <3>6 DEF WriterOK
    <2>3. QED BY <2>1, <2>2
  <1>4. QED BY <1>2, <1>3 DEF WritersOK

\* A step within an insert.
LEMMA CountKeep ==
  ASSUME CountOK, NEW w \in Writers, pc \in [Writers -> Labels], pc[w] # "idle", NEW c, c # "idle",
         pc' = [pc EXCEPT ![w] = c], UNCHANGED <<inserts, errors>>
  PROVE  CountOK'
  <1>1. Busy' = Busy
    BY DEF Busy
  <1>2. QED BY <1>1 DEF CountOK

\* The first step of an insert.
LEMMA CountStart ==
  ASSUME CountOK, NEW w \in Writers, pc \in [Writers -> Labels], pc[w] = "idle", NEW c, c # "idle",
         pc' = [pc EXCEPT ![w] = c], inserts < MaxInserts, inserts' = inserts + 1, UNCHANGED errors
  PROVE  CountOK'
  <1>1. Busy' = Busy \cup {w} /\ w \notin Busy
    BY DEF Busy
  <1>2. IsFiniteSet(Busy \cup {w}) /\ Cardinality(Busy \cup {w}) = Cardinality(Busy) + 1
    BY <1>1, FS_AddElement DEF CountOK
  <1>3. Cardinality(Busy) \in Nat
    BY FS_CardinalityType DEF CountOK
  <1>4. PICK b, e, i \in Nat : b = Cardinality(Busy) /\ e = errors /\ i = inserts
    BY <1>3 DEF CountOK
  <1>5. e + b <= i /\ i < MaxInserts
    BY <1>4 DEF CountOK
  <1>6. e + (b + 1) <= i + 1 /\ i + 1 \in 0..MaxInserts
    BY <1>5, InsertAssumption
  <1>7. QED BY <1>1, <1>2, <1>4, <1>6 DEF CountOK

\* The last step of an insert.
LEMMA CountEnd ==
  ASSUME CountOK, NEW w \in Writers, pc \in [Writers -> Labels], pc[w] # "idle",
         pc' = [pc EXCEPT ![w] = "idle"], errors' \in {errors, errors + 1}, UNCHANGED inserts
  PROVE  CountOK'
  <1>1. Busy' = Busy \ {w} /\ w \in Busy
    BY DEF Busy
  <1>2. IsFiniteSet(Busy \ {w}) /\ Cardinality(Busy \ {w}) = Cardinality(Busy) - 1
    BY <1>1, FS_RemoveElement DEF CountOK
  <1>3. Cardinality(Busy) \in Nat
    BY FS_CardinalityType DEF CountOK
  <1>4. PICK b, e, i \in Nat : b = Cardinality(Busy) /\ e = errors /\ i = inserts
    BY <1>3 DEF CountOK
  <1>5. e + b <= i
    BY <1>4 DEF CountOK
  <1>6. e + (b - 1) <= i /\ (e + 1) + (b - 1) <= i
    BY <1>5
  <1>7. errors' \in Nat /\ errors' + (b - 1) <= i
    BY <1>6, <1>4
  <1>8. Busy' = Busy \ {w} /\ IsFiniteSet(Busy') /\ Cardinality(Busy') = b - 1
    BY <1>1, <1>2, <1>4
  <1>9. QED BY <1>4, <1>7, <1>8 DEF CountOK

\* A local that is set to itself does not change.
LEMMA Stays ==
  ASSUME VarsOK, NEW w \in Writers
  PROVE  /\ [pc EXCEPT ![w] = pc[w]] = pc /\ [op EXCEPT ![w] = op[w]] = op
         /\ [growing EXCEPT ![w] = growing[w]] = growing /\ [path EXCEPT ![w] = path[w]] = path
         /\ [idx EXCEPT ![w] = idx[w]] = idx /\ [page EXCEPT ![w] = page[w]] = page
         /\ [kid EXCEPT ![w] = kid[w]] = kid /\ [sib EXCEPT ![w] = sib[w]] = sib
  BY DEF VarsOK

\* The invariant at writer w, before the step and with the pages after it.
LEMMA Here ==
  ASSUME TypeInv, PagesGrow, NEW w \in Writers
  PROVE  /\ pc[w] \in Labels /\ op[w] \in [key : Keys, val : Value] \cup {NoOp} /\ growing[w] \in BOOLEAN
         /\ path[w] \in Seq(Frame) /\ idx[w] \in Nat /\ page[w] \in Nat
         /\ WriterInv(pc[w], op[w], path[w], idx[w], page[w], kid[w], sib[w], D, num_pages)
         /\ WriterInv(pc[w], op[w], path[w], idx[w], page[w], kid[w], sib[w], D', num_pages')
         /\ num_pages \in Nat /\ num_pages' \in Nat /\ D \subseteq Nat /\ D' \subseteq Nat /\ Root \in D /\ Root \in D'
  <1>1. /\ pc[w] \in Labels /\ op[w] \in [key : Keys, val : Value] \cup {NoOp} /\ growing[w] \in BOOLEAN
        /\ path[w] \in Seq(Frame) /\ idx[w] \in Nat /\ page[w] \in Nat
    BY DEF TypeInv, WritersOK, VarsOK
  <1>2. num_pages \in Nat /\ num_pages' \in Nat /\ D \subseteq D' /\ num_pages <= num_pages'
        /\ D = 0..num_pages - 1 /\ D' = 0..num_pages' - 1 /\ Root \in D
    BY DEF TypeInv, PagesGrow, PagesOK
  <1>3. PICK c, o, p, i, g, kd, sb, S, T, n, m : c = pc[w] /\ o = op[w] /\ p = path[w] /\ i = idx[w]
          /\ g = page[w] /\ kd = kid[w] /\ sb = sib[w] /\ S = D /\ T = D' /\ n = num_pages /\ m = num_pages'
    OBVIOUS
  <1>4. WriterInv(c, o, p, i, g, kd, sb, S, n)
    BY <1>3 DEF TypeInv, WritersOK, WriterOK
  <1>05. S \subseteq T
    BY <1>2, <1>3
  <1>06. n \in Nat /\ m \in Nat /\ n <= m
    BY <1>2, <1>3
  <1>07. g \in Nat
    BY <1>1, <1>3
  <1>5. S \subseteq T /\ n <= m /\ n \in Int /\ m \in Int /\ g \in Int
    BY <1>05, <1>06, <1>07
  <1>6. WriterInv(c, o, p, i, g, kd, sb, T, m)
    BY <1>4, <1>5, WriterMonotone
  <1>9. \A x \in Nat : 0..x - 1 \subseteq Nat
    OBVIOUS
  <1>7. D \subseteq Nat /\ D' \subseteq Nat /\ Root \in D'
    BY <1>2, <1>9
  <1>8. QED BY <1>1, <1>2, <1>3, <1>4, <1>6, <1>7

\* A step of writer w keeps the invariant when its new locals do.
LEMMA Stepped ==
  ASSUME TypeInv, PagesGrow, CountOK', NEW w \in Writers,
         NEW c \in Labels, NEW o \in [key : Keys, val : Value] \cup {NoOp}, NEW gr \in BOOLEAN, NEW p,
         NEW i \in Nat, NEW g \in Nat, NEW kd, NEW sb,
         Moved(w, c, o, gr, p, i, g, kd, sb), acked' \in [Keys -> Value \cup {NoValue}],
         WriterInv(c, o, p, i, g, kd, sb, D', num_pages')
  PROVE  TypeInv'
  <1>1. WritersOK'
    BY MovedOK DEF TypeInv
  <1>2. QED BY <1>1 DEF TypeInv, PagesGrow

\* A page that is read is a sound node.
LEMMA PageRead ==
  ASSUME TypeInv, NEW p \in D
  PROVE  Sound(pages[p], D) /\ pages[p] \in Node /\ Fits(pages[p])
  BY DEF TypeInv, PagesOK, Sound, Closed

\* Nothing was acknowledged.
LEMMA AckedSame ==
  ASSUME TypeInv, UNCHANGED acked
  PROVE  acked' \in [Keys -> Value \cup {NoValue}]
  BY DEF TypeInv, WritersOK, VarsOK

\* Insert keeps the invariant.
LEMMA InsertType ==
  ASSUME TypeInv, NEW w \in Writers, NEW k \in Keys, NEW wt \in Weights, Insert(w, k, wt)
  PROVE  TypeInv'
  <1>1. PagesGrow
    BY PagesSame DEF Insert, TypeInv
  <1>2. PICK o : o = [key |-> k, val |-> [n |-> inserts + 1, w |-> wt]]
    OBVIOUS
  <1>3. o \in [key : Keys, val : Value]
    <2>1. inserts + 1 \in Nat \ {0}
      BY DEF TypeInv, CountOK
    <2>2. QED BY <2>1, <1>2 DEF Value
  <1>4. PICK gr, p, i, g, kd, sb : gr = growing[w] /\ p = path[w] /\ i = idx[w] /\ g = page[w]
          /\ kd = kid[w] /\ sb = sib[w]
    OBVIOUS
  <1>5. Moved(w, "start", o, gr, p, i, g, kd, sb)
    BY <1>2, <1>4, Stays DEF Insert, Goto, Moved, TypeInv, WritersOK
  <1>6. WriterInv("start", o, p, i, g, kd, sb, D', num_pages')
    <2>1. PICK oo, S, n : oo = op[w] /\ S = D' /\ n = num_pages'
      OBVIOUS
    <2>2. WriterInv("idle", oo, p, i, g, kd, sb, S, n)
      BY <2>1, <1>1, <1>4, Here DEF Insert
    <2>3. WriterInv("start", o, p, i, g, kd, sb, S, n)
      BY <2>2, <1>3, WriterInsert
    <2>4. QED BY <2>1, <2>3
  <1>7. CountOK'
    <2>1. pc \in [Writers -> Labels] /\ CountOK
      BY DEF TypeInv, WritersOK, VarsOK
    <2>2. pc[w] = "idle" /\ pc' = [pc EXCEPT ![w] = "start"] /\ inserts < MaxInserts /\ inserts' = inserts + 1
          /\ UNCHANGED errors
      BY DEF Insert, Goto
    <2>3. QED BY <2>1, <2>2, CountStart
  <1>8. "start" \in Labels /\ gr \in BOOLEAN /\ i \in Nat /\ g \in Nat
    BY <1>1, <1>4, Here DEF Labels
  <1>9. acked' \in [Keys -> Value \cup {NoValue}]
    BY AckedSame DEF Insert
  <1>10. QED BY <1>1, <1>3, <1>5, <1>6, <1>7, <1>8, <1>9, Stepped

\* A step within an insert keeps the invariant when the new locals do.
LEMMA Continues ==
  ASSUME TypeInv, PagesGrow, NEW w \in Writers, pc[w] # "idle",
         NEW c \in Labels \ {"idle"}, NEW o \in [key : Keys, val : Value] \cup {NoOp}, NEW gr \in BOOLEAN, NEW p,
         NEW i \in Nat, NEW g \in Nat, NEW kd, NEW sb,
         Moved(w, c, o, gr, p, i, g, kd, sb), UNCHANGED history,
         WriterInv(c, o, p, i, g, kd, sb, D', num_pages')
  PROVE  TypeInv'
  <1>1. UNCHANGED acked /\ UNCHANGED <<inserts, errors>>
    BY DEF history
  <1>2. CountOK'
    <2>1. pc \in [Writers -> Labels] /\ CountOK
      BY DEF TypeInv, WritersOK, VarsOK
    <2>2. pc' = [pc EXCEPT ![w] = c]
      BY DEF Moved
    <2>3. QED BY <2>1, <2>2, <1>1, CountKeep
  <1>3. acked' \in [Keys -> Value \cup {NoValue}]
    BY <1>1, AckedSame
  <1>4. QED BY <1>2, <1>3, Stepped

\* So does the last step of an insert.
LEMMA Ended ==
  ASSUME TypeInv, PagesGrow, NEW w \in Writers, pc[w] # "idle", Return(w),
         errors' \in {errors, errors + 1}, UNCHANGED inserts, acked' \in [Keys -> Value \cup {NoValue}]
  PROVE  TypeInv'
  <1>1. Moved(w, "idle", NoOp, FALSE, <<>>, 0, 0, Blank, Blank)
    BY DEF Return, Goto, Moved
  <1>2. CountOK'
    <2>1. pc \in [Writers -> Labels] /\ CountOK
      BY DEF TypeInv, WritersOK, VarsOK
    <2>2. pc' = [pc EXCEPT ![w] = "idle"]
      BY DEF Return, Goto
    <2>3. QED BY <2>1, <2>2, CountEnd
  <1>3. PICK S, n : S = D' /\ n = num_pages'
    OBVIOUS
  <1>4. n \in Nat
    BY <1>3, Here
  <1>5. WriterInv("idle", NoOp, <<>>, 0, 0, Blank, Blank, S, n)
    BY <1>4, WriterIdle
  <1>6. "idle" \in Labels /\ 0 \in Nat
    BY DEF Labels
  <1>7. PICK o, p, kd, sb : o = NoOp /\ p = <<>> /\ kd = Blank /\ sb = Blank
    OBVIOUS
  <1>8. Moved(w, "idle", o, FALSE, p, 0, 0, kd, sb) /\ WriterInv("idle", o, p, 0, 0, kd, sb, D', num_pages')
    BY <1>1, <1>3, <1>5, <1>7
  <1>9. o \in [key : Keys, val : Value] \cup {NoOp}
    BY <1>7
  <1>10. QED BY <1>2, <1>6, <1>8, <1>9, Stepped

\* ReadRoot keeps the invariant.
LEMMA ReadRootType ==
  ASSUME TypeInv, NEW w \in Writers, ReadRoot(w)
  PROVE  TypeInv'
  <1>1. PagesGrow
    BY PagesSame DEF ReadRoot, TypeInv
  <1>2. PICK o, gr, p, i, g, kd, sb : o = op[w] /\ gr = growing[w] /\ p = path[w] /\ i = idx[w] /\ g = page[w]
          /\ kd = kid[w] /\ sb = sib[w]
    OBVIOUS
  <1>3. PICK S, n, root : S = D' /\ n = num_pages' /\ root = pages[Root]
    OBVIOUS
  <1>4. /\ o \in [key : Keys, val : Value] \cup {NoOp} /\ gr \in BOOLEAN /\ i \in Nat /\ g \in Nat
        /\ WriterInv("start", o, p, i, g, kd, sb, S, n) /\ S \subseteq Nat /\ Root \in S
    BY <1>1, <1>2, <1>3, Here DEF ReadRoot
  <1>5. Sound(root, S)
    <2>1. Sound(root, D) /\ D' = D
      BY <1>1, <1>3, Here, PageRead, PagesSame DEF ReadRoot, TypeInv
    <2>2. QED BY <2>1, <1>3
  <1>6. UNCHANGED history /\ pc[w] # "idle"
    BY DEF ReadRoot
  <1>7. CASE is_full(root)
    <2>1. Moved(w, "growAlloc", o, TRUE, p, i, g, root, sb)
      BY <1>2, <1>3, <1>7, Stays DEF ReadRoot, Goto, Moved, TypeInv, WritersOK
    <2>2. WriterInv("growAlloc", o, p, i, g, root, sb, S, n)
      BY <1>4, <1>5, WriterGrow
    <2>3. WriterInv("growAlloc", o, p, i, g, root, sb, D', num_pages')
      BY <2>2, <1>3
    <2>4. "growAlloc" \in Labels \ {"idle"}
      BY DEF Labels
    <2>5. QED BY <2>1, <2>3, <2>4, <1>1, <1>4, <1>6, Continues
  <1>8. CASE ~is_full(root)
    <2>1. PICK q : q = <<[id |-> Root, node |-> root]>>
      OBVIOUS
    <2>2. Moved(w, "visit", o, gr, q, i, g, kd, sb)
      BY <1>2, <1>3, <1>8, <2>1, Stays DEF ReadRoot, Goto, Moved, TypeInv, WritersOK
    <2>3. WriterInv("visit", o, q, i, g, kd, sb, S, n)
      BY <2>1, <1>4, <1>5, WriterRoot
    <2>4. WriterInv("visit", o, q, i, g, kd, sb, D', num_pages')
      BY <2>3, <1>3
    <2>5. "visit" \in Labels \ {"idle"}
      BY DEF Labels, Walking
    <2>6. QED BY <2>2, <2>4, <2>5, <1>1, <1>4, <1>6, Continues
  <1>9. QED BY <1>7, <1>8

\* AllocatePage keeps the invariant.
LEMMA AllocateType ==
  ASSUME TypeInv, NEW w \in Writers, NEW c, NEW d,
         <<c, d>> \in {<<"growAlloc", "growBlank">>, <<"splitAlloc", "splitBlank">>}, AllocatePage(w, c, d)
  PROVE  TypeInv'
  <1>1. PagesGrow
    BY PagesSame DEF AllocatePage, TypeInv
  <1>2. PICK o, gr, p, i, g, kd, sb : o = op[w] /\ gr = growing[w] /\ p = path[w] /\ i = idx[w] /\ g = page[w]
          /\ kd = kid[w] /\ sb = sib[w]
    OBVIOUS
  <1>3. PICK S, n : S = D' /\ n = num_pages'
    OBVIOUS
  <1>31. pc[w] = c
    BY DEF AllocatePage
  <1>4. /\ o \in [key : Keys, val : Value] \cup {NoOp} /\ gr \in BOOLEAN /\ i \in Nat /\ n \in Nat
        /\ WriterInv(c, o, p, i, g, kd, sb, S, n)
    BY <1>1, <1>2, <1>3, <1>31, Here
  <1>5. num_pages = n
    BY <1>3, PagesSame DEF AllocatePage, TypeInv
  <1>6. UNCHANGED history /\ pc[w] # "idle"
    BY DEF AllocatePage
  <1>7. Moved(w, d, o, gr, p, i, n, kd, sb)
    BY <1>2, <1>5, Stays DEF AllocatePage, Goto, Moved, TypeInv, WritersOK
  <1>8. WriterInv(d, o, p, i, n, kd, sb, S, n)
    BY <1>4, WriterAllocate
  <1>9. WriterInv(d, o, p, i, n, kd, sb, D', num_pages')
    BY <1>8, <1>3
  <1>10. d \in Labels \ {"idle"}
    BY DEF Labels, Walking, Parting
  <1>11. QED BY <1>1, <1>4, <1>6, <1>7, <1>9, <1>10, Continues

\* The allocated page of a writer is a page, or the next one.
LEMMA PageHere ==
  ASSUME TypeInv, NEW w \in Writers
  PROVE  /\ page[w] \in 0..num_pages /\ Sound(kid[w], D) /\ Sound(sib[w], D)
         /\ pc[w] \in {"growSave", "saveNew"} => page[w] \in D /\ page[w] < num_pages
  <1>1. page[w] \in Nat /\ num_pages \in Nat /\ D = 0..num_pages - 1
    BY DEF TypeInv, WritersOK, VarsOK, PagesOK
  <1>2. page[w] <= num_pages /\ Sound(kid[w], D) /\ Sound(sib[w], D)
        /\ (pc[w] \in {"growSave", "saveNew"} => page[w] < num_pages)
    BY DEF TypeInv, WritersOK, WriterOK, WriterInv
  <1>3. QED BY <1>1, <1>2

\* BlankPage keeps the invariant.
LEMMA BlankType ==
  ASSUME TypeInv, NEW w \in Writers, NEW c, NEW d,
         <<c, d>> \in {<<"growBlank", "growSave">>, <<"splitBlank", "saveNew">>}, BlankPage(w, c, d)
  PROVE  TypeInv'
  <1>0. PICK id : id = page[w]
    OBVIOUS
  <1>1. PagesGrow /\ id < num_pages'
    <2>1. id \in 0..num_pages
      BY <1>0, PageHere
    <2>2. Sound(Blank, D) /\ Fits(Blank)
      BY EmptyNodes, SizeAssumption DEF Fits
    <2>3. PagesOK /\ WritePage(id, Blank)
      BY <1>0 DEF BlankPage, TypeInv
    <2>4. QED BY <2>1, <2>2, <2>3, PagesStep
  <1>2. PICK o, gr, p, i, g, kd, sb : o = op[w] /\ gr = growing[w] /\ p = path[w] /\ i = idx[w] /\ g = page[w]
          /\ kd = kid[w] /\ sb = sib[w]
    OBVIOUS
  <1>3. PICK S, n : S = D' /\ n = num_pages'
    OBVIOUS
  <1>31. pc[w] = c
    BY DEF BlankPage
  <1>4. /\ o \in [key : Keys, val : Value] \cup {NoOp} /\ gr \in BOOLEAN /\ i \in Nat /\ g \in Nat
        /\ WriterInv(c, o, p, i, g, kd, sb, S, n)
    BY <1>1, <1>2, <1>3, <1>31, Here
  <1>6. UNCHANGED history /\ pc[w] # "idle"
    BY DEF BlankPage
  <1>7. Moved(w, d, o, gr, p, i, g, kd, sb)
    BY <1>2, Stays DEF BlankPage, Goto, Moved, TypeInv, WritersOK, locals
  <1>8. WriterInv(d, o, p, i, g, kd, sb, S, n)
    <2>1. g < n
      BY <1>0, <1>1, <1>2, <1>3
    <2>2. QED BY <2>1, <1>4, WriterBlank
  <1>9. WriterInv(d, o, p, i, g, kd, sb, D', num_pages')
    BY <1>8, <1>3
  <1>10. d \in Labels \ {"idle"}
    BY DEF Labels, Walking, Parting
  <1>11. QED BY <1>1, <1>4, <1>6, <1>7, <1>9, <1>10, Continues

\* GrowSave keeps the invariant.
LEMMA GrowSaveType ==
  ASSUME TypeInv, NEW w \in Writers, GrowSave(w)
  PROVE  TypeInv'
  <1>0. PICK id, node : id = page[w] /\ node = kid[w]
    OBVIOUS
  <1>1. PagesGrow /\ id \in D'
    <2>1. id \in 0..num_pages /\ Sound(node, D)
      BY <1>0, PageHere
    <2>2. PagesOK /\ Fits(node) /\ WritePage(id, node)
      BY <1>0 DEF GrowSave, SaveNode, TypeInv
    <2>3. QED BY <2>1, <2>2, PagesStep
  <1>2. PICK o, gr, p, i, g, kd, sb : o = op[w] /\ gr = growing[w] /\ p = path[w] /\ i = idx[w] /\ g = page[w]
          /\ kd = kid[w] /\ sb = sib[w]
    OBVIOUS
  <1>3. PICK S, n : S = D' /\ n = num_pages'
    OBVIOUS
  <1>4. /\ o \in [key : Keys, val : Value] \cup {NoOp} /\ gr \in BOOLEAN /\ i \in Nat /\ g \in Nat
        /\ WriterInv("growSave", o, p, i, g, kd, sb, S, n) /\ S \subseteq Nat /\ Root \in S /\ g \in S
    BY <1>0, <1>1, <1>2, <1>3, Here DEF GrowSave
  <1>6. UNCHANGED history /\ pc[w] # "idle"
    BY DEF GrowSave
  <1>5. PICK q : q = <<[id |-> Root, node |-> [new_internal EXCEPT !.children = <<g>>]]>>
    OBVIOUS
  <1>7. Moved(w, "split", o, gr, q, 1, g, kd, sb)
    BY <1>2, <1>5, Stays DEF GrowSave, Goto, Moved, TypeInv, WritersOK
  <1>8. WriterInv("split", o, q, 1, g, kd, sb, S, n)
    <2>1. PICK r \in S : r = Root
      BY <1>4
    <2>2. WriterInv("split", o, <<[id |-> r, node |-> [new_internal EXCEPT !.children = <<g>>]]>>, 1, g, kd, sb, S, n)
      BY <1>4, WriterGrowSave
    <2>3. QED BY <2>1, <2>2, <1>5
  <1>9. WriterInv("split", o, q, 1, g, kd, sb, D', num_pages')
    BY <1>8, <1>3
  <1>10. "split" \in Labels \ {"idle"}
    BY DEF Labels, Walking
  <1>11. QED BY <1>1, <1>4, <1>6, <1>7, <1>9, <1>10, Continues

\* Top is the last node of the path.
LEMMA TopIs ==
  ASSUME NEW w
  PROVE  Top(w) = TopOf(path[w])
  BY DEF Top, TopOf, Last

\* The last node of the path of a writer.
LEMMA WhereHere ==
  ASSUME TypeInv, NEW w \in Writers, pc[w] \in Walking
  PROVE  /\ path[w] \in Seq(Frame) /\ path[w] # <<>> /\ path[w][Len(path[w])].id \in D
         /\ IF pc[w] \in Parting THEN Open(Top(w), D) ELSE Sound(Top(w), D)
         /\ Top(w) \in Node
  <1>1. PICK c, o, p, i, g, kd, sb, S, n : c = pc[w] /\ o = op[w] /\ p = path[w] /\ i = idx[w]
          /\ g = page[w] /\ kd = kid[w] /\ sb = sib[w] /\ S = D /\ n = num_pages
    OBVIOUS
  <1>2. WriterInv(c, o, p, i, g, kd, sb, S, n) /\ c \in Walking
    BY <1>1 DEF TypeInv, WritersOK, WriterOK
  <1>3. p \in Seq(Frame) /\ p # <<>> /\ p[Len(p)].id \in S
        /\ IF c \in Parting THEN Open(TopOf(p), S) ELSE Sound(TopOf(p), S)
    BY <1>2, TopSound
  <1>4. Top(w) = TopOf(p)
    BY <1>1, TopIs
  <1>5. Top(w) \in Node
    BY <1>3, <1>4, PathTop
  <1>6. QED BY <1>1, <1>3, <1>4, <1>5

\* The child a writer splits or enters exists.
LEMMA ChildHere ==
  ASSUME TypeInv, NEW w \in Writers, pc[w] \in Parting \cup {"split", "saveChild", "enter"}
  PROVE  /\ ~Top(w).leaf /\ idx[w] \in 1..Len(Top(w).children) /\ idx[w] \in DOMAIN Top(w).children
         /\ ChildPage(w) \in D /\ (pc[w] \in {"saveChild", "enter"} => idx[w] \in 1..Len(Top(w).keys))
  <1>1. pc[w] \in Walking
    BY DEF Walking
  <1>2. PICK t, i : t = Top(w) /\ i = idx[w]
    OBVIOUS
  <1>3. t \in Node /\ IF pc[w] \in Parting THEN Open(t, D) ELSE Sound(t, D)
    BY <1>1, <1>2, WhereHere
  <1>4. /\ ~t.leaf /\ (pc[w] \in Parting \cup {"split"} => i \in 1..Len(t.children))
        /\ (pc[w] \in {"saveChild", "enter"} => i \in 1..Len(t.keys))
    BY <1>2, TopIs DEF TypeInv, WritersOK, WriterOK, WriterInv
  <1>5. i \in 1..Len(t.children)
    <2>1. CASE pc[w] \in Parting \cup {"split"}
      BY <2>1, <1>4
    <2>2. CASE pc[w] \in {"saveChild", "enter"}
      <3>1. i \in 1..Len(t.keys) /\ Sound(t, D)
        BY <2>2, <1>3, <1>4 DEF Parting
      <3>2. t.keys # <<>>
        BY <3>1, <1>3, NodeFields, RangeNotEmpty
      <3>3. Len(t.children) = Len(t.keys) + 1
        BY <3>1, <3>2, <1>4, InnerSize
      <3>4. Len(t.keys) \in Nat
        BY <1>3, NodeFields
      <3>5. QED BY <3>1, <3>3, <3>4
    <2>3. QED BY <2>1, <2>2
  <1>6. i \in DOMAIN t.children
    BY <1>3, <1>5, NodeFields, SeqDomain
  <1>7. t.children[i] \in D
    BY <1>3, <1>6 DEF Open, Sound, Closed
  <1>8. QED BY <1>2, <1>4, <1>5, <1>6, <1>7 DEF ChildPage

\* SplitRead keeps the invariant.
LEMMA SplitReadType ==
  ASSUME TypeInv, NEW w \in Writers, SplitRead(w)
  PROVE  TypeInv'
  <1>1. PagesGrow /\ D' = D
    BY PagesSame DEF SplitRead, TypeInv
  <1>2. PICK o, gr, p, i, g, kd, sb : o = op[w] /\ gr = growing[w] /\ p = path[w] /\ i = idx[w] /\ g = page[w]
          /\ kd = kid[w] /\ sb = sib[w]
    OBVIOUS
  <1>3. PICK S, n, child : S = D' /\ n = num_pages' /\ child = pages[ChildPage(w)]
    OBVIOUS
  <1>4. /\ o \in [key : Keys, val : Value] \cup {NoOp} /\ gr \in BOOLEAN /\ i \in Nat /\ g \in Nat
        /\ WriterInv("split", o, p, i, g, kd, sb, S, n)
    BY <1>1, <1>2, <1>3, Here DEF SplitRead
  <1>5. Sound(child, S)
    BY <1>1, <1>3, ChildHere, PageRead DEF SplitRead
  <1>6. UNCHANGED history /\ pc[w] # "idle"
    BY DEF SplitRead
  <1>7. CASE child.keys = <<>>
    <2>1. Moved(w, "panicked", o, gr, p, i, g, kd, sb)
      BY <1>2, <1>3, <1>7, Stays DEF SplitRead, Goto, Moved, TypeInv, WritersOK
    <2>2. WriterInv("panicked", o, p, i, g, kd, sb, S, n)
      BY <1>4, WriterPanic
    <2>3. WriterInv("panicked", o, p, i, g, kd, sb, D', num_pages')
      BY <2>2, <1>3
    <2>4. "panicked" \in Labels \ {"idle"}
      BY DEF Labels
    <2>5. QED BY <2>1, <2>3, <2>4, <1>1, <1>4, <1>6, Continues
  <1>8. CASE child.keys # <<>>
    <2>1. PICK q, l, r : q = [p EXCEPT ![Len(p)].node.keys = InsertAt(@, i, child.keys[Middle(child)])]
            /\ l = LeftHalf(child) /\ r = RightHalf(child)
      OBVIOUS
    <2>2. Moved(w, "splitAlloc", o, gr, q, i, g, l, r)
      <3>1. path' = [path EXCEPT ![w] = q]
        BY <1>2, <1>3, <1>8, <2>1 DEF SplitRead
      <3>2. QED BY <3>1, <1>2, <1>3, <1>8, <2>1, Stays DEF SplitRead, Goto, Moved, TypeInv, WritersOK
    <2>3. WriterInv("splitAlloc", o, q, i, g, l, r, S, n)
      <3>1. WriterInv("splitAlloc", o, q, i, g, LeftHalf(child), RightHalf(child), S, n)
        BY <2>1, <1>4, <1>5, <1>8, WriterSplit, ZenonT(60)
      <3>2. QED BY <3>1, <2>1
    <2>4. WriterInv("splitAlloc", o, q, i, g, l, r, D', num_pages')
      BY <2>3, <1>3
    <2>5. "splitAlloc" \in Labels \ {"idle"}
      BY DEF Labels, Walking, Parting
    <2>6. QED BY <2>2, <2>4, <2>5, <1>1, <1>4, <1>6, Continues
  <1>9. QED BY <1>7, <1>8

\* SaveNew keeps the invariant.
LEMMA SaveNewType ==
  ASSUME TypeInv, NEW w \in Writers, SaveNew(w)
  PROVE  TypeInv'
  <1>0. PICK id, node : id = page[w] /\ node = sib[w]
    OBVIOUS
  <1>1. PagesGrow /\ id \in D'
    <2>1. id \in 0..num_pages /\ Sound(node, D)
      BY <1>0, PageHere
    <2>2. PagesOK /\ Fits(node) /\ WritePage(id, node)
      BY <1>0 DEF SaveNew, SaveNode, TypeInv
    <2>3. QED BY <2>1, <2>2, PagesStep
  <1>2. PICK o, gr, p, i, g, kd, sb : o = op[w] /\ gr = growing[w] /\ p = path[w] /\ i = idx[w] /\ g = page[w]
          /\ kd = kid[w] /\ sb = sib[w]
    OBVIOUS
  <1>3. PICK S, n : S = D' /\ n = num_pages'
    OBVIOUS
  <1>4. /\ o \in [key : Keys, val : Value] \cup {NoOp} /\ gr \in BOOLEAN /\ i \in Nat /\ g \in Nat
        /\ WriterInv("saveNew", o, p, i, g, kd, sb, S, n) /\ S \subseteq Nat /\ g \in S
    BY <1>0, <1>1, <1>2, <1>3, Here DEF SaveNew
  <1>5. PICK q, kk : q = Put(p, WithChild(TopOf(p), i, g)) /\ kk = WithNext(kd, g)
    OBVIOUS
  <1>6. UNCHANGED history /\ pc[w] # "idle"
    BY DEF SaveNew
  <1>7. Moved(w, "saveChild", o, gr, q, i, g, kk, sb)
    <2>1. path' = [path EXCEPT ![w] = q]
      BY <1>2, <1>5 DEF SaveNew, Put, WithChild, TopOf
    <2>2. kid' = [kid EXCEPT ![w] = kk]
      BY <1>2, <1>5 DEF SaveNew, WithNext
    <2>3. QED BY <2>1, <2>2, <1>2, Stays DEF SaveNew, Goto, Moved, TypeInv, WritersOK
  <1>8. WriterInv("saveChild", o, q, i, g, kk, sb, S, n)
    BY <1>4, <1>5, WriterSaveNew
  <1>9. WriterInv("saveChild", o, q, i, g, kk, sb, D', num_pages')
    BY <1>8, <1>3
  <1>10. "saveChild" \in Labels \ {"idle"}
    BY DEF Labels, Walking
  <1>11. QED BY <1>1, <1>4, <1>6, <1>7, <1>9, <1>10, Continues

\* SaveChild keeps the invariant.
LEMMA SaveChildType ==
  ASSUME TypeInv, NEW w \in Writers, SaveChild(w)
  PROVE  TypeInv'
  <1>0. PICK id, node : id = ChildPage(w) /\ node = kid[w]
    OBVIOUS
  <1>1. PagesGrow
    <2>1. id \in D /\ Sound(node, D)
      BY <1>0, PageHere, ChildHere DEF SaveChild
    <2>2. PagesOK /\ Fits(node) /\ WritePage(id, node)
      BY <1>0 DEF SaveChild, SaveNode, TypeInv
    <2>3. id \in 0..num_pages
      BY <2>1 DEF PagesOK, TypeInv
    <2>4. QED BY <2>1, <2>2, <2>3, PagesStep
  <1>2. PICK o, gr, p, i, g, kd, sb : o = op[w] /\ gr = growing[w] /\ p = path[w] /\ i = idx[w] /\ g = page[w]
          /\ kd = kid[w] /\ sb = sib[w]
    OBVIOUS
  <1>3. PICK S, n, c : S = D' /\ n = num_pages' /\ c = IF growing[w] THEN "saveRoot" ELSE "enter"
    OBVIOUS
  <1>4. /\ o \in [key : Keys, val : Value] \cup {NoOp} /\ gr \in BOOLEAN /\ i \in Nat /\ g \in Nat
        /\ WriterInv("saveChild", o, p, i, g, kd, sb, S, n)
    BY <1>1, <1>2, <1>3, Here DEF SaveChild
  <1>6. UNCHANGED history /\ pc[w] # "idle"
    BY DEF SaveChild
  <1>7. Moved(w, c, o, gr, p, i, g, kd, sb)
    BY <1>2, <1>3, Stays DEF SaveChild, Goto, Moved, TypeInv, WritersOK, locals
  <1>5. c \in {"saveRoot", "enter"}
    BY <1>3
  <1>8. WriterInv(c, o, p, i, g, kd, sb, S, n)
    BY <1>4, <1>5, WriterSaveChild
  <1>9. WriterInv(c, o, p, i, g, kd, sb, D', num_pages')
    BY <1>8, <1>3
  <1>10. c \in Labels \ {"idle"}
    BY <1>5 DEF Labels, Walking
  <1>11. QED BY <1>1, <1>4, <1>6, <1>7, <1>9, <1>10, Continues

\* SaveRoot keeps the invariant.
LEMMA SaveRootType ==
  ASSUME TypeInv, NEW w \in Writers, SaveRoot(w)
  PROVE  TypeInv'
  <1>0. PICK id, node : id = Root /\ node = Top(w)
    OBVIOUS
  <1>1. PagesGrow
    <2>1. Sound(node, D)
      BY <1>0, WhereHere DEF SaveRoot, Walking, Parting
    <2>2. PagesOK /\ Fits(node) /\ WritePage(id, node)
      BY <1>0 DEF SaveRoot, SaveNode, TypeInv
    <2>3. id \in 0..num_pages
      BY <1>0 DEF PagesOK, TypeInv
    <2>4. QED BY <2>1, <2>2, <2>3, PagesStep
  <1>2. PICK o, p, i, g, kd, sb : o = op[w] /\ p = path[w] /\ i = idx[w] /\ g = page[w]
          /\ kd = kid[w] /\ sb = sib[w]
    OBVIOUS
  <1>3. PICK S, n : S = D' /\ n = num_pages'
    OBVIOUS
  <1>4. /\ o \in [key : Keys, val : Value] \cup {NoOp} /\ i \in Nat /\ g \in Nat
        /\ WriterInv("saveRoot", o, p, i, g, kd, sb, S, n)
    BY <1>1, <1>2, <1>3, Here DEF SaveRoot
  <1>6. UNCHANGED history /\ pc[w] # "idle"
    BY DEF SaveRoot
  <1>7. Moved(w, "reread", o, FALSE, p, i, g, kd, sb)
    BY <1>2, Stays DEF SaveRoot, Goto, Moved, TypeInv, WritersOK
  <1>8. WriterInv("reread", o, p, i, g, kd, sb, S, n)
    BY <1>4, WriterSaveRoot
  <1>9. WriterInv("reread", o, p, i, g, kd, sb, D', num_pages')
    BY <1>8, <1>3
  <1>10. "reread" \in Labels \ {"idle"}
    BY DEF Labels
  <1>11. QED BY <1>1, <1>4, <1>6, <1>7, <1>9, <1>10, Continues

\* RereadRoot keeps the invariant.
LEMMA RereadType ==
  ASSUME TypeInv, NEW w \in Writers, RereadRoot(w)
  PROVE  TypeInv'
  <1>1. PagesGrow /\ D' = D
    BY PagesSame DEF RereadRoot, TypeInv
  <1>2. PICK o, gr, p, i, g, kd, sb : o = op[w] /\ gr = growing[w] /\ p = path[w] /\ i = idx[w] /\ g = page[w]
          /\ kd = kid[w] /\ sb = sib[w]
    OBVIOUS
  <1>3. PICK S, n, root : S = D' /\ n = num_pages' /\ root = pages[Root]
    OBVIOUS
  <1>4. /\ o \in [key : Keys, val : Value] \cup {NoOp} /\ gr \in BOOLEAN /\ i \in Nat /\ g \in Nat
        /\ WriterInv("reread", o, p, i, g, kd, sb, S, n) /\ S \subseteq Nat /\ Root \in S
    BY <1>1, <1>2, <1>3, Here DEF RereadRoot
  <1>5. Sound(root, S)
    BY <1>1, <1>3, Here, PageRead
  <1>6. UNCHANGED history /\ pc[w] # "idle"
    BY DEF RereadRoot
  <1>7. PICK q : q = <<[id |-> Root, node |-> root]>>
    OBVIOUS
  <1>8. Moved(w, "visit", o, gr, q, i, g, kd, sb)
    BY <1>2, <1>3, <1>7, Stays DEF RereadRoot, Goto, Moved, TypeInv, WritersOK
  <1>9. WriterInv("visit", o, q, i, g, kd, sb, S, n)
    BY <1>7, <1>4, <1>5, WriterRoot
  <1>10. WriterInv("visit", o, q, i, g, kd, sb, D', num_pages')
    BY <1>9, <1>3
  <1>11. "visit" \in Labels \ {"idle"}
    BY DEF Labels, Walking
  <1>12. QED BY <1>1, <1>4, <1>6, <1>8, <1>10, <1>11, Continues

\* VisitLeaf keeps the invariant.
LEMMA VisitLeafType ==
  ASSUME TypeInv, NEW w \in Writers, VisitLeaf(w)
  PROVE  TypeInv'
  <1>1. PagesGrow
    BY PagesSame DEF VisitLeaf, TypeInv
  <1>2. PICK o, gr, p, i, g, kd, sb : o = op[w] /\ gr = growing[w] /\ p = path[w] /\ i = idx[w] /\ g = page[w]
          /\ kd = kid[w] /\ sb = sib[w]
    OBVIOUS
  <1>3. PICK S, n, t : S = D' /\ n = num_pages' /\ t = TopOf(p)
    OBVIOUS
  <1>4. /\ o \in [key : Keys, val : Value] \cup {NoOp} /\ gr \in BOOLEAN /\ i \in Nat /\ g \in Nat
        /\ WriterInv("visit", o, p, i, g, kd, sb, S, n)
    BY <1>1, <1>2, <1>3, Here DEF VisitLeaf
  <1>5. t = Top(w) /\ t.leaf
    BY <1>2, <1>3, TopIs DEF VisitLeaf
  <1>6. UNCHANGED history /\ pc[w] # "idle"
    BY DEF VisitLeaf
  <1>7. PICK new : new \in LeafWith(t, o.key, o.val) /\ path' = [path EXCEPT ![w][Len(path[w])].node = new]
    BY <1>2, <1>5 DEF VisitLeaf
  <1>8. PICK q : q = Put(p, new)
    OBVIOUS
  <1>9. Moved(w, "unwind", o, gr, q, i, g, kd, sb)
    <2>1. path' = [path EXCEPT ![w] = q]
      BY <1>2, <1>7, <1>8 DEF Put
    <2>2. QED BY <2>1, <1>2, Stays DEF VisitLeaf, Goto, Moved, TypeInv, WritersOK
  <1>10. WriterInv("unwind", o, q, i, g, kd, sb, S, n)
    <2>1. TopOf(p).leaf /\ new \in LeafWith(TopOf(p), o.key, o.val)
      BY <1>3, <1>5, <1>7
    <2>2. QED BY <1>4, <1>8, <2>1, WriterLeaf
  <1>11. WriterInv("unwind", o, q, i, g, kd, sb, D', num_pages')
    BY <1>10, <1>3
  <1>12. "unwind" \in Labels \ {"idle"}
    BY DEF Labels, Walking
  <1>13. QED BY <1>1, <1>4, <1>6, <1>9, <1>11, <1>12, Continues

\* VisitInternal keeps the invariant.
LEMMA VisitInternalType ==
  ASSUME TypeInv, NEW w \in Writers, VisitInternal(w)
  PROVE  TypeInv'
  <1>1. PagesGrow /\ D' = D
    BY PagesSame DEF VisitInternal, TypeInv
  <1>2. PICK o, gr, p, i, g, kd, sb : o = op[w] /\ gr = growing[w] /\ p = path[w] /\ i = idx[w] /\ g = page[w]
          /\ kd = kid[w] /\ sb = sib[w]
    OBVIOUS
  <1>3. PICK S, n, t : S = D' /\ n = num_pages' /\ t = TopOf(p)
    OBVIOUS
  <1>4. /\ o \in [key : Keys, val : Value] \cup {NoOp} /\ gr \in BOOLEAN /\ i \in Nat /\ g \in Nat
        /\ WriterInv("visit", o, p, i, g, kd, sb, S, n) /\ S \subseteq Nat
    BY <1>1, <1>2, <1>3, Here DEF VisitInternal
  <1>5. t = Top(w) /\ ~t.leaf /\ Sound(t, S) /\ t \in Node
    <2>1. t = Top(w) /\ ~t.leaf
      BY <1>2, <1>3, TopIs DEF VisitInternal
    <2>2. Sound(Top(w), D) /\ Top(w) \in Node
      BY WhereHere DEF VisitInternal, Walking, Parting
    <2>3. QED BY <2>1, <2>2, <1>1, <1>3
  <1>6. UNCHANGED history /\ pc[w] # "idle"
    BY DEF VisitInternal
  <1>11. "visit" \in Labels \ {"idle"} /\ "split" \in Labels \ {"idle"} /\ "panicked" \in Labels \ {"idle"}
    BY DEF Labels, Walking
  <1>7. CASE t.children = <<>>
    <2>1. Moved(w, "panicked", o, gr, p, i, g, kd, sb)
      BY <1>2, <1>5, <1>7, Stays DEF VisitInternal, Goto, Moved, TypeInv, WritersOK
    <2>2. WriterInv("panicked", o, p, i, g, kd, sb, S, n)
      BY <1>4, WriterPanic
    <2>3. WriterInv("panicked", o, p, i, g, kd, sb, D', num_pages')
      BY <2>2, <1>3
    <2>5. QED BY <2>1, <2>3, <1>1, <1>4, <1>6, <1>11, Continues
  <1>8. CASE t.children # <<>>
    <2>1. PICK j \in ChildIndexes(t, o.key) :
             /\ idx' = [idx EXCEPT ![w] = j]
             /\ IF is_full(pages[t.children[j]])
                THEN Goto(w, "split") /\ UNCHANGED path
                ELSE /\ path' = [path EXCEPT ![w] = Append(@, [id |-> t.children[j], node |-> pages[t.children[j]]])]
                     /\ UNCHANGED pc
      BY <1>2, <1>5, <1>8 DEF VisitInternal
    <2>2. j \in 1..Len(t.children)
      BY <1>5, <1>8, ChildRange
    <2>3. j \in Nat /\ j \in DOMAIN t.children
      BY <2>2, <1>5, NodeFields, SeqDomain
    <2>4. PICK id : id = t.children[j]
      OBVIOUS
    <2>5. PICK node : node = pages[id]
      OBVIOUS
    <2>6. id \in S /\ Sound(node, S)
      <3>1. id \in D
        BY <2>3, <2>4, <1>5, <1>1, <1>3 DEF Sound, Closed
      <3>2. QED BY <3>1, <2>5, <1>1, <1>3, PageRead
    <2>7. WriterInv("split", o, p, j, g, kd, sb, S, n) /\ WriterInv("visit", o, p, j, g, kd, sb, S, n)
      BY <2>2, <1>3, <1>4, <1>5, WriterChoose
    <2>8. CASE is_full(node)
      <3>1. Moved(w, "split", o, gr, p, j, g, kd, sb)
        BY <1>2, <2>1, <2>4, <2>5, <2>8, Stays DEF VisitInternal, Goto, Moved, TypeInv, WritersOK
      <3>2. WriterInv("split", o, p, j, g, kd, sb, D', num_pages')
        BY <2>7, <1>3
      <3>3. QED BY <3>1, <3>2, <2>3, <1>1, <1>4, <1>6, <1>11, Continues
    <2>9. CASE ~is_full(node)
      <3>1. PICK q : q = Append(p, [id |-> id, node |-> node])
        OBVIOUS
      <3>2. Moved(w, "visit", o, gr, q, j, g, kd, sb)
        <4>1. path' = [path EXCEPT ![w] = q]
          BY <1>2, <2>1, <2>4, <2>5, <2>9, <3>1
        <4>2. pc' = [pc EXCEPT ![w] = "visit"]
          BY <2>1, <2>4, <2>5, <2>9, Stays DEF VisitInternal, TypeInv, WritersOK
        <4>3. QED BY <4>1, <4>2, <1>2, <2>1, Stays DEF VisitInternal, Moved, TypeInv, WritersOK
      <3>3. WriterInv("visit", o, q, j, g, kd, sb, S, n)
        BY <2>6, <2>7, <1>4, <3>1, WriterEnter
      <3>4. WriterInv("visit", o, q, j, g, kd, sb, D', num_pages')
        BY <3>3, <1>3
      <3>5. QED BY <3>2, <3>4, <2>3, <1>1, <1>4, <1>6, <1>11, Continues
    <2>10. QED BY <2>8, <2>9
  <1>9. QED BY <1>7, <1>8

\* Enter keeps the invariant.
LEMMA EnterType ==
  ASSUME TypeInv, NEW w \in Writers, Enter(w)
  PROVE  TypeInv'
  <1>1. PagesGrow /\ D' = D
    BY PagesSame DEF Enter, TypeInv
  <1>2. PICK o, gr, p, i, g, kd, sb : o = op[w] /\ gr = growing[w] /\ p = path[w] /\ i = idx[w] /\ g = page[w]
          /\ kd = kid[w] /\ sb = sib[w]
    OBVIOUS
  <1>3. PICK S, n, j : S = D' /\ n = num_pages' /\ j = HalfFor(w)
    OBVIOUS
  <1>4. /\ o \in [key : Keys, val : Value] \cup {NoOp} /\ gr \in BOOLEAN /\ i \in Nat /\ g \in Nat
        /\ WriterInv("enter", o, p, i, g, kd, sb, S, n) /\ S \subseteq Nat
    BY <1>1, <1>2, <1>3, Here DEF Enter
  <1>5. j \in {i, i + 1}
    BY <1>2, <1>3 DEF HalfFor
  <1>6. UNCHANGED history /\ pc[w] # "idle"
    BY DEF Enter
  <1>7. PICK id : id = TopOf(p).children[j]
    OBVIOUS
  <1>8. PICK node : node = pages[id]
    OBVIOUS
  <1>9. id \in S /\ Sound(node, S)
    <2>1. id \in S
      BY <1>4, <1>5, <1>7, EnterRange
    <2>2. QED BY <2>1, <1>8, <1>1, <1>3, PageRead
  <1>10. PICK q : q = Append(p, [id |-> id, node |-> node])
    OBVIOUS
  <1>11. Moved(w, "visit", o, gr, q, i, g, kd, sb)
    <2>1. path' = [path EXCEPT ![w] = q]
      BY <1>2, <1>3, <1>7, <1>8, <1>10, TopIs DEF Enter
    <2>2. QED BY <2>1, <1>2, Stays DEF Enter, Goto, Moved, TypeInv, WritersOK
  <1>12. WriterInv("visit", o, q, i, g, kd, sb, S, n)
    BY <1>4, <1>9, <1>10, WriterEnter
  <1>13. WriterInv("visit", o, q, i, g, kd, sb, D', num_pages')
    BY <1>12, <1>3
  <1>14. "visit" \in Labels \ {"idle"}
    BY DEF Labels, Walking
  <1>15. QED BY <1>1, <1>4, <1>6, <1>11, <1>13, <1>14, Continues

\* Unwind keeps the invariant.
LEMMA UnwindType ==
  ASSUME TypeInv, NEW w \in Writers, Unwind(w)
  PROVE  TypeInv'
  <1>0. PICK id, node : id = Last(path[w]).id /\ node = Top(w)
    OBVIOUS
  <1>1. PagesGrow
    <2>1. id \in D /\ Sound(node, D)
      BY <1>0, WhereHere DEF Unwind, Walking, Parting, Last
    <2>2. PagesOK /\ Fits(node) /\ WritePage(id, node)
      BY <1>0 DEF Unwind, SaveNode, TypeInv
    <2>3. id \in 0..num_pages
      BY <2>1 DEF PagesOK, TypeInv
    <2>4. QED BY <2>1, <2>2, <2>3, PagesStep
  <1>2. PICK o, gr, p, i, g, kd, sb : o = op[w] /\ gr = growing[w] /\ p = path[w] /\ i = idx[w] /\ g = page[w]
          /\ kd = kid[w] /\ sb = sib[w]
    OBVIOUS
  <1>3. PICK S, n : S = D' /\ n = num_pages'
    OBVIOUS
  <1>4. /\ o \in [key : Keys, val : Value] \cup {NoOp} /\ gr \in BOOLEAN /\ i \in Nat /\ g \in Nat
        /\ WriterInv("unwind", o, p, i, g, kd, sb, S, n)
    BY <1>1, <1>2, <1>3, Here DEF Unwind
  <1>5. Len(p) > 1
    BY <1>2 DEF Unwind
  <1>6. UNCHANGED history /\ pc[w] # "idle"
    BY DEF Unwind
  <1>7. PICK q : q = Front(p)
    OBVIOUS
  <1>8. Moved(w, "unwind", o, gr, q, i, g, kd, sb)
    <2>1. pc' = [pc EXCEPT ![w] = "unwind"]
      BY Stays DEF Unwind, TypeInv, WritersOK
    <2>2. path' = [path EXCEPT ![w] = q]
      BY <1>2, <1>7 DEF Unwind
    <2>3. QED BY <2>1, <2>2, <1>2, Stays DEF Unwind, Moved, TypeInv, WritersOK
  <1>9. WriterInv("unwind", o, q, i, g, kd, sb, S, n)
    BY <1>4, <1>5, <1>7, WriterUnwind
  <1>10. WriterInv("unwind", o, q, i, g, kd, sb, D', num_pages')
    BY <1>9, <1>3
  <1>11. "unwind" \in Labels \ {"idle"}
    BY DEF Labels, Walking
  <1>12. QED BY <1>1, <1>4, <1>6, <1>8, <1>10, <1>11, Continues

\* Saving the root.
LEMMA RootSaved ==
  ASSUME TypeInv, NEW w \in Writers, pc[w] = "unwind", SaveNode(Root, Top(w))
  PROVE  PagesGrow
  <1>0. PICK id, node : id = Root /\ node = Top(w)
    OBVIOUS
  <1>1. Sound(node, D)
    BY <1>0, WhereHere DEF Walking, Parting
  <1>2. PagesOK /\ Fits(node) /\ WritePage(id, node)
    BY <1>0 DEF SaveNode, TypeInv
  <1>3. id \in 0..num_pages
    BY <1>0 DEF PagesOK, TypeInv
  <1>4. QED BY <1>1, <1>2, <1>3, PagesStep

\* What a writer inserts.
LEMMA OpHere ==
  ASSUME TypeInv, NEW w \in Writers, pc[w] # "idle"
  PROVE  op[w] \in [key : Keys, val : Value] /\ op[w].key \in Keys /\ op[w].val \in Value
  <1>1. op[w] \in [key : Keys, val : Value]
    BY DEF TypeInv, WritersOK, WriterOK, WriterInv
  <1>2. QED BY <1>1

\* Finish keeps the invariant.
LEMMA FinishType ==
  ASSUME TypeInv, NEW w \in Writers, Finish(w)
  PROVE  TypeInv'
  <1>1. PagesGrow
    BY RootSaved DEF Finish
  <1>2. acked' \in [Keys -> Value \cup {NoValue}]
    <2>1. op[w].key \in Keys /\ op[w].val \in Value
      BY OpHere DEF Finish
    <2>2. acked \in [Keys -> Value \cup {NoValue}]
      BY DEF TypeInv, WritersOK, VarsOK
    <2>3. acked' = [acked EXCEPT ![op[w].key] = op[w].val]
      BY DEF Finish
    <2>4. PICK k \in Keys, v \in Value : k = op[w].key /\ v = op[w].val
      BY <2>1
    <2>5. acked' = [acked EXCEPT ![k] = v]
      BY <2>3, <2>4
    <2>6. QED BY <2>2, <2>5
  <1>3. pc[w] # "idle" /\ Return(w) /\ errors' \in {errors, errors + 1} /\ UNCHANGED inserts
    BY DEF Finish
  <1>4. QED BY <1>1, <1>2, <1>3, Ended

\* SyncFail keeps the invariant.
LEMMA SyncFailType ==
  ASSUME TypeInv, NEW w \in Writers, SyncFail(w)
  PROVE  TypeInv'
  <1>1. PagesGrow
    BY RootSaved DEF SyncFail
  <1>2. acked' \in [Keys -> Value \cup {NoValue}]
    BY AckedSame DEF SyncFail
  <1>3. pc[w] # "idle" /\ Return(w) /\ errors' \in {errors, errors + 1} /\ UNCHANGED inserts
    BY DEF SyncFail
  <1>4. QED BY <1>1, <1>2, <1>3, Ended

\* Fail keeps the invariant.
LEMMA FailType ==
  ASSUME TypeInv, NEW w \in Writers, Fail(w)
  PROVE  TypeInv'
  <1>1. PagesGrow
    BY PagesSame DEF Fail, TypeInv
  <1>2. acked' \in [Keys -> Value \cup {NoValue}]
    BY AckedSame DEF Fail
  <1>3. pc[w] # "idle" /\ Return(w) /\ errors' \in {errors, errors + 1} /\ UNCHANGED inserts
    BY DEF Fail
  <1>4. QED BY <1>1, <1>2, <1>3, Ended

-----------------------------------------------------------------------------
(* The theorem.                                                            *)

\* The invariant holds at the start.
LEMMA TypeInit ==
  ASSUME Init
  PROVE  TypeInv
  <1>1. D = {0} /\ pages[0] = new_leaf
    BY DEF Init, D, Root
  <1>2. 0..0 = {0} /\ 1 - 1 = 0
    OBVIOUS
  <1>3. num_pages = 1
    BY <1>1, FS_Singleton DEF num_pages, D
  <1>4. D = 0..num_pages - 1 /\ num_pages \in Nat /\ Root \in D
    BY <1>1, <1>2, <1>3 DEF Root
  <1>5. PagesOK
    <2>1. Sound(new_leaf, D) /\ Fits(new_leaf)
      BY EmptyNodes, SizeAssumption DEF Fits
    <2>2. \A p \in D : Sound(pages[p], D) /\ Fits(pages[p])
      BY <2>1, <1>1
    <2>3. pages \in [D -> Node]
      BY <1>1, EmptyNodes DEF Init, Root
    <2>4. QED BY <2>2, <2>3, <1>4 DEF PagesOK
  <1>6. VarsOK
    <2>1. Blank \in Node
      BY EmptyNodes
    <2>2. pc \in [Writers -> Labels] /\ op \in [Writers -> [key : Keys, val : Value] \cup {NoOp}]
      BY DEF Init, Labels
    <2>3. growing \in [Writers -> BOOLEAN] /\ path \in [Writers -> Seq(Frame)]
      BY DEF Init
    <2>4. idx \in [Writers -> Nat] /\ page \in [Writers -> Nat]
      BY DEF Init
    <2>5. kid \in [Writers -> Node] /\ sib \in [Writers -> Node] /\ acked \in [Keys -> Value \cup {NoValue}]
      BY <2>1 DEF Init
    <2>6. QED BY <2>2, <2>3, <2>4, <2>5 DEF VarsOK
  <1>7. ASSUME NEW v \in Writers PROVE WriterOK(v)
    <2>1. PICK n \in Nat : n = num_pages
      BY <1>4
    <2>5. PICK S : S = D
      OBVIOUS
    <2>2. WriterInv("idle", NoOp, <<>>, 0, 0, Blank, Blank, S, n)
      BY WriterIdle
    <2>3. /\ pc[v] = "idle" /\ op[v] = NoOp /\ path[v] = <<>> /\ idx[v] = 0 /\ page[v] = 0
          /\ kid[v] = Blank /\ sib[v] = Blank
      BY DEF Init
    <2>4. QED BY <2>1, <2>2, <2>3, <2>5 DEF WriterOK
  <1>8. CountOK
    <2>1. Busy = {} /\ errors = 0 /\ inserts = 0
      BY DEF Init, Busy
    <2>2. IsFiniteSet({}) /\ Cardinality({}) = 0
      BY FS_EmptySet
    <2>3. QED BY <2>1, <2>2, InsertAssumption DEF CountOK
  <1>9. QED BY <1>5, <1>6, <1>7, <1>8 DEF TypeInv, WritersOK

\* A step of one writer keeps the invariant.
LEMMA TypeStep ==
  ASSUME TypeInv, NEW w \in Writers, Step(w)
  PROVE  TypeInv'
  <1>1. CASE \E k \in Keys, wt \in Weights : Insert(w, k, wt)
    BY <1>1, InsertType
  <1>2. CASE ReadRoot(w)
    BY <1>2, ReadRootType
  <1>3. CASE AllocatePage(w, "growAlloc", "growBlank")
    BY <1>3, AllocateType
  <1>4. CASE BlankPage(w, "growBlank", "growSave")
    BY <1>4, BlankType
  <1>5. CASE GrowSave(w)
    BY <1>5, GrowSaveType
  <1>6. CASE SplitRead(w)
    BY <1>6, SplitReadType
  <1>7. CASE AllocatePage(w, "splitAlloc", "splitBlank")
    BY <1>7, AllocateType
  <1>8. CASE BlankPage(w, "splitBlank", "saveNew")
    BY <1>8, BlankType
  <1>9. CASE SaveNew(w)
    BY <1>9, SaveNewType
  <1>10. CASE SaveChild(w)
    BY <1>10, SaveChildType
  <1>11. CASE SaveRoot(w)
    BY <1>11, SaveRootType
  <1>12. CASE RereadRoot(w)
    BY <1>12, RereadType
  <1>13. CASE VisitLeaf(w)
    BY <1>13, VisitLeafType
  <1>14. CASE VisitInternal(w)
    BY <1>14, VisitInternalType
  <1>15. CASE Enter(w)
    BY <1>15, EnterType
  <1>16. CASE Unwind(w)
    BY <1>16, UnwindType
  <1>17. CASE Finish(w)
    BY <1>17, FinishType
  <1>18. CASE SyncFail(w)
    BY <1>18, SyncFailType
  <1>19. CASE Fail(w)
    BY <1>19, FailType
  <1>20. QED BY <1>1, <1>2, <1>3, <1>4, <1>5, <1>6, <1>7, <1>8, <1>9, <1>10, <1>11, <1>12, <1>13, <1>14,
                <1>15, <1>16, <1>17, <1>18, <1>19 DEF Step

\* A step of nobody keeps the invariant.
LEMMA TypeStutter ==
  ASSUME TypeInv, UNCHANGED vars
  PROVE  TypeInv'
  <1>1. /\ pages' = pages /\ pc' = pc /\ op' = op /\ growing' = growing /\ path' = path /\ idx' = idx
        /\ page' = page /\ kid' = kid /\ sib' = sib /\ acked' = acked /\ inserts' = inserts /\ errors' = errors
    BY DEF vars
  <1>2. PagesOK' /\ D' = D /\ num_pages' = num_pages
    BY <1>1, PagesSame DEF TypeInv, PagesGrow
  <1>3. CountOK'
    BY <1>1 DEF TypeInv, CountOK, Busy
  <1>4. VarsOK'
    BY <1>1 DEF TypeInv, WritersOK, VarsOK
  <1>5. ASSUME NEW v \in Writers PROVE WriterOK(v)'
    BY <1>1, <1>2 DEF TypeInv, WritersOK, WriterOK
  <1>6. QED BY <1>2, <1>3, <1>4, <1>5 DEF TypeInv, WritersOK

\* Every step keeps the invariant.
LEMMA TypeNext ==
  ASSUME TypeInv, [Next]_vars
  PROVE  TypeInv'
  BY TypeStep, TypeStutter DEF Next

\* The invariant implies TypeOK.
LEMMA TypeImplied ==
  ASSUME TypeInv
  PROVE  TypeOK
  <1>1. pages \in [0..num_pages - 1 -> Node] /\ \A p \in DOMAIN pages : Fits(pages[p])
    <2>1. pages \in [D -> Node] /\ D = 0..num_pages - 1 /\ \A p \in D : Fits(pages[p])
      BY DEF TypeInv, PagesOK
    <2>2. QED BY <2>1 DEF D
  <1>2. inserts \in 0..MaxInserts /\ errors \in 0..MaxInserts
    <2>1. Cardinality(Busy) \in Nat
      BY FS_CardinalityType DEF TypeInv, CountOK
    <2>2. PICK b, e, i \in Nat : b = Cardinality(Busy) /\ e = errors /\ i = inserts
      BY <2>1, InsertAssumption DEF TypeInv, CountOK
    <2>3. e + b <= i /\ i <= MaxInserts
      BY <2>2, InsertAssumption DEF TypeInv, CountOK
    <2>4. QED BY <2>2, <2>3, InsertAssumption
  <1>3. PageId = Nat /\ VarsOK
    BY DEF PageId, TypeInv, WritersOK
  <1>4. QED BY <1>1, <1>2, <1>3 DEF TypeOK, VarsOK, Labels, Walking, Parting

\* Type correctness, for any number of writers: in every state the pages are numbered without
\* gap and fit, and the locals of every writer have their types, whatever inserts interleave and
\* fail half way (btree.rs insert, split_child, allocate_page).
THEOREM TypeCorrect == Spec => []TypeOK
  <1>1. Init => TypeInv
    BY TypeInit
  <1>2. TypeInv /\ [Next]_vars => TypeInv'
    BY TypeNext
  <1>3. TypeInv => TypeOK
    BY TypeImplied
  <1>4. QED BY <1>1, <1>2, <1>3, PTL DEF Spec
=============================================================================
