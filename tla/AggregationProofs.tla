-------------------------- MODULE AggregationProofs --------------------------
(***************************************************************************)
(* Proofs about the aggregates (Aggregation) and the dashboard's view of   *)
(* them (DashboardView): what ingesting records, in one go, in parts or by *)
(* the digests of their days, adds up to, and that a view of two parts     *)
(* shows what the records of both do.                                      *)
(***************************************************************************)
EXTENDS DashboardView, Induction, SequenceTheorems

Amounts == [tokens : Nat, records : Nat]

\* Maps from some of the keys K.
MapsTo(K, R) == UNION {[D -> R] : D \in SUBSET K}

LEMMA MapsToIs ==
    ASSUME NEW K, NEW R, NEW f
    PROVE  f \in MapsTo(K, R) <=> /\ f = [k \in DOMAIN f |-> f[k]]
                                  /\ DOMAIN f \subseteq K /\ \A k \in DOMAIN f : f[k] \in R
<1>1. ASSUME f \in MapsTo(K, R)
      PROVE  f = [k \in DOMAIN f |-> f[k]] /\ DOMAIN f \subseteq K /\ \A k \in DOMAIN f : f[k] \in R
  <2>1. PICK D \in SUBSET K : f \in [D -> R] BY <1>1 DEF MapsTo
  <2>2. DOMAIN f = D BY <2>1
  <2> QED BY <2>1, <2>2
<1>2. ASSUME f = [k \in DOMAIN f |-> f[k]], DOMAIN f \subseteq K, \A k \in DOMAIN f : f[k] \in R
      PROVE  f \in MapsTo(K, R)
  <2>1. f \in [DOMAIN f -> R] BY <1>2
  <2> QED BY <1>2, <2>1 DEF MapsTo
<1> QED BY <1>1, <1>2

LEMMA PlusIs ==
    ASSUME NEW a \in Amounts, NEW b \in Amounts
    PROVE  /\ Plus(a, b) \in Amounts /\ Plus(a, b) = Plus(b, a)
           /\ Plus(a, b).tokens = a.tokens + b.tokens /\ Plus(a, b).records = a.records + b.records
           /\ Plus(a, Zero) = a /\ Zero \in Amounts
           /\ \A c \in Amounts : Plus(Plus(a, b), c) = Plus(a, Plus(b, c))
BY DEF Plus, Amounts, Zero

\* Maps with the same keys and the same amounts are the same.
LEMMA SameMap ==
    ASSUME NEW f, NEW g, f = [k \in DOMAIN f |-> f[k]], g = [k \in DOMAIN g |-> g[k]],
           DOMAIN f = DOMAIN g, \A k \in DOMAIN f : At(f, k) = At(g, k)
    PROVE  f = g
<1>1. \A k \in DOMAIN f : f[k] = g[k] BY DEF At
<1> QED BY <1>1

LEMMA AtIs ==
    ASSUME NEW K, NEW f \in MapsTo(K, Amounts), NEW k
    PROVE  At(f, k) \in Amounts /\ (k \notin DOMAIN f => At(f, k) = Zero)
<1>1. Zero \in Amounts BY DEF Zero, Amounts
<1> QED BY <1>1, MapsToIs DEF At

LEMMA PutIs ==
    ASSUME NEW K, NEW R, NEW f \in MapsTo(K, R), NEW k \in K, NEW v \in R
    PROVE  Put(f, k, v) \in MapsTo(K, R) /\ DOMAIN Put(f, k, v) = DOMAIN f \cup {k}
<1> DEFINE g == Put(f, k, v)
<1>1. DOMAIN f \subseteq K /\ \A j \in DOMAIN f : f[j] \in R BY MapsToIs
<1>2. /\ DOMAIN g = DOMAIN f \cup {k} /\ g = [j \in DOMAIN g |-> g[j]]
      /\ \A j \in DOMAIN g : g[j] = IF j = k THEN v ELSE f[j]
  BY DEF Put
<1> HIDE DEF g
<1>3. g \in MapsTo(K, R) BY <1>1, <1>2, MapsToIs
<1> QED BY <1>2, <1>3 DEF g

LEMMA AddToIs ==
    ASSUME NEW K, NEW f \in MapsTo(K, Amounts), NEW k \in K, NEW a \in Amounts
    PROVE  AddTo(f, k, a) \in MapsTo(K, Amounts)
<1>1. At(f, k) \in Amounts BY AtIs
<1>2. PICK b \in Amounts : b = Plus(At(f, k), a) BY <1>1, PlusIs
<1>3. AddTo(f, k, a) = Put(f, k, b) BY <1>2 DEF AddTo
<1>4. Put(f, k, b) \in MapsTo(K, Amounts)
  <2>1. PICK R : R = Amounts OBVIOUS
  <2>2. f \in MapsTo(K, R) /\ b \in R BY <2>1
  <2>3. Put(f, k, b) \in MapsTo(K, R) BY <2>2, PutIs
  <2> QED BY <2>1, <2>3
<1> QED BY <1>3, <1>4

LEMMA AddToKeys == ASSUME NEW f, NEW k, NEW a PROVE DOMAIN AddTo(f, k, a) = DOMAIN f \cup {k}
<1>1. AddTo(f, k, a) = Put(f, k, Plus(At(f, k), a)) BY DEF AddTo
<1> QED BY <1>1 DEF Put

LEMMA AddToAt == ASSUME NEW f, NEW k, NEW a PROVE At(AddTo(f, k, a), k) = Plus(At(f, k), a)
<1>1. AddTo(f, k, a) = Put(f, k, Plus(At(f, k), a)) BY DEF AddTo
<1> QED BY <1>1 DEF At, Put

LEMMA AddToAway ==
    ASSUME NEW f, NEW k, NEW a
    PROVE  \A j : j # k => At(AddTo(f, k, a), j) = At(f, j)
<1>1. AddTo(f, k, a) = Put(f, k, Plus(At(f, k), a)) BY DEF AddTo
<1> QED BY <1>1 DEF At, Put

LEMMA AddMapsKeys == ASSUME NEW f, NEW g PROVE DOMAIN AddMaps(f, g) = DOMAIN f \cup DOMAIN g
BY DEF AddMaps

LEMMA AddMapsAt ==
    ASSUME NEW f, NEW g, NEW k
    PROVE  At(AddMaps(f, g), k) = Plus(At(f, k), At(g, k))
<1>1. k \in DOMAIN f \cup DOMAIN g => AddMaps(f, g)[k] = Plus(At(f, k), At(g, k)) BY DEF AddMaps
<1>2. k \notin DOMAIN f \cup DOMAIN g => Plus(At(f, k), At(g, k)) = Zero
  BY DEF At, Plus, Zero
<1> QED BY <1>1, <1>2, AddMapsKeys DEF At

LEMMA AddMapsIs ==
    ASSUME NEW K, NEW f \in MapsTo(K, Amounts), NEW g \in MapsTo(K, Amounts)
    PROVE  AddMaps(f, g) \in MapsTo(K, Amounts)
<1>1. DOMAIN AddMaps(f, g) = DOMAIN f \cup DOMAIN g
      /\ AddMaps(f, g) = [k \in DOMAIN AddMaps(f, g) |-> AddMaps(f, g)[k]]
      /\ \A k \in DOMAIN f \cup DOMAIN g : AddMaps(f, g)[k] = Plus(At(f, k), At(g, k))
  BY DEF AddMaps
<1>2. DOMAIN f \subseteq K /\ DOMAIN g \subseteq K BY MapsToIs
<1>3. \A k : At(f, k) \in Amounts /\ At(g, k) \in Amounts BY AtIs
<1>4. \A k : Plus(At(f, k), At(g, k)) \in Amounts BY <1>3, PlusIs
<1> QED BY <1>1, <1>2, <1>4, MapsToIs

-----------------------------------------------------------------------------
(* What records add up to *)

\* Logs with amounts.
LogSet(L) == \A x \in L : x.tokens \in Nat

Mine(logs, d, k) == {i \in DOMAIN logs : KeyOf(logs[i])[d] = k}

LEMMA AmountIs ==
    ASSUME NEW L, LogSet(L), NEW x \in L, NEW d
    PROVE  Amount(x, d) \in Amounts
BY DEF LogSet, Amount, Amounts

\* Records in a sequence, or some of one.
Records(logs) == IsFiniteSet(DOMAIN logs) /\ \A i \in DOMAIN logs : logs[i].tokens \in Nat

LEMMA SeqRecords == ASSUME NEW L, LogSet(L), NEW logs \in Seq(L) PROVE Records(logs)
<1>1. DOMAIN logs = 1 .. Len(logs) /\ Len(logs) \in Nat /\ \A i \in DOMAIN logs : logs[i] \in L OBVIOUS
<1>2. IsFiniteSet(1 .. Len(logs)) BY <1>1, FS_Interval
<1> QED BY <1>1, <1>2 DEF Records, LogSet

LEMMA AmountOfRecords ==
    ASSUME NEW logs, Records(logs), NEW d, NEW k
    PROVE  /\ IsFiniteSet(Mine(logs, d, k)) /\ RefAmount(logs, d, k) \in Amounts
           /\ RefAmount(logs, d, k).tokens = Total([i \in DOMAIN logs |-> Amount(logs[i], d).tokens], Mine(logs, d, k))
           /\ RefAmount(logs, d, k).records = IF d \in Counted THEN Cardinality(Mine(logs, d, k)) ELSE 0
           /\ Mine(logs, d, k) = {} <=> k \notin RefKeys(logs, d)
<1> DEFINE M == Mine(logs, d, k)
           F == [i \in DOMAIN logs |-> Amount(logs[i], d).tokens]
           Rec(f) == f = [s \in SUBSET M |-> IF s = {} THEN 0
                             ELSE Amount(logs[CHOOSE x \in s : TRUE], d).tokens
                                  + f[s \ {CHOOSE x \in s : TRUE}]]
           it == CHOOSE f : Rec(f)
<1>1. IsFiniteSet(M) /\ M \subseteq DOMAIN logs
  <2>1. M \subseteq DOMAIN logs BY DEF Mine
  <2> QED BY <2>1, FS_Subset DEF Records
<1>2. \A i \in DOMAIN logs : F[i] = Amount(logs[i], d).tokens /\ F[i] \in Nat
  BY DEF Records, Amount
<1>3. RefAmount(logs, d, k) = [tokens |-> it[M], records |-> IF d \in Counted THEN Cardinality(M) ELSE 0]
  BY DEF RefAmount, Mine, MapThenSumSet, MapThenFoldSet
<1>4. ASSUME NEW s \in SUBSET M, s # {}
      PROVE  Amount(logs[CHOOSE x \in s : TRUE], d).tokens = F[CHOOSE x \in s : TRUE]
  <2>1. PICK c : c = CHOOSE x \in s : TRUE OBVIOUS
  <2>2. c \in DOMAIN logs BY <1>1, <1>4, <2>1
  <2> QED BY <1>2, <2>1, <2>2
<1> HIDE DEF F, M
<1>5. ASSUME NEW f PROVE Rec(f) <=> AddsIn(f, M, F)
  <2> DEFINE one == [s \in SUBSET M |-> IF s = {} THEN 0
                        ELSE Amount(logs[CHOOSE x \in s : TRUE], d).tokens + f[s \ {CHOOSE x \in s : TRUE}]]
             two == [s \in SUBSET M |-> IF s = {} THEN 0
                        ELSE F[CHOOSE x \in s : TRUE] + f[s \ {CHOOSE x \in s : TRUE}]]
  <2>1. ASSUME NEW s \in SUBSET M PROVE one[s] = two[s] BY <1>4
  <2>2. one = two BY <2>1
  <2>3. (Rec(f) <=> f = one) /\ (AddsIn(f, M, F) <=> f = two) BY DEF AddsIn
  <2> QED BY <2>2, <2>3
<1>6. \A x \in M : F[x] \in Nat BY <1>1, <1>2
<1>7. PICK g : AddsIn(g, M, F) /\ Total(F, M) = g[M] BY <1>1, <1>6, TotalIs
<1> HIDE DEF Rec
<1>8. Rec(it) BY <1>5, <1>7
<1> HIDE DEF it
<1>9. it[M] = Total(F, M)
  <2>1. AddsIn(it, M, F) BY <1>5, <1>8
  <2> QED BY <1>1, <1>6, <1>7, <2>1, AddsAgree
<1>10. Total(F, M) \in Nat BY <1>1, <1>6, TotalSteps
<1>11. Cardinality(M) \in Nat BY <1>1, FS_CardinalityType
<1>12. M = {} <=> k \notin RefKeys(logs, d) BY DEF M, Mine, RefKeys
<1> QED BY <1>1, <1>3, <1>9, <1>10, <1>11, <1>12 DEF M, F, Amounts

LEMMA RefAmountIs ==
    ASSUME NEW L, LogSet(L), NEW logs \in Seq(L), NEW d, NEW k
    PROVE  /\ IsFiniteSet(Mine(logs, d, k)) /\ RefAmount(logs, d, k) \in Amounts
           /\ RefAmount(logs, d, k).tokens = Total([i \in DOMAIN logs |-> Amount(logs[i], d).tokens], Mine(logs, d, k))
           /\ RefAmount(logs, d, k).records = IF d \in Counted THEN Cardinality(Mine(logs, d, k)) ELSE 0
           /\ Mine(logs, d, k) = {} <=> k \notin RefKeys(logs, d)
BY SeqRecords, AmountOfRecords

\* Records that agree on a key have one amount for it.
LEMMA SameAmount ==
    ASSUME NEW a, Records(a), NEW b, Records(b), NEW d, NEW k, Mine(a, d, k) = Mine(b, d, k),
           \A i \in Mine(a, d, k) : a[i].tokens = b[i].tokens
    PROVE  RefAmount(a, d, k) = RefAmount(b, d, k)
<1> DEFINE M == Mine(a, d, k)
           A == [i \in DOMAIN a |-> Amount(a[i], d).tokens]
           B == [i \in DOMAIN b |-> Amount(b[i], d).tokens]
<1>1. M \subseteq DOMAIN a /\ M \subseteq DOMAIN b BY DEF Mine
<1>2. \A i \in M : A[i] \in Nat /\ B[i] = A[i]
  <2>1. \A i \in M : A[i] = Amount(a[i], d).tokens /\ B[i] = Amount(b[i], d).tokens BY <1>1
  <2>2. \A i \in M : Amount(a[i], d).tokens = Amount(b[i], d).tokens /\ Amount(a[i], d).tokens \in Nat
    BY <1>1 DEF Amount, Records
  <2> QED BY <2>1, <2>2
<1>3. /\ IsFiniteSet(M) /\ RefAmount(a, d, k) \in Amounts /\ RefAmount(a, d, k).tokens = Total(A, M)
      /\ RefAmount(a, d, k).records = IF d \in Counted THEN Cardinality(M) ELSE 0
  BY AmountOfRecords
<1>4. /\ RefAmount(b, d, k) \in Amounts /\ RefAmount(b, d, k).tokens = Total(B, M)
      /\ RefAmount(b, d, k).records = IF d \in Counted THEN Cardinality(M) ELSE 0
  BY AmountOfRecords
<1> HIDE DEF M, A, B
<1>5. Total(B, M) = Total(A, M) BY <1>2, <1>3, TotalAgrees
<1>6. PICK x \in Amounts : x = RefAmount(a, d, k) BY <1>3
<1>7. PICK y \in Amounts : y = RefAmount(b, d, k) BY <1>4
<1>8. x = y BY <1>3, <1>4, <1>5, <1>6, <1>7 DEF Amounts
<1> QED BY <1>6, <1>7, <1>8

\* One record more.
LEMMA RefAppend ==
    ASSUME NEW L, LogSet(L), NEW logs \in Seq(L), NEW x \in L, NEW d
    PROVE  /\ RefKeys(Append(logs, x), d) = RefKeys(logs, d) \cup {KeyOf(x)[d]}
           /\ \A k : RefAmount(Append(logs, x), d, k) =
                 IF KeyOf(x)[d] = k THEN Plus(RefAmount(logs, d, k), Amount(x, d))
                                    ELSE RefAmount(logs, d, k)
<1> DEFINE w == Append(logs, x)
           n == Len(logs)
<1>1. /\ n \in Nat /\ DOMAIN logs = 1 .. n /\ DOMAIN w = (1 .. n) \cup {n + 1} /\ n + 1 \notin 1 .. n
      /\ w \in Seq(L) /\ w[n + 1] = x /\ \A i \in 1 .. n : w[i] = logs[i] /\ logs[i] \in L
  OBVIOUS
<1> HIDE DEF w, n
<1>2. RefKeys(w, d) = RefKeys(logs, d) \cup {KeyOf(x)[d]} BY <1>1 DEF RefKeys
<1>3. ASSUME NEW k
      PROVE  RefAmount(w, d, k) = IF KeyOf(x)[d] = k THEN Plus(RefAmount(logs, d, k), Amount(x, d))
                                  ELSE RefAmount(logs, d, k)
  <2> DEFINE M == Mine(logs, d, k)
             F == [i \in DOMAIN logs |-> Amount(logs[i], d).tokens]
             G == [i \in DOMAIN w |-> Amount(w[i], d).tokens]
  <2>1. /\ IsFiniteSet(M) /\ RefAmount(logs, d, k) \in Amounts
        /\ RefAmount(logs, d, k).tokens = Total(F, M)
        /\ RefAmount(logs, d, k).records = IF d \in Counted THEN Cardinality(M) ELSE 0
    BY RefAmountIs
  <2>2. /\ IsFiniteSet(Mine(w, d, k)) /\ RefAmount(w, d, k) \in Amounts
        /\ RefAmount(w, d, k).tokens = Total(G, Mine(w, d, k))
        /\ RefAmount(w, d, k).records = IF d \in Counted THEN Cardinality(Mine(w, d, k)) ELSE 0
    BY <1>1, RefAmountIs
  <2>3. Mine(w, d, k) = IF KeyOf(x)[d] = k THEN M \cup {n + 1} ELSE M BY <1>1 DEF Mine
  <2>4. M \subseteq 1 .. n BY <1>1 DEF Mine
  <2>5. G[n + 1] = Amount(x, d).tokens /\ \A i \in M : G[i] = F[i] /\ F[i] \in Nat
    <3>1. \A i \in 1 .. n : G[i] = F[i] /\ F[i] = Amount(logs[i], d).tokens BY <1>1
    <3>2. \A i \in 1 .. n : Amount(logs[i], d) \in Amounts BY <1>1, AmountIs
    <3>3. \A i \in 1 .. n : F[i] \in Nat BY <3>1, <3>2 DEF Amounts
    <3> QED BY <1>1, <2>4, <3>1, <3>3
  <2>6. Amount(x, d) \in Amounts /\ Amount(x, d).records = IF d \in Counted THEN 1 ELSE 0
    BY AmountIs DEF Amount
  <2> HIDE DEF M, F, G
  <2>7. Total(G, M) = Total(F, M) /\ Total(F, M) \in Nat
    <3>1. Total(G, M) = Total(F, M) BY <2>1, <2>5, TotalAgrees
    <3>2. Total(F, M) \in Nat BY <2>1 DEF Amounts
    <3> QED BY <3>1, <3>2
  <2>8. CASE KeyOf(x)[d] = k
    <3>1. Mine(w, d, k) = M \cup {n + 1} /\ n + 1 \notin M BY <1>1, <2>3, <2>4, <2>8
    <3>2. \A y \in M \cup {n + 1} : G[y] \in Nat BY <2>5, <2>6 DEF Amounts
    <3>3. Total(G, M \cup {n + 1}) = G[n + 1] + Total(G, M) BY <2>1, <3>1, <3>2, TotalWith
    <3>4. Cardinality(M \cup {n + 1}) = Cardinality(M) + 1 BY <2>1, <3>1, FS_AddElement
    <3>5. Cardinality(M) \in Nat BY <2>1, FS_CardinalityType
    <3>6. RefAmount(w, d, k).tokens = RefAmount(logs, d, k).tokens + Amount(x, d).tokens
      BY <2>1, <2>2, <2>5, <2>6, <2>7, <3>1, <3>3 DEF Amounts
    <3>7. RefAmount(w, d, k).records = RefAmount(logs, d, k).records + Amount(x, d).records
      BY <2>1, <2>2, <2>6, <3>1, <3>4, <3>5
    <3> QED BY <2>1, <2>2, <2>6, <2>8, <3>6, <3>7 DEF Plus, Amounts
  <2>9. CASE KeyOf(x)[d] # k
    BY <2>1, <2>2, <2>3, <2>7, <2>9 DEF Amounts
  <2> QED BY <2>8, <2>9
<1> QED BY <1>2, <1>3 DEF w

\* Sequences grow by one element at a time.
LEMMA GrowsByOne ==
    ASSUME NEW L, NEW q \in Seq(L)
    PROVE  /\ SubSeq(q, 1, 0) = <<>> /\ SubSeq(q, 1, Len(q)) = q
           /\ \A n \in 0 .. Len(q) : SubSeq(q, 1, n) \in Seq(L)
           /\ \A n \in 0 .. Len(q) - 1 : q[n + 1] \in L /\ SubSeq(q, 1, n + 1) = Append(SubSeq(q, 1, n), q[n + 1])
<1>1. SubSeq(q, 1, 0) = <<>> /\ SubSeq(q, 1, Len(q)) = q OBVIOUS
<1>2. ASSUME NEW n \in 0 .. Len(q) PROVE SubSeq(q, 1, n) \in Seq(L)
  OBVIOUS
<1>3. ASSUME NEW n \in 0 .. Len(q) - 1
      PROVE  q[n + 1] \in L /\ SubSeq(q, 1, n + 1) = Append(SubSeq(q, 1, n), q[n + 1])
  OBVIOUS
<1> QED BY <1>1, <1>2, <1>3

LEMMA RefEmpty ==
    ASSUME NEW d
    PROVE  RefKeys(<<>>, d) = {} /\ \A k : RefAmount(<<>>, d, k) = Zero
<1>1. <<>> \in Seq({}) /\ LogSet({}) /\ DOMAIN <<>> = {} BY DEF LogSet
<1>2. RefKeys(<<>>, d) = {} BY <1>1 DEF RefKeys
<1>3. ASSUME NEW k PROVE RefAmount(<<>>, d, k) = Zero
  <2>1. Mine(<<>>, d, k) = {} BY <1>1 DEF Mine
  <2>2. Total([i \in DOMAIN <<>> |-> Amount(<<>>[i], d).tokens], {}) = 0 /\ Cardinality({}) = 0
    BY FS_EmptySet, TotalSteps
  <2>3. RefAmount(<<>>, d, k) \in Amounts BY <1>1, RefAmountIs
  <2>4. RefAmount(<<>>, d, k).tokens = Total([i \in DOMAIN <<>> |-> Amount(<<>>[i], d).tokens], Mine(<<>>, d, k))
    BY <1>1, RefAmountIs
  <2>5. RefAmount(<<>>, d, k).records = IF d \in Counted THEN Cardinality(Mine(<<>>, d, k)) ELSE 0
    BY <1>1, RefAmountIs
  <2>6. RefAmount(<<>>, d, k).tokens = 0 /\ RefAmount(<<>>, d, k).records = 0
    BY <2>1, <2>2, <2>4, <2>5
  <2> QED BY <2>3, <2>6 DEF Amounts, Zero
<1> QED BY <1>2, <1>3

LEMMA RefNone ==
    ASSUME NEW L, LogSet(L), NEW logs \in Seq(L), NEW d, NEW k, k \notin RefKeys(logs, d)
    PROVE  RefAmount(logs, d, k) = Zero
<1> DEFINE M == Mine(logs, d, k)
           F == [i \in DOMAIN logs |-> Amount(logs[i], d).tokens]
<1>1. M = {} BY RefAmountIs
<1>2. Total(F, {}) = 0 /\ Cardinality({}) = 0 BY FS_EmptySet, TotalSteps
<1>3. RefAmount(logs, d, k) \in Amounts BY RefAmountIs
<1>4. RefAmount(logs, d, k).tokens = Total(F, M) BY RefAmountIs
<1>5. RefAmount(logs, d, k).records = IF d \in Counted THEN Cardinality(M) ELSE 0 BY RefAmountIs
<1> HIDE DEF M, F
<1> QED BY <1>1, <1>2, <1>3, <1>4, <1>5 DEF Amounts, Zero

\* Records in two parts.
Parts(w, p, q, d) ==
    /\ RefKeys(w, d) = RefKeys(p, d) \cup RefKeys(q, d)
    /\ \A k : RefAmount(w, d, k) = Plus(RefAmount(p, d, k), RefAmount(q, d, k))

LEMMA RefConcat ==
    ASSUME NEW L, LogSet(L), NEW p \in Seq(L), NEW q \in Seq(L), NEW d
    PROVE  Parts(p \o q, p, q, d)
<1> DEFINE r(n) == SubSeq(q, 1, n)
           Good(n) == /\ RefKeys(p \o r(n), d) = RefKeys(p, d) \cup RefKeys(r(n), d)
                      /\ \A k : RefAmount(p \o r(n), d, k) = Plus(RefAmount(p, d, k), RefAmount(r(n), d, k))
           K == {n \in Nat : Good(n)}
<1>1. /\ r(0) = <<>> /\ r(Len(q)) = q /\ \A n \in 0 .. Len(q) : r(n) \in Seq(L)
      /\ \A n \in 0 .. Len(q) - 1 : q[n + 1] \in L /\ r(n + 1) = Append(r(n), q[n + 1])
  <2>1. /\ SubSeq(q, 1, 0) = <<>> /\ SubSeq(q, 1, Len(q)) = q
        /\ \A n \in 0 .. Len(q) : SubSeq(q, 1, n) \in Seq(L)
        /\ \A n \in 0 .. Len(q) - 1 : q[n + 1] \in L /\ SubSeq(q, 1, n + 1) = Append(SubSeq(q, 1, n), q[n + 1])
    BY GrowsByOne
  <2> QED BY <2>1
<1>2. Len(q) \in Nat OBVIOUS
<1>3. \A k : RefAmount(p, d, k) \in Amounts BY RefAmountIs
<1> HIDE DEF r
<1>4. Good(0)
  <2>1. p \o <<>> = p OBVIOUS
  <2>2. \A k : Plus(RefAmount(p, d, k), Zero) = RefAmount(p, d, k) BY <1>3, PlusIs
  <2> QED BY <1>1, <2>1, <2>2, RefEmpty
<1>5. ASSUME NEW n \in 0 .. Len(q) - 1, Good(n) PROVE Good(n + 1)
  <2>1. PICK x \in L : x = q[n + 1] BY <1>1
  <2>2. PICK s \in Seq(L) : s = r(n) BY <1>1, <1>2
  <2>3. r(n + 1) = Append(s, x) BY <1>1, <2>1, <2>2
  <2>4. p \o Append(s, x) = Append(p \o s, x) /\ p \o s \in Seq(L) OBVIOUS
  <2>5. /\ RefKeys(Append(s, x), d) = RefKeys(s, d) \cup {KeyOf(x)[d]}
        /\ \A k : RefAmount(Append(s, x), d, k) =
              IF KeyOf(x)[d] = k THEN Plus(RefAmount(s, d, k), Amount(x, d)) ELSE RefAmount(s, d, k)
    BY RefAppend
  <2>6. /\ RefKeys(Append(p \o s, x), d) = RefKeys(p \o s, d) \cup {KeyOf(x)[d]}
        /\ \A k : RefAmount(Append(p \o s, x), d, k) =
              IF KeyOf(x)[d] = k THEN Plus(RefAmount(p \o s, d, k), Amount(x, d)) ELSE RefAmount(p \o s, d, k)
    <3>1. PICK t \in Seq(L) : t = p \o s BY <2>4
    <3>2. /\ RefKeys(Append(t, x), d) = RefKeys(t, d) \cup {KeyOf(x)[d]}
          /\ \A k : RefAmount(Append(t, x), d, k) =
                IF KeyOf(x)[d] = k THEN Plus(RefAmount(t, d, k), Amount(x, d)) ELSE RefAmount(t, d, k)
      BY RefAppend
    <3> QED BY <3>1, <3>2
  <2>7. \A k : RefAmount(s, d, k) \in Amounts BY RefAmountIs
  <2>8. Amount(x, d) \in Amounts BY AmountIs
  <2>9. \A k : Plus(Plus(RefAmount(p, d, k), RefAmount(s, d, k)), Amount(x, d))
               = Plus(RefAmount(p, d, k), Plus(RefAmount(s, d, k), Amount(x, d)))
    BY <1>3, <2>7, <2>8, PlusIs
  <2>10. RefKeys(p \o s, d) = RefKeys(p, d) \cup RefKeys(s, d) BY <1>5, <2>2
  <2>11. RefKeys(p \o Append(s, x), d) = RefKeys(p, d) \cup RefKeys(Append(s, x), d)
    BY <2>4, <2>5, <2>6, <2>10
  <2>12. \A k : RefAmount(p \o s, d, k) = Plus(RefAmount(p, d, k), RefAmount(s, d, k)) BY <1>5, <2>2
  <2>13. ASSUME NEW k
         PROVE  RefAmount(p \o Append(s, x), d, k) = Plus(RefAmount(p, d, k), RefAmount(Append(s, x), d, k))
    <3>1. CASE KeyOf(x)[d] = k BY <2>4, <2>5, <2>6, <2>9, <2>12, <3>1
    <3>2. CASE KeyOf(x)[d] # k BY <2>4, <2>5, <2>6, <2>12, <3>2
    <3> QED BY <3>1, <3>2
  <2> QED BY <2>3, <2>11, <2>13
<1> HIDE DEF Good
<1>6. 0 \in K BY <1>4
<1>7. ASSUME NEW n \in 0 .. Len(q) - 1, n \in K PROVE n + 1 \in K BY <1>2, <1>5, <1>7
<1> HIDE DEF K
<1>8. Len(q) \in K
  <2>1. 0 .. Len(q) \subseteq K BY <1>2, <1>6, <1>7, BoundedInduction
  <2> QED BY <1>2, <2>1
<1> QED BY <1>1, <1>8 DEF K, Good, Parts

-----------------------------------------------------------------------------
(* Aggregates *)

Aggs(K, P, N) == [by : [Dims -> MapsTo(K, Amounts)], names : MapsTo(P, N)]

\* Logs whose keys, projects and names these are.
Fits(L, K, P, N) ==
    /\ LogSet(L)
    /\ \A x \in L : /\ x.project \in P /\ x.name \in N
                    /\ \A d \in Dims : KeyOf(x)[d] \in K

\* The map b is a and the records of logs.
AddsUp(b, a, logs, d) == /\ DOMAIN b = DOMAIN a \cup RefKeys(logs, d)
                         /\ \A k : At(b, k) = Plus(At(a, k), RefAmount(logs, d, k))

LEMMA EmptyMapIs == ASSUME NEW K, NEW R PROVE <<>> \in MapsTo(K, R) /\ DOMAIN <<>> = {}
<1>1. <<>> \in [1 .. 0 -> R] /\ 1 .. 0 = {} OBVIOUS
<1>2. {} \in SUBSET K OBVIOUS
<1> QED BY <1>1, <1>2 DEF MapsTo

LEMMA EmptyAggregateIs ==
    ASSUME NEW K, NEW P, NEW N
    PROVE  EmptyAggregate \in Aggs(K, P, N) /\ \A d \in Dims : EmptyAggregate.by[d] = <<>>
BY EmptyMapIs DEF EmptyAggregate, Aggs

LEMMA IngestOneIs ==
    ASSUME NEW L, NEW K, NEW P, NEW N, Fits(L, K, P, N), NEW agg \in Aggs(K, P, N), NEW x \in L
    PROVE  /\ IngestOne(agg, x) \in Aggs(K, P, N)
           /\ \A d \in Dims : IngestOne(agg, x).by[d] = AddTo(agg.by[d], KeyOf(x)[d], Amount(x, d))
<1>1. agg.by \in [Dims -> MapsTo(K, Amounts)] /\ agg.names \in MapsTo(P, N) BY DEF Aggs
<1>2. x.project \in P /\ x.name \in N /\ \A d \in Dims : KeyOf(x)[d] \in K BY DEF Fits
<1>3. \A d \in Dims : AddTo(agg.by[d], KeyOf(x)[d], Amount(x, d)) \in MapsTo(K, Amounts)
  <2> SUFFICES ASSUME NEW d \in Dims PROVE AddTo(agg.by[d], KeyOf(x)[d], Amount(x, d)) \in MapsTo(K, Amounts)
    OBVIOUS
  <2>1. PICK f \in MapsTo(K, Amounts) : f = agg.by[d] BY <1>1
  <2>2. PICK k \in K : k = KeyOf(x)[d] BY <1>2
  <2>3. PICK a \in Amounts : a = Amount(x, d) BY AmountIs DEF Fits
  <2>4. AddTo(f, k, a) \in MapsTo(K, Amounts) BY AddToIs
  <2> QED BY <2>1, <2>2, <2>3, <2>4
<1>4. Put(agg.names, x.project, x.name) \in MapsTo(P, N) BY <1>1, <1>2, PutIs
<1> QED BY <1>1, <1>3, <1>4 DEF IngestOne, Aggs

LEMMA AddsUpAppend ==
    ASSUME NEW L, NEW K, NEW P, NEW N, Fits(L, K, P, N), NEW a \in MapsTo(K, Amounts),
           NEW b \in MapsTo(K, Amounts), NEW logs \in Seq(L), NEW x \in L, NEW d \in Dims,
           AddsUp(b, a, logs, d)
    PROVE  AddsUp(AddTo(b, KeyOf(x)[d], Amount(x, d)), a, Append(logs, x), d)
<1>1. PICK j \in K : j = KeyOf(x)[d] BY DEF Fits
<1>2. PICK v \in Amounts : v = Amount(x, d) BY AmountIs DEF Fits
<1>3. /\ DOMAIN AddTo(b, j, v) = DOMAIN b \cup {j}
      /\ At(AddTo(b, j, v), j) = Plus(At(b, j), v)
      /\ \A k : k # j => At(AddTo(b, j, v), k) = At(b, k)
  <2>1. DOMAIN AddTo(b, j, v) = DOMAIN b \cup {j} BY AddToKeys
  <2>2. At(AddTo(b, j, v), j) = Plus(At(b, j), v) BY AddToAt
  <2>3. \A k : k # j => At(AddTo(b, j, v), k) = At(b, k) BY AddToAway
  <2> QED BY <2>1, <2>2, <2>3
<1>4. LogSet(L) BY DEF Fits
<1>5. /\ RefKeys(Append(logs, x), d) = RefKeys(logs, d) \cup {j}
      /\ \A k : RefAmount(Append(logs, x), d, k) =
            IF j = k THEN Plus(RefAmount(logs, d, k), v) ELSE RefAmount(logs, d, k)
  BY <1>1, <1>2, <1>4, RefAppend
<1>6. At(a, j) \in Amounts BY AtIs
<1>7. RefAmount(logs, d, j) \in Amounts BY <1>4, RefAmountIs
<1>8. Plus(Plus(At(a, j), RefAmount(logs, d, j)), v) = Plus(At(a, j), Plus(RefAmount(logs, d, j), v))
  BY <1>6, <1>7, PlusIs
<1> QED BY <1>1, <1>2, <1>3, <1>5, <1>8 DEF AddsUp

\* Ingesting records adds them.
LEMMA IngestAdds ==
    ASSUME NEW L, NEW K, NEW P, NEW N, Fits(L, K, P, N), NEW agg \in Aggs(K, P, N), NEW logs \in Seq(L)
    PROVE  /\ Ingest(agg, logs) \in Aggs(K, P, N)
           /\ \A d \in Dims : AddsUp(Ingest(agg, logs).by[d], agg.by[d], logs, d)
<1> DEFINE n == Len(logs)
           S == DOMAIN logs
           V == Aggs(K, P, N)
           C == [s \in SUBSET S |-> Max(s)]
           G == [p \in S \X V |-> IngestOne(p[2], logs[p[1]])]
           Rec(f) == f = [s \in SUBSET S |-> IF s = {} THEN agg
                             ELSE IngestOne(f[s \ {Max(s)}], logs[Max(s)])]
           it == CHOOSE f : Rec(f)
<1>1. n \in Nat /\ S = 1 .. n /\ IsFiniteSet(S) /\ \A i \in S : logs[i] \in L
  <2>1. n \in Nat /\ S = 1 .. n /\ \A i \in S : logs[i] \in L OBVIOUS
  <2> QED BY <2>1, FS_Interval
<1>2. Ingest(agg, logs) = it[S] BY DEF Ingest, FoldLeft, MapThenFoldSet
<1>3. \A s \in SUBSET S : C[s] = Max(s) OBVIOUS
<1>4. \A x \in S, v \in V : G[<<x, v>>] = IngestOne(v, logs[x]) OBVIOUS
<1>5. \A s \in SUBSET S : s # {} => Max(s) \in s /\ \A y \in s : y <= Max(s)
  <2> SUFFICES ASSUME NEW s \in SUBSET S, s # {} PROVE Max(s) \in s /\ \A y \in s : y <= Max(s)
    OBVIOUS
  <2>1. s \subseteq 0 .. n BY <1>1
  <2> QED BY <1>1, <2>1, MaxOfBounded
<1> HIDE DEF n, S, C, G
<1>6. ASSUME NEW x \in S, NEW v \in V PROVE G[<<x, v>>] \in V
  <2>1. PICK y \in L : y = logs[x] BY <1>1
  <2>2. IngestOne(v, y) \in Aggs(K, P, N) BY IngestOneIs
  <2> QED BY <1>4, <2>1, <2>2
<1> HIDE DEF V
<1>7. Chooses(C, S) /\ StaysIn(G, S, V) BY <1>3, <1>5, <1>6 DEF Chooses, StaysIn
<1>8. agg \in V BY DEF V
<1>9. PICK g : IsFold(g, S, agg, C, G) BY <1>1, <1>7, SomeFold
<1>10. g[{}] = agg /\ \A s \in SUBSET S : g[s] \in V /\ (s # {} => g[s] = G[<<C[s], g[s \ {C[s]}]>>])
  <2> SUFFICES ASSUME NEW s \in SUBSET S
               PROVE  g[{}] = agg /\ g[s] \in V /\ (s # {} => g[s] = G[<<C[s], g[s \ {C[s]}]>>])
    OBVIOUS
  <2>1. IsFiniteSet(S) BY <1>1
  <2>2. g[{}] = agg BY <1>7, <1>8, <1>9, <2>1, FoldSteps
  <2>3. g[s] \in V BY <1>7, <1>8, <1>9, <2>1, FoldSteps
  <2>4. s # {} => g[s] = G[<<C[s], g[s \ {C[s]}]>>] BY <1>7, <1>8, <1>9, <2>1, FoldSteps
  <2> QED BY <2>2, <2>3, <2>4
<1>11. Rec(g)
  <2> DEFINE h == [s \in SUBSET S |-> IF s = {} THEN agg ELSE IngestOne(g[s \ {Max(s)}], logs[Max(s)])]
  <2>1. ASSUME NEW s \in SUBSET S PROVE g[s] = h[s]
    <3>1. CASE s = {} BY <1>10, <3>1
    <3>2. CASE s # {}
      <4>1. Max(s) \in S /\ s \ {Max(s)} \in SUBSET S BY <1>5, <3>2
      <4> QED BY <1>3, <1>4, <1>10, <3>2, <4>1
    <3> QED BY <3>1, <3>2
  <2>2. g = [s \in SUBSET S |-> g[s]] BY <1>9 DEF IsFold
  <2> QED BY <2>1, <2>2
<1>12. Rec(it)
  <2> HIDE DEF Rec
  <2> QED BY <1>11
<1> HIDE DEF it
<1> DEFINE r(i) == SubSeq(logs, 1, i)
           Good(i) == it[1 .. i] \in V /\ \A d \in Dims : AddsUp(it[1 .. i].by[d], agg.by[d], r(i), d)
           I == {i \in Nat : Good(i)}
<1>13. /\ r(0) = <<>> /\ r(n) = logs
       /\ \A i \in 0 .. n : r(i) \in Seq(L)
       /\ \A i \in 0 .. n - 1 : logs[i + 1] \in L /\ r(i + 1) = Append(r(i), logs[i + 1])
  BY GrowsByOne DEF n
<1>14. Good(0)
  <2>1. 1 .. 0 = {} /\ it[{}] = agg BY <1>12
  <2>2. ASSUME NEW d \in Dims PROVE AddsUp(agg.by[d], agg.by[d], <<>>, d)
    <3>1. PICK f \in MapsTo(K, Amounts) : f = agg.by[d] BY DEF Aggs
    <3>2. \A k : At(f, k) \in Amounts BY AtIs
    <3>3. \A k : Plus(At(f, k), Zero) = At(f, k) BY <3>2, PlusIs
    <3> QED BY <3>1, <3>3, RefEmpty DEF AddsUp
  <2> QED BY <1>8, <1>13, <2>1, <2>2
<1>15. ASSUME NEW i \in 0 .. n - 1, Good(i) PROVE Good(i + 1)
  <2>1. /\ 1 .. i + 1 \in SUBSET S /\ 1 .. i + 1 # {} /\ i + 1 \in 1 .. i + 1
        /\ \A y \in 1 .. i + 1 : y <= i + 1
    <3>1. i \in Nat /\ i + 1 <= n BY <1>1
    <3>2. 1 .. i + 1 \subseteq 1 .. n BY <1>1, <3>1
    <3>3. i + 1 \in 1 .. i + 1 /\ \A y \in 1 .. i + 1 : y <= i + 1 BY <3>1
    <3>4. 1 .. i + 1 \in SUBSET S BY <1>1, <3>2
    <3> QED BY <3>3, <3>4
  <2>2. Max(1 .. i + 1) = i + 1
    <3>1. Max(1 .. i + 1) \in 1 .. i + 1 /\ i + 1 <= Max(1 .. i + 1) BY <1>5, <2>1
    <3> QED BY <1>1, <3>1
  <2>3. (1 .. i + 1) \ {i + 1} = 1 .. i BY <1>1
  <2>4. it[1 .. i + 1] = IngestOne(it[1 .. i], logs[i + 1]) BY <1>12, <2>1, <2>2, <2>3
  <2>5. PICK x \in L : x = logs[i + 1] BY <1>13
  <2>6. PICK a \in Aggs(K, P, N) : a = it[1 .. i] BY <1>15 DEF V
  <2>7. /\ IngestOne(a, x) \in Aggs(K, P, N)
        /\ \A d \in Dims : IngestOne(a, x).by[d] = AddTo(a.by[d], KeyOf(x)[d], Amount(x, d))
    BY IngestOneIs
  <2>8. ASSUME NEW d \in Dims PROVE AddsUp(IngestOne(a, x).by[d], agg.by[d], r(i + 1), d)
    <3>1. PICK f \in MapsTo(K, Amounts) : f = agg.by[d] BY DEF Aggs
    <3>2. PICK b \in MapsTo(K, Amounts) : b = a.by[d] BY DEF Aggs
    <3>3. PICK s \in Seq(L) : s = r(i)
      <4>1. i \in 0 .. n BY <1>1
      <4>2. r(i) \in Seq(L) BY <1>13, <4>1
      <4> HIDE DEF r
      <4> QED BY <4>2
    <3>4. AddsUp(b, f, s, d) BY <1>15, <2>6, <3>1, <3>2, <3>3
    <3>5. AddsUp(AddTo(b, KeyOf(x)[d], Amount(x, d)), f, Append(s, x), d) BY <3>4, AddsUpAppend
    <3>6. r(i + 1) = Append(s, x) BY <1>13, <2>5, <3>3
    <3> HIDE DEF r
    <3> QED BY <2>7, <3>1, <3>2, <3>5, <3>6
  <2> QED BY <2>4, <2>5, <2>6, <2>7, <2>8 DEF V
<1> HIDE DEF Good
<1>16. 0 \in I BY <1>14
<1>17. ASSUME NEW i \in 0 .. n - 1, i \in I PROVE i + 1 \in I BY <1>1, <1>15, <1>17
<1> HIDE DEF I
<1>18. n \in I
  <2>1. 0 .. n \subseteq I BY <1>1, <1>16, <1>17, BoundedInduction
  <2> QED BY <1>1, <2>1
<1> QED BY <1>1, <1>2, <1>13, <1>18 DEF I, Good, V

-----------------------------------------------------------------------------
(* The records' amounts as a map *)

LEMMA RecordsByIs ==
    ASSUME NEW logs, Records(logs), NEW d
    PROVE  /\ RefBy(logs, d) \in MapsTo(RefKeys(logs, d), Amounts)
           /\ DOMAIN RefBy(logs, d) = RefKeys(logs, d)
           /\ \A k : At(RefBy(logs, d), k) = RefAmount(logs, d, k)
<1> DEFINE f == RefBy(logs, d)
<1>1. /\ DOMAIN f = RefKeys(logs, d) /\ f = [k \in DOMAIN f |-> f[k]]
      /\ \A k \in RefKeys(logs, d) : f[k] = RefAmount(logs, d, k)
  BY DEF RefBy
<1>2. \A k : RefAmount(logs, d, k) \in Amounts BY AmountOfRecords
<1>3. ASSUME NEW k, k \notin RefKeys(logs, d) PROVE RefAmount(logs, d, k) = Zero
  <2> DEFINE M == Mine(logs, d, k)
             F == [i \in DOMAIN logs |-> Amount(logs[i], d).tokens]
  <2>1. M = {} BY <1>3, AmountOfRecords
  <2>2. Total(F, {}) = 0 /\ Cardinality({}) = 0 BY FS_EmptySet, TotalSteps
  <2>3. /\ RefAmount(logs, d, k) \in Amounts /\ RefAmount(logs, d, k).tokens = Total(F, M)
        /\ RefAmount(logs, d, k).records = IF d \in Counted THEN Cardinality(M) ELSE 0
    BY AmountOfRecords
  <2> HIDE DEF M, F
  <2> QED BY <2>1, <2>2, <2>3 DEF Amounts, Zero
<1> HIDE DEF f
<1>4. f \in MapsTo(RefKeys(logs, d), Amounts)
  <2>1. PICK R : R = Amounts OBVIOUS
  <2>2. \A k \in DOMAIN f : f[k] \in R BY <1>1, <1>2, <2>1
  <2>3. f \in MapsTo(RefKeys(logs, d), R) BY <1>1, <2>2, MapsToIs
  <2> QED BY <2>1, <2>3
<1>5. \A k : At(f, k) = RefAmount(logs, d, k) BY <1>1, <1>3 DEF At
<1> QED BY <1>1, <1>4, <1>5 DEF f

LEMMA RefByIs ==
    ASSUME NEW L, NEW K, NEW P, NEW N, Fits(L, K, P, N), NEW logs \in Seq(L), NEW d \in Dims
    PROVE  /\ RefBy(logs, d) \in MapsTo(K, Amounts)
           /\ DOMAIN RefBy(logs, d) = RefKeys(logs, d)
           /\ \A k : At(RefBy(logs, d), k) = RefAmount(logs, d, k)
<1>1. LogSet(L) BY DEF Fits
<1>2. Records(logs) BY <1>1, SeqRecords
<1>3. PICK f \in MapsTo(RefKeys(logs, d), Amounts) : f = RefBy(logs, d) BY <1>2, RecordsByIs
<1>4. DOMAIN f = RefKeys(logs, d) /\ \A k : At(f, k) = RefAmount(logs, d, k) BY <1>2, <1>3, RecordsByIs
<1>5. RefKeys(logs, d) \subseteq K
  <2>1. \A i \in DOMAIN logs : logs[i] \in L OBVIOUS
  <2> QED BY <2>1 DEF RefKeys, Fits
<1>6. f \in MapsTo(K, Amounts) BY <1>3, <1>4, <1>5 DEF MapsTo
<1> QED BY <1>3, <1>4, <1>6

\* Some of the records.
LEMMA RestrictIs ==
    ASSUME NEW logs, Records(logs), NEW I, I \subseteq DOMAIN logs
    PROVE  /\ Records(Restrict(logs, I)) /\ DOMAIN Restrict(logs, I) = I
           /\ \A i \in I : Restrict(logs, I)[i] = logs[i]
           /\ \A d, k : Mine(Restrict(logs, I), d, k) = {i \in I : KeyOf(logs[i])[d] = k}
           /\ \A d : RefKeys(Restrict(logs, I), d) = {KeyOf(logs[i])[d] : i \in I}
<1>1. DOMAIN Restrict(logs, I) = I /\ \A i \in I : Restrict(logs, I)[i] = logs[i] BY DEF Restrict
<1>2. IsFiniteSet(I) BY FS_Subset DEF Records
<1>3. Records(Restrict(logs, I)) BY <1>1, <1>2 DEF Records
<1>4. PICK r : r = Restrict(logs, I) OBVIOUS
<1>5. ASSUME NEW d, NEW k PROVE Mine(r, d, k) = {i \in I : KeyOf(logs[i])[d] = k}
  BY <1>1, <1>4 DEF Mine
<1>6. ASSUME NEW d PROVE RefKeys(r, d) = {KeyOf(logs[i])[d] : i \in I}
  BY <1>1, <1>4 DEF RefKeys
<1> QED BY <1>1, <1>3, <1>4, <1>5, <1>6

\* Two maps with the same keys and amounts.
LEMMA EqualMaps ==
    ASSUME NEW K, NEW f \in MapsTo(K, Amounts), NEW g \in MapsTo(K, Amounts),
           DOMAIN f = DOMAIN g, \A k : At(f, k) = At(g, k)
    PROVE  f = g
<1>1. f = [k \in DOMAIN f |-> f[k]] /\ g = [k \in DOMAIN g |-> g[k]] BY MapsToIs
<1> QED BY <1>1, SameMap

LEMMA RefByConcat ==
    ASSUME NEW L, NEW K, NEW P, NEW N, Fits(L, K, P, N), NEW p \in Seq(L), NEW q \in Seq(L), NEW d \in Dims
    PROVE  RefBy(p \o q, d) = AddMaps(RefBy(p, d), RefBy(q, d))
<1>con. p \o q \in Seq(L) BY ConcatProperties
<1>1. PICK w \in Seq(L) : w = p \o q BY <1>con
<1>2. LogSet(L) BY DEF Fits
<1>parts. Parts(w, p, q, d) BY <1>1, <1>2, RefConcat
<1>3. PICK a \in MapsTo(K, Amounts) : a = RefBy(p, d) BY RefByIs
<1>4. PICK b \in MapsTo(K, Amounts) : b = RefBy(q, d) BY RefByIs
<1>5. PICK c \in MapsTo(K, Amounts) : c = RefBy(w, d) BY RefByIs
<1>6. PICK e \in MapsTo(K, Amounts) : e = AddMaps(a, b) BY AddMapsIs
<1>7. DOMAIN c = DOMAIN e
  <2>1. DOMAIN a = RefKeys(p, d) BY <1>3, RefByIs
  <2>2. DOMAIN b = RefKeys(q, d) BY <1>4, RefByIs
  <2>3. DOMAIN c = RefKeys(w, d) BY <1>5, RefByIs
  <2>4. RefKeys(w, d) = RefKeys(p, d) \cup RefKeys(q, d) BY <1>parts DEF Parts
  <2> QED BY <1>6, <2>1, <2>2, <2>3, <2>4, AddMapsKeys
<1>8. ASSUME NEW k PROVE At(c, k) = At(e, k)
  <2>1. At(a, k) = RefAmount(p, d, k) BY <1>3, RefByIs
  <2>2. At(b, k) = RefAmount(q, d, k) BY <1>4, RefByIs
  <2>3. At(c, k) = RefAmount(w, d, k) BY <1>5, RefByIs
  <2>4. RefAmount(w, d, k) = Plus(RefAmount(p, d, k), RefAmount(q, d, k)) BY <1>parts DEF Parts
  <2>5. At(e, k) = Plus(At(a, k), At(b, k)) BY <1>6, AddMapsAt
  <2> QED BY <2>1, <2>2, <2>3, <2>4, <2>5
<1>9. c = e BY <1>7, <1>8, EqualMaps
<1> QED BY <1>1, <1>3, <1>4, <1>5, <1>6, <1>9

LEMMA RefByEmpty == ASSUME NEW d PROVE RefBy(<<>>, d) = <<>>
<1>1. RefKeys(<<>>, d) = {} BY RefEmpty
<1>2. RefBy(<<>>, d) = [k \in RefKeys(<<>>, d) |-> RefAmount(<<>>, d, k)] BY DEF RefBy
<1> QED BY <1>1, <1>2

\* What IncrementalAggregator::ingest makes of some logs.
LEMMA IngestIs ==
    ASSUME NEW L, NEW K, NEW P, NEW N, Fits(L, K, P, N), NEW agg \in Aggs(K, P, N), NEW logs \in Seq(L)
    PROVE  /\ Ingest(agg, logs) \in Aggs(K, P, N)
           /\ \A d \in Dims : Ingest(agg, logs).by[d] = AddMaps(agg.by[d], RefBy(logs, d))
<1>1. PICK c \in Aggs(K, P, N) : c = Ingest(agg, logs) BY IngestAdds
<1>2. ASSUME NEW d \in Dims PROVE c.by[d] = AddMaps(agg.by[d], RefBy(logs, d))
  <2>1. AddsUp(c.by[d], agg.by[d], logs, d) BY <1>1, IngestAdds
  <2>2. PICK f \in MapsTo(K, Amounts) : f = c.by[d] BY DEF Aggs
  <2>3. PICK a \in MapsTo(K, Amounts) : a = agg.by[d] BY DEF Aggs
  <2>4. PICK r \in MapsTo(K, Amounts) : r = RefBy(logs, d) BY RefByIs
  <2>5. PICK e \in MapsTo(K, Amounts) : e = AddMaps(a, r) BY AddMapsIs
  <2>6. DOMAIN f = DOMAIN e
    <3>1. DOMAIN r = RefKeys(logs, d) BY <2>4, RefByIs
    <3> QED BY <2>1, <2>2, <2>3, <2>5, <3>1, AddMapsKeys DEF AddsUp
  <2>7. ASSUME NEW k PROVE At(f, k) = At(e, k)
    <3>1. At(r, k) = RefAmount(logs, d, k) BY <2>4, RefByIs
    <3>2. At(e, k) = Plus(At(a, k), At(r, k)) BY <2>5, AddMapsAt
    <3> QED BY <2>1, <2>2, <2>3, <3>1, <3>2 DEF AddsUp
  <2>8. f = e BY <2>6, <2>7, EqualMaps
  <2> QED BY <2>2, <2>3, <2>4, <2>5, <2>8
<1> QED BY <1>1, <1>2

\* The aggregate of some records alone.
LEMMA IngestAlone ==
    ASSUME NEW L, NEW K, NEW P, NEW N, Fits(L, K, P, N), NEW logs \in Seq(L)
    PROVE  \A d \in Dims : Ingest(EmptyAggregate, logs).by[d] = RefBy(logs, d)
<1>1. PICK e \in Aggs(K, P, N) : e = EmptyAggregate /\ \A d \in Dims : e.by[d] = <<>>
  BY EmptyAggregateIs
<1>2. \A d \in Dims : Ingest(e, logs).by[d] = AddMaps(<<>>, RefBy(logs, d)) BY <1>1, IngestIs
<1>3. ASSUME NEW d \in Dims PROVE AddMaps(<<>>, RefBy(logs, d)) = RefBy(logs, d)
  <2>1. PICK r \in MapsTo(K, Amounts) : r = RefBy(logs, d) BY RefByIs
  <2>2. PICK z \in MapsTo(K, Amounts) : z = <<>> /\ DOMAIN z = {} BY EmptyMapIs
  <2>3. PICK f \in MapsTo(K, Amounts) : f = AddMaps(z, r) BY AddMapsIs
  <2>4. DOMAIN f = DOMAIN r
    <3>1. DOMAIN AddMaps(z, r) = DOMAIN z \cup DOMAIN r BY AddMapsKeys
    <3>2. DOMAIN z = {} BY <2>2
    <3> QED BY <2>3, <3>1, <3>2
  <2>5. ASSUME NEW k PROVE At(f, k) = At(r, k)
    <3>1. At(f, k) = Plus(At(z, k), At(r, k)) /\ At(z, k) = Zero BY <2>2, <2>3, AddMapsAt DEF At
    <3>2. At(r, k) \in Amounts /\ Zero \in Amounts
      <4>1. At(r, k) \in Amounts BY AtIs
      <4>2. Zero \in Amounts BY DEF Zero, Amounts
      <4> QED BY <4>1, <4>2
    <3> QED BY <3>1, <3>2, PlusIs
  <2>6. f = r BY <2>4, <2>5, EqualMaps
  <2> QED BY <2>1, <2>2, <2>3, <2>6
<1> QED BY <1>1, <1>2, <1>3

\* What a digest of a day is.
LEMMA BuildDailyIs ==
    ASSUME NEW L, NEW K, NEW P, NEW N, Fits(L, K, P, N), NEW logs \in Seq(L), NEW day
    PROVE  /\ BuildDaily(day, logs).timeKey = day /\ BuildDaily(day, logs).granularity = "daily"
           /\ DOMAIN BuildDaily(day, logs).by = Dims \ {"month"}
           /\ \A d \in Dims \ {"month"} : BuildDaily(day, logs).by[d] = RefBy(logs, d)
BY IngestAlone DEF BuildDaily

-----------------------------------------------------------------------------
(* Sums of maps *)

\* The amounts that the maps of a family have for a key.
TokensAt(fam, k)  == [x \in DOMAIN fam |-> At(fam[x], k).tokens]
RecordsAt(fam, k) == [x \in DOMAIN fam |-> At(fam[x], k).records]

\* The map b is what the maps of X add up to.
Sums(b, fam, X) ==
    /\ DOMAIN b = UNION {DOMAIN fam[x] : x \in X}
    /\ \A k : /\ At(b, k).tokens = Total(TokensAt(fam, k), X)
              /\ At(b, k).records = Total(RecordsAt(fam, k), X)

LEMMA AmountsAt ==
    ASSUME NEW K, NEW D, NEW fam \in [D -> MapsTo(K, Amounts)], NEW k
    PROVE  \A x \in D : /\ TokensAt(fam, k)[x] = At(fam[x], k).tokens /\ TokensAt(fam, k)[x] \in Nat
                        /\ RecordsAt(fam, k)[x] = At(fam[x], k).records /\ RecordsAt(fam, k)[x] \in Nat
<1> SUFFICES ASSUME NEW x \in D
             PROVE  /\ TokensAt(fam, k)[x] = At(fam[x], k).tokens /\ TokensAt(fam, k)[x] \in Nat
                    /\ RecordsAt(fam, k)[x] = At(fam[x], k).records /\ RecordsAt(fam, k)[x] \in Nat
  OBVIOUS
<1>1. PICK f \in MapsTo(K, Amounts) : f = fam[x] OBVIOUS
<1>2. At(f, k) \in Amounts BY AtIs
<1>3. At(fam[x], k).tokens \in Nat /\ At(fam[x], k).records \in Nat BY <1>1, <1>2 DEF Amounts
<1> QED BY <1>3 DEF TokensAt, RecordsAt

LEMMA SumsNone == ASSUME NEW fam PROVE Sums(<<>>, fam, {})
<1>1. DOMAIN <<>> = {} OBVIOUS
<1>2. \A k : At(<<>>, k) = Zero BY <1>1 DEF At
<1>3. ASSUME NEW k PROVE Total(TokensAt(fam, k), {}) = 0 /\ Total(RecordsAt(fam, k), {}) = 0
  <2>1. PICK F : F = TokensAt(fam, k) OBVIOUS
  <2>2. PICK G : G = RecordsAt(fam, k) OBVIOUS
  <2>3. Total(F, {}) = 0 /\ Total(G, {}) = 0 BY FS_EmptySet, TotalSteps
  <2> QED BY <2>1, <2>2, <2>3
<1>4. UNION {DOMAIN fam[x] : x \in {}} = {} OBVIOUS
<1> QED BY <1>1, <1>2, <1>3, <1>4 DEF Sums, Zero

LEMMA SumsOne ==
    ASSUME NEW K, NEW D, NEW fam \in [D -> MapsTo(K, Amounts)], NEW x \in D
    PROVE  Sums(fam[x], fam, {x})
<1>1. ASSUME NEW F, F[x] \in Nat PROVE Total(F, {x}) = F[x]
  <2>1. IsFiniteSet({x}) BY FS_Singleton
  <2>2. Total(F, {x}) = F[x] + Total(F, {x} \ {x}) BY <1>1, <2>1, TotalSteps
  <2>3. {x} \ {x} = {} /\ Total(F, {}) = 0 BY FS_EmptySet, TotalSteps
  <2> QED BY <1>1, <2>2, <2>3
<1>2. ASSUME NEW k
      PROVE  /\ At(fam[x], k).tokens = Total(TokensAt(fam, k), {x})
             /\ At(fam[x], k).records = Total(RecordsAt(fam, k), {x})
  <2>1. PICK T : T = TokensAt(fam, k) OBVIOUS
  <2>2. PICK R : R = RecordsAt(fam, k) OBVIOUS
  <2>3. T[x] = At(fam[x], k).tokens /\ T[x] \in Nat /\ R[x] = At(fam[x], k).records /\ R[x] \in Nat
    BY <2>1, <2>2, AmountsAt
  <2>4. Total(T, {x}) = T[x] BY <1>1, <2>3
  <2>5. Total(R, {x}) = R[x] BY <1>1, <2>3
  <2> QED BY <2>1, <2>2, <2>3, <2>4, <2>5
<1>3. UNION {DOMAIN fam[y] : y \in {x}} = DOMAIN fam[x] OBVIOUS
<1> QED BY <1>2, <1>3 DEF Sums

LEMMA TotalJoin ==
    ASSUME NEW S, NEW T, IsFiniteSet(S), IsFiniteSet(T), S \cap T = {}, NEW F, \A x \in S \cup T : F[x] \in Nat
    PROVE  Total(F, S \cup T) = Total(F, S) + Total(F, T)
<1>1. IsFiniteSet(S \cup T) BY FS_Union
<1>2. (S \cup T) \ S = T /\ S \subseteq S \cup T OBVIOUS
<1>3. PICK U : U = S \cup T OBVIOUS
<1>4. Total(F, U) = Total(F, S) + Total(F, U \ S) BY <1>1, <1>2, <1>3, TotalSplit
<1> QED BY <1>2, <1>3, <1>4

\* The maps of two sets.
LEMMA SumsJoin ==
    ASSUME NEW K, NEW D, NEW fam \in [D -> MapsTo(K, Amounts)], NEW X \in SUBSET D, NEW Y \in SUBSET D,
           IsFiniteSet(X), IsFiniteSet(Y), X \cap Y = {},
           NEW b \in MapsTo(K, Amounts), NEW c \in MapsTo(K, Amounts), Sums(b, fam, X), Sums(c, fam, Y)
    PROVE  Sums(AddMaps(b, c), fam, X \cup Y)
<1>1. DOMAIN AddMaps(b, c) = DOMAIN b \cup DOMAIN c BY AddMapsKeys
<1>2. DOMAIN AddMaps(b, c) = UNION {DOMAIN fam[x] : x \in X \cup Y}
  <2>1. DOMAIN b = UNION {DOMAIN fam[x] : x \in X} BY DEF Sums
  <2>2. DOMAIN c = UNION {DOMAIN fam[x] : x \in Y} BY DEF Sums
  <2> QED BY <1>1, <2>1, <2>2
<1>3. ASSUME NEW k
      PROVE  /\ At(AddMaps(b, c), k).tokens = Total(TokensAt(fam, k), X \cup Y)
             /\ At(AddMaps(b, c), k).records = Total(RecordsAt(fam, k), X \cup Y)
  <2>1. PICK F : F = TokensAt(fam, k) OBVIOUS
  <2>2. PICK G : G = RecordsAt(fam, k) OBVIOUS
  <2>3. \A x \in X \cup Y : F[x] \in Nat BY <2>1, AmountsAt
  <2>4. \A x \in X \cup Y : G[x] \in Nat BY <2>2, AmountsAt
  <2>5. Total(F, X \cup Y) = Total(F, X) + Total(F, Y) BY <2>3, TotalJoin
  <2>6. Total(G, X \cup Y) = Total(G, X) + Total(G, Y) BY <2>4, TotalJoin
  <2>7. At(b, k) \in Amounts /\ At(c, k) \in Amounts
    <3>1. At(b, k) \in Amounts BY AtIs
    <3>2. At(c, k) \in Amounts BY AtIs
    <3> QED BY <3>1, <3>2
  <2>8. /\ At(b, k).tokens = Total(F, X) /\ At(c, k).tokens = Total(F, Y)
        /\ At(b, k).records = Total(G, X) /\ At(c, k).records = Total(G, Y)
    BY <2>1, <2>2 DEF Sums
  <2>9. At(AddMaps(b, c), k) = Plus(At(b, k), At(c, k)) BY AddMapsAt
  <2>10. /\ At(AddMaps(b, c), k).tokens = At(b, k).tokens + At(c, k).tokens
         /\ At(AddMaps(b, c), k).records = At(b, k).records + At(c, k).records
    BY <2>9 DEF Plus
  <2> QED BY <2>1, <2>2, <2>5, <2>6, <2>8, <2>10
<1> QED BY <1>2, <1>3 DEF Sums

\* One map more.
LEMMA SumsWith ==
    ASSUME NEW K, NEW D, NEW fam \in [D -> MapsTo(K, Amounts)], NEW X \in SUBSET D,
           IsFiniteSet(X), NEW x \in D, x \notin X, NEW b \in MapsTo(K, Amounts), Sums(b, fam, X)
    PROVE  Sums(AddMaps(b, fam[x]), fam, X \cup {x})
<1>1. PICK c \in MapsTo(K, Amounts) : c = fam[x] OBVIOUS
<1>2. Sums(c, fam, {x}) BY <1>1, SumsOne
<1>3. PICK Y \in SUBSET D : Y = {x} OBVIOUS
<1>4. IsFiniteSet(Y) /\ X \cap Y = {} BY <1>3, FS_Singleton
<1>5. Sums(AddMaps(b, c), fam, X \cup Y) BY <1>2, <1>3, <1>4, SumsJoin
<1> QED BY <1>1, <1>3, <1>5

LEMMA SumsSame ==
    ASSUME NEW K, NEW fam, NEW X, NEW b \in MapsTo(K, Amounts), NEW c \in MapsTo(K, Amounts),
           Sums(b, fam, X), Sums(c, fam, X)
    PROVE  b = c
<1>1. DOMAIN b = DOMAIN c BY DEF Sums
<1>2. ASSUME NEW k PROVE At(b, k) = At(c, k)
  <2>1. At(b, k) \in Amounts BY AtIs
  <2>2. At(c, k) \in Amounts BY AtIs
  <2>3. At(b, k).tokens = At(c, k).tokens /\ At(b, k).records = At(c, k).records BY DEF Sums
  <2> QED BY <2>1, <2>2, <2>3 DEF Amounts
<1> QED BY <1>1, <1>2, EqualMaps

\* Families that agree.
LEMMA SumsAgree ==
    ASSUME NEW K, NEW D, NEW fam \in [D -> MapsTo(K, Amounts)], NEW E, NEW fam2 \in [E -> MapsTo(K, Amounts)],
           NEW X, X \subseteq D, X \subseteq E, IsFiniteSet(X), \A x \in X : fam[x] = fam2[x],
           NEW b, Sums(b, fam, X)
    PROVE  Sums(b, fam2, X)
<1>1. UNION {DOMAIN fam[x] : x \in X} = UNION {DOMAIN fam2[x] : x \in X} OBVIOUS
<1>2. ASSUME NEW k
      PROVE  /\ Total(TokensAt(fam, k), X) = Total(TokensAt(fam2, k), X)
             /\ Total(RecordsAt(fam, k), X) = Total(RecordsAt(fam2, k), X)
  <2>1. \A x \in X : /\ TokensAt(fam, k)[x] = At(fam[x], k).tokens /\ TokensAt(fam, k)[x] \in Nat
                     /\ RecordsAt(fam, k)[x] = At(fam[x], k).records /\ RecordsAt(fam, k)[x] \in Nat
    BY AmountsAt
  <2>2. \A x \in X : /\ TokensAt(fam2, k)[x] = At(fam2[x], k).tokens
                     /\ RecordsAt(fam2, k)[x] = At(fam2[x], k).records
    BY AmountsAt
  <2>3. PICK F1, F2 : F1 = TokensAt(fam, k) /\ F2 = TokensAt(fam2, k) OBVIOUS
  <2>4. PICK G1, G2 : G1 = RecordsAt(fam, k) /\ G2 = RecordsAt(fam2, k) OBVIOUS
  <2>5. \A x \in X : F1[x] \in Nat /\ F2[x] = F1[x] BY <2>1, <2>2, <2>3
  <2>6. \A x \in X : G1[x] \in Nat /\ G2[x] = G1[x] BY <2>1, <2>2, <2>4
  <2>7. Total(F2, X) = Total(F1, X) BY <2>5, TotalAgrees
  <2>8. Total(G2, X) = Total(G1, X) BY <2>6, TotalAgrees
  <2> QED BY <2>3, <2>4, <2>7, <2>8
<1> QED BY <1>1, <1>2 DEF Sums

-----------------------------------------------------------------------------
(* Digests *)

DigestDims == Dims \ {"month"}
MonthlyDims == Dims \ (HourDims \cup {"month"})

Digests(T, K) == [granularity : {"daily"}, timeKey : T, by : [DigestDims -> MapsTo(K, Amounts)]]
MonthDigests(m, K) ==
    [granularity : {"monthly"}, timeKey : {m}, by : [MonthlyDims -> MapsTo(K, Amounts)]]

LEMMA BuildDailyType ==
    ASSUME NEW L, NEW K, NEW P, NEW N, Fits(L, K, P, N), NEW logs \in Seq(L), NEW T, NEW day \in T
    PROVE  BuildDaily(day, logs) \in Digests(T, K)
<1> DEFINE x == BuildDaily(day, logs)
<1>1. /\ x.timeKey = day /\ x.granularity = "daily" /\ DOMAIN x.by = DigestDims
      /\ \A d \in DigestDims : x.by[d] = RefBy(logs, d)
  BY BuildDailyIs DEF DigestDims
<1>2. x = [granularity |-> x.granularity, timeKey |-> x.timeKey, by |-> x.by]
      /\ x.by = [d \in DigestDims |-> x.by[d]]
  BY DEF BuildDaily, DigestDims
<1> HIDE DEF x
<1>3. \A d \in DigestDims : x.by[d] \in MapsTo(K, Amounts) BY <1>1, RefByIs DEF DigestDims
<1>4. x.by \in [DigestDims -> MapsTo(K, Amounts)] BY <1>2, <1>3
<1> QED BY <1>1, <1>2, <1>4 DEF Digests, x

LEMMA AccumulateIs ==
    ASSUME NEW K, NEW T, NEW m, NEW v \in MonthDigests(m, K), NEW x \in Digests(T, K)
    PROVE  /\ Accumulate(v, x) \in MonthDigests(m, K)
           /\ \A d \in MonthlyDims : Accumulate(v, x).by[d] = AddMaps(v.by[d], x.by[d])
<1>1. /\ v.by \in [MonthlyDims -> MapsTo(K, Amounts)] /\ v.granularity = "monthly" /\ v.timeKey = m
      /\ v = [granularity |-> v.granularity, timeKey |-> v.timeKey, by |-> v.by]
  BY DEF MonthDigests
<1>2. x.by \in [DigestDims -> MapsTo(K, Amounts)] BY DEF Digests
<1>3. MonthlyDims \subseteq DigestDims BY DEF MonthlyDims, DigestDims
<1> DEFINE b == [d \in MonthlyDims |-> AddMaps(v.by[d], x.by[d])]
<1>4. \A d \in MonthlyDims : b[d] \in MapsTo(K, Amounts)
  <2> SUFFICES ASSUME NEW d \in MonthlyDims PROVE AddMaps(v.by[d], x.by[d]) \in MapsTo(K, Amounts)
    OBVIOUS
  <2>1. PICK f \in MapsTo(K, Amounts) : f = v.by[d] BY <1>1
  <2>2. PICK g \in MapsTo(K, Amounts) : g = x.by[d] BY <1>2, <1>3
  <2>3. AddMaps(f, g) \in MapsTo(K, Amounts) BY AddMapsIs
  <2> QED BY <2>1, <2>2, <2>3
<1>5. [d \in DOMAIN v.by |-> IF d \in DOMAIN x.by THEN AddMaps(v.by[d], x.by[d]) ELSE v.by[d]] = b
  BY <1>1, <1>2, <1>3
<1>6. Accumulate(v, x) = [v EXCEPT !.by = b] BY <1>5 DEF Accumulate
<1>7. b \in [MonthlyDims -> MapsTo(K, Amounts)] /\ \A d \in MonthlyDims : b[d] = AddMaps(v.by[d], x.by[d])
  BY <1>4
<1> HIDE DEF b
<1>8. Accumulate(v, x) = [granularity |-> "monthly", timeKey |-> m, by |-> b]
  <2>1. [v EXCEPT !.by = b] = [granularity |-> v.granularity, timeKey |-> v.timeKey, by |-> b] BY <1>1
  <2> QED BY <1>1, <1>6, <2>1
<1> QED BY <1>7, <1>8 DEF MonthDigests

\* What merge_to_monthly makes of digests of different days.
Merges(m, K, D, dig, dim) ==
    LET b == MergeToMonthly(m, SetToSeq({dig[d] : d \in D})).by[dim]
    IN  b \in MapsTo(K, Amounts) /\ Sums(b, [d \in D |-> dig[d].by[dim]], D)

LEMMA MergeToMonthlyIs ==
    ASSUME NEW K, NEW T, NEW D \in SUBSET T, IsFiniteSet(D), NEW dig \in [D -> Digests(T, K)],
           \A d \in D : dig[d].timeKey = d, NEW m, NEW dim \in MonthlyDims
    PROVE  Merges(m, K, D, dig, dim)
<1> DEFINE X == {dig[d] : d \in D}
           q == SetToSeq(X)
           n == Len(q)
           S == DOMAIN q
           V == MonthDigests(m, K)
           base == [granularity |-> "monthly", timeKey |-> m, by |-> [d \in MonthlyDims |-> <<>>]]
           C == [s \in SUBSET S |-> Max(s)]
           G == [p \in S \X V |-> Accumulate(p[2], q[p[1]])]
           Rec(f) == f = [s \in SUBSET S |-> IF s = {} THEN base
                             ELSE Accumulate(f[s \ {Max(s)}], q[Max(s)])]
           it == CHOOSE f : Rec(f)
           fam == [d \in D |-> dig[d].by[dim]]
           Of(s) == {q[i].timeKey : i \in s}
<1>1. IsFiniteSet(X) /\ \A x \in X : x \in Digests(T, K) /\ x.timeKey \in D /\ x = dig[x.timeKey]
  <2>1. X = Range(dig) BY DEF Range
  <2>2. IsFiniteSet(Range(dig)) BY FiniteRange
  <2> QED BY <2>1, <2>2
<1>2. q \in Seq(X) /\ Range(q) = X /\ IsInjective(q) BY <1>1, RangeOfSetToSeq
<1> HIDE DEF q
<1>3. /\ n \in Nat /\ S = 1 .. n /\ IsFiniteSet(S) /\ \A i \in S : q[i] \in X
      /\ \A i, j \in S : q[i].timeKey = q[j].timeKey => i = j
      /\ Of(S) = D
  <2>1. n \in Nat /\ S = 1 .. n /\ \A i \in S : q[i] \in X BY <1>2
  <2>2. IsFiniteSet(S) BY <2>1, FS_Interval
  <2>3. \A i, j \in S : q[i].timeKey = q[j].timeKey => i = j
    <3> HIDE DEF X
    <3>1. \A i, j \in S : q[i].timeKey = q[j].timeKey => q[i] = q[j] BY <1>1, <2>1
    <3> QED BY <1>2, <3>1 DEF IsInjective
  <2>4. Of(S) = D
    <3>1. \A d \in D : \E i \in S : q[i] = dig[d] BY <1>2 DEF Range
    <3>2. \A i \in S : q[i].timeKey \in D BY <1>1, <2>1
    <3> HIDE DEF X, S
    <3> QED BY <3>1, <3>2
  <2> QED BY <2>1, <2>2, <2>3, <2>4
<1>4. MergeToMonthly(m, q) = it[S] BY DEF MergeToMonthly, FoldLeft, MapThenFoldSet, MonthlyDims
<1>5. \A s \in SUBSET S : C[s] = Max(s) OBVIOUS
<1>6. \A i \in S, v \in V : G[<<i, v>>] = Accumulate(v, q[i]) OBVIOUS
<1>7. \A s \in SUBSET S : s # {} => Max(s) \in s
  <2> SUFFICES ASSUME NEW s \in SUBSET S, s # {} PROVE Max(s) \in s
    OBVIOUS
  <2>1. s \subseteq 0 .. n BY <1>3
  <2> QED BY <1>3, <2>1, MaxOfBounded
<1>8. base \in V
  <2>1. \A d \in MonthlyDims : <<>> \in MapsTo(K, Amounts) BY EmptyMapIs
  <2>2. [d \in MonthlyDims |-> <<>>] \in [MonthlyDims -> MapsTo(K, Amounts)] BY <2>1
  <2> QED BY <2>2 DEF MonthDigests
<1>9. dim \in MonthlyDims /\ base.by[dim] = <<>> OBVIOUS
<1> HIDE DEF X, n, S, C, G, base
<1>10. ASSUME NEW i \in S, NEW v \in V
       PROVE  Accumulate(v, q[i]) \in V /\ Accumulate(v, q[i]).by[dim] = AddMaps(v.by[dim], q[i].by[dim])
  <2>1. PICK x \in Digests(T, K) : x = q[i] BY <1>1, <1>3
  <2>2. Accumulate(v, x) \in V /\ Accumulate(v, x).by[dim] = AddMaps(v.by[dim], x.by[dim])
    BY AccumulateIs
  <2> QED BY <2>1, <2>2
<1> HIDE DEF V
<1>11. Chooses(C, S) /\ StaysIn(G, S, V) BY <1>5, <1>6, <1>7, <1>10 DEF Chooses, StaysIn
<1>12. PICK g : IsFold(g, S, base, C, G) BY <1>3, <1>11, SomeFold
<1>13. \A s \in SUBSET S : g[s] \in V
  <2> SUFFICES ASSUME NEW s \in SUBSET S PROVE g[s] \in V
    OBVIOUS
  <2>1. IsFiniteSet(S) BY <1>3
  <2> QED BY <1>8, <1>11, <1>12, <2>1, FoldSteps
<1>14. Rec(g)
  <2> DEFINE h == [s \in SUBSET S |-> IF s = {} THEN base ELSE Accumulate(g[s \ {Max(s)}], q[Max(s)])]
  <2>1. g = [s \in SUBSET S |-> IF s = {} THEN base ELSE G[<<C[s], g[s \ {C[s]}]>>]] BY <1>12 DEF IsFold
  <2>steps. \A s \in SUBSET S : s # {} => g[s] = G[<<C[s], g[s \ {C[s]}]>>] BY <2>1
  <2>2. ASSUME NEW s \in SUBSET S PROVE g[s] = h[s]
    <3>1. CASE s = {} BY <2>1, <3>1
    <3>2. CASE s # {}
      <4>1. PICK i \in S : i = Max(s) BY <1>7, <3>2
      <4>2. PICK v \in V : v = g[s \ {i}] BY <1>13
      <4>3. g[s] = G[<<i, v>>]
        <5>1. g[s] = G[<<C[s], g[s \ {C[s]}]>>] BY <2>steps, <3>2
        <5>2. C[s] = i BY <1>5, <4>1
        <5> QED BY <4>2, <5>1, <5>2
      <4>4. h[s] = Accumulate(v, q[i]) BY <3>2, <4>1, <4>2
      <4> QED BY <1>6, <4>3, <4>4
    <3> QED BY <3>1, <3>2
  <2>3. g = [s \in SUBSET S |-> g[s]] BY <2>1
  <2> QED BY <2>2, <2>3
<1>15. Rec(it)
  <2> HIDE DEF Rec
  <2> QED BY <1>14
<1> HIDE DEF it
<1> DEFINE F == {s \in SUBSET S : it[s] \in V /\ Sums(it[s].by[dim], fam, Of(s))}
<1>16. fam \in [D -> MapsTo(K, Amounts)] /\ \A i \in S : q[i].timeKey \in D /\ fam[q[i].timeKey] = q[i].by[dim]
  <2>1. \A d \in D : dig[d].by[dim] \in MapsTo(K, Amounts)
    BY DEF Digests, DigestDims, MonthlyDims
  <2>2. \A i \in S : q[i].timeKey \in D /\ dig[q[i].timeKey] = q[i] BY <1>1, <1>3
  <2> QED BY <2>1, <2>2
<1> HIDE DEF fam
<1>17. {} \in F
  <2>1. it[{}] = base /\ Of({}) = {} BY <1>15
  <2> HIDE DEF Of
  <2> QED BY <1>8, <1>9, <2>1, SumsNone
<1>18. ASSUME NEW s \in SUBSET S, s # {} PROVE \E i \in s : s \ {i} \in F => s \in F
  <2>1. PICK i \in s : i = Max(s) BY <1>7, <1>18
  <2>2. ASSUME s \ {i} \in F PROVE s \in F
    <3>1. PICK v \in V : v = it[s \ {i}] BY <2>2
    <3>2. it[s] = Accumulate(v, q[i]) BY <1>15, <1>18, <2>1, <3>1
    <3>3. it[s] \in V /\ it[s].by[dim] = AddMaps(v.by[dim], q[i].by[dim]) BY <1>10, <3>2
    <3>4. PICK x \in D : x = q[i].timeKey BY <1>16
    <3>5. PICK Z \in SUBSET D : Z = Of(s \ {i})
      <4>1. Of(s \ {i}) \subseteq D BY <1>16
      <4> HIDE DEF Of
      <4> QED BY <4>1
    <3>6. x \notin Z /\ Of(s) = Z \cup {x} BY <1>3, <3>4, <3>5
    <3>7. IsFiniteSet(Z) BY <3>5, FS_Subset
    <3>8. PICK b \in MapsTo(K, Amounts) : b = v.by[dim] BY DEF V, MonthDigests
    <3>9. Sums(b, fam, Z) BY <2>2, <3>1, <3>5, <3>8
    <3>10. Sums(AddMaps(b, fam[x]), fam, Z \cup {x}) BY <1>16, <3>6, <3>7, <3>9, SumsWith
    <3>11. fam[x] = q[i].by[dim] BY <1>16, <3>4
    <3> HIDE DEF Of
    <3> QED BY <3>3, <3>6, <3>8, <3>10, <3>11
  <2> QED BY <2>2
<1> HIDE DEF F
<1>19. S \in F BY <1>3, <1>17, <1>18, RemovalInduction
<1>20. it[S].by[dim] \in MapsTo(K, Amounts) /\ Sums(it[S].by[dim], fam, D)
  BY <1>3, <1>19 DEF F, V, MonthDigests
<1> QED BY <1>4, <1>20 DEF q, X, fam, Merges

-----------------------------------------------------------------------------
(* merge_digest of the digest of a day is what ingesting its records is *)

\* A month's digest has no months: the amount of its time key is the total's.
LEMMA MonthOfLogs ==
    ASSUME NEW L, NEW K, NEW P, NEW N, Fits(L, K, P, N), NEW logs \in Seq(L), logs # <<>>,
           NEW m, \A i \in DOMAIN logs : MonthOfDay(DayOf(logs[i].hour)) = m,
           NEW f \in MapsTo(K, Amounts)
    PROVE  AddTo(f, m, [At(RefBy(logs, "total"), "all") EXCEPT !.records = 0])
              = AddMaps(f, RefBy(logs, "month"))
<1>0. "total" \in Dims /\ "month" \in Dims /\ "month" \notin Counted /\ LogSet(L)
  BY DEF Dims, Counted, Fits
<1>1. \A i \in DOMAIN logs : /\ logs[i] \in L /\ KeyOf(logs[i])["total"] = "all"
                             /\ KeyOf(logs[i])["month"] = m
  BY DEF KeyOf
<1>2. DOMAIN logs # {} /\ DOMAIN logs = 1 .. Len(logs) OBVIOUS
<1>3. RefKeys(logs, "month") = {m} BY <1>1, <1>2 DEF RefKeys
<1>4. m \in K
  <2>1. PICK i \in DOMAIN logs : TRUE BY <1>2
  <2>2. PICK x \in L : x = logs[i] BY <1>1, <2>1
  <2>3. KeyOf(x)["month"] = m BY <1>1, <2>1, <2>2
  <2>4. \A d \in Dims : KeyOf(x)[d] \in K BY DEF Fits
  <2> QED BY <1>0, <2>3, <2>4
<1>5. PICK t : t = RefAmount(logs, "total", "all") OBVIOUS
<1>6. PICK u : u = RefAmount(logs, "month", m) OBVIOUS
<1>7. Mine(logs, "total", "all") = DOMAIN logs /\ Mine(logs, "month", m) = DOMAIN logs
  BY <1>1 DEF Mine
<1>8. t \in Amounts BY <1>0, <1>5, RefAmountIs
<1>9. u \in Amounts BY <1>0, <1>6, RefAmountIs
<1>10. t.tokens = Total([i \in DOMAIN logs |-> Amount(logs[i], "total").tokens], Mine(logs, "total", "all"))
  BY <1>0, <1>5, RefAmountIs
<1>11. u.tokens = Total([i \in DOMAIN logs |-> Amount(logs[i], "month").tokens], Mine(logs, "month", m))
  BY <1>0, <1>6, RefAmountIs
<1>12. u.records = 0
  <2>1. u.records = IF "month" \in Counted THEN Cardinality(Mine(logs, "month", m)) ELSE 0
    BY <1>0, <1>6, RefAmountIs
  <2> QED BY <1>0, <2>1
<1>13. [i \in DOMAIN logs |-> Amount(logs[i], "total").tokens]
        = [i \in DOMAIN logs |-> Amount(logs[i], "month").tokens]
  BY DEF Amount
<1>14. t.tokens = u.tokens BY <1>7, <1>10, <1>11, <1>13
<1>15. [t EXCEPT !.records = 0] = u BY <1>8, <1>9, <1>12, <1>14 DEF Amounts
<1>16. At(RefBy(logs, "total"), "all") = t BY <1>0, <1>5, RefByIs
<1>17. PICK g \in MapsTo(K, Amounts) : g = RefBy(logs, "month") BY <1>0, RefByIs
<1>18. DOMAIN g = {m} BY <1>0, <1>3, <1>17, RefByIs
<1>19. At(g, m) = u BY <1>0, <1>6, <1>17, RefByIs
<1>20. PICK a \in MapsTo(K, Amounts) : a = AddTo(f, m, u) BY <1>4, <1>9, AddToIs
<1>21. PICK b \in MapsTo(K, Amounts) : b = AddMaps(f, g) BY AddMapsIs
<1>22. DOMAIN a = DOMAIN b
  <2>1. DOMAIN a = DOMAIN f \cup {m} BY <1>20, AddToKeys
  <2>2. DOMAIN b = DOMAIN f \cup DOMAIN g BY <1>21, AddMapsKeys
  <2> QED BY <1>18, <2>1, <2>2
<1>23. ASSUME NEW k PROVE At(a, k) = At(b, k)
  <2>1. At(b, k) = Plus(At(f, k), At(g, k)) BY <1>21, AddMapsAt
  <2>2. CASE k = m
    <3>1. At(a, m) = Plus(At(f, m), u) BY <1>20, AddToAt
    <3> QED BY <1>19, <2>1, <2>2, <3>1
  <2>3. CASE k # m
    <3>1. At(a, k) = At(f, k) BY <1>20, <2>3, AddToAway
    <3>2. At(g, k) = Zero BY <1>18, <2>3, AtIs
    <3>3. At(f, k) \in Amounts BY AtIs
    <3>4. Plus(At(f, k), Zero) = At(f, k) BY <3>3, PlusIs
    <3> QED BY <2>1, <3>1, <3>2, <3>4
  <2> QED BY <2>2, <2>3
<1>24. a = b BY <1>22, <1>23, EqualMaps
<1> QED BY <1>15, <1>16, <1>17, <1>20, <1>21, <1>24

\* x is agg and what some records amount to.
Gains(x, agg, logs, K, P, N) ==
    x \in Aggs(K, P, N) /\ \A d \in Dims : x.by[d] = AddMaps(agg.by[d], RefBy(logs, d))

LEMMA IngestGains ==
    ASSUME NEW L, NEW K, NEW P, NEW N, Fits(L, K, P, N), NEW agg \in Aggs(K, P, N), NEW logs \in Seq(L)
    PROVE  Gains(Ingest(agg, logs), agg, logs, K, P, N)
BY IngestIs DEF Gains

LEMMA MergeDigestGains ==
    ASSUME NEW L, NEW K, NEW P, NEW N, Fits(L, K, P, N), NEW agg \in Aggs(K, P, N),
           NEW logs \in Seq(L), logs # <<>>, NEW day, \A i \in DOMAIN logs : DayOf(logs[i].hour) = day
    PROVE  Gains(MergeDigest(agg, BuildDaily(day, logs)), agg, logs, K, P, N)
<1>1. PICK x : x = BuildDaily(day, logs) OBVIOUS
<1>2. /\ x.timeKey = day /\ x.granularity = "daily" /\ DOMAIN x.by = Dims \ {"month"}
      /\ \A d \in Dims \ {"month"} : x.by[d] = RefBy(logs, d)
  BY <1>1, BuildDailyIs
<1> DEFINE m == MonthOfDay(day)
           total == [At(x.by.total, "all") EXCEPT !.records = 0]
           b == [d \in Dims |-> IF d = "month" THEN AddTo(agg.by.month, m, total)
                                ELSE IF d \in DOMAIN x.by THEN AddMaps(agg.by[d], x.by[d])
                                ELSE agg.by[d]]
<1>3. MergeDigest(agg, x) = [agg EXCEPT !.by = b] BY <1>2 DEF MergeDigest
<1>4. "total" \in Dims \ {"month"} /\ "month" \in Dims BY DEF Dims
<1>5. ASSUME NEW d \in Dims
      PROVE  b[d] = AddMaps(agg.by[d], RefBy(logs, d)) /\ b[d] \in MapsTo(K, Amounts)
  <2>1. PICK f \in MapsTo(K, Amounts) : f = agg.by[d] BY DEF Aggs
  <2>2. PICK g \in MapsTo(K, Amounts) : g = RefBy(logs, d) BY RefByIs
  <2>3. AddMaps(f, g) \in MapsTo(K, Amounts) BY AddMapsIs
  <2>4. b[d] = AddMaps(f, g)
    <3>1. CASE d = "month"
      <4>1. b[d] = AddTo(f, m, total) BY <2>1, <3>1
      <4>2. \A i \in DOMAIN logs : MonthOfDay(DayOf(logs[i].hour)) = m OBVIOUS
      <4>3. x.by.total = RefBy(logs, "total") BY <1>2, <1>4
      <4> HIDE DEF m
      <4>4. AddTo(f, m, [At(RefBy(logs, "total"), "all") EXCEPT !.records = 0])
              = AddMaps(f, RefBy(logs, "month"))
        BY <4>2, MonthOfLogs
      <4> QED BY <2>2, <3>1, <4>1, <4>3, <4>4
    <3>2. CASE d # "month" BY <1>2, <2>1, <2>2, <3>2
    <3> QED BY <3>1, <3>2
  <2> HIDE DEF b
  <2> QED BY <2>1, <2>2, <2>3, <2>4
<1>6. b = [d \in Dims |-> b[d]] OBVIOUS
<1> HIDE DEF b
<1>7. b \in [Dims -> MapsTo(K, Amounts)] BY <1>5, <1>6
<1>8. [agg EXCEPT !.by = b] = [by |-> b, names |-> agg.names] /\ agg.names \in MapsTo(P, N)
  BY DEF Aggs
<1>9. [agg EXCEPT !.by = b] \in Aggs(K, P, N) BY <1>7, <1>8 DEF Aggs
<1>10. [agg EXCEPT !.by = b].by = b BY <1>8
<1> QED BY <1>1, <1>3, <1>5, <1>9, <1>10 DEF Gains

-----------------------------------------------------------------------------
(* An aggregate gathered part by part *)

\* w is v and what the maps of X add up to, in one dimension.
AddsPart(w, v, K, P, N, dim, fam, X) ==
    v \in Aggs(K, P, N) => /\ w \in Aggs(K, P, N)
                           /\ \E c \in MapsTo(K, Amounts) :
                                 w.by[dim] = AddMaps(v.by[dim], c) /\ Sums(c, fam, X)

\* it adds up the parts of S one by one; the parts have nothing in common, nor with Y;
\* and what that makes of x.
PartByPart(it, S, K, P, N, dim, fam, part) ==
    \A s \in SUBSET S : s # {} =>
        \E x \in s : AddsPart(it[s], it[s \ {x}], K, P, N, dim, fam, part[x])

Apart(part, S, Y) == /\ \A s, t \in S : s # t => part[s] \cap part[t] = {}
                     /\ \A s \in S : part[s] \cap Y = {}

AddedUp(x, K, P, N, dim, fam, Y, part, S) ==
    x \in Aggs(K, P, N) /\ Sums(x.by[dim], fam, Y \cup UNION {part[s] : s \in S})

LEMMA PartsAddUp ==
    ASSUME NEW K, NEW P, NEW N, NEW X, IsFiniteSet(X), NEW fam \in [X -> MapsTo(K, Amounts)],
           NEW Y \in SUBSET X, NEW S, IsFiniteSet(S), NEW part \in [S -> SUBSET X], Apart(part, S, Y),
           NEW dim \in Dims, NEW it, it[{}] \in Aggs(K, P, N), Sums(it[{}].by[dim], fam, Y),
           PartByPart(it, S, K, P, N, dim, fam, part)
    PROVE  AddedUp(it[S], K, P, N, dim, fam, Y, part, S)
<1> DEFINE V == Aggs(K, P, N)
           Of(s) == Y \cup UNION {part[t] : t \in s}
           H == {s \in SUBSET S : it[s] \in V /\ Sums(it[s].by[dim], fam, Of(s))}
<1> HIDE DEF V
<1>1. {} \in H
  <2>1. Of({}) = Y OBVIOUS
  <2> HIDE DEF Of
  <2> QED BY <2>1 DEF V
<1>2. ASSUME NEW s \in SUBSET S, s # {} PROVE \E x \in s : s \ {x} \in H => s \in H
  <2>1. PICK x \in s : AddsPart(it[s], it[s \ {x}], K, P, N, dim, fam, part[x])
    BY <1>2 DEF PartByPart
  <2>2. ASSUME s \ {x} \in H PROVE s \in H
    <3>1. PICK v \in Aggs(K, P, N) : v = it[s \ {x}] BY <2>2 DEF V
    <3>2. PICK c \in MapsTo(K, Amounts) :
             it[s] \in V /\ it[s].by[dim] = AddMaps(v.by[dim], c) /\ Sums(c, fam, part[x])
      BY <2>1, <3>1 DEF AddsPart, V
    <3>3. x \in S OBVIOUS
    <3>4. PICK b \in MapsTo(K, Amounts) : b = v.by[dim] BY DEF Aggs
    <3>5. PICK A \in SUBSET X : A = Of(s \ {x})
      <4>1. Of(s \ {x}) \subseteq X OBVIOUS
      <4> HIDE DEF Of
      <4> QED BY <4>1
    <3>6. PICK B \in SUBSET X : B = part[x] BY <3>3
    <3>7. IsFiniteSet(A) /\ IsFiniteSet(B) BY FS_Subset
    <3>8. A \cap B = {} BY <3>3, <3>5, <3>6 DEF Apart
    <3>9. Of(s) = A \cup B BY <3>5, <3>6
    <3>10. Sums(b, fam, A) BY <2>2, <3>1, <3>4, <3>5
    <3>11. Sums(AddMaps(b, c), fam, A \cup B) BY <3>2, <3>6, <3>7, <3>8, <3>10, SumsJoin
    <3> HIDE DEF Of
    <3> QED BY <3>2, <3>4, <3>9, <3>11
  <2> QED BY <2>2
<1> HIDE DEF H
<1>3. S \in H BY <1>1, <1>2, RemovalInduction
<1> QED BY <1>3 DEF H, V, AddedUp

-----------------------------------------------------------------------------
(* Windows *)

\* The records of some days, and the tokens of each record.
TokensOf(logs)  == [i \in DOMAIN logs |-> logs[i].tokens]
OfDays(logs, D) == {i \in DOMAIN logs : DayOf(logs[i].hour) \in D}
DayTokens(logs, D) == [d \in D |-> RefAmount(logs, "day", d).tokens]

LEMMA TokensOfIs ==
    ASSUME NEW logs, Records(logs)
    PROVE  /\ \A i \in DOMAIN logs : TokensOf(logs)[i] = logs[i].tokens /\ TokensOf(logs)[i] \in Nat
           /\ \A S : S \subseteq DOMAIN logs => IsFiniteSet(S) /\ Total(TokensOf(logs), S) \in Nat
<1>1. \A i \in DOMAIN logs : TokensOf(logs)[i] = logs[i].tokens /\ TokensOf(logs)[i] \in Nat
  BY DEF Records, TokensOf
<1>2. ASSUME NEW S, S \subseteq DOMAIN logs PROVE IsFiniteSet(S) /\ Total(TokensOf(logs), S) \in Nat
  <2>1. IsFiniteSet(S) BY <1>2, FS_Subset DEF Records
  <2>2. \A i \in S : TokensOf(logs)[i] \in Nat BY <1>1, <1>2
  <2> QED BY <2>1, <2>2, TotalSteps
<1> QED BY <1>1, <1>2

\* The records of some days have, together, what is counted for each of the days.
LEMMA DaysAddUp ==
    ASSUME NEW logs, Records(logs), NEW D, IsFiniteSet(D)
    PROVE  Total(TokensOf(logs), OfDays(logs, D)) = Total(DayTokens(logs, D), D)
<1> DEFINE S == OfDays(logs, D)
           F == TokensOf(logs)
           g == [i \in DOMAIN logs |-> DayOf(logs[i].hour)]
           FD == DayTokens(logs, D)
<1>1. S \subseteq DOMAIN logs /\ \A i \in S : g[i] \in D BY DEF OfDays
<1>2. IsFiniteSet(S) /\ \A i \in S : F[i] \in Nat BY <1>1, TokensOfIs
<1>3. ASSUME NEW d \in D PROVE FD[d] = Total(F, Group(S, g, d))
  <2> DEFINE M == Mine(logs, "day", d)
             A == [i \in DOMAIN logs |-> Amount(logs[i], "day").tokens]
  <2>1. M \subseteq DOMAIN logs /\ M = {i \in DOMAIN logs : DayOf(logs[i].hour) = d} BY DEF Mine, KeyOf
  <2>2. M = Group(S, g, d) BY <2>1 DEF OfDays, Group
  <2>3. RefAmount(logs, "day", d).tokens = Total(A, M) BY AmountOfRecords
  <2>4. \A i \in M : F[i] \in Nat /\ A[i] = F[i]
    <3>1. \A i \in M : F[i] \in Nat /\ F[i] = logs[i].tokens BY <2>1, TokensOfIs
    <3>2. \A i \in M : A[i] = logs[i].tokens BY <2>1 DEF Amount
    <3> QED BY <3>1, <3>2
  <2>5. IsFiniteSet(M) BY <2>1, TokensOfIs
  <2> HIDE DEF M, A, F
  <2>6. Total(A, M) = Total(F, M) BY <2>4, <2>5, TotalAgrees
  <2>7. FD[d] = RefAmount(logs, "day", d).tokens BY DEF DayTokens
  <2> QED BY <2>2, <2>3, <2>6, <2>7
<1> HIDE DEF S, F, g, FD
<1>4. InGroups(F, S, g, FD, D) BY <1>1, <1>3 DEF InGroups
<1>5. Total(F, S) = Total(FD, D) BY <1>2, <1>4, TotalInGroups
<1> QED BY <1>5 DEF S, F, FD

\* The records of a window.
InWindow(logs, w, now) ==
    {i \in DOMAIN logs : \/ w = "all"
                         \/ /\ FirstDay(w, DayOf(now)) <= DayOf(logs[i].hour)
                            /\ DayOf(logs[i].hour) <= DayOf(now)}

LEMMA RefWindowIs ==
    ASSUME NEW logs, Records(logs), NEW w, NEW now
    PROVE  RefWindow(logs, w, now) = Total(TokensOf(logs), InWindow(logs, w, now))
<1> DEFINE M == InWindow(logs, w, now)
           F == TokensOf(logs)
           Rec(f) == f = [s \in SUBSET M |-> IF s = {} THEN 0
                             ELSE logs[CHOOSE x \in s : TRUE].tokens + f[s \ {CHOOSE x \in s : TRUE}]]
           it == CHOOSE f : Rec(f)
<1>1. M \subseteq DOMAIN logs BY DEF InWindow
<1>2. IsFiniteSet(M) /\ \A x \in M : F[x] \in Nat /\ F[x] = logs[x].tokens BY <1>1, TokensOfIs
<1>3. RefWindow(logs, w, now) = it[M] BY DEF RefWindow, InWindow, MapThenSumSet, MapThenFoldSet
<1>4. ASSUME NEW s \in SUBSET M, s # {}
      PROVE  logs[CHOOSE x \in s : TRUE].tokens = F[CHOOSE x \in s : TRUE]
  <2>1. PICK c : c = CHOOSE x \in s : TRUE OBVIOUS
  <2>2. c \in M BY <1>4, <2>1
  <2> QED BY <1>2, <2>1, <2>2
<1> HIDE DEF F, M
<1>5. ASSUME NEW f PROVE Rec(f) <=> AddsIn(f, M, F)
  <2> DEFINE one == [s \in SUBSET M |-> IF s = {} THEN 0
                        ELSE logs[CHOOSE x \in s : TRUE].tokens + f[s \ {CHOOSE x \in s : TRUE}]]
             two == [s \in SUBSET M |-> IF s = {} THEN 0
                        ELSE F[CHOOSE x \in s : TRUE] + f[s \ {CHOOSE x \in s : TRUE}]]
  <2>1. ASSUME NEW s \in SUBSET M PROVE one[s] = two[s] BY <1>4
  <2>2. one = two BY <2>1
  <2>3. (Rec(f) <=> f = one) /\ (AddsIn(f, M, F) <=> f = two) BY DEF AddsIn
  <2> QED BY <2>2, <2>3
<1>6. PICK g : AddsIn(g, M, F) /\ Total(F, M) = g[M] BY <1>2, TotalIs
<1> HIDE DEF Rec
<1>7. Rec(it) BY <1>5, <1>6
<1> HIDE DEF it
<1>8. AddsIn(it, M, F) BY <1>5, <1>7
<1>9. it[M] = g[M] BY <1>2, <1>6, <1>8, AddsAgree
<1> QED BY <1>3, <1>6, <1>9 DEF F, M

\* The whole of the records.
LEMMA AllTokens ==
    ASSUME NEW L, LogSet(L), NEW logs \in Seq(L), NEW now
    PROVE  RefWindow(logs, "all", now) = RefAmount(logs, "total", "all").tokens
<1> DEFINE M == Mine(logs, "total", "all")
           A == [i \in DOMAIN logs |-> Amount(logs[i], "total").tokens]
           F == TokensOf(logs)
<1>1. M = DOMAIN logs /\ InWindow(logs, "all", now) = DOMAIN logs BY DEF Mine, KeyOf, InWindow
<1>2. A = F BY DEF Amount, TokensOf
<1>3. RefAmount(logs, "total", "all").tokens = Total(A, M) BY RefAmountIs
<1>4. RefWindow(logs, "all", now) = Total(F, InWindow(logs, "all", now)) BY SeqRecords, RefWindowIs
<1> HIDE DEF A, F
<1> QED BY <1>1, <1>2, <1>3, <1>4

\* The days of a window among some days.
DaysOfWindow(D, w, now) == {d \in D : FirstDay(w, DayOf(now)) <= d /\ d <= DayOf(now)}

LEMMA WindowByDays ==
    ASSUME NEW logs, Records(logs), NEW D, IsFiniteSet(D), RefKeys(logs, "day") \subseteq D,
           NEW w, w # "all", NEW now
    PROVE  RefWindow(logs, w, now) = Total(DayTokens(logs, DaysOfWindow(D, w, now)), DaysOfWindow(D, w, now))
<1> DEFINE E == DaysOfWindow(D, w, now)
<1>1. IsFiniteSet(E)
  <2>1. E \subseteq D BY DEF DaysOfWindow
  <2> QED BY <2>1, FS_Subset
<1>2. \A i \in DOMAIN logs : DayOf(logs[i].hour) \in D BY DEF RefKeys, KeyOf
<1>3. InWindow(logs, w, now) = OfDays(logs, E) BY <1>2 DEF InWindow, OfDays, DaysOfWindow
<1> HIDE DEF E
<1>4. Total(TokensOf(logs), OfDays(logs, E)) = Total(DayTokens(logs, E), E) BY <1>1, DaysAddUp
<1> QED BY <1>3, <1>4, RefWindowIs DEF E

LEMMA FiniteKeys ==
    ASSUME NEW logs, Records(logs), NEW d
    PROVE  IsFiniteSet(RefKeys(logs, d))
<1>1. PICK g : g = [i \in DOMAIN logs |-> KeyOf(logs[i])[d]] OBVIOUS
<1>4. IsFiniteSet(Range(g)) BY <1>1, FiniteRange DEF Records
<1>5. Range(g) = RefKeys(logs, d) BY <1>1 DEF Range, RefKeys
<1> QED BY <1>4, <1>5

\* The windows of records in two parts.
LEMMA WindowsAdd ==
    ASSUME NEW L, LogSet(L), NEW logs \in Seq(L), NEW p \in Seq(L), NEW q \in Seq(L),
           \A d \in Dims : Parts(logs, p, q, d), NEW w, NEW now
    PROVE  RefWindow(logs, w, now) = RefWindow(p, w, now) + RefWindow(q, w, now)
<1>0. Parts(logs, p, q, "day") /\ Parts(logs, p, q, "total") BY DEF Dims
<1>1. CASE w = "all"
  <2>1. RefAmount(logs, "total", "all") = Plus(RefAmount(p, "total", "all"), RefAmount(q, "total", "all"))
    BY <1>0 DEF Parts
  <2>2. RefAmount(p, "total", "all") \in Amounts /\ RefAmount(q, "total", "all") \in Amounts BY RefAmountIs
  <2>3. RefAmount(logs, "total", "all").tokens = RefAmount(p, "total", "all").tokens + RefAmount(q, "total", "all").tokens
    BY <2>1 DEF Plus
  <2> QED BY <1>1, <2>3, AllTokens
<1>2. CASE w # "all"
  <2> DEFINE D == RefKeys(logs, "day")
             E == DaysOfWindow(D, w, now)
  <2>1. IsFiniteSet(D) BY SeqRecords, FiniteKeys
  <2>2. E \subseteq D BY DEF DaysOfWindow
  <2>3. IsFiniteSet(E) BY <2>1, <2>2, FS_Subset
  <2>4. RefKeys(p, "day") \subseteq D /\ RefKeys(q, "day") \subseteq D BY <1>0 DEF Parts
  <2>5. ASSUME NEW d \in E
        PROVE  /\ DayTokens(p, E)[d] \in Nat /\ DayTokens(q, E)[d] \in Nat
               /\ DayTokens(logs, E)[d] = DayTokens(p, E)[d] + DayTokens(q, E)[d]
    <3>1. RefAmount(logs, "day", d) = Plus(RefAmount(p, "day", d), RefAmount(q, "day", d)) BY <1>0 DEF Parts
    <3>2. RefAmount(p, "day", d) \in Amounts /\ RefAmount(q, "day", d) \in Amounts BY RefAmountIs
    <3>3. RefAmount(logs, "day", d).tokens = RefAmount(p, "day", d).tokens + RefAmount(q, "day", d).tokens
      BY <3>1 DEF Plus
    <3>4. RefAmount(p, "day", d).tokens \in Nat /\ RefAmount(q, "day", d).tokens \in Nat BY <3>2 DEF Amounts
    <3> QED BY <3>3, <3>4 DEF DayTokens
  <2> HIDE DEF D, E
  <2>6. Total(DayTokens(logs, E), E) = Total(DayTokens(p, E), E) + Total(DayTokens(q, E), E)
    BY <2>3, <2>5, TotalPlus
  <2>7. /\ RefWindow(logs, w, now) = Total(DayTokens(logs, E), E)
        /\ RefWindow(p, w, now) = Total(DayTokens(p, E), E)
        /\ RefWindow(q, w, now) = Total(DayTokens(q, E), E)
    <3>1. RefKeys(logs, "day") \subseteq D BY DEF D
    <3> QED BY <1>2, <2>1, <2>4, <3>1, SeqRecords, WindowByDays DEF E
  <2> QED BY <2>6, <2>7
<1> QED BY <1>1, <1>2

-----------------------------------------------------------------------------
(* The window that an aggregate of some records has *)

\* The amounts of the keys S of a map.
TokensIn(f, S)  == [k \in S |-> At(f, k).tokens]
RecordsIn(f, S) == [k \in S |-> At(f, k).records]

\* SumOver sums the amounts of the keys.
LEMMA SumOverIs ==
    ASSUME NEW K, NEW f \in MapsTo(K, Amounts), NEW S, IsFiniteSet(S)
    PROVE  /\ SumOver(f, S) \in Amounts
           /\ SumOver(f, S).tokens = Total(TokensIn(f, S), S)
           /\ SumOver(f, S).records = Total(RecordsIn(f, S), S)
<1> DEFINE C == [s \in SUBSET S |-> CHOOSE x \in s : TRUE]
           G == [p \in S \X Amounts |-> Plus(p[2], At(f, p[1]))]
           Rec(g) == g = [s \in SUBSET S |-> IF s = {} THEN Zero
                             ELSE Plus(g[s \ {CHOOSE x \in s : TRUE}], At(f, CHOOSE x \in s : TRUE))]
           it == CHOOSE g : Rec(g)
           T == TokensIn(f, S)
           R == RecordsIn(f, S)
<1>1. SumOver(f, S) = it[S] BY DEF SumOver, FoldSet, MapThenFoldSet
<1>2. \A s \in SUBSET S : C[s] = CHOOSE x \in s : TRUE OBVIOUS
<1>3. \A k \in S, a \in Amounts : G[<<k, a>>] = Plus(a, At(f, k)) OBVIOUS
<1>4. \A s \in SUBSET S : s # {} => (CHOOSE x \in s : TRUE) \in s OBVIOUS
<1>5. \A k \in S : /\ At(f, k) \in Amounts /\ T[k] = At(f, k).tokens /\ R[k] = At(f, k).records
                   /\ T[k] \in Nat /\ R[k] \in Nat
  <2> SUFFICES ASSUME NEW k \in S
               PROVE  /\ At(f, k) \in Amounts /\ T[k] = At(f, k).tokens /\ R[k] = At(f, k).records
                      /\ T[k] \in Nat /\ R[k] \in Nat
    OBVIOUS
  <2>1. At(f, k) \in Amounts BY AtIs
  <2>2. At(f, k).tokens \in Nat /\ At(f, k).records \in Nat BY <2>1 DEF Amounts
  <2> QED BY <2>1, <2>2 DEF TokensIn, RecordsIn
<1> HIDE DEF C, G, T, R
<1>6. Chooses(C, S) /\ StaysIn(G, S, Amounts)
  <2>1. \A k \in S, a \in Amounts : Plus(a, At(f, k)) \in Amounts BY <1>5, PlusIs
  <2> QED BY <1>2, <1>3, <1>4, <2>1 DEF Chooses, StaysIn
<1>7. PICK g : IsFold(g, S, Zero, C, G) BY <1>6, SomeFold
<1>8. \A s \in SUBSET S : g[s] \in Amounts
  <2> SUFFICES ASSUME NEW s \in SUBSET S PROVE g[s] \in Amounts
    OBVIOUS
  <2>1. Zero \in Amounts BY DEF Zero, Amounts
  <2> QED BY <1>6, <1>7, <2>1, FoldSteps
<1>9. g = [s \in SUBSET S |-> IF s = {} THEN Zero ELSE G[<<C[s], g[s \ {C[s]}]>>]] BY <1>7 DEF IsFold
<1>10. Rec(g)
  <2> DEFINE h == [s \in SUBSET S |-> IF s = {} THEN Zero
                      ELSE Plus(g[s \ {CHOOSE x \in s : TRUE}], At(f, CHOOSE x \in s : TRUE))]
  <2>1. \A s \in SUBSET S : s # {} => g[s] = G[<<C[s], g[s \ {C[s]}]>>] BY <1>9
  <2>2. ASSUME NEW s \in SUBSET S PROVE g[s] = h[s]
    <3>1. CASE s = {} BY <1>9, <3>1
    <3>2. CASE s # {}
      <4>1. PICK k \in S : k = CHOOSE x \in s : TRUE BY <1>4, <3>2
      <4>2. PICK a \in Amounts : a = g[s \ {k}] BY <1>8
      <4>3. g[s] = G[<<k, a>>]
        <5>1. g[s] = G[<<C[s], g[s \ {C[s]}]>>] BY <2>1, <3>2
        <5>2. C[s] = k BY <1>2, <4>1
        <5> QED BY <4>2, <5>1, <5>2
      <4>4. h[s] = Plus(a, At(f, k)) BY <3>2, <4>1, <4>2
      <4> QED BY <1>3, <4>3, <4>4
    <3> QED BY <3>1, <3>2
  <2>3. g = [s \in SUBSET S |-> g[s]] BY <1>9
  <2> QED BY <2>2, <2>3
<1>11. Rec(it)
  <2> HIDE DEF Rec
  <2> QED BY <1>10
<1> HIDE DEF it
<1>12. /\ it[{}] = Zero
       /\ \A s \in SUBSET S : s # {} =>
             it[s] = Plus(it[s \ {CHOOSE x \in s : TRUE}], At(f, CHOOSE x \in s : TRUE))
  BY <1>11
<1> DEFINE H == {s \in SUBSET S : /\ it[s] \in Amounts /\ it[s].tokens = Total(T, s)
                                  /\ it[s].records = Total(R, s)}
<1>13. {} \in H
  <2>1. Total(T, {}) = 0 /\ Total(R, {}) = 0 BY FS_EmptySet, TotalSteps
  <2>2. it[{}] \in Amounts /\ it[{}].tokens = 0 /\ it[{}].records = 0 BY <1>12 DEF Zero, Amounts
  <2> QED BY <2>1, <2>2
<1>14. ASSUME NEW s \in SUBSET S, s # {} PROVE \E x \in s : s \ {x} \in H => s \in H
  <2>1. PICK k \in s : k = CHOOSE x \in s : TRUE BY <1>4, <1>14
  <2>2. it[s] = Plus(it[s \ {k}], At(f, k)) BY <1>12, <1>14, <2>1
  <2>3. IsFiniteSet(s) /\ \A x \in s : T[x] \in Nat /\ R[x] \in Nat BY <1>5, FS_Subset
  <2>4. Total(T, s) = T[k] + Total(T, s \ {k}) /\ Total(R, s) = R[k] + Total(R, s \ {k})
    BY <2>3, TotalSteps
  <2>5. ASSUME s \ {k} \in H PROVE s \in H
    <3>1. PICK a \in Amounts : a = it[s \ {k}] BY <2>5
    <3>2. a.tokens = Total(T, s \ {k}) /\ a.records = Total(R, s \ {k}) BY <2>5, <3>1
    <3>3. PICK b \in Amounts : b = At(f, k) BY <1>5
    <3>4. b.tokens = T[k] /\ b.records = R[k] BY <1>5, <3>3
    <3>5. it[s] = Plus(a, b) BY <2>2, <3>1, <3>3
    <3>6. Plus(a, b) \in Amounts BY PlusIs
    <3>7. /\ Plus(a, b).tokens = a.tokens + b.tokens /\ Plus(a, b).records = a.records + b.records
          /\ {a.tokens, b.tokens, a.records, b.records} \subseteq Nat
      BY DEF Plus, Amounts
    <3>8. it[s].tokens = Total(T, s) /\ it[s].records = Total(R, s)
      BY <2>4, <3>2, <3>4, <3>5, <3>7
    <3> QED BY <3>5, <3>6, <3>8
  <2> QED BY <2>5
<1> HIDE DEF H
<1>15. S \in H BY <1>13, <1>14, RemovalInduction
<1> QED BY <1>1, <1>15 DEF H, T, R

\* An aggregate of some records.
Counts(agg, logs) == \A d \in Dims \ HourDims : agg.by[d] = RefBy(logs, d)

LEMMA WindowIs ==
    ASSUME NEW L, NEW K, NEW P, NEW N, Fits(L, K, P, N), NEW logs \in Seq(L),
           NEW agg, Counts(agg, logs), NEW w, NEW now
    PROVE  Window(agg, w, now) = RefWindow(logs, w, now)
<1>0. LogSet(L) BY DEF Fits
<1>1. agg.by.total = RefBy(logs, "total") /\ agg.by.day = RefBy(logs, "day")
  BY DEF Counts, Dims, HourDims
<1>2. CASE w = "all"
  <2>1. Window(agg, w, now) = At(RefBy(logs, "total"), "all").tokens BY <1>1, <1>2 DEF Window
  <2>2. At(RefBy(logs, "total"), "all") = RefAmount(logs, "total", "all") BY RefByIs DEF Dims
  <2> QED BY <1>0, <1>2, <2>1, <2>2, AllTokens
<1>3. CASE w # "all"
  <2>1. PICK m \in MapsTo(K, Amounts) : m = RefBy(logs, "day") BY RefByIs DEF Dims
  <2>2. DOMAIN m = RefKeys(logs, "day") /\ \A k : At(m, k) = RefAmount(logs, "day", k)
    BY <2>1, RefByIs DEF Dims
  <2>3. PICK D : D = RefKeys(logs, "day") OBVIOUS
  <2>4. PICK E : E = DaysOfWindow(D, w, now) OBVIOUS
  <2>5. IsFiniteSet(D) BY <1>0, <2>3, SeqRecords, FiniteKeys
  <2>6. E \subseteq D BY <2>4 DEF DaysOfWindow
  <2>7. IsFiniteSet(E) BY <2>5, <2>6, FS_Subset
  <2>8. Window(agg, w, now) = SumOver(m, E).tokens
    BY <1>1, <1>3, <2>1, <2>2, <2>3, <2>4 DEF Window, DaysOfWindow
  <2>9. SumOver(m, E).tokens = Total(TokensIn(m, E), E) BY <2>7, SumOverIs
  <2>10. TokensIn(m, E) = DayTokens(logs, E) BY <2>2 DEF TokensIn, DayTokens
  <2>11. RefWindow(logs, w, now) = Total(DayTokens(logs, E), E)
    BY <1>0, <1>3, <2>3, <2>4, <2>5, SeqRecords, WindowByDays
  <2> QED BY <2>8, <2>9, <2>10, <2>11
<1> QED BY <1>2, <1>3

-----------------------------------------------------------------------------
(* The parts of the view *)

\* What the entries show.

LEMMA PartsAdd ==
    ASSUME NEW L, NEW K, NEW P, NEW N, Fits(L, K, P, N), NEW logs \in Seq(L), NEW p \in Seq(L), NEW q \in Seq(L),
           NEW d \in Dims, Parts(logs, p, q, d)
    PROVE  RefBy(logs, d) = AddMaps(RefBy(p, d), RefBy(q, d))
<1>1. PICK f \in MapsTo(K, Amounts) : f = RefBy(logs, d) BY RefByIs
<1>2. PICK a \in MapsTo(K, Amounts) : a = RefBy(p, d) BY RefByIs
<1>3. PICK b \in MapsTo(K, Amounts) : b = RefBy(q, d) BY RefByIs
<1>4. PICK g \in MapsTo(K, Amounts) : g = AddMaps(a, b) BY AddMapsIs
<1>5. DOMAIN f = DOMAIN g
  <2>1. DOMAIN f = RefKeys(logs, d) /\ DOMAIN a = RefKeys(p, d) /\ DOMAIN b = RefKeys(q, d)
    BY <1>1, <1>2, <1>3, RefByIs
  <2>2. DOMAIN g = DOMAIN a \cup DOMAIN b BY <1>4, AddMapsKeys
  <2> QED BY <2>1, <2>2 DEF Parts
<1>6. \A k : At(f, k) = At(g, k)
  <2> SUFFICES ASSUME NEW k PROVE At(f, k) = At(g, k)
    OBVIOUS
  <2>1. At(f, k) = RefAmount(logs, d, k) BY <1>1, RefByIs
  <2>2. At(a, k) = RefAmount(p, d, k) BY <1>2, RefByIs
  <2>3. At(b, k) = RefAmount(q, d, k) BY <1>3, RefByIs
  <2>4. At(g, k) = Plus(At(a, k), At(b, k)) BY <1>4, AddMapsAt
  <2>5. RefAmount(logs, d, k) = Plus(RefAmount(p, d, k), RefAmount(q, d, k)) BY DEF Parts
  <2> QED BY <2>1, <2>2, <2>3, <2>4, <2>5
<1>7. f = g BY <1>5, <1>6, EqualMaps
<1> QED BY <1>1, <1>2, <1>3, <1>4, <1>7

\* merge_dimension_entries adds the amounts.
LEMMA MergedEntries ==
    ASSUME NEW a, NEW b, NEW d
    PROVE  AmountsOf(MergeEntries(Project(a, d), Project(b, d))) = AddMaps(a.by[d], b.by[d])
<1>1. PICK m : m = MergeEntries(Project(a, d), Project(b, d)) OBVIOUS
<1>2. DOMAIN m = DOMAIN a.by[d] \cup DOMAIN b.by[d] BY <1>1 DEF MergeEntries, Project
<1>3. ASSUME NEW k \in DOMAIN m PROVE m[k].amount = Plus(At(a.by[d], k), At(b.by[d], k))
  <2>1. k \in DOMAIN a.by[d] => Project(a, d)[k].amount = At(a.by[d], k) BY DEF Project, At
  <2>2. k \in DOMAIN b.by[d] => Project(b, d)[k].amount = At(b.by[d], k) BY DEF Project, At
  <2>3. DOMAIN Project(a, d) = DOMAIN a.by[d] /\ DOMAIN Project(b, d) = DOMAIN b.by[d] BY DEF Project
  <2>4. m[k].amount = Plus(IF k \in DOMAIN Project(a, d) THEN Project(a, d)[k].amount ELSE Zero,
                           IF k \in DOMAIN Project(b, d) THEN Project(b, d)[k].amount ELSE Zero)
    BY <1>1, <1>2, <1>3, <2>3 DEF MergeEntries
  <2>5. (IF k \in DOMAIN Project(a, d) THEN Project(a, d)[k].amount ELSE Zero) = At(a.by[d], k)
    BY <2>1, <2>3 DEF At
  <2>6. (IF k \in DOMAIN Project(b, d) THEN Project(b, d)[k].amount ELSE Zero) = At(b.by[d], k)
    BY <2>2, <2>3 DEF At
  <2> QED BY <2>4, <2>5, <2>6
<1>4. AmountsOf(m) = [k \in DOMAIN m |-> m[k].amount] BY DEF AmountsOf
<1>5. AddMaps(a.by[d], b.by[d]) = [k \in DOMAIN m |-> Plus(At(a.by[d], k), At(b.by[d], k))]
  BY <1>2 DEF AddMaps
<1> QED BY <1>1, <1>3, <1>4, <1>5

\* The daily series: tokens of the aggregate, records of the logs.
LEMMA MergedDays ==
    ASSUME NEW L, NEW K, NEW P, NEW N, Fits(L, K, P, N), NEW logs \in Seq(L), NEW p \in Seq(L), NEW q \in Seq(L),
           Parts(logs, p, q, "day")
    PROVE  MergeDaily(RefBy(p, "day"), RefBy(q, "day"), q) = RefBy(logs, "day")
<1>0. LogSet(L) /\ "day" \in Dims /\ "day" \in Counted BY DEF Fits, Dims, Counted
<1>1. PICK a \in MapsTo(K, Amounts) : a = RefBy(p, "day") BY <1>0, RefByIs
<1>2. PICK b \in MapsTo(K, Amounts) : b = RefBy(q, "day") BY <1>0, RefByIs
<1>3. RefBy(logs, "day") = AddMaps(a, b) BY <1>0, <1>1, <1>2, PartsAdd
<1>4. DOMAIN b = RefKeys(q, "day") /\ \A k : At(b, k) = RefAmount(q, "day", k) BY <1>0, <1>2, RefByIs
<1>5. ASSUME NEW d
      PROVE  Cardinality({i \in DOMAIN q : d \in DOMAIN b /\ DayOf(q[i].hour) = d}) = At(b, d).records
  <2>1. {i \in DOMAIN q : d \in DOMAIN b /\ DayOf(q[i].hour) = d} = Mine(q, "day", d)
    BY <1>4 DEF Mine, RefKeys, KeyOf
  <2>2. RefAmount(q, "day", d).records = Cardinality(Mine(q, "day", d)) BY <1>0, RefAmountIs
  <2> QED BY <1>4, <2>1, <2>2
<1>6. PICK m : m = MergeDaily(a, b, q) OBVIOUS
<1>7. m = [d \in DOMAIN a \cup DOMAIN b |->
             [tokens |-> At(a, d).tokens + At(b, d).tokens,
              records |-> At(a, d).records
                          + Cardinality({i \in DOMAIN q : d \in DOMAIN b /\ DayOf(q[i].hour) = d})]]
  BY <1>6 DEF MergeDaily
<1>8. ASSUME NEW d \in DOMAIN a \cup DOMAIN b PROVE m[d] = AddMaps(a, b)[d]
  <2>1. AddMaps(a, b)[d] = Plus(At(a, d), At(b, d)) BY DEF AddMaps
  <2>2. m[d] = [tokens |-> At(a, d).tokens + At(b, d).tokens,
                records |-> At(a, d).records + At(b, d).records] BY <1>5, <1>7
  <2> QED BY <2>1, <2>2 DEF Plus
<1>9. DOMAIN m = DOMAIN a \cup DOMAIN b /\ m = [d \in DOMAIN m |-> m[d]] BY <1>7
<1>10. AddMaps(a, b) = [d \in DOMAIN a \cup DOMAIN b |-> AddMaps(a, b)[d]] BY DEF AddMaps
<1>11. m = AddMaps(a, b) BY <1>8, <1>9, <1>10
<1> QED BY <1>1, <1>2, <1>3, <1>6, <1>11

-----------------------------------------------------------------------------
(* The hours of today *)

\* An hour of today is younger than two days, so pruning the cold aggregate keeps it.
LEMMA DayIsRecent ==
    ASSUME NEW h \in Int, NEW now \in Int, DayOf(h) = DayOf(now)
    PROVE  h >= now - 2 * HoursPerDay
<1>0. HoursPerDay \in Nat \ {0} BY CalendarAssumption
<1>1. PICK q \in Int : q = h \div HoursPerDay BY <1>0
<1>2. q * HoursPerDay <= h /\ h < q * HoursPerDay + HoursPerDay BY <1>0, <1>1
<1>3. q * HoursPerDay <= now /\ now < q * HoursPerDay + HoursPerDay BY <1>0, <1>1 DEF DayOf
<1>4. PICK z \in Int : z = q * HoursPerDay BY <1>0
<1> QED BY <1>0, <1>2, <1>3, <1>4

\* The keys of today, of the hours or of the hours and their sources.
IsHour(k, d) == IF d = "hour" THEN k ELSE k[1]
TodayKeys(logs, d, now) == {k \in RefKeys(logs, d) : DayOf(IsHour(k, d)) = DayOf(now)}
RefToday(logs, d, now)  == [k \in TodayKeys(logs, d, now) |-> RefAmount(logs, d, k)]
TodayOf(f, d, now) == [k \in {k \in DOMAIN f : DayOf(IsHour(k, d)) = DayOf(now)} |-> f[k]]
RecentOf(f, d, cutoff) == [k \in {k \in DOMAIN f : IsHour(k, d) >= cutoff} |-> f[k]]

\* The records of an hour of today.
Todays(logs, now) == {i \in DOMAIN logs : DayOf(logs[i].hour) = DayOf(now)}

LEMMA TodayIs ==
    ASSUME NEW logs, Records(logs), NEW d \in {"hour", "hourSource"}, NEW now
    PROVE  RefToday(logs, d, now) = RefBy(Restrict(logs, Todays(logs, now)), d)
<1>1. \A i \in DOMAIN logs : IsHour(KeyOf(logs[i])[d], d) = logs[i].hour BY DEF IsHour, KeyOf
<1>2. PICK I : I = {i \in DOMAIN logs : DayOf(logs[i].hour) = DayOf(now)} /\ I = Todays(logs, now) BY DEF Todays
<1>3. PICK sub : sub = Restrict(logs, I) OBVIOUS
<1>4. /\ Records(sub) /\ DOMAIN sub = I /\ \A i \in I : sub[i] = logs[i]
      /\ \A k : Mine(sub, d, k) = {i \in I : KeyOf(logs[i])[d] = k}
      /\ RefKeys(sub, d) = {KeyOf(logs[i])[d] : i \in I}
  <2>1. I \subseteq DOMAIN logs BY <1>2
  <2> QED BY <1>3, <2>1, RestrictIs
<1>5. TodayKeys(logs, d, now) = RefKeys(sub, d)
  <2>1. PICK key : key = [i \in DOMAIN logs |-> KeyOf(logs[i])[d]] OBVIOUS
  <2>2. RefKeys(logs, d) = {key[i] : i \in DOMAIN logs} BY <2>1 DEF RefKeys
  <2>3. I \subseteq DOMAIN logs BY <1>2
  <2>4. RefKeys(sub, d) = {key[i] : i \in I} BY <1>4, <2>1, <2>3
  <2>5. \A i \in DOMAIN logs : DayOf(IsHour(key[i], d)) = DayOf(now) <=> i \in I BY <1>1, <1>2, <2>1
  <2>6. PICK Y : Y = RefKeys(sub, d) OBVIOUS
  <2>7. PICK X : X = RefKeys(logs, d) OBVIOUS
  <2>8. ASSUME NEW k PROVE (k \in X /\ DayOf(IsHour(k, d)) = DayOf(now)) <=> k \in Y
    BY <2>2, <2>3, <2>4, <2>5, <2>6, <2>7
  <2>9. {k \in X : DayOf(IsHour(k, d)) = DayOf(now)} = Y BY <2>8
  <2> QED BY <2>6, <2>7, <2>9 DEF TodayKeys
<1>6. ASSUME NEW k \in RefKeys(sub, d) PROVE RefAmount(logs, d, k) = RefAmount(sub, d, k)
  <2>1. DayOf(IsHour(k, d)) = DayOf(now) BY <1>5 DEF TodayKeys
  <2>2. \A i \in DOMAIN logs : KeyOf(logs[i])[d] = k => i \in I BY <1>1, <1>2, <2>1
  <2>3. I \subseteq DOMAIN logs BY <1>2
  <2>4. Mine(logs, d, k) = Mine(sub, d, k) BY <1>4, <2>2, <2>3 DEF Mine
  <2>5. \A i \in Mine(logs, d, k) : logs[i].tokens = sub[i].tokens BY <1>4, <2>4
  <2> QED BY <1>4, <2>4, <2>5, SameAmount
<1>7. PICK D : D = RefKeys(sub, d) OBVIOUS
<1>8. [k \in D |-> RefAmount(logs, d, k)] = [k \in D |-> RefAmount(sub, d, k)] BY <1>6, <1>7
<1> QED BY <1>2, <1>3, <1>5, <1>7, <1>8 DEF RefToday, RefBy

\* What is pruned is not of today.
LEMMA PrunedToday ==
    ASSUME NEW L, NEW K, NEW P, NEW N, Fits(L, K, P, N), \A x \in L : x.hour \in Int,
           NEW logs \in Seq(L), NEW d \in HourDims, NEW now \in Int
    PROVE  /\ TodayOf(RefBy(logs, d), d, now) = RefToday(logs, d, now)
           /\ TodayOf(RecentOf(RefBy(logs, d), d, now - 2 * HoursPerDay), d, now) = RefToday(logs, d, now)
<1>1. d \in Dims BY DEF HourDims, Dims
<1>2. PICK f : f = RefBy(logs, d) OBVIOUS
<1>3. /\ DOMAIN f = RefKeys(logs, d) /\ \A k \in DOMAIN f : f[k] = RefAmount(logs, d, k)
      /\ f = [k \in DOMAIN f |-> f[k]]
  BY <1>2 DEF RefBy
<1>4. ASSUME NEW k \in DOMAIN f PROVE IsHour(k, d) \in Int
  <2>1. PICK i \in DOMAIN logs : k = KeyOf(logs[i])[d] BY <1>3 DEF RefKeys
  <2>2. logs[i].hour \in Int OBVIOUS
  <2>3. IsHour(k, d) = logs[i].hour BY <2>1 DEF IsHour, KeyOf, HourDims
  <2> QED BY <2>2, <2>3
<1>5. PICK g : g = RecentOf(f, d, now - 2 * HoursPerDay) OBVIOUS
<1>6. /\ DOMAIN g = {k \in DOMAIN f : IsHour(k, d) >= now - 2 * HoursPerDay}
      /\ \A k \in DOMAIN g : g[k] = f[k]
  BY <1>5 DEF RecentOf
<1>7. {k \in DOMAIN f : DayOf(IsHour(k, d)) = DayOf(now)} = TodayKeys(logs, d, now)
  BY <1>3 DEF TodayKeys
<1>8. {k \in DOMAIN g : DayOf(IsHour(k, d)) = DayOf(now)} = TodayKeys(logs, d, now)
  <2>1. ASSUME NEW k \in DOMAIN f, DayOf(IsHour(k, d)) = DayOf(now) PROVE k \in DOMAIN g
    <3>1. IsHour(k, d) >= now - 2 * HoursPerDay BY <1>4, <2>1, DayIsRecent
    <3> QED BY <1>6, <3>1
  <2>2. DOMAIN g \subseteq DOMAIN f BY <1>6
  <2> QED BY <1>7, <2>1, <2>2
<1>9. TodayOf(f, d, now) = RefToday(logs, d, now)
  <2>1. \A k \in TodayKeys(logs, d, now) : f[k] = RefAmount(logs, d, k) BY <1>3 DEF TodayKeys
  <2> QED BY <1>7, <2>1 DEF TodayOf, RefToday
<1>10. TodayOf(g, d, now) = RefToday(logs, d, now)
  <2>1. \A k \in TodayKeys(logs, d, now) : g[k] = RefAmount(logs, d, k) BY <1>3, <1>6, <1>8
  <2> QED BY <1>8, <2>1 DEF TodayOf, RefToday
<1> QED BY <1>2, <1>5, <1>9, <1>10

\* Today's hours of records in two parts.
LEMMA TodaysAdd ==
    ASSUME NEW logs, NEW p, NEW q, NEW d, Parts(logs, p, q, d), NEW now,
           NEW L, LogSet(L), p \in Seq(L), q \in Seq(L)
    PROVE  AddMaps(RefToday(p, d, now), RefToday(q, d, now)) = RefToday(logs, d, now)
<1>1. PICK a : a = RefToday(p, d, now) OBVIOUS
<1>2. PICK b : b = RefToday(q, d, now) OBVIOUS
<1>3. DOMAIN a = TodayKeys(p, d, now) /\ DOMAIN b = TodayKeys(q, d, now) BY <1>1, <1>2 DEF RefToday
<1>4. TodayKeys(logs, d, now) = DOMAIN a \cup DOMAIN b BY <1>3 DEF TodayKeys, Parts
<1>5. ASSUME NEW k \in TodayKeys(logs, d, now) PROVE Plus(At(a, k), At(b, k)) = RefAmount(logs, d, k)
  <2>1. DayOf(IsHour(k, d)) = DayOf(now) BY DEF TodayKeys
  <2>2. At(a, k) = RefAmount(p, d, k)
    <3>1. CASE k \in DOMAIN a BY <1>1, <3>1 DEF At, RefToday
    <3>2. CASE k \notin DOMAIN a
      <4>1. k \notin RefKeys(p, d) BY <1>3, <2>1, <3>2 DEF TodayKeys
      <4>2. RefAmount(p, d, k) = Zero BY <4>1, RefNone
      <4> QED BY <3>2, <4>2 DEF At
    <3> QED BY <3>1, <3>2
  <2>3. At(b, k) = RefAmount(q, d, k)
    <3>1. CASE k \in DOMAIN b BY <1>2, <3>1 DEF At, RefToday
    <3>2. CASE k \notin DOMAIN b
      <4>1. k \notin RefKeys(q, d) BY <1>3, <2>1, <3>2 DEF TodayKeys
      <4>2. RefAmount(q, d, k) = Zero BY <4>1, RefNone
      <4> QED BY <3>2, <4>2 DEF At
    <3> QED BY <3>1, <3>2
  <2> QED BY <2>2, <2>3 DEF Parts
<1>6. AddMaps(a, b) = [k \in TodayKeys(logs, d, now) |-> Plus(At(a, k), At(b, k))] BY <1>4 DEF AddMaps
<1> QED BY <1>1, <1>2, <1>5, <1>6 DEF RefToday

-----------------------------------------------------------------------------
(* Projects under their titles *)

LEMMA CountIsTotal ==
    ASSUME NEW S, IsFiniteSet(S), NEW F, \A x \in S : F[x] = 1
    PROVE  Total(F, S) = Cardinality(S)
<1> DEFINE H == {s \in SUBSET S : Total(F, s) = Cardinality(s)}
<1>1. \A s \in SUBSET S : IsFiniteSet(s) /\ \A x \in s : F[x] \in Nat BY FS_Subset
<1>2. {} \in H
  <2>1. Total(F, {}) = 0 BY FS_EmptySet, TotalSteps
  <2> QED BY <2>1, FS_EmptySet
<1>3. ASSUME NEW s \in SUBSET S, s # {} PROVE \E x \in s : s \ {x} \in H => s \in H
  <2>1. PICK x \in s : TRUE BY <1>3
  <2>2. Total(F, s) = 1 + Total(F, s \ {x})
    <3>1. IsFiniteSet(s) /\ \A y \in s : F[y] \in Nat BY <1>1
    <3>2. Total(F, s) = F[x] + Total(F, s \ {x}) BY <3>1, TotalSteps
    <3> QED BY <3>2
  <2>3. Cardinality(s \ {x}) = Cardinality(s) - 1 /\ Cardinality(s) \in Nat
    BY <1>1, FS_RemoveElement, FS_CardinalityType
  <2>4. ASSUME s \ {x} \in H PROVE s \in H
    <3>1. Total(F, s \ {x}) = Cardinality(s \ {x}) BY <2>4
    <3> QED BY <2>2, <2>3, <3>1
  <2> QED BY <2>4
<1> HIDE DEF H
<1>4. S \in H BY <1>2, <1>3, RemovalInduction
<1> QED BY <1>4 DEF H

\* The records with their titles for projects.
Titled(x)    == [x EXCEPT !.project = TitleOf(@)]
Whole(L)     == \A x \in L : {"source", "project", "tokens"} \subseteq DOMAIN x

LEMMA TitledIs ==
    ASSUME NEW L, LogSet(L), Whole(L), NEW logs \in Seq(L)
    PROVE  /\ LogSet({Titled(x) : x \in L}) /\ TitledLogs(logs) \in Seq({Titled(x) : x \in L})
           /\ DOMAIN TitledLogs(logs) = DOMAIN logs
           /\ \A i \in DOMAIN logs : /\ TitledLogs(logs)[i].project = TitleOf(logs[i].project)
                                     /\ TitledLogs(logs)[i].source = logs[i].source
                                     /\ TitledLogs(logs)[i].tokens = logs[i].tokens
<1>1. ASSUME NEW x \in L
      PROVE  Titled(x).project = TitleOf(x.project) /\ Titled(x).source = x.source /\ Titled(x).tokens = x.tokens
  BY DEF Titled, Whole
<1>2. LogSet({Titled(x) : x \in L}) BY <1>1 DEF LogSet
<1>3. DOMAIN logs = 1 .. Len(logs) /\ Len(logs) \in Nat /\ \A i \in DOMAIN logs : logs[i] \in L OBVIOUS
<1>4. TitledLogs(logs) = [i \in 1 .. Len(logs) |-> Titled(logs[i])] BY <1>3 DEF TitledLogs, Titled
<1>5. ASSUME NEW i \in 1 .. Len(logs) PROVE Titled(logs[i]) \in {Titled(x) : x \in L} BY <1>3
<1>6. TitledLogs(logs) \in Seq({Titled(x) : x \in L}) BY <1>3, <1>4, <1>5
<1> QED BY <1>1, <1>2, <1>3, <1>4, <1>6

\* What is counted under k are the records that are elsewhere counted under the keys of D.
Gathered(sub, e, k, logs, d, D) ==
    /\ Mine(sub, e, k) = {i \in DOMAIN logs : KeyOf(logs[i])[d] \in D}
    /\ \A i \in Mine(sub, e, k) : Amount(sub[i], e) = Amount(logs[i], d)
    /\ e \in Counted <=> d \in Counted

LEMMA GatheredAmount ==
    ASSUME NEW sub, Records(sub), NEW logs, Records(logs), NEW e, NEW d, NEW k, NEW D, IsFiniteSet(D),
           Gathered(sub, e, k, logs, d, D), NEW K, NEW m \in MapsTo(K, Amounts),
           \A x \in D : At(m, x) = RefAmount(logs, d, x)
    PROVE  SumOver(m, D) = RefAmount(sub, e, k)
<1> DEFINE S == Mine(sub, e, k)
           g == [i \in DOMAIN logs |-> KeyOf(logs[i])[d]]
           one == [i \in DOMAIN logs |-> 1]
           A == [i \in DOMAIN logs |-> Amount(logs[i], d).tokens]
           B == [i \in DOMAIN sub |-> Amount(sub[i], e).tokens]
<1>1. /\ S = {i \in DOMAIN logs : g[i] \in D} /\ S \subseteq DOMAIN sub
      /\ \A i \in S : A[i] \in Nat /\ B[i] = A[i] /\ one[i] = 1
  <2>1. S = {i \in DOMAIN logs : g[i] \in D} BY DEF Gathered
  <2>2. S \subseteq DOMAIN sub BY DEF Mine
  <2>3. \A i \in DOMAIN logs : Amount(logs[i], d).tokens \in Nat BY DEF Records, Amount
  <2>4. \A i \in S : Amount(sub[i], e) = Amount(logs[i], d) BY DEF Gathered
  <2> QED BY <2>1, <2>2, <2>3, <2>4
<1>2. /\ IsFiniteSet(S) /\ RefAmount(sub, e, k) \in Amounts /\ RefAmount(sub, e, k).tokens = Total(B, S)
      /\ RefAmount(sub, e, k).records = IF e \in Counted THEN Cardinality(S) ELSE 0
  BY AmountOfRecords
<1>3. ASSUME NEW x \in D
      PROVE  /\ RefAmount(logs, d, x).tokens = Total(A, Group(S, g, x))
             /\ RefAmount(logs, d, x).records = IF d \in Counted THEN Total(one, Group(S, g, x)) ELSE 0
  <2> DEFINE M == Mine(logs, d, x)
  <2>1. M = Group(S, g, x) /\ M \subseteq S BY <1>1 DEF Mine, Group
  <2>2. /\ IsFiniteSet(M) /\ RefAmount(logs, d, x).tokens = Total(A, M)
        /\ RefAmount(logs, d, x).records = IF d \in Counted THEN Cardinality(M) ELSE 0
    BY AmountOfRecords
  <2> HIDE DEF A, S, M, one
  <2>3. Total(one, M) = Cardinality(M) BY <1>1, <2>1, <2>2, CountIsTotal
  <2> QED BY <2>1, <2>2, <2>3
<1>4. PICK T : T = TokensIn(m, D) OBVIOUS
<1>5. PICK R : R = RecordsIn(m, D) OBVIOUS
<1>6. \A x \in D : T[x] = RefAmount(logs, d, x).tokens /\ R[x] = RefAmount(logs, d, x).records
  BY <1>4, <1>5 DEF TokensIn, RecordsIn
<1>7. SumOver(m, D) \in Amounts /\ SumOver(m, D).tokens = Total(T, D) /\ SumOver(m, D).records = Total(R, D)
  BY <1>4, <1>5, SumOverIs
<1>8. \A i \in S : g[i] \in D BY <1>1
<1>9. e \in Counted <=> d \in Counted BY DEF Gathered
<1> HIDE DEF S, g, one, A, B
<1>10. Total(A, S) = Total(T, D)
  <2>1. InGroups(A, S, g, T, D) BY <1>3, <1>6, <1>8 DEF InGroups
  <2> QED BY <1>1, <1>2, <2>1, TotalInGroups
<1>11. Total(B, S) = Total(A, S) BY <1>1, <1>2, TotalAgrees
<1>12. (IF e \in Counted THEN Cardinality(S) ELSE 0) = Total(R, D)
  <2>1. CASE e \in Counted
    <3>1. InGroups(one, S, g, R, D) BY <1>3, <1>6, <1>8, <1>9, <2>1 DEF InGroups
    <3>2. \A i \in S : one[i] \in Nat BY <1>1
    <3>3. Total(one, S) = Total(R, D) BY <1>2, <3>1, <3>2, TotalInGroups
    <3>4. Total(one, S) = Cardinality(S) BY <1>1, <1>2, CountIsTotal
    <3> QED BY <2>1, <3>3, <3>4
  <2>2. CASE e \notin Counted
    <3>1. \A x \in D : R[x] = 0 BY <1>3, <1>6, <1>9, <2>2
    <3>2. Total(R, D) = 0 BY <3>1, TotalOfNothing
    <3> QED BY <2>2, <3>2
  <2> QED BY <2>1, <2>2
<1>13. PICK a \in Amounts : a = SumOver(m, D) BY <1>7
<1>14. PICK b \in Amounts : b = RefAmount(sub, e, k) BY <1>2
<1>15. a.tokens = b.tokens /\ a.records = b.records
  BY <1>2, <1>7, <1>10, <1>11, <1>12, <1>13, <1>14
<1>16. a = b BY <1>15 DEF Amounts
<1> QED BY <1>13, <1>14, <1>16

\* What is counted under a title is what is counted under the projects of that title.
ProjectsOf(logs, t) == {p \in RefKeys(logs, "project") : TitleOf(p) = t}

LEMMA TitleAmount ==
    ASSUME NEW L, NEW K, NEW P, NEW N, Fits(L, K, P, N), Whole(L), NEW logs \in Seq(L), NEW t
    PROVE  SumOver(RefBy(logs, "project"), ProjectsOf(logs, t)) = RefAmount(TitledLogs(logs), "project", t)
<1>0. LogSet(L) /\ "project" \in Dims BY DEF Fits, Dims
<1>1. PICK l : l = TitledLogs(logs) OBVIOUS
<1>2. /\ Records(logs) /\ Records(l) /\ DOMAIN l = DOMAIN logs
      /\ \A i \in DOMAIN logs : l[i].project = TitleOf(logs[i].project) /\ l[i].tokens = logs[i].tokens
  <2>1. PICK TL : TL = {Titled(x) : x \in L} OBVIOUS
  <2>2. /\ LogSet(TL) /\ l \in Seq(TL) /\ DOMAIN l = DOMAIN logs
        /\ \A i \in DOMAIN logs : l[i].project = TitleOf(logs[i].project) /\ l[i].tokens = logs[i].tokens
    BY <1>0, <1>1, <2>1, TitledIs
  <2> QED BY <1>0, <2>2, SeqRecords
<1>3. PICK m \in MapsTo(K, Amounts) : m = RefBy(logs, "project") BY <1>0, RefByIs
<1>4. \A p : At(m, p) = RefAmount(logs, "project", p) BY <1>0, <1>3, RefByIs
<1>5. PICK D : D = ProjectsOf(logs, t) OBVIOUS
<1>6. IsFiniteSet(D)
  <2>1. IsFiniteSet(RefKeys(logs, "project")) BY <1>2, FiniteKeys
  <2>2. D \subseteq RefKeys(logs, "project") BY <1>5 DEF ProjectsOf
  <2> QED BY <2>1, <2>2, FS_Subset
<1>7. Gathered(l, "project", t, logs, "project", D)
  <2>1. \A i \in DOMAIN logs : logs[i].project \in D <=> TitleOf(logs[i].project) = t
    BY <1>5 DEF ProjectsOf, RefKeys, KeyOf
  <2>2. Mine(l, "project", t) = {i \in DOMAIN logs : KeyOf(logs[i])["project"] \in D}
    BY <1>2, <2>1 DEF Mine, KeyOf
  <2>3. \A i \in DOMAIN logs : Amount(l[i], "project") = Amount(logs[i], "project") BY <1>2 DEF Amount
  <2> QED BY <2>2, <2>3 DEF Gathered
<1>8. SumOver(m, D) = RefAmount(l, "project", t) BY <1>2, <1>4, <1>6, <1>7, GatheredAmount
<1> QED BY <1>1, <1>3, <1>5, <1>8

\* The amounts of a dimension that each record is counted in, together.
LEMMA GrandTotal ==
    ASSUME NEW logs, Records(logs), NEW d \in {"project", "model"}
    PROVE  SumOver(RefBy(logs, d), RefKeys(logs, d)) = RefAmount(logs, "total", "all")
<1>1. PICK D : D = RefKeys(logs, d) OBVIOUS
<1>2. PICK m \in MapsTo(D, Amounts) : m = RefBy(logs, d) BY <1>1, RecordsByIs
<1>3. \A k : At(m, k) = RefAmount(logs, d, k) BY <1>2, RecordsByIs
<1>4. IsFiniteSet(D) BY <1>1, FiniteKeys
<1>5. Gathered(logs, "total", "all", logs, d, D)
  <2>1. Mine(logs, "total", "all") = DOMAIN logs BY DEF Mine, KeyOf
  <2>2. \A i \in DOMAIN logs : KeyOf(logs[i])[d] \in D BY <1>1 DEF RefKeys
  <2>3. Mine(logs, "total", "all") = {i \in DOMAIN logs : KeyOf(logs[i])[d] \in D} BY <2>1, <2>2
  <2>4. \A x : Amount(x, "total") = Amount(x, d) BY DEF Amount, Counted
  <2>5. "total" \in Counted <=> d \in Counted BY DEF Counted
  <2> QED BY <2>3, <2>4, <2>5 DEF Gathered
<1>6. SumOver(m, D) = RefAmount(logs, "total", "all") BY <1>3, <1>4, <1>5, GatheredAmount
<1> QED BY <1>1, <1>2, <1>6

\* resolve_and_merge_by_project, of entries that show what is counted by project.
LEMMA ResolvedProjects ==
    ASSUME NEW L, NEW K, NEW P, NEW N, Fits(L, K, P, N), Whole(L), NEW logs \in Seq(L),
           NEW e, AmountsOf(e) = RefBy(logs, "project")
    PROVE  AmountsOf(ResolveProjects(e)) = RefBy(TitledLogs(logs), "project")
<1>0. LogSet(L) /\ "project" \in Dims BY DEF Fits, Dims
<1>1. PICK m : m = AmountsOf(e) /\ m = RefBy(logs, "project") OBVIOUS
<1>2. DOMAIN e = RefKeys(logs, "project") /\ m = [p \in DOMAIN e |-> e[p].amount]
  BY <1>1 DEF AmountsOf, RefBy
<1>3. PICK l : l = TitledLogs(logs) OBVIOUS
<1>4. DOMAIN l = DOMAIN logs /\ \A i \in DOMAIN logs : l[i].project = TitleOf(logs[i].project)
  BY <1>0, <1>3, TitledIs
<1>5. {TitleOf(p) : p \in DOMAIN e} = RefKeys(l, "project") BY <1>2, <1>4 DEF RefKeys, KeyOf
<1>6. PICK v : v = ResolveProjects(e) OBVIOUS
<1>7. /\ DOMAIN v = RefKeys(l, "project")
      /\ \A t \in DOMAIN v : v[t].amount = SumOver(m, ProjectsOf(logs, t))
  BY <1>2, <1>5, <1>6 DEF ResolveProjects, ProjectsOf
<1>8. \A t : SumOver(m, ProjectsOf(logs, t)) = RefAmount(l, "project", t) BY <1>1, <1>3, TitleAmount
<1>9. AmountsOf(v) = [t \in RefKeys(l, "project") |-> RefAmount(l, "project", t)]
  BY <1>7, <1>8 DEF AmountsOf
<1> QED BY <1>3, <1>6, <1>9 DEF RefBy

-----------------------------------------------------------------------------
(* The view of a cold aggregate and hot records *)

LEMMA PruneIs ==
    ASSUME NEW K, NEW P, NEW N, NEW agg \in Aggs(K, P, N), NEW cutoff
    PROVE  /\ \A d \in Dims \ HourDims : Prune(agg, cutoff).by[d] = agg.by[d]
           /\ \A d \in HourDims : Prune(agg, cutoff).by[d] = RecentOf(agg.by[d], d, cutoff)
<1>1. DOMAIN agg = {"by", "names"} /\ DOMAIN agg.by = Dims BY DEF Aggs
<1>2. \A d \in Dims \ HourDims : Prune(agg, cutoff).by[d] = agg.by[d] BY <1>1 DEF Prune, HourDims
<1>3. Prune(agg, cutoff).by["hour"] = RecentOf(agg.by["hour"], "hour", cutoff)
  BY <1>1 DEF Prune, RecentOf, IsHour, Dims
<1>4. Prune(agg, cutoff).by["hourSource"] = RecentOf(agg.by["hourSource"], "hourSource", cutoff)
  BY <1>1 DEF Prune, RecentOf, IsHour, Dims
<1> QED BY <1>2, <1>3, <1>4 DEF HourDims

\* The view that build_view makes of the cold aggregate of p and the hot records q
\* shows, of the two together, each record once.
LEMMA ViewShowsExactly ==
    ASSUME NEW L, NEW K, NEW P, NEW N, Fits(L, K, P, N), Whole(L), \A x \in L : x.hour \in Int,
           NEW logs \in Seq(L), NEW p \in Seq(L), NEW q \in Seq(L), \A d \in Dims : Parts(logs, p, q, d),
           NEW agg \in Aggs(K, P, N), \A d \in Dims : agg.by[d] = RefBy(p, d),
           NEW now \in Int, NEW term
    PROVE  ShowsExactly(BuildView(ColdView(Prune(agg, now - 2 * HoursPerDay), now, term),
                                  Ingest(EmptyAggregate, q), q, now), logs, now)
<1>0. LogSet(L) BY DEF Fits
<1>1. PICK c : c = Prune(agg, now - 2 * HoursPerDay) OBVIOUS
<1>2. PICK h : h = Ingest(EmptyAggregate, q) OBVIOUS
<1>3. PICK cold : cold = ColdView(c, now, term) OBVIOUS
<1>4. PICK v : v = BuildView(cold, h, q, now) OBVIOUS
<1>5. PICK l : l = TitledLogs(logs) OBVIOUS
<1>6. /\ \A d \in Dims \ HourDims : c.by[d] = RefBy(p, d)
      /\ \A d \in HourDims : c.by[d] = RecentOf(RefBy(p, d), d, now - 2 * HoursPerDay)
  <2>1. HourDims \subseteq Dims BY DEF HourDims, Dims
  <2> QED BY <1>1, <2>1, PruneIs
<1>7. \A d \in Dims : h.by[d] = RefBy(q, d) BY <1>2, IngestAlone
<1>8. \A d \in Dims : AddMaps(RefBy(p, d), RefBy(q, d)) = RefBy(logs, d) BY PartsAdd
<1>9. \A w \in {"all", "today", "week", "month"} : v.windows[w] = RefWindow(logs, w, now)
  <2> SUFFICES ASSUME NEW w \in {"all", "today", "week", "month"} PROVE v.windows[w] = RefWindow(logs, w, now)
    OBVIOUS
  <2>1. Counts(c, p) /\ Counts(h, q) BY <1>6, <1>7 DEF Counts
  <2>2. Window(c, w, now) = RefWindow(p, w, now) BY <2>1, WindowIs
  <2>3. Window(h, w, now) = RefWindow(q, w, now) BY <2>1, WindowIs
  <2>4. RefWindow(logs, w, now) = RefWindow(p, w, now) + RefWindow(q, w, now) BY <1>0, WindowsAdd
  <2>5. v.windows[w] = Window(c, w, now) + Window(h, w, now)
    BY <1>3, <1>4 DEF BuildView, ColdView
  <2> QED BY <2>2, <2>3, <2>4, <2>5
<1>10. DOMAIN v.windows = {"all", "today", "week", "month"}
  BY <1>3, <1>4 DEF BuildView, ColdView
<1>11. v.records = Len(logs)
  <2>1. v.records = At(c.by.total, "all").records + At(h.by.total, "all").records
    BY <1>3, <1>4 DEF BuildView, ColdView
  <2>2. "total" \in Dims \ HourDims /\ "total" \in Dims /\ "total" \in Counted BY DEF Dims, HourDims, Counted
  <2>3. /\ At(c.by.total, "all") = RefAmount(p, "total", "all")
        /\ At(h.by.total, "all") = RefAmount(q, "total", "all")
    BY <1>6, <1>7, <2>2, RefByIs
  <2>4. RefAmount(logs, "total", "all") = Plus(RefAmount(p, "total", "all"), RefAmount(q, "total", "all"))
    BY <2>2 DEF Parts
  <2>5. RefAmount(logs, "total", "all").records = v.records BY <2>1, <2>3, <2>4 DEF Plus
  <2>6. RefAmount(logs, "total", "all").records = Cardinality(Mine(logs, "total", "all"))
    BY <1>0, <2>2, RefAmountIs
  <2>7. Mine(logs, "total", "all") = 1 .. Len(logs) BY DEF Mine, KeyOf
  <2>8. Cardinality(1 .. Len(logs)) = Len(logs)
    <3>1. PICK n \in Nat : n = Len(logs) OBVIOUS
    <3>2. Cardinality(1 .. n) = IF 1 > n THEN 0 ELSE n - 1 + 1 BY FS_Interval
    <3>3. Cardinality(1 .. n) = n BY <3>2
    <3> QED BY <3>1, <3>3
  <2> QED BY <2>5, <2>6, <2>7, <2>8
<1>12. /\ AmountsOf(v.source) = RefBy(logs, "source") /\ AmountsOf(v.model) = RefBy(logs, "model")
       /\ AmountsOf(v.project) = RefBy(l, "project")
  <2>1. ASSUME NEW d \in Dims \ HourDims
        PROVE  AmountsOf(MergeEntries(Project(c, d), Project(h, d))) = RefBy(logs, d)
    BY <1>6, <1>7, <1>8, MergedEntries
  <2>2. {"source", "model", "project"} \subseteq Dims \ HourDims BY DEF Dims, HourDims
  <2>3. /\ v.source = MergeEntries(Project(c, "source"), Project(h, "source"))
        /\ v.model = MergeEntries(Project(c, "model"), Project(h, "model"))
        /\ v.project = ResolveProjects(MergeEntries(Project(c, "project"), Project(h, "project")))
    BY <1>3, <1>4 DEF BuildView, ColdView
  <2>4. PICK e : e = MergeEntries(Project(c, "project"), Project(h, "project")) OBVIOUS
  <2>5. AmountsOf(e) = RefBy(logs, "project") BY <2>1, <2>2, <2>4
  <2>6. AmountsOf(ResolveProjects(e)) = RefBy(l, "project") BY <1>5, <2>5, ResolvedProjects
  <2> QED BY <2>1, <2>2, <2>3, <2>4, <2>6
<1>13. v.daily = RefBy(logs, "day") /\ v.daySource = RefBy(logs, "daySource")
  <2>1. {"day", "daySource"} \subseteq Dims \ HourDims BY DEF Dims, HourDims
  <2>2. v.daily = MergeDaily(c.by.day, h.by.day, q) /\ v.daySource = AddMaps(c.by.daySource, h.by.daySource)
    BY <1>3, <1>4 DEF BuildView, ColdView
  <2>3. c.by.day = RefBy(p, "day") /\ h.by.day = RefBy(q, "day") BY <1>6, <1>7, <2>1
  <2>4. c.by.daySource = RefBy(p, "daySource") /\ h.by.daySource = RefBy(q, "daySource") BY <1>6, <1>7, <2>1
  <2>5. MergeDaily(RefBy(p, "day"), RefBy(q, "day"), q) = RefBy(logs, "day") BY <2>1, MergedDays
  <2> QED BY <1>8, <2>1, <2>2, <2>3, <2>4, <2>5
<1>14. v.hours = RefToday(logs, "hour", now) /\ v.hourSource = RefToday(logs, "hourSource", now)
  <2>1. ASSUME NEW d \in HourDims
        PROVE  AddMaps(TodayOf(c.by[d], d, now), TodayOf(h.by[d], d, now)) = RefToday(logs, d, now)
    <3>1. d \in Dims BY DEF HourDims, Dims
    <3>2. TodayOf(c.by[d], d, now) = RefToday(p, d, now) BY <1>6, PrunedToday
    <3>3. TodayOf(h.by[d], d, now) = RefToday(q, d, now) BY <1>7, <3>1, PrunedToday
    <3>4. AddMaps(RefToday(p, d, now), RefToday(q, d, now)) = RefToday(logs, d, now)
      BY <1>0, <3>1, TodaysAdd
    <3> QED BY <3>2, <3>3, <3>4
  <2>2. /\ v.hours = AddMaps(TodayHours(c.by.hour, now), TodayHours(h.by.hour, now))
        /\ v.hourSource = AddMaps(TodaySources(c.by.hourSource, now), TodaySources(h.by.hourSource, now))
    BY <1>3, <1>4 DEF BuildView, ColdView
  <2>3. \A f : TodayHours(f, now) = TodayOf(f, "hour", now) BY DEF TodayHours, TodayOf, IsHour
  <2>4. \A f : TodaySources(f, now) = TodayOf(f, "hourSource", now) BY DEF TodaySources, TodayOf, IsHour
  <2>5. "hour" \in HourDims /\ "hourSource" \in HourDims BY DEF HourDims
  <2> QED BY <2>1, <2>2, <2>3, <2>4, <2>5
<1>15. v.projectSource = RefKeys(l, "projectSource") /\ v.modelSource = RefKeys(logs, "modelSource")
  <2>1. {"projectSource", "modelSource"} \subseteq Dims \ HourDims BY DEF Dims, HourDims
  <2>2. /\ v.projectSource = {<<TitleOf(ps[1]), ps[2]>> :
                                 ps \in DOMAIN c.by.projectSource \cup DOMAIN h.by.projectSource}
        /\ v.modelSource = DOMAIN c.by.modelSource \cup DOMAIN h.by.modelSource
    BY <1>3, <1>4 DEF BuildView, ColdView
  <2>3. \A d \in Dims \ HourDims : DOMAIN c.by[d] \cup DOMAIN h.by[d] = RefKeys(logs, d)
    BY <1>6, <1>7 DEF RefBy, Parts
  <2>4. v.projectSource = {<<TitleOf(ps[1]), ps[2]>> : ps \in RefKeys(logs, "projectSource")}
    BY <2>1, <2>2, <2>3
  <2>5. {<<TitleOf(ps[1]), ps[2]>> : ps \in RefKeys(logs, "projectSource")} = RefKeys(l, "projectSource")
    <3>1. /\ DOMAIN l = DOMAIN logs
          /\ \A i \in DOMAIN logs : l[i].project = TitleOf(logs[i].project) /\ l[i].source = logs[i].source
      BY <1>0, <1>5, TitledIs
    <3>2. \A i \in DOMAIN logs : /\ KeyOf(logs[i])["projectSource"] = <<logs[i].project, logs[i].source>>
                                 /\ KeyOf(l[i])["projectSource"] = <<l[i].project, l[i].source>>
      BY DEF KeyOf
    <3>3. \A i \in DOMAIN logs : <<TitleOf(KeyOf(logs[i])["projectSource"][1]), KeyOf(logs[i])["projectSource"][2]>>
                                   = KeyOf(l[i])["projectSource"]
      BY <3>1, <3>2
    <3>4. PICK key : key = [i \in DOMAIN logs |-> KeyOf(logs[i])["projectSource"]] OBVIOUS
    <3>5. PICK lkey : lkey = [i \in DOMAIN logs |-> KeyOf(l[i])["projectSource"]] OBVIOUS
    <3>6. RefKeys(logs, "projectSource") = {key[i] : i \in DOMAIN logs} BY <3>4 DEF RefKeys
    <3>7. RefKeys(l, "projectSource") = {lkey[i] : i \in DOMAIN logs} BY <3>1, <3>5 DEF RefKeys
    <3>8. \A i \in DOMAIN logs : <<TitleOf(key[i][1]), key[i][2]>> = lkey[i] BY <3>3, <3>4, <3>5
    <3>9. PICK X : X = RefKeys(logs, "projectSource") OBVIOUS
    <3>10. PICK Y : Y = RefKeys(l, "projectSource") OBVIOUS
    <3>11. ASSUME NEW ps \in X PROVE <<TitleOf(ps[1]), ps[2]>> \in Y
      <4>1. PICK i \in DOMAIN logs : ps = key[i] BY <3>6, <3>9
      <4>2. lkey[i] \in Y BY <3>7, <3>10
      <4>3. <<TitleOf(key[i][1]), key[i][2]>> = lkey[i] BY <3>8
      <4> QED BY <4>1, <4>2, <4>3
    <3>12. ASSUME NEW y \in Y PROVE \E ps \in X : y = <<TitleOf(ps[1]), ps[2]>>
      <4>1. PICK i \in DOMAIN logs : y = lkey[i] BY <3>7, <3>10
      <4>2. key[i] \in X BY <3>6, <3>9
      <4>3. <<TitleOf(key[i][1]), key[i][2]>> = lkey[i] BY <3>8
      <4> QED BY <4>1, <4>2, <4>3
    <3>13. {<<TitleOf(ps[1]), ps[2]>> : ps \in X} = Y BY <3>11, <3>12
    <3> QED BY <3>9, <3>10, <3>13
  <2> QED BY <2>1, <2>2, <2>3, <2>4, <2>5
<1>16. ShowsExactly(v, logs, now)
  <2>1. v.hours = [k \in {k \in RefKeys(logs, "hour") : DayOf(k) = DayOf(now)} |-> RefAmount(logs, "hour", k)]
    BY <1>14 DEF RefToday, TodayKeys, IsHour
  <2>2. v.hourSource = [k \in {k \in RefKeys(logs, "hourSource") : DayOf(k[1]) = DayOf(now)} |->
                            RefAmount(logs, "hourSource", k)]
    BY <1>14 DEF RefToday, TodayKeys, IsHour
  <2>3. \A k \in RefKeys(logs, "hourSource") : k[1] \in RefKeys(logs, "hour") BY DEF RefKeys, KeyOf
  <2>4. {k \in RefKeys(logs, "hourSource") : DayOf(k[1]) = DayOf(now)}
           = {k \in RefKeys(logs, "hourSource") : k[1] \in {j \in RefKeys(logs, "hour") : DayOf(j) = DayOf(now)}}
    BY <2>3
  <2>6. \A w \in DOMAIN v.windows : v.windows[w] = RefWindow(logs, w, now) BY <1>9, <1>10
  <2>7. v.hourSource = [k \in {k \in RefKeys(logs, "hourSource") :
                                   k[1] \in {j \in RefKeys(logs, "hour") : DayOf(j) = DayOf(now)}} |->
                            RefAmount(logs, "hourSource", k)]
    BY <2>2, <2>4
  <2>8. /\ AmountsOf(v.project) = RefBy(TitledLogs(logs), "project")
        /\ v.projectSource = RefKeys(TitledLogs(logs), "projectSource")
    BY <1>5, <1>12, <1>15
  <2> QED BY <1>11, <1>12, <1>13, <1>15, <2>1, <2>6, <2>7, <2>8
          DEF ShowsExactly, AmountsOf, TitledLogs
<1> QED BY <1>1, <1>2, <1>3, <1>4, <1>16
=============================================================================
