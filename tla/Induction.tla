------------------------------ MODULE Induction ------------------------------
(***************************************************************************)
(* Induction for proofs about the models' recursive functions.  The        *)
(* library's induction theorems speak of a predicate; those here speak of  *)
(* a set, so that a proof can name the set of the numbers (or of the       *)
(* finite sets) it has a claim about.                                      *)
(***************************************************************************)
EXTENDS Integers, SequencesExt, FiniteSetTheorems, WellFoundedInduction, TLAPS

LEMMA LessIsWellFounded == IsWellFoundedOn({p \in Nat \X Nat : p[1] < p[2]}, Nat)
<1>1. OpToRel(<, Nat) = {p \in Nat \X Nat : p[1] < p[2]} BY DEF OpToRel
<1> QED BY <1>1, NatLessThanWellFounded

LEMMA LeastNumber ==
    ASSUME NEW T, T \subseteq Nat, T # {}
    PROVE  \E x \in T : \A y \in T : x <= y
<1> DEFINE R == {p \in Nat \X Nat : p[1] < p[2]}
<1>1. IsWellFoundedOn(R, Nat) BY LessIsWellFounded
<1> HIDE DEF R
<1>2. PICK x \in T : \A y \in T : ~ (<<y, x>> \in R) BY <1>1, WFMin
<1>3. ASSUME NEW y \in T PROVE x <= y
  <2>1. x \in Nat /\ y \in Nat OBVIOUS
  <2>2. <<y, x>> \in R <=> y < x BY <2>1 DEF R
  <2> QED BY <1>2, <2>1, <2>2
<1> QED BY <1>3

\* A set that has 0, and with a number the next, has all of them.
LEMMA SetInduction ==
    ASSUME NEW S, 0 \in S, \A n \in Nat : n \in S => n + 1 \in S
    PROVE  Nat \subseteq S
<1> SUFFICES ASSUME Nat \ S # {} PROVE FALSE
  OBVIOUS
<1>1. PICK x \in Nat \ S : \A y \in Nat \ S : x <= y BY LeastNumber
<1>2. x # 0 /\ x - 1 \in Nat /\ (x - 1) + 1 = x BY <1>1
<1>3. x - 1 \in S BY <1>1, <1>2
<1> QED BY <1>2, <1>3

\* The same of the numbers up to k.
LEMMA BoundedInduction ==
    ASSUME NEW k \in Nat, NEW S, 0 \in S, \A n \in 0 .. k - 1 : n \in S => n + 1 \in S
    PROVE  0 .. k \subseteq S
<1> DEFINE T == {n \in Nat : n <= k => n \in S}
<1>1. 0 \in T OBVIOUS
<1>2. ASSUME NEW n \in Nat, n \in T PROVE n + 1 \in T
  <2>1. CASE n + 1 <= k
    <3>1. n \in 0 .. k - 1 /\ n <= k BY <2>1
    <3>2. n \in S BY <1>2, <3>1
    <3> QED BY <3>1, <3>2
  <2>2. CASE ~(n + 1 <= k) BY <2>2
  <2> QED BY <2>1, <2>2
<1> HIDE DEF T
<1>3. Nat \subseteq T BY <1>1, <1>2, SetInduction
<1> QED BY <1>3 DEF T


-----------------------------------------------------------------------------
(* Sequences and the sets of their elements *)

LEMMA RangeWithin ==
    ASSUME NEW S, NEW q \in Seq(S)
    PROVE  Range(q) \subseteq S /\ (q = <<>> <=> Range(q) = {})
<1>1. /\ DOMAIN q = 1 .. Len(q) /\ Len(q) \in Nat
      /\ \A i \in 1 .. Len(q) : q[i] \in S
  OBVIOUS
<1>2. Range(q) \subseteq S BY <1>1 DEF Range
<1>3. (q = <<>>) <=> (Len(q) = 0) OBVIOUS
<1>4. (Range(q) = {}) <=> (Len(q) = 0) BY <1>1 DEF Range
<1> QED BY <1>2, <1>3, <1>4

LEMMA RangeOfAppend ==
    ASSUME NEW S, NEW q \in Seq(S), NEW x \in S
    PROVE  Range(Append(q, x)) = Range(q) \cup {x}
<1>1. /\ Append(q, x) \in Seq(S) /\ Len(Append(q, x)) = Len(q) + 1 /\ Len(q) \in Nat
      /\ DOMAIN Append(q, x) = 1 .. Len(q) + 1 /\ DOMAIN q = 1 .. Len(q)
      /\ Append(q, x)[Len(q) + 1] = x /\ \A i \in 1 .. Len(q) : Append(q, x)[i] = q[i]
  OBVIOUS
<1>2. ASSUME NEW y \in Range(Append(q, x)) PROVE y \in Range(q) \cup {x}
  <2>1. PICK i \in 1 .. Len(q) + 1 : y = Append(q, x)[i] BY <1>1 DEF Range
  <2>2. i \in 1 .. Len(q) \/ i = Len(q) + 1 BY <1>1
  <2> QED BY <1>1, <2>1, <2>2 DEF Range
<1>3. ASSUME NEW y \in Range(q) PROVE y \in Range(Append(q, x))
  <2>1. PICK i \in 1 .. Len(q) : y = q[i] BY <1>1 DEF Range
  <2>2. i \in 1 .. Len(q) + 1 BY <1>1
  <2> QED BY <1>1, <2>1, <2>2 DEF Range
<1>4. x \in Range(Append(q, x))
  <2>1. Len(q) + 1 \in 1 .. Len(q) + 1 BY <1>1
  <2> QED BY <1>1, <2>1 DEF Range
<1> QED BY <1>2, <1>3, <1>4

LEMMA RangeOfConcat ==
    ASSUME NEW S, NEW p \in Seq(S), NEW q \in Seq(S)
    PROVE  Range(p \o q) = Range(p) \cup Range(q)
<1>1. /\ Len(p) \in Nat /\ Len(q) \in Nat /\ DOMAIN (p \o q) = 1 .. Len(p) + Len(q)
      /\ DOMAIN p = 1 .. Len(p) /\ DOMAIN q = 1 .. Len(q)
      /\ \A i \in 1 .. Len(p) + Len(q) : (p \o q)[i] = IF i <= Len(p) THEN p[i] ELSE q[i - Len(p)]
  OBVIOUS
<1>2. ASSUME NEW y \in Range(p \o q) PROVE y \in Range(p) \cup Range(q)
  <2>1. PICK i \in 1 .. Len(p) + Len(q) : y = (p \o q)[i] BY <1>1 DEF Range
  <2>2. CASE i <= Len(p)
    <3>1. i \in 1 .. Len(p) /\ y = p[i] BY <1>1, <2>1, <2>2
    <3> QED BY <1>1, <3>1 DEF Range
  <2>3. CASE ~(i <= Len(p))
    <3>1. i - Len(p) \in 1 .. Len(q) /\ y = q[i - Len(p)] BY <1>1, <2>1, <2>3
    <3> QED BY <1>1, <3>1 DEF Range
  <2> QED BY <2>2, <2>3
<1>3. ASSUME NEW y \in Range(p) PROVE y \in Range(p \o q)
  <2>1. PICK i \in 1 .. Len(p) : y = p[i] BY <1>1 DEF Range
  <2>2. i \in 1 .. Len(p) + Len(q) /\ y = (p \o q)[i] BY <1>1, <2>1
  <2> QED BY <1>1, <2>2 DEF Range
<1>4. ASSUME NEW y \in Range(q) PROVE y \in Range(p \o q)
  <2>1. PICK i \in 1 .. Len(q) : y = q[i] BY <1>1 DEF Range
  <2>2. i + Len(p) \in 1 .. Len(p) + Len(q) /\ ~(i + Len(p) <= Len(p)) /\ (i + Len(p)) - Len(p) = i
    BY <1>1
  <2>3. y = (p \o q)[i + Len(p)] BY <1>1, <2>1, <2>2
  <2> QED BY <1>1, <2>2, <2>3 DEF Range
<1> QED BY <1>2, <1>3, <1>4

\* The first of a sequence and the rest.
LEMMA RangeOfHeadTail ==
    ASSUME NEW S, NEW q \in Seq(S), q # <<>>
    PROVE  /\ Head(q) \in S /\ Tail(q) \in Seq(S) /\ Len(Tail(q)) = Len(q) - 1
           /\ Range(q) = {Head(q)} \cup Range(Tail(q))
<1>1. /\ Len(q) \in Nat /\ Len(q) >= 1 /\ DOMAIN q = 1 .. Len(q) /\ Head(q) = q[1] /\ Head(q) \in S
      /\ Tail(q) \in Seq(S) /\ Len(Tail(q)) = Len(q) - 1 /\ DOMAIN Tail(q) = 1 .. Len(q) - 1
      /\ \A i \in 1 .. Len(q) - 1 : Tail(q)[i] = q[i + 1]
  OBVIOUS
<1>2. ASSUME NEW y \in Range(q) PROVE y \in {Head(q)} \cup Range(Tail(q))
  <2>1. PICK i \in 1 .. Len(q) : y = q[i] BY <1>1 DEF Range
  <2>2. CASE i = 1 BY <1>1, <2>1, <2>2
  <2>3. CASE i # 1
    <3>1. i - 1 \in 1 .. Len(q) - 1 /\ (i - 1) + 1 = i BY <1>1, <2>3
    <3>2. y = Tail(q)[i - 1] BY <1>1, <2>1, <3>1
    <3> QED BY <1>1, <3>1, <3>2 DEF Range
  <2> QED BY <2>2, <2>3
<1>3. Head(q) \in Range(q) BY <1>1 DEF Range
<1>4. ASSUME NEW y \in Range(Tail(q)) PROVE y \in Range(q)
  <2>1. PICK i \in 1 .. Len(q) - 1 : y = q[i + 1] BY <1>1 DEF Range
  <2>2. i + 1 \in 1 .. Len(q) BY <1>1
  <2> QED BY <1>1, <2>1, <2>2 DEF Range
<1> QED BY <1>1, <1>2, <1>3, <1>4

\* A finite set in some order.
LEMMA RangeOfSetToSeq ==
    ASSUME NEW S, IsFiniteSet(S)
    PROVE  /\ SetToSeq(S) \in Seq(S) /\ Range(SetToSeq(S)) = S /\ (SetToSeq(S) = <<>> <=> S = {})
           /\ IsInjective(SetToSeq(S))
<1> DEFINE n == Cardinality(S)
<1>1. n \in Nat /\ ExistsBijection(1 .. n, S) BY FS_CardinalityType
<1>2. PICK g : g \in Bijection(1 .. n, S) BY <1>1 DEF ExistsBijection
<1>3. g \in [1 .. n -> S] /\ IsInjective(g) BY <1>2 DEF Bijection, Injection, IsInjective
<1>4. SetToSeq(S) \in [1 .. n -> S] /\ IsInjective(SetToSeq(S)) BY <1>3 DEF SetToSeq
<1> DEFINE f == SetToSeq(S)
<1> HIDE DEF f
<1>5. f \in [1 .. n -> S] /\ IsInjective(f) BY <1>4 DEF f
<1>6. f \in Injection(1 .. n, S) BY <1>5 DEF IsInjective, Injection
<1>7. f \in Surjection(1 .. n, S)
  <2>1. IsFiniteSet(1 .. n) /\ Cardinality(1 .. n) = n
    <3>1. Cardinality(1 .. n) = IF 1 > n THEN 0 ELSE n - 1 + 1 BY <1>1, FS_Interval
    <3>2. IsFiniteSet(1 .. n) BY <1>1, FS_Interval
    <3> QED BY <1>1, <3>1, <3>2
  <2> QED BY <1>6, <2>1, FS_Injection
<1>8. Range(f) = S BY <1>7 DEF Surjection, Range
<1>9. f \in Seq(S) BY <1>1, <1>5
<1>10. f = <<>> <=> S = {}
  <2>1. f = <<>> <=> Range(f) = {} BY <1>9, RangeWithin
  <2> QED BY <1>8, <2>1
<1> QED BY <1>5, <1>8, <1>9, <1>10 DEF f

\* Each order of a finite set.
LEMMA RangeOfOrder ==
    ASSUME NEW S, IsFiniteSet(S), NEW q \in SetToSeqs(S)
    PROVE  q \in Seq(S) /\ Range(q) = S /\ Len(q) = Cardinality(S)
<1>1. PICK n \in Nat : n = Cardinality(S) BY FS_CardinalityType
<1>2. q \in [1 .. n -> S] /\ \A a, b \in 1 .. n : a # b => q[a] # q[b] BY <1>1 DEF SetToSeqs
<1>3. q \in Injection(1 .. n, S) BY <1>2 DEF Injection, IsInjective
<1>4. Cardinality(1 .. n) = n
  <2>1. Cardinality(1 .. n) = IF 1 > n THEN 0 ELSE n - 1 + 1 BY FS_Interval
  <2> QED BY <2>1
<1>5. q \in Surjection(1 .. n, S) BY <1>1, <1>3, <1>4, FS_Injection
<1>6. Range(q) = S BY <1>5 DEF Surjection, Range
<1>7. q \in Seq(S) /\ Len(q) = n BY <1>2
<1> QED BY <1>1, <1>6, <1>7

\* A sequence, of whatever.
IsSeq(q) == q \in Seq(Range(q))

LEMMA SeqIsSeq ==
    ASSUME NEW S, NEW q \in Seq(S)
    PROVE  IsSeq(q)
<1>1. /\ Len(q) \in Nat /\ DOMAIN q = 1 .. Len(q)
      /\ q = [i \in 1 .. Len(q) |-> q[i]]
  OBVIOUS
<1>2. \A i \in 1 .. Len(q) : q[i] \in Range(q) BY <1>1 DEF Range
<1>3. q \in [1 .. Len(q) -> Range(q)] BY <1>1, <1>2
<1> QED BY <1>1, <1>3 DEF IsSeq

LEMMA EmptyIsSeq == IsSeq(<<>>) /\ Range(<<>>) = {}
<1>1. <<>> \in Seq({}) OBVIOUS
<1>2. Range(<<>>) = {} BY DEF Range
<1> QED BY <1>1, <1>2, SeqIsSeq

LEMMA ConcatIsSeq ==
    ASSUME NEW p, NEW q, IsSeq(p), IsSeq(q)
    PROVE  IsSeq(p \o q) /\ Range(p \o q) = Range(p) \cup Range(q)
<1> DEFINE S == Range(p) \cup Range(q)
<1>1. p \in Seq(S) /\ q \in Seq(S) BY DEF IsSeq
<1> HIDE DEF S
<1>2. p \o q \in Seq(S) BY <1>1
<1>3. IsSeq(p \o q) BY <1>2, SeqIsSeq
<1> QED BY <1>1, <1>3, RangeOfConcat

LEMMA AppendIsSeq ==
    ASSUME NEW q, NEW x, IsSeq(q)
    PROVE  /\ IsSeq(Append(q, x)) /\ Range(Append(q, x)) = Range(q) \cup {x}
           /\ Len(Append(q, x)) = Len(q) + 1 /\ Len(q) \in Nat
<1> DEFINE S == Range(q) \cup {x}
<1>1. q \in Seq(S) /\ x \in S BY DEF IsSeq
<1> HIDE DEF S
<1>2. Append(q, x) \in Seq(S) /\ Len(Append(q, x)) = Len(q) + 1 /\ Len(q) \in Nat BY <1>1
<1>3. Range(Append(q, x)) = Range(q) \cup {x} BY <1>1, RangeOfAppend
<1>4. IsSeq(Append(q, x)) BY <1>2, SeqIsSeq
<1> QED BY <1>2, <1>3, <1>4

LEMMA HeadTailIsSeq ==
    ASSUME NEW q, IsSeq(q), q # <<>>
    PROVE  /\ IsSeq(Tail(q)) /\ Range(q) = {Head(q)} \cup Range(Tail(q))
           /\ Len(Tail(q)) = Len(q) - 1 /\ Len(q) \in Nat
<1> DEFINE S == Range(q)
<1>1. q \in Seq(S) BY DEF IsSeq
<1> HIDE DEF S
<1>2. Tail(q) \in Seq(S) /\ Len(Tail(q)) = Len(q) - 1 /\ Len(q) \in Nat BY <1>1, RangeOfHeadTail
<1> QED BY <1>1, <1>2, RangeOfHeadTail, SeqIsSeq

\* Sequences one after the other, one step at a time.
Flattens(fl, qs, n) == \A i \in 1 .. n : fl[i] = IF i = 1 THEN qs[i] ELSE fl[i - 1] \o qs[i]

LEMMA FlattenSteps ==
    ASSUME NEW n \in Nat, n # 0, NEW qs, qs = [i \in 1 .. n |-> qs[i]]
    PROVE  \E fl : FlattenSeq(qs) = fl[n] /\ Flattens(fl, qs, n)
<1> DEFINE Rec(f, k) == f = [i \in 1 .. k |-> IF i = 1 THEN qs[i] ELSE f[i - 1] \o qs[i]]
           flatten == CHOOSE f : Rec(f, n)
<1>1. \E f : Rec(f, n)
  <2> DEFINE K == {k \in Nat : \E f : Rec(f, k)}
  <2>1. 0 \in K
    <3>1. Rec([i \in 1 .. 0 |-> qs[i]], 0) OBVIOUS
    <3> HIDE DEF Rec
    <3>2. \E f : Rec(f, 0) BY <3>1
    <3> QED BY <3>2
  <2>2. ASSUME NEW k \in Nat, k \in K PROVE k + 1 \in K
    <3>1. PICK f : Rec(f, k) BY <2>2
    <3> DEFINE g == [i \in 1 .. k + 1 |-> IF i <= k THEN f[i]
                                          ELSE IF k = 0 THEN qs[1] ELSE f[k] \o qs[k + 1]]
               h == [i \in 1 .. k + 1 |-> IF i = 1 THEN qs[i] ELSE g[i - 1] \o qs[i]]
    <3>2. ASSUME NEW i \in 1 .. k + 1 PROVE g[i] = h[i]
      <4>1. CASE i <= k
        <5>1. i \in 1 .. k /\ (i # 1 => i - 1 \in 1 .. k + 1 /\ i - 1 <= k) BY <4>1
        <5>2. g[i] = f[i] /\ (i # 1 => g[i - 1] = f[i - 1]) BY <4>1, <5>1
        <5>3. f[i] = IF i = 1 THEN qs[i] ELSE f[i - 1] \o qs[i] BY <3>1, <5>1
        <5>4. h[i] = IF i = 1 THEN qs[i] ELSE g[i - 1] \o qs[i] OBVIOUS
        <5> HIDE DEF g, h
        <5> QED BY <5>2, <5>3, <5>4
      <4>2. CASE ~(i <= k)
        <5>1. i = k + 1 /\ i - 1 = k /\ (i = 1 <=> k = 0) /\ (k # 0 => k \in 1 .. k + 1 /\ k <= k)
          BY <4>2
        <5>2. g[i] = IF k = 0 THEN qs[1] ELSE f[k] \o qs[k + 1] BY <4>2
        <5>3. k # 0 => g[k] = f[k] BY <5>1
        <5>4. h[i] = IF i = 1 THEN qs[i] ELSE g[i - 1] \o qs[i] OBVIOUS
        <5> HIDE DEF g, h
        <5> QED BY <5>1, <5>2, <5>3, <5>4
      <4> QED BY <4>1, <4>2
    <3>3. g = h BY <3>2
    <3> HIDE DEF g
    <3>4. Rec(g, k + 1) BY <3>3
    <3> HIDE DEF Rec
    <3>5. \E e : Rec(e, k + 1) BY <3>4
    <3> QED BY <3>5
  <2> HIDE DEF K
  <2>3. n \in K BY <2>1, <2>2, SetInduction
  <2> QED BY <2>3 DEF K
<1>2. Rec(flatten, n) BY <1>1
<1>3. FlattenSeq(qs) = flatten[n]
  <2>1. Len(qs) = n OBVIOUS
  <2> QED BY <2>1 DEF FlattenSeq
<1> HIDE DEF flatten
<1>4. Flattens(flatten, qs, n) BY <1>2 DEF Flattens
<1> QED BY <1>3, <1>4

\* Sequences one after the other.
LEMMA FlattenedSeq ==
    ASSUME NEW n \in Nat, NEW qs, qs = [i \in 1 .. n |-> qs[i]], \A i \in 1 .. n : IsSeq(qs[i])
    PROVE  /\ IsSeq(FlattenSeq(qs))
           /\ \A x : x \in Range(FlattenSeq(qs)) <=> \E i \in 1 .. n : x \in Range(qs[i])
<1>1. Len(qs) = n OBVIOUS
<1>2. CASE n = 0
  <2>1. qs = <<>> BY <1>2
  <2>2. FlattenSeq(qs) = <<>> BY <1>1, <1>2, <2>1 DEF FlattenSeq
  <2> QED BY <1>2, <2>2, EmptyIsSeq
<1>3. CASE n # 0
  <2>0. n # 0 BY <1>3
  <2>1. PICK flatten : FlattenSeq(qs) = flatten[n] /\ Flattens(flatten, qs, n)
    BY <2>0, FlattenSteps
  <2> DEFINE Good(k) == /\ IsSeq(flatten[k])
                        /\ \A x : x \in Range(flatten[k]) <=> \E i \in 1 .. k : x \in Range(qs[i])
             K == {k \in Nat : k = 0 \/ Good(k)}
  <2>4. 0 \in K OBVIOUS
  <2>5. ASSUME NEW k \in 0 .. n - 1, k \in K PROVE k + 1 \in K
    <3>1. CASE k = 0
      <4>1. 1 \in 1 .. n BY <1>3
      <4>2. flatten[1] = qs[1] BY <2>1, <4>1 DEF Flattens
      <4>3. \A x : x \in Range(flatten[1]) <=> \E i \in 1 .. 1 : x \in Range(qs[i]) BY <4>2
      <4>4. Good(1) BY <4>1, <4>2, <4>3
      <4> HIDE DEF Good
      <4> QED BY <3>1, <4>4
    <3>2. CASE k # 0
      <4>1. Good(k) BY <2>5, <3>2
      <4>2. k + 1 \in 1 .. n /\ k + 1 # 1 /\ (k + 1) - 1 = k BY <3>2
      <4>3. flatten[k + 1] = flatten[k] \o qs[k + 1] BY <2>1, <4>2 DEF Flattens
      <4>4. IsSeq(flatten[k]) /\ IsSeq(qs[k + 1]) BY <4>1, <4>2
      <4>5. /\ IsSeq(flatten[k + 1])
            /\ Range(flatten[k + 1]) = Range(flatten[k]) \cup Range(qs[k + 1])
        BY <4>3, <4>4, ConcatIsSeq
      <4>6. 1 .. k + 1 = (1 .. k) \cup {k + 1} BY <3>2
      <4>7. ASSUME NEW x
            PROVE x \in Range(flatten[k + 1]) <=> \E i \in 1 .. k + 1 : x \in Range(qs[i])
        BY <4>1, <4>5, <4>6
      <4>8. Good(k + 1) BY <4>5, <4>7
      <4> HIDE DEF Good
      <4> QED BY <4>8
    <3> QED BY <3>1, <3>2
  <2> HIDE DEF K
  <2>6. 0 .. n \subseteq K BY <2>4, <2>5, BoundedInduction
  <2>7. Good(n) BY <1>3, <2>6 DEF K
  <2> QED BY <2>1, <2>7
<1> QED BY <1>2, <1>3

\* Sequences gathered over a finite set, in whichever order the fold takes them.
Gathers(it, S, base, F) ==
    it = [s \in SUBSET S |-> IF s = {} THEN base
                             ELSE it[s \ {CHOOSE x \in s : TRUE}] \o F[CHOOSE x \in s : TRUE]]

LEMMA SomethingGathers ==
    ASSUME NEW S, IsFiniteSet(S), NEW base, NEW F
    PROVE  \E it : Gathers(it, S, base, F)
<1> DEFINE c(s)   == CHOOSE x \in s : TRUE
           Sub(k) == {s \in SUBSET S : Cardinality(s) <= k}
           Rec(f, k) == f = [s \in Sub(k) |-> IF s = {} THEN base ELSE f[s \ {c(s)}] \o F[c(s)]]
           K == {k \in Nat : \E f : Rec(f, k)}
<1>1. \A s \in SUBSET S : /\ IsFiniteSet(s) /\ Cardinality(s) \in Nat
                          /\ s # {} => c(s) \in s
                          /\ s # {} => s \ {c(s)} \in SUBSET S /\ Cardinality(s \ {c(s)}) = Cardinality(s) - 1
                          /\ Cardinality(s) = 0 => s = {}
  <2> SUFFICES ASSUME NEW s \in SUBSET S
               PROVE  /\ IsFiniteSet(s) /\ Cardinality(s) \in Nat
                      /\ s # {} => c(s) \in s
                      /\ s # {} => s \ {c(s)} \in SUBSET S /\ Cardinality(s \ {c(s)}) = Cardinality(s) - 1
                      /\ Cardinality(s) = 0 => s = {}
    OBVIOUS
  <2>1. IsFiniteSet(s) BY FS_Subset
  <2>2. Cardinality(s) \in Nat /\ (Cardinality(s) = 0 => s = {}) BY <2>1, FS_CardinalityType, FS_EmptySet
  <2>3. s # {} => c(s) \in s OBVIOUS
  <2>4. s # {} => s \ {c(s)} \in SUBSET S /\ Cardinality(s \ {c(s)}) = Cardinality(s) - 1
    <3> DEFINE x == c(s)
    <3>1. s # {} => x \in s BY <2>3
    <3> HIDE DEF x
    <3>2. s # {} => Cardinality(s \ {x}) = Cardinality(s) - 1 BY <2>1, <3>1, FS_RemoveElement
    <3>3. s # {} => s \ {x} \in SUBSET S /\ Cardinality(s \ {x}) = Cardinality(s) - 1 BY <3>2
    <3> QED BY <3>3 DEF x
  <2> HIDE DEF c
  <2> QED BY <2>1, <2>2, <2>3, <2>4
<1> HIDE DEF c
<1>2. 0 \in K
  <2> DEFINE f == [s \in Sub(0) |-> base]
  <2>1. \A s \in Sub(0) : s = {}
    <3> SUFFICES ASSUME NEW s \in Sub(0) PROVE s = {}
      OBVIOUS
    <3>1. s \in SUBSET S /\ Cardinality(s) <= 0 OBVIOUS
    <3>2. Cardinality(s) \in Nat /\ (Cardinality(s) = 0 => s = {}) BY <1>1, <3>1
    <3> QED BY <3>1, <3>2
  <2> HIDE DEF Sub
  <2> DEFINE g == [s \in Sub(0) |-> IF s = {} THEN base ELSE f[s \ {c(s)}] \o F[c(s)]]
  <2>2. ASSUME NEW s \in Sub(0) PROVE f[s] = g[s] BY <2>1
  <2>3. f = g BY <2>2
  <2>4. f = [s \in Sub(0) |-> IF s = {} THEN base ELSE f[s \ {c(s)}] \o F[c(s)]] BY <2>3
  <2> HIDE DEF f
  <2>5. Rec(f, 0) BY <2>4
  <2> HIDE DEF Rec
  <2> QED BY <2>5
<1>3. ASSUME NEW k \in Nat, k \in K PROVE k + 1 \in K
  <2>1. PICK f : Rec(f, k) BY <1>3
  <2> DEFINE g == [s \in Sub(k + 1) |-> IF s \in Sub(k) THEN f[s] ELSE f[s \ {c(s)}] \o F[c(s)]]
             h == [s \in Sub(k + 1) |-> IF s = {} THEN base ELSE g[s \ {c(s)}] \o F[c(s)]]
  <2>2. Sub(k) \subseteq Sub(k + 1)
    <3> SUFFICES ASSUME NEW s \in Sub(k) PROVE s \in Sub(k + 1)
      OBVIOUS
    <3>1. Cardinality(s) \in Nat /\ Cardinality(s) <= k BY <1>1
    <3>2. Cardinality(s) <= k + 1 BY <3>1
    <3> QED BY <3>2
  <2>3. {} \in Sub(k)
    <3>1. Cardinality({}) = 0 BY FS_EmptySet
    <3> QED BY <3>1
  <2>4. \A s \in Sub(k + 1) : s # {} => s \ {c(s)} \in Sub(k)
    <3> SUFFICES ASSUME NEW s \in Sub(k + 1), s # {} PROVE s \ {c(s)} \in Sub(k)
      OBVIOUS
    <3>1. /\ Cardinality(s) \in Nat /\ Cardinality(s) <= k + 1 /\ s \ {c(s)} \in SUBSET S
          /\ Cardinality(s \ {c(s)}) = Cardinality(s) - 1
      BY <1>1
    <3>2. Cardinality(s \ {c(s)}) <= k BY <3>1
    <3> QED BY <3>1, <3>2
  <2>5. \A s \in Sub(k) : f[s] = IF s = {} THEN base ELSE f[s \ {c(s)}] \o F[c(s)] BY <2>1
  <2> HIDE DEF Sub
  <2>6. \A s \in Sub(k) : g[s] = f[s] BY <2>2
  <2>7. ASSUME NEW s \in Sub(k + 1) PROVE g[s] = h[s]
    <3>1. s # {} => g[s \ {c(s)}] = f[s \ {c(s)}] BY <2>4, <2>6
    <3>2. h[s] = IF s = {} THEN base ELSE g[s \ {c(s)}] \o F[c(s)] OBVIOUS
    <3>3. g[s] = IF s \in Sub(k) THEN f[s] ELSE f[s \ {c(s)}] \o F[c(s)] OBVIOUS
    <3> HIDE DEF g, h
    <3> QED BY <2>3, <2>5, <3>1, <3>2, <3>3
  <2>8. g = h BY <2>7
  <2> HIDE DEF g
  <2>9. Rec(g, k + 1) BY <2>8
  <2> HIDE DEF Rec
  <2> QED BY <2>9
<1> HIDE DEF K
<1>4. Cardinality(S) \in K
  <2>1. Nat \subseteq K BY <1>2, <1>3, SetInduction
  <2> QED BY <1>1, <2>1
<1>5. Sub(Cardinality(S)) = SUBSET S
  <2>1. \A s \in SUBSET S : Cardinality(s) <= Cardinality(S) BY FS_Subset
  <2> QED BY <2>1
<1>6. PICK f : Rec(f, Cardinality(S)) BY <1>4 DEF K
<1>7. Gathers(f, S, base, F) BY <1>5, <1>6 DEF Gathers, c
<1> QED BY <1>7

LEMMA WhatGathers ==
    ASSUME NEW S, IsFiniteSet(S), NEW base, IsSeq(base), NEW F, \A x \in S : IsSeq(F[x]),
           NEW it, Gathers(it, S, base, F)
    PROVE  /\ IsSeq(it[S])
           /\ \A y : y \in Range(it[S]) <=> y \in Range(base) \/ \E x \in S : y \in Range(F[x])
<1> DEFINE Good(s) == /\ IsSeq(it[s])
                      /\ \A y : y \in Range(it[s]) <=> y \in Range(base) \/ \E x \in s : y \in Range(F[x])
           K == {k \in Nat : \A s \in SUBSET S : Cardinality(s) = k => Good(s)}
           c(s) == CHOOSE x \in s : TRUE
<1>1. \A s \in SUBSET S : it[s] = IF s = {} THEN base ELSE it[s \ {c(s)}] \o F[c(s)] BY DEF Gathers
<1>2. \A s \in SUBSET S : s # {} => c(s) \in s OBVIOUS
<1> HIDE DEF c
<1>3. 0 \in K
  <2> SUFFICES ASSUME NEW s \in SUBSET S, Cardinality(s) = 0 PROVE Good(s)
    OBVIOUS
  <2>1. s = {} BY FS_Subset, FS_EmptySet
  <2> QED BY <1>1, <2>1
<1>4. ASSUME NEW k \in Nat, k \in K PROVE k + 1 \in K
  <2> SUFFICES ASSUME NEW s \in SUBSET S, Cardinality(s) = k + 1 PROVE Good(s)
    OBVIOUS
  <2>1. IsFiniteSet(s) BY FS_Subset
  <2>2. s # {}
    <3>1. k + 1 # 0 OBVIOUS
    <3> QED BY <2>1, <3>1, FS_EmptySet
  <2> DEFINE x == c(s)
             r == s \ {x}
  <2>3. x \in s /\ x \in S /\ r \in SUBSET S /\ s = r \cup {x} BY <1>2, <2>2
  <2>4. Cardinality(r) = (k + 1) - 1
    <3>1. x \in s BY <2>3
    <3> HIDE DEF x
    <3>2. Cardinality(s \ {x}) = Cardinality(s) - 1 BY <2>1, <3>1, FS_RemoveElement
    <3> QED BY <3>2
  <2>5. Cardinality(r) = k BY <2>4
  <2>6. it[s] = it[r] \o F[x] BY <1>1, <2>2 DEF x
  <2> HIDE DEF r
  <2>7. Good(r) BY <1>4, <2>3, <2>5
  <2>8. IsSeq(it[r]) /\ IsSeq(F[x]) BY <2>3, <2>7
  <2>9. IsSeq(it[s]) /\ Range(it[s]) = Range(it[r]) \cup Range(F[x]) BY <2>6, <2>8, ConcatIsSeq
  <2> QED BY <2>3, <2>7, <2>9
<1> HIDE DEF K
<1>5. Nat \subseteq K BY <1>3, <1>4, SetInduction
<1>6. Cardinality(S) \in Nat BY FS_CardinalityType
<1>7. Good(S) BY <1>5, <1>6 DEF K
<1> QED BY <1>7

\* What a function with a finite domain takes for values.
LEMMA FiniteRange ==
    ASSUME NEW S, NEW f, IsFiniteSet(S), f = [x \in S |-> f[x]]
    PROVE  IsFiniteSet(Range(f))
<1>1. f \in Surjection(S, Range(f)) BY DEF Surjection, Range
<1> QED BY <1>1, FS_Surjection

-----------------------------------------------------------------------------
(* Greatest and least *)

LEMMA MaxOfBounded ==
    ASSUME NEW n \in Nat, NEW S, S \subseteq 0 .. n, S # {}
    PROVE  Max(S) \in S /\ \A y \in S : y <= Max(S)
<1> DEFINE T == {m \in Nat : n - m \in S}
<1>1. T # {}
  <2>1. PICK y \in S : TRUE OBVIOUS
  <2>2. n - y \in Nat /\ n - (n - y) = y OBVIOUS
  <2> QED BY <2>1, <2>2
<1>2. PICK x \in T : \A y \in T : x <= y
  <2>1. T \subseteq Nat OBVIOUS
  <2> HIDE DEF T
  <2> QED BY <1>1, <2>1, LeastNumber
<1>3. n - x \in S OBVIOUS
<1>4. ASSUME NEW y \in S PROVE y <= n - x
  <2>1. n - y \in Nat /\ n - (n - y) = y /\ y \in 0 .. n OBVIOUS
  <2>2. n - y \in T BY <2>1
  <2>3. x <= n - y BY <1>2, <2>2
  <2>4. x \in Nat OBVIOUS
  <2> QED BY <2>1, <2>3, <2>4
<1>5. \E m \in S : \A y \in S : m >= y
  <2>1. \A y \in S : n - x >= y BY <1>4
  <2> QED BY <1>3, <2>1
<1>6. Max(S) \in S /\ \A y \in S : Max(S) >= y BY <1>5 DEF Max
<1>7. \A y \in S : y \in Int OBVIOUS
<1> QED BY <1>6, <1>7

LEMMA MinOfOne ==
    ASSUME NEW x \in Int
    PROVE  Min({x}) = x
<1>1. \E y \in {x} : \A z \in {x} : y =< z OBVIOUS
<1>2. Min({x}) \in {x} BY <1>1 DEF Min
<1> QED BY <1>2

\* A set of sets that has {}, and with a set without one of its elements the set
\* itself, has all finite sets: whichever element a fold takes first.
LEMMA RemovalInduction ==
    ASSUME NEW F, NEW S, IsFiniteSet(S), {} \in F,
           \A T \in SUBSET S : T # {} => \E x \in T : T \ {x} \in F => T \in F
    PROVE  S \in F
<1> DEFINE K == {k \in Nat : \A T \in SUBSET S : Cardinality(T) = k => T \in F}
<1>1. 0 \in K
  <2> SUFFICES ASSUME NEW T \in SUBSET S, Cardinality(T) = 0 PROVE T \in F
    OBVIOUS
  <2>1. T = {} BY FS_Subset, FS_EmptySet
  <2> QED BY <2>1
<1>2. ASSUME NEW k \in Nat, k \in K PROVE k + 1 \in K
  <2> SUFFICES ASSUME NEW T \in SUBSET S, Cardinality(T) = k + 1 PROVE T \in F
    OBVIOUS
  <2>1. IsFiniteSet(T) BY FS_Subset
  <2>2. T # {}
    <3>1. k + 1 # 0 OBVIOUS
    <3> QED BY <2>1, <3>1, FS_EmptySet
  <2>3. PICK x \in T : T \ {x} \in F => T \in F BY <2>2
  <2>4. Cardinality(T \ {x}) = (k + 1) - 1 BY <2>1, <2>3, FS_RemoveElement
  <2>5. Cardinality(T \ {x}) = k /\ T \ {x} \in SUBSET S BY <2>4
  <2>6. T \ {x} \in F BY <1>2, <2>5
  <2> QED BY <2>3, <2>6
<1> HIDE DEF K
<1>3. Nat \subseteq K BY <1>1, <1>2, SetInduction
<1>4. Cardinality(S) \in K BY <1>3, FS_CardinalityType
<1> QED BY <1>4 DEF K

-----------------------------------------------------------------------------
(* Folds *)

\* A fold over a finite set S that takes C[s] of what is left, s, last.
IsFold(it, S, base, C, G) ==
    it = [s \in SUBSET S |-> IF s = {} THEN base ELSE G[<<C[s], it[s \ {C[s]}]>>]]

Chooses(C, S)   == \A s \in SUBSET S : s # {} => C[s] \in s
StaysIn(G, S, V)  == \A x \in S, v \in V : G[<<x, v>>] \in V

LEMMA SomeFold ==
    ASSUME NEW S, IsFiniteSet(S), NEW base, NEW G, NEW C, Chooses(C, S)
    PROVE  \E it : IsFold(it, S, base, C, G)
<1> USE DEF Chooses
<1> DEFINE Sub(k) == {s \in SUBSET S : Cardinality(s) <= k}
           Rec(f, k) == f = [s \in Sub(k) |-> IF s = {} THEN base ELSE G[<<C[s], f[s \ {C[s]}]>>]]
           K == {k \in Nat : \E f : Rec(f, k)}
<1>1. \A s \in SUBSET S : /\ IsFiniteSet(s) /\ Cardinality(s) \in Nat
                          /\ s # {} => s \ {C[s]} \in SUBSET S /\ Cardinality(s \ {C[s]}) = Cardinality(s) - 1
                          /\ Cardinality(s) = 0 => s = {}
  <2> SUFFICES ASSUME NEW s \in SUBSET S
               PROVE  /\ IsFiniteSet(s) /\ Cardinality(s) \in Nat
                      /\ s # {} => s \ {C[s]} \in SUBSET S /\ Cardinality(s \ {C[s]}) = Cardinality(s) - 1
                      /\ Cardinality(s) = 0 => s = {}
    OBVIOUS
  <2>1. IsFiniteSet(s) BY FS_Subset
  <2>2. Cardinality(s) \in Nat /\ (Cardinality(s) = 0 => s = {}) BY <2>1, FS_CardinalityType, FS_EmptySet
  <2>3. s # {} => Cardinality(s \ {C[s]}) = Cardinality(s) - 1 BY <2>1, FS_RemoveElement
  <2> QED BY <2>1, <2>2, <2>3
<1>2. 0 \in K
  <2> DEFINE f == [s \in Sub(0) |-> base]
  <2>1. \A s \in Sub(0) : s = {}
    <3> SUFFICES ASSUME NEW s \in Sub(0) PROVE s = {}
      OBVIOUS
    <3>1. s \in SUBSET S /\ Cardinality(s) <= 0 OBVIOUS
    <3>2. Cardinality(s) \in Nat /\ (Cardinality(s) = 0 => s = {}) BY <1>1, <3>1
    <3> QED BY <3>1, <3>2
  <2> HIDE DEF Sub
  <2> DEFINE g == [s \in Sub(0) |-> IF s = {} THEN base ELSE G[<<C[s], f[s \ {C[s]}]>>]]
  <2>2. ASSUME NEW s \in Sub(0) PROVE f[s] = g[s] BY <2>1
  <2>3. f = g BY <2>2
  <2>4. f = [s \in Sub(0) |-> IF s = {} THEN base ELSE G[<<C[s], f[s \ {C[s]}]>>]] BY <2>3
  <2> HIDE DEF f
  <2>5. Rec(f, 0) BY <2>4
  <2> HIDE DEF Rec
  <2> QED BY <2>5
<1>3. ASSUME NEW k \in Nat, k \in K PROVE k + 1 \in K
  <2>1. PICK f : Rec(f, k) BY <1>3
  <2> DEFINE g == [s \in Sub(k + 1) |-> IF s \in Sub(k) THEN f[s] ELSE G[<<C[s], f[s \ {C[s]}]>>]]
             h == [s \in Sub(k + 1) |-> IF s = {} THEN base ELSE G[<<C[s], g[s \ {C[s]}]>>]]
  <2>2. Sub(k) \subseteq Sub(k + 1)
    <3> SUFFICES ASSUME NEW s \in Sub(k) PROVE s \in Sub(k + 1)
      OBVIOUS
    <3>1. Cardinality(s) \in Nat /\ Cardinality(s) <= k BY <1>1
    <3>2. Cardinality(s) <= k + 1 BY <3>1
    <3> QED BY <3>2
  <2>3. {} \in Sub(k)
    <3>1. Cardinality({}) = 0 BY FS_EmptySet
    <3> QED BY <3>1
  <2>4. \A s \in Sub(k + 1) : s # {} => s \ {C[s]} \in Sub(k)
    <3> SUFFICES ASSUME NEW s \in Sub(k + 1), s # {} PROVE s \ {C[s]} \in Sub(k)
      OBVIOUS
    <3>1. /\ Cardinality(s) \in Nat /\ Cardinality(s) <= k + 1 /\ s \ {C[s]} \in SUBSET S
          /\ Cardinality(s \ {C[s]}) = Cardinality(s) - 1
      BY <1>1
    <3>2. Cardinality(s \ {C[s]}) <= k BY <3>1
    <3> QED BY <3>1, <3>2
  <2>5. \A s \in Sub(k) : f[s] = IF s = {} THEN base ELSE G[<<C[s], f[s \ {C[s]}]>>] BY <2>1
  <2> HIDE DEF Sub
  <2>6. \A s \in Sub(k) : g[s] = f[s] BY <2>2
  <2>7. ASSUME NEW s \in Sub(k + 1) PROVE g[s] = h[s]
    <3>1. s # {} => g[s \ {C[s]}] = f[s \ {C[s]}] BY <2>4, <2>6
    <3>2. h[s] = IF s = {} THEN base ELSE G[<<C[s], g[s \ {C[s]}]>>] OBVIOUS
    <3>3. g[s] = IF s \in Sub(k) THEN f[s] ELSE G[<<C[s], f[s \ {C[s]}]>>] OBVIOUS
    <3> HIDE DEF g, h
    <3> QED BY <2>3, <2>5, <3>1, <3>2, <3>3
  <2>8. g = h BY <2>7
  <2> HIDE DEF g
  <2>9. Rec(g, k + 1) BY <2>8
  <2> HIDE DEF Rec
  <2> QED BY <2>9
<1> HIDE DEF K
<1>4. Cardinality(S) \in K
  <2>1. Nat \subseteq K BY <1>2, <1>3, SetInduction
  <2> QED BY <1>1, <2>1
<1>5. Sub(Cardinality(S)) = SUBSET S
  <2>1. \A s \in SUBSET S : Cardinality(s) <= Cardinality(S) BY FS_Subset
  <2> QED BY <2>1
<1>6. PICK f : Rec(f, Cardinality(S)) BY <1>4 DEF K
<1>7. IsFold(f, S, base, C, G) BY <1>5, <1>6 DEF IsFold
<1> QED BY <1>7

\* What a fold does, step by step, and the values it has.
LEMMA FoldSteps ==
    ASSUME NEW S, IsFiniteSet(S), NEW V, NEW base \in V, NEW C, Chooses(C, S),
           NEW G, StaysIn(G, S, V), NEW it, IsFold(it, S, base, C, G)
    PROVE  /\ it[{}] = base
           /\ \A s \in SUBSET S : /\ it[s] \in V
                                  /\ s # {} => it[s] = G[<<C[s], it[s \ {C[s]}]>>]
<1> USE DEF Chooses, StaysIn
<1>1. \A s \in SUBSET S : it[s] = IF s = {} THEN base ELSE G[<<C[s], it[s \ {C[s]}]>>] BY DEF IsFold
<1> DEFINE F == {s \in SUBSET S : it[s] \in V}
<1>2. {} \in F BY <1>1
<1>3. ASSUME NEW T \in SUBSET S, T # {} PROVE \E x \in T : T \ {x} \in F => T \in F
  <2>1. C[T] \in T /\ C[T] \in S BY <1>3
  <2>2. ASSUME T \ {C[T]} \in F PROVE T \in F
    <3>1. it[T] = G[<<C[T], it[T \ {C[T]}]>>] /\ it[T \ {C[T]}] \in V BY <1>1, <1>3, <2>2
    <3> QED BY <2>1, <3>1
  <2> QED BY <2>1, <2>2
<1> HIDE DEF F
<1>4. ASSUME NEW s \in SUBSET S PROVE s \in F
  <2>1. IsFiniteSet(s) BY FS_Subset
  <2>2. \A T \in SUBSET s : T # {} => \E x \in T : T \ {x} \in F => T \in F BY <1>3
  <2> QED BY <1>2, <2>1, <2>2, RemovalInduction
<1> QED BY <1>1, <1>4 DEF F

-----------------------------------------------------------------------------
(* Sums *)

AddsIn(it, S, F) ==
    it = [s \in SUBSET S |-> IF s = {} THEN 0
                             ELSE F[CHOOSE x \in s : TRUE] + it[s \ {CHOOSE x \in s : TRUE}]]

\* The sum of the values that F has on S.
Total(F, S) == MapThenSumSet(LAMBDA x : F[x], S)

LEMMA SomethingAdds ==
    ASSUME NEW S, IsFiniteSet(S), NEW F, \A x \in S : F[x] \in Nat
    PROVE  /\ \E it : AddsIn(it, S, F)
           /\ \A it : AddsIn(it, S, F) => \A s \in SUBSET S : it[s] \in Nat
<1> DEFINE C == [s \in SUBSET S |-> CHOOSE x \in s : TRUE]
           G == [p \in S \X Nat |-> F[p[1]] + p[2]]
<1>1. \A s \in SUBSET S : s # {} => C[s] \in s OBVIOUS
<1>2. \A x \in S, v \in Nat : G[<<x, v>>] = F[x] + v /\ G[<<x, v>>] \in Nat OBVIOUS
<1>c. \A s \in SUBSET S : C[s] = CHOOSE x \in s : TRUE OBVIOUS
<1> HIDE DEF C, G
<1>ch. Chooses(C, S) BY <1>1 DEF Chooses
<1>3. PICK f : IsFold(f, S, 0, C, G) BY <1>ch, SomeFold
<1>4. /\ f[{}] = 0
      /\ \A s \in SUBSET S : /\ f[s] \in Nat
                             /\ s # {} => f[s] = G[<<C[s], f[s \ {C[s]}]>>]
  <2>1. PICK V : V = Nat OBVIOUS
  <2>2. PICK zero : zero = 0 OBVIOUS
  <2>3. StaysIn(G, S, V) BY <1>2, <2>1 DEF StaysIn
  <2>4. IsFold(f, S, zero, C, G) BY <1>3, <2>2
  <2>5. zero \in V BY <2>1, <2>2
  <2>6. /\ f[{}] = zero
        /\ \A s \in SUBSET S : /\ f[s] \in V
                               /\ s # {} => f[s] = G[<<C[s], f[s \ {C[s]}]>>]
    BY <1>ch, <2>3, <2>4, <2>5, FoldSteps
  <2> QED BY <2>1, <2>2, <2>6
<1> DEFINE h == [s \in SUBSET S |-> IF s = {} THEN 0 ELSE F[C[s]] + f[s \ {C[s]}]]
<1>5. ASSUME NEW s \in SUBSET S PROVE f[s] = h[s]
  <2>1. CASE s = {} BY <1>4, <2>1
  <2>2. CASE s # {}
    <3>1. C[s] \in S /\ f[s \ {C[s]}] \in Nat BY <1>1, <1>4, <2>2
    <3> QED BY <1>2, <1>4, <2>2, <3>1
  <2> QED BY <2>1, <2>2
<1>6. f = h BY <1>3, <1>5 DEF IsFold
<1>7. AddsIn(f, S, F) BY <1>6, <1>c DEF AddsIn
<1>8. ASSUME NEW it, AddsIn(it, S, F) PROVE \A s \in SUBSET S : it[s] \in Nat
  <2> DEFINE H == {s \in SUBSET S : it[s] \in Nat}
  <2>1. \A s \in SUBSET S : it[s] = IF s = {} THEN 0 ELSE F[C[s]] + it[s \ {C[s]}]
    BY <1>8, <1>c DEF AddsIn
  <2>2. {} \in H BY <2>1
  <2>3. ASSUME NEW T \in SUBSET S, T # {} PROVE \E x \in T : T \ {x} \in H => T \in H
    <3>1. C[T] \in T /\ C[T] \in S /\ it[T] = F[C[T]] + it[T \ {C[T]}] BY <1>1, <2>1, <2>3
    <3>2. T \ {C[T]} \in H => T \in H BY <3>1
    <3> QED BY <3>1, <3>2
  <2> HIDE DEF H
  <2>4. ASSUME NEW s \in SUBSET S PROVE s \in H
    <3>1. IsFiniteSet(s) BY FS_Subset
    <3>2. \A T \in SUBSET s : T # {} => \E x \in T : T \ {x} \in H => T \in H BY <2>3
    <3> QED BY <2>2, <3>1, <3>2, RemovalInduction
  <2> QED BY <2>4 DEF H
<1> QED BY <1>7, <1>8

LEMMA TotalIs ==
    ASSUME NEW S, IsFiniteSet(S), NEW F, \A x \in S : F[x] \in Nat
    PROVE  \E it : AddsIn(it, S, F) /\ Total(F, S) = it[S]
<1> DEFINE Rec(f) == f = [s \in SUBSET S |-> IF s = {} THEN 0
                             ELSE F[CHOOSE x \in s : TRUE] + f[s \ {CHOOSE x \in s : TRUE}]]
           it == CHOOSE f : Rec(f)
<1>1. Total(F, S) = it[S] BY DEF Total, MapThenSumSet, MapThenFoldSet
<1>2. \A f : Rec(f) <=> AddsIn(f, S, F) BY DEF AddsIn
<1>3. \E f : AddsIn(f, S, F) BY SomethingAdds
<1> HIDE DEF Rec
<1>4. Rec(it) BY <1>2, <1>3
<1> QED BY <1>1, <1>2, <1>4

\* The sum does not depend on which element is taken first.
LEMMA AddsInAnyOrder ==
    ASSUME NEW S, IsFiniteSet(S), NEW F, \A x \in S : F[x] \in Nat, NEW it, AddsIn(it, S, F)
    PROVE  it[{}] = 0 /\ \A s \in SUBSET S : \A x \in s : it[s] = F[x] + it[s \ {x}]
<1> DEFINE C == [s \in SUBSET S |-> CHOOSE x \in s : TRUE]
           H == {s \in SUBSET S : \A x \in s : it[s] = F[x] + it[s \ {x}]}
           K == {k \in Nat : \A s \in SUBSET S : Cardinality(s) = k => s \in H}
<1>1. \A s \in SUBSET S : it[s] \in Nat BY SomethingAdds
<1>2. \A s \in SUBSET S : s # {} => C[s] \in s OBVIOUS
<1>3. \A s \in SUBSET S : it[s] = IF s = {} THEN 0 ELSE F[C[s]] + it[s \ {C[s]}] BY DEF AddsIn
<1> HIDE DEF C
<1>4. 0 \in K
  <2> SUFFICES ASSUME NEW s \in SUBSET S, Cardinality(s) = 0 PROVE s \in H
    OBVIOUS
  <2>1. s = {} BY FS_Subset, FS_EmptySet
  <2> QED BY <2>1
<1>5. ASSUME NEW k \in Nat, k \in K PROVE k + 1 \in K
  <2> SUFFICES ASSUME NEW s \in SUBSET S, Cardinality(s) = k + 1, NEW x \in s
               PROVE  it[s] = F[x] + it[s \ {x}]
    OBVIOUS
  <2>1. IsFiniteSet(s) BY FS_Subset
  <2>2. \A y \in s : Cardinality(s \ {y}) = (k + 1) - 1 BY <2>1, FS_RemoveElement
  <2>3. \A y \in s : s \ {y} \in H BY <1>5, <2>2
  <2>4. CASE x = C[s] BY <1>3, <2>4
  <2>5. CASE x # C[s]
    <3>1. PICK c : c = C[s] OBVIOUS
    <3>2. c \in s /\ it[s] = F[c] + it[s \ {c}] BY <1>2, <1>3, <3>1
    <3>3. it[s \ {c}] = F[x] + it[(s \ {c}) \ {x}] BY <2>3, <2>5, <3>1, <3>2
    <3>4. it[s \ {x}] = F[c] + it[(s \ {x}) \ {c}] BY <2>3, <2>5, <3>1, <3>2
    <3>5. (s \ {c}) \ {x} = (s \ {x}) \ {c} /\ (s \ {c}) \ {x} \in SUBSET S OBVIOUS
    <3>6. PICK m \in Nat : m = it[(s \ {c}) \ {x}] BY <1>1, <3>5
    <3>7. F[x] \in Nat /\ F[c] \in Nat BY <3>2
    <3>8. it[s \ {c}] = F[x] + m /\ it[s \ {x}] = F[c] + m BY <3>3, <3>4, <3>5, <3>6
    <3> QED BY <3>2, <3>7, <3>8
  <2> QED BY <2>4, <2>5
<1> HIDE DEF K, H
<1>6. ASSUME NEW s \in SUBSET S PROVE s \in H
  <2>1. Nat \subseteq K BY <1>4, <1>5, SetInduction
  <2>2. Cardinality(s) \in Nat BY FS_Subset, FS_CardinalityType
  <2> QED BY <2>1, <2>2 DEF K
<1> QED BY <1>3, <1>6 DEF H

\* Two sums agree where what they add does.
LEMMA AddsAgree ==
    ASSUME NEW S, IsFiniteSet(S), NEW F, \A x \in S : F[x] \in Nat, NEW it, AddsIn(it, S, F),
           NEW S2, IsFiniteSet(S2), NEW F2, \A x \in S2 : F2[x] \in Nat, NEW it2, AddsIn(it2, S2, F2),
           NEW T, T \subseteq S, T \subseteq S2, \A x \in T : F[x] = F2[x]
    PROVE  it[T] = it2[T]
<1> DEFINE H == {s \in SUBSET T : it[s] = it2[s]}
<1>1. /\ it[{}] = 0 /\ it2[{}] = 0
      /\ \A s \in SUBSET S : \A x \in s : it[s] = F[x] + it[s \ {x}]
      /\ \A s \in SUBSET S2 : \A x \in s : it2[s] = F2[x] + it2[s \ {x}]
  <2>1. it[{}] = 0 /\ \A s \in SUBSET S : \A x \in s : it[s] = F[x] + it[s \ {x}]
    BY AddsInAnyOrder
  <2>2. it2[{}] = 0 /\ \A s \in SUBSET S2 : \A x \in s : it2[s] = F2[x] + it2[s \ {x}]
    BY AddsInAnyOrder
  <2> QED BY <2>1, <2>2
<1>2. {} \in H BY <1>1
<1>3. ASSUME NEW s \in SUBSET T, s # {} PROVE \E x \in s : s \ {x} \in H => s \in H
  <2>1. PICK x \in s : TRUE BY <1>3
  <2>2. it[s] = F[x] + it[s \ {x}] /\ it2[s] = F2[x] + it2[s \ {x}] /\ F[x] = F2[x] BY <1>1
  <2> QED BY <2>2
<1> HIDE DEF H
<1>4. T \in H
  <2>1. IsFiniteSet(T) BY FS_Subset
  <2> QED BY <1>2, <1>3, <2>1, RemovalInduction
<1> QED BY <1>4 DEF H

\* A sum, one element at a time.
LEMMA TotalSteps ==
    ASSUME NEW S, IsFiniteSet(S), NEW F, \A x \in S : F[x] \in Nat
    PROVE  /\ Total(F, S) \in Nat
           /\ S = {} => Total(F, S) = 0
           /\ \A x \in S : Total(F, S) = F[x] + Total(F, S \ {x})
<1>1. PICK it : AddsIn(it, S, F) /\ Total(F, S) = it[S] BY TotalIs
<1>2. it[{}] = 0 /\ \A x \in S : it[S] = F[x] + it[S \ {x}]
  <2>1. AddsIn(it, S, F) /\ S \in SUBSET S BY <1>1
  <2> QED BY <2>1, AddsInAnyOrder
<1>3. ASSUME NEW x \in S PROVE it[S \ {x}] = Total(F, S \ {x})
  <2>1. IsFiniteSet(S \ {x}) /\ \A y \in S \ {x} : F[y] \in Nat BY FS_Subset
  <2>2. PICK it2 : AddsIn(it2, S \ {x}, F) /\ Total(F, S \ {x}) = it2[S \ {x}] BY <2>1, TotalIs
  <2> QED BY <1>1, <2>1, <2>2, AddsAgree
<1>4. it[S] \in Nat BY <1>1, SomethingAdds
<1> QED BY <1>1, <1>2, <1>3, <1>4

LEMMA TotalAgrees ==
    ASSUME NEW S, IsFiniteSet(S), NEW F, NEW F2, \A x \in S : F[x] \in Nat /\ F2[x] = F[x]
    PROVE  Total(F2, S) = Total(F, S)
<1>1. PICK it : AddsIn(it, S, F) /\ Total(F, S) = it[S] BY TotalIs
<1>2. PICK it2 : AddsIn(it2, S, F2) /\ Total(F2, S) = it2[S] BY TotalIs
<1> QED BY <1>1, <1>2, AddsAgree

\* One element more.
LEMMA TotalWith ==
    ASSUME NEW S, IsFiniteSet(S), NEW x, x \notin S, NEW F, \A y \in S \cup {x} : F[y] \in Nat
    PROVE  Total(F, S \cup {x}) = F[x] + Total(F, S)
<1>1. IsFiniteSet(S \cup {x}) BY FS_AddElement
<1>2. (S \cup {x}) \ {x} = S OBVIOUS
<1> QED BY <1>1, <1>2, TotalSteps


\* The sum over S in two parts.
LEMMA TotalSplit ==
    ASSUME NEW S, IsFiniteSet(S), NEW T, T \subseteq S, NEW F, \A x \in S : F[x] \in Nat
    PROVE  Total(F, S) = Total(F, T) + Total(F, S \ T)
<1> DEFINE U == S \ T
           H == {s \in SUBSET U : Total(F, T \cup s) = Total(F, T) + Total(F, s)}
<1>1. /\ IsFiniteSet(T) /\ IsFiniteSet(U)
      /\ \A s \in SUBSET U : IsFiniteSet(s) /\ IsFiniteSet(T \cup s)
  <2>1. \A s \in SUBSET U : s \in SUBSET S /\ T \cup s \in SUBSET S OBVIOUS
  <2>2. T \in SUBSET S /\ U \in SUBSET S OBVIOUS
  <2> QED BY <2>1, <2>2, FS_Subset
<1>2. Total(F, T) \in Nat BY <1>1, TotalSteps
<1>3. Total(F, {}) = 0 BY FS_EmptySet, TotalSteps
<1>4. {} \in H
  <2>1. T \cup {} = T OBVIOUS
  <2> QED BY <1>2, <1>3, <2>1
<1>5. ASSUME NEW s \in SUBSET U, s # {} PROVE \E x \in s : s \ {x} \in H => s \in H
  <2>1. PICK x \in s : TRUE BY <1>5
  <2>2. x \notin T /\ x \in T \cup s /\ (T \cup s) \ {x} = T \cup (s \ {x}) BY <2>1
  <2>3. \A y \in T \cup s : F[y] \in Nat OBVIOUS
  <2>4. Total(F, T \cup s) = F[x] + Total(F, T \cup (s \ {x}))
    <3> DEFINE P == T \cup s
    <3>1. IsFiniteSet(P) /\ (\A y \in P : F[y] \in Nat) /\ x \in P BY <1>1, <2>2, <2>3
    <3> HIDE DEF P
    <3>2. Total(F, P) = F[x] + Total(F, P \ {x}) BY <3>1, TotalSteps
    <3> QED BY <2>2, <3>2 DEF P
  <2>5. Total(F, s) = F[x] + Total(F, s \ {x}) BY <1>1, <2>3, TotalSteps
  <2>6. Total(F, s \ {x}) \in Nat /\ F[x] \in Nat
    <3>1. IsFiniteSet(s \ {x}) /\ \A y \in s \ {x} : F[y] \in Nat BY <1>1
    <3> QED BY <3>1, <2>3, TotalSteps
  <2>7. ASSUME s \ {x} \in H PROVE s \in H
    BY <1>2, <2>4, <2>5, <2>6, <2>7
  <2> QED BY <2>7
<1> HIDE DEF H
<1>6. U \in H BY <1>1, <1>4, <1>5, RemovalInduction
<1>7. T \cup U = S OBVIOUS
<1> QED BY <1>6, <1>7 DEF H

\* The sum of two functions.
LEMMA TotalPlus ==
    ASSUME NEW S, IsFiniteSet(S), NEW F, NEW F1, NEW F2,
           \A x \in S : F1[x] \in Nat /\ F2[x] \in Nat /\ F[x] = F1[x] + F2[x]
    PROVE  Total(F, S) = Total(F1, S) + Total(F2, S)
<1> DEFINE H == {s \in SUBSET S : Total(F, s) = Total(F1, s) + Total(F2, s)}
<1>1. \A s \in SUBSET S : /\ IsFiniteSet(s)
                          /\ \A x \in s : F[x] \in Nat /\ F1[x] \in Nat /\ F2[x] \in Nat
  BY FS_Subset
<1>2. ASSUME NEW s \in SUBSET S, s = {} \/ \E x \in s : s \ {x} \in H PROVE s \in H
  <2>1. IsFiniteSet(s) /\ \A x \in s : F[x] \in Nat /\ F1[x] \in Nat /\ F2[x] \in Nat BY <1>1
  <2>2. /\ s = {} => Total(F, s) = 0
        /\ \A x \in s : Total(F, s) = F[x] + Total(F, s \ {x}) BY <2>1, TotalSteps
  <2>3. /\ s = {} => Total(F1, s) = 0 /\ Total(F1, s) \in Nat
        /\ \A x \in s : Total(F1, s) = F1[x] + Total(F1, s \ {x}) BY <2>1, TotalSteps
  <2>4. /\ s = {} => Total(F2, s) = 0 /\ Total(F2, s) \in Nat
        /\ \A x \in s : Total(F2, s) = F2[x] + Total(F2, s \ {x}) BY <2>1, TotalSteps
  <2>5. CASE s = {} BY <2>2, <2>3, <2>4, <2>5
  <2>6. ASSUME NEW x \in s, s \ {x} \in H PROVE s \in H
    <3>1. Total(F, s \ {x}) = Total(F1, s \ {x}) + Total(F2, s \ {x}) BY <2>6
    <3>2. IsFiniteSet(s \ {x}) /\ \A y \in s \ {x} : F1[y] \in Nat /\ F2[y] \in Nat BY <1>1
    <3>3. Total(F1, s \ {x}) \in Nat /\ Total(F2, s \ {x}) \in Nat BY <3>2, TotalSteps
    <3>4. F[x] = F1[x] + F2[x] /\ F1[x] \in Nat /\ F2[x] \in Nat OBVIOUS
    <3>5. /\ Total(F, s) = F[x] + Total(F, s \ {x}) /\ Total(F1, s) = F1[x] + Total(F1, s \ {x})
          /\ Total(F2, s) = F2[x] + Total(F2, s \ {x})
      BY <2>2, <2>3, <2>4, <2>6
    <3>6. Total(F, s) = Total(F1, s) + Total(F2, s)
      <4>1. PICK m \in Nat, n \in Nat : m = Total(F1, s \ {x}) /\ n = Total(F2, s \ {x}) BY <3>3
      <4>2. PICK a \in Nat, b \in Nat : a = F1[x] /\ b = F2[x] BY <3>4
      <4>3. Total(F, s) = (a + b) + (m + n) /\ Total(F1, s) = a + m /\ Total(F2, s) = b + n
        BY <3>1, <3>4, <3>5, <4>1, <4>2
      <4> QED BY <4>3
    <3> QED BY <3>6
  <2> QED BY <1>2, <2>5, <2>6
<1> HIDE DEF H
<1>3. S \in H
  <2>1. \A T \in SUBSET S : T # {} => \E x \in T : T \ {x} \in H => T \in H BY <1>2
  <2> QED BY <1>2, <2>1, RemovalInduction
<1> QED BY <1>3 DEF H

LEMMA TotalOfNothing ==
    ASSUME NEW S, IsFiniteSet(S), NEW F, \A x \in S : F[x] = 0
    PROVE  Total(F, S) = 0
<1> DEFINE H == {s \in SUBSET S : Total(F, s) = 0}
<1>1. \A s \in SUBSET S : IsFiniteSet(s) /\ \A x \in s : F[x] \in Nat BY FS_Subset
<1>2. {} \in H
  <2>1. Total(F, {}) = 0 BY FS_EmptySet, TotalSteps
  <2> QED BY <2>1
<1>3. ASSUME NEW s \in SUBSET S, s # {} PROVE \E x \in s : s \ {x} \in H => s \in H
  <2>1. PICK x \in s : TRUE BY <1>3
  <2>2. Total(F, s) = F[x] + Total(F, s \ {x})
    <3>1. IsFiniteSet(s) /\ \A y \in s : F[y] \in Nat BY <1>1
    <3> QED BY <3>1, TotalSteps
  <2> QED BY <2>1, <2>2
<1> HIDE DEF H
<1>4. S \in H BY <1>2, <1>3, RemovalInduction
<1> QED BY <1>4 DEF H

\* The sum over S, in groups by what g maps to.
Group(S, g, d) == {x \in S : g[x] = d}
InGroups(F, S, g, FD, D) == (\A x \in S : g[x] \in D) /\ \A d \in D : FD[d] = Total(F, Group(S, g, d))

LEMMA TotalInGroups ==
    ASSUME NEW S, IsFiniteSet(S), NEW F, \A x \in S : F[x] \in Nat,
           NEW D, IsFiniteSet(D), NEW g, NEW FD, InGroups(F, S, g, FD, D)
    PROVE  Total(F, S) = Total(FD, D)
<1> USE DEF InGroups
<1> DEFINE Of(T) == {x \in S : g[x] \in T}
           H == {T \in SUBSET D : Total(F, Of(T)) = Total(FD, T)}
<1>1. \A T : IsFiniteSet(Of(T)) /\ \A x \in Of(T) : F[x] \in Nat
  <2>1. \A T : Of(T) \in SUBSET S OBVIOUS
  <2> QED BY <2>1, FS_Subset
<1>2. \A d \in D : FD[d] \in Nat
  <2> SUFFICES ASSUME NEW d \in D PROVE Total(F, Group(S, g, d)) \in Nat
    OBVIOUS
  <2>1. Group(S, g, d) \in SUBSET S BY DEF Group
  <2>2. IsFiniteSet(Group(S, g, d)) BY <2>1, FS_Subset
  <2>3. \A x \in Group(S, g, d) : F[x] \in Nat BY <2>1
  <2> QED BY <2>2, <2>3, TotalSteps
<1>3. {} \in H
  <2>1. Of({}) = {} OBVIOUS
  <2>2. Total(F, {}) = 0 /\ Total(FD, {}) = 0 BY FS_EmptySet, TotalSteps
  <2> QED BY <2>1, <2>2
<1>4. ASSUME NEW T \in SUBSET D, T # {} PROVE \E d \in T : T \ {d} \in H => T \in H
  <2>1. PICK d \in T : TRUE BY <1>4
  <2>2. Of(T) \ Group(S, g, d) = Of(T \ {d}) /\ Group(S, g, d) \subseteq Of(T) BY DEF Group
  <2>3. Total(F, Of(T)) = FD[d] + Total(F, Of(T \ {d}))
    <3> DEFINE P == Group(S, g, d)
               Q == Of(T)
    <3>1. IsFiniteSet(Q) /\ (\A x \in Q : F[x] \in Nat) /\ P \subseteq Q BY <1>1, <2>2
    <3> HIDE DEF P, Q
    <3>2. Total(F, Q) = Total(F, P) + Total(F, Q \ P) BY <3>1, TotalSplit
    <3> QED BY <2>2, <3>2 DEF P, Q
  <2>4. IsFiniteSet(T) /\ \A e \in T : FD[e] \in Nat BY <1>2, FS_Subset
  <2>5. Total(FD, T) = FD[d] + Total(FD, T \ {d}) BY <2>4, TotalSteps
  <2> HIDE DEF Of
  <2> QED BY <2>3, <2>5
<1> HIDE DEF H
<1>5. D \in H BY <1>3, <1>4, RemovalInduction
<1>6. Of(D) = S OBVIOUS
<1> QED BY <1>5, <1>6 DEF H

=============================================================================
