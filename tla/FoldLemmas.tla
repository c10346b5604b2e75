------------------------------ MODULE FoldLemmas ------------------------------
(* Facts about numbers, finite sets, sequences and folds that the proofs of    *)
(* several components rest on. The induction theorems of the library take an   *)
(* operator as their parameter; here induction is taken over a set, from the   *)
(* fact that every set of natural numbers that is not empty has a least one.   *)
EXTENDS Integers, Sequences, FiniteSets, SequencesExt, FiniteSetTheorems,
        WellFoundedInduction, TLAPS

-----------------------------------------------------------------------------
\* Induction, with sets in place of predicates, and folds of sequences.

\* Every set of natural numbers that is not empty has a least element.
LEMMA Least ==
    ASSUME NEW T, T \subseteq Nat, T # {}
    PROVE  \E x \in T : \A y \in T : x <= y
<1>1. PICK x \in T : \A y \in T : ~ (<<y, x>> \in OpToRel(<, Nat))
  BY NatLessThanWellFounded, WFMin
<1>2. \A y \in T : ~ y < x
  BY <1>1 DEF OpToRel
<1>3. QED
  BY <1>2

\* What holds of 0 and goes on from each number to the next holds of them all.
LEMMA Induction ==
    ASSUME NEW S, 0 \in S, \A n \in Nat : n \in S => n + 1 \in S
    PROVE  Nat \subseteq S
<1>1. SUFFICES ASSUME Nat \ S # {} PROVE FALSE
  OBVIOUS
<1>2. PICK x \in Nat \ S : \A y \in Nat \ S : x <= y
  BY <1>1, Least
<1>3. x - 1 \in Nat
  BY <1>2
<1>4. x - 1 \in S
  BY <1>2, <1>3
<1>5. (x - 1) + 1 = x
  BY <1>2
<1>6. QED
  BY <1>2, <1>3, <1>4, <1>5

\* Max is the greatest element, of a set of numbers up to n.
LEMMA GreatestOfInterval ==
    ASSUME NEW n \in Nat, NEW d \in SUBSET (1 .. n), d # {}
    PROVE  Max(d) \in d /\ \A y \in d : y <= Max(d)
<1> DEFINE T == {n - y : y \in d}
<1>1. T \subseteq Nat /\ T # {}
  <2>1. \A y \in d : n - y \in Nat
    OBVIOUS
  <2>2. QED
    BY <2>1
<1>2. PICK x \in T : \A y \in T : x <= y
  BY <1>1, Least
<1>3. PICK m \in d : x = n - m
  BY <1>2
<1>4. \A y \in d : m >= y
  <2>1. TAKE y \in d
  <2>2. n - y \in T
    OBVIOUS
  <2>3. x <= n - y
    BY <1>2, <2>2
  <2>4. QED
    BY <1>3, <2>3
<1>5. QED
  BY <1>4 DEF Max

\* F folds elements of T from base, and stays in V.
Folds(V, T, base, F) == base \in V /\ F \in [V \X T -> V]

FoldType(V, T, base, F, s) == Folds(V, T, base, F) /\ s \in Seq(T)

\* g computes, as FoldLeft does, the fold of an operation that agrees with F on V.
Computes(g, V, F, base, s) ==
    /\ g = [d \in SUBSET DOMAIN s |-> g[d]]
    /\ g[{}] = base
    /\ \A d \in SUBSET DOMAIN s :
          d # {} /\ g[d \ {Max(d)}] \in V
          => g[d] = F[<<g[d \ {Max(d)}], s[Max(d)]>>]

\* g computes the fold of F itself.
IsFold(g, V, F, base, s) ==
    /\ g \in [SUBSET DOMAIN s -> V]
    /\ g[{}] = base
    /\ \A d \in SUBSET DOMAIN s :
          d # {} => g[d] = F[<<g[d \ {Max(d)}], s[Max(d)]>>]

\* There is a function that computes the fold of F over s.
LEMMA FoldExists ==
    ASSUME NEW V, NEW T, NEW base, NEW F, NEW s, FoldType(V, T, base, F, s)
    PROVE  \E g : IsFold(g, V, F, base, s)
<1> DEFINE
       Good(g, k) ==
        \A d \in SUBSET (1 .. k) :
            g[d] = IF d = {} THEN base ELSE F[<<g[d \ {Max(d)}], s[Max(d)]>>]
       Possible(k) == \E g \in [SUBSET (1 .. k) -> V] : Good(g, k)
       S == {k \in Nat : k <= Len(s) => Possible(k)}
<1>1. /\ base \in V /\ F \in [V \X T -> V] /\ s \in Seq(T)
      /\ Len(s) \in Nat /\ DOMAIN s = 1 .. Len(s)
  BY DEF FoldType, Folds
<1>2. 0 \in S
  <2>1. [d \in SUBSET (1 .. 0) |-> base] \in [SUBSET (1 .. 0) -> V]
    BY <1>1
  <2>2. Good([d \in SUBSET (1 .. 0) |-> base], 0)
    <3>1. \A d \in SUBSET (1 .. 0) : d = {}
      OBVIOUS
    <3>2. QED
      BY <3>1
  <2>3. QED
    BY <2>1, <2>2
<1>3. ASSUME NEW k \in Nat, k \in S PROVE k + 1 \in S
  <2>1. k + 1 \in Nat
    OBVIOUS
  <2>2. SUFFICES ASSUME k + 1 <= Len(s)
                 PROVE  Possible(k + 1)
    <3> HIDE DEF Possible
    <3> QED
      BY <2>1
  <2>3. Possible(k)
    <3> HIDE DEF Possible
    <3> QED
      BY <1>1, <1>3, <2>2
  <2>4. PICK g \in [SUBSET (1 .. k) -> V] : Good(g, k)
    BY <2>3
  <2> DEFINE h == [d \in SUBSET (1 .. k + 1) |->
                     IF k + 1 \in d THEN F[<<g[d \ {k + 1}], s[k + 1]>>] ELSE g[d]]
  <2>5. \A d \in SUBSET (1 .. k + 1) :
          /\ k + 1 \notin d => d \in SUBSET (1 .. k)
          /\ d \ {k + 1} \in SUBSET (1 .. k)
    OBVIOUS
  <2>6. s[k + 1] \in T
    BY <1>1, <2>2
  <2>7. h \in [SUBSET (1 .. k + 1) -> V]
    BY <1>1, <2>5, <2>6
  <2>8. ASSUME NEW d \in SUBSET (1 .. k + 1), d # {}
        PROVE  h[d] = F[<<h[d \ {Max(d)}], s[Max(d)]>>]
    <3>1. Max(d) \in d /\ \A y \in d : y <= Max(d)
      BY <2>1, <2>8, GreatestOfInterval
    <3>2. CASE k + 1 \in d
      <4>1. Max(d) = k + 1
        <5>1. Max(d) \in 1 .. k + 1 /\ k + 1 <= Max(d)
          BY <3>1, <3>2
        <5>2. QED
          BY <5>1
      <4>2. h[d] = F[<<g[d \ {k + 1}], s[k + 1]>>]
        BY <3>2
      <4>3. h[d \ {k + 1}] = g[d \ {k + 1}]
        BY <2>5
      <4>4. QED
        BY <4>1, <4>2, <4>3
    <3>3. CASE k + 1 \notin d
      <4>1. d \in SUBSET (1 .. k) /\ d \ {Max(d)} \in SUBSET (1 .. k)
        BY <2>5, <3>3
      <4>2. h[d] = g[d] /\ h[d \ {Max(d)}] = g[d \ {Max(d)}]
        BY <3>3, <4>1
      <4>3. g[d] = F[<<g[d \ {Max(d)}], s[Max(d)]>>]
        BY <2>4, <2>8, <4>1
      <4>4. QED
        BY <4>2, <4>3
    <3>4. QED
      BY <3>2, <3>3
  <2>9. h[{}] = base
    BY <2>4
  <2>10. Good(h, k + 1)
    BY <2>8, <2>9
  <2>11. QED
    BY <2>7, <2>10
<1>4. Possible(Len(s))
  <2> HIDE DEF Possible
  <2>1. Nat \subseteq S
    <3> HIDE DEF S
    <3> QED
      BY <1>2, <1>3, Induction
  <2>2. QED
    BY <1>1, <2>1
<1>5. PICK g \in [SUBSET (1 .. Len(s)) -> V] : Good(g, Len(s))
  BY <1>4
<1>6. IsFold(g, V, F, base, s)
  BY <1>1, <1>5 DEF IsFold
<1>7. QED
  BY <1>6

\* A function that computes what FoldLeft computes is the one that folds F.
LEMMA FoldIsUnique ==
    ASSUME NEW V, NEW T, NEW base, NEW F, NEW s, FoldType(V, T, base, F, s),
           NEW f, NEW g, IsFold(f, V, F, base, s), Computes(g, V, F, base, s)
    PROVE  g = f
<1> DEFINE Agree(k) == \A d \in SUBSET (1 .. k) : g[d] = f[d]
           S == {k \in Nat : k <= Len(s) => Agree(k)}
<1>1. Len(s) \in Nat /\ DOMAIN s = 1 .. Len(s)
  BY DEF FoldType
<1>2. /\ g = [d \in SUBSET DOMAIN s |-> g[d]]
      /\ g[{}] = base
      /\ \A d \in SUBSET DOMAIN s :
            d # {} /\ g[d \ {Max(d)}] \in V
            => g[d] = F[<<g[d \ {Max(d)}], s[Max(d)]>>]
  BY DEF Computes
<1>3. /\ f \in [SUBSET DOMAIN s -> V]
      /\ f[{}] = base
      /\ \A d \in SUBSET DOMAIN s :
            d # {} => f[d] = F[<<f[d \ {Max(d)}], s[Max(d)]>>]
  BY DEF IsFold
<1>4. 0 \in S
  <2>1. \A d \in SUBSET (1 .. 0) : d = {}
    OBVIOUS
  <2>2. QED
    BY <1>2, <1>3, <2>1
<1>5. ASSUME NEW k \in Nat, k \in S PROVE k + 1 \in S
  <2>1. k + 1 \in Nat
    OBVIOUS
  <2>2. SUFFICES ASSUME k + 1 <= Len(s)
                 PROVE  Agree(k + 1)
    <3> HIDE DEF Agree
    <3> QED
      BY <2>1
  <2>3. Agree(k)
    <3> HIDE DEF Agree
    <3> QED
      BY <1>1, <1>5, <2>2
  <2>4. SUFFICES ASSUME NEW d \in SUBSET (1 .. k + 1), d # {}
                 PROVE  g[d] = f[d]
    BY <1>2, <1>3
  <2>5. Max(d) \in d /\ \A y \in d : y <= Max(d)
    BY <2>1, <2>4, GreatestOfInterval
  <2>6. d \ {Max(d)} \in SUBSET (1 .. k)
    <3>1. ASSUME NEW y \in d, y # Max(d) PROVE y \in 1 .. k
      <4>1. y \in 1 .. k + 1 /\ Max(d) \in 1 .. k + 1 /\ y <= Max(d)
        BY <2>5
      <4>2. QED
        BY <3>1, <4>1
    <3>2. QED
      BY <3>1
  <2>7. g[d \ {Max(d)}] = f[d \ {Max(d)}]
    BY <2>3, <2>6
  <2>8. 1 .. k + 1 \subseteq DOMAIN s
    BY <1>1, <2>2
  <2>9. d \in SUBSET DOMAIN s /\ d \ {Max(d)} \in SUBSET DOMAIN s
    BY <2>8
  <2>10. f[d] = F[<<f[d \ {Max(d)}], s[Max(d)]>>] /\ f[d \ {Max(d)}] \in V
    BY <1>3, <2>4, <2>9
  <2>11. g[d] = F[<<g[d \ {Max(d)}], s[Max(d)]>>]
    BY <1>2, <2>4, <2>7, <2>9, <2>10
  <2>12. QED
    BY <2>7, <2>10, <2>11
<1>6. Agree(Len(s))
  <2> HIDE DEF Agree
  <2>1. Nat \subseteq S
    <3> HIDE DEF S
    <3> QED
      BY <1>4, <1>5, Induction
  <2>2. QED
    BY <1>1, <2>1
<1>7. f = [d \in SUBSET DOMAIN s |-> f[d]]
  BY <1>3
<1>8. QED
  BY <1>1, <1>2, <1>6, <1>7

\* The fold of F over s, from base.
Fold(V, F, base, s) == (CHOOSE g : IsFold(g, V, F, base, s))[DOMAIN s]

\* The function that folds F computes what FoldLeft computes.
LEMMA FoldComputes ==
    ASSUME NEW V, NEW base, NEW F, NEW s, NEW g, IsFold(g, V, F, base, s)
    PROVE  Computes(g, V, F, base, s)
<1>1. g = [d \in SUBSET DOMAIN s |-> g[d]]
  BY DEF IsFold
<1>2. QED
  BY <1>1 DEF IsFold, Computes

\* Whatever computes what FoldLeft computes returns the fold of F.
LEMMA FoldIs ==
    ASSUME NEW V, NEW T, NEW base, NEW F, NEW s, FoldType(V, T, base, F, s),
           NEW g, Computes(g, V, F, base, s)
    PROVE  /\ IsFold(g, V, F, base, s)
           /\ Fold(V, F, base, s) = g[DOMAIN s]
<1> DEFINE h == CHOOSE h : IsFold(h, V, F, base, s)
<1>1. IsFold(h, V, F, base, s)
  BY FoldExists
<1> HIDE DEF h
<1>2. g = h
  BY <1>1, FoldIsUnique
<1>3. QED
  BY <1>1, <1>2 DEF Fold, h

\* The fold of a sequence takes its elements from left to right.
LEMMA FoldLaws ==
    ASSUME NEW V, NEW T, NEW base, NEW F, Folds(V, T, base, F)
    PROVE  /\ Fold(V, F, base, <<>>) = base
           /\ \A s \in Seq(T) : Fold(V, F, base, s) \in V
           /\ \A s \in Seq(T), x \in T :
                 Fold(V, F, base, Append(s, x)) = F[<<Fold(V, F, base, s), x>>]
<1>1. \A s \in Seq(T) : FoldType(V, T, base, F, s)
  BY DEF FoldType
<1>2. ASSUME NEW s \in Seq(T) PROVE Fold(V, F, base, s) \in V
  <2>1. PICK f : IsFold(f, V, F, base, s)
    BY <1>1, FoldExists
  <2>2. Fold(V, F, base, s) = f[DOMAIN s]
    BY <1>1, <2>1, FoldComputes, FoldIs
  <2>3. QED
    BY <2>1, <2>2 DEF IsFold
<1>3. Fold(V, F, base, <<>>) = base
  <2> DEFINE e == <<>>
  <2>1. e \in Seq(T) /\ DOMAIN e = {}
    OBVIOUS
  <2> HIDE DEF e
  <2>2. PICK f : IsFold(f, V, F, base, e)
    BY <1>1, <2>1, FoldExists
  <2>3. Fold(V, F, base, e) = f[DOMAIN e]
    <3>1. FoldType(V, T, base, F, e)
      BY <1>1, <2>1
    <3>2. Computes(f, V, F, base, e)
      BY <2>2, FoldComputes
    <3>3. QED
      BY <3>1, <3>2, FoldIs
  <2>4. Fold(V, F, base, e) = base
    BY <2>1, <2>2, <2>3 DEF IsFold
  <2>5. QED
    BY <2>4 DEF e
<1>4. ASSUME NEW s \in Seq(T), NEW x \in T
      PROVE  Fold(V, F, base, Append(s, x)) = F[<<Fold(V, F, base, s), x>>]
  <2> DEFINE a == Append(s, x)  n == Len(s) + 1
  <2>1. /\ a \in Seq(T) /\ Len(s) \in Nat /\ n \in Nat
        /\ DOMAIN a = 1 .. n /\ DOMAIN s = 1 .. Len(s)
        /\ a[n] = x /\ \A i \in DOMAIN s : a[i] = s[i]
    OBVIOUS
  <2> HIDE DEF a
  <2>2. PICK f : IsFold(f, V, F, base, a)
    BY <1>1, <2>1, FoldExists
  <2>3. /\ f \in [SUBSET DOMAIN a -> V]
        /\ f[{}] = base
        /\ \A d \in SUBSET DOMAIN a :
              d # {} => f[d] = F[<<f[d \ {Max(d)}], a[Max(d)]>>]
    BY <2>2 DEF IsFold
  <2>4. Fold(V, F, base, a) = f[DOMAIN a]
    BY <1>1, <2>1, <2>2, FoldComputes, FoldIs
  <2>5. Max(DOMAIN a) = n
    <3>1. DOMAIN a # {} /\ DOMAIN a \in SUBSET (1 .. n) /\ n \in DOMAIN a
      BY <2>1
    <3>2. Max(DOMAIN a) \in DOMAIN a /\ \A y \in DOMAIN a : y <= Max(DOMAIN a)
      BY <2>1, <3>1, GreatestOfInterval
    <3>3. Max(DOMAIN a) \in 1 .. n /\ n <= Max(DOMAIN a)
      BY <2>1, <3>1, <3>2
    <3>4. QED
      BY <2>1, <3>3
  <2>6. f[DOMAIN a] = F[<<f[DOMAIN s], x>>]
    <3>1. DOMAIN a \ {n} = DOMAIN s /\ DOMAIN a # {} /\ DOMAIN a \in SUBSET DOMAIN a
      BY <2>1
    <3>2. QED
      BY <2>1, <2>3, <2>5, <3>1
  <2> DEFINE g == [d \in SUBSET DOMAIN s |-> f[d]]
  <2>7. ASSUME NEW d \in SUBSET DOMAIN s, d # {}
        PROVE  g[d] = F[<<g[d \ {Max(d)}], s[Max(d)]>>]
    <3>1. Max(d) \in DOMAIN s
      <4>1. d \in SUBSET (1 .. Len(s))
        BY <2>1
      <4>2. Max(d) \in d
        BY <2>1, <2>7, <4>1, GreatestOfInterval
      <4>3. QED
        BY <4>2
    <3>2. a[Max(d)] = s[Max(d)]
      BY <2>1, <3>1
    <3>3. d \in SUBSET DOMAIN a /\ d \ {Max(d)} \in SUBSET DOMAIN s
      BY <2>1
    <3>4. QED
      BY <2>3, <2>7, <3>2, <3>3
  <2>8. Fold(V, F, base, s) = g[DOMAIN s]
    <3>1. g = [d \in SUBSET DOMAIN s |-> g[d]] /\ g[{}] = base
      BY <2>3
    <3> HIDE DEF g
    <3>2. Computes(g, V, F, base, s)
      BY <2>7, <3>1 DEF Computes
    <3>3. QED
      BY <1>1, <3>2, FoldIs
  <2>9. g[DOMAIN s] = f[DOMAIN s]
    OBVIOUS
  <2>10. QED
    BY <2>4, <2>6, <2>8, <2>9 DEF a
<1>5. QED
  BY <1>2, <1>3, <1>4

\* What holds of the empty sequence and is kept by Append holds of every sequence.
LEMMA SeqInduction ==
    ASSUME NEW T, NEW S, <<>> \in S,
           \A s \in Seq(T), x \in T : s \in S => Append(s, x) \in S
    PROVE  Seq(T) \subseteq S
<1> DEFINE All(n) == \A s \in Seq(T) : Len(s) = n => s \in S
       N == {n \in Nat : All(n)}
<1>1. 0 \in N
  <2>1. \A s \in Seq(T) : Len(s) = 0 => s = <<>>
    OBVIOUS
  <2>2. QED
    BY <2>1
<1>2. ASSUME NEW n \in Nat, n \in N PROVE n + 1 \in N
  <2>1. SUFFICES ASSUME NEW s \in Seq(T), Len(s) = n + 1 PROVE s \in S
    OBVIOUS
  <2> DEFINE t == [i \in 1 .. n |-> s[i]]
  <2>2. t \in Seq(T) /\ Len(t) = n
    BY <2>1
  <2>3. s[n + 1] \in T /\ s = Append(t, s[n + 1])
    BY <2>1
  <2>4. t \in S
    BY <1>2, <2>2
  <2> HIDE DEF t
  <2>5. QED
    BY <2>2, <2>3, <2>4
<1>3. Nat \subseteq N
  <2> HIDE DEF N
  <2> QED
    BY <1>1, <1>2, Induction
<1>4. QED
  BY <1>3

\* The greatest of some indices of a sequence is an index of it.
LEMMA GreatestInSequence ==
    ASSUME NEW T, NEW s \in Seq(T), NEW d \in SUBSET DOMAIN s, d # {}
    PROVE  /\ Max(d) \in DOMAIN s
           /\ d \ {Max(d)} \in SUBSET DOMAIN s
           /\ s[Max(d)] \in T
<1>1. Len(s) \in Nat /\ DOMAIN s = 1 .. Len(s)
  OBVIOUS
<1>2. Max(d) \in d
  BY <1>1, GreatestOfInterval
<1>3. QED
  BY <1>2

-----------------------------------------------------------------------------
\* Elements of sequences.

\* The elements of a sequence, and of one with an element more.
LEMMA ToSetLaws ==
    ASSUME NEW T
    PROVE  /\ ToSet(<<>>) = {}
           /\ \A s \in Seq(T) : ToSet(s) \subseteq T
           /\ \A s \in Seq(T), x \in T : ToSet(Append(s, x)) = ToSet(s) \cup {x}
<1>1. ToSet(<<>>) = {}
  BY DEF ToSet
<1>2. ASSUME NEW s \in Seq(T) PROVE ToSet(s) \subseteq T
  BY DEF ToSet
<1>3. ASSUME NEW s \in Seq(T), NEW x \in T
      PROVE  ToSet(Append(s, x)) = ToSet(s) \cup {x}
  <2> DEFINE a == Append(s, x)
  <2>1. /\ Len(s) \in Nat /\ DOMAIN s = 1 .. Len(s) /\ DOMAIN a = 1 .. Len(s) + 1
        /\ a[Len(s) + 1] = x /\ \A i \in DOMAIN s : a[i] = s[i]
    OBVIOUS
  <2> HIDE DEF a
  <2>2. DOMAIN a = DOMAIN s \cup {Len(s) + 1}
    BY <2>1
  <2>3. ToSet(a) = ToSet(s) \cup {x}
    BY <2>1, <2>2 DEF ToSet
  <2>4. QED
    BY <2>3 DEF a
<1>4. QED
  BY <1>1, <1>2, <1>3

\* The elements of a sequence are its head and those of its tail.
LEMMA HeadTailLaws ==
    ASSUME NEW T, NEW s \in Seq(T), s # <<>>
    PROVE  ToSet(s) = {Head(s)} \cup ToSet(Tail(s))
<1> DEFINE t == Tail(s)
<1>1. /\ Len(s) \in Nat /\ DOMAIN s = 1 .. Len(s) /\ 1 \in DOMAIN s /\ Head(s) = s[1]
      /\ DOMAIN t = 1 .. Len(s) - 1 /\ \A i \in DOMAIN t : t[i] = s[i + 1]
  OBVIOUS
<1> HIDE DEF t
<1>2. \A i \in DOMAIN t : i + 1 \in DOMAIN s
  BY <1>1
<1>3. \A i \in DOMAIN s : i = 1 \/ (i - 1 \in DOMAIN t /\ t[i - 1] = s[i])
  BY <1>1
<1>4. ToSet(t) \subseteq ToSet(s) /\ Head(s) \in ToSet(s)
  BY <1>1, <1>2 DEF ToSet
<1>5. ToSet(s) \subseteq {Head(s)} \cup ToSet(t)
  BY <1>1, <1>3 DEF ToSet
<1>6. QED
  BY <1>4, <1>5 DEF t

\* SetToSeq, of no element and of one.
LEMMA SetToSeqLaws ==
    /\ SetToSeq({}) = <<>>
    /\ \A x : SetToSeq({x}) = <<x>>
<1>1. SetToSeq({}) = <<>>
  <2>1. Cardinality({}) = 0
    BY FS_EmptySet
  <2>2. <<>> \in [1 .. 0 -> {}] /\ IsInjective(<<>>)
    BY DEF IsInjective
  <2>3. \A f \in [1 .. 0 -> {}] : f = <<>>
    OBVIOUS
  <2>4. QED
    BY <2>1, <2>2, <2>3 DEF SetToSeq
<1>2. ASSUME NEW x PROVE SetToSeq({x}) = <<x>>
  <2>1. Cardinality({x}) = 1
    BY FS_Singleton
  <2>2. <<x>> \in [1 .. 1 -> {x}] /\ IsInjective(<<x>>)
    BY DEF IsInjective
  <2>3. \A f \in [1 .. 1 -> {x}] : f = <<x>>
    OBVIOUS
  <2>4. QED
    BY <2>1, <2>2, <2>3 DEF SetToSeq
<1>3. QED
  BY <1>1, <1>2

-----------------------------------------------------------------------------
\* Induction over finite sets, and sums.

\* What holds of the empty set and of a set with an element more holds of every
\* subset of a finite set.
LEMMA FinInduction ==
    ASSUME NEW D, IsFiniteSet(D), NEW S, {} \in S,
           \A T \in SUBSET D : \A x \in D \ T : T \in S => T \cup {x} \in S
    PROVE  SUBSET D \subseteq S
<1> DEFINE All(n) == \A T \in SUBSET D : Cardinality(T) = n => T \in S
           N == {n \in Nat : All(n)}
<1>1. \A T \in SUBSET D : IsFiniteSet(T) /\ Cardinality(T) \in Nat
  BY FS_Subset, FS_CardinalityType
<1>2. 0 \in N
  BY <1>1, FS_EmptySet
<1>3. ASSUME NEW n \in Nat, n \in N PROVE n + 1 \in N
  <2>1. SUFFICES ASSUME NEW T \in SUBSET D, Cardinality(T) = n + 1 PROVE T \in S
    OBVIOUS
  <2>2. PICK x : x \in T
    <3>1. T # {}
      BY <2>1, FS_EmptySet
    <3>2. QED
      BY <3>1
  <2>3. Cardinality(T \ {x}) = n
    <3>1. Cardinality(T \ {x}) = Cardinality(T) - 1
      BY <1>1, <2>2, FS_RemoveElement
    <3>2. QED
      BY <2>1, <3>1
  <2>4. T \ {x} \in SUBSET D /\ x \in D \ (T \ {x}) /\ T = (T \ {x}) \cup {x}
    BY <2>2
  <2>5. T \ {x} \in S
    BY <1>3, <2>3, <2>4
  <2>6. QED
    BY <2>4, <2>5
<1>4. Nat \subseteq N
  <2> HIDE DEF N
  <2> QED
    BY <1>2, <1>3, Induction
<1>5. QED
  BY <1>1, <1>4

\* The element that a sum over s starts from.
First(s) == CHOOSE x \in s : TRUE

\* g computes the sum of f over every subset of S.
IsSum(g, f, S) ==
    /\ g = [s \in SUBSET S |-> g[s]]
    /\ \A s \in SUBSET S : g[s] = IF s = {} THEN 0 ELSE f[First(s)] + g[s \ {First(s)}]

LEMMA FirstIn == ASSUME NEW s, s # {} PROVE First(s) \in s
BY DEF First

\* There is a function that computes the sums over the subsets of a finite set.
LEMMA SumExists ==
    ASSUME NEW S, IsFiniteSet(S), NEW f \in [S -> Int]
    PROVE  \E g \in [SUBSET S -> Int] : IsSum(g, f, S)
<1> DEFINE
       Up(n) == {s \in SUBSET S : Cardinality(s) <= n}
       Good(g, n) == \A s \in Up(n) :
            g[s] = IF s = {} THEN 0 ELSE f[First(s)] + g[s \ {First(s)}]
       N == {n \in Nat : \E g \in [Up(n) -> Int] : Good(g, n)}
<1>1. \A s \in SUBSET S : IsFiniteSet(s) /\ Cardinality(s) \in Nat
  BY FS_Subset, FS_CardinalityType
<1>2. \A s \in SUBSET S : s # {} =>
         /\ First(s) \in S
         /\ s \ {First(s)} \in SUBSET S
         /\ Cardinality(s \ {First(s)}) = Cardinality(s) - 1
  BY <1>1, FirstIn, FS_RemoveElement
<1>3. 0 \in N
  <2>1. \A s \in Up(0) : s = {}
    BY <1>1, FS_EmptySet
  <2>2. [s \in Up(0) |-> 0] \in [Up(0) -> Int] /\ Good([s \in Up(0) |-> 0], 0)
    BY <2>1
  <2>3. QED
    BY <2>2
<1>4. ASSUME NEW n \in Nat, n \in N PROVE n + 1 \in N
  <2>1. PICK g \in [Up(n) -> Int] : Good(g, n)
    BY <1>4
  <2> DEFINE h == [s \in Up(n + 1) |-> IF s \in Up(n) THEN g[s]
                                       ELSE f[First(s)] + g[s \ {First(s)}]]
  <2>2. \A s \in Up(n + 1) : s # {} => s \ {First(s)} \in Up(n)
    BY <1>1, <1>2
  <2>3. Up(n) \subseteq Up(n + 1) /\ {} \in Up(n)
    BY <1>1, FS_EmptySet
  <2>4. h \in [Up(n + 1) -> Int]
    <3>1. ASSUME NEW s \in Up(n + 1), s \notin Up(n)
          PROVE  f[First(s)] + g[s \ {First(s)}] \in Int
      <4>1. s # {} /\ s \in SUBSET S
        BY <2>3, <3>1
      <4>2. f[First(s)] \in Int /\ g[s \ {First(s)}] \in Int
        BY <1>2, <2>2, <3>1, <4>1
      <4>3. QED
        BY <4>2
    <3>2. QED
      BY <3>1
  <2>5. Good(h, n + 1)
    <3>1. SUFFICES ASSUME NEW s \in Up(n + 1)
                   PROVE  h[s] = IF s = {} THEN 0 ELSE f[First(s)] + h[s \ {First(s)}]
      OBVIOUS
    <3>2. CASE s = {}
      BY <2>1, <2>3, <3>2
    <3>3. CASE s # {}
      <4>1. s \ {First(s)} \in Up(n) /\ s \ {First(s)} \in Up(n + 1)
        BY <2>2, <2>3, <3>3
      <4>2. h[s \ {First(s)}] = g[s \ {First(s)}]
        BY <4>1
      <4>3. CASE s \in Up(n)
        BY <2>1, <3>3, <4>2, <4>3
      <4>4. CASE s \notin Up(n)
        BY <3>3, <4>2, <4>4
      <4>5. QED
        BY <4>3, <4>4
    <3>4. QED
      BY <3>2, <3>3
  <2>6. QED
    <3> HIDE DEF h, Good, Up
    <3> QED
      BY <2>4, <2>5
<1>5. Cardinality(S) \in N
  <2> HIDE DEF N
  <2> QED
    BY <1>1, <1>3, <1>4, Induction
<1>6. Up(Cardinality(S)) = SUBSET S
  BY <1>1, FS_Subset
<1>7. PICK g \in [Up(Cardinality(S)) -> Int] : Good(g, Cardinality(S))
  BY <1>5
<1>8. g \in [SUBSET S -> Int] /\ g = [s \in SUBSET S |-> g[s]]
  BY <1>6, <1>7
<1>9. IsSum(g, f, S)
  BY <1>6, <1>7, <1>8 DEF IsSum
<1>10. QED
  BY <1>8, <1>9

\* And it is the only one.
LEMMA SumIsUnique ==
    ASSUME NEW S, IsFiniteSet(S), NEW f, NEW g, NEW h, IsSum(g, f, S), IsSum(h, f, S)
    PROVE  g = h
<1> DEFINE N == {n \in Nat : \A s \in SUBSET S : Cardinality(s) = n => g[s] = h[s]}
<1>1. \A s \in SUBSET S : IsFiniteSet(s) /\ Cardinality(s) \in Nat
  BY FS_Subset, FS_CardinalityType
<1>2. 0 \in N
  BY <1>1, FS_EmptySet DEF IsSum
<1>3. ASSUME NEW n \in Nat, n \in N PROVE n + 1 \in N
  <2>1. SUFFICES ASSUME NEW s \in SUBSET S, Cardinality(s) = n + 1 PROVE g[s] = h[s]
    OBVIOUS
  <2>2. s # {} /\ First(s) \in s
    BY <2>1, FirstIn, FS_EmptySet
  <2>3. Cardinality(s \ {First(s)}) = n /\ s \ {First(s)} \in SUBSET S
    <3>1. Cardinality(s \ {First(s)}) = Cardinality(s) - 1
      BY <1>1, <2>2, FS_RemoveElement
    <3>2. QED
      BY <2>1, <3>1
  <2>4. g[s \ {First(s)}] = h[s \ {First(s)}]
    BY <1>3, <2>3
  <2>5. QED
    BY <2>2, <2>4 DEF IsSum
<1>4. \A s \in SUBSET S : g[s] = h[s]
  <2> HIDE DEF N
  <2>1. Nat \subseteq N
    BY <1>2, <1>3, Induction
  <2>2. QED
    BY <1>1, <2>1 DEF N
<1>5. QED
  BY <1>4 DEF IsSum

\* The sum over S is what a function that computes it says of S.
LEMMA SumIs ==
    ASSUME NEW S, IsFiniteSet(S), NEW f, NEW g, IsSum(g, f, S)
    PROVE  SumFunctionOnSet(f, S) = g[S]
<1> DEFINE
       iter == CHOOSE h : h = [s \in SUBSET S |->
                                 IF s = {} THEN 0
                                 ELSE f[CHOOSE x \in s : TRUE] + h[s \ {CHOOSE x \in s : TRUE}]]
<1>1. g = [s \in SUBSET S |->
             IF s = {} THEN 0
             ELSE f[CHOOSE x \in s : TRUE] + g[s \ {CHOOSE x \in s : TRUE}]]
  BY DEF IsSum, First
<1>2. iter = [s \in SUBSET S |->
             IF s = {} THEN 0
             ELSE f[CHOOSE x \in s : TRUE] + iter[s \ {CHOOSE x \in s : TRUE}]]
  BY <1>1
<1>3. SumFunctionOnSet(f, S) = iter[S]
  BY DEF SumFunctionOnSet, FoldFunctionOnSet, MapThenFoldSet
<1> HIDE DEF iter
<1>4. IsSum(iter, f, S)
  BY <1>2 DEF IsSum, First
<1>5. iter = g
  BY <1>4, SumIsUnique
<1>6. QED
  BY <1>3, <1>5

\* A sum over a finite set: of nothing, and of an element more.
LEMMA SumFromFirst ==
    ASSUME NEW S, IsFiniteSet(S), NEW f \in [S -> Int]
    PROVE  \A s \in SUBSET S :
              /\ SumFunctionOnSet(f, s) \in Int
              /\ s = {} => SumFunctionOnSet(f, s) = 0
              /\ s # {} => SumFunctionOnSet(f, s)
                             = f[First(s)] + SumFunctionOnSet(f, s \ {First(s)})
<1>1. PICK g \in [SUBSET S -> Int] : IsSum(g, f, S)
  BY SumExists
<1>2. ASSUME NEW s \in SUBSET S PROVE SumFunctionOnSet(f, s) = g[s]
  <2> DEFINE h == [t \in SUBSET s |-> g[t]]
  <2>1. \A t \in SUBSET s : t \in SUBSET S /\ t \ {First(t)} \in SUBSET s
    OBVIOUS
  <2>2. IsSum(h, f, s)
    BY <1>1, <2>1 DEF IsSum
  <2>3. IsFiniteSet(s) /\ h[s] = g[s]
    BY FS_Subset
  <2> HIDE DEF h
  <2>4. QED
    BY <2>2, <2>3, SumIs
<1>3. \A s \in SUBSET S : s # {} => s \ {First(s)} \in SUBSET S
  OBVIOUS
<1>4. QED
  BY <1>1, <1>2, <1>3 DEF IsSum

\* Any element may be the one that a sum starts from.
LEMMA SumRemove ==
    ASSUME NEW S, IsFiniteSet(S), NEW f \in [S -> Int],
           NEW s \in SUBSET S, NEW x \in s
    PROVE  SumFunctionOnSet(f, s) = f[x] + SumFunctionOnSet(f, s \ {x})
<1> DEFINE Sum(t) == SumFunctionOnSet(f, t)
           All(n) == \A t \in SUBSET S : Cardinality(t) = n =>
                        \A y \in t : Sum(t) = f[y] + Sum(t \ {y})
           N == {n \in Nat : All(n)}
<1>1. \A t \in SUBSET S : IsFiniteSet(t) /\ Cardinality(t) \in Nat
  BY FS_Subset, FS_CardinalityType
<1>2. \A t \in SUBSET S : Sum(t) \in Int /\ (t # {} => Sum(t) = f[First(t)] + Sum(t \ {First(t)}))
  BY SumFromFirst
<1> HIDE DEF Sum
<1>3. 0 \in N
  BY <1>1, FS_EmptySet
<1>4. ASSUME NEW n \in Nat, n \in N PROVE n + 1 \in N
  <2>1. SUFFICES ASSUME NEW t \in SUBSET S, Cardinality(t) = n + 1, NEW y \in t
                 PROVE  Sum(t) = f[y] + Sum(t \ {y})
    OBVIOUS
  <2>2. First(t) \in t
    BY FirstIn
  <2>3. Sum(t) = f[First(t)] + Sum(t \ {First(t)})
    BY <1>2
  <2>4. CASE y = First(t)
    BY <2>3, <2>4
  <2>5. CASE y # First(t)
    <3> DEFINE z == First(t)
    <3> HIDE DEF z
    <3>1. z \in t /\ z # y /\ Sum(t) = f[z] + Sum(t \ {z})
      BY <2>2, <2>3, <2>5 DEF z
    <3>2. Cardinality(t \ {z}) = n /\ Cardinality(t \ {y}) = n
      <4>1. /\ Cardinality(t \ {z}) = Cardinality(t) - 1
            /\ Cardinality(t \ {y}) = Cardinality(t) - 1
        BY <1>1, <3>1, FS_RemoveElement
      <4>2. QED
        BY <2>1, <4>1
    <3>3. Sum(t \ {z}) = f[y] + Sum((t \ {z}) \ {y})
      BY <1>4, <3>1, <3>2
    <3>4. Sum(t \ {y}) = f[z] + Sum((t \ {y}) \ {z})
      BY <1>4, <3>1, <3>2
    <3>5. Sum((t \ {z}) \ {y}) = Sum((t \ {y}) \ {z})
      <4>1. (t \ {z}) \ {y} = (t \ {y}) \ {z}
        OBVIOUS
      <4>2. QED
        BY <4>1
    <3>6. f[z] \in Int /\ f[y] \in Int /\ Sum((t \ {y}) \ {z}) \in Int
      BY <1>2, <3>1
    <3>7. \A a, b, c, d, e \in Int : d = b + c /\ e = a + c => a + d = b + e
      OBVIOUS
    <3>8. Sum(t \ {z}) \in Int /\ Sum(t \ {y}) \in Int
      BY <1>2
    <3>9. QED
      BY <3>1, <3>3, <3>4, <3>5, <3>6, <3>7, <3>8
  <2>6. QED
    BY <2>4, <2>5
<1>5. Nat \subseteq N
  <2> HIDE DEF N
  <2> QED
    BY <1>3, <1>4, Induction
<1>6. Sum(s) = f[x] + Sum(s \ {x})
  BY <1>1, <1>5
<1>7. QED
  BY <1>6 DEF Sum

\* Sums over the subsets of a finite set: of nothing, and of an element more.
LEMMA SumLaws ==
    ASSUME NEW S, IsFiniteSet(S), NEW f \in [S -> Int]
    PROVE  /\ SumFunctionOnSet(f, {}) = 0
           /\ \A s \in SUBSET S : SumFunctionOnSet(f, s) \in Int
           /\ \A s \in SUBSET S : \A x \in S \ s :
                 SumFunctionOnSet(f, s \cup {x}) = f[x] + SumFunctionOnSet(f, s)
<1>1. SumFunctionOnSet(f, {}) = 0 /\ \A s \in SUBSET S : SumFunctionOnSet(f, s) \in Int
  BY SumFromFirst
<1>2. ASSUME NEW s \in SUBSET S, NEW x \in S \ s
      PROVE  SumFunctionOnSet(f, s \cup {x}) = f[x] + SumFunctionOnSet(f, s)
  <2>1. s \cup {x} \in SUBSET S /\ x \in s \cup {x} /\ (s \cup {x}) \ {x} = s
    OBVIOUS
  <2>2. QED
    BY <2>1, SumRemove
<1>3. QED
  BY <1>1, <1>2

\* Equal terms have equal sums.
LEMMA SumCongruent ==
    ASSUME NEW S, IsFiniteSet(S), NEW R, IsFiniteSet(R), NEW T \in SUBSET (S \cap R),
           NEW f \in [S -> Int], NEW g \in [R -> Int], \A x \in T : f[x] = g[x]
    PROVE  SumFunctionOnSet(f, T) = SumFunctionOnSet(g, T)
<1> DEFINE N == {t \in SUBSET T : SumFunctionOnSet(f, t) = SumFunctionOnSet(g, t)}
<1>1. IsFiniteSet(T)
  BY FS_Subset
<1>2. {} \in N
  BY SumLaws
<1>3. ASSUME NEW t \in SUBSET T, NEW x \in T \ t, t \in N PROVE t \cup {x} \in N
  <2>1. SumFunctionOnSet(f, t \cup {x}) = f[x] + SumFunctionOnSet(f, t)
    BY SumLaws
  <2>2. SumFunctionOnSet(g, t \cup {x}) = g[x] + SumFunctionOnSet(g, t)
    BY SumLaws
  <2>3. QED
    BY <1>3, <2>1, <2>2
<1>4. T \in N
  <2> HIDE DEF N
  <2> QED
    BY <1>1, <1>2, <1>3, FinInduction
<1>5. QED
  BY <1>4

\* Terms that are no less have a sum that is no less.
LEMMA SumMonotone ==
    ASSUME NEW S, IsFiniteSet(S), NEW f \in [S -> Int], NEW g \in [S -> Int],
           \A x \in S : f[x] <= g[x]
    PROVE  \A s \in SUBSET S : SumFunctionOnSet(f, s) <= SumFunctionOnSet(g, s)
<1> DEFINE N == {t \in SUBSET S : SumFunctionOnSet(f, t) <= SumFunctionOnSet(g, t)}
<1>1. {} \in N
  BY SumLaws
<1>2. ASSUME NEW t \in SUBSET S, NEW x \in S \ t, t \in N PROVE t \cup {x} \in N
  <2>1. SumFunctionOnSet(f, t \cup {x}) = f[x] + SumFunctionOnSet(f, t)
    BY SumLaws
  <2>2. SumFunctionOnSet(g, t \cup {x}) = g[x] + SumFunctionOnSet(g, t)
    BY SumLaws
  <2>3. SumFunctionOnSet(f, t) \in Int /\ SumFunctionOnSet(g, t) \in Int
    BY SumLaws
  <2>4. f[x] \in Int /\ g[x] \in Int /\ f[x] <= g[x]
    OBVIOUS
  <2>5. QED
    BY <1>2, <2>1, <2>2, <2>3, <2>4
<1>3. SUBSET S \subseteq N
  <2> HIDE DEF N
  <2> QED
    BY <1>1, <1>2, FinInduction
<1>4. QED
  BY <1>3

\* More terms, none of which is negative, have a sum that is no less.
LEMMA SumOfMore ==
    ASSUME NEW S, IsFiniteSet(S), NEW f \in [S -> Nat], NEW s \in SUBSET S, NEW t \in SUBSET s
    PROVE  0 <= SumFunctionOnSet(f, t) /\ SumFunctionOnSet(f, t) <= SumFunctionOnSet(f, s)
<1> DEFINE Sum(u) == SumFunctionOnSet(f, u)
           D == s \ t
           N == {u \in SUBSET S : 0 <= Sum(u)}
           M == {u \in SUBSET D : Sum(t) <= Sum(t \cup u)}
<1>1. f \in [S -> Int]
  OBVIOUS
<1>2. /\ Sum({}) = 0
      /\ \A u \in SUBSET S : Sum(u) \in Int
      /\ \A u \in SUBSET S : \A x \in S \ u : Sum(u \cup {x}) = f[x] + Sum(u)
  BY <1>1, SumLaws
<1> HIDE DEF Sum
<1>3. SUBSET S \subseteq N
  <2>1. {} \in N
    BY <1>2
  <2>2. \A u \in SUBSET S : \A x \in S \ u : u \in N => u \cup {x} \in N
    BY <1>2
  <2> HIDE DEF N
  <2>3. QED
    BY <2>1, <2>2, FinInduction
<1>4. SUBSET D \subseteq M
  <2>1. {} \in M
    BY <1>2
  <2>2. ASSUME NEW u \in SUBSET D, NEW x \in D \ u, u \in M PROVE u \cup {x} \in M
    <3>1. t \cup (u \cup {x}) = (t \cup u) \cup {x} /\ x \in S \ (t \cup u) /\ t \cup u \in SUBSET S
      OBVIOUS
    <3>2. Sum(t \cup (u \cup {x})) = f[x] + Sum(t \cup u)
      BY <1>2, <3>1
    <3>3. f[x] \in Nat /\ Sum(t \cup u) \in Int /\ Sum(t) \in Int
      BY <1>2, <3>1
    <3>4. QED
      BY <2>2, <3>2, <3>3
  <2>3. IsFiniteSet(D)
    BY FS_Subset
  <2> HIDE DEF M, D
  <2>4. QED
    BY <2>1, <2>2, <2>3, FinInduction
<1>5. t \cup D = s
  OBVIOUS
<1>6. QED
  BY <1>3, <1>4, <1>5 DEF Sum

\* A factor of every term is one of the sum.
LEMMA SumScaled ==
    ASSUME NEW S, IsFiniteSet(S), NEW f \in [S -> Int], NEW w \in Int,
           NEW g \in [S -> Int], \A x \in S : g[x] = f[x] * w
    PROVE  SumFunctionOnSet(g, S) = SumFunctionOnSet(f, S) * w
<1> DEFINE N == {t \in SUBSET S : SumFunctionOnSet(g, t) = SumFunctionOnSet(f, t) * w}
<1>1. {} \in N
  BY SumLaws
<1>2. ASSUME NEW t \in SUBSET S, NEW x \in S \ t, t \in N PROVE t \cup {x} \in N
  <2>1. SumFunctionOnSet(f, t \cup {x}) = f[x] + SumFunctionOnSet(f, t)
    BY SumLaws
  <2>2. SumFunctionOnSet(g, t \cup {x}) = g[x] + SumFunctionOnSet(g, t)
    BY SumLaws
  <2>3. SumFunctionOnSet(f, t) \in Int
    BY SumLaws
  <2>4. \A a, b \in Int : (a + b) * w = a * w + b * w
    OBVIOUS
  <2>5. QED
    BY <1>2, <2>1, <2>2, <2>3, <2>4
<1>3. SUBSET S \subseteq N
  <2> HIDE DEF N
  <2> QED
    BY <1>1, <1>2, FinInduction
<1>4. QED
  BY <1>3

\* A constant term is summed as often as there are elements.
LEMMA SumOfConstant ==
    ASSUME NEW S, IsFiniteSet(S), NEW w \in Int, NEW f \in [S -> Int], \A x \in S : f[x] = w
    PROVE  SumFunctionOnSet(f, S) = Cardinality(S) * w
<1> DEFINE N == {t \in SUBSET S : SumFunctionOnSet(f, t) = Cardinality(t) * w}
<1>1. {} \in N
  BY SumLaws, FS_EmptySet
<1>2. ASSUME NEW t \in SUBSET S, NEW x \in S \ t, t \in N PROVE t \cup {x} \in N
  <2>1. SumFunctionOnSet(f, t \cup {x}) = f[x] + SumFunctionOnSet(f, t)
    BY SumLaws
  <2>2. IsFiniteSet(t) /\ Cardinality(t) \in Nat
    BY FS_Subset, FS_CardinalityType
  <2>3. Cardinality(t \cup {x}) = Cardinality(t) + 1
    BY <2>2, FS_AddElement
  <2>4. \A n \in Nat : (n + 1) * w = w + n * w
    OBVIOUS
  <2>5. QED
    BY <1>2, <2>1, <2>2, <2>3, <2>4
<1>3. SUBSET S \subseteq N
  <2> HIDE DEF N
  <2> QED
    BY <1>1, <1>2, FinInduction
<1>4. QED
  BY <1>3

\* A finite set of which a function makes numbers has an element of the greatest.
LEMMA GreatestOf ==
    ASSUME NEW S, IsFiniteSet(S), S # {}, NEW k \in [S -> Int]
    PROVE  \E x \in S : \A y \in S : k[x] >= k[y]
<1> DEFINE N == {t \in SUBSET S : t # {} => \E x \in t : \A y \in t : k[x] >= k[y]}
<1>1. {} \in N
  OBVIOUS
<1>2. ASSUME NEW t \in SUBSET S, NEW x \in S \ t, t \in N PROVE t \cup {x} \in N
  <2>1. CASE t = {}
    BY <2>1
  <2>2. CASE t # {}
    <3>1. PICK z \in t : \A y \in t : k[z] >= k[y]
      BY <1>2, <2>2
    <3>2. CASE k[x] >= k[z]
      BY <3>1, <3>2
    <3>3. CASE k[z] >= k[x]
      BY <3>1, <3>3
    <3>4. QED
      BY <3>2, <3>3
  <2>3. QED
    BY <2>1, <2>2
<1>3. SUBSET S \subseteq N
  <2> HIDE DEF N
  <2> QED
    BY <1>1, <1>2, FinInduction
<1>4. QED
  BY <1>3

\* A strict order of the elements of S.
Orders(R, S) ==
    /\ \A x, y \in S : x # y => <<x, y>> \in R \/ <<y, x>> \in R
    /\ \A x, y, z \in S : <<x, y>> \in R /\ <<y, z>> \in R => <<x, z>> \in R

\* A finite set that is ordered can be listed in its order.
LEMMA Sorted ==
    ASSUME NEW S, IsFiniteSet(S), NEW R, Orders(R, S)
    PROVE  \E s \in [1 .. Cardinality(S) -> S] :
              \A k, l \in 1 .. Cardinality(S) : k < l => <<s[k], s[l]>> \in R
<1> DEFINE Ends(t, m) == m \in t /\ \A y \in t : y # m => <<y, m>> \in R
           N == {t \in SUBSET S : t # {} => \E m \in t : Ends(t, m)}
           List(n, t) == \E s \in [1 .. n -> t] :
                            \A k, l \in 1 .. n : k < l => <<s[k], s[l]>> \in R
           M == {n \in Nat : \A t \in SUBSET S : Cardinality(t) = n => List(n, t)}
<1>1. SUBSET S \subseteq N
  <2>1. {} \in N
    OBVIOUS
  <2>2. ASSUME NEW t \in SUBSET S, NEW x \in S \ t, t \in N PROVE t \cup {x} \in N
    <3>1. CASE t = {}
      BY <3>1
    <3>2. CASE t # {}
      <4>1. PICK m \in t : Ends(t, m)
        BY <2>2, <3>2
      <4>2. CASE <<x, m>> \in R
        BY <4>1, <4>2
      <4>3. CASE <<m, x>> \in R
        <5>1. ASSUME NEW y \in t PROVE <<y, x>> \in R
          BY <4>1, <4>3 DEF Orders
        <5>2. Ends(t \cup {x}, x)
          BY <5>1
        <5>3. QED
          BY <5>2
      <4>4. QED
        BY <4>1, <4>2, <4>3, <2>2 DEF Orders
    <3>3. QED
      BY <3>1, <3>2
  <2> HIDE DEF N
  <2>3. QED
    BY <2>1, <2>2, FinInduction
<1>2. \A t \in SUBSET S : IsFiniteSet(t) /\ Cardinality(t) \in Nat
  BY FS_Subset, FS_CardinalityType
<1>3. 0 \in M
  <2>1. ASSUME NEW t \in SUBSET S PROVE List(0, t)
    <3> DEFINE e == <<>>
    <3>1. e \in [1 .. 0 -> t]
      OBVIOUS
    <3>2. \A k \in 1 .. 0 : FALSE
      OBVIOUS
    <3> HIDE DEF e
    <3>3. QED
      BY <3>1, <3>2
  <2> HIDE DEF List
  <2>2. QED
    BY <2>1
<1>4. ASSUME NEW n \in Nat, n \in M PROVE n + 1 \in M
  <2>1. SUFFICES ASSUME NEW t \in SUBSET S, Cardinality(t) = n + 1 PROVE List(n + 1, t)
    OBVIOUS
  <2>2. t # {}
    BY <2>1, FS_EmptySet
  <2>3. PICK m \in t : Ends(t, m)
    BY <1>1, <2>2
  <2>4. Cardinality(t \ {m}) = n
    <3>1. Cardinality(t \ {m}) = Cardinality(t) - 1
      BY <1>2, FS_RemoveElement
    <3>2. QED
      BY <2>1, <3>1
  <2>5. List(n, t \ {m})
    <3>1. t \ {m} \in SUBSET S
      OBVIOUS
    <3> HIDE DEF List
    <3>2. QED
      BY <1>4, <2>4, <3>1
  <2>6. PICK s \in [1 .. n -> t \ {m}] :
                \A k, l \in 1 .. n : k < l => <<s[k], s[l]>> \in R
    BY <2>5
  <2> DEFINE h == [k \in 1 .. n + 1 |-> IF k = n + 1 THEN m ELSE s[k]]
  <2>7. \A k \in 1 .. n + 1 : k # n + 1 => k \in 1 .. n
    OBVIOUS
  <2>8. h \in [1 .. n + 1 -> t]
    BY <2>6, <2>7
  <2>9. ASSUME NEW k \in 1 .. n + 1, NEW l \in 1 .. n + 1, k < l
        PROVE  <<h[k], h[l]>> \in R
    <3>1. k \in 1 .. n /\ k # n + 1
      BY <2>9
    <3>2. h[k] = s[k] /\ s[k] \in t \ {m}
      BY <2>6, <3>1
    <3>3. CASE l = n + 1
      BY <2>3, <3>2, <3>3
    <3>4. CASE l # n + 1
      <4>1. h[l] = s[l] /\ l \in 1 .. n
        BY <2>7, <3>4
      <4>2. QED
        BY <2>6, <2>9, <3>1, <3>2, <4>1
    <3>5. QED
      BY <3>3, <3>4
  <2> HIDE DEF h
  <2>10. QED
    BY <2>8, <2>9
<1>5. Cardinality(S) \in M
  <2> HIDE DEF M
  <2>1. Nat \subseteq M
    BY <1>3, <1>4, Induction
  <2>2. QED
    BY <1>2, <2>1
<1>6. QED
  BY <1>5

=============================================================================
