--------------------------- MODULE SequenceLemmas ---------------------------
(***************************************************************************)
(* Facts about numbers, and about the operators of SequencesExt and        *)
(* FiniteSetsExt, that the proofs about several components use.            *)
(*                                                                         *)
(* Recursive functions are unfolded by induction, which here is the least  *)
(* number principle: the first number a claim is wrong for would have to   *)
(* be right.                                                               *)
(***************************************************************************)
EXTENDS SequencesExt, TLAPS, SequenceTheorems, FiniteSetTheorems, WellFoundedInduction

-----------------------------------------------------------------------------
(* Numbers *)

\* Every set of numbers has a least one; proofs by induction look at the least
\* number that is no instance.
LEMMA LeastNumber ==
  ASSUME NEW T, T \subseteq Nat, T # {}
  PROVE  \E n \in T : \A m \in T : n <= m
<1>1. \E n \in T : \A m \in T : <<m, n>> \notin OpToRel(<, Nat)
  BY NatLessThanWellFounded, WFMin
<1>2. \A m, n \in Nat : m < n => <<m, n>> \in OpToRel(<, Nat)
  BY DEF OpToRel
<1>3. PICK n \in T : \A m \in T : <<m, n>> \notin OpToRel(<, Nat)
  BY <1>1
<1>4. ASSUME NEW m \in T PROVE n <= m
  <2>1. n \in Nat /\ m \in Nat
    OBVIOUS
  <2>2. ~(m < n)
    BY <1>2, <1>3, <2>1
  <2> QED
    BY <2>1, <2>2
<1> QED
  BY <1>3, <1>4

\* What holds of no least number holds of all.
LEMMA Induction ==
  ASSUME NEW T, T \subseteq Nat,
         \A n \in T : \E m \in T : m < n
  PROVE  T = {}
<1> SUFFICES ASSUME T # {} PROVE FALSE
  OBVIOUS
<1>1. PICK n \in T : \A m \in T : n <= m
  BY LeastNumber
<1>2. PICK m \in T : m < n
  OBVIOUS
<1> QED
  BY <1>1, <1>2

\* The greatest of the numbers up to n + 1.
LEMMA MaxOfTop ==
  ASSUME NEW n \in Nat, NEW s \in SUBSET (1 .. n + 1), n + 1 \in s
  PROVE  Max(s) = n + 1
<1>1. \A y \in s : n + 1 >= y
  OBVIOUS
<1>2. \A x \in s : (\A y \in s : x >= y) => x = n + 1
  OBVIOUS
<1> QED
  BY <1>1, <1>2 DEF Max

\* A bounded set of numbers has a greatest one.
LEMMA MaxOfBounded ==
  ASSUME NEW s, s \subseteq Nat, s # {}, NEW n \in Nat, \A y \in s : y <= n
  PROVE  Max(s) \in s /\ \A y \in s : y <= Max(s)
<1>1. \E x \in s : \A y \in s : x >= y
  <2> DEFINE T == {k \in Nat : \A y \in s : k >= y}
  <2>1. n \in T
    OBVIOUS
  <2>2. PICK k \in T : \A m \in T : k <= m
    BY <2>1, LeastNumber
  <2>3. CASE k \in s
    BY <2>3
  <2>4. CASE k \notin s
    <3>1. \A y \in s : k >= y /\ y # k /\ y \in Nat /\ k \in Nat
      BY <2>4
    <3>2. \A y \in s : k - 1 >= y
      BY <3>1
    <3>3. k - 1 \in Nat
      <4>1. PICK y \in s : TRUE
        OBVIOUS
      <4> QED
        BY <3>1, <4>1
    <3>4. k - 1 \in T
      BY <3>2, <3>3
    <3> QED
      BY <3>4, <2>2
  <2> QED
    BY <2>3, <2>4
<1> QED
  BY <1>1 DEF Max

\* A finite set of numbers is bounded.
LEMMA MaxOfFinite ==
  ASSUME NEW s, s \subseteq Nat, s # {}, IsFiniteSet(s)
  PROVE  Max(s) \in s /\ \A y \in s : y <= Max(s)
<1>1. PICK n \in Nat : ExistsSurjection(1 .. n, s)
  BY FS_NatSurjection
<1>2. PICK f \in Surjection(1 .. n, s) : TRUE
  BY <1>1 DEF ExistsSurjection
<1>3. f \in [1 .. n -> s] /\ \A y \in s : \E i \in 1 .. n : f[i] = y
  BY <1>2 DEF Surjection
<1> DEFINE T == {k \in 0 .. n : ~ \E m \in Nat : \A i \in 1 .. k : f[i] <= m}
<1>4. T = {}
  <2>1. ASSUME NEW k \in T PROVE \E j \in T : j < k
    <3>1. k # 0
      <4>1. \A i \in 1 .. 0 : f[i] <= 0
        OBVIOUS
      <4> QED
        BY <4>1
    <3>2. k - 1 \in 0 .. n /\ k \in 1 .. n /\ k - 1 < k
      BY <3>1
    <3>3. SUFFICES ASSUME k - 1 \notin T PROVE FALSE
      BY <3>2
    <3>4. PICK m \in Nat : \A i \in 1 .. k - 1 : f[i] <= m
      BY <3>2, <3>3
    <3>5. f[k] \in Nat
      BY <1>3, <3>2
    <3>6. \A i \in 1 .. k : f[i] <= m + f[k]
      <4> TAKE i \in 1 .. k
      <4> HIDE DEF T
      <4>0. i \in 1 .. n
        BY <3>2
      <4>3. f[i] \in Nat
        BY <1>3, <4>0
      <4>1. CASE i = k
        BY <3>4, <3>5, <4>1, <4>3
      <4>2. CASE i # k
        <5>1. i \in 1 .. k - 1
          BY <4>2, <3>2
        <5>2. f[i] <= m
          BY <5>1, <3>4
        <5> QED
          BY <4>3, <5>2, <3>4, <3>5
      <4> QED
        BY <4>1, <4>2
    <3>7. m + f[k] \in Nat
      <4> HIDE DEF T
      <4> QED
        BY <3>5
    <3> QED
      BY <3>6, <3>7
  <2>2. T \subseteq Nat
    OBVIOUS
  <2> HIDE DEF T
  <2> QED
    BY <2>1, <2>2, Induction
<1>5. n \notin T
  BY <1>4
<1>6. PICK m \in Nat : \A i \in 1 .. n : f[i] <= m
  BY <1>5
<1>7. \A y \in s : y <= m
  BY <1>3, <1>6
<1> QED
  BY <1>7, MaxOfBounded

-----------------------------------------------------------------------------
(* Sequences behind each other *)

LEMMA ConcatFacts ==
  ASSUME NEW S, NEW s \in Seq(S), NEW u \in Seq(S)
  PROVE  s \o u \in Seq(S) /\ Len(s \o u) = Len(s) + Len(u)
  OBVIOUS

LEMMA AppendOfConcat ==
  ASSUME NEW S, NEW s \in Seq(S), NEW u \in Seq(S), NEW e \in S
  PROVE  s \o Append(u, e) = Append(s \o u, e)
<1>1. Append(u, e) = u \o <<e>> /\ Append(s \o u, e) = (s \o u) \o <<e>>
  BY ConcatFacts, AppendIsConcat
<1>2. <<e>> \in Seq(S)
  OBVIOUS
<1> QED
  BY <1>1, <1>2, ConcatAssociative

\* The function FlattenSeq computes the result with.
Flattens(f, seqs, n) ==
  f = [i \in 1 .. n |-> IF i = 1 THEN seqs[i] ELSE f[i - 1] \o seqs[i]]

\* There is such a function.
LEMMA FlattensExists ==
  ASSUME NEW seqs, NEW n \in Nat
  PROVE  \E f : Flattens(f, seqs, n)
<1> DEFINE T == {k \in Nat : ~ \E f : Flattens(f, seqs, k)}
<1>1. ASSUME NEW k \in T PROVE \E j \in T : j < k
  <2>1. k # 0
    <3> DEFINE f == [i \in 1 .. 0 |-> i]
    <3>1. Flattens(f, seqs, 0)
      BY DEF Flattens
    <3> HIDE DEF f
    <3> QED
      BY <3>1
  <2>2. k - 1 \in Nat
    BY <2>1
  <2>3. SUFFICES ASSUME k - 1 \notin T PROVE FALSE
    BY <2>2
  <2>4. PICK f : Flattens(f, seqs, k - 1)
    BY <2>2, <2>3
  <2> DEFINE g == [i \in 1 .. k |-> IF i = 1 THEN seqs[i] ELSE f[i - 1] \o seqs[i]]
  <2>5. \A i \in 1 .. k - 1 : g[i] = f[i]
    <3>1. \A i \in 1 .. k - 1 : i \in 1 .. k
      BY <2>2
    <3> HIDE DEF T
    <3> QED
      BY <3>1, <2>4 DEF Flattens
  <2>6. \A i \in 1 .. k : i # 1 => i - 1 \in 1 .. k - 1
    BY <2>2
  <2>7. g = [i \in 1 .. k |-> IF i = 1 THEN seqs[i] ELSE g[i - 1] \o seqs[i]]
    BY <2>5, <2>6
  <2> HIDE DEF g
  <2>8. Flattens(g, seqs, k)
    BY <2>7 DEF Flattens
  <2> QED
    BY <2>8
<1>2. T = {}
  <2> HIDE DEF T
  <2>1. T \subseteq Nat
    BY DEF T
  <2> QED
    BY <1>1, <2>1, Induction
<1> QED
  BY <1>2

Unfolded(f, seqs) ==
  /\ f[1] = seqs[1]
  /\ \A i \in 2 .. Len(seqs) : f[i] = f[i - 1] \o seqs[i]
  /\ FlattenSeq(seqs) = f[Len(seqs)]

LEMMA FlattenUnfolds ==
  ASSUME NEW seqs, Len(seqs) \in Nat \ {0}
  PROVE  \E f : Unfolded(f, seqs)
<1>1. Len(seqs) \in Nat /\ Len(seqs) # 0
  OBVIOUS
<1>2. PICK h : Flattens(h, seqs, Len(seqs))
  BY <1>1, FlattensExists
<1> DEFINE f == CHOOSE it : it = [i \in 1 .. Len(seqs) |->
                                    IF i = 1 THEN seqs[i] ELSE it[i - 1] \o seqs[i]]
<1>3. FlattenSeq(seqs) = f[Len(seqs)]
  BY <1>1 DEF FlattenSeq
<1>4. f = [i \in 1 .. Len(seqs) |-> IF i = 1 THEN seqs[i] ELSE f[i - 1] \o seqs[i]]
  BY <1>2 DEF Flattens
<1> HIDE DEF f
<1>5. \A i \in 2 .. Len(seqs) : i \in 1 .. Len(seqs) /\ i # 1
  OBVIOUS
<1>6. f[1] = seqs[1]
  BY <1>1, <1>4
<1>7. \A i \in 2 .. Len(seqs) : f[i] = f[i - 1] \o seqs[i]
  BY <1>4, <1>5
<1> QED
  BY <1>3, <1>6, <1>7 DEF Unfolded

LEMMA FlattenEmpty == FlattenSeq(<<>>) = <<>>
  BY DEF FlattenSeq

\* One more is put at the end.
LEMMA FlattenAppend ==
  ASSUME NEW S, NEW seqs \in Seq(Seq(S)), NEW e \in Seq(S)
  PROVE  /\ FlattenSeq(seqs) \in Seq(S)
         /\ FlattenSeq(Append(seqs, e)) = FlattenSeq(seqs) \o e
<1> DEFINE more == Append(seqs, e)
           n == Len(seqs)
<1>1. /\ more \in Seq(Seq(S)) /\ more # <<>> /\ Len(more) = n + 1 /\ n \in Nat
      /\ more[n + 1] = e /\ \A i \in 1 .. n : more[i] = seqs[i] /\ seqs[i] \in Seq(S)
  OBVIOUS
<1>2. seqs # <<>> => n # 0
  OBVIOUS
<1> HIDE DEF more
<1>3. PICK g : /\ g[1] = more[1]
               /\ \A i \in 2 .. n + 1 : g[i] = g[i - 1] \o more[i]
               /\ FlattenSeq(more) = g[n + 1]
  <2>1. \E g : Unfolded(g, more)
    <3>1. Len(more) \in Nat \ {0}
      BY <1>1
    <3> QED
      BY <3>1, FlattenUnfolds
  <2> QED
    BY <1>1, <2>1 DEF Unfolded
<1>4. CASE seqs = <<>>
  <2>1. n = 0
    BY <1>4
  <2>2. FlattenSeq(more) = e
    BY <1>1, <1>3, <2>1
  <2>3. <<>> \o e = e /\ <<>> \in Seq(S)
    OBVIOUS
  <2> QED
    BY <1>4, <2>2, <2>3, FlattenEmpty DEF more
<1>5. CASE seqs # <<>>
  <2>1. PICK f : /\ f[1] = seqs[1]
                 /\ \A i \in 2 .. n : f[i] = f[i - 1] \o seqs[i]
                 /\ FlattenSeq(seqs) = f[n]
    <3>1. \E f : Unfolded(f, seqs)
      <4>1. Len(seqs) \in Nat \ {0}
        BY <1>5
      <4> QED
        BY <4>1, FlattenUnfolds
    <3> QED
      BY <3>1 DEF Unfolded
  <2> HIDE DEF n
  <2> DEFINE T == {k \in 1 .. n : ~(f[k] = g[k] /\ f[k] \in Seq(S))}
  <2>2. ASSUME NEW k \in T PROVE \E j \in T : j < k
    <3>1. k \in 1 .. n /\ ~(f[k] = g[k] /\ f[k] \in Seq(S))
      OBVIOUS
    <3>2. k # 1
      BY <1>1, <1>3, <2>1, <3>1
    <3>3. k - 1 \in 1 .. n /\ k - 1 < k /\ k \in 2 .. n /\ k \in 2 .. n + 1
      BY <1>1, <3>1, <3>2
    <3>4. CASE k - 1 \in T
      BY <3>3, <3>4
    <3>5. CASE k - 1 \notin T
      <4>1. f[k - 1] = g[k - 1] /\ f[k - 1] \in Seq(S)
        BY <3>3, <3>5
      <4> HIDE DEF T
      <4>2. f[k] = f[k - 1] \o seqs[k] /\ g[k] = g[k - 1] \o more[k]
        BY <1>3, <2>1, <3>3
      <4>3. seqs[k] = more[k] /\ seqs[k] \in Seq(S)
        BY <1>1, <3>1
      <4>4. f[k - 1] \o seqs[k] \in Seq(S)
        BY <4>1, <4>3, ConcatFacts
      <4> QED
        BY <3>1, <4>1, <4>2, <4>3, <4>4
    <3> QED
      BY <3>4, <3>5
  <2>3. T = {}
    <3>1. T \subseteq Nat
      BY <1>1
    <3> HIDE DEF T
    <3> QED
      BY <2>2, <3>1, Induction
  <2>4. n \in 1 .. n /\ n + 1 \in 2 .. n + 1 /\ (n + 1) - 1 = n
    BY <1>1, <1>2, <1>5 DEF n
  <2>5. f[n] = g[n] /\ f[n] \in Seq(S)
    BY <2>3, <2>4
  <2>6. g[n + 1] = g[n] \o more[n + 1]
    BY <1>3, <2>4 DEF n
  <2> QED
    BY <1>1, <1>3, <2>1, <2>5, <2>6 DEF more
<1> QED
  BY <1>4, <1>5

LEMMA FlattenOne ==
  ASSUME NEW S, NEW e \in Seq(S)
  PROVE  FlattenSeq(<<e>>) = e
<1>1. <<e>> = Append(<<>>, e) /\ <<>> \o e = e /\ <<>> \in Seq(Seq(S))
  OBVIOUS
<1> QED
  BY <1>1, FlattenAppend, FlattenEmpty

\* Of two sequences, one behind the other.
LEMMA FlattenConcat ==
  ASSUME NEW S, NEW s \in Seq(Seq(S)), NEW u \in Seq(Seq(S))
  PROVE  /\ FlattenSeq(s \o u) = FlattenSeq(s) \o FlattenSeq(u)
         /\ FlattenSeq(s \o u) \in Seq(S)
<1> DEFINE Joins(v) == FlattenSeq(s \o v) = FlattenSeq(s) \o FlattenSeq(v)
           T == {k \in Nat : \E v \in Seq(Seq(S)) : Len(v) = k /\ ~Joins(v)}
<1>1. ASSUME NEW k \in T PROVE \E j \in T : j < k
  <2>1. PICK v \in Seq(Seq(S)) : Len(v) = k /\ ~Joins(v)
    OBVIOUS
  <2>2. CASE v = <<>>
    <3>1. s \o v = s /\ FlattenSeq(v) = <<>>
      BY <2>2, FlattenEmpty
    <3>2. FlattenSeq(s) \in Seq(S)
      BY FlattenAppend, <2>1
    <3>3. FlattenSeq(s) \o <<>> = FlattenSeq(s)
      BY <3>2
    <3> QED
      BY <2>1, <3>1, <3>3
  <2>3. CASE v # <<>>
    <3>1. PICK w \in Seq(Seq(S)), e \in Seq(S) : v = Append(w, e)
      BY <2>3, SequenceEmptyOrAppend
    <3>2. Len(w) \in Nat /\ Len(w) < k
      BY <2>1, <3>1
    <3>3. SUFFICES ASSUME Joins(w) PROVE FALSE
      BY <3>2
    <3> HIDE DEF T
    <3>4. s \o v = Append(s \o w, e) /\ s \o w \in Seq(Seq(S))
      BY <3>1, AppendOfConcat, ConcatFacts
    <3>5. FlattenSeq(s \o v) = FlattenSeq(s \o w) \o e
      BY <3>4, FlattenAppend
    <3>6. /\ FlattenSeq(v) = FlattenSeq(w) \o e
          /\ FlattenSeq(w) \in Seq(S) /\ FlattenSeq(s) \in Seq(S)
      BY <3>1, FlattenAppend
    <3>7. (FlattenSeq(s) \o FlattenSeq(w)) \o e = FlattenSeq(s) \o (FlattenSeq(w) \o e)
      BY <3>6, ConcatAssociative, SMTT(30)
    <3> QED
      BY <2>1, <3>3, <3>5, <3>6, <3>7
  <2> QED
    BY <2>2, <2>3
<1>2. T = {}
  <2>1. T \subseteq Nat
    OBVIOUS
  <2> HIDE DEF T
  <2> QED
    BY <1>1, <2>1, Induction
<1>3. Joins(u)
  <2>1. Len(u) \in Nat
    OBVIOUS
  <2> HIDE DEF Joins
  <2> QED
    BY <1>2, <2>1
<1>4. s \o u \in Seq(Seq(S))
  OBVIOUS
<1> QED
  BY <1>3, <1>4, FlattenAppend, EmptySeq
-----------------------------------------------------------------------------
(* Counting *)

\* At how many of the places S f has the value x.
HowMany(f, S, x) == Cardinality({i \in S : f[i] = x})

LEMMA HowManyNat ==
  ASSUME NEW S, IsFiniteSet(S), NEW f, NEW x
  PROVE  /\ HowMany(f, S, x) \in Nat
         /\ HowMany(f, S, x) = 0 <=> \A i \in S : f[i] # x
<1> DEFINE T == {i \in S : f[i] = x}
<1>1. IsFiniteSet(T)
  BY FS_Subset
<1>2. Cardinality(T) \in Nat /\ (Cardinality(T) = 0 <=> T = {})
  BY <1>1, FS_CardinalityType, FS_EmptySet
<1> QED
  BY <1>2 DEF HowMany

LEMMA HowManySame ==
  ASSUME NEW S, NEW f, NEW g, NEW x, \A i \in S : f[i] = x <=> g[i] = x
  PROVE  HowMany(f, S, x) = HowMany(g, S, x)
<1>1. {i \in S : f[i] = x} = {i \in S : g[i] = x}
  OBVIOUS
<1> QED
  BY <1>1 DEF HowMany

LEMMA HowManySplit ==
  ASSUME NEW S, IsFiniteSet(S), NEW T, T \subseteq S, NEW f, NEW x
  PROVE  HowMany(f, S, x) = HowMany(f, T, x) + HowMany(f, S \ T, x)
<1> DEFINE A == {i \in T : f[i] = x}
           B == {i \in S \ T : f[i] = x}
<1>1. IsFiniteSet(A) /\ IsFiniteSet(B)
  BY FS_Subset
<1>2. A \cap B = {} /\ A \cup B = {i \in S : f[i] = x}
  OBVIOUS
<1>3. Cardinality(A \cup B) = Cardinality(A) + Cardinality(B) - Cardinality(A \cap B)
  BY <1>1, FS_Union
<1>4. Cardinality(A \cap B) = 0
  BY <1>2, FS_EmptySet
<1>5. Cardinality(A) \in Nat /\ Cardinality(B) \in Nat
  BY <1>1, FS_CardinalityType
<1> QED
  BY <1>2, <1>3, <1>4, <1>5 DEF HowMany

LEMMA HowManyOne ==
  ASSUME NEW S, NEW f, NEW x, NEW a \in S, f[a] = x, \A i \in S : f[i] = x => i = a
  PROVE  HowMany(f, S, x) = 1
<1>1. {i \in S : f[i] = x} = {a}
  OBVIOUS
<1> QED
  BY <1>1, FS_Singleton DEF HowMany

\* Another value in one place.
LEMMA HowManyExcept ==
  ASSUME NEW S, IsFiniteSet(S), NEW f, NEW g, NEW a \in S, \A i \in S \ {a} : g[i] = f[i], NEW x
  PROVE  HowMany(g, S, x) + (IF f[a] = x THEN 1 ELSE 0) = HowMany(f, S, x) + (IF g[a] = x THEN 1 ELSE 0)
<1>1. {a} \subseteq S
  OBVIOUS
<1>2. HowMany(f, S, x) = HowMany(f, {a}, x) + HowMany(f, S \ {a}, x)
  BY <1>1, HowManySplit
<1>3. HowMany(g, S, x) = HowMany(g, {a}, x) + HowMany(g, S \ {a}, x)
  BY <1>1, HowManySplit
<1>4. HowMany(f, S \ {a}, x) = HowMany(g, S \ {a}, x)
  BY HowManySame
<1>5. ASSUME NEW u PROVE HowMany(u, {a}, x) = IF u[a] = x THEN 1 ELSE 0
  <2>1. CASE u[a] = x
    BY <2>1, HowManyOne
  <2>2. CASE u[a] # x
    <3>1. {i \in {a} : u[i] = x} = {}
      BY <2>2
    <3> QED
      BY <3>1, <2>2, FS_EmptySet DEF HowMany
  <2> QED
    BY <2>1, <2>2
<1>6. HowMany(f, S \ {a}, x) \in Nat
  <2>1. IsFiniteSet(S \ {a})
    BY FS_Subset
  <2> QED
    BY <2>1, HowManyNat
<1> QED
  BY <1>2, <1>3, <1>4, <1>5, <1>6

\* More places, more values.
LEMMA HowManySubset ==
  ASSUME NEW S, IsFiniteSet(S), NEW T, T \subseteq S, NEW f, NEW x
  PROVE  HowMany(f, T, x) <= HowMany(f, S, x)
<1>1. IsFiniteSet(T) /\ IsFiniteSet(S \ T)
  BY FS_Subset
<1> QED
  BY <1>1, HowManySplit, HowManyNat

\* A finite set of numbers has an n-th one, up to its size.
LEMMA NthExists ==
  ASSUME NEW A, A \subseteq Nat, IsFiniteSet(A), NEW n \in 1 .. Cardinality(A)
  PROVE  \E x \in A : Cardinality({y \in A : y <= x}) = n
<1> DEFINE T == {k \in 1 .. Cardinality(A) : ~ \E x \in A : Cardinality({y \in A : y <= x}) = k}
<1>0. Cardinality(A) \in Nat
  BY FS_CardinalityType
<1>1. ASSUME NEW k \in T PROVE \E j \in T : j < k
  <2> SUFFICES ASSUME \A j \in T : ~(j < k) PROVE FALSE
    OBVIOUS
  <2>1. k \in 1 .. Cardinality(A) /\ k \in Nat
    BY <1>0
  <2>3. CASE k = 1
    <3>1. A # {}
      BY <2>1, FS_EmptySet
    <3>2. PICK x \in A : \A m \in A : x <= m
      BY <3>1, LeastNumber
    <3>3. {y \in A : y <= x} = {x}
      <4>1. \A y \in A : y <= x => y = x
        BY <3>2
      <4>2. x <= x
        OBVIOUS
      <4> QED
        BY <4>1, <4>2
    <3>4. Cardinality({y \in A : y <= x}) = 1
      BY <3>3, FS_Singleton
    <3> QED
      BY <2>3, <3>4
  <2>4. CASE k # 1
    <3>1. k - 1 \in 1 .. Cardinality(A) /\ k - 1 < k
      BY <1>0, <2>1, <2>4
    <3>2. PICK x \in A : Cardinality({y \in A : y <= x}) = k - 1
      BY <3>1
    <3> DEFINE low == {y \in A : y <= x}
               high == A \ low
    <3>3. IsFiniteSet(low) /\ IsFiniteSet(high)
      BY FS_Subset
    <3>4. high # {}
      <4>1. SUFFICES ASSUME high = {} PROVE FALSE
        OBVIOUS
      <4>2. low = A
        BY <4>1
      <4>3. Cardinality(A) = k - 1
        BY <4>2, <3>2
      <4> HIDE DEF low, high, T
      <4> QED
        BY <4>3, <2>1, <1>0
    <3>5. PICK w \in high : \A m \in high : w <= m
      <4>1. high \subseteq Nat
        OBVIOUS
      <4> QED
        BY <4>1, <3>4, LeastNumber
    <3>6. {y \in A : y <= w} = low \cup {w}
      <4>1. x \in Nat /\ w \in Nat /\ w > x
        OBVIOUS
      <4>2. ASSUME NEW y \in A PROVE y <= w <=> y \in low \cup {w}
        <5>1. y \in Nat
          OBVIOUS
        <5>2. CASE y \in low
          BY <4>1, <5>1, <5>2
        <5>3. CASE y \notin low
          BY <3>5, <4>1, <5>1, <5>3
        <5> QED
          BY <5>2, <5>3
      <4> QED
        BY <4>2
    <3>7. w \notin low
      OBVIOUS
    <3>8. Cardinality(low \cup {w}) = Cardinality(low) + 1
      BY <3>3, <3>7, FS_AddElement
    <3>9. Cardinality({y \in A : y <= w}) = k - 1 + 1
      BY <3>2, <3>6, <3>8
    <3>10. w \in A /\ k - 1 + 1 = k
      BY <2>1
    <3> QED
      BY <3>9, <3>10
  <2> QED
    BY <2>3, <2>4
<1>2. T \subseteq Nat
  OBVIOUS
<1>3. T = {}
  <2> HIDE DEF T
  <2> QED
    BY <1>1, <1>2, Induction
<1> QED
  BY <1>3
=============================================================================
