------------------------ MODULE MessageObjectsProofs ------------------------
(***************************************************************************)
(* For every set of scenarios and any room: nothing that is freed is still *)
(* referred to, what lives has those that will free it once, the links of  *)
(* objects and of messages say the same, and no chain is a circle.         *)
(***************************************************************************)
EXTENDS MessageObjects, SequenceLemmas

-----------------------------------------------------------------------------
(* Chains *)

Links == [Ids -> Ids \cup {None}]

\* No way along the links comes back.
Descends(link, rank) == \A x \in Ids : link[x] # None => rank[link[x]] < rank[x]
Acyclic(link) == \E rank \in [Ids -> Nat] : Descends(link, rank)

IsPath(link, c, x) ==
    /\ c \in Seq(Ids) /\ c # <<>> /\ c[1] = x
    /\ \A i \in 1 .. Len(c) - 1 : link[c[i]] = c[i + 1]

IsChain(link, c, x) == IsPath(link, c, x) /\ link[c[Len(c)]] = None

\* The function Chain computes its result with.
Follows(upTo, link, x, n) ==
    upTo = [k \in 0 .. n |->
              IF k = 0 THEN <<x>>
              ELSE LET chain == upTo[k - 1]
                       next == link[Last(chain)]
                   IN IF next = None THEN chain ELSE Append(chain, next)]

LEMMA IdsFinite == IsFiniteSet(Ids) /\ Cardinality(Ids) = MaxRoom /\ None \notin Ids /\ Ids \subseteq Nat
<1>1. MaxRoom \in Nat /\ Ids = 1 .. MaxRoom
  BY BoundsAssumption DEF Ids
<1>2. IsFiniteSet(1 .. MaxRoom) /\ Cardinality(1 .. MaxRoom) = MaxRoom
  BY <1>1, FS_Interval
<1> QED
  BY <1>1, <1>2 DEF None

LEMMA FollowsExists ==
  ASSUME NEW link, NEW x, NEW n \in Nat
  PROVE  \E upTo : Follows(upTo, link, x, n)
<1> DEFINE T == {k \in Nat : ~ \E upTo : Follows(upTo, link, x, k)}
<1>1. ASSUME NEW k \in T PROVE \E j \in T : j < k
  <2>1. CASE k = 0
    <3>1. Follows([i \in 0 .. 0 |-> <<x>>], link, x, 0)
      BY DEF Follows
    <3> QED
      BY <1>1, <2>1, <3>1
  <2>2. CASE k # 0
    <3>1. k - 1 \in Nat /\ k - 1 < k
      BY <2>2
    <3>2. SUFFICES ASSUME k - 1 \notin T PROVE FALSE
      BY <3>1
    <3>3. PICK v : Follows(v, link, x, k - 1)
      BY <3>1, <3>2
    <3> DEFINE next(chain) == LET y == link[Last(chain)] IN IF y = None THEN chain ELSE Append(chain, y)
               w == [i \in 0 .. k |-> IF i = 0 THEN <<x>> ELSE next(v[i - 1])]
    <3>4. \A i \in 0 .. k - 1 : w[i] = v[i]
      <4>1. \A i \in 0 .. k - 1 : v[i] = IF i = 0 THEN <<x>> ELSE next(v[i - 1])
        BY <3>3, Zenon DEF Follows
      <4>2. \A i \in 0 .. k - 1 : i \in 0 .. k
        BY <3>1
      <4> HIDE DEF T, next
      <4> QED
        BY <4>1, <4>2
    <3>5. ASSUME NEW i \in 0 .. k, i # 0 PROVE w[i - 1] = v[i - 1]
      <4>1. k \in Nat /\ i - 1 \in 0 .. k - 1
        BY <3>1, <3>5
      <4> HIDE DEF w
      <4> QED
        BY <3>4, <4>1
    <3>6. Follows(w, link, x, k)
      <4>1. w = [i \in 0 .. k |-> IF i = 0 THEN <<x>> ELSE next(w[i - 1])]
        BY <3>5, Zenon
      <4> HIDE DEF w
      <4> QED
        BY <4>1, Zenon DEF Follows
    <3> QED
      BY <3>6
  <2> QED
    BY <2>1, <2>2
<1>2. T = {}
  <2> HIDE DEF T
  <2>1. T \subseteq Nat
    BY DEF T
  <2> QED
    BY <1>1, <2>1, Induction, Zenon
<1> QED
  BY <1>2

\* The ranks along a path go down.
LEMMA PathDescends ==
  ASSUME NEW link \in Links, NEW rank \in [Ids -> Nat], Descends(link, rank),
         NEW x, NEW c, IsPath(link, c, x)
  PROVE  \A j \in 1 .. Len(c) : \A i \in 1 .. j - 1 : rank[c[j]] < rank[c[i]]
<1> DEFINE T == {j \in 1 .. Len(c) : ~ \A i \in 1 .. j - 1 : rank[c[j]] < rank[c[i]]}
<1> c \in Seq(Ids)
  BY DEF IsPath
<1>0. /\ c \in Seq(Ids) /\ Len(c) \in Nat
      /\ \A i \in 1 .. Len(c) : c[i] \in Ids /\ rank[c[i]] \in Nat /\ c[i] # None
  BY IdsFinite
<1>1. ASSUME NEW j \in T PROVE \E k \in T : k < j
  <2>1. PICK i \in 1 .. j - 1 : ~(rank[c[j]] < rank[c[i]])
    OBVIOUS
  <2>2. /\ j \in 1 .. Len(c) /\ j - 1 \in 1 .. Len(c) /\ j - 1 < j
        /\ i \in 1 .. Len(c)
    BY <1>0, <2>1
  <2>3. rank[c[j]] < rank[c[j - 1]]
    <3>1. link[c[j - 1]] = c[j]
      <4>1. j - 1 \in 1 .. Len(c) - 1 /\ j - 1 + 1 = j
        BY <1>0, <2>2
      <4> HIDE DEF T
      <4> QED
        BY <4>1, Zenon DEF IsPath
    <3> HIDE DEF T
    <3> QED
      BY <1>0, <2>2, <3>1, Zenon DEF Descends
  <2>4. i # j - 1
    BY <2>1, <2>3
  <2>5. i \in 1 .. (j - 1) - 1
    BY <1>0, <2>1, <2>2, <2>4
  <2>6. ~(rank[c[j - 1]] < rank[c[i]])
    <3> HIDE DEF T
    <3>1. rank[c[j]] \in Nat /\ rank[c[j - 1]] \in Nat /\ rank[c[i]] \in Nat
      BY <1>0, <2>2
    <3> QED
      BY <2>1, <2>3, <3>1
  <2> QED
    BY <2>2, <2>5, <2>6, Zenon
<1>2. T \subseteq Nat
  BY <1>0
<1>3. T = {}
  <2> HIDE DEF T
  <2> QED
    BY <1>1, <1>2, Induction, Zenon
<1> QED
  BY <1>3, Zenon

LEMMA PathInjective ==
  ASSUME NEW link \in Links, Acyclic(link), NEW x, NEW c, IsPath(link, c, x)
  PROVE  /\ \A i, j \in 1 .. Len(c) : c[i] = c[j] => i = j
         /\ Len(c) <= MaxRoom
<1>1. PICK rank \in [Ids -> Nat] : Descends(link, rank)
  BY DEF Acyclic
<1>2. \A j \in 1 .. Len(c) : \A i \in 1 .. j - 1 : rank[c[j]] < rank[c[i]]
  BY <1>1, PathDescends
<1>3. c \in Seq(Ids) /\ Len(c) \in Nat /\ \A i \in 1 .. Len(c) : rank[c[i]] \in Nat /\ c[i] \in Ids
  BY <1>1 DEF IsPath
<1>4. ASSUME NEW i \in 1 .. Len(c), NEW j \in 1 .. Len(c), c[i] = c[j] PROVE i = j
  <2>1. ~(i < j) /\ ~(j < i)
    BY <1>2, <1>3, <1>4
  <2> QED
    BY <1>3, <2>1
<1>5. Len(c) <= MaxRoom
  <2>1. SUFFICES ASSUME MaxRoom < Len(c) PROVE FALSE
    BY <1>3, BoundsAssumption
  <2>2. IsFiniteSet(1 .. Len(c)) /\ Cardinality(1 .. Len(c)) = Len(c)
    <3>1. \A n \in Nat : IsFiniteSet(1 .. n) /\ Cardinality(1 .. n) = n
      BY FS_Interval
    <3> QED
      BY <1>3, <3>1
  <2>3. c \in [1 .. Len(c) -> Ids]
    BY <1>3
  <2>4. \E i, j \in 1 .. Len(c) : i # j /\ c[i] = c[j]
    BY <2>1, <2>2, <2>3, IdsFinite, FS_PigeonHole
  <2> QED
    BY <1>4, <2>4
<1> QED
  BY <1>4, <1>5

\* Where the links do not come back, Chain goes to their end.
LEMMA ChainOf ==
  ASSUME NEW link \in Links, Acyclic(link), NEW x \in Ids
  PROVE  IsChain(link, Chain(link, x), x) /\ Len(Chain(link, x)) <= MaxRoom
<1> DEFINE up == CHOOSE upTo : upTo = [k \in 0 .. MaxRoom |->
              IF k = 0 THEN <<x>>
              ELSE LET chain == upTo[k - 1]
                       next == link[Last(chain)]
                   IN IF next = None THEN chain ELSE Append(chain, next)]
<1>1. Chain(link, x) = up[MaxRoom]
  BY DEF Chain
<1>2. Follows(up, link, x, MaxRoom)
  <2>1. MaxRoom \in Nat
    BY BoundsAssumption
  <2>2. PICK u : Follows(u, link, x, MaxRoom)
    BY <2>1, FollowsExists
  <2> QED
    BY <2>2, Zenon DEF Follows
<1> HIDE DEF up
<1>a. up = [k \in 0 .. MaxRoom |->
              IF k = 0 THEN <<x>>
              ELSE IF link[Last(up[k - 1])] = None THEN up[k - 1] ELSE Append(up[k - 1], link[Last(up[k - 1])])]
  BY <1>2, Zenon DEF Follows
<1>3. /\ up[0] = <<x>>
      /\ \A k \in 0 .. MaxRoom : k # 0 =>
           up[k] = IF link[Last(up[k - 1])] = None THEN up[k - 1] ELSE Append(up[k - 1], link[Last(up[k - 1])])
  <2>1. 0 \in 0 .. MaxRoom
    BY BoundsAssumption
  <2> QED
    BY <1>a, <2>1, Zenon
<1> DEFINE Good(k) == /\ IsPath(link, up[k], x) /\ Len(up[k]) <= k + 1
                      /\ Len(up[k]) = k + 1 \/ link[up[k][Len(up[k])]] = None
           T == {k \in 0 .. MaxRoom : ~Good(k)}
<1>4. ASSUME NEW k \in T PROVE \E j \in T : j < k
  <2>0. k \in 0 .. MaxRoom
    OBVIOUS
  <2>1. CASE k = 0
    <3>1. up[k] = <<x>> /\ Len(<<x>>) = 1 /\ <<x>> \in Seq(Ids) /\ <<x>>[1] = x /\ <<x>> # <<>>
      BY <1>3, <2>1
    <3>2. Good(k)
      BY <2>1, <3>1 DEF IsPath
    <3> QED
      BY <3>2
  <2>2. CASE k # 0
    <3>1. k \in Nat /\ k - 1 \in 0 .. MaxRoom /\ k - 1 < k
      BY <2>0, <2>2, BoundsAssumption
    <3>2. SUFFICES ASSUME k - 1 \notin T PROVE FALSE
      BY <3>1
    <3>3. Good(k - 1)
      BY <3>1, <3>2
    <3> DEFINE c == up[k - 1]
               y == link[c[Len(c)]]
    <3>4. c \in Seq(Ids) /\ c # <<>> /\ Len(c) \in Nat \ {0} /\ Last(c) = c[Len(c)] /\ c[Len(c)] \in Ids
      BY <3>3 DEF IsPath, Last
    <3>5. CASE y = None
      <4>1. up[k] = c
        BY <1>3, <2>0, <2>2, <3>4, <3>5
      <4>2. Len(c) <= k + 1
        BY <3>1, <3>3, <3>4
      <4>3. Good(k)
        BY <3>3, <3>5, <4>1, <4>2
      <4> QED
        BY <4>3
    <3>6. CASE y # None
      <4>1. up[k] = Append(c, y)
        BY <1>3, <2>0, <2>2, <3>4, <3>6, Zenon
      <4>2. y \in Ids
        BY <3>4, <3>6 DEF Links
      <4> DEFINE d == Append(c, y)
      <4>3. /\ d \in Seq(Ids) /\ d # <<>> /\ Len(d) = Len(c) + 1 /\ d[Len(c) + 1] = y
            /\ \A i \in 1 .. Len(c) : d[i] = c[i]
        BY <3>4, <4>2
      <4>4. Len(c) = k
        BY <3>1, <3>3, <3>6
      <4>5. IsPath(link, d, x)
        <5>1. \A i \in 1 .. Len(d) - 1 : link[d[i]] = d[i + 1]
          <6> TAKE i \in 1 .. Len(d) - 1
          <6>1. i \in 1 .. Len(c) /\ Len(c) \in Nat
            BY <3>4, <4>3
          <6>2. CASE i = Len(c)
            BY <4>3, <6>1, <6>2
          <6>3. CASE i # Len(c)
            <7>1. i \in 1 .. Len(c) - 1 /\ i + 1 \in 1 .. Len(c)
              BY <6>1, <6>3
            <7>2. link[c[i]] = c[i + 1]
              BY <3>3, <7>1 DEF IsPath
            <7> QED
              BY <4>3, <7>1, <7>2, <6>1
          <6> QED
            BY <6>2, <6>3
        <5>2. c[1] = x
          BY <3>3 DEF IsPath
        <5> HIDE DEF d, c
        <5> QED
          BY <3>4, <4>3, <5>1, <5>2 DEF IsPath
      <4>6. Good(k)
        <5>1. Len(d) = k + 1 /\ up[k] = d
          BY <4>1, <4>3, <4>4
        <5>2. k + 1 <= k + 1
          BY <3>1
        <5> HIDE DEF d, c
        <5> QED
          BY <4>5, <5>1, <5>2
      <4> QED
        BY <4>6
    <3> QED
      BY <3>5, <3>6
  <2> QED
    BY <2>1, <2>2
<1>5. T = {}
  <2>1. T \subseteq Nat
    BY BoundsAssumption
  <2> HIDE DEF T
  <2> QED
    BY <1>4, <2>1, Induction, Zenon
<1>6. Good(MaxRoom)
  <2>1. MaxRoom \in 0 .. MaxRoom
    BY BoundsAssumption
  <2> QED
    BY <1>5, <2>1
<1>7. Len(up[MaxRoom]) <= MaxRoom
  BY <1>6, PathInjective
<1>8. Len(up[MaxRoom]) \in Nat /\ MaxRoom \in Nat
  BY <1>6, BoundsAssumption DEF IsPath
<1> QED
  BY <1>1, <1>6, <1>7, <1>8 DEF IsChain

\* From one place there is one chain.
LEMMA ChainUnique ==
  ASSUME NEW link, NEW x, NEW c, NEW d, IsChain(link, c, x), IsChain(link, d, x), Len(c) <= Len(d)
  PROVE  c = d
<1>1. c \in Seq(Ids) /\ d \in Seq(Ids) /\ c # <<>> /\ d # <<>> /\ c[1] = x /\ d[1] = x
  BY DEF IsChain, IsPath
<1>2. Len(c) \in Nat \ {0} /\ Len(d) \in Nat \ {0}
  BY <1>1
<1> DEFINE T == {i \in 1 .. Len(c) : c[i] # d[i]}
<1>3. ASSUME NEW i \in T PROVE \E j \in T : j < i
  <2>1. i \in 1 .. Len(c) /\ i # 1
    BY <1>1
  <2>2. i - 1 \in 1 .. Len(c) - 1 /\ i - 1 \in 1 .. Len(d) - 1 /\ i - 1 \in 1 .. Len(c) /\ i - 1 + 1 = i /\ i - 1 < i
    BY <1>2, <2>1
  <2>3. link[c[i - 1]] = c[i] /\ link[d[i - 1]] = d[i]
    BY <2>2 DEF IsChain, IsPath
  <2>4. c[i - 1] # d[i - 1]
    BY <2>3
  <2> QED
    BY <2>2, <2>4
<1>4. T = {}
  <2>1. T \subseteq Nat
    BY <1>2
  <2> HIDE DEF T
  <2> QED
    BY <1>3, <2>1, Induction, Zenon
<1>5. \A i \in 1 .. Len(c) : c[i] = d[i]
  BY <1>4
<1>6. Len(c) = Len(d)
  <2>1. SUFFICES ASSUME Len(c) < Len(d) PROVE FALSE
    BY <1>2
  <2>2. Len(c) \in 1 .. Len(d) - 1 /\ Len(c) + 1 \in 1 .. Len(d)
    BY <1>2, <2>1
  <2>3. d[Len(c) + 1] # None
    BY <1>1, <2>2, IdsFinite
  <2>4. link[d[Len(c)]] = d[Len(c) + 1]
    BY <2>2 DEF IsChain, IsPath
  <2>5. link[c[Len(c)]] = None
    BY DEF IsChain
  <2> QED
    BY <1>2, <1>5, <2>3, <2>4, <2>5
<1> QED
  BY <1>1, <1>5, <1>6

LEMMA ChainIs ==
  ASSUME NEW link \in Links, Acyclic(link), NEW x \in Ids, NEW c, IsChain(link, c, x)
  PROVE  Chain(link, x) = c
<1>1. IsChain(link, Chain(link, x), x)
  BY ChainOf
<1>2. Len(c) \in Nat /\ Len(Chain(link, x)) \in Nat
  BY <1>1 DEF IsChain, IsPath
<1>3. Len(c) <= Len(Chain(link, x)) \/ Len(Chain(link, x)) <= Len(c)
  BY <1>2
<1> QED
  BY <1>1, <1>3, ChainUnique

\* The links do not lead out of a chain, nor a chain out of what they do not lead out of.
LEMMA ChainClosed ==
  ASSUME NEW link, NEW x, NEW c, IsChain(link, c, x)
  PROVE  /\ x \in ToSet(c) /\ ToSet(c) \subseteq Ids
         /\ \A y \in ToSet(c) : link[y] # None => link[y] \in ToSet(c)
         /\ \A B : x \in B /\ (\A y \in B : link[y] # None => link[y] \in B) => ToSet(c) \subseteq B
<1>1. c \in Seq(Ids) /\ Len(c) \in Nat \ {0} /\ c[1] = x /\ ToSet(c) = {c[i] : i \in 1 .. Len(c)}
  BY DEF IsChain, IsPath, ToSet
<1>2. \A i \in 1 .. Len(c) - 1 : link[c[i]] = c[i + 1] /\ c[i + 1] \in Ids /\ c[i + 1] # None
  BY <1>1, IdsFinite DEF IsChain, IsPath
<1>3. link[c[Len(c)]] = None
  BY DEF IsChain
<1>4. ASSUME NEW i \in 1 .. Len(c), link[c[i]] # None PROVE link[c[i]] \in ToSet(c)
  <2>1. i # Len(c)
    BY <1>3, <1>4
  <2>2. i \in 1 .. Len(c) - 1 /\ i + 1 \in 1 .. Len(c)
    BY <1>1, <2>1
  <2> QED
    BY <1>1, <1>2, <2>2
<1>5. ASSUME NEW B, x \in B, \A y \in B : link[y] # None => link[y] \in B PROVE ToSet(c) \subseteq B
  <2> DEFINE T == {i \in 1 .. Len(c) : c[i] \notin B}
  <2>1. ASSUME NEW i \in T PROVE \E j \in T : j < i
    <3>1. i \in 1 .. Len(c) /\ i # 1
      BY <1>1, <1>5
    <3>2. i - 1 \in 1 .. Len(c) - 1 /\ i - 1 \in 1 .. Len(c) /\ i - 1 + 1 = i /\ i - 1 < i
      BY <1>1, <3>1
    <3>3. link[c[i - 1]] = c[i] /\ c[i] # None
      BY <1>2, <3>2
    <3>4. c[i - 1] \notin B
      BY <1>5, <3>3
    <3> QED
      BY <3>2, <3>4
  <2>2. T = {}
    <3>1. T \subseteq Nat
      BY <1>1
    <3> HIDE DEF T
    <3> QED
      BY <2>1, <3>1, Induction, Zenon
  <2> QED
    BY <1>1, <2>2
<1>6. x \in ToSet(c) /\ ToSet(c) \subseteq Ids
  <2>1. 1 \in 1 .. Len(c) /\ \A i \in 1 .. Len(c) : c[i] \in Ids
    BY <1>1
  <2> QED
    BY <1>1, <2>1
<1> QED
  BY <1>1, <1>4, <1>5, <1>6, Zenon

LEMMA CutAcyclic ==
  ASSUME NEW link, Acyclic(link), NEW g \in Links, \A x \in Ids : g[x] \in {link[x], None}
  PROVE  Acyclic(g)
  BY DEF Acyclic, Descends

\* A link to a place from where a is not reached.
LEMMA LinkAcyclic ==
  ASSUME NEW link \in Links, Acyclic(link), NEW g \in Links, NEW a \in Ids, NEW b \in Ids,
         g[a] = b, \A x \in Ids \ {a} : g[x] = link[x],
         NEW B, B \subseteq Ids, \A y \in B : link[y] # None => link[y] \in B,
         b \in B, a \notin B
  PROVE  Acyclic(g)
<1>1. PICK rank \in [Ids -> Nat] : Descends(link, rank)
  BY DEF Acyclic
<1> DEFINE K == rank[b] + 1
           up == [x \in Ids |-> IF x \in B THEN rank[x] ELSE rank[x] + K]
<1>2. K \in Nat /\ up \in [Ids -> Nat]
  OBVIOUS
<1>3. ASSUME NEW x \in Ids, g[x] # None PROVE up[g[x]] < up[x]
  <2>1. g[x] \in Ids
    BY <1>3 DEF Links
  <2>2. CASE x = a
    <3>1. up[g[x]] = rank[b] /\ up[x] = rank[a] + K /\ rank[a] \in Nat /\ rank[b] \in Nat
      BY <2>2
    <3> QED
      BY <3>1
  <2>3. CASE x # a
    <3>1. g[x] = link[x] /\ rank[g[x]] < rank[x] /\ rank[x] \in Nat /\ rank[g[x]] \in Nat
      BY <1>1, <1>3, <2>1, <2>3 DEF Descends
    <3>2. x \in B => g[x] \in B
      BY <1>3, <3>1
    <3>3. /\ up[x] = IF x \in B THEN rank[x] ELSE rank[x] + K
          /\ up[g[x]] = IF g[x] \in B THEN rank[g[x]] ELSE rank[g[x]] + K
      BY <2>1
    <3> HIDE DEF up, K
    <3> QED
      BY <1>2, <3>1, <3>2, <3>3
  <2> QED
    BY <2>2, <2>3
<1> HIDE DEF up, K
<1> QED
  BY <1>2, <1>3 DEF Acyclic, Descends

\* b is put between a and what a is linked to; no chain goes through both.
LEMMA InsertAcyclic ==
  ASSUME NEW link \in Links, Acyclic(link), NEW g \in Links, NEW a \in Ids, NEW b \in Ids,
         g[a] = b, g[b] = link[a], \A x \in Ids \ {a, b} : g[x] = link[x],
         NEW A, A \subseteq Ids, \A y \in A : link[y] # None => link[y] \in A,
         a \in A, b \notin A
  PROVE  Acyclic(g)
<1>1. PICK rank \in [Ids -> Nat] : Descends(link, rank)
  BY DEF Acyclic
<1> DEFINE h == [link EXCEPT ![b] = link[a]]
<1>2. h \in Links /\ h[b] = link[a] /\ \A x \in Ids \ {b} : h[x] = link[x]
  BY DEF Links
<1> HIDE DEF h
<1>3. Acyclic(h)
  <2>1. CASE link[a] = None
    <3>1. \A x \in Ids : h[x] \in {link[x], None}
      BY <1>2, <2>1
    <3> QED
      BY <3>1, <1>2, CutAcyclic
  <2>2. CASE link[a] # None
    <3>1. link[a] \in A /\ link[a] \in Ids
      BY <2>2
    <3> QED
      BY <1>2, <3>1, LinkAcyclic
  <2> QED
    BY <2>1, <2>2
<1> DEFINE B == {b} \cup {x \in A : rank[x] < rank[a]}
<1>4. a # b /\ a \notin B /\ b \in B /\ B \subseteq Ids
  OBVIOUS
<1>5. ASSUME NEW y \in B, h[y] # None PROVE h[y] \in B
  <2>1. CASE y = b
    <3>1. h[y] = link[a] /\ link[a] \in A /\ rank[link[a]] < rank[a]
      BY <1>1, <1>2, <1>5, <2>1 DEF Descends
    <3> QED
      BY <3>1
  <2>2. CASE y # b
    <3>1. y \in A /\ rank[y] < rank[a] /\ h[y] = link[y] /\ y \in Ids
      BY <1>2, <2>2
    <3>2. h[y] \in A /\ rank[h[y]] < rank[y] /\ h[y] \in Ids
      BY <1>1, <1>5, <3>1 DEF Descends
    <3> QED
      BY <3>1, <3>2
  <2> QED
    BY <2>1, <2>2
<1>6. g[a] = b /\ \A x \in Ids \ {a} : g[x] = h[x]
  BY <1>2, <1>4
<1> HIDE DEF B
<1> QED
  BY <1>2, <1>3, <1>4, <1>5, <1>6, LinkAcyclic

\* A path is turned around; what is not on it keeps its link.
LEMMA ReversedAcyclic ==
  ASSUME NEW link \in Links, Acyclic(link), NEW g \in Links, NEW x, NEW c, IsPath(link, c, x),
         \A y \in Ids \ ToSet(c) : g[y] = link[y],
         \A i \in 1 .. Len(c) : g[c[i]] = IF i = 1 THEN None ELSE c[i - 1]
  PROVE  Acyclic(g)
<1>1. PICK rank \in [Ids -> Nat] : Descends(link, rank)
  BY DEF Acyclic
<1>2. c \in Seq(Ids) /\ Len(c) \in Nat /\ ToSet(c) = {c[i] : i \in 1 .. Len(c)}
  BY DEF IsPath, ToSet
<1>3. \A i, j \in 1 .. Len(c) : c[i] = c[j] => i = j
  BY PathInjective
<1> DEFINE at(y) == CHOOSE i \in 1 .. Len(c) : c[i] = y
           up == [y \in Ids |-> IF y \in ToSet(c) THEN at(y) ELSE rank[y] + Len(c) + 1]
<1>4. \A i \in 1 .. Len(c) : at(c[i]) = i
  BY <1>3
<1>5. \A y \in ToSet(c) : at(y) \in 1 .. Len(c) /\ c[at(y)] = y
  BY <1>2
<1> HIDE DEF at
<1>6. up \in [Ids -> Nat]
  <2>1. \A y \in Ids : (y \in ToSet(c) => at(y) \in Nat) /\ rank[y] + Len(c) + 1 \in Nat
    BY <1>2, <1>5
  <2> QED
    BY <2>1
<1>7. ASSUME NEW y \in Ids, g[y] # None PROVE up[g[y]] < up[y]
  <2>0. g[y] \in Ids
    BY <1>7 DEF Links
  <2>1. CASE y \in ToSet(c)
    <3>1. PICK i \in 1 .. Len(c) : y = c[i]
      BY <1>2, <2>1
    <3>2. i # 1 /\ g[y] = c[i - 1] /\ i - 1 \in 1 .. Len(c)
      BY <1>2, <1>7, <3>1
    <3>3. up[y] = i /\ up[g[y]] = i - 1
      BY <1>2, <1>4, <2>0, <2>1, <3>1, <3>2
    <3> HIDE DEF up
    <3> QED
      BY <1>2, <3>2, <3>3
  <2>2. CASE y \notin ToSet(c)
    <3>1. g[y] = link[y] /\ rank[g[y]] < rank[y] /\ rank[y] \in Nat /\ rank[g[y]] \in Nat
      BY <1>1, <1>7, <2>0, <2>2 DEF Descends
    <3>2. up[y] = rank[y] + Len(c) + 1
      BY <2>2
    <3>3. up[g[y]] \in 1 .. Len(c) \/ up[g[y]] = rank[g[y]] + Len(c) + 1
      BY <1>5, <2>0
    <3> HIDE DEF up
    <3> QED
      BY <1>2, <3>1, <3>2, <3>3
  <2> QED
    BY <2>1, <2>2
<1> HIDE DEF up
<1> QED
  BY <1>6, <1>7 DEF Acyclic, Descends

-----------------------------------------------------------------------------
(* The heap *)

ObjectLinks(h) == [o \in Ids |-> h.obj[o].parent]
Iterators(h) == [o \in Ids |-> h.obj[o].iterator]
ObjectBodies(h) == [o \in Ids |-> h.obj[o].body]
MessageLinks(h) == [m \in Ids |-> h.msg[m].parent]
MessageBodies(h) == [m \in Ids |-> h.msg[m].body]
BodiesOf(h) == [c \in Ids |-> h.bobj[c].body]

Live(h) == {o \in Ids : h.obj[o] # NoObject}

\* Messages without an object: the parents of an unserialized one.
Orphans(h) == Messages(h) \ {h.obj[o].message : o \in Live(h)}

\* Each object has a message of its own, each message a body.
Built(h) ==
    /\ h \in Heap
    /\ \A o \in Live(h) : h.obj[o].message \in Messages(h)
    /\ \A o, p \in Live(h) : h.obj[o].message = h.obj[p].message => o = p
    /\ \A m \in Messages(h) : h.msg[m].parent \in Messages(h) \cup {None} /\ h.msg[m].body \in Ids
    /\ \A m \in Ids \ Messages(h) : h.msg[m] = NoMessage
    /\ Acyclic(MessageLinks(h))

\* The links of messages are those of the objects around them, or lead to
\* messages that have no objects.
Agree(h) ==
    /\ \A o \in Live(h) :
          LET p == h.obj[o].parent
              mp == h.msg[h.obj[o].message].parent
          IN IF p # None THEN mp = h.obj[p].message ELSE mp \in Orphans(h) \cup {None}
    /\ \A m \in Orphans(h) : h.msg[m].parent \in Orphans(h) \cup {None}

\* An object counts at least what refers to it: r from outside of the heap,
\* parents and iterators.  Bodies count all that refer to them.
Counted(h, r, br) ==
    /\ \A o \in Ids :
          h.obj[o].refs >= HowMany(ObjectLinks(h), Ids, o) + HowMany(Iterators(h), Ids, o) + r[o]
    /\ \A c \in Ids : h.bobj[c].refs = br[c] + HowMany(ObjectBodies(h), Ids, c)
    /\ \A b \in Ids : h.body[b] = HowMany(MessageBodies(h), Ids, b) + HowMany(BodiesOf(h), Ids, b)

\* What nothing refers to is gone.
Freed(h) ==
    /\ \A o \in Live(h) : h.obj[o].refs > 0
    /\ \A c \in Ids : h.bobj[c].refs = 0 => h.bobj[c] = NoBodyObject

Sound(h, r, br) == Built(h) /\ Agree(h) /\ Counted(h, r, br)

LEMMA HeapTypes ==
  ASSUME NEW h \in Heap
  PROVE  /\ \A o \in Ids : /\ h.obj[o] \in [refs : Nat, message : Ids \cup {None}, parent : Ids \cup {None},
                                            body : Ids \cup {None}, iterator : Ids \cup {None}]
                           /\ h.obj[o].refs \in Nat
                           /\ h.msg[o] \in [kind : Kinds \cup {"free"}, parent : Ids \cup {None}, body : Ids \cup {None}]
                           /\ h.body[o] \in Nat
                           /\ h.bobj[o] \in [refs : Nat, body : Ids \cup {None}]
                           /\ h.bobj[o].refs \in Nat
         /\ ObjectLinks(h) \in Links /\ Iterators(h) \in Links /\ ObjectBodies(h) \in Links
         /\ MessageLinks(h) \in Links /\ MessageBodies(h) \in Links /\ BodiesOf(h) \in Links
  BY DEF Heap, Links, ObjectLinks, Iterators, ObjectBodies, MessageLinks, MessageBodies, BodiesOf

LEMMA WithRefs ==
  ASSUME NEW x \in [refs : Nat, message : Ids \cup {None}, parent : Ids \cup {None},
                    body : Ids \cup {None}, iterator : Ids \cup {None}], NEW n
  PROVE  [x EXCEPT !.refs = n] = [refs |-> n, message |-> x.message, parent |-> x.parent,
                                  body |-> x.body, iterator |-> x.iterator]
  OBVIOUS

LEMMA HeapCounts ==
  ASSUME NEW f, NEW S \in SUBSET Ids, NEW x
  PROVE  /\ HowMany(f, S, x) \in Nat /\ HowMany(f, Ids \ S, x) \in Nat /\ HowMany(f, Ids, x) \in Nat
         /\ HowMany(f, Ids, x) = HowMany(f, S, x) + HowMany(f, Ids \ S, x)
         /\ HowMany(f, S, x) = 0 <=> \A i \in S : f[i] # x
         /\ HowMany(f, Ids \ S, x) = 0 <=> \A i \in Ids \ S : f[i] # x
         /\ HowMany(f, Ids, x) = 0 <=> \A i \in Ids : f[i] # x
<1>1. IsFiniteSet(Ids) /\ IsFiniteSet(S) /\ IsFiniteSet(Ids \ S)
  BY IdsFinite, FS_Subset, Zenon
<1> QED
  BY <1>1, HowManyNat, HowManySplit

LEMMA ReferencesCount ==
  ASSUME NEW h, NEW S \in SUBSET Ids, NEW o
  PROVE  References(h, S, o) = HowMany(ObjectLinks(h), S, o) + HowMany(Iterators(h), S, o)
<1>1. {p \in S : h.obj[p].parent = o} = {p \in S : ObjectLinks(h)[p] = o}
  BY DEF ObjectLinks
<1>2. {p \in S : h.obj[p].iterator = o} = {p \in S : Iterators(h)[p] = o}
  BY DEF Iterators
<1> QED
  BY <1>1, <1>2, Zenon DEF References, HowMany

LEMMA ReferencesNat ==
  ASSUME NEW h, NEW S \in SUBSET Ids, NEW T \in SUBSET S, NEW o
  PROVE  References(h, S, o) \in Nat /\ References(h, T, o) \in Nat /\ References(h, T, o) <= References(h, S, o)
<1>1. IsFiniteSet(S) /\ T \in SUBSET Ids
  BY IdsFinite, FS_Subset, Zenon
<1>2. \A f : HowMany(f, S, o) \in Nat /\ HowMany(f, T, o) \in Nat /\ HowMany(f, T, o) <= HowMany(f, S, o)
  BY <1>1, HeapCounts, HowManySubset, Zenon
<1> QED
  BY <1>1, <1>2, ReferencesCount

\* The objects that have no reference but those of S.
Without(h, S) == {o \in Live(h) : h.obj[o].refs <= References(h, S, o)}

Marks(after, h, n) == after = [k \in 0 .. n |-> IF k = 0 THEN {} ELSE Without(h, after[k - 1])]

LEMMA MarksExists ==
  ASSUME NEW h, NEW n \in Nat
  PROVE  \E after : Marks(after, h, n)
<1> DEFINE T == {k \in Nat : ~ \E after : Marks(after, h, k)}
<1>1. ASSUME NEW k \in T PROVE \E j \in T : j < k
  <2>1. CASE k = 0
    <3>1. Marks([i \in 0 .. 0 |-> {}], h, 0)
      BY DEF Marks
    <3> QED
      BY <1>1, <2>1, <3>1
  <2>2. CASE k # 0
    <3>1. k - 1 \in Nat /\ k - 1 < k
      BY <2>2
    <3>2. SUFFICES ASSUME k - 1 \notin T PROVE FALSE
      BY <3>1
    <3>3. PICK v : Marks(v, h, k - 1)
      BY <3>1, <3>2
    <3> DEFINE w == [i \in 0 .. k |-> IF i = 0 THEN {} ELSE Without(h, v[i - 1])]
    <3>4. \A i \in 0 .. k - 1 : w[i] = v[i]
      <4>1. \A i \in 0 .. k - 1 : v[i] = IF i = 0 THEN {} ELSE Without(h, v[i - 1])
        BY <3>3, Zenon DEF Marks
      <4>2. \A i \in 0 .. k - 1 : i \in 0 .. k
        BY <3>1
      <4> HIDE DEF T
      <4> QED
        BY <4>1, <4>2
    <3>5. ASSUME NEW i \in 0 .. k, i # 0 PROVE w[i - 1] = v[i - 1]
      <4>1. k \in Nat /\ i - 1 \in 0 .. k - 1
        BY <3>1, <3>5
      <4> HIDE DEF w
      <4> QED
        BY <3>4, <4>1
    <3>6. Marks(w, h, k)
      BY <3>5, Zenon DEF Marks
    <3> QED
      BY <3>6
  <2> QED
    BY <2>1, <2>2
<1>2. T = {}
  <2> HIDE DEF T
  <2>1. T \subseteq Nat
    BY DEF T
  <2> QED
    BY <1>1, <2>1, Induction, Zenon
<1> QED
  BY <1>2

LEMMA WithoutGrows ==
  ASSUME NEW h \in Heap, NEW S \in SUBSET Ids, NEW T \in SUBSET S
  PROVE  Without(h, T) \subseteq Without(h, S) /\ Without(h, S) \subseteq Ids
<1>1. \A o \in Ids : /\ References(h, S, o) \in Nat /\ References(h, T, o) \in Nat
                     /\ References(h, T, o) <= References(h, S, o)
  BY ReferencesNat
<1>2. \A o \in Live(h) : o \in Ids /\ h.obj[o].refs \in Nat
  BY HeapTypes DEF Live
<1> QED
  BY <1>1, <1>2 DEF Without

\* As many rounds as there are objects find all of them.
LEMMA UnreferencedFixed ==
  ASSUME NEW h \in Heap
  PROVE  Unreferenced(h) = Without(h, Unreferenced(h))
<1> DEFINE af == CHOOSE after : after = [k \in 0 .. MaxRoom |-> IF k = 0 THEN {} ELSE Without(h, after[k - 1])]
<1>0. MaxRoom \in Nat
  BY BoundsAssumption
<1>1. Unreferenced(h) = af[MaxRoom]
  BY DEF Unreferenced, Without, Live
<1>2. Marks(af, h, MaxRoom)
  <2>1. PICK u : Marks(u, h, MaxRoom)
    BY <1>0, MarksExists
  <2> QED
    BY <2>1, Zenon DEF Marks
<1> HIDE DEF af
<1>3. af[0] = {} /\ \A k \in 0 .. MaxRoom : k # 0 => af[k] = Without(h, af[k - 1])
  <2>1. af = [k \in 0 .. MaxRoom |-> IF k = 0 THEN {} ELSE Without(h, af[k - 1])]
    BY <1>2, Zenon DEF Marks
  <2>2. 0 \in 0 .. MaxRoom
    BY <1>0
  <2> QED
    BY <2>1, <2>2, Zenon
<1> DEFINE Good(k) == /\ af[k] \subseteq Ids /\ af[k] \subseteq Without(h, af[k])
                      /\ Without(h, af[k]) = af[k] \/ Cardinality(af[k]) >= k
           T == {k \in 0 .. MaxRoom : ~Good(k)}
<1>4. ASSUME NEW k \in T PROVE \E j \in T : j < k
  <2>0. k \in 0 .. MaxRoom /\ k \in Nat
    BY <1>0
  <2>1. CASE k = 0
    <3>1. Cardinality({}) = 0
      BY FS_EmptySet
    <3>2. Good(k)
      BY <1>3, <2>1, <3>1
    <3> QED
      BY <3>2
  <2>2. CASE k # 0
    <3>1. k - 1 \in 0 .. MaxRoom /\ k - 1 < k
      BY <2>0, <2>2, <1>0
    <3>2. SUFFICES ASSUME k - 1 \notin T PROVE FALSE
      BY <3>1
    <3>3. Good(k - 1)
      BY <3>1, <3>2
    <3> DEFINE A == af[k - 1]
               B == af[k]
    <3>4. B = Without(h, A) /\ A \subseteq B
      BY <1>3, <2>0, <2>2, <3>3
    <3>5. B \subseteq Ids /\ B \subseteq Without(h, B)
      <4>1. B \subseteq Ids
        BY <3>3, <3>4, WithoutGrows
      <4> QED
        BY <3>4, <4>1, WithoutGrows
    <3>6. Without(h, B) = B \/ Cardinality(B) >= k
      <4>1. CASE A = B
        BY <3>4, <4>1
      <4>2. CASE A # B
        <5>1. Cardinality(A) >= k - 1
          BY <3>3, <3>4, <4>2
        <5>2. IsFiniteSet(B) /\ IsFiniteSet(A)
          BY <3>3, <3>5, IdsFinite, FS_Subset
        <5>3. Cardinality(A) \in Nat /\ Cardinality(B) \in Nat
          BY <5>2, FS_CardinalityType
        <5>4. Cardinality(A) <= Cardinality(B) /\ Cardinality(A) # Cardinality(B)
          BY <3>4, <4>2, <5>2, FS_Subset
        <5> HIDE DEF A, B, T
        <5> QED
          BY <2>0, <5>1, <5>3, <5>4
      <4> QED
        BY <4>1, <4>2
    <3> QED
      BY <3>5, <3>6
  <2> QED
    BY <2>1, <2>2
<1>5. T = {}
  <2>1. T \subseteq Nat
    BY <1>0
  <2> HIDE DEF T
  <2> QED
    BY <1>4, <2>1, Induction, Zenon
<1>6. Good(MaxRoom)
  <2>1. MaxRoom \in 0 .. MaxRoom
    BY <1>0
  <2> QED
    BY <1>5, <2>1
<1> DEFINE S == af[MaxRoom]
<1>7. CASE Without(h, S) = S
  BY <1>1, <1>7
<1>8. CASE Cardinality(S) >= MaxRoom
  <2>1. S \subseteq Ids /\ S \subseteq Without(h, S)
    BY <1>6
  <2>2. IsFiniteSet(S) /\ Cardinality(S) <= Cardinality(Ids) /\ (Cardinality(Ids) = Cardinality(S) => Ids = S)
    BY <2>1, IdsFinite, FS_Subset
  <2>3. Cardinality(S) \in Nat
    BY <2>2, FS_CardinalityType
  <2>4. S = Ids
    BY <1>0, <1>8, <2>2, <2>3, IdsFinite
  <2>5. Without(h, S) \subseteq Ids
    BY <2>1, WithoutGrows
  <2> QED
    BY <1>1, <2>1, <2>4, <2>5
<1> QED
  BY <1>6, <1>7, <1>8

\* What h keeps of before: the objects, messages and bodies that are left are as
\* they were, and no message lost its object.
Keeps(h, before) ==
    /\ Live(h) \subseteq Live(before)
    /\ \A o \in Live(h) : /\ [h.obj[o] EXCEPT !.refs = 0] = [before.obj[o] EXCEPT !.refs = 0]
                          /\ h.msg[h.obj[o].message] = before.msg[before.obj[o].message]
                          /\ h.obj[o].body # None => h.bobj[h.obj[o].body].body = before.bobj[before.obj[o].body].body
    /\ Orphans(h) = Orphans(before)

\* Freeing what has no references leaves a sound heap, with the same references
\* from outside.
LEMMA CollectedSound ==
  ASSUME NEW h, NEW r \in [Ids -> Nat], NEW br \in [Ids -> Nat], Sound(h, r, br)
  PROVE  Sound(Collected(h), r, br) /\ Freed(Collected(h)) /\ Keeps(Collected(h), h)
<1> DEFINE S == Unreferenced(h)
           g == Gone(h, S)
           gm == g.messages
           gb == g.bobjs
           h2 == Collected(h)
<1>1. h \in Heap /\ Built(h) /\ Agree(h) /\ Counted(h, r, br)
  BY DEF Sound, Built
<1>2. S = Without(h, S) /\ S \subseteq Live(h) /\ S \subseteq Ids /\ Live(h) \subseteq Ids
  <2>1. S = Without(h, S)
    BY <1>1, UnreferencedFixed
  <2> HIDE DEF S
  <2> QED
    BY <2>1, Zenon DEF Without, Live
<1>3. gm = {h.obj[o].message : o \in S} \ {None}
  BY DEF Gone
<1>4. gb = {c \in Ids : h.bobj[c].refs <= HowMany(ObjectBodies(h), S, c)}
  <2>1. gb = {c \in Ids : h.bobj[c].refs <= Cardinality({o \in S : h.obj[o].body = c})}
    BY DEF Gone
  <2>2. ASSUME NEW c PROVE {o \in S : h.obj[o].body = c} = {o \in S : ObjectBodies(h)[o] = c}
    BY <1>2 DEF ObjectBodies
  <2> QED
    BY <2>1, <2>2, Zenon DEF HowMany
<1>5. /\ h2.obj = [o \in Ids |-> IF o \in S THEN NoObject ELSE [h.obj[o] EXCEPT !.refs = @ - References(h, S, o)]]
      /\ h2.msg = [m \in Ids |-> IF m \in gm THEN NoMessage ELSE h.msg[m]]
      /\ h2.body = [b \in Ids |-> h.body[b] - Cardinality({m \in gm : h.msg[m].body = b})
                                             - Cardinality({c \in gb : h.bobj[c].body = b})]
      /\ h2.bobj = [c \in Ids |-> IF c \in gb THEN NoBodyObject
                       ELSE [h.bobj[c] EXCEPT !.refs = @ - Cardinality({o \in S : h.obj[o].body = c})]]
      /\ DOMAIN h2 = {"obj", "msg", "body", "bobj"}
  <2>1. g.objects = S
    BY DEF Gone
  <2> HIDE DEF S
  <2> QED
    BY <2>1 DEF Collected, S
<1>6. gm \subseteq Ids /\ gb \subseteq Ids
  BY <1>1, <1>2, <1>3, <1>4, HeapTypes
<1> HIDE DEF S, g, gm, gb, h2
<1>c. \A f, x : /\ HowMany(f, S, x) \in Nat /\ HowMany(f, Ids \ S, x) \in Nat
                /\ HowMany(f, Ids, x) = HowMany(f, S, x) + HowMany(f, Ids \ S, x)
                /\ HowMany(f, Ids \ S, x) = 0 <=> \A i \in Ids \ S : f[i] # x
  <2>1. IsFiniteSet(Ids) /\ IsFiniteSet(S) /\ IsFiniteSet(Ids \ S) /\ S \subseteq Ids
    BY <1>2, IdsFinite, FS_Subset, Zenon
  <2> TAKE f, x
  <2> QED
    BY <2>1, HowManyNat, HowManySplit
\* What is dropped, nothing that stays refers to.
<1>7. ASSUME NEW p \in S
      PROVE  /\ \A o \in Ids \ S : h.obj[o].parent # p /\ h.obj[o].iterator # p
             /\ HowMany(ObjectLinks(h), Ids \ S, p) = 0 /\ HowMany(Iterators(h), Ids \ S, p) = 0
             /\ r[p] = 0
  <2>1. h.obj[p].refs <= References(h, S, p) /\ p \in Ids
    BY <1>2, Zenon DEF Without
  <2>2. /\ References(h, S, p) = HowMany(ObjectLinks(h), S, p) + HowMany(Iterators(h), S, p)
        /\ h.obj[p].refs >= HowMany(ObjectLinks(h), Ids, p) + HowMany(Iterators(h), Ids, p) + r[p]
    BY <1>1, <1>2, <2>1, ReferencesCount DEF Counted
  <2>4. r[p] \in Nat /\ h.obj[p].refs \in Nat
    BY <1>1, <2>1, HeapTypes
  <2>5. HowMany(ObjectLinks(h), Ids \ S, p) = 0 /\ HowMany(Iterators(h), Ids \ S, p) = 0 /\ r[p] = 0
    <3> DEFINE a == HowMany(ObjectLinks(h), S, p)
               b == HowMany(ObjectLinks(h), Ids \ S, p)
               c == HowMany(Iterators(h), S, p)
               d == HowMany(Iterators(h), Ids \ S, p)
    <3>1. HowMany(ObjectLinks(h), Ids, p) = a + b /\ HowMany(Iterators(h), Ids, p) = c + d
      BY <1>c, Zenon
    <3>2. a \in Nat /\ b \in Nat /\ c \in Nat /\ d \in Nat
      BY <1>c, Zenon
    <3>3. h.obj[p].refs <= a + c /\ h.obj[p].refs >= a + b + (c + d) + r[p]
      BY <2>1, <2>2, <3>1
    <3> HIDE DEF a, b, c, d
    <3>4. b = 0 /\ d = 0 /\ r[p] = 0
      BY <2>4, <3>2, <3>3
    <3> QED
      BY <3>4 DEF b, d
  <2>6. \A o \in Ids \ S : ObjectLinks(h)[o] # p /\ Iterators(h)[o] # p
    BY <1>c, <2>5
  <2> QED
    BY <2>5, <2>6 DEF ObjectLinks, Iterators
<1>8. ASSUME NEW o \in Ids \ S
      PROVE  /\ References(h, S, o) \in Nat /\ References(h, S, o) <= h.obj[o].refs
             /\ o \in Live(h) => References(h, S, o) < h.obj[o].refs
             /\ h.obj[o].refs - References(h, S, o) >=
                  HowMany(ObjectLinks(h), Ids \ S, o) + HowMany(Iterators(h), Ids \ S, o) + r[o]
  <2>1. /\ References(h, S, o) = HowMany(ObjectLinks(h), S, o) + HowMany(Iterators(h), S, o)
        /\ h.obj[o].refs >= HowMany(ObjectLinks(h), Ids, o) + HowMany(Iterators(h), Ids, o) + r[o]
    BY <1>1, <1>2, ReferencesCount DEF Counted
  <2>2. \A f : /\ HowMany(f, S, o) \in Nat /\ HowMany(f, Ids \ S, o) \in Nat
               /\ HowMany(f, Ids, o) = HowMany(f, S, o) + HowMany(f, Ids \ S, o)
    BY <1>c
  <2>3. r[o] \in Nat /\ h.obj[o].refs \in Nat
    BY <1>1, HeapTypes
  <2>4. o \in Live(h) => ~(h.obj[o].refs <= References(h, S, o))
    BY <1>2, Zenon DEF Without
  <2> QED
    BY <2>1, <2>2, <2>3, <2>4
<1>9. /\ \A o \in S : h2.obj[o] = NoObject
      /\ \A o \in Ids \ S : h2.obj[o] = [h.obj[o] EXCEPT !.refs = @ - References(h, S, o)]
      /\ \A o \in Ids \ S : /\ h2.obj[o].refs = h.obj[o].refs - References(h, S, o)
                            /\ h2.obj[o].message = h.obj[o].message /\ h2.obj[o].parent = h.obj[o].parent
                            /\ h2.obj[o].iterator = h.obj[o].iterator /\ h2.obj[o].body = h.obj[o].body
      /\ \A m \in gm : h2.msg[m] = NoMessage
      /\ \A m \in Ids \ gm : h2.msg[m] = h.msg[m]
      /\ \A c \in gb : h2.bobj[c] = NoBodyObject
      /\ \A c \in Ids \ gb : /\ h2.bobj[c].refs = h.bobj[c].refs - HowMany(ObjectBodies(h), S, c)
                             /\ h2.bobj[c].body = h.bobj[c].body
      /\ \A b \in Ids : h2.body[b] = h.body[b] - HowMany(MessageBodies(h), gm, b) - HowMany(BodiesOf(h), gb, b)
  <2>1. \A o \in Ids : /\ h.obj[o] \in [refs : Nat, message : Ids \cup {None}, parent : Ids \cup {None},
                                            body : Ids \cup {None}, iterator : Ids \cup {None}]
                       /\ h.bobj[o] \in [refs : Nat, body : Ids \cup {None}]
    BY <1>1, HeapTypes
  <2>2. \A b \in Ids : /\ Cardinality({m \in gm : h.msg[m].body = b}) = HowMany(MessageBodies(h), gm, b)
                        /\ Cardinality({c \in gb : h.bobj[c].body = b}) = HowMany(BodiesOf(h), gb, b)
                        /\ Cardinality({o \in S : h.obj[o].body = b}) = HowMany(ObjectBodies(h), S, b)
    <3>1. \A b : /\ {m \in gm : h.msg[m].body = b} = {m \in gm : MessageBodies(h)[m] = b}
                 /\ {c \in gb : h.bobj[c].body = b} = {c \in gb : BodiesOf(h)[c] = b}
                 /\ {o \in S : h.obj[o].body = b} = {o \in S : ObjectBodies(h)[o] = b}
      BY <1>2, <1>6 DEF ObjectBodies, MessageBodies, BodiesOf
    <3> QED
      BY <3>1, Zenon DEF HowMany
  <2>3. ASSUME NEW o \in Ids \ S
        PROVE  /\ h2.obj[o] = [h.obj[o] EXCEPT !.refs = @ - References(h, S, o)]
               /\ h2.obj[o].refs = h.obj[o].refs - References(h, S, o)
               /\ h2.obj[o].message = h.obj[o].message /\ h2.obj[o].parent = h.obj[o].parent
               /\ h2.obj[o].iterator = h.obj[o].iterator /\ h2.obj[o].body = h.obj[o].body
    <3>1. h2.obj[o] = [h.obj[o] EXCEPT !.refs = @ - References(h, S, o)]
      BY <1>5
    <3> QED
      BY <2>1, <3>1
  <2>4. \A o \in S : h2.obj[o] = NoObject
    BY <1>2, <1>5
  <2>5. /\ \A m \in gm : h2.msg[m] = NoMessage
        /\ \A m \in Ids \ gm : h2.msg[m] = h.msg[m]
        /\ \A c \in gb : h2.bobj[c] = NoBodyObject
    BY <1>5, <1>6
  <2>6. ASSUME NEW c \in Ids \ gb
        PROVE  h2.bobj[c].refs = h.bobj[c].refs - HowMany(ObjectBodies(h), S, c) /\ h2.bobj[c].body = h.bobj[c].body
    <3>1. h2.bobj[c] = [h.bobj[c] EXCEPT !.refs = @ - Cardinality({o \in S : h.obj[o].body = c})]
      BY <1>5
    <3> QED
      BY <2>1, <2>2, <3>1, Zenon
  <2>7. \A b \in Ids : h2.body[b] = h.body[b] - HowMany(MessageBodies(h), gm, b) - HowMany(BodiesOf(h), gb, b)
    BY <1>5, <2>2, Zenon
  <2> QED
    BY <2>3, <2>4, <2>5, <2>6, <2>7, Zenon
<1>10. ASSUME NEW c \in Ids
       PROVE  /\ HowMany(ObjectBodies(h), S, c) \in Nat /\ HowMany(ObjectBodies(h), Ids \ S, c) \in Nat
              /\ h.bobj[c].refs \in Nat
              /\ h.bobj[c].refs = br[c] + HowMany(ObjectBodies(h), S, c) + HowMany(ObjectBodies(h), Ids \ S, c)
              /\ c \in gb <=> br[c] = 0 /\ HowMany(ObjectBodies(h), Ids \ S, c) = 0
              /\ c \in gb => \A o \in Ids \ S : h.obj[o].body # c
  <2>1. /\ HowMany(ObjectBodies(h), S, c) \in Nat /\ HowMany(ObjectBodies(h), Ids \ S, c) \in Nat
        /\ HowMany(ObjectBodies(h), Ids, c) = HowMany(ObjectBodies(h), S, c) + HowMany(ObjectBodies(h), Ids \ S, c)
        /\ HowMany(ObjectBodies(h), Ids \ S, c) = 0 <=> \A o \in Ids \ S : ObjectBodies(h)[o] # c
    BY <1>c
  <2>2. h.bobj[c].refs = br[c] + HowMany(ObjectBodies(h), Ids, c) /\ br[c] \in Nat /\ h.bobj[c].refs \in Nat
    BY <1>1, HeapTypes DEF Counted
  <2>3. c \in gb <=> br[c] = 0 /\ HowMany(ObjectBodies(h), Ids \ S, c) = 0
    BY <1>4, <2>1, <2>2
  <2>4. c \in gb => \A o \in Ids \ S : h.obj[o].body # c
    BY <2>1, <2>3 DEF ObjectBodies
  <2> QED
    BY <2>1, <2>2, <2>3, <2>4

<1>11. /\ \A o \in Ids : /\ h.obj[o] \in [refs : Nat, message : Ids \cup {None}, parent : Ids \cup {None},
                                          body : Ids \cup {None}, iterator : Ids \cup {None}]
                         /\ h.obj[o].refs \in Nat
                         /\ h.msg[o] \in [kind : Kinds \cup {"free"}, parent : Ids \cup {None}, body : Ids \cup {None}]
                         /\ h.body[o] \in Nat
                         /\ h.bobj[o] \in [refs : Nat, body : Ids \cup {None}]
       /\ \A o \in Live(h) : h.obj[o].message \in Messages(h) /\ h.obj[o].message # None /\ o \in Ids
       /\ \A o \in Ids \ Live(h) : h.obj[o] = NoObject
       /\ Messages(h) \subseteq Ids /\ None \notin Ids
  <2>1. None \notin Ids
    BY IdsFinite
  <2>2. Messages(h) \subseteq Ids
    BY DEF Messages
  <2>3. \A o \in Live(h) : h.obj[o].message \in Messages(h)
    BY <1>1 DEF Built
  <2>4. \A o \in Live(h) : o \in Ids
    BY DEF Live
  <2>5. \A o \in Ids \ Live(h) : h.obj[o] = NoObject
    BY DEF Live
  <2> QED
    BY <1>1, <2>1, <2>2, <2>3, <2>4, <2>5, HeapTypes
<1>12. Live(h2) = Live(h) \ S
  <2>1. ASSUME NEW o \in Ids \ S PROVE h2.obj[o] = NoObject <=> h.obj[o] = NoObject
    <3>1. CASE o \in Live(h)
      <4>1. h2.obj[o].message # None
        BY <1>9, <1>11, <3>1
      <4>2. h2.obj[o] # NoObject /\ h.obj[o] # NoObject
        BY <1>11, <3>1, <4>1 DEF NoObject
      <4> QED
        BY <4>2
    <3>2. CASE o \notin Live(h)
      <4>1. h.obj[o] = NoObject
        BY <1>11, <3>2
      <4>2. References(h, S, o) = 0
        BY <1>8, <4>1 DEF NoObject
      <4>3. [NoObject EXCEPT !.refs = 0 - 0] = NoObject
        BY DEF NoObject
      <4>4. h2.obj[o] = [NoObject EXCEPT !.refs = NoObject.refs - 0]
        BY <1>9, <4>1, <4>2
      <4>5. NoObject.refs = 0
        BY DEF NoObject
      <4> QED
        BY <4>1, <4>3, <4>4, <4>5
    <3> QED
      BY <3>1, <3>2
  <2>2. \A o \in S : h2.obj[o] = NoObject
    BY <1>9
  <2> QED
    BY <1>2, <2>1, <2>2 DEF Live
<1>13. Messages(h2) = Messages(h) \ gm
  <2>1. \A m \in gm : h2.msg[m].kind = "free"
    BY <1>9 DEF NoMessage
  <2>2. \A m \in Ids \ gm : h2.msg[m].kind = h.msg[m].kind
    BY <1>9
  <2> QED
    BY <1>6, <2>1, <2>2 DEF Messages
<1>14. /\ \A o \in Live(h) \ S : h.obj[o].message \notin gm /\ h2.obj[o].message = h.obj[o].message
                                 /\ h2.msg[h.obj[o].message] = h.msg[h.obj[o].message]
       /\ Orphans(h2) = Orphans(h) /\ Orphans(h) \cap gm = {}
  <2>1. ASSUME NEW o \in Live(h) \ S
        PROVE  h.obj[o].message \notin gm /\ h2.obj[o].message = h.obj[o].message /\ h2.msg[h.obj[o].message] = h.msg[h.obj[o].message]
    <3>1. \A p \in S : h.obj[p].message # h.obj[o].message
      BY <1>1, <1>2 DEF Built
    <3>2. h.obj[o].message \notin gm
      BY <1>3, <3>1
    <3> QED
      BY <1>9, <1>11, <3>2
  <2>2. gm = {h.obj[o].message : o \in S}
    BY <1>2, <1>3, <1>11
  <2>3. {h2.obj[o].message : o \in Live(h2)} = {h.obj[o].message : o \in Live(h) \ S}
    BY <1>12, <2>1
  <2>4. Orphans(h2) = (Messages(h) \ gm) \ {h.obj[o].message : o \in Live(h) \ S}
    BY <1>13, <2>3, Zenon DEF Orphans
  <2>5. Orphans(h) = Messages(h) \ {h.obj[o].message : o \in Live(h)}
    BY DEF Orphans
  <2>6. {h.obj[o].message : o \in Live(h)} = gm \cup {h.obj[o].message : o \in Live(h) \ S}
    BY <1>2, <2>2
  <2> QED
    BY <2>1, <2>4, <2>5, <2>6
<1>15. h2 \in Heap
  <2>1. ASSUME NEW o \in Ids
        PROVE  h2.obj[o] \in [refs : Nat, message : Ids \cup {None}, parent : Ids \cup {None},
                              body : Ids \cup {None}, iterator : Ids \cup {None}]
    <3>1. CASE o \in S
      BY <1>9, <3>1 DEF NoObject
    <3>2. CASE o \notin S
      <4>1. h.obj[o].refs - References(h, S, o) \in Nat
        BY <1>8, <1>11, <3>2
      <4> QED
        <5>1. h2.obj[o] = [refs |-> h.obj[o].refs - References(h, S, o), message |-> h.obj[o].message,
                           parent |-> h.obj[o].parent, body |-> h.obj[o].body, iterator |-> h.obj[o].iterator]
          <6>1. o \in Ids \ S /\ h.obj[o] \in [refs : Nat, message : Ids \cup {None}, parent : Ids \cup {None},
                                            body : Ids \cup {None}, iterator : Ids \cup {None}]
            BY <1>11, <3>2
          <6>2. h2.obj[o] = [h.obj[o] EXCEPT !.refs = h.obj[o].refs - References(h, S, o)]
            BY <1>9, <6>1
          <6> QED
            BY <6>1, <6>2, WithRefs
        <5>2. /\ h.obj[o].message \in Ids \cup {None} /\ h.obj[o].parent \in Ids \cup {None}
              /\ h.obj[o].body \in Ids \cup {None} /\ h.obj[o].iterator \in Ids \cup {None}
          BY <1>11
        <5> QED
          BY <4>1, <5>1, <5>2
    <3> QED
      BY <3>1, <3>2
  <2>2. ASSUME NEW m \in Ids
        PROVE  h2.msg[m] \in [kind : Kinds \cup {"free"}, parent : Ids \cup {None}, body : Ids \cup {None}]
    BY <1>9, <1>11 DEF NoMessage
  <2>3. ASSUME NEW b \in Ids PROVE h2.body[b] \in Nat
    <3>1. h.body[b] = HowMany(MessageBodies(h), Ids, b) + HowMany(BodiesOf(h), Ids, b)
      BY <1>1 DEF Counted
    <3>2. /\ HowMany(MessageBodies(h), gm, b) \in Nat /\ HowMany(BodiesOf(h), gb, b) \in Nat
          /\ HowMany(MessageBodies(h), gm, b) <= HowMany(MessageBodies(h), Ids, b)
          /\ HowMany(BodiesOf(h), gb, b) <= HowMany(BodiesOf(h), Ids, b)
          /\ HowMany(MessageBodies(h), Ids, b) \in Nat /\ HowMany(BodiesOf(h), Ids, b) \in Nat
      <4>1. IsFiniteSet(Ids) /\ IsFiniteSet(gm) /\ IsFiniteSet(gb)
        BY <1>6, IdsFinite, FS_Subset, Zenon
      <4> QED
        BY <1>6, <4>1, HowManyNat, HowManySubset
    <3> QED
      BY <1>9, <3>1, <3>2
  <2>4. ASSUME NEW c \in Ids PROVE h2.bobj[c] \in [refs : Nat, body : Ids \cup {None}]
    <3>1. CASE c \in gb
      BY <1>9, <3>1 DEF NoBodyObject
    <3>2. CASE c \notin gb
      <4>1. h.bobj[c].refs - HowMany(ObjectBodies(h), S, c) \in Nat
        <5>1. br[c] \in Nat
          OBVIOUS
        <5> QED
          BY <1>10, <5>1
      <4>2. h2.bobj[c] = [h.bobj[c] EXCEPT !.refs = @ - Cardinality({o \in S : h.obj[o].body = c})]
        BY <1>5, <3>2
      <4>3. h2.bobj[c].refs = h.bobj[c].refs - HowMany(ObjectBodies(h), S, c) /\ h2.bobj[c].body = h.bobj[c].body
        BY <1>9, <3>2
      <4> QED
        BY <1>11, <4>1, <4>2, <4>3
    <3> QED
      BY <3>1, <3>2
  <2>5. /\ h2.obj \in [Ids -> [refs : Nat, message : Ids \cup {None}, parent : Ids \cup {None},
                               body : Ids \cup {None}, iterator : Ids \cup {None}]]
        /\ h2.msg \in [Ids -> [kind : Kinds \cup {"free"}, parent : Ids \cup {None}, body : Ids \cup {None}]]
        /\ h2.body \in [Ids -> Nat]
        /\ h2.bobj \in [Ids -> [refs : Nat, body : Ids \cup {None}]]
    <3>1. /\ h2.obj = [o \in Ids |-> h2.obj[o]] /\ h2.msg = [o \in Ids |-> h2.msg[o]]
          /\ h2.body = [o \in Ids |-> h2.body[o]] /\ h2.bobj = [o \in Ids |-> h2.bobj[o]]
      BY <1>5
    <3> QED
      BY <2>1, <2>2, <2>3, <2>4, <3>1
  <2>6. h2 = [obj |-> h2.obj, msg |-> h2.msg, body |-> h2.body, bobj |-> h2.bobj]
    BY DEF h2, Collected
  <2> QED
    BY <2>5, <2>6 DEF Heap
<1>16. ASSUME NEW o \in Live(h) \ S
       PROVE  LET p == h.obj[o].parent
                  mp == h.msg[h.obj[o].message].parent
              IN IF p # None THEN p \in Live(h) \ S /\ mp = h.obj[p].message
                 ELSE mp \in Orphans(h) \cup {None}
  <2> DEFINE p == h.obj[o].parent
  <2>1. CASE p # None
    <3>1. p \in Ids /\ o \in Ids \ S
      BY <1>11, <2>1
    <3>2. p \notin S
      BY <1>7, <3>1
    <3>3. HowMany(ObjectLinks(h), Ids, p) # 0
      <4>1. ObjectLinks(h)[o] = p
        BY <3>1 DEF ObjectLinks
      <4> QED
        BY <3>1, <4>1, IdsFinite, HowManyNat
    <3>4. h.obj[p].refs # 0
      <4>1. /\ HowMany(ObjectLinks(h), Ids, p) \in Nat /\ HowMany(Iterators(h), Ids, p) \in Nat
            /\ r[p] \in Nat /\ h.obj[p].refs \in Nat
        BY <1>11, <3>1, IdsFinite, HowManyNat, Zenon
      <4>2. h.obj[p].refs >= HowMany(ObjectLinks(h), Ids, p) + HowMany(Iterators(h), Ids, p) + r[p]
        BY <1>1, <3>1 DEF Counted
      <4> QED
        BY <3>3, <4>1, <4>2
    <3>5. p \in Live(h)
      BY <1>11, <3>1, <3>4 DEF NoObject
    <3> QED
      BY <1>1, <2>1, <3>2, <3>5 DEF Agree
  <2>2. CASE p = None
    BY <1>1, <2>2 DEF Agree
  <2> QED
    BY <2>1, <2>2
<1>17. Agree(h2)
  <2>1. ASSUME NEW o \in Live(h2)
        PROVE  LET p == h2.obj[o].parent
                   mp == h2.msg[h2.obj[o].message].parent
               IN IF p # None THEN mp = h2.obj[p].message ELSE mp \in Orphans(h2) \cup {None}
    <3>1. o \in Live(h) \ S /\ o \in Ids \ S
      BY <1>11, <1>12
    <3>2. h2.obj[o].parent = h.obj[o].parent /\ h2.msg[h2.obj[o].message].parent = h.msg[h.obj[o].message].parent
      BY <1>9, <1>14, <3>1
    <3>3. \A p \in Live(h) \ S : h2.obj[p].message = h.obj[p].message
      BY <1>14
    <3> QED
      BY <1>14, <1>16, <3>1, <3>2, <3>3
  <2>2. ASSUME NEW m \in Orphans(h2) PROVE h2.msg[m].parent \in Orphans(h2) \cup {None}
    <3>1. m \in Orphans(h) /\ m \notin gm /\ m \in Ids
      BY <1>11, <1>14 DEF Orphans
    <3>2. h2.msg[m] = h.msg[m]
      BY <1>9, <3>1
    <3> QED
      BY <1>1, <1>14, <3>1, <3>2 DEF Agree
  <2> QED
    BY <2>1, <2>2 DEF Agree
<1>18. Built(h2)
  <2>1. \A o \in Live(h2) : h2.obj[o].message \in Messages(h2)
    BY <1>11, <1>12, <1>13, <1>14
  <2>2. \A o, p \in Live(h2) : h2.obj[o].message = h2.obj[p].message => o = p
    BY <1>1, <1>12, <1>14 DEF Built
  <2>3. ASSUME NEW m \in Messages(h2)
        PROVE  h2.msg[m].parent \in Messages(h2) \cup {None} /\ h2.msg[m].body \in Ids
    <3>1. m \in Messages(h) /\ m \in Ids \ gm /\ h2.msg[m] = h.msg[m]
      BY <1>9, <1>11, <1>13
    <3>2. h.msg[m].body \in Ids
      BY <1>1, <3>1 DEF Built
    <3>3. Orphans(h) \subseteq Messages(h2)
      BY <1>13, <1>14 DEF Orphans
    <3>4. CASE m \in Orphans(h)
      BY <1>1, <3>1, <3>2, <3>3, <3>4 DEF Agree
    <3>5. CASE m \notin Orphans(h)
      <4>1. PICK o \in Live(h) : h.obj[o].message = m
        BY <3>1, <3>5 DEF Orphans
      <4>2. o \notin S
        BY <1>3, <1>11, <3>1, <4>1
      <4>3. \A p \in Live(h) \ S : h.obj[p].message \in Messages(h2)
        BY <1>11, <1>13, <1>14
      <4> QED
        BY <1>16, <3>1, <3>2, <3>3, <4>1, <4>2, <4>3
    <3> QED
      BY <3>4, <3>5
  <2>4. \A m \in Ids \ Messages(h2) : h2.msg[m] = NoMessage
    BY <1>1, <1>6, <1>9, <1>13 DEF Built
  <2>5. Acyclic(MessageLinks(h2))
    <3>1. \A x \in Ids : MessageLinks(h2)[x] \in {MessageLinks(h)[x], None}
      BY <1>9 DEF MessageLinks, NoMessage
    <3>2. MessageLinks(h2) \in Links
      BY <1>15, HeapTypes
    <3>3. Acyclic(MessageLinks(h))
      BY <1>1 DEF Built
    <3> QED
      BY <3>1, <3>2, <3>3, CutAcyclic
  <2> QED
    BY <1>15, <2>1, <2>2, <2>3, <2>4, <2>5 DEF Built
<1>19. Counted(h2, r, br)
  <2>1. ASSUME NEW o \in Ids
        PROVE  h2.obj[o].refs >= HowMany(ObjectLinks(h2), Ids, o) + HowMany(Iterators(h2), Ids, o) + r[o]
    <3>1. HowMany(ObjectLinks(h2), Ids, o) = HowMany(ObjectLinks(h), Ids \ S, o)
      <4>1. /\ \A i \in Ids \ S : ObjectLinks(h2)[i] = ObjectLinks(h)[i]
            /\ \A i \in S : ObjectLinks(h2)[i] # o
        BY <1>2, <1>9, <1>11 DEF ObjectLinks, NoObject
      <4>2. {i \in Ids : ObjectLinks(h2)[i] = o} = {i \in Ids \ S : ObjectLinks(h)[i] = o}
        BY <4>1
      <4> QED
        BY <4>2 DEF HowMany
    <3>2. HowMany(Iterators(h2), Ids, o) = HowMany(Iterators(h), Ids \ S, o)
      <4>1. /\ \A i \in Ids \ S : Iterators(h2)[i] = Iterators(h)[i]
            /\ \A i \in S : Iterators(h2)[i] # o
        BY <1>2, <1>9, <1>11 DEF Iterators, NoObject
      <4>2. {i \in Ids : Iterators(h2)[i] = o} = {i \in Ids \ S : Iterators(h)[i] = o}
        BY <4>1
      <4> QED
        BY <4>2 DEF HowMany
    <3>3. CASE o \in S
      <4>1. h2.obj[o].refs = 0
        BY <1>9, <3>3 DEF NoObject
      <4>2. HowMany(ObjectLinks(h), Ids \ S, o) = 0 /\ HowMany(Iterators(h), Ids \ S, o) = 0 /\ r[o] = 0
        BY <1>7, <3>3, Zenon
      <4> QED
        BY <3>1, <3>2, <4>1, <4>2
    <3>4. CASE o \notin S
      BY <1>8, <1>9, <3>1, <3>2, <3>4, Zenon
    <3> QED
      BY <3>3, <3>4
  <2>2. ASSUME NEW c \in Ids PROVE h2.bobj[c].refs = br[c] + HowMany(ObjectBodies(h2), Ids, c)
    <3>1. HowMany(ObjectBodies(h2), Ids, c) = HowMany(ObjectBodies(h), Ids \ S, c)
      <4>1. /\ \A i \in Ids \ S : ObjectBodies(h2)[i] = ObjectBodies(h)[i]
            /\ \A i \in S : ObjectBodies(h2)[i] # c
        BY <1>2, <1>9, <1>11 DEF ObjectBodies, NoObject
      <4>2. {i \in Ids : ObjectBodies(h2)[i] = c} = {i \in Ids \ S : ObjectBodies(h)[i] = c}
        BY <4>1
      <4> QED
        BY <4>2 DEF HowMany
    <3>2. br[c] \in Nat
      OBVIOUS
    <3>3. CASE c \in gb
      <4>1. h2.bobj[c].refs = 0
        BY <1>9, <3>3 DEF NoBodyObject
      <4>2. br[c] = 0 /\ HowMany(ObjectBodies(h), Ids \ S, c) = 0
        BY <1>10, <3>3, Zenon
      <4> QED
        BY <3>1, <4>1, <4>2
    <3>4. CASE c \notin gb
      <4>1. h2.bobj[c].refs = h.bobj[c].refs - HowMany(ObjectBodies(h), S, c)
        BY <1>9, <3>4
      <4>2. /\ HowMany(ObjectBodies(h), S, c) \in Nat /\ HowMany(ObjectBodies(h), Ids \ S, c) \in Nat
            /\ h.bobj[c].refs = br[c] + HowMany(ObjectBodies(h), S, c) + HowMany(ObjectBodies(h), Ids \ S, c)
        BY <1>10, Zenon
      <4> QED
        BY <3>1, <3>2, <4>1, <4>2
    <3> QED
      BY <3>3, <3>4
  <2>3. ASSUME NEW b \in Ids
        PROVE  h2.body[b] = HowMany(MessageBodies(h2), Ids, b) + HowMany(BodiesOf(h2), Ids, b)
    <3>1. HowMany(MessageBodies(h2), Ids, b) = HowMany(MessageBodies(h), Ids \ gm, b)
      <4>1. /\ \A i \in Ids \ gm : MessageBodies(h2)[i] = MessageBodies(h)[i]
            /\ \A i \in gm : MessageBodies(h2)[i] # b
        BY <1>6, <1>9, <1>11 DEF MessageBodies, NoMessage
      <4>2. {i \in Ids : MessageBodies(h2)[i] = b} = {i \in Ids \ gm : MessageBodies(h)[i] = b}
        BY <4>1
      <4> QED
        BY <4>2 DEF HowMany
    <3>2. HowMany(BodiesOf(h2), Ids, b) = HowMany(BodiesOf(h), Ids \ gb, b)
      <4>1. /\ \A i \in Ids \ gb : BodiesOf(h2)[i] = BodiesOf(h)[i]
            /\ \A i \in gb : BodiesOf(h2)[i] # b
        BY <1>6, <1>9, <1>11 DEF BodiesOf, NoBodyObject
      <4>2. {i \in Ids : BodiesOf(h2)[i] = b} = {i \in Ids \ gb : BodiesOf(h)[i] = b}
        BY <4>1
      <4> QED
        BY <4>2 DEF HowMany
    <3>3. h.body[b] = HowMany(MessageBodies(h), Ids, b) + HowMany(BodiesOf(h), Ids, b)
      BY <1>1 DEF Counted
    <3>4. /\ HowMany(MessageBodies(h), Ids, b) = HowMany(MessageBodies(h), gm, b) + HowMany(MessageBodies(h), Ids \ gm, b)
          /\ HowMany(BodiesOf(h), Ids, b) = HowMany(BodiesOf(h), gb, b) + HowMany(BodiesOf(h), Ids \ gb, b)
          /\ HowMany(MessageBodies(h), gm, b) \in Nat /\ HowMany(MessageBodies(h), Ids \ gm, b) \in Nat
          /\ HowMany(BodiesOf(h), gb, b) \in Nat /\ HowMany(BodiesOf(h), Ids \ gb, b) \in Nat
      <4>1. IsFiniteSet(Ids) /\ IsFiniteSet(gm) /\ IsFiniteSet(gb) /\ IsFiniteSet(Ids \ gm) /\ IsFiniteSet(Ids \ gb)
        BY <1>6, IdsFinite, FS_Subset, Zenon
      <4> QED
        BY <1>6, <4>1, HowManyNat, HowManySplit
    <3>5. h2.body[b] = h.body[b] - HowMany(MessageBodies(h), gm, b) - HowMany(BodiesOf(h), gb, b)
      BY <1>9
    <3> QED
      BY <3>1, <3>2, <3>3, <3>4, <3>5
  <2> QED
    BY <2>1, <2>2, <2>3 DEF Counted
<1>20. Freed(h2)
  <2>1. ASSUME NEW o \in Live(h2) PROVE h2.obj[o].refs > 0
    BY <1>8, <1>9, <1>11, <1>12
  <2>2. ASSUME NEW c \in Ids, h2.bobj[c].refs = 0 PROVE h2.bobj[c] = NoBodyObject
    <3>1. br[c] \in Nat
      OBVIOUS
    <3>2. c \in gb
      BY <1>9, <1>10, <2>2, <3>1
    <3> QED
      BY <1>9, <3>2
  <2> QED
    BY <2>1, <2>2 DEF Freed
<1>21. Keeps(h2, h)
  <2>1. ASSUME NEW o \in Live(h2)
        PROVE  /\ [h2.obj[o] EXCEPT !.refs = 0] = [h.obj[o] EXCEPT !.refs = 0]
               /\ h2.msg[h2.obj[o].message] = h.msg[h.obj[o].message]
               /\ h2.obj[o].body # None => h2.bobj[h2.obj[o].body].body = h.bobj[h.obj[o].body].body
    <3>1. o \in Live(h) \ S /\ o \in Ids \ S
      BY <1>11, <1>12
    <3>2. [h2.obj[o] EXCEPT !.refs = 0] = [h.obj[o] EXCEPT !.refs = 0]
      <4>1. h2.obj[o] = [h.obj[o] EXCEPT !.refs = h.obj[o].refs - References(h, S, o)]
        BY <1>9, <3>1
      <4>2. h.obj[o] \in [refs : Nat, message : Ids \cup {None}, parent : Ids \cup {None},
                          body : Ids \cup {None}, iterator : Ids \cup {None}]
        BY <1>11, <3>1
      <4> QED
        BY <4>1, <4>2, Zenon
    <3>3. h2.obj[o].body = h.obj[o].body /\ h.obj[o].body \in Ids \cup {None}
      BY <1>9, <1>11, <3>1
    <3>4. h.obj[o].body # None => h.obj[o].body \in Ids \ gb
      BY <1>10, <3>1, <3>3
    <3> QED
      BY <1>9, <1>14, <3>1, <3>2, <3>3, <3>4
  <2> QED
    BY <1>12, <1>14, <2>1 DEF Keeps
<1> QED
  BY <1>17, <1>18, <1>19, <1>20, <1>21 DEF Sound, h2

\* The body object of a message's object has the body of the message.
Matched(h) ==
    \A o \in Live(h) :
        h.obj[o].body # None => h.bobj[h.obj[o].body].body = h.msg[h.obj[o].message].body

LEMMA KeepsMatched ==
  ASSUME NEW h, NEW before, Keeps(h, before), h \in Heap, before \in Heap, Matched(before)
  PROVE  Matched(h)
<1> SUFFICES ASSUME NEW o \in Live(h), h.obj[o].body # None
             PROVE  h.bobj[h.obj[o].body].body = h.msg[h.obj[o].message].body
  BY DEF Matched
<1>1. /\ o \in Live(before) /\ o \in Ids
      /\ [h.obj[o] EXCEPT !.refs = 0] = [before.obj[o] EXCEPT !.refs = 0]
      /\ h.msg[h.obj[o].message] = before.msg[before.obj[o].message]
      /\ h.bobj[h.obj[o].body].body = before.bobj[before.obj[o].body].body
  BY DEF Keeps, Live
<1>2. h.obj[o].body = before.obj[o].body
  <2>1. /\ h.obj[o] \in [refs : Nat, message : Ids \cup {None}, parent : Ids \cup {None},
                         body : Ids \cup {None}, iterator : Ids \cup {None}]
        /\ before.obj[o] \in [refs : Nat, message : Ids \cup {None}, parent : Ids \cup {None},
                         body : Ids \cup {None}, iterator : Ids \cup {None}]
    BY <1>1, HeapTypes
  <2>2. [h.obj[o] EXCEPT !.refs = 0].body = h.obj[o].body /\ [before.obj[o] EXCEPT !.refs = 0].body = before.obj[o].body
    BY <2>1
  <2> QED
    BY <1>1, <2>2, Zenon
<1> QED
  BY <1>1, <1>2 DEF Matched

\* What the references in a sound heap lead to.
LEMMA SoundLives ==
  ASSUME NEW h, NEW r \in [Ids -> Nat], NEW br \in [Ids -> Nat], Sound(h, r, br)
  PROVE  /\ h \in Heap /\ Live(h) \subseteq Ids /\ Messages(h) \subseteq Ids
         /\ \A o \in Ids : /\ h.obj[o].parent \in Live(h) \cup {None}
                           /\ h.obj[o].iterator \in Live(h) \cup {None}
                           /\ r[o] > 0 => o \in Live(h)
         /\ \A o \in Ids \ Live(h) : h.obj[o] = NoObject
         /\ \A o \in Live(h) : h.obj[o].message \in Messages(h) /\ h.obj[o].message # None
         /\ \A o \in Ids : h.obj[o].body # None => h.bobj[h.obj[o].body].refs > 0
         /\ \A c \in Ids : /\ br[c] > 0 => h.bobj[c].refs > 0
                           /\ h.bobj[c].body # None => h.body[h.bobj[c].body] > 0
         /\ \A m \in Messages(h) : h.body[h.msg[m].body] > 0
<1>1. h \in Heap /\ Built(h) /\ Agree(h) /\ Counted(h, r, br) /\ None \notin Ids
  BY IdsFinite, Zenon DEF Sound, Built
<1>2. \A o \in Ids \ Live(h) : h.obj[o] = NoObject
  BY DEF Live
<1>3. \A f, x : HowMany(f, Ids, x) \in Nat /\ (HowMany(f, Ids, x) = 0 <=> \A i \in Ids : f[i] # x)
  BY IdsFinite, HowManyNat, Zenon
<1>4. ASSUME NEW o \in Ids
      PROVE  /\ h.obj[o].refs \in Nat /\ r[o] \in Nat
             /\ HowMany(ObjectLinks(h), Ids, o) # 0 \/ HowMany(Iterators(h), Ids, o) # 0 \/ r[o] > 0 => o \in Live(h)
  <2>1. h.obj[o].refs >= HowMany(ObjectLinks(h), Ids, o) + HowMany(Iterators(h), Ids, o) + r[o]
    BY <1>1 DEF Counted
  <2>2. HowMany(ObjectLinks(h), Ids, o) \in Nat /\ HowMany(Iterators(h), Ids, o) \in Nat
    BY <1>3
  <2>3. h.obj[o].refs \in Nat /\ r[o] \in Nat
    BY <1>1, HeapTypes
  <2>4. CASE h.obj[o].refs = 0
    BY <2>1, <2>2, <2>3, <2>4
  <2>5. CASE h.obj[o].refs # 0
    <3>1. o \in Live(h)
      BY <1>2, <2>5 DEF NoObject
    <3> QED
      BY <2>3, <3>1
  <2> QED
    BY <2>4, <2>5
<1>5. ASSUME NEW o \in Ids
      PROVE  h.obj[o].parent \in Live(h) \cup {None} /\ h.obj[o].iterator \in Live(h) \cup {None}
  <2>1. h.obj[o].parent \in Ids \cup {None} /\ h.obj[o].iterator \in Ids \cup {None}
    BY <1>1, HeapTypes
  <2>2. ObjectLinks(h)[o] = h.obj[o].parent /\ Iterators(h)[o] = h.obj[o].iterator
    BY DEF ObjectLinks, Iterators
  <2>3. h.obj[o].parent # None => HowMany(ObjectLinks(h), Ids, h.obj[o].parent) # 0
    BY <1>3, <2>2
  <2>4. h.obj[o].iterator # None => HowMany(Iterators(h), Ids, h.obj[o].iterator) # 0
    BY <1>3, <2>2
  <2> QED
    BY <1>4, <2>1, <2>3, <2>4
<1>6. ASSUME NEW o \in Ids, h.obj[o].body # None PROVE h.bobj[h.obj[o].body].refs > 0
  <2> DEFINE c == h.obj[o].body
  <2>1. c \in Ids
    BY <1>1, <1>6, HeapTypes
  <2>2. HowMany(ObjectBodies(h), Ids, c) # 0
    <3>1. ObjectBodies(h)[o] = c
      BY DEF ObjectBodies
    <3> QED
      BY <1>3, <3>1
  <2>3. h.bobj[c].refs = br[c] + HowMany(ObjectBodies(h), Ids, c) /\ br[c] \in Nat /\ HowMany(ObjectBodies(h), Ids, c) \in Nat
    BY <1>1, <1>3, <2>1 DEF Counted
  <2> QED
    BY <2>2, <2>3
<1>7. ASSUME NEW c \in Ids, br[c] > 0 PROVE h.bobj[c].refs > 0
  <2>1. h.bobj[c].refs = br[c] + HowMany(ObjectBodies(h), Ids, c) /\ br[c] \in Nat /\ HowMany(ObjectBodies(h), Ids, c) \in Nat
    BY <1>1, <1>3 DEF Counted
  <2> QED
    BY <1>7, <2>1
<1>8. ASSUME NEW b \in Ids, (\E m \in Ids : h.msg[m].body = b) \/ (\E c \in Ids : h.bobj[c].body = b)
      PROVE  h.body[b] > 0
  <2>1. h.body[b] = HowMany(MessageBodies(h), Ids, b) + HowMany(BodiesOf(h), Ids, b)
    BY <1>1 DEF Counted
  <2>2. HowMany(MessageBodies(h), Ids, b) # 0 \/ HowMany(BodiesOf(h), Ids, b) # 0
    <3>1. (\E m \in Ids : MessageBodies(h)[m] = b) \/ (\E c \in Ids : BodiesOf(h)[c] = b)
      BY <1>8 DEF MessageBodies, BodiesOf
    <3> QED
      BY <1>3, <3>1
  <2>3. HowMany(MessageBodies(h), Ids, b) \in Nat /\ HowMany(BodiesOf(h), Ids, b) \in Nat
    BY <1>3
  <2> QED
    BY <2>1, <2>2, <2>3
<1>9. \A m \in Messages(h) : m \in Ids /\ h.msg[m].body \in Ids
  BY <1>1 DEF Built, Messages
<1>10. \A c \in Ids : h.bobj[c].body \in Ids \cup {None}
  BY <1>1, HeapTypes
<1>11. \A o \in Live(h) : h.obj[o].message \in Messages(h) /\ o \in Ids
  BY <1>1 DEF Built, Live
<1> QED
  BY <1>1, <1>2, <1>4, <1>5, <1>6, <1>7, <1>8, <1>9, <1>10, <1>11

\* Other references and links, with all else as it was.
Relinks(h2, h) ==
    /\ h2 \in Heap
    /\ \A x \in Ids : /\ h2.obj[x] = NoObject <=> h.obj[x] = NoObject
                      /\ h2.obj[x].message = h.obj[x].message /\ h2.obj[x].body = h.obj[x].body
                      /\ h2.msg[x].kind = h.msg[x].kind /\ h2.msg[x].body = h.msg[x].body
                      /\ h2.body[x] = h.body[x] /\ h2.bobj[x] = h.bobj[x]

RefersAtMost(h, r) ==
    \A o \in Ids : h.obj[o].refs >= HowMany(ObjectLinks(h), Ids, o) + HowMany(Iterators(h), Ids, o) + r[o]

ParentsAllowed(h2, h) ==
    \A m \in Ids : \/ h2.msg[m].parent = h.msg[m].parent
                   \/ m \in Messages(h) /\ h2.msg[m].parent \in Messages(h) \cup {None}

LEMMA RelinkedSame ==
  ASSUME NEW h, NEW h2, Relinks(h2, h), h \in Heap
  PROVE  Live(h2) = Live(h) /\ Messages(h2) = Messages(h) /\ Orphans(h2) = Orphans(h)
<1>1. Live(h2) = Live(h)
  BY DEF Relinks, Live
<1>2. Messages(h2) = Messages(h)
  BY DEF Relinks, Messages
<1>3. {h2.obj[o].message : o \in Live(h2)} = {h.obj[o].message : o \in Live(h)}
  <2>1. \A o \in Live(h) : h2.obj[o].message = h.obj[o].message
    BY DEF Relinks, Live
  <2> QED
    BY <1>1, <2>1
<1> QED
  BY <1>1, <1>2, <1>3, Zenon DEF Orphans

LEMMA RelinkedSound ==
  ASSUME NEW h, NEW r, NEW br, Sound(h, r, br),
         NEW h2, Relinks(h2, h), Agree(h2), Acyclic(MessageLinks(h2)), ParentsAllowed(h2, h),
         NEW r2, RefersAtMost(h2, r2)
  PROVE  /\ Sound(h2, r2, br)
         /\ Matched(h) => Matched(h2)
         /\ Freed(h) /\ (\A o \in Live(h) : h2.obj[o].refs > 0) => Freed(h2)
<1>1. h \in Heap /\ Built(h) /\ Counted(h, r, br) /\ h2 \in Heap
  BY DEF Sound, Built, Relinks
<1>2. Live(h2) = Live(h) /\ Messages(h2) = Messages(h) /\ Live(h) \subseteq Ids /\ Messages(h) \subseteq Ids
  BY <1>1, RelinkedSame DEF Live, Messages
<1>3. Built(h2)
  <2>1. \A o \in Live(h2) : h2.obj[o].message \in Messages(h2)
    BY <1>1, <1>2 DEF Relinks, Built
  <2>2. \A o, p \in Live(h2) : h2.obj[o].message = h2.obj[p].message => o = p
    BY <1>1, <1>2 DEF Relinks, Built
  <2>3. \A m \in Messages(h2) : h2.msg[m].parent \in Messages(h2) \cup {None} /\ h2.msg[m].body \in Ids
    BY <1>1, <1>2 DEF Relinks, Built, ParentsAllowed
  <2>4. ASSUME NEW m \in Ids \ Messages(h2) PROVE h2.msg[m] = NoMessage
    <3>1. h.msg[m] = NoMessage /\ m \in Ids
      BY <1>1, <1>2 DEF Built
    <3>2. h2.msg[m].kind = "free" /\ h2.msg[m].body = None /\ h2.msg[m].parent = None
      BY <1>2, <3>1 DEF Relinks, NoMessage, ParentsAllowed
    <3>3. h2.msg[m] \in [kind : Kinds \cup {"free"}, parent : Ids \cup {None}, body : Ids \cup {None}]
      BY <1>1, HeapTypes
    <3> QED
      BY <3>2, <3>3 DEF NoMessage
  <2> QED
    BY <1>1, <2>1, <2>2, <2>3, <2>4 DEF Built
<1>4. Counted(h2, r2, br)
  <2>1. /\ \A i \in Ids : ObjectBodies(h2)[i] = ObjectBodies(h)[i]
        /\ \A i \in Ids : MessageBodies(h2)[i] = MessageBodies(h)[i]
        /\ \A i \in Ids : BodiesOf(h2)[i] = BodiesOf(h)[i]
    BY DEF Relinks, ObjectBodies, MessageBodies, BodiesOf
  <2>2. /\ ObjectBodies(h2) = ObjectBodies(h) /\ MessageBodies(h2) = MessageBodies(h)
        /\ BodiesOf(h2) = BodiesOf(h)
    BY <2>1 DEF ObjectBodies, MessageBodies, BodiesOf
  <2>3. \A c \in Ids : h2.bobj[c].refs = br[c] + HowMany(ObjectBodies(h2), Ids, c)
    BY <1>1, <2>2 DEF Counted, Relinks
  <2>4. \A b \in Ids : h2.body[b] = HowMany(MessageBodies(h2), Ids, b) + HowMany(BodiesOf(h2), Ids, b)
    BY <1>1, <2>2 DEF Counted, Relinks
  <2> QED
    BY <2>3, <2>4 DEF Counted, RefersAtMost
<1>5. ASSUME Matched(h) PROVE Matched(h2)
  <2> SUFFICES ASSUME NEW o \in Live(h2), h2.obj[o].body # None
               PROVE  h2.bobj[h2.obj[o].body].body = h2.msg[h2.obj[o].message].body
    BY DEF Matched
  <2>1. o \in Ids /\ o \in Live(h) /\ h2.obj[o].body = h.obj[o].body /\ h2.obj[o].message = h.obj[o].message
    BY <1>2 DEF Relinks
  <2>2. h.obj[o].body \in Ids /\ h.obj[o].message \in Ids
    BY <1>1, <1>2, <2>1, HeapTypes DEF Built
  <2>3. h2.bobj[h.obj[o].body] = h.bobj[h.obj[o].body] /\ h2.msg[h.obj[o].message].body = h.msg[h.obj[o].message].body
    BY <2>2 DEF Relinks
  <2>4. h.bobj[h.obj[o].body].body = h.msg[h.obj[o].message].body
    BY <1>5, <2>1 DEF Matched
  <2> QED
    BY <2>1, <2>3, <2>4
<1>6. ASSUME Freed(h), \A o \in Live(h) : h2.obj[o].refs > 0 PROVE Freed(h2)
  BY <1>2, <1>6 DEF Freed, Relinks
<1> QED
  BY <1>3, <1>4, <1>5, <1>6 DEF Sound

-----------------------------------------------------------------------------
(* References *)

LEMMA WithBodyRefs ==
  ASSUME NEW x \in [refs : Nat, body : Ids \cup {None}], NEW n
  PROVE  [x EXCEPT !.refs = n] = [refs |-> n, body |-> x.body]
  OBVIOUS

\* h with another count on o.
Recounted(h, o, n) == [h EXCEPT !.obj[o].refs = n]

LEMMA CountChanged ==
  ASSUME NEW h \in Heap, NEW o \in Live(h), h.obj[o].message # None, NEW n \in Nat
  PROVE  LET h2 == Recounted(h, o, n)
         IN /\ Relinks(h2, h)
            /\ h2.msg = h.msg /\ h2.obj[o].refs = n
            /\ \A x \in Ids : h2.obj[x].parent = h.obj[x].parent /\ h2.obj[x].iterator = h.obj[x].iterator
            /\ \A x \in Ids \ {o} : h2.obj[x] = h.obj[x]
            /\ ObjectLinks(h2) = ObjectLinks(h) /\ Iterators(h2) = Iterators(h) /\ MessageLinks(h2) = MessageLinks(h)
<1> DEFINE h2 == Recounted(h, o, n)
           Obj == [refs : Nat, message : Ids \cup {None}, parent : Ids \cup {None},
                   body : Ids \cup {None}, iterator : Ids \cup {None}]
<1>1. o \in Ids /\ h.obj \in [Ids -> Obj] /\ h.obj[o] \in Obj
  BY DEF Live, Heap
<1>2. /\ h2.obj = [h.obj EXCEPT ![o] = [@ EXCEPT !.refs = n]] /\ h2.msg = h.msg /\ h2.body = h.body /\ h2.bobj = h.bobj
  BY DEF Heap, Recounted
<1>a. h2 = [obj |-> h2.obj, msg |-> h.msg, body |-> h.body, bobj |-> h.bobj]
  <2>1. h = [obj |-> h.obj, msg |-> h.msg, body |-> h.body, bobj |-> h.bobj]
    BY DEF Heap
  <2> QED
    BY <2>1 DEF Recounted
<1> HIDE DEF h2
<1>3. h2.obj[o] = [refs |-> n, message |-> h.obj[o].message, parent |-> h.obj[o].parent,
                   body |-> h.obj[o].body, iterator |-> h.obj[o].iterator]
  BY <1>1, <1>2, WithRefs
<1>4. \A x \in Ids \ {o} : h2.obj[x] = h.obj[x]
  BY <1>1, <1>2
<1>5. h2.obj[o] # NoObject /\ h.obj[o] # NoObject
  BY <1>3 DEF NoObject, Live
<1>6. \A x \in Ids : /\ h2.obj[x].parent = h.obj[x].parent /\ h2.obj[x].iterator = h.obj[x].iterator
                     /\ h2.obj[x].message = h.obj[x].message /\ h2.obj[x].body = h.obj[x].body
                     /\ h2.obj[x] = NoObject <=> h.obj[x] = NoObject
  BY <1>3, <1>4, <1>5
<1>7. h2 \in Heap
  <2>1. [h.obj[o] EXCEPT !.refs = n] \in Obj
    BY <1>1
  <2>2. h2.obj \in [Ids -> Obj]
    BY <1>1, <1>2, <2>1
  <2>3. h2 = [obj |-> h2.obj, msg |-> h.msg, body |-> h.body, bobj |-> h.bobj]
    BY <1>a
  <2>4. /\ h.msg \in [Ids -> [kind : Kinds \cup {"free"}, parent : Ids \cup {None}, body : Ids \cup {None}]]
        /\ h.body \in [Ids -> Nat] /\ h.bobj \in [Ids -> [refs : Nat, body : Ids \cup {None}]]
    BY DEF Heap
  <2> QED
    BY <2>2, <2>3, <2>4 DEF Heap
<1>8. Relinks(h2, h)
  BY <1>2, <1>6, <1>7 DEF Relinks
<1>9. ObjectLinks(h2) = ObjectLinks(h) /\ Iterators(h2) = Iterators(h) /\ MessageLinks(h2) = MessageLinks(h)
  BY <1>2, <1>6 DEF ObjectLinks, Iterators, MessageLinks
<1> QED
  BY <1>2, <1>3, <1>4, <1>6, <1>8, <1>9 DEF h2

LEMMA AgreeSame ==
  ASSUME NEW h, NEW h2, h \in Heap, Relinks(h2, h), Agree(h), h2.msg = h.msg,
         \A x \in Ids : h2.obj[x].parent = h.obj[x].parent,
         \A x \in Live(h) : h.obj[x].message \in Ids
  PROVE  Agree(h2)
<1>1. Live(h2) = Live(h) /\ Orphans(h2) = Orphans(h) /\ Live(h) \subseteq Ids
  BY RelinkedSame DEF Live
<1>2. ASSUME NEW o \in Live(h)
      PROVE  LET p == h2.obj[o].parent
                 mp == h2.msg[h2.obj[o].message].parent
             IN IF p # None THEN mp = h2.obj[p].message ELSE mp \in Orphans(h2) \cup {None}
  <2>1. /\ h2.obj[o].parent = h.obj[o].parent /\ h2.obj[o].message = h.obj[o].message
        /\ h.obj[o].parent \in Ids \cup {None}
    BY <1>1, HeapTypes DEF Relinks
  <2>2. \A p \in Ids : h2.obj[p].message = h.obj[p].message
    BY DEF Relinks
  <2> QED
    BY <1>1, <2>1, <2>2 DEF Agree
<1> QED
  BY <1>1, <1>2 DEF Agree

SameLinks(h2, h) ==
    /\ Relinks(h2, h) /\ h2.msg = h.msg
    /\ \A x \in Ids : h2.obj[x].parent = h.obj[x].parent /\ h2.obj[x].iterator = h.obj[x].iterator

\* h with a reference from outside more or less on o, or the same.
LEMMA CountSound ==
  ASSUME NEW h, NEW r \in [Ids -> Nat], NEW br \in [Ids -> Nat], Sound(h, r, br),
         NEW o \in Live(h), NEW d \in {-1, 0, 1}, r[o] + d \in Nat
  PROVE  LET h2 == Recounted(h, o, h.obj[o].refs + d)
         IN /\ Sound(h2, [r EXCEPT ![o] = @ + d], br) /\ SameLinks(h2, h)
            /\ Matched(h) => Matched(h2)
            /\ Freed(h) /\ d \in {0, 1} => Freed(h2)
<1> DEFINE n == h.obj[o].refs + d
           h2 == Recounted(h, o, n)
           r2 == [r EXCEPT ![o] = @ + d]
<1>1. h \in Heap /\ o \in Ids /\ h.obj[o].message \in Messages(h) /\ h.obj[o].message # None /\ Messages(h) \subseteq Ids
  BY SoundLives
<1>2. /\ Agree(h) /\ Acyclic(MessageLinks(h))
      /\ \A x \in Ids : h.obj[x].refs >= HowMany(ObjectLinks(h), Ids, x) + HowMany(Iterators(h), Ids, x) + r[x]
  BY DEF Sound, Built, Counted
<1>3. \A x \in Ids : HowMany(ObjectLinks(h), Ids, x) \in Nat /\ HowMany(Iterators(h), Ids, x) \in Nat
                     /\ h.obj[x].refs \in Nat /\ r[x] \in Nat
  BY <1>1, IdsFinite, HowManyNat, HeapTypes
<1>4. n \in Nat
  BY <1>1, <1>2, <1>3
<1> HIDE DEF n
<1>6. /\ Relinks(h2, h) /\ h2.msg = h.msg /\ h2.obj[o].refs = n
      /\ \A x \in Ids : h2.obj[x].parent = h.obj[x].parent /\ h2.obj[x].iterator = h.obj[x].iterator
      /\ \A x \in Ids \ {o} : h2.obj[x] = h.obj[x]
      /\ ObjectLinks(h2) = ObjectLinks(h) /\ Iterators(h2) = Iterators(h) /\ MessageLinks(h2) = MessageLinks(h)
  BY <1>1, <1>4, CountChanged
<1> HIDE DEF h2
<1>7. RefersAtMost(h2, r2)
  <2> SUFFICES ASSUME NEW x \in Ids
               PROVE  h2.obj[x].refs >= HowMany(ObjectLinks(h), Ids, x) + HowMany(Iterators(h), Ids, x) + r2[x]
    BY <1>6 DEF RefersAtMost
  <2>1. CASE x = o
    <3>1. r2[o] = r[o] + d
      BY <1>1
    <3> QED
      BY <1>1, <1>2, <1>3, <1>6, <2>1, <3>1 DEF n
  <2>2. CASE x # o
    BY <1>2, <1>6, <2>2
  <2> QED
    BY <2>1, <2>2
<1>8. Agree(h2)
  <2>1. \A x \in Live(h) : h.obj[x].message \in Ids
    BY SoundLives
  <2> QED
    BY <1>1, <1>2, <1>6, <2>1, AgreeSame
<1>b. Acyclic(MessageLinks(h2)) /\ ParentsAllowed(h2, h)
  BY <1>2, <1>6 DEF ParentsAllowed
<1>9. /\ Sound(h2, r2, br) /\ (Matched(h) => Matched(h2))
      /\ Freed(h) /\ (\A x \in Live(h) : h2.obj[x].refs > 0) => Freed(h2)
  BY <1>6, <1>7, <1>8, <1>b, RelinkedSound
<1>10. ASSUME Freed(h), d \in {0, 1} PROVE \A x \in Live(h) : h2.obj[x].refs > 0
  <2> TAKE x \in Live(h)
  <2>1. h.obj[x].refs > 0 /\ x \in Ids
    BY <1>10 DEF Freed, Live
  <2> QED
    BY <1>3, <1>6, <1>10, <2>1 DEF n
<1> QED
  BY <1>6, <1>9, <1>10, Zenon DEF h2, n, SameLinks

LEMMA AddRefSound ==
  ASSUME NEW h, NEW r \in [Ids -> Nat], NEW br \in [Ids -> Nat], Sound(h, r, br), NEW o \in Live(h)
  PROVE  /\ Sound(AddRef(h, o), [r EXCEPT ![o] = @ + 1], br) /\ SameLinks(AddRef(h, o), h)
         /\ Matched(h) => Matched(AddRef(h, o))
         /\ Freed(h) => Freed(AddRef(h, o))
<1>1. AddRef(h, o) = Recounted(h, o, h.obj[o].refs + 1)
  <2>1. h \in Heap
    BY SoundLives
  <2> QED
    BY <2>1 DEF AddRef, Recounted, Heap, Live
<1>2. r[o] + 1 \in Nat /\ o \in Ids
  BY DEF Live
<1>3. ASSUME NEW d \in {-1, 0, 1}, d = 1
      PROVE  LET h2 == Recounted(h, o, h.obj[o].refs + d)
             IN /\ Sound(h2, [r EXCEPT ![o] = @ + d], br) /\ SameLinks(h2, h)
                /\ Matched(h) => Matched(h2)
                /\ Freed(h) /\ d \in {0, 1} => Freed(h2)
  <2>1. r[o] + d \in Nat /\ d \in {0, 1}
    BY <1>2, <1>3
  <2> QED
    BY <2>1, CountSound, Zenon
<1> QED
  BY <1>1, <1>3

LEMMA ReleaseSound ==
  ASSUME NEW h, NEW r \in [Ids -> Nat], NEW br \in [Ids -> Nat], Sound(h, r, br), NEW o \in Ids, r[o] > 0
  PROVE  /\ Sound(Release(h, o), [r EXCEPT ![o] = @ - 1], br) /\ Freed(Release(h, o))
         /\ Matched(h) => Matched(Release(h, o))
         /\ Orphans(Release(h, o)) = Orphans(h)
<1> DEFINE h1 == [h EXCEPT !.obj[o].refs = @ - 1]
           r1 == [r EXCEPT ![o] = @ - 1]
<1>1. o \in Live(h) /\ r[o] + (-1) \in Nat /\ h \in Heap
  BY SoundLives
<1>2. h1 = Recounted(h, o, h.obj[o].refs + (-1)) /\ r1 = [r EXCEPT ![o] = @ + (-1)]
  BY <1>1, Zenon DEF Heap, Recounted
<1>3. r1 \in [Ids -> Nat]
  BY <1>1
<1>4. Release(h, o) = Collected(h1)
  BY DEF Release
<1> HIDE DEF h1, r1
<1>5. Sound(h1, r1, br) /\ Relinks(h1, h) /\ (Matched(h) => Matched(h1))
  <2>1. /\ Sound(h1, [r EXCEPT ![o] = @ + (-1)], br) /\ Relinks(h1, h) /\ (Matched(h) => Matched(h1))
    BY <1>1, <1>2, CountSound, Zenon DEF SameLinks
  <2> QED
    BY <1>2, <2>1
<1>6. Sound(Collected(h1), r1, br) /\ Freed(Collected(h1)) /\ Keeps(Collected(h1), h1)
  BY <1>3, <1>5, CollectedSound
<1>7. h1 \in Heap /\ Collected(h1) \in Heap
  BY <1>5, <1>6 DEF Sound, Built
<1>8. Matched(h1) => Matched(Collected(h1))
  BY <1>6, <1>7, KeepsMatched
<1>9. Orphans(Collected(h1)) = Orphans(h)
  BY <1>1, <1>5, <1>6, RelinkedSame DEF Keeps
<1> QED
  BY <1>4, <1>5, <1>6, <1>8, <1>9 DEF r1

-----------------------------------------------------------------------------
(* The chains of objects *)

LEMMA SoundChains ==
  ASSUME NEW h, NEW r \in [Ids -> Nat], NEW br \in [Ids -> Nat], Sound(h, r, br)
  PROVE  /\ MessageLinks(h) \in Links /\ Acyclic(MessageLinks(h))
         /\ ObjectLinks(h) \in Links /\ Acyclic(ObjectLinks(h))
<1>1. h \in Heap /\ Agree(h) /\ Acyclic(MessageLinks(h))
  BY DEF Sound, Built
<1>2. MessageLinks(h) \in Links /\ ObjectLinks(h) \in Links
  BY <1>1, HeapTypes
<1>3. PICK rank \in [Ids -> Nat] : Descends(MessageLinks(h), rank)
  BY <1>1 DEF Acyclic
<1> DEFINE up == [o \in Ids |-> IF o \in Live(h) THEN rank[h.obj[o].message] ELSE 0]
<1>4. Live(h) \subseteq Ids /\ \A o \in Live(h) : h.obj[o].message \in Ids /\ h.obj[o].message # None
  BY SoundLives
<1>5. up \in [Ids -> Nat]
  BY <1>3, <1>4
<1>6. ASSUME NEW o \in Ids, ObjectLinks(h)[o] # None PROVE up[ObjectLinks(h)[o]] < up[o]
  <2> DEFINE p == h.obj[o].parent
             m == h.obj[o].message
  <2>1. ObjectLinks(h)[o] = p /\ p # None
    BY <1>6 DEF ObjectLinks
  <2>2. p \in Live(h) /\ o \in Live(h)
    <3>1. p \in Live(h)
      BY <2>1, SoundLives
    <3>2. o \notin Live(h) => h.obj[o] = NoObject
      BY SoundLives
    <3> QED
      BY <2>1, <3>1, <3>2 DEF NoObject
  <2>3. h.msg[m].parent = h.obj[p].message
    BY <1>1, <2>1, <2>2 DEF Agree
  <2>4. m \in Ids /\ h.obj[p].message \in Ids /\ h.obj[p].message # None
    BY <1>4, <2>2
  <2>5. MessageLinks(h)[m] = h.obj[p].message
    BY <2>3, <2>4 DEF MessageLinks
  <2>6. rank[h.obj[p].message] < rank[m]
    BY <1>3, <2>4, <2>5 DEF Descends
  <2>7. up[p] = rank[h.obj[p].message] /\ up[o] = rank[m]
    BY <1>4, <2>2
  <2> QED
    BY <2>1, <2>6, <2>7
<1> HIDE DEF up
<1> QED
  BY <1>1, <1>2, <1>5, <1>6 DEF Acyclic, Descends

LEMMA MessageChainIs ==
  ASSUME NEW h, NEW r \in [Ids -> Nat], NEW br \in [Ids -> Nat], Sound(h, r, br), NEW m \in Ids
  PROVE  /\ IsChain(MessageLinks(h), MessageChain(h, m), m) /\ Len(MessageChain(h, m)) <= MaxRoom
         /\ MessageChain(h, m) \in Seq(Ids)
         /\ m \in ToSet(MessageChain(h, m)) /\ ToSet(MessageChain(h, m)) \subseteq Ids
         /\ \A y \in ToSet(MessageChain(h, m)) :
               h.msg[y].parent # None => h.msg[y].parent \in ToSet(MessageChain(h, m))
<1>1. MessageChain(h, m) = Chain(MessageLinks(h), m)
  BY DEF MessageChain, MessageLinks
<1>2. IsChain(MessageLinks(h), MessageChain(h, m), m) /\ Len(MessageChain(h, m)) <= MaxRoom
  BY <1>1, SoundChains, ChainOf
<1>3. /\ m \in ToSet(MessageChain(h, m)) /\ ToSet(MessageChain(h, m)) \subseteq Ids
      /\ \A y \in ToSet(MessageChain(h, m)) :
            MessageLinks(h)[y] # None => MessageLinks(h)[y] \in ToSet(MessageChain(h, m))
  BY <1>2, ChainClosed
<1>4. \A y \in Ids : MessageLinks(h)[y] = h.msg[y].parent
  BY DEF MessageLinks
<1> QED
  BY <1>2, <1>3, <1>4, Zenon DEF IsChain, IsPath

\* The chain of an object: its objects live, their messages are on the chain of
\* its message, and the last has no parent.
LEMMA ObjectChainIs ==
  ASSUME NEW h, NEW r \in [Ids -> Nat], NEW br \in [Ids -> Nat], Sound(h, r, br), NEW o \in Live(h)
  PROVE  /\ IsChain(ObjectLinks(h), ObjectChain(h, o), o) /\ Len(ObjectChain(h, o)) <= MaxRoom
         /\ ObjectChain(h, o) \in Seq(Ids)
         /\ o \in ToSet(ObjectChain(h, o)) /\ ToSet(ObjectChain(h, o)) \subseteq Live(h)
         /\ \A y \in ToSet(ObjectChain(h, o)) :
               /\ h.obj[y].parent # None => h.obj[y].parent \in ToSet(ObjectChain(h, o))
               /\ h.obj[y].message \in ToSet(MessageChain(h, h.obj[o].message))
         /\ Last(ObjectChain(h, o)) \in ToSet(ObjectChain(h, o))
         /\ h.obj[Last(ObjectChain(h, o))].parent = None
<1> DEFINE c == ObjectChain(h, o)
           M == ToSet(MessageChain(h, h.obj[o].message))
           B == {x \in Live(h) : h.obj[x].message \in M}
<1>0. /\ Live(h) \subseteq Ids /\ h.obj[o].message \in Ids
      /\ \A x \in Live(h) : h.obj[x].parent \in Live(h) \cup {None} /\ h.obj[x].message \in Ids
  BY SoundLives
<1>1. c = Chain(ObjectLinks(h), o)
  BY DEF ObjectChain, ObjectLinks
<1>2. IsChain(ObjectLinks(h), c, o) /\ Len(c) <= MaxRoom
  BY <1>0, <1>1, SoundChains, ChainOf, Zenon
<1>3. \A y \in Ids : ObjectLinks(h)[y] = h.obj[y].parent
  BY DEF ObjectLinks
<1>4. h.obj[o].message \in M /\ \A y \in M : h.msg[y].parent # None => h.msg[y].parent \in M
  BY <1>0, MessageChainIs, Zenon
<1>5. o \in B /\ \A y \in B : ObjectLinks(h)[y] # None => ObjectLinks(h)[y] \in B
  <2>1. ASSUME NEW y \in B, h.obj[y].parent # None PROVE h.obj[y].parent \in B
    <3>1. y \in Live(h) /\ h.obj[y].parent \in Live(h)
      BY <1>0, <2>1
    <3>2. h.msg[h.obj[y].message].parent = h.obj[h.obj[y].parent].message
      BY <2>1, <3>1 DEF Sound, Agree
    <3>3. h.obj[h.obj[y].parent].message # None
      BY <3>1, SoundLives
    <3> HIDE DEF M
    <3> QED
      BY <1>4, <3>1, <3>2, <3>3
  <2> HIDE DEF M
  <2> QED
    BY <1>0, <1>3, <1>4, <2>1
<1> HIDE DEF c, B, M
<1>6. /\ o \in ToSet(c) /\ ToSet(c) \subseteq Ids
      /\ \A y \in ToSet(c) : ObjectLinks(h)[y] # None => ObjectLinks(h)[y] \in ToSet(c)
      /\ \A A : o \in A /\ (\A y \in A : ObjectLinks(h)[y] # None => ObjectLinks(h)[y] \in A) => ToSet(c) \subseteq A
  BY <1>2, ChainClosed
<1>7. ToSet(c) \subseteq B
  BY <1>5, <1>6
<1>8. c \in Seq(Ids) /\ c # <<>> /\ ObjectLinks(h)[c[Len(c)]] = None
  BY <1>2 DEF IsChain, IsPath
<1>9. Last(c) \in ToSet(c) /\ h.obj[Last(c)].parent = None
  <2>1. Len(c) \in 1 .. Len(c) /\ Last(c) = c[Len(c)] /\ c[Len(c)] \in Ids
    BY <1>8 DEF Last
  <2> QED
    BY <1>3, <1>8, <2>1 DEF ToSet
<1> QED
  BY <1>2, <1>3, <1>6, <1>7, <1>8, <1>9, Zenon DEF c, B, M

\* The messages of the chain of an object, with those that have no objects: the
\* links do not lead out of these.
LEMMA ChainOrOrphan ==
  ASSUME NEW h, NEW r \in [Ids -> Nat], NEW br \in [Ids -> Nat], Sound(h, r, br), NEW p \in Live(h),
         NEW o \in Live(h), o \notin ToSet(ObjectChain(h, p))
  PROVE  LET B == {h.obj[x].message : x \in ToSet(ObjectChain(h, p))} \cup Orphans(h)
         IN /\ B \subseteq Ids /\ h.obj[p].message \in B /\ h.obj[o].message \notin B
            /\ \A y \in B : h.msg[y].parent # None => h.msg[y].parent \in B
<1> DEFINE C == ToSet(ObjectChain(h, p))
           B == {h.obj[x].message : x \in C} \cup Orphans(h)
<1>1. /\ p \in C /\ C \subseteq Live(h)
      /\ \A y \in C : h.obj[y].parent # None => h.obj[y].parent \in C
  BY ObjectChainIs, Zenon
<1> HIDE DEF C
<1>2. /\ Messages(h) \subseteq Ids /\ \A x \in Live(h) : h.obj[x].message \in Messages(h) /\ h.obj[x].parent \in Live(h) \cup {None}
  BY SoundLives DEF Live
<1>3. Agree(h) /\ \A x, y \in Live(h) : h.obj[x].message = h.obj[y].message => x = y
  BY DEF Sound, Built
<1>4. Orphans(h) \subseteq Messages(h) /\ h.obj[o].message \notin Orphans(h)
  BY DEF Orphans
<1>5. h.obj[o].message \notin B
  BY <1>1, <1>3, <1>4 DEF C
<1>6. ASSUME NEW y \in B, h.msg[y].parent # None PROVE h.msg[y].parent \in B
  <2>1. CASE y \in Orphans(h)
    BY <1>3, <1>6, <2>1 DEF Agree
  <2>2. CASE y \notin Orphans(h)
    <3>1. PICK x \in C : y = h.obj[x].message
      BY <2>2
    <3>2. x \in Live(h)
      BY <1>1
    <3>3. CASE h.obj[x].parent = None
      BY <1>3, <1>6, <3>1, <3>2, <3>3 DEF Agree
    <3>4. CASE h.obj[x].parent # None
      <4>1. h.msg[y].parent = h.obj[h.obj[x].parent].message
        BY <1>3, <3>1, <3>2, <3>4 DEF Agree
      <4> QED
        BY <1>1, <3>4, <4>1
    <3> QED
      BY <3>3, <3>4
  <2> QED
    BY <2>1, <2>2
<1> QED
  BY <1>1, <1>2, <1>4, <1>5, <1>6 DEF C

-----------------------------------------------------------------------------
(* Links that change *)

\* r with one more reference on x, if that is an object.
Plus(r, x) == [o \in Ids |-> r[o] + (IF o = x THEN 1 ELSE 0)]

\* h2 counts one reference more on n, if that is an object.
CountsOneMore(h2, h, n) == \A x \in Ids : h2.obj[x].refs = h.obj[x].refs + (IF x = n THEN 1 ELSE 0)

SameIterators(h2, h) == \A x \in Ids : h2.obj[x].iterator = h.obj[x].iterator
SameParents(h2, h) == h2.msg = h.msg /\ \A x \in Ids : h2.obj[x].parent = h.obj[x].parent

\* The iterator of o is now n.
IteratorMoved(h2, h, o, n) ==
    /\ Relinks(h2, h) /\ SameParents(h2, h) /\ CountsOneMore(h2, h, n)
    /\ \A x \in Ids : h2.obj[x].iterator = IF x = o THEN n ELSE h.obj[x].iterator

\* The parent of o is now p, and so for their messages.
LinkMoved(h2, h, o, p) ==
    /\ Relinks(h2, h) /\ SameIterators(h2, h) /\ CountsOneMore(h2, h, p)
    /\ \A x \in Ids : h2.obj[x].parent = IF x = o THEN p ELSE h.obj[x].parent
    /\ \A m \in Ids : h2.msg[m].parent = IF m = h.obj[o].message THEN h.obj[p].message ELSE h.msg[m].parent

\* p is now between o and the parent of o.
Inserted(h2, h, o, p) ==
    /\ Relinks(h2, h) /\ SameIterators(h2, h) /\ CountsOneMore(h2, h, p)
    /\ \A x \in Ids : h2.obj[x].parent = IF x = p THEN h.obj[o].parent ELSE IF x = o THEN p ELSE h.obj[x].parent
    /\ \A m \in Ids : h2.msg[m].parent = IF m = h.obj[p].message THEN h.msg[h.obj[o].message].parent
                                         ELSE IF m = h.obj[o].message THEN h.obj[p].message ELSE h.msg[m].parent

LEMMA PlusNat ==
  ASSUME NEW r \in [Ids -> Nat], NEW x
  PROVE  Plus(r, x) \in [Ids -> Nat]
  BY DEF Plus

LEMMA PlusNone ==
  ASSUME NEW r \in [Ids -> Nat]
  PROVE  Plus(r, None) = r
<1>1. \A o \in Ids : r[o] + (IF o = None THEN 1 ELSE 0) = r[o]
  BY IdsFinite
<1> QED
  BY <1>1 DEF Plus

LEMMA PlusMinus ==
  ASSUME NEW r \in [Ids -> Nat], NEW x \in Ids
  PROVE  Plus(r, x)[x] > 0 /\ [Plus(r, x) EXCEPT ![x] = @ - 1] = r
<1>1. Plus(r, x) \in [Ids -> Nat] /\ Plus(r, x)[x] = r[x] + 1
  BY PlusNat DEF Plus
<1>2. \A o \in Ids : [Plus(r, x) EXCEPT ![x] = @ - 1][o] = r[o]
  BY <1>1 DEF Plus
<1>3. [Plus(r, x) EXCEPT ![x] = @ - 1] \in [Ids -> Int]
  BY <1>1
<1> QED
  BY <1>1, <1>2, <1>3

\* What is needed of a heap with other links and one more reference.
LEMMA CountsFreed ==
  ASSUME NEW h \in Heap, NEW h2, Relinks(h2, h), NEW n, CountsOneMore(h2, h, n), Freed(h)
  PROVE  \A o \in Live(h) : h2.obj[o].refs > 0
<1> TAKE o \in Live(h)
<1>1. o \in Ids /\ h.obj[o].refs > 0 /\ h.obj[o].refs \in Nat
  BY HeapTypes DEF Live, Freed
<1> QED
  BY <1>1 DEF CountsOneMore

\* g and f are the same but at a.
MovedAt(g, f, a) == \A i \in Ids \ {a} : g[i] = f[i]

LEMMA HowManyMoved ==
  ASSUME NEW f, NEW g, NEW a \in Ids, MovedAt(g, f, a), NEW x
  PROVE  /\ HowMany(g, Ids, x) + (IF f[a] = x THEN 1 ELSE 0) = HowMany(f, Ids, x) + (IF g[a] = x THEN 1 ELSE 0)
         /\ HowMany(f, Ids, x) \in Nat /\ HowMany(g, Ids, x) \in Nat
<1>2. IsFiniteSet(Ids)
  BY IdsFinite
<1>3. HowMany(g, Ids, x) + (IF f[a] = x THEN 1 ELSE 0) = HowMany(f, Ids, x) + (IF g[a] = x THEN 1 ELSE 0)
  BY <1>2, HowManyExcept DEF MovedAt
<1>4. HowMany(f, Ids, x) \in Nat /\ HowMany(g, Ids, x) \in Nat
  BY <1>2, HowManyNat
<1> QED
  BY <1>3, <1>4

LEMMA IteratorSound ==
  ASSUME NEW h, NEW r \in [Ids -> Nat], NEW br \in [Ids -> Nat], Sound(h, r, br),
         NEW o \in Live(h), NEW n, NEW h2, IteratorMoved(h2, h, o, n)
  PROVE  /\ Sound(h2, Plus(r, h.obj[o].iterator), br)
         /\ Matched(h) => Matched(h2)
         /\ Freed(h) => Freed(h2)
         /\ Orphans(h2) = Orphans(h)
<1> DEFINE old == h.obj[o].iterator
           r2 == Plus(r, old)
<1>1. h \in Heap /\ o \in Ids /\ Agree(h) /\ Acyclic(MessageLinks(h)) /\ \A x \in Live(h) : h.obj[x].message \in Ids
  BY SoundLives DEF Sound, Built
<1>2. Relinks(h2, h) /\ h2.msg = h.msg /\ CountsOneMore(h2, h, n) /\ \A x \in Ids : h2.obj[x].parent = h.obj[x].parent
  BY DEF IteratorMoved, SameParents
<1>3. r2 \in [Ids -> Nat]
  BY PlusNat
<1>4. RefersAtMost(h2, r2)
  <2> SUFFICES ASSUME NEW x \in Ids
               PROVE  h2.obj[x].refs >= HowMany(ObjectLinks(h2), Ids, x) + HowMany(Iterators(h2), Ids, x) + r2[x]
    BY DEF RefersAtMost
  <2>1. h.obj[x].refs >= HowMany(ObjectLinks(h), Ids, x) + HowMany(Iterators(h), Ids, x) + r[x]
    BY DEF Sound, Counted
  <2>2. ObjectLinks(h2) = ObjectLinks(h)
    BY <1>2 DEF ObjectLinks
  <2>3. Iterators(h)[o] = old /\ Iterators(h2)[o] = n
    BY <1>1 DEF Iterators, IteratorMoved, MovedAt
  <2>4. MovedAt(Iterators(h2), Iterators(h), o)
    BY <1>1 DEF Iterators, IteratorMoved, MovedAt
  <2>5. /\ HowMany(Iterators(h2), Ids, x) + (IF old = x THEN 1 ELSE 0) = HowMany(Iterators(h), Ids, x) + (IF n = x THEN 1 ELSE 0)
        /\ HowMany(Iterators(h2), Ids, x) \in Nat /\ HowMany(Iterators(h), Ids, x) \in Nat
    <3>1. /\ HowMany(Iterators(h2), Ids, x) + (IF Iterators(h)[o] = x THEN 1 ELSE 0)
               = HowMany(Iterators(h), Ids, x) + (IF Iterators(h2)[o] = x THEN 1 ELSE 0)
          /\ HowMany(Iterators(h), Ids, x) \in Nat /\ HowMany(Iterators(h2), Ids, x) \in Nat
      <4>1. o \in Ids
        BY <1>1
      <4> QED
        BY <2>4, <4>1, HowManyMoved
    <3> QED
      BY <2>3, <3>1
  <2>6. h2.obj[x].refs = h.obj[x].refs + (IF x = n THEN 1 ELSE 0) /\ r2[x] = r[x] + (IF x = old THEN 1 ELSE 0)
    BY <1>2 DEF CountsOneMore, Plus
  <2>7. HowMany(ObjectLinks(h), Ids, x) \in Nat /\ r[x] \in Nat /\ h.obj[x].refs \in Nat
    BY <1>1, IdsFinite, HowManyNat, HeapTypes
  <2> HIDE DEF old, r2
  <2> QED
    BY <2>1, <2>2, <2>5, <2>6, <2>7
<1>5. Agree(h2)
  BY <1>1, <1>2, AgreeSame
<1>6. Acyclic(MessageLinks(h2)) /\ ParentsAllowed(h2, h)
  <2>1. MessageLinks(h2) = MessageLinks(h)
    BY <1>2 DEF MessageLinks
  <2> QED
    BY <1>1, <1>2, <2>1 DEF ParentsAllowed
<1> HIDE DEF r2
<1>7. /\ Sound(h2, r2, br) /\ (Matched(h) => Matched(h2))
      /\ Freed(h) /\ (\A x \in Live(h) : h2.obj[x].refs > 0) => Freed(h2)
  BY <1>2, <1>3, <1>4, <1>5, <1>6, RelinkedSound
<1>8. Freed(h) => \A x \in Live(h) : h2.obj[x].refs > 0
  BY <1>1, <1>2, CountsFreed
<1> QED
  BY <1>1, <1>2, <1>7, <1>8, RelinkedSame DEF r2

LEMMA LinkSound ==
  ASSUME NEW h, NEW r \in [Ids -> Nat], NEW br \in [Ids -> Nat], Sound(h, r, br),
         NEW o \in Live(h), NEW p \in Live(h), NEW h2, LinkMoved(h2, h, o, p),
         NEW B, B \subseteq Ids, h.obj[p].message \in B, h.obj[o].message \notin B,
         \A y \in B : h.msg[y].parent # None => h.msg[y].parent \in B
  PROVE  /\ Sound(h2, Plus(r, h.obj[o].parent), br)
         /\ Matched(h) => Matched(h2)
         /\ Freed(h) => Freed(h2)
         /\ Orphans(h2) = Orphans(h)
<1> DEFINE old == h.obj[o].parent
           r2 == Plus(r, old)
           a == h.obj[o].message
           b == h.obj[p].message
<1>1. /\ h \in Heap /\ o \in Ids /\ p \in Ids /\ Agree(h) /\ p # None
      /\ a \in Messages(h) /\ b \in Messages(h) /\ a \in Ids /\ b \in Ids
      /\ \A x, y \in Live(h) : h.obj[x].message = h.obj[y].message => x = y
      /\ Live(h) \subseteq Ids /\ \A x \in Live(h) : h.obj[x].message \in Ids
      /\ \A x \in Ids : h.obj[x].parent \in Live(h) \cup {None}
  BY SoundLives, IdsFinite DEF Sound, Built
<1>2. /\ Relinks(h2, h) /\ CountsOneMore(h2, h, p) /\ h2 \in Heap
      /\ \A x \in Ids : h2.obj[x].iterator = h.obj[x].iterator
      /\ \A x \in Ids : h2.obj[x].parent = IF x = o THEN p ELSE h.obj[x].parent
      /\ \A m \in Ids : h2.msg[m].parent = IF m = a THEN b ELSE h.msg[m].parent
      /\ \A x \in Ids : h2.obj[x].message = h.obj[x].message
  BY DEF LinkMoved, SameIterators, Relinks
<1>3. r2 \in [Ids -> Nat]
  BY PlusNat
<1>4. RefersAtMost(h2, r2)
  <2> SUFFICES ASSUME NEW x \in Ids
               PROVE  h2.obj[x].refs >= HowMany(ObjectLinks(h2), Ids, x) + HowMany(Iterators(h2), Ids, x) + r2[x]
    BY DEF RefersAtMost
  <2>1. h.obj[x].refs >= HowMany(ObjectLinks(h), Ids, x) + HowMany(Iterators(h), Ids, x) + r[x]
    BY DEF Sound, Counted
  <2>2. Iterators(h2) = Iterators(h)
    BY <1>2 DEF Iterators
  <2>3. ObjectLinks(h)[o] = old /\ ObjectLinks(h2)[o] = p
    BY <1>1, <1>2 DEF ObjectLinks, MovedAt
  <2>4. MovedAt(ObjectLinks(h2), ObjectLinks(h), o)
    BY <1>1, <1>2 DEF ObjectLinks, MovedAt
  <2>5. /\ HowMany(ObjectLinks(h2), Ids, x) + (IF old = x THEN 1 ELSE 0) = HowMany(ObjectLinks(h), Ids, x) + (IF p = x THEN 1 ELSE 0)
        /\ HowMany(ObjectLinks(h2), Ids, x) \in Nat /\ HowMany(ObjectLinks(h), Ids, x) \in Nat
    <3>1. /\ HowMany(ObjectLinks(h2), Ids, x) + (IF ObjectLinks(h)[o] = x THEN 1 ELSE 0)
               = HowMany(ObjectLinks(h), Ids, x) + (IF ObjectLinks(h2)[o] = x THEN 1 ELSE 0)
          /\ HowMany(ObjectLinks(h), Ids, x) \in Nat /\ HowMany(ObjectLinks(h2), Ids, x) \in Nat
      <4>1. o \in Ids
        BY <1>1
      <4> QED
        BY <2>4, <4>1, HowManyMoved
    <3> QED
      BY <2>3, <3>1
  <2>6. h2.obj[x].refs = h.obj[x].refs + (IF x = p THEN 1 ELSE 0) /\ r2[x] = r[x] + (IF x = old THEN 1 ELSE 0)
    BY <1>2 DEF CountsOneMore, Plus
  <2>7. HowMany(Iterators(h), Ids, x) \in Nat /\ r[x] \in Nat /\ h.obj[x].refs \in Nat
    BY <1>1, IdsFinite, HowManyNat, HeapTypes
  <2> HIDE DEF old, r2
  <2> QED
    BY <2>1, <2>2, <2>5, <2>6, <2>7
<1>o. Live(h2) = Live(h) /\ Orphans(h2) = Orphans(h) /\ a \notin Orphans(h) /\ Orphans(h) \subseteq Ids
  BY <1>1, <1>2, RelinkedSame DEF Orphans, Messages
<1>5. Agree(h2)
  <2>1. ASSUME NEW x \in Live(h)
        PROVE  LET q == h2.obj[x].parent
                   mp == h2.msg[h2.obj[x].message].parent
               IN IF q # None THEN mp = h2.obj[q].message ELSE mp \in Orphans(h) \cup {None}
    <3>1. x \in Ids /\ h2.obj[x].message = h.obj[x].message /\ h.obj[x].message \in Ids
      BY <1>1, <1>2
    <3>2. CASE x = o
      BY <1>1, <1>2, <3>1, <3>2
    <3>3. CASE x # o
      <4>1. h2.obj[x].parent = h.obj[x].parent /\ h2.msg[h.obj[x].message].parent = h.msg[h.obj[x].message].parent
        BY <1>1, <1>2, <3>1, <3>3
      <4>2. h.obj[x].parent # None => h2.obj[h.obj[x].parent].message = h.obj[h.obj[x].parent].message
        BY <1>1, <1>2, <3>1
      <4> QED
        BY <1>1, <3>1, <4>1, <4>2 DEF Agree
    <3> QED
      BY <3>2, <3>3
  <2>2. ASSUME NEW m \in Orphans(h) PROVE h2.msg[m].parent \in Orphans(h) \cup {None}
    <3>1. h2.msg[m].parent = h.msg[m].parent
      BY <1>2, <1>o
    <3> QED
      BY <1>1, <3>1 DEF Agree
  <2> QED
    BY <1>o, <2>1, <2>2 DEF Agree
<1>6. Acyclic(MessageLinks(h2))
  <2>1. MessageLinks(h) \in Links /\ Acyclic(MessageLinks(h)) /\ MessageLinks(h2) \in Links
    BY <1>2, SoundChains, HeapTypes
  <2>2. MessageLinks(h2)[a] = b /\ \A x \in Ids \ {a} : MessageLinks(h2)[x] = MessageLinks(h)[x]
    BY <1>1, <1>2 DEF MessageLinks
  <2>3. \A y \in B : MessageLinks(h)[y] # None => MessageLinks(h)[y] \in B
    BY DEF MessageLinks
  <2> HIDE DEF a, b
  <2>4. a \notin B /\ b \in B
    BY DEF a, b
  <2> QED
    BY <1>1, <2>1, <2>2, <2>3, <2>4, LinkAcyclic
<1>7. ParentsAllowed(h2, h)
  <2> HIDE DEF a, b
  <2> QED
    BY <1>1, <1>2 DEF ParentsAllowed
<1> HIDE DEF r2
<1>8. /\ Sound(h2, r2, br) /\ (Matched(h) => Matched(h2))
      /\ Freed(h) /\ (\A x \in Live(h) : h2.obj[x].refs > 0) => Freed(h2)
  BY <1>2, <1>3, <1>4, <1>5, <1>6, <1>7, RelinkedSound
<1>9. Freed(h) => \A x \in Live(h) : h2.obj[x].refs > 0
  BY <1>1, <1>2, CountsFreed
<1> QED
  BY <1>o, <1>8, <1>9 DEF r2

LEMMA HowManyInserted ==
  ASSUME NEW f \in Links, NEW k, NEW o \in Ids, NEW p \in Ids, o # p, NEW x,
         k[o] = p, k[p] = f[o], \A i \in Ids \ {o, p} : k[i] = f[i]
  PROVE  /\ HowMany(k, Ids, x) <= HowMany(f, Ids, x) + (IF x = p THEN 1 ELSE 0)
         /\ HowMany(k, Ids, x) \in Nat /\ HowMany(f, Ids, x) \in Nat
<1>1. PICK g : g[o] = p /\ g[p] = f[p] /\ \A i \in Ids \ {o} : g[i] = f[i]
  <2>1. LET g == [f EXCEPT ![o] = p] IN g[o] = p /\ g[p] = f[p] /\ \A i \in Ids \ {o} : g[i] = f[i]
    BY DEF Links
  <2> QED
    BY <2>1, Zenon
<1>2. MovedAt(g, f, o)
  BY <1>1 DEF MovedAt
<1>3. MovedAt(k, g, p)
  BY <1>1 DEF MovedAt
<1>4. /\ HowMany(g, Ids, x) + (IF f[o] = x THEN 1 ELSE 0) = HowMany(f, Ids, x) + (IF g[o] = x THEN 1 ELSE 0)
      /\ HowMany(f, Ids, x) \in Nat /\ HowMany(g, Ids, x) \in Nat
  BY <1>2, HowManyMoved
<1>5. /\ HowMany(k, Ids, x) + (IF g[p] = x THEN 1 ELSE 0) = HowMany(g, Ids, x) + (IF k[p] = x THEN 1 ELSE 0)
      /\ HowMany(k, Ids, x) \in Nat
  BY <1>3, HowManyMoved
<1>6. /\ HowMany(g, Ids, x) + (IF f[o] = x THEN 1 ELSE 0) = HowMany(f, Ids, x) + (IF p = x THEN 1 ELSE 0)
      /\ HowMany(k, Ids, x) + (IF f[p] = x THEN 1 ELSE 0) = HowMany(g, Ids, x) + (IF f[o] = x THEN 1 ELSE 0)
  BY <1>1, <1>4, <1>5
<1> QED
  BY <1>4, <1>5, <1>6

LEMMA InsertSound ==
  ASSUME NEW h, NEW r \in [Ids -> Nat], NEW br \in [Ids -> Nat], Sound(h, r, br),
         NEW o \in Live(h), NEW p \in Live(h), NEW h2, Inserted(h2, h, o, p),
         NEW A, A \subseteq Ids, h.obj[o].message \in A, h.obj[p].message \notin A,
         \A y \in A : h.msg[y].parent # None => h.msg[y].parent \in A
  PROVE  /\ Sound(h2, r, br)
         /\ Matched(h) => Matched(h2)
         /\ Freed(h) => Freed(h2)
         /\ Orphans(h2) = Orphans(h)
<1> DEFINE a == h.obj[o].message
           b == h.obj[p].message
<1>1. /\ h \in Heap /\ o \in Ids /\ p \in Ids /\ Agree(h) /\ p # None /\ o # p /\ a # b
      /\ a \in Messages(h) /\ b \in Messages(h) /\ a \in Ids /\ b \in Ids
      /\ \A x, y \in Live(h) : h.obj[x].message = h.obj[y].message => x = y
      /\ Live(h) \subseteq Ids /\ \A x \in Live(h) : h.obj[x].message \in Ids
      /\ \A x \in Ids : h.obj[x].parent \in Live(h) \cup {None}
      /\ \A m \in Messages(h) : h.msg[m].parent \in Messages(h) \cup {None}
  BY SoundLives, IdsFinite DEF Sound, Built
<1>2. /\ Relinks(h2, h) /\ CountsOneMore(h2, h, p) /\ h2 \in Heap
      /\ \A x \in Ids : h2.obj[x].iterator = h.obj[x].iterator
      /\ \A x \in Ids : h2.obj[x].parent = IF x = p THEN h.obj[o].parent ELSE IF x = o THEN p ELSE h.obj[x].parent
      /\ \A m \in Ids : h2.msg[m].parent = IF m = b THEN h.msg[a].parent ELSE IF m = a THEN b ELSE h.msg[m].parent
      /\ \A x \in Ids : h2.obj[x].message = h.obj[x].message
  BY DEF Inserted, SameIterators, Relinks
<1>4. RefersAtMost(h2, r)
  <2> SUFFICES ASSUME NEW x \in Ids
               PROVE  h2.obj[x].refs >= HowMany(ObjectLinks(h2), Ids, x) + HowMany(Iterators(h2), Ids, x) + r[x]
    BY DEF RefersAtMost
  <2>1. h.obj[x].refs >= HowMany(ObjectLinks(h), Ids, x) + HowMany(Iterators(h), Ids, x) + r[x]
    BY DEF Sound, Counted
  <2>2. Iterators(h2) = Iterators(h)
    BY <1>2 DEF Iterators
  <2>6. /\ HowMany(ObjectLinks(h2), Ids, x) <= HowMany(ObjectLinks(h), Ids, x) + (IF x = p THEN 1 ELSE 0)
        /\ HowMany(ObjectLinks(h2), Ids, x) \in Nat /\ HowMany(ObjectLinks(h), Ids, x) \in Nat
    <3>1. /\ ObjectLinks(h2)[o] = p /\ ObjectLinks(h2)[p] = ObjectLinks(h)[o]
          /\ \A i \in Ids \ {o, p} : ObjectLinks(h2)[i] = ObjectLinks(h)[i]
      BY <1>1, <1>2 DEF ObjectLinks
    <3>2. o \in Ids /\ p \in Ids /\ o # p /\ ObjectLinks(h) \in Links
      BY <1>1, HeapTypes
    <3> QED
      BY <3>1, <3>2, HowManyInserted
  <2>7. h2.obj[x].refs = h.obj[x].refs + (IF x = p THEN 1 ELSE 0)
    BY <1>2 DEF CountsOneMore
  <2>8. HowMany(Iterators(h), Ids, x) \in Nat /\ r[x] \in Nat /\ h.obj[x].refs \in Nat
    BY <1>1, IdsFinite, HowManyNat, HeapTypes
  <2> QED
    BY <2>1, <2>2, <2>6, <2>7, <2>8
<1>o. Live(h2) = Live(h) /\ Orphans(h2) = Orphans(h) /\ a \notin Orphans(h) /\ b \notin Orphans(h) /\ Orphans(h) \subseteq Ids
  BY <1>1, <1>2, RelinkedSame DEF Orphans, Messages
<1>5. Agree(h2)
  <2>1. ASSUME NEW x \in Live(h)
        PROVE  LET q == h2.obj[x].parent
                   mp == h2.msg[h2.obj[x].message].parent
               IN IF q # None THEN mp = h2.obj[q].message ELSE mp \in Orphans(h) \cup {None}
    <3>1. x \in Ids /\ h2.obj[x].message = h.obj[x].message /\ h.obj[x].message \in Ids
      BY <1>1, <1>2
    <3>2. CASE x = o
      <4>1. h2.obj[x].parent = p /\ h2.msg[a].parent = b /\ h2.obj[p].message = b
        BY <1>1, <1>2, <3>2
      <4> QED
        BY <1>1, <3>1, <3>2, <4>1
    <3>3. CASE x = p
      <4>1. h2.obj[x].parent = h.obj[o].parent /\ h2.msg[b].parent = h.msg[a].parent
        BY <1>1, <1>2, <3>3
      <4>2. h.obj[o].parent # None => h2.obj[h.obj[o].parent].message = h.obj[h.obj[o].parent].message
        BY <1>1, <1>2
      <4> QED
        BY <1>1, <3>1, <3>3, <4>1, <4>2 DEF Agree
    <3>4. CASE x # o /\ x # p
      <4>1. h2.obj[x].parent = h.obj[x].parent /\ h2.msg[h.obj[x].message].parent = h.msg[h.obj[x].message].parent
        <5>1. h.obj[x].message # a /\ h.obj[x].message # b
          BY <1>1, <3>4
        <5> QED
          BY <1>2, <3>1, <3>4, <5>1
      <4>2. h.obj[x].parent # None => h2.obj[h.obj[x].parent].message = h.obj[h.obj[x].parent].message
        BY <1>1, <1>2, <3>1
      <4> QED
        BY <1>1, <3>1, <4>1, <4>2 DEF Agree
    <3> QED
      BY <3>2, <3>3, <3>4
  <2>2. ASSUME NEW m \in Orphans(h) PROVE h2.msg[m].parent \in Orphans(h) \cup {None}
    <3>1. h2.msg[m].parent = h.msg[m].parent
      BY <1>2, <1>o
    <3> QED
      BY <1>1, <3>1 DEF Agree
  <2> QED
    BY <1>o, <2>1, <2>2 DEF Agree
<1>6. Acyclic(MessageLinks(h2))
  <2>1. MessageLinks(h) \in Links /\ Acyclic(MessageLinks(h)) /\ MessageLinks(h2) \in Links
    BY <1>2, SoundChains, HeapTypes
  <2>2. /\ MessageLinks(h2)[a] = b /\ MessageLinks(h2)[b] = MessageLinks(h)[a]
        /\ \A x \in Ids \ {a, b} : MessageLinks(h2)[x] = MessageLinks(h)[x]
    BY <1>1, <1>2 DEF MessageLinks
  <2>3. \A y \in A : MessageLinks(h)[y] # None => MessageLinks(h)[y] \in A
    BY DEF MessageLinks
  <2> HIDE DEF a, b
  <2>4. a \in A /\ b \notin A
    BY DEF a, b
  <2> QED
    BY <1>1, <2>1, <2>2, <2>3, <2>4, InsertAcyclic
<1>7. ParentsAllowed(h2, h)
  <2> HIDE DEF a, b
  <2> QED
    BY <1>1, <1>2 DEF ParentsAllowed
<1>8. /\ Sound(h2, r, br) /\ (Matched(h) => Matched(h2))
      /\ Freed(h) /\ (\A x \in Live(h) : h2.obj[x].refs > 0) => Freed(h2)
  BY <1>2, <1>4, <1>5, <1>6, <1>7, RelinkedSound
<1>9. Freed(h) => \A x \in Live(h) : h2.obj[x].refs > 0
  BY <1>1, <1>2, CountsFreed
<1> QED
  BY <1>o, <1>8, <1>9

\* The chain c of objects the other way, and so for their messages.
TurnedAround(h2, h, c) ==
    /\ Relinks(h2, h) /\ SameIterators(h2, h) /\ CountsOneMore(h2, h, c[1])
    /\ \A x \in Ids \ ToSet(c) : h2.obj[x].parent = h.obj[x].parent
    /\ \A i \in 1 .. Len(c) : h2.obj[c[i]].parent = IF i = 1 THEN None ELSE c[i - 1]
    /\ \A m \in Ids \ {h.obj[x].message : x \in ToSet(c)} : h2.msg[m].parent = h.msg[m].parent
    /\ \A i \in 1 .. Len(c) : h2.msg[h.obj[c[i]].message].parent = IF i = 1 THEN None ELSE h.obj[c[i - 1]].message

\* The last of a chain loses the link to it, the first gains one.
LEMMA HowManyTurned ==
  ASSUME NEW f, NEW g, NEW x, NEW c, IsChain(f, c, x), \A i, j \in 1 .. Len(c) : c[i] = c[j] => i = j,
         \A y \in Ids \ ToSet(c) : g[y] = f[y],
         \A i \in 1 .. Len(c) : g[c[i]] = IF i = 1 THEN None ELSE c[i - 1],
         NEW y \in Ids
  PROVE  /\ HowMany(g, Ids, y) + (IF y = c[Len(c)] THEN 1 ELSE 0) = HowMany(f, Ids, y) + (IF y = c[1] THEN 1 ELSE 0)
         /\ HowMany(g, Ids, y) \in Nat /\ HowMany(f, Ids, y) \in Nat
<1> DEFINE C == ToSet(c)
<1>1. /\ c \in Seq(Ids) /\ Len(c) \in Nat \ {0} /\ C = {c[i] : i \in 1 .. Len(c)} /\ C \subseteq Ids
      /\ \A i \in 1 .. Len(c) - 1 : f[c[i]] = c[i + 1]
      /\ f[c[Len(c)]] = None /\ None \notin Ids
      /\ \A i \in 1 .. Len(c) : c[i] \in Ids /\ c[i] \in C
  <2>1. c \in Seq(Ids) /\ c # <<>> /\ C = {c[i] : i \in 1 .. Len(c)}
    BY DEF IsChain, IsPath, ToSet
  <2>2. /\ \A i \in 1 .. Len(c) - 1 : f[c[i]] = c[i + 1]
        /\ f[c[Len(c)]] = None
    BY DEF IsChain, IsPath
  <2> HIDE DEF C
  <2>3. \A i \in 1 .. Len(c) : c[i] \in Ids /\ c[i] \in C
    BY <2>1
  <2> QED
    BY <2>1, <2>2, <2>3, IdsFinite
<1> HIDE DEF C
<1>2. /\ IsFiniteSet(Ids) /\ IsFiniteSet(C) /\ IsFiniteSet(Ids \ C)
  BY <1>1, IdsFinite, FS_Subset
<1>3. /\ HowMany(g, Ids, y) = HowMany(g, C, y) + HowMany(g, Ids \ C, y)
      /\ HowMany(f, Ids, y) = HowMany(f, C, y) + HowMany(f, Ids \ C, y)
  <2>1. IsFiniteSet(Ids) /\ C \subseteq Ids
    BY <1>1, <1>2
  <2> QED
    BY <2>1, HowManySplit
<1>4. HowMany(g, Ids \ C, y) = HowMany(f, Ids \ C, y)
  <2>1. \A i \in Ids \ C : g[i] = y <=> f[i] = y
    BY DEF C
  <2> QED
    BY <2>1, HowManySame
<1>5. /\ \A h \in {f, g} : HowMany(h, C, y) \in Nat /\ HowMany(h, Ids, y) \in Nat /\ HowMany(h, Ids \ C, y) \in Nat
  BY <1>2, HowManyNat
<1>6. HowMany(f, C, y) = IF y \in C \ {c[1]} THEN 1 ELSE 0
  <2>1. CASE y \in C \ {c[1]}
    <3>1. PICK i \in 1 .. Len(c) : y = c[i]
      BY <1>1, <2>1
    <3>2. i # 1 /\ i - 1 \in 1 .. Len(c) - 1 /\ i - 1 \in 1 .. Len(c) /\ (i - 1) + 1 = i
      BY <1>1, <2>1, <3>1
    <3>3. f[c[i - 1]] = y /\ c[i - 1] \in C
      BY <1>1, <3>1, <3>2
    <3>4. ASSUME NEW z \in C, f[z] = y PROVE z = c[i - 1]
      <4>1. PICK j \in 1 .. Len(c) : z = c[j]
        BY <1>1
      <4>2. j # Len(c)
        BY <1>1, <3>4, <4>1
      <4>3. j \in 1 .. Len(c) - 1 /\ j + 1 \in 1 .. Len(c)
        BY <1>1, <4>2
      <4>4. c[j + 1] = c[i]
        BY <1>1, <3>1, <3>4, <4>1, <4>3
      <4>5. j + 1 = i
        BY <4>3, <4>4
      <4> QED
        BY <1>1, <4>1, <4>3, <4>5
    <3>5. \A z \in C : f[z] = y => z = c[i - 1]
      BY <3>4
    <3> QED
      BY <2>1, <3>3, <3>5, HowManyOne
  <2>2. CASE y \notin C \ {c[1]}
    <3>1. ASSUME NEW z \in C PROVE f[z] # y
      <4>1. PICK j \in 1 .. Len(c) : z = c[j]
        BY <1>1
      <4>2. CASE j = Len(c)
        BY <1>1, <4>1, <4>2
      <4>3. CASE j # Len(c)
        <5>1. j \in 1 .. Len(c) - 1 /\ j + 1 \in 1 .. Len(c) /\ 1 \in 1 .. Len(c) /\ j + 1 # 1
          BY <1>1, <4>3
        <5>2. f[z] = c[j + 1] /\ c[j + 1] \in C /\ c[j + 1] # c[1]
          BY <1>1, <4>1, <5>1
        <5> QED
          BY <2>2, <5>2
      <4> QED
        BY <4>2, <4>3
    <3>2. HowMany(f, C, y) = 0
      BY <1>2, <3>1, HowManyNat
    <3> QED
      BY <2>2, <3>2
  <2> QED
    BY <2>1, <2>2
<1>7. HowMany(g, C, y) = IF y \in C \ {c[Len(c)]} THEN 1 ELSE 0
  <2>1. CASE y \in C \ {c[Len(c)]}
    <3>1. PICK i \in 1 .. Len(c) : y = c[i]
      BY <1>1, <2>1
    <3>2. i # Len(c) /\ i + 1 \in 1 .. Len(c) /\ (i + 1) - 1 = i /\ i + 1 # 1
      BY <1>1, <2>1, <3>1
    <3>3. g[c[i + 1]] = y /\ c[i + 1] \in C
      BY <1>1, <3>1, <3>2
    <3>4. ASSUME NEW z \in C, g[z] = y PROVE z = c[i + 1]
      <4>1. PICK j \in 1 .. Len(c) : z = c[j]
        BY <1>1
      <4>2. j # 1
        BY <1>1, <3>1, <3>4, <4>1
      <4>3. j - 1 \in 1 .. Len(c) /\ (j - 1) + 1 = j
        BY <1>1, <4>2
      <4>4. c[j - 1] = c[i]
        BY <1>1, <3>1, <3>4, <4>1, <4>2
      <4>5. j - 1 = i
        BY <4>3, <4>4
      <4> QED
        BY <1>1, <4>1, <4>3, <4>5
    <3>5. \A z \in C : g[z] = y => z = c[i + 1]
      BY <3>4
    <3> QED
      BY <2>1, <3>3, <3>5, HowManyOne
  <2>2. CASE y \notin C \ {c[Len(c)]}
    <3>1. ASSUME NEW z \in C PROVE g[z] # y
      <4>1. PICK j \in 1 .. Len(c) : z = c[j]
        BY <1>1
      <4>2. CASE j = 1
        BY <1>1, <4>1, <4>2
      <4>3. CASE j # 1
        <5>1. j - 1 \in 1 .. Len(c) /\ Len(c) \in 1 .. Len(c) /\ j - 1 # Len(c)
          BY <1>1, <4>3
        <5>2. g[z] = c[j - 1] /\ c[j - 1] \in C /\ c[j - 1] # c[Len(c)]
          BY <1>1, <4>1, <4>3, <5>1
        <5> QED
          BY <2>2, <5>2
      <4> QED
        BY <4>2, <4>3
    <3>2. HowMany(g, C, y) = 0
      BY <1>2, <3>1, HowManyNat
    <3> QED
      BY <2>2, <3>2
  <2> QED
    BY <2>1, <2>2
<1>8. c[1] \in C /\ c[Len(c)] \in C
  <2>1. 1 \in 1 .. Len(c) /\ Len(c) \in 1 .. Len(c)
    BY <1>1
  <2> QED
    BY <1>1, <2>1
<1>9. /\ HowMany(f, C, y) + (IF y = c[1] THEN 1 ELSE 0) = IF y \in C THEN 1 ELSE 0
      /\ HowMany(g, C, y) + (IF y = c[Len(c)] THEN 1 ELSE 0) = IF y \in C THEN 1 ELSE 0
  BY <1>6, <1>7, <1>8
<1> QED
  BY <1>3, <1>4, <1>5, <1>9

LEMMA TurnSound ==
  ASSUME NEW h, NEW r \in [Ids -> Nat], NEW br \in [Ids -> Nat], Sound(h, r, br), NEW o \in Live(h),
         NEW h2, TurnedAround(h2, h, ObjectChain(h, o))
  PROVE  /\ Sound(h2, Plus(r, Last(ObjectChain(h, o))), br)
         /\ Matched(h) => Matched(h2)
         /\ Freed(h) => Freed(h2)
         /\ Orphans(h2) = Orphans(h)
<1> DEFINE c == ObjectChain(h, o)
           r2 == Plus(r, Last(c))
           at(i) == h.obj[c[i]].message
<1>1. /\ h \in Heap /\ Agree(h) /\ None \notin Ids
      /\ \A x, y \in Live(h) : h.obj[x].message = h.obj[y].message => x = y
      /\ Live(h) \subseteq Ids /\ \A x \in Live(h) : h.obj[x].message \in Ids /\ h.obj[x].message \in Messages(h)
      /\ \A x \in Ids : h.obj[x].parent \in Live(h) \cup {None}
  BY SoundLives, IdsFinite DEF Sound, Built
<1>2. /\ IsChain(ObjectLinks(h), c, o) /\ ToSet(c) \subseteq Live(h) /\ c \in Seq(Ids)
      /\ \A y \in ToSet(c) : h.obj[y].parent # None => h.obj[y].parent \in ToSet(c)
  BY ObjectChainIs
<1>3. TurnedAround(h2, h, c)
  OBVIOUS
<1> HIDE DEF c
<1>4. /\ Len(c) \in Nat \ {0} /\ c[1] = o /\ ToSet(c) = {c[i] : i \in 1 .. Len(c)} /\ Last(c) = c[Len(c)]
      /\ \A i \in 1 .. Len(c) : c[i] \in Live(h) /\ c[i] \in Ids /\ at(i) \in Ids
      /\ \A i \in 1 .. Len(c) - 1 : h.obj[c[i]].parent = c[i + 1]
  <2>1. Len(c) \in Nat \ {0} /\ c[1] = o /\ ToSet(c) = {c[i] : i \in 1 .. Len(c)} /\ Last(c) = c[Len(c)]
    BY <1>2 DEF IsChain, IsPath, ToSet, Last
  <2>2. \A i \in 1 .. Len(c) : c[i] \in Live(h) /\ c[i] \in Ids /\ at(i) \in Ids
    BY <1>1, <1>2, <2>1
  <2>3. \A i \in 1 .. Len(c) - 1 : ObjectLinks(h)[c[i]] = c[i + 1]
    BY <1>2, Zenon DEF IsChain, IsPath
  <2>4. \A i \in 1 .. Len(c) - 1 : c[i] \in Ids
    BY <2>1, <2>2
  <2> QED
    BY <2>1, <2>2, <2>3, <2>4, Zenon DEF ObjectLinks
<1>5. \A i, j \in 1 .. Len(c) : c[i] = c[j] => i = j
  BY <1>2, SoundChains, PathInjective, Zenon DEF IsChain
<1>6. /\ Relinks(h2, h) /\ CountsOneMore(h2, h, c[1]) /\ h2 \in Heap
      /\ \A x \in Ids : h2.obj[x].iterator = h.obj[x].iterator
      /\ \A x \in Ids \ ToSet(c) : h2.obj[x].parent = h.obj[x].parent
      /\ \A i \in 1 .. Len(c) : h2.obj[c[i]].parent = IF i = 1 THEN None ELSE c[i - 1]
      /\ \A m \in Ids \ {h.obj[x].message : x \in ToSet(c)} : h2.msg[m].parent = h.msg[m].parent
      /\ \A i \in 1 .. Len(c) : h2.msg[at(i)].parent = IF i = 1 THEN None ELSE at(i - 1)
      /\ \A x \in Ids : h2.obj[x].message = h.obj[x].message
  BY <1>3 DEF TurnedAround, SameIterators, Relinks
<1>7. r2 \in [Ids -> Nat]
  BY PlusNat
<1>8. RefersAtMost(h2, r2)
  <2> SUFFICES ASSUME NEW x \in Ids
               PROVE  h2.obj[x].refs >= HowMany(ObjectLinks(h2), Ids, x) + HowMany(Iterators(h2), Ids, x) + r2[x]
    BY DEF RefersAtMost
  <2>1. h.obj[x].refs >= HowMany(ObjectLinks(h), Ids, x) + HowMany(Iterators(h), Ids, x) + r[x]
    BY DEF Sound, Counted
  <2>2. Iterators(h2) = Iterators(h)
    BY <1>6 DEF Iterators
  <2>3. \A y \in Ids \ ToSet(c) : ObjectLinks(h2)[y] = ObjectLinks(h)[y]
    BY <1>6 DEF ObjectLinks
  <2>4. \A i \in 1 .. Len(c) : ObjectLinks(h2)[c[i]] = IF i = 1 THEN None ELSE c[i - 1]
    BY <1>4, <1>6 DEF ObjectLinks
  <2>5. /\ HowMany(ObjectLinks(h2), Ids, x) + (IF x = c[Len(c)] THEN 1 ELSE 0)
             = HowMany(ObjectLinks(h), Ids, x) + (IF x = c[1] THEN 1 ELSE 0)
        /\ HowMany(ObjectLinks(h2), Ids, x) \in Nat /\ HowMany(ObjectLinks(h), Ids, x) \in Nat
    BY <1>2, <1>5, <2>3, <2>4, HowManyTurned, Zenon
  <2>6. h2.obj[x].refs = h.obj[x].refs + (IF x = c[1] THEN 1 ELSE 0) /\ r2[x] = r[x] + (IF x = c[Len(c)] THEN 1 ELSE 0)
    BY <1>4, <1>6 DEF CountsOneMore, Plus
  <2>7. HowMany(Iterators(h), Ids, x) \in Nat /\ r[x] \in Nat /\ h.obj[x].refs \in Nat
    BY <1>1, IdsFinite, HowManyNat, HeapTypes
  <2> DEFINE first == IF x = c[1] THEN 1 ELSE 0
             last == IF x = c[Len(c)] THEN 1 ELSE 0
  <2>8. first \in Nat /\ last \in Nat
    OBVIOUS
  <2>9. /\ HowMany(ObjectLinks(h2), Ids, x) + last = HowMany(ObjectLinks(h), Ids, x) + first
        /\ h2.obj[x].refs = h.obj[x].refs + first /\ r2[x] = r[x] + last
        /\ HowMany(Iterators(h2), Ids, x) = HowMany(Iterators(h), Ids, x)
    BY <2>2, <2>5, <2>6
  <2>10. HowMany(ObjectLinks(h2), Ids, x) \in Nat /\ HowMany(ObjectLinks(h), Ids, x) \in Nat
    BY <2>5
  <2> HIDE DEF r2, first, last
  <2> DEFINE L == HowMany(ObjectLinks(h), Ids, x)
             L2 == HowMany(ObjectLinks(h2), Ids, x)
             I == HowMany(Iterators(h), Ids, x)
             n == h.obj[x].refs
             n2 == h2.obj[x].refs
  <2>11. /\ n \in Nat /\ L \in Nat /\ L2 \in Nat /\ I \in Nat /\ n2 = n + first /\ n >= L + I + r[x]
         /\ L2 + last = L + first
    BY <2>1, <2>7, <2>9, <2>10
  <2> HIDE DEF L, L2, I, n, n2
  <2>12. n2 >= L2 + I + (r[x] + last)
    BY <2>7, <2>8, <2>11
  <2> QED
    BY <2>9, <2>12 DEF L2, I, n2
<1> HIDE DEF r2
<1>o. /\ Live(h2) = Live(h) /\ Orphans(h2) = Orphans(h) /\ Orphans(h) \subseteq Ids
      /\ Orphans(h) \cap {h.obj[x].message : x \in ToSet(c)} = {}
  <2>1. Live(h2) = Live(h) /\ Orphans(h2) = Orphans(h)
    BY <1>1, <1>6, RelinkedSame
  <2>2. Orphans(h) \subseteq Ids
    BY DEF Orphans, Messages
  <2>3. Orphans(h) \cap {h.obj[x].message : x \in ToSet(c)} = {}
    BY <1>2 DEF Orphans
  <2> QED
    BY <2>1, <2>2, <2>3
<1>9. Agree(h2)
  <2>1. ASSUME NEW x \in Live(h)
        PROVE  LET q == h2.obj[x].parent
                   mp == h2.msg[h2.obj[x].message].parent
               IN IF q # None THEN mp = h2.obj[q].message ELSE mp \in Orphans(h) \cup {None}
    <3>1. x \in Ids /\ h2.obj[x].message = h.obj[x].message /\ h.obj[x].message \in Ids
      BY <1>1, <1>6
    <3>2. CASE x \in ToSet(c)
      <4>1. PICK i \in 1 .. Len(c) : x = c[i]
        BY <1>4, <3>2
      <4>2. CASE i = 1
        BY <1>6, <3>1, <4>1, <4>2
      <4>3. CASE i # 1
        <5>1. i - 1 \in 1 .. Len(c)
          BY <1>4, <4>3
        <5>2. h2.obj[x].parent = c[i - 1] /\ h2.msg[h.obj[x].message].parent = at(i - 1) /\ c[i - 1] \in Ids
          BY <1>4, <1>6, <4>1, <4>3, <5>1
        <5>3. h2.obj[c[i - 1]].message = at(i - 1)
          BY <1>6, <5>2
        <5> QED
          BY <1>1, <3>1, <5>2, <5>3
      <4> QED
        BY <4>2, <4>3
    <3>3. CASE x \notin ToSet(c)
      <4>1. h2.obj[x].parent = h.obj[x].parent /\ h2.msg[h.obj[x].message].parent = h.msg[h.obj[x].message].parent
        <5>1. h.obj[x].message \notin {h.obj[y].message : y \in ToSet(c)}
          <6>1. \A y \in ToSet(c) : y \in Live(h) /\ y # x
            BY <1>2, <3>3
          <6>2. \A y \in Live(h) : h.obj[x].message = h.obj[y].message => x = y
            BY <1>1
          <6> QED
            BY <6>1, <6>2
        <5> QED
          BY <1>6, <3>1, <3>3, <5>1, Zenon
      <4>2. h.obj[x].parent # None => h2.obj[h.obj[x].parent].message = h.obj[h.obj[x].parent].message
        BY <1>1, <1>6, <3>1, Zenon
      <4> QED
        BY <1>1, <3>1, <4>1, <4>2 DEF Agree
    <3> QED
      BY <3>2, <3>3
  <2>2. ASSUME NEW m \in Orphans(h) PROVE h2.msg[m].parent \in Orphans(h) \cup {None}
    <3>1. h2.msg[m].parent = h.msg[m].parent
      BY <1>6, <1>o
    <3> QED
      BY <1>1, <3>1 DEF Agree
  <2> QED
    BY <1>o, <2>1, <2>2 DEF Agree
<1>10. Acyclic(MessageLinks(h2))
  <2>1. MessageLinks(h) \in Links /\ Acyclic(MessageLinks(h)) /\ MessageLinks(h2) \in Links
    BY <1>6, SoundChains, HeapTypes
  <2> DEFINE d == [i \in 1 .. Len(c) |-> at(i)]
  <2>2. d \in Seq(Ids) /\ Len(d) = Len(c) /\ d # <<>> /\ \A i \in 1 .. Len(c) : d[i] = at(i)
    BY <1>4
  <2>3. IsPath(MessageLinks(h), d, d[1])
    <3>1. ASSUME NEW i \in 1 .. Len(d) - 1 PROVE MessageLinks(h)[d[i]] = d[i + 1]
      <4>1. i \in 1 .. Len(c) /\ i + 1 \in 1 .. Len(c) /\ i \in 1 .. Len(c) - 1
        BY <1>4, <2>2
      <4>2. h.obj[c[i]].parent = c[i + 1] /\ c[i + 1] # None /\ c[i] \in Live(h)
        BY <1>1, <1>4, <4>1
      <4>3. h.msg[at(i)].parent = at(i + 1)
        BY <1>1, <4>2, Zenon DEF Agree
      <4>4. d[i] = at(i) /\ d[i + 1] = at(i + 1) /\ at(i) \in Ids
        BY <1>4, <2>2, <4>1
      <4> HIDE DEF d
      <4> QED
        BY <4>3, <4>4 DEF MessageLinks
    <3> HIDE DEF d
    <3> QED
      BY <2>2, <3>1, Zenon DEF IsPath
  <2> HIDE DEF d
  <2>4. ToSet(d) = {h.obj[x].message : x \in ToSet(c)}
    <3>0. DOMAIN d = 1 .. Len(c)
      BY <2>2
    <3>1. ToSet(d) = {d[i] : i \in 1 .. Len(c)}
      BY <3>0, Zenon DEF ToSet
    <3>2. ToSet(d) = {at(i) : i \in 1 .. Len(c)}
      BY <2>2, <3>1, Zenon
    <3>3. ToSet(c) = {c[i] : i \in 1 .. Len(c)}
      BY <1>4
    <3> QED
      BY <3>2, <3>3
  <2>5. \A y \in Ids \ ToSet(d) : MessageLinks(h2)[y] = MessageLinks(h)[y]
    BY <1>6, <2>4 DEF MessageLinks
  <2>6. \A i \in 1 .. Len(d) : MessageLinks(h2)[d[i]] = IF i = 1 THEN None ELSE d[i - 1]
    <3> SUFFICES ASSUME NEW i \in 1 .. Len(d) PROVE MessageLinks(h2)[d[i]] = IF i = 1 THEN None ELSE d[i - 1]
      OBVIOUS
    <3>1. i \in 1 .. Len(c) /\ d[i] = at(i) /\ at(i) \in Ids
      BY <1>4, <2>2
    <3>2. MessageLinks(h2)[d[i]] = IF i = 1 THEN None ELSE at(i - 1)
      BY <1>6, <3>1 DEF MessageLinks
    <3>3. i # 1 => d[i - 1] = at(i - 1)
      <4>1. i # 1 => i - 1 \in 1 .. Len(c)
        BY <1>4, <3>1
      <4> QED
        BY <2>2, <4>1, Zenon
    <3> QED
      BY <3>2, <3>3
  <2> QED
    BY <2>1, <2>3, <2>5, <2>6, ReversedAcyclic
<1>11. ParentsAllowed(h2, h)
  <2> SUFFICES ASSUME NEW m \in Ids, h2.msg[m].parent # h.msg[m].parent
               PROVE  m \in Messages(h) /\ h2.msg[m].parent \in Messages(h) \cup {None}
    BY DEF ParentsAllowed
  <2>1. m \in {h.obj[x].message : x \in ToSet(c)}
    BY <1>6
  <2>2. PICK i \in 1 .. Len(c) : m = at(i)
    BY <1>4, <2>1
  <2>3. i # 1 => i - 1 \in 1 .. Len(c)
    BY <1>4
  <2>4. m \in Messages(h) /\ (i # 1 => at(i - 1) \in Messages(h))
    BY <1>1, <1>4, <2>2, <2>3
  <2>5. h2.msg[m].parent = IF i = 1 THEN None ELSE at(i - 1)
    BY <1>6, <2>2
  <2> QED
    BY <2>4, <2>5
<1>12. /\ Sound(h2, r2, br) /\ (Matched(h) => Matched(h2))
       /\ Freed(h) /\ (\A x \in Live(h) : h2.obj[x].refs > 0) => Freed(h2)
  BY <1>6, <1>7, <1>8, <1>9, <1>10, <1>11, RelinkedSound
<1>13. Freed(h) => \A x \in Live(h) : h2.obj[x].refs > 0
  BY <1>1, <1>6, CountsFreed
<1> QED
  BY <1>o, <1>12, <1>13 DEF r2, c

-----------------------------------------------------------------------------
(* Reversing, prepending and iterating *)

Once(c) == \A i, j \in 1 .. Len(c) : c[i] = c[j] => i = j

LEMMA PositionIs ==
  ASSUME NEW c \in Seq(Ids), Once(c), NEW i \in 1 .. Len(c)
  PROVE  PositionIn(c, c[i]) = i
<1>1. DOMAIN c = 1 .. Len(c)
  OBVIOUS
<1> QED
  BY <1>1 DEF PositionIn, Once

\* The messages of c are linked the other way.
MessagesTurned(h2, h, c) ==
    /\ h2 \in Heap /\ h2.obj = h.obj /\ h2.body = h.body /\ h2.bobj = h.bobj
    /\ \A x \in Ids : h2.msg[x].kind = h.msg[x].kind /\ h2.msg[x].body = h.msg[x].body
    /\ \A x \in Ids \ ToSet(c) : h2.msg[x].parent = h.msg[x].parent
    /\ \A i \in 1 .. Len(c) : h2.msg[c[i]].parent = IF i = 1 THEN None ELSE c[i - 1]

LEMMA ReversedIs ==
  ASSUME NEW h \in Heap, NEW m, NEW c \in Seq(Ids), MessageChain(h, m) = c, Once(c)
  PROVE  MessagesTurned(Reversed(h, m), h, c)
<1> DEFINE Msg == [kind : Kinds \cup {"free"}, parent : Ids \cup {None}, body : Ids \cup {None}]
           before(x) == LET i == PositionIn(c, x) IN IF i = 1 THEN None ELSE c[i - 1]
           new == [x \in Ids |-> IF x \notin ToSet(c) THEN h.msg[x] ELSE [h.msg[x] EXCEPT !.parent = before(x)]]
           h2 == Reversed(h, m)
<1>1. h2 = [h EXCEPT !.msg = new]
  BY DEF Reversed
<1>2. h2.msg = new /\ h2.obj = h.obj /\ h2.body = h.body /\ h2.bobj = h.bobj
      /\ h2 = [obj |-> h.obj, msg |-> new, body |-> h.body, bobj |-> h.bobj]
  <2>1. h = [obj |-> h.obj, msg |-> h.msg, body |-> h.body, bobj |-> h.bobj]
    BY DEF Heap
  <2> HIDE DEF new, h2
  <2> QED
    BY <1>1, <2>1
<1>3. ToSet(c) = {c[i] : i \in 1 .. Len(c)} /\ \A i \in 1 .. Len(c) : c[i] \in Ids
  BY DEF ToSet
<1>4. \A i \in 1 .. Len(c) : PositionIn(c, c[i]) = i
  BY PositionIs
<1>5. \A i \in 1 .. Len(c) : before(c[i]) = (IF i = 1 THEN None ELSE c[i - 1]) /\ before(c[i]) \in Ids \cup {None}
  <2> TAKE i \in 1 .. Len(c)
  <2>1. i # 1 => i - 1 \in 1 .. Len(c)
    OBVIOUS
  <2> QED
    BY <1>3, <1>4, <2>1
<1> HIDE DEF before
<1>6. ASSUME NEW x \in Ids
      PROVE  /\ h.msg[x] \in Msg /\ new[x] \in Msg /\ new[x].kind = h.msg[x].kind /\ new[x].body = h.msg[x].body
             /\ x \notin ToSet(c) => new[x].parent = h.msg[x].parent
             /\ x \in ToSet(c) => new[x].parent = before(x)
  <2>1. h.msg[x] \in Msg
    BY HeapTypes
  <2>2. CASE x \in ToSet(c)
    <3>1. before(x) \in Ids \cup {None}
      BY <1>3, <1>5, <2>2
    <3>2. new[x] = [h.msg[x] EXCEPT !.parent = before(x)]
      BY <2>2
    <3> QED
      BY <2>1, <2>2, <3>1, <3>2
  <2>3. CASE x \notin ToSet(c)
    BY <2>1, <2>3
  <2> QED
    BY <2>2, <2>3
<1>7. new \in [Ids -> Msg]
  <2>1. \A x \in Ids : new[x] \in Msg
    BY <1>6
  <2> QED
    BY <2>1, Zenon
<1>8. h2 \in Heap
  BY <1>2, <1>7 DEF Heap
<1> HIDE DEF new, h2
<1>9. \A i \in 1 .. Len(c) : new[c[i]].parent = IF i = 1 THEN None ELSE c[i - 1]
  BY <1>3, <1>5, <1>6
<1> QED
  BY <1>2, <1>6, <1>8, <1>9 DEF h2, MessagesTurned

\* serialize leaves the chain as it was.
LEMMA ReversedTwice ==
  ASSUME NEW h, NEW r \in [Ids -> Nat], NEW br \in [Ids -> Nat], Sound(h, r, br), NEW m \in Ids
  PROVE  Reversed(Reversed(h, m), Last(MessageChain(h, m))) = h
<1> DEFINE c == MessageChain(h, m)
           n == Len(c)
           d == [i \in 1 .. n |-> c[n + 1 - i]]
           h1 == Reversed(h, m)
           h2 == Reversed(h1, Last(c))
<1>1. /\ h \in Heap /\ MessageLinks(h) \in Links /\ Acyclic(MessageLinks(h))
      /\ IsChain(MessageLinks(h), c, m) /\ c \in Seq(Ids)
  BY SoundLives, SoundChains, MessageChainIs, Zenon
<1> HIDE DEF c
<1>2. /\ n \in Nat \ {0} /\ ToSet(c) = {c[i] : i \in 1 .. n} /\ Last(c) = c[n]
      /\ \A i \in 1 .. n : c[i] \in Ids
      /\ \A i \in 1 .. n - 1 : h.msg[c[i]].parent = c[i + 1]
      /\ h.msg[c[n]].parent = None
  <2>1. c # <<>> /\ ToSet(c) = {c[i] : i \in 1 .. n} /\ Last(c) = c[n]
    BY <1>1 DEF IsChain, IsPath, ToSet, Last
  <2>2. n \in Nat \ {0} /\ \A i \in 1 .. n : c[i] \in Ids
    BY <1>1, <2>1
  <2>3. (\A i \in 1 .. n - 1 : MessageLinks(h)[c[i]] = c[i + 1]) /\ MessageLinks(h)[c[n]] = None
    BY <1>1 DEF IsChain, IsPath
  <2>4. \A i \in 1 .. n : MessageLinks(h)[c[i]] = h.msg[c[i]].parent
    BY <2>2 DEF MessageLinks
  <2>5. n \in 1 .. n /\ \A i \in 1 .. n - 1 : i \in 1 .. n
    BY <2>2
  <2> HIDE DEF n
  <2>6. /\ \A i \in 1 .. n - 1 : h.msg[c[i]].parent = c[i + 1]
        /\ h.msg[c[n]].parent = None
    BY <2>3, <2>4, <2>5
  <2> QED
    BY <2>1, <2>2, <2>6
<1>3. Once(c)
  BY <1>1, PathInjective DEF IsChain, Once
<1>t. MessagesTurned(h1, h, c)
  <2>1. MessageChain(h, m) = c
    BY DEF c
  <2> QED
    BY <1>1, <1>3, <2>1, ReversedIs
<1> HIDE DEF h1
<1>4. /\ h1 \in Heap /\ h1.obj = h.obj /\ h1.body = h.body /\ h1.bobj = h.bobj
      /\ \A x \in Ids : h1.msg[x].kind = h.msg[x].kind /\ h1.msg[x].body = h.msg[x].body
      /\ \A x \in Ids \ ToSet(c) : h1.msg[x].parent = h.msg[x].parent
      /\ \A i \in 1 .. n : h1.msg[c[i]].parent = IF i = 1 THEN None ELSE c[i - 1]
  BY <1>t DEF MessagesTurned
<1>5. /\ d \in Seq(Ids) /\ Len(d) = n /\ d # <<>> /\ d[1] = c[n] /\ d[n] = c[1]
      /\ \A i \in 1 .. n : d[i] = c[n + 1 - i]
  <2>1. \A i \in 1 .. n : n + 1 - i \in 1 .. n
    BY <1>2
  <2>2. d \in [1 .. n -> Ids]
    BY <1>2, <2>1
  <2> HIDE DEF n
  <2>3. d \in Seq(Ids) /\ Len(d) = n
    BY <1>2, <2>2
  <2>4. 1 \in 1 .. n /\ n \in 1 .. n /\ n + 1 - 1 = n /\ n + 1 - n = 1
    BY <1>2
  <2> QED
    BY <1>2, <2>3, <2>4
<1> HIDE DEF d
<1>6. MessageChain(h1, Last(c)) = d
  <2>1. MessageLinks(h1) \in Links /\ c[n] \in Ids
    BY <1>2, <1>4, HeapTypes
  <2>2. Acyclic(MessageLinks(h1))
    <3>1. /\ \A y \in Ids \ ToSet(c) : MessageLinks(h1)[y] = MessageLinks(h)[y]
          /\ \A i \in 1 .. Len(c) : MessageLinks(h1)[c[i]] = IF i = 1 THEN None ELSE c[i - 1]
      BY <1>2, <1>4 DEF MessageLinks
    <3> QED
      BY <1>1, <2>1, <3>1, ReversedAcyclic DEF IsChain
  <2>3. IsChain(MessageLinks(h1), d, c[n])
    <3>1. ASSUME NEW i \in 1 .. Len(d) - 1 PROVE MessageLinks(h1)[d[i]] = d[i + 1]
      <4>1. i \in 1 .. n /\ i + 1 \in 1 .. n /\ n + 1 - i \in 1 .. n /\ n + 1 - i # 1 /\ n + 1 - (i + 1) = (n + 1 - i) - 1
        <5>1. n \in Nat \ {0} /\ i \in 1 .. n - 1
          BY <1>2, <1>5
        <5> HIDE DEF n
        <5> QED
          BY <5>1
      <4>2. h1.msg[c[n + 1 - i]].parent = c[(n + 1 - i) - 1]
        BY <1>4, <4>1, Zenon
      <4>3. d[i] = c[n + 1 - i] /\ d[i + 1] = c[(n + 1 - i) - 1] /\ d[i] \in Ids
        BY <1>2, <1>5, <4>1, Zenon
      <4> QED
        BY <4>2, <4>3 DEF MessageLinks
    <3>2. MessageLinks(h1)[d[Len(d)]] = None
      <4>1. 1 \in 1 .. n
        BY <1>2
      <4>2. d[Len(d)] = c[1] /\ c[1] \in Ids
        BY <1>2, <1>5, <4>1
      <4>3. h1.msg[c[1]].parent = None
        BY <1>4, <4>1
      <4> QED
        BY <4>2, <4>3 DEF MessageLinks
    <3> QED
      BY <1>5, <3>1, <3>2 DEF IsChain, IsPath
  <2>4. Chain(MessageLinks(h1), c[n]) = d
    BY <2>1, <2>2, <2>3, ChainIs
  <2> QED
    BY <1>2, <2>4 DEF MessageChain, MessageLinks
<1>7. Once(d)
  <2> SUFFICES ASSUME NEW i \in 1 .. n, NEW j \in 1 .. n, d[i] = d[j] PROVE i = j
    BY <1>5 DEF Once
  <2>1. n + 1 - i \in 1 .. n /\ n + 1 - j \in 1 .. n
    BY <1>2
  <2>2. n + 1 - i = n + 1 - j
    BY <1>3, <1>5, <2>1, ZenonT(30) DEF Once
  <2> QED
    BY <1>2, <2>2
<1>u. MessagesTurned(h2, h1, d)
  <2>1. h1 \in Heap /\ d \in Seq(Ids)
    BY <1>4, <1>5
  <2> QED
    BY <1>6, <1>7, <2>1, ReversedIs
<1> HIDE DEF h2
<1>8. /\ h2 \in Heap /\ h2.obj = h1.obj /\ h2.body = h1.body /\ h2.bobj = h1.bobj
      /\ \A x \in Ids : h2.msg[x].kind = h1.msg[x].kind /\ h2.msg[x].body = h1.msg[x].body
      /\ \A x \in Ids \ ToSet(d) : h2.msg[x].parent = h1.msg[x].parent
      /\ \A i \in 1 .. n : h2.msg[d[i]].parent = IF i = 1 THEN None ELSE d[i - 1]
  BY <1>5, <1>u DEF MessagesTurned
<1>9. ToSet(d) = ToSet(c)
  <2>0. DOMAIN d = 1 .. n
    BY <1>5
  <2>1. ToSet(d) = {d[i] : i \in 1 .. n}
    BY <2>0 DEF ToSet
  <2>2. \A i \in 1 .. n : n + 1 - i \in 1 .. n /\ n + 1 - (n + 1 - i) = i
    BY <1>2
  <2>3. \A i \in 1 .. n : d[i] = c[n + 1 - i] /\ c[i] = d[n + 1 - i]
    BY <1>5, <2>2, Zenon
  <2> HIDE DEF n
  <2>4. \A y \in ToSet(d) : y \in ToSet(c)
    BY <1>2, <2>1, <2>2, <2>3
  <2>5. \A y \in ToSet(c) : y \in ToSet(d)
    BY <1>2, <2>1, <2>2, <2>3
  <2> QED
    BY <2>4, <2>5, Zenon
<1>10. ASSUME NEW x \in Ids PROVE h2.msg[x] = h.msg[x]
  <2>1. h2.msg[x].parent = h.msg[x].parent
    <3>1. CASE x \notin ToSet(c)
      BY <1>4, <1>8, <1>9, <3>1
    <3>2. CASE x \in ToSet(c)
      <4>1. PICK i \in 1 .. n : x = c[i]
        BY <1>2, <3>2
      <4> DEFINE j == n + 1 - i
      <4>2. j \in 1 .. n /\ n + 1 - j = i /\ (j = 1 <=> i = n) /\ n + 1 - (j - 1) = i + 1
        BY <1>2
      <4>3. d[j] = x /\ h2.msg[x].parent = IF j = 1 THEN None ELSE d[j - 1]
        <5>1. d[j] = x
          BY <1>5, <4>1, <4>2, Zenon
        <5> HIDE DEF j, n
        <5> QED
          BY <1>8, <4>2, <5>1
      <4>4. CASE i = n
        BY <1>2, <4>1, <4>2, <4>3, <4>4
      <4>5. CASE i # n
        <5>1. j # 1 /\ j - 1 \in 1 .. n /\ i \in 1 .. n - 1
          BY <1>2, <4>2, <4>5
        <5>2. d[j - 1] = c[i + 1]
          BY <1>5, <4>2, <5>1, Zenon
        <5> QED
          BY <1>2, <4>1, <4>3, <5>1, <5>2
      <4> QED
        BY <4>4, <4>5
    <3> QED
      BY <3>1, <3>2
  <2>2. h2.msg[x].kind = h.msg[x].kind /\ h2.msg[x].body = h.msg[x].body
    BY <1>4, <1>8
  <2>3. /\ h2.msg[x] \in [kind : Kinds \cup {"free"}, parent : Ids \cup {None}, body : Ids \cup {None}]
        /\ h.msg[x] \in [kind : Kinds \cup {"free"}, parent : Ids \cup {None}, body : Ids \cup {None}]
    BY <1>1, <1>8, HeapTypes
  <2> QED
    BY <2>1, <2>2, <2>3
<1>11. h2 = h
  <2>1. h2.msg = h.msg
    <3>1. \E S, T : h2.msg \in [Ids -> S] /\ h.msg \in [Ids -> T]
      BY <1>1, <1>8, Zenon DEF Heap
    <3> QED
      BY <1>10, <3>1
  <2>2. h2.obj = h.obj /\ h2.body = h.body /\ h2.bobj = h.bobj
    BY <1>4, <1>8
  <2> QED
    <3>1. h2 = [obj |-> h2.obj, msg |-> h2.msg, body |-> h2.body, bobj |-> h2.bobj]
      BY <1>8 DEF Heap
    <3>2. h = [obj |-> h.obj, msg |-> h.msg, body |-> h.body, bobj |-> h.bobj]
      BY <1>1 DEF Heap
    <3> QED
      BY <2>1, <2>2, <3>1, <3>2
<1> QED
  BY <1>11 DEF h2, h1, c

Object == [refs : Nat, message : Ids \cup {None}, parent : Ids \cup {None},
           body : Ids \cup {None}, iterator : Ids \cup {None}]

LEMMA HeapRecord ==
  ASSUME NEW h \in Heap
  PROVE  /\ h = [obj |-> h.obj, msg |-> h.msg, body |-> h.body, bobj |-> h.bobj]
         /\ h.obj \in [Ids -> Object]
         /\ h.msg \in [Ids -> [kind : Kinds \cup {"free"}, parent : Ids \cup {None}, body : Ids \cup {None}]]
         /\ h.body \in [Ids -> Nat] /\ h.bobj \in [Ids -> [refs : Nat, body : Ids \cup {None}]]
  BY DEF Heap, Object

LEMMA HeapOf ==
  ASSUME NEW obj \in [Ids -> Object],
         NEW msg \in [Ids -> [kind : Kinds \cup {"free"}, parent : Ids \cup {None}, body : Ids \cup {None}]],
         NEW body \in [Ids -> Nat], NEW bobj \in [Ids -> [refs : Nat, body : Ids \cup {None}]]
  PROVE  [obj |-> obj, msg |-> msg, body |-> body, bobj |-> bobj] \in Heap
  BY DEF Heap, Object

\* h2 is h but for the object o.
OnlyObject(h2, h, o) ==
    /\ h2 \in Heap /\ h2.msg = h.msg /\ h2.body = h.body /\ h2.bobj = h.bobj
    /\ \A x \in Ids \ {o} : h2.obj[x] = h.obj[x]

LEMMA AddRefIs ==
  ASSUME NEW h \in Heap, NEW o \in Ids
  PROVE  /\ OnlyObject(AddRef(h, o), h, o)
         /\ AddRef(h, o).obj[o] = [refs |-> h.obj[o].refs + 1, message |-> h.obj[o].message, parent |-> h.obj[o].parent,
                                   body |-> h.obj[o].body, iterator |-> h.obj[o].iterator]
<1> DEFINE v == [h.obj[o] EXCEPT !.refs = @ + 1]
           new == [h.obj EXCEPT ![o] = v]
<1>1. h.obj \in [Ids -> Object] /\ h.obj[o] \in Object
  BY HeapRecord
<1>2. v \in Object /\ v = [refs |-> h.obj[o].refs + 1, message |-> h.obj[o].message, parent |-> h.obj[o].parent,
                           body |-> h.obj[o].body, iterator |-> h.obj[o].iterator]
  BY <1>1 DEF Object
<1>3. AddRef(h, o) = [obj |-> new, msg |-> h.msg, body |-> h.body, bobj |-> h.bobj]
  <2>1. AddRef(h, o) = [h EXCEPT !.obj = new]
    BY DEF AddRef
  <2> HIDE DEF new
  <2> QED
    BY <2>1, HeapRecord
<1> HIDE DEF v
<1>4. new \in [Ids -> Object] /\ new[o] = v /\ \A x \in Ids \ {o} : new[x] = h.obj[x]
  BY <1>1, <1>2
<1> HIDE DEF new
<1>5. AddRef(h, o) \in Heap
  BY <1>3, <1>4, HeapRecord, HeapOf
<1> QED
  BY <1>2, <1>3, <1>4, <1>5 DEF OnlyObject

LEMMA IteratorPut ==
  ASSUME NEW h \in Heap, NEW o \in Ids, NEW n \in Ids \cup {None}
  PROVE  LET h2 == [h EXCEPT !.obj[o].iterator = n]
         IN /\ OnlyObject(h2, h, o)
            /\ h2.obj[o] = [refs |-> h.obj[o].refs, message |-> h.obj[o].message, parent |-> h.obj[o].parent,
                            body |-> h.obj[o].body, iterator |-> n]
<1> DEFINE v == [h.obj[o] EXCEPT !.iterator = n]
           new == [h.obj EXCEPT ![o] = v]
           h2 == [h EXCEPT !.obj[o].iterator = n]
<1>1. h.obj \in [Ids -> Object] /\ h.obj[o] \in Object
  BY HeapRecord
<1>2. v \in Object /\ v = [refs |-> h.obj[o].refs, message |-> h.obj[o].message, parent |-> h.obj[o].parent,
                           body |-> h.obj[o].body, iterator |-> n]
  BY <1>1 DEF Object
<1>3. h2 = [obj |-> new, msg |-> h.msg, body |-> h.body, bobj |-> h.bobj]
  <2>1. h2 = [h EXCEPT !.obj = new]
    OBVIOUS
  <2> HIDE DEF new, h2
  <2> QED
    BY <2>1, HeapRecord
<1> HIDE DEF v
<1>4. new \in [Ids -> Object] /\ new[o] = v /\ \A x \in Ids \ {o} : new[x] = h.obj[x]
  BY <1>1, <1>2
<1> HIDE DEF new, h2
<1>5. h2 \in Heap
  BY <1>3, <1>4, HeapRecord, HeapOf
<1>6. OnlyObject(h2, h, o) /\ h2.obj[o] = v
  BY <1>3, <1>4, <1>5 DEF OnlyObject
<1> QED
  BY <1>2, <1>6 DEF h2

\* h2 is h with the parents p of the object o and b of the message m.
LinksPut(h2, h, o, p, m, b) ==
    /\ h2 \in Heap /\ h2.body = h.body /\ h2.bobj = h.bobj
    /\ \A x \in Ids \ {o} : h2.obj[x] = h.obj[x]
    /\ h2.obj[o] = [refs |-> h.obj[o].refs, message |-> h.obj[o].message, parent |-> p,
                    body |-> h.obj[o].body, iterator |-> h.obj[o].iterator]
    /\ \A x \in Ids : /\ h2.msg[x].kind = h.msg[x].kind /\ h2.msg[x].body = h.msg[x].body
                      /\ h2.msg[x].parent = IF x = m THEN b ELSE h.msg[x].parent

LEMMA LinkPut ==
  ASSUME NEW h \in Heap, NEW o \in Ids, NEW p \in Ids \cup {None}, NEW m \in Ids, NEW b \in Ids \cup {None}
  PROVE  LinksPut([h EXCEPT !.obj[o].parent = p, !.msg[m].parent = b], h, o, p, m, b)
<1> DEFINE Msg == [kind : Kinds \cup {"free"}, parent : Ids \cup {None}, body : Ids \cup {None}]
           v == [h.obj[o] EXCEPT !.parent = p]
           w == [h.msg[m] EXCEPT !.parent = b]
           new == [h.obj EXCEPT ![o] = v]
           msg == [h.msg EXCEPT ![m] = w]
           h2 == [h EXCEPT !.obj[o].parent = p, !.msg[m].parent = b]
<1>1. h.obj \in [Ids -> Object] /\ h.obj[o] \in Object /\ h.msg \in [Ids -> Msg] /\ h.msg[m] \in Msg
  BY HeapRecord
<1>2. v \in Object /\ v = [refs |-> h.obj[o].refs, message |-> h.obj[o].message, parent |-> p,
                           body |-> h.obj[o].body, iterator |-> h.obj[o].iterator]
  BY <1>1 DEF Object
<1>3. w \in Msg /\ w.kind = h.msg[m].kind /\ w.body = h.msg[m].body /\ w.parent = b
  BY <1>1
<1>4. h2 = [obj |-> new, msg |-> msg, body |-> h.body, bobj |-> h.bobj]
  <2>1. h2 = [h EXCEPT !.obj = new, !.msg = msg]
    OBVIOUS
  <2>2. h = [obj |-> h.obj, msg |-> h.msg, body |-> h.body, bobj |-> h.bobj]
    BY HeapRecord
  <2> HIDE DEF new, msg, h2
  <2>3. [h EXCEPT !.obj = new] = [obj |-> new, msg |-> h.msg, body |-> h.body, bobj |-> h.bobj]
    BY <2>2
  <2>4. h2 = [[h EXCEPT !.obj = new] EXCEPT !.msg = msg]
    BY <2>1
  <2> QED
    BY <2>3, <2>4, Zenon
<1> HIDE DEF v, w
<1>5. /\ new \in [Ids -> Object] /\ new[o] = v /\ \A x \in Ids \ {o} : new[x] = h.obj[x]
      /\ msg \in [Ids -> Msg] /\ msg[m] = w /\ \A x \in Ids \ {m} : msg[x] = h.msg[x]
  BY <1>1, <1>2, <1>3
<1> HIDE DEF new, msg, h2
<1>6. h2 \in Heap
  BY <1>4, <1>5, HeapRecord, HeapOf
<1>7. \A x \in Ids : /\ msg[x].kind = h.msg[x].kind /\ msg[x].body = h.msg[x].body
                     /\ msg[x].parent = IF x = m THEN b ELSE h.msg[x].parent
  BY <1>3, <1>5
<1> QED
  BY <1>2, <1>4, <1>5, <1>6, <1>7, ZenonT(30) DEF h2, LinksPut

\* Objects that change nothing but links and references are relinked.
LEMMA RelinksFrom ==
  ASSUME NEW h \in Heap, NEW h2 \in Heap, \A x \in Live(h) : h.obj[x].message # None,
         \A x \in Ids \ Live(h) : h2.obj[x] = h.obj[x],
         \A x \in Ids : h2.obj[x].message = h.obj[x].message /\ h2.obj[x].body = h.obj[x].body,
         \A x \in Ids : h2.msg[x].kind = h.msg[x].kind /\ h2.msg[x].body = h.msg[x].body,
         h2.body = h.body, h2.bobj = h.bobj
  PROVE  Relinks(h2, h)
<1>1. ASSUME NEW x \in Ids PROVE h2.obj[x] = NoObject <=> h.obj[x] = NoObject
  <2>1. CASE x \in Live(h)
    <3>1. h2.obj[x] # NoObject
      BY <2>1 DEF NoObject
    <3> QED
      BY <2>1, <3>1 DEF Live
  <2>2. CASE x \notin Live(h)
    BY <2>2
  <2> QED
    BY <2>1, <2>2
<1> QED
  BY <1>1 DEF Relinks

\* h2 is as sound as h was, with these references from outside.
Stays(h2, h, r, br) ==
    /\ Sound(h2, r, br)
    /\ Matched(h) => Matched(h2)
    /\ Freed(h) => Freed(h2)
    /\ Orphans(h2) = Orphans(h)

LEMMA ReleasedStays ==
  ASSUME NEW h, NEW r \in [Ids -> Nat], NEW br \in [Ids -> Nat], NEW old \in Ids \cup {None},
         NEW h1, Stays(h1, h, Plus(r, old), br)
  PROVE  Stays(IF old = None THEN h1 ELSE Release(h1, old), h, r, br)
<1>1. CASE old = None
  <2>1. Plus(r, old) = r
    BY <1>1, PlusNone
  <2> QED
    BY <1>1, <2>1
<1>2. CASE old # None
  <2>1. /\ Plus(r, old) \in [Ids -> Nat] /\ old \in Ids /\ Plus(r, old)[old] > 0
        /\ [Plus(r, old) EXCEPT ![old] = @ - 1] = r
    BY <1>2, PlusNat, PlusMinus
  <2>2. Sound(h1, Plus(r, old), br)
    BY DEF Stays
  <2>3. /\ Sound(Release(h1, old), r, br) /\ Freed(Release(h1, old))
        /\ Matched(h1) => Matched(Release(h1, old))
        /\ Orphans(Release(h1, old)) = Orphans(h1)
    <3> DEFINE r1 == Plus(r, old)
    <3>1. r1 \in [Ids -> Nat] /\ r1[old] > 0 /\ Sound(h1, r1, br) /\ old \in Ids
      BY <2>1, <2>2
    <3> HIDE DEF r1
    <3>2. /\ Sound(Release(h1, old), [r1 EXCEPT ![old] = @ - 1], br) /\ Freed(Release(h1, old))
          /\ Matched(h1) => Matched(Release(h1, old))
          /\ Orphans(Release(h1, old)) = Orphans(h1)
      BY <3>1, ReleaseSound, Zenon
    <3>3. [r1 EXCEPT ![old] = @ - 1] = r
      BY <2>1 DEF r1
    <3> QED
      BY <3>2, <3>3, Zenon
  <2> QED
    BY <1>2, <2>3 DEF Stays
<1> QED
  BY <1>1, <1>2

LEMMA IteratedStays ==
  ASSUME NEW h, NEW r \in [Ids -> Nat], NEW br \in [Ids -> Nat], Sound(h, r, br),
         NEW o \in Live(h), NEW n, NEW h1, IteratorMoved(h1, h, o, n)
  PROVE  Stays(IF h.obj[o].iterator = None THEN h1 ELSE Release(h1, h.obj[o].iterator), h, r, br)
<1> DEFINE old == h.obj[o].iterator
<1>1. Stays(h1, h, Plus(r, old), br)
  BY IteratorSound DEF Stays
<1>2. old \in Ids \cup {None}
  BY SoundLives DEF Live
<1> HIDE DEF old
<1>3. Stays(IF old = None THEN h1 ELSE Release(h1, old), h, r, br)
  BY <1>1, <1>2, ReleasedStays
<1> QED
  BY <1>3 DEF old

LEMMA RewindMoves ==
  ASSUME NEW h, NEW r \in [Ids -> Nat], NEW br \in [Ids -> Nat], Sound(h, r, br), NEW o \in Live(h)
  PROVE  IteratorMoved([AddRef(h, o) EXCEPT !.obj[o].iterator = o], h, o, o)
<1> DEFINE h1 == AddRef(h, o)
           h2 == [h1 EXCEPT !.obj[o].iterator = o]
<1>1. /\ h \in Heap /\ o \in Ids /\ Live(h) \subseteq Ids /\ \A x \in Live(h) : h.obj[x].message # None
      /\ \A x \in Ids : h.obj[x].refs \in Nat
  BY SoundLives, HeapTypes
<1>2. /\ OnlyObject(h1, h, o)
      /\ h1.obj[o] = [refs |-> h.obj[o].refs + 1, message |-> h.obj[o].message, parent |-> h.obj[o].parent,
                      body |-> h.obj[o].body, iterator |-> h.obj[o].iterator]
  BY <1>1, AddRefIs
<1> HIDE DEF h1
<1>3. /\ OnlyObject(h2, h1, o)
      /\ h2.obj[o] = [refs |-> h1.obj[o].refs, message |-> h1.obj[o].message, parent |-> h1.obj[o].parent,
                      body |-> h1.obj[o].body, iterator |-> o]
  <2>1. h1 \in Heap /\ o \in Ids \cup {None}
    BY <1>1, <1>2 DEF OnlyObject
  <2> QED
    BY <1>1, <2>1, IteratorPut, ZenonT(30)
<1> HIDE DEF h2
<1>4. /\ OnlyObject(h2, h, o)
      /\ h2.obj[o] = [refs |-> h.obj[o].refs + 1, message |-> h.obj[o].message, parent |-> h.obj[o].parent,
                      body |-> h.obj[o].body, iterator |-> o]
  BY <1>2, <1>3 DEF OnlyObject
<1>5. Relinks(h2, h)
  <2>1. \A x \in Ids \ Live(h) : h2.obj[x] = h.obj[x]
    BY <1>4 DEF OnlyObject
  <2>2. /\ \A x \in Ids : h2.obj[x].message = h.obj[x].message /\ h2.obj[x].body = h.obj[x].body
        /\ \A x \in Ids : h2.msg[x].kind = h.msg[x].kind /\ h2.msg[x].body = h.msg[x].body
        /\ h2.body = h.body /\ h2.bobj = h.bobj /\ h2 \in Heap
    BY <1>4 DEF OnlyObject
  <2> QED
    BY <1>1, <2>1, <2>2, RelinksFrom
<1>6. SameParents(h2, h) /\ CountsOneMore(h2, h, o)
      /\ \A x \in Ids : h2.obj[x].iterator = IF x = o THEN o ELSE h.obj[x].iterator
  BY <1>1, <1>4 DEF OnlyObject, SameParents, CountsOneMore
<1> QED
  BY <1>5, <1>6 DEF IteratorMoved, h2, h1

LEMMA NextMoves ==
  ASSUME NEW h, NEW r \in [Ids -> Nat], NEW br \in [Ids -> Nat], Sound(h, r, br), NEW o \in Live(h),
         NEW n \in Live(h) \cup {None}
  PROVE  LET h1 == [h EXCEPT !.obj[o].iterator = n]
         IN IteratorMoved(IF n = None THEN h1 ELSE AddRef(h1, n), h, o, n)
<1> DEFINE h1 == [h EXCEPT !.obj[o].iterator = n]
           h2 == IF n = None THEN h1 ELSE AddRef(h1, n)
<1>1. /\ h \in Heap /\ o \in Ids /\ Live(h) \subseteq Ids /\ \A x \in Live(h) : h.obj[x].message # None
      /\ \A x \in Ids : h.obj[x].refs \in Nat
      /\ n \in Ids \cup {None} /\ None \notin Ids
  BY SoundLives, HeapTypes, IdsFinite
<1>2. /\ OnlyObject(h1, h, o)
      /\ h1.obj[o] = [refs |-> h.obj[o].refs, message |-> h.obj[o].message, parent |-> h.obj[o].parent,
                      body |-> h.obj[o].body, iterator |-> n]
  BY <1>1, IteratorPut, ZenonT(30)
<1> HIDE DEF h1
<1>3. /\ h2 \in Heap /\ h2.msg = h.msg /\ h2.body = h.body /\ h2.bobj = h.bobj
      /\ \A x \in Ids : /\ h2.obj[x].refs = h1.obj[x].refs + (IF x = n THEN 1 ELSE 0)
                        /\ h2.obj[x].message = h1.obj[x].message /\ h2.obj[x].parent = h1.obj[x].parent
                        /\ h2.obj[x].body = h1.obj[x].body /\ h2.obj[x].iterator = h1.obj[x].iterator
                        /\ x # n => h2.obj[x] = h1.obj[x]
  <2>0. h1 \in Heap /\ h1.msg = h.msg /\ h1.body = h.body /\ h1.bobj = h.bobj /\ \A x \in Ids : h1.obj[x].refs \in Nat
    BY <1>1, <1>2 DEF OnlyObject
  <2>1. CASE n = None
    BY <1>1, <2>0, <2>1
  <2>2. CASE n # None
    <3>1. n \in Ids
      BY <1>1, <2>2
    <3>2. /\ OnlyObject(AddRef(h1, n), h1, n)
          /\ AddRef(h1, n).obj[n] = [refs |-> h1.obj[n].refs + 1, message |-> h1.obj[n].message, parent |-> h1.obj[n].parent,
                                   body |-> h1.obj[n].body, iterator |-> h1.obj[n].iterator]
      BY <2>0, <3>1, AddRefIs
    <3>3. h2 = AddRef(h1, n)
      BY <2>2
    <3> HIDE DEF h2
    <3> QED
      BY <2>0, <3>1, <3>2, <3>3 DEF OnlyObject
  <2> QED
    BY <2>1, <2>2
<1> HIDE DEF h2
<1>4. \A x \in Ids : /\ h1.obj[x].refs = h.obj[x].refs
                     /\ h1.obj[x].message = h.obj[x].message /\ h1.obj[x].parent = h.obj[x].parent
                     /\ h1.obj[x].body = h.obj[x].body
                     /\ h1.obj[x].iterator = IF x = o THEN n ELSE h.obj[x].iterator
                     /\ x # o => h1.obj[x] = h.obj[x]
  BY <1>1, <1>2 DEF OnlyObject
<1>5. Relinks(h2, h)
  <2>1. \A x \in Ids \ Live(h) : h2.obj[x] = h.obj[x]
    BY <1>1, <1>3, <1>4
  <2>2. /\ \A x \in Ids : h2.obj[x].message = h.obj[x].message /\ h2.obj[x].body = h.obj[x].body
        /\ \A x \in Ids : h2.msg[x].kind = h.msg[x].kind /\ h2.msg[x].body = h.msg[x].body
        /\ h2.body = h.body /\ h2.bobj = h.bobj /\ h2 \in Heap
    BY <1>3, <1>4
  <2> QED
    BY <1>1, <2>1, <2>2, RelinksFrom
<1>6. SameParents(h2, h) /\ CountsOneMore(h2, h, n)
      /\ \A x \in Ids : h2.obj[x].iterator = IF x = o THEN n ELSE h.obj[x].iterator
  BY <1>3, <1>4 DEF SameParents, CountsOneMore
<1> QED
  BY <1>5, <1>6 DEF IteratorMoved, h2, h1

\* rewind
LEMMA RewindStays ==
  ASSUME NEW h, NEW r \in [Ids -> Nat], NEW br \in [Ids -> Nat], Sound(h, r, br), NEW o \in Live(h)
  PROVE  LET old == h.obj[o].iterator
             h1 == [AddRef(h, o) EXCEPT !.obj[o].iterator = o]
         IN Stays(IF old = None THEN h1 ELSE Release(h1, old), h, r, br)
  BY RewindMoves, IteratedStays

\* next
LEMMA NextStays ==
  ASSUME NEW h, NEW r \in [Ids -> Nat], NEW br \in [Ids -> Nat], Sound(h, r, br), NEW o \in Live(h),
         h.obj[o].iterator # None
  PROVE  LET old == h.obj[o].iterator
             next == h.obj[old].parent
             h1 == [h EXCEPT !.obj[o].iterator = next]
         IN Stays(Release(IF next = None THEN h1 ELSE AddRef(h1, next), old), h, r, br)
<1> DEFINE old == h.obj[o].iterator
           next == h.obj[old].parent
           h1 == [h EXCEPT !.obj[o].iterator = next]
           h2 == IF next = None THEN h1 ELSE AddRef(h1, next)
<1>1. next \in Live(h) \cup {None}
  <2>1. old \in Live(h) /\ Live(h) \subseteq Ids
    BY SoundLives
  <2> QED
    BY <2>1, SoundLives
<1> HIDE DEF next
<1>2. IteratorMoved(h2, h, o, next)
  BY <1>1, NextMoves
<1> HIDE DEF h2
<1>3. Stays(IF old = None THEN h2 ELSE Release(h2, old), h, r, br)
  BY <1>2, IteratedStays
<1>4. Stays(Release(h2, old), h, r, br)
  BY <1>3
<1> QED
  BY <1>4 DEF h2, next

\* Both links, and one more reference on p.
LinkedWith(h, o, p) ==
    [AddRef(h, p) EXCEPT !.obj[o].parent = p, !.msg[h.obj[o].message].parent = h.obj[p].message]

LEMMA LinkedMoves ==
  ASSUME NEW h, NEW r \in [Ids -> Nat], NEW br \in [Ids -> Nat], Sound(h, r, br),
         NEW o \in Live(h), NEW p \in Live(h)
  PROVE  LinkMoved(LinkedWith(h, o, p), h, o, p)
<1> DEFINE h1 == AddRef(h, p)
           a == h.obj[o].message
           b == h.obj[p].message
           h2 == [h1 EXCEPT !.obj[o].parent = p, !.msg[a].parent = b]
<1>1. /\ h \in Heap /\ o \in Ids /\ p \in Ids /\ Live(h) \subseteq Ids /\ \A x \in Live(h) : h.obj[x].message # None
      /\ \A x \in Ids : h.obj[x].refs \in Nat
      /\ a \in Ids /\ b \in Ids
  BY SoundLives, HeapTypes
<1>2. /\ OnlyObject(h1, h, p)
      /\ h1.obj[p] = [refs |-> h.obj[p].refs + 1, message |-> h.obj[p].message, parent |-> h.obj[p].parent,
                      body |-> h.obj[p].body, iterator |-> h.obj[p].iterator]
  BY <1>1, AddRefIs
<1> HIDE DEF h1
<1>3. /\ h1 \in Heap /\ h1.msg = h.msg /\ h1.body = h.body /\ h1.bobj = h.bobj
      /\ \A x \in Ids : /\ h1.obj[x].refs = h.obj[x].refs + (IF x = p THEN 1 ELSE 0)
                        /\ h1.obj[x].message = h.obj[x].message /\ h1.obj[x].parent = h.obj[x].parent
                        /\ h1.obj[x].body = h.obj[x].body /\ h1.obj[x].iterator = h.obj[x].iterator
                        /\ x # p => h1.obj[x] = h.obj[x]
  BY <1>1, <1>2 DEF OnlyObject
<1>4. /\ h2 \in Heap /\ h2.body = h1.body /\ h2.bobj = h1.bobj
      /\ \A x \in Ids \ {o} : h2.obj[x] = h1.obj[x]
      /\ h2.obj[o] = [refs |-> h1.obj[o].refs, message |-> h1.obj[o].message, parent |-> p,
                      body |-> h1.obj[o].body, iterator |-> h1.obj[o].iterator]
      /\ \A x \in Ids : /\ h2.msg[x].kind = h1.msg[x].kind /\ h2.msg[x].body = h1.msg[x].body
                        /\ h2.msg[x].parent = IF x = a THEN b ELSE h1.msg[x].parent
  <2>1. h1 \in Heap /\ p \in Ids \cup {None} /\ b \in Ids \cup {None}
    BY <1>1, <1>3 DEF b
  <2>2. LinksPut(h2, h1, o, p, a, b)
    BY <1>1, <2>1, LinkPut, Zenon DEF a, b
  <2> HIDE DEF h2
  <2> QED
    BY <2>2 DEF LinksPut
<1> HIDE DEF h2
<1>5. \A x \in Ids : /\ h2.obj[x].refs = h1.obj[x].refs
                     /\ h2.obj[x].message = h1.obj[x].message /\ h2.obj[x].iterator = h1.obj[x].iterator
                     /\ h2.obj[x].body = h1.obj[x].body
                     /\ h2.obj[x].parent = IF x = o THEN p ELSE h1.obj[x].parent
                     /\ x # o => h2.obj[x] = h1.obj[x]
  BY <1>1, <1>4
<1>6. Relinks(h2, h)
  <2>1. \A x \in Ids \ Live(h) : h2.obj[x] = h.obj[x]
    BY <1>1, <1>3, <1>5
  <2>2. /\ \A x \in Ids : h2.obj[x].message = h.obj[x].message /\ h2.obj[x].body = h.obj[x].body
        /\ \A x \in Ids : h2.msg[x].kind = h.msg[x].kind /\ h2.msg[x].body = h.msg[x].body
        /\ h2.body = h.body /\ h2.bobj = h.bobj /\ h2 \in Heap
    BY <1>3, <1>4, <1>5
  <2> QED
    BY <1>1, <2>1, <2>2, RelinksFrom
<1>7. /\ SameIterators(h2, h) /\ CountsOneMore(h2, h, p)
      /\ \A x \in Ids : h2.obj[x].parent = IF x = o THEN p ELSE h.obj[x].parent
      /\ \A m \in Ids : h2.msg[m].parent = IF m = a THEN b ELSE h.msg[m].parent
  BY <1>3, <1>4, <1>5 DEF SameIterators, CountsOneMore
<1> QED
  BY <1>6, <1>7 DEF LinkMoved, LinkedWith, h2, h1, a, b

LEMMA InsertedBetween ==
  ASSUME NEW h, NEW r \in [Ids -> Nat], NEW br \in [Ids -> Nat], Sound(h, r, br),
         NEW o \in Live(h), NEW p \in Live(h), o # p, h.obj[o].message # h.obj[p].message
  PROVE  Inserted([LinkedWith(h, o, p) EXCEPT !.obj[p].parent = h.obj[o].parent,
                                              !.msg[h.obj[p].message].parent = h.msg[h.obj[o].message].parent],
                  h, o, p)
<1> DEFINE h1 == LinkedWith(h, o, p)
           a == h.obj[o].message
           b == h.obj[p].message
           up == h.obj[o].parent
           mp == h.msg[a].parent
           h2 == [h1 EXCEPT !.obj[p].parent = up, !.msg[b].parent = mp]
<1>1. /\ h \in Heap /\ o \in Ids /\ p \in Ids /\ Live(h) \subseteq Ids /\ \A x \in Live(h) : h.obj[x].message # None
      /\ a \in Ids /\ b \in Ids /\ up \in Ids \cup {None} /\ mp \in Ids \cup {None}
  BY SoundLives, HeapTypes
<1>2. LinkMoved(h1, h, o, p)
  BY LinkedMoves
<1> HIDE DEF h1
<1>3. /\ Relinks(h1, h) /\ h1 \in Heap
      /\ \A x \in Ids : h1.obj[x].iterator = h.obj[x].iterator /\ h1.obj[x].refs = h.obj[x].refs + (IF x = p THEN 1 ELSE 0)
      /\ \A x \in Ids : h1.obj[x].parent = IF x = o THEN p ELSE h.obj[x].parent
      /\ \A m \in Ids : h1.msg[m].parent = IF m = a THEN b ELSE h.msg[m].parent
  BY <1>2 DEF LinkMoved, Relinks, SameIterators, CountsOneMore
<1> HIDE DEF a, b, up, mp
<1>4. /\ h2 \in Heap /\ h2.body = h1.body /\ h2.bobj = h1.bobj
      /\ \A x \in Ids \ {p} : h2.obj[x] = h1.obj[x]
      /\ h2.obj[p] = [refs |-> h1.obj[p].refs, message |-> h1.obj[p].message, parent |-> up,
                      body |-> h1.obj[p].body, iterator |-> h1.obj[p].iterator]
      /\ \A x \in Ids : /\ h2.msg[x].kind = h1.msg[x].kind /\ h2.msg[x].body = h1.msg[x].body
                        /\ h2.msg[x].parent = IF x = b THEN mp ELSE h1.msg[x].parent
  <2>1. LinksPut(h2, h1, p, up, b, mp)
    BY <1>1, <1>3, LinkPut, Zenon
  <2> HIDE DEF h2
  <2> QED
    BY <2>1 DEF LinksPut
<1> HIDE DEF h2
<1>5. \A x \in Ids : /\ h2.obj[x].refs = h1.obj[x].refs
                     /\ h2.obj[x].message = h1.obj[x].message /\ h2.obj[x].iterator = h1.obj[x].iterator
                     /\ h2.obj[x].body = h1.obj[x].body
                     /\ h2.obj[x].parent = IF x = p THEN up ELSE h1.obj[x].parent
                     /\ x # p => h2.obj[x] = h1.obj[x]
  BY <1>1, <1>4
<1>6. Relinks(h2, h)
  <2>1. \A x \in Ids : h2.obj[x] = NoObject <=> h.obj[x] = NoObject
    <3> SUFFICES ASSUME NEW x \in Ids PROVE h2.obj[x] = NoObject <=> h.obj[x] = NoObject
      OBVIOUS
    <3>1. CASE x = p
      <4>1. h2.obj[x].message = b /\ b # None
        BY <1>1, <1>3, <1>5, <3>1 DEF Relinks, b
      <4>2. h2.obj[x] # NoObject /\ h.obj[x] # NoObject
        BY <3>1, <4>1 DEF NoObject, Live
      <4> QED
        BY <4>2
    <3>2. CASE x # p
      BY <1>3, <1>5, <3>2 DEF Relinks
    <3> QED
      BY <3>1, <3>2
  <2> QED
    BY <1>3, <1>4, <1>5, <2>1 DEF Relinks
<1>7. SameIterators(h2, h) /\ CountsOneMore(h2, h, p)
  BY <1>3, <1>5 DEF SameIterators, CountsOneMore
<1>8. \A x \in Ids : h2.obj[x].parent = IF x = p THEN up ELSE IF x = o THEN p ELSE h.obj[x].parent
  BY <1>3, <1>5
<1>9. \A m \in Ids : h2.msg[m].parent = IF m = b THEN mp ELSE IF m = a THEN b ELSE h.msg[m].parent
  BY <1>3, <1>4
<1> QED
  BY <1>6, <1>7, <1>8, <1>9, Zenon DEF Inserted, h2, h1, a, b, up, mp

\* setParentMessage: the script sees to it that no circle is closed.
LEMMA LinkedStays ==
  ASSUME NEW h, NEW r \in [Ids -> Nat], NEW br \in [Ids -> Nat], Sound(h, r, br),
         NEW o \in Live(h), NEW p \in Live(h),
         NEW B, B \subseteq Ids, h.obj[p].message \in B, h.obj[o].message \notin B,
         \A y \in B : h.msg[y].parent # None => h.msg[y].parent \in B
  PROVE  /\ Stays(LinkedWith(h, o, p), h, Plus(r, h.obj[o].parent), br)
         /\ Stays(IF h.obj[o].parent = None THEN LinkedWith(h, o, p) ELSE Release(LinkedWith(h, o, p), h.obj[o].parent),
                  h, r, br)
<1> DEFINE old == h.obj[o].parent
           h1 == LinkedWith(h, o, p)
<1>1. LinkMoved(h1, h, o, p)
  BY LinkedMoves
<1> HIDE DEF h1
<1>2. Stays(h1, h, Plus(r, old), br)
  <2>1. /\ Sound(h1, Plus(r, h.obj[o].parent), br)
        /\ Matched(h) => Matched(h1)
        /\ Freed(h) => Freed(h1)
        /\ Orphans(h1) = Orphans(h)
    BY <1>1, LinkSound
  <2> QED
    BY <2>1 DEF Stays
<1>3. old \in Ids \cup {None}
  BY SoundLives, Zenon DEF Live
<1> HIDE DEF old
<1>4. Stays(IF old = None THEN h1 ELSE Release(h1, old), h, r, br)
  BY <1>2, <1>3, ReleasedStays
<1> QED
  BY <1>2, <1>4 DEF old, h1

\* prepend, which its safety check keeps from closing a circle.
LEMMA PrependedStays ==
  ASSUME NEW h, NEW r \in [Ids -> Nat], NEW br \in [Ids -> Nat], Sound(h, r, br),
         NEW o \in Live(h), NEW p \in Live(h), NEW top \in BOOLEAN, Apart(h, o, p)
  PROVE  Stays(Prepended(h, o, p, top), h, r, br)
<1> DEFINE A == ToSet(MessageChain(h, h.obj[o].message))
           B == ToSet(MessageChain(h, h.obj[p].message))
           at == Last(ObjectChain(h, o))
<1>1. h.obj[o].message \in Ids /\ h.obj[p].message \in Ids /\ None \notin Ids
  BY SoundLives, IdsFinite
<1>2. /\ h.obj[o].message \in A /\ A \subseteq Ids /\ (\A y \in A : h.msg[y].parent # None => h.msg[y].parent \in A)
      /\ h.obj[p].message \in B /\ B \subseteq Ids /\ (\A y \in B : h.msg[y].parent # None => h.msg[y].parent \in B)
  BY <1>1, MessageChainIs, Zenon
<1>3. A \cap B = {}
  BY DEF Apart
<1>4. at \in Live(h) /\ h.obj[at].message \in A /\ h.obj[at].parent = None
  BY ObjectChainIs
<1>5. CASE top
  <2>1. Prepended(h, o, p, top) = LinkedWith(h, at, p)
    BY <1>5 DEF Prepended, Target, LinkedWith
  <2> HIDE DEF A, B, at
  <2>2. h.obj[at].message \notin B
    BY <1>3, <1>4
  <2>3. Stays(LinkedWith(h, at, p), h, Plus(r, h.obj[at].parent), br)
    BY <1>2, <1>4, <2>2, LinkedStays
  <2>4. Plus(r, h.obj[at].parent) = r
    BY <1>4, PlusNone
  <2> QED
    BY <2>1, <2>3, <2>4
<1>6. CASE ~top
  <2> DEFINE h2 == [LinkedWith(h, o, p) EXCEPT !.obj[p].parent = h.obj[o].parent,
                                              !.msg[h.obj[p].message].parent = h.msg[h.obj[o].message].parent]
  <2>1. Prepended(h, o, p, top) = h2
    BY <1>6 DEF Prepended, Target, LinkedWith
  <2> HIDE DEF A, B, at
  <2>2. o # p /\ h.obj[o].message # h.obj[p].message /\ h.obj[p].message \notin A
    BY <1>2, <1>3
  <2>3. Inserted(h2, h, o, p)
    BY <2>2, InsertedBetween, Zenon
  <2> HIDE DEF h2
  <2>4. /\ Sound(h2, r, br)
        /\ Matched(h) => Matched(h2)
        /\ Freed(h) => Freed(h2)
        /\ Orphans(h2) = Orphans(h)
    BY <1>2, <2>2, <2>3, InsertSound
  <2> QED
    BY <2>1, <2>4 DEF Stays
<1> QED
  BY <1>5, <1>6

LEMMA ReversedTurns ==
  ASSUME NEW h, NEW r \in [Ids -> Nat], NEW br \in [Ids -> Nat], Sound(h, r, br), NEW o \in Live(h)
  PROVE  TurnedAround(ObjectsReversed(h, o), h, ObjectChain(h, o))
<1> DEFINE c == ObjectChain(h, o)
           Msg == [kind : Kinds \cup {"free"}, parent : Ids \cup {None}, body : Ids \cup {None}]
           before(x) == LET i == PositionIn(c, x) IN IF i = 1 THEN None ELSE c[i - 1]
           over(x) == IF before(x) = None THEN None ELSE h.obj[before(x)].message
           h1 == AddRef(h, o)
           obj == [x \in Ids |-> IF x \in ToSet(c) THEN [h1.obj[x] EXCEPT !.parent = before(x)] ELSE h1.obj[x]]
           msg == [m \in Ids |->
                     IF \E x \in ToSet(c) : h.obj[x].message = m
                     THEN [h1.msg[m] EXCEPT !.parent = over(CHOOSE y \in ToSet(c) : h.obj[y].message = m)]
                     ELSE h1.msg[m]]
           h2 == ObjectsReversed(h, o)
<1>1. /\ h \in Heap /\ o \in Ids /\ Live(h) \subseteq Ids /\ None \notin Ids
      /\ \A x \in Live(h) : h.obj[x].message # None /\ h.obj[x].message \in Ids
      /\ \A x, y \in Live(h) : h.obj[x].message = h.obj[y].message => x = y
      /\ \A x \in Ids : h.obj[x].refs \in Nat
  BY SoundLives, HeapTypes, IdsFinite DEF Sound, Built
<1>2. h2 = [h1 EXCEPT !.obj = obj, !.msg = msg]
  BY DEF ObjectsReversed
<1>3. /\ IsChain(ObjectLinks(h), c, o) /\ ToSet(c) \subseteq Live(h) /\ c \in Seq(Ids)
  BY ObjectChainIs
<1> HIDE DEF c
<1>4. /\ Len(c) \in Nat /\ c[1] = o /\ ToSet(c) = {c[i] : i \in 1 .. Len(c)}
      /\ \A i \in 1 .. Len(c) : c[i] \in Live(h) /\ c[i] \in Ids /\ c[i] \in ToSet(c)
  <2>1. Len(c) \in Nat /\ c[1] = o /\ ToSet(c) = {c[i] : i \in 1 .. Len(c)}
    BY <1>3 DEF IsChain, IsPath, ToSet
  <2> QED
    BY <1>1, <1>3, <2>1, Zenon
<1>5. Once(c)
  BY <1>3, SoundChains, PathInjective, Zenon DEF IsChain, Once
<1>6. \A i \in 1 .. Len(c) : PositionIn(c, c[i]) = i
  BY <1>3, <1>5, PositionIs
<1>7. \A i \in 1 .. Len(c) : /\ before(c[i]) = IF i = 1 THEN None ELSE c[i - 1]
                             /\ before(c[i]) \in Live(h) \cup {None}
                             /\ i # 1 => c[i - 1] \in Ids
  <2> TAKE i \in 1 .. Len(c)
  <2>1. i # 1 => i - 1 \in 1 .. Len(c)
    BY <1>4
  <2> QED
    BY <1>4, <1>6, <2>1
<1> HIDE DEF before
<1>8. \A i \in 1 .. Len(c) : /\ over(c[i]) = IF i = 1 THEN None ELSE h.obj[c[i - 1]].message
                             /\ over(c[i]) \in Ids \cup {None}
  BY <1>1, <1>7
<1> HIDE DEF over
<1>9. /\ OnlyObject(h1, h, o)
      /\ h1.obj[o] = [refs |-> h.obj[o].refs + 1, message |-> h.obj[o].message, parent |-> h.obj[o].parent,
                      body |-> h.obj[o].body, iterator |-> h.obj[o].iterator]
  BY <1>1, AddRefIs
<1> HIDE DEF h1
<1>10. /\ h1 \in Heap /\ h1.msg = h.msg /\ h1.body = h.body /\ h1.bobj = h.bobj
       /\ \A x \in Ids : /\ h1.obj[x].refs = h.obj[x].refs + (IF x = o THEN 1 ELSE 0)
                         /\ h1.obj[x].message = h.obj[x].message /\ h1.obj[x].parent = h.obj[x].parent
                         /\ h1.obj[x].body = h.obj[x].body /\ h1.obj[x].iterator = h.obj[x].iterator
                         /\ x # o => h1.obj[x] = h.obj[x]
  BY <1>1, <1>9 DEF OnlyObject
<1>11. /\ \A x \in Ids : h1.obj[x] \in Object
       /\ \A m \in Ids : h.msg[m] \in Msg
  BY <1>1, <1>10, HeapTypes DEF Object
<1>12. ASSUME NEW x \in Ids
       PROVE  /\ obj[x] \in Object
              /\ obj[x].refs = h1.obj[x].refs /\ obj[x].message = h1.obj[x].message
              /\ obj[x].body = h1.obj[x].body /\ obj[x].iterator = h1.obj[x].iterator
              /\ x \in ToSet(c) => obj[x].parent = before(x)
              /\ x \notin ToSet(c) => obj[x] = h1.obj[x]
  <2>1. CASE x \in ToSet(c)
    <3>1. obj[x] = [h1.obj[x] EXCEPT !.parent = before(x)] /\ h1.obj[x] \in Object
      BY <1>11, <2>1
    <3>2. before(x) \in Ids \cup {None}
      BY <1>1, <1>4, <1>7, <2>1
    <3> HIDE DEF obj
    <3> QED
      BY <2>1, <3>1, <3>2 DEF Object
  <2>2. CASE x \notin ToSet(c)
    BY <1>11, <2>2
  <2> QED
    BY <2>1, <2>2
<1>13. ASSUME NEW i \in 1 .. Len(c)
       PROVE  (CHOOSE y \in ToSet(c) : h.obj[y].message = h.obj[c[i]].message) = c[i]
  <2>1. \A y \in ToSet(c) : h.obj[y].message = h.obj[c[i]].message => y = c[i]
    <3>1. \A y \in ToSet(c) : y \in Live(h)
      BY <1>3
    <3>2. c[i] \in Live(h)
      BY <1>4
    <3> QED
      BY <1>1, <3>1, <3>2
  <2>2. c[i] \in ToSet(c)
    BY <1>4
  <2> QED
    BY <2>1, <2>2
<1>14. /\ \A i \in 1 .. Len(c) : msg[h.obj[c[i]].message] = [h.msg[h.obj[c[i]].message] EXCEPT !.parent = over(c[i])]
       /\ \A m \in Ids \ {h.obj[x].message : x \in ToSet(c)} : msg[m] = h.msg[m]
  <2>1. ASSUME NEW i \in 1 .. Len(c)
        PROVE  msg[h.obj[c[i]].message] = [h.msg[h.obj[c[i]].message] EXCEPT !.parent = over(c[i])]
    <3>1. h.obj[c[i]].message \in Ids /\ \E x \in ToSet(c) : h.obj[x].message = h.obj[c[i]].message
      BY <1>1, <1>4, Zenon
    <3> QED
      BY <1>10, <1>13, <3>1, Zenon
  <2>2. \A m \in Ids \ {h.obj[x].message : x \in ToSet(c)} : msg[m] = h.msg[m]
    BY <1>10
  <2> QED
    BY <2>1, <2>2, ZenonT(30)
<1>a. obj \in [Ids -> Object]
  <2>1. \A x \in Ids : obj[x] \in Object
    BY <1>12
  <2> QED
    BY <2>1
<1>b. \E S : msg \in [Ids -> S]
  <2> DEFINE S == {msg[m] : m \in Ids}
  <2>1. msg \in [Ids -> S]
    BY Zenon
  <2> HIDE DEF S, msg
  <2> QED
    BY <2>1
<1> HIDE DEF obj, msg
<1>15. ASSUME NEW m \in Ids
       PROVE  /\ msg[m] \in Msg /\ msg[m].kind = h.msg[m].kind /\ msg[m].body = h.msg[m].body
              /\ m \notin {h.obj[x].message : x \in ToSet(c)} => msg[m].parent = h.msg[m].parent
              /\ \A i \in 1 .. Len(c) : m = h.obj[c[i]].message => msg[m].parent = over(c[i])
  <2>0. h.msg[m] \in Msg
    BY <1>11
  <2>1. CASE m \in {h.obj[x].message : x \in ToSet(c)}
    <3>1. PICK i \in 1 .. Len(c) : m = h.obj[c[i]].message
      BY <1>4, <2>1
    <3>2. msg[m] = [h.msg[m] EXCEPT !.parent = over(c[i])] /\ over(c[i]) \in Ids \cup {None}
      BY <1>8, <1>14, <3>1, Zenon
    <3>3. \A j \in 1 .. Len(c) : m = h.obj[c[j]].message => c[j] = c[i]
      BY <1>1, <1>4, <3>1, Zenon
    <3> QED
      BY <2>0, <2>1, <3>2, <3>3, Zenon
  <2>2. CASE m \notin {h.obj[x].message : x \in ToSet(c)}
    <3>1. \A i \in 1 .. Len(c) : m # h.obj[c[i]].message
      BY <1>4, <2>2
    <3> QED
      BY <1>14, <2>0, <2>2, <3>1
  <2> QED
    BY <2>1, <2>2
<1>16. msg \in [Ids -> Msg]
  BY <1>b, <1>15
<1> HIDE DEF h2
<1>17. h2 = [obj |-> obj, msg |-> msg, body |-> h.body, bobj |-> h.bobj]
  <2>1. h1 = [obj |-> h1.obj, msg |-> h1.msg, body |-> h.body, bobj |-> h.bobj]
    BY <1>10, HeapRecord
  <2>2. [h1 EXCEPT !.obj = obj] = [obj |-> obj, msg |-> h1.msg, body |-> h.body, bobj |-> h.bobj]
    BY <2>1
  <2>3. h2 = [[h1 EXCEPT !.obj = obj] EXCEPT !.msg = msg]
    BY <1>2
  <2> QED
    BY <2>2, <2>3, Zenon
<1>18. h2 \in Heap
  <2>1. h.body \in [Ids -> Nat] /\ h.bobj \in [Ids -> [refs : Nat, body : Ids \cup {None}]]
    BY <1>1, HeapRecord
  <2> QED
    BY <1>16, <1>17, <1>a, <2>1, HeapOf, Zenon
<1>19. h2.obj = obj /\ h2.msg = msg /\ h2.body = h.body /\ h2.bobj = h.bobj
  BY <1>17
<1>20. Relinks(h2, h)
  <2>1. \A x \in Ids \ Live(h) : h2.obj[x] = h.obj[x]
    <3> SUFFICES ASSUME NEW x \in Ids \ Live(h) PROVE h2.obj[x] = h.obj[x]
      OBVIOUS
    <3>1. x \notin ToSet(c) /\ x # o
      BY <1>3
    <3> QED
      BY <1>10, <1>12, <1>19, <3>1
  <2>2. \A x \in Ids : h2.obj[x].message = h.obj[x].message /\ h2.obj[x].body = h.obj[x].body
    BY <1>10, <1>12, <1>19
  <2>3. \A x \in Ids : h2.msg[x].kind = h.msg[x].kind /\ h2.msg[x].body = h.msg[x].body
    BY <1>15, <1>19
  <2> QED
    BY <1>1, <1>18, <1>19, <2>1, <2>2, <2>3, RelinksFrom
<1>21. SameIterators(h2, h) /\ CountsOneMore(h2, h, c[1])
  BY <1>4, <1>10, <1>12, <1>19 DEF SameIterators, CountsOneMore
<1>22. /\ \A x \in Ids \ ToSet(c) : h2.obj[x].parent = h.obj[x].parent
       /\ \A i \in 1 .. Len(c) : h2.obj[c[i]].parent = IF i = 1 THEN None ELSE c[i - 1]
  <2>1. \A x \in Ids \ ToSet(c) : h2.obj[x].parent = h.obj[x].parent
    BY <1>10, <1>12, <1>19
  <2>2. \A i \in 1 .. Len(c) : h2.obj[c[i]].parent = before(c[i])
    BY <1>4, <1>12, <1>19
  <2> QED
    BY <1>7, <2>1, <2>2
<1>23. /\ \A m \in Ids \ {h.obj[x].message : x \in ToSet(c)} : h2.msg[m].parent = h.msg[m].parent
       /\ \A i \in 1 .. Len(c) : h2.msg[h.obj[c[i]].message].parent = IF i = 1 THEN None ELSE h.obj[c[i - 1]].message
  <2>1. \A m \in Ids \ {h.obj[x].message : x \in ToSet(c)} : h2.msg[m].parent = h.msg[m].parent
    BY <1>15, <1>19
  <2>2. \A i \in 1 .. Len(c) : h2.msg[h.obj[c[i]].message].parent = over(c[i])
    <3> TAKE i \in 1 .. Len(c)
    <3>1. h.obj[c[i]].message \in Ids
      BY <1>1, <1>4
    <3>2. msg[h.obj[c[i]].message].parent = over(c[i])
      BY <1>15, <3>1
    <3> QED
      BY <1>19, <3>2
  <2> QED
    BY <1>8, <2>1, <2>2
<1> QED
  BY <1>20, <1>21, <1>22, <1>23 DEF TurnedAround, h2, c

\* reverse
LEMMA ReversedStays ==
  ASSUME NEW h, NEW r \in [Ids -> Nat], NEW br \in [Ids -> Nat], Sound(h, r, br), NEW o \in Live(h)
  PROVE  Stays(ObjectsReversed(h, o), h, Plus(r, Last(ObjectChain(h, o))), br)
<1> DEFINE h2 == ObjectsReversed(h, o)
<1>1. TurnedAround(h2, h, ObjectChain(h, o))
  BY ReversedTurns
<1> HIDE DEF h2
<1>2. /\ Sound(h2, Plus(r, Last(ObjectChain(h, o))), br)
      /\ Matched(h) => Matched(h2)
      /\ Freed(h) => Freed(h2)
      /\ Orphans(h2) = Orphans(h)
  BY <1>1, TurnSound
<1> QED
  BY <1>2 DEF Stays, h2

-----------------------------------------------------------------------------
(* What is allocated *)

Room(h, n) == Cardinality(Used(h)) + n <= MaxRoom

\* The first n fresh ids.
FreshIds(h, n) == [i \in 1 .. n |-> Fresh(h, i)]

LEMMA UsedFinite ==
  ASSUME NEW h
  PROVE  Used(h) \subseteq Ids /\ IsFiniteSet(Used(h)) /\ Cardinality(Used(h)) \in Nat
<1>1. Used(h) \subseteq Ids
  BY DEF Used, Objects, Messages, Bodies, BodyObjects
<1> QED
  BY <1>1, IdsFinite, FS_Subset, FS_CardinalityType

LEMMA FreshIs ==
  ASSUME NEW h, NEW n \in Nat, Room(h, n)
  PROVE  LET ms == FreshIds(h, n)
         IN /\ ms \in Seq(Ids) /\ Len(ms) = n /\ Once(ms) /\ ToSet(ms) \cap Used(h) = {} /\ ToSet(ms) \subseteq Ids
            /\ ToSet(ms) = {ms[i] : i \in 1 .. n}
            /\ \A i \in 1 .. n : ms[i] = Fresh(h, i) /\ ms[i] \in Ids
<1> DEFINE A == Ids \ Used(h)
           ms == FreshIds(h, n)
<1>1. A \subseteq Nat /\ IsFiniteSet(A)
  BY IdsFinite, FS_Subset, Zenon
<1>2. Cardinality(A) = MaxRoom - Cardinality(Used(h))
  <2>1. Used(h) \subseteq Ids /\ IsFiniteSet(Ids) /\ IsFiniteSet(Used(h)) /\ Cardinality(Ids) = MaxRoom
    BY UsedFinite, IdsFinite
  <2>2. Ids \cap Used(h) = Used(h)
    BY <2>1
  <2>3. Cardinality(Ids \ Used(h)) = Cardinality(Ids) - Cardinality(Ids \cap Used(h))
    BY <2>1, FS_Difference
  <2> QED
    BY <2>1, <2>2, <2>3, Zenon
<1>3. n <= Cardinality(A) /\ Cardinality(A) \in Nat
  <2>1. MaxRoom \in Nat /\ Cardinality(Used(h)) \in Nat /\ Cardinality(A) \in Nat
    BY <1>1, UsedFinite, BoundsAssumption, FS_CardinalityType
  <2> HIDE DEF A
  <2> QED
    BY <1>2, <2>1 DEF Room
<1> DEFINE at(x) == Cardinality({y \in A : y <= x})
<1>4. ASSUME NEW i \in 1 .. n PROVE Fresh(h, i) \in A /\ at(Fresh(h, i)) = i
  <2>1. i \in 1 .. Cardinality(A)
    BY <1>3
  <2>2. \E x \in A : at(x) = i
    BY <1>1, <2>1, NthExists
  <2>3. Fresh(h, i) = CHOOSE x \in A : at(x) = i
    BY DEF Fresh
  <2> HIDE DEF A, at
  <2> QED
    BY <2>2, <2>3
<1> HIDE DEF A, at
<1>5. \A i \in 1 .. n : ms[i] = Fresh(h, i) /\ ms[i] \in A
  BY <1>4 DEF FreshIds
<1>6. A \subseteq Ids /\ A \cap Used(h) = {}
  BY DEF A
<1>7. ms \in Seq(Ids) /\ Len(ms) = n
  <2>1. ms \in [1 .. n -> Ids]
    BY <1>4, <1>6 DEF FreshIds
  <2> QED
    BY <2>1
<1> HIDE DEF ms
<1>8. ToSet(ms) = {ms[i] : i \in 1 .. n}
  BY <1>7 DEF ToSet
<1>9. Once(ms)
  <2> SUFFICES ASSUME NEW i \in 1 .. n, NEW j \in 1 .. n, ms[i] = ms[j] PROVE i = j
    BY <1>7 DEF Once
  <2> QED
    BY <1>4, <1>5
<1>10. ToSet(ms) \cap Used(h) = {} /\ ToSet(ms) \subseteq Ids
  BY <1>5, <1>6, <1>8
<1> QED
  BY <1>5, <1>6, <1>7, <1>8, <1>9, <1>10 DEF ms

LEMMA UnusedIs ==
  ASSUME NEW h, NEW r \in [Ids -> Nat], NEW br \in [Ids -> Nat], Sound(h, r, br), Freed(h), NEW x \in Ids \ Used(h)
  PROVE  /\ h.obj[x] = NoObject /\ h.msg[x] = NoMessage /\ h.body[x] = 0 /\ h.bobj[x] = NoBodyObject
         /\ x \notin Live(h) /\ x \notin Messages(h) /\ r[x] = 0 /\ br[x] = 0
         /\ \A y \in Ids : /\ h.obj[y].parent # x /\ h.obj[y].iterator # x /\ h.obj[y].body # x /\ h.obj[y].message # x
                           /\ h.msg[y].parent # x /\ h.msg[y].body # x /\ h.bobj[y].body # x
<1>1. /\ h \in Heap /\ Built(h) /\ Live(h) \subseteq Ids /\ Messages(h) \subseteq Ids /\ None \notin Ids
      /\ \A o \in Ids : /\ h.obj[o].parent \in Live(h) \cup {None}
                        /\ h.obj[o].iterator \in Live(h) \cup {None}
                        /\ r[o] > 0 => o \in Live(h)
                        /\ r[o] \in Nat /\ br[o] \in Nat
      /\ \A o \in Ids \ Live(h) : h.obj[o] = NoObject
      /\ \A o \in Live(h) : h.obj[o].message \in Messages(h) /\ h.obj[o].message # None
      /\ \A o \in Ids : h.obj[o].body # None => h.bobj[h.obj[o].body].refs > 0
      /\ \A c \in Ids : /\ br[c] > 0 => h.bobj[c].refs > 0
                        /\ h.bobj[c].body # None => h.body[h.bobj[c].body] > 0
      /\ \A m \in Messages(h) : h.body[h.msg[m].body] > 0
  BY SoundLives, IdsFinite DEF Sound
<1>2. h.obj[x].refs \in Nat /\ h.body[x] \in Nat /\ h.bobj[x].refs \in Nat
  BY <1>1, HeapTypes
<1>3. h.obj[x].refs = 0 /\ h.msg[x].kind = "free" /\ h.body[x] = 0 /\ h.bobj[x].refs = 0
  BY <1>2 DEF Used, Objects, Messages, Bodies, BodyObjects
<1>4. x \notin Live(h) /\ x \notin Messages(h)
  BY <1>3 DEF Freed, Messages
<1>5. h.obj[x] = NoObject /\ h.msg[x] = NoMessage /\ h.bobj[x] = NoBodyObject
  BY <1>1, <1>3, <1>4 DEF Freed, Built
<1>6. r[x] = 0 /\ br[x] = 0
  BY <1>1, <1>3, <1>4
<1>7. \A m \in Ids \ Messages(h) : h.msg[m] = NoMessage
  BY <1>1 DEF Built
<1>8. \A m \in Messages(h) : h.msg[m].parent \in Messages(h) \cup {None}
  BY <1>1 DEF Built
<1>9. ASSUME NEW y \in Ids
      PROVE  /\ h.obj[y].parent # x /\ h.obj[y].iterator # x /\ h.obj[y].body # x /\ h.obj[y].message # x
             /\ h.msg[y].parent # x /\ h.msg[y].body # x /\ h.bobj[y].body # x
  <2>1. x # None
    BY <1>1
  <2>2. h.obj[y].parent # x /\ h.obj[y].iterator # x
    BY <1>1, <1>4, <2>1
  <2>3. h.obj[y].body # x /\ h.bobj[y].body # x
    BY <1>1, <1>3, <2>1
  <2>4. h.obj[y].message # x
    BY <1>1, <1>4, <2>1 DEF NoObject
  <2>5. h.msg[y].parent # x /\ h.msg[y].body # x
    <3>1. CASE y \in Messages(h)
      BY <1>1, <1>3, <1>4, <1>8, <2>1, <3>1
    <3>2. CASE y \notin Messages(h)
      BY <1>7, <2>1, <3>2 DEF NoMessage
    <3> QED
      BY <3>1, <3>2
  <2> QED
    BY <2>2, <2>3, <2>4, <2>5
<1> QED
  BY <1>3, <1>4, <1>5, <1>6, <1>9

\* ms are new messages, linked one to the next, each with a body.
MessagesAdded(h2, h, ms) ==
    /\ h2 \in Heap /\ h2.obj = h.obj /\ h2.bobj = h.bobj
    /\ \A x \in Ids \ ToSet(ms) : h2.msg[x] = h.msg[x] /\ h2.body[x] = h.body[x]
    /\ \A i \in 1 .. Len(ms) : /\ h2.msg[ms[i]].kind \in Kinds /\ h2.msg[ms[i]].body = ms[i]
                               /\ h2.msg[ms[i]].parent = After(ms, i)
                               /\ h2.body[ms[i]] = 1

LEMMA WithMessagesIs ==
  ASSUME NEW h \in Heap, NEW kinds \in Seq(Kinds), Room(h, Len(kinds))
  PROVE  MessagesAdded(WithMessages(h, kinds), h, FreshIds(h, Len(kinds)))
<1> DEFINE n == Len(kinds)
           ms == FreshIds(h, n)
           h2 == WithMessages(h, kinds)
           Msg == [kind : Kinds \cup {"free"}, parent : Ids \cup {None}, body : Ids \cup {None}]
           new(m) == LET i == PositionIn(ms, m) IN [kind |-> kinds[i], parent |-> After(ms, i), body |-> m]
           msg == [m \in Ids |-> IF m \in ToSet(ms) THEN new(m) ELSE h.msg[m]]
           body == [b \in Ids |-> IF b \in ToSet(ms) THEN 1 ELSE h.body[b]]
<1>1. n \in Nat /\ DOMAIN kinds = 1 .. n
  OBVIOUS
<1>2. /\ ms \in Seq(Ids) /\ Len(ms) = n /\ Once(ms) /\ ToSet(ms) = {ms[i] : i \in 1 .. n}
      /\ \A i \in 1 .. n : ms[i] \in Ids
  BY <1>1, FreshIs
<1>3. h2 = [h EXCEPT !.msg = msg, !.body = body]
  BY <1>1 DEF WithMessages, FreshIds
<1> HIDE DEF ms, n
<1>4. \A i \in 1 .. n : PositionIn(ms, ms[i]) = i
  BY <1>2, PositionIs
<1>5. \A i \in 1 .. n : After(ms, i) \in Ids \cup {None}
  <2> TAKE i \in 1 .. n
  <2>1. i < n => i + 1 \in 1 .. n
    BY <1>1
  <2> QED
    BY <1>1, <1>2, <2>1 DEF After
<1>6. \A i \in 1 .. n : new(ms[i]) = [kind |-> kinds[i], parent |-> After(ms, i), body |-> ms[i]]
  BY <1>4
<1> HIDE DEF new
<1>7. \A i \in 1 .. n : kinds[i] \in Kinds
  BY <1>1
<1>8. /\ \A x \in Ids : msg[x] \in Msg /\ body[x] \in Nat
      /\ \A x \in Ids \ ToSet(ms) : msg[x] = h.msg[x] /\ body[x] = h.body[x]
      /\ \A i \in 1 .. n : msg[ms[i]] = new(ms[i]) /\ body[ms[i]] = 1
  <2>1. \A x \in Ids \ ToSet(ms) : msg[x] = h.msg[x] /\ body[x] = h.body[x]
    OBVIOUS
  <2>2. \A i \in 1 .. n : msg[ms[i]] = new(ms[i]) /\ body[ms[i]] = 1
    BY <1>2
  <2>3. ASSUME NEW x \in Ids PROVE msg[x] \in Msg /\ body[x] \in Nat
    <3>1. CASE x \in ToSet(ms)
      <4>1. PICK i \in 1 .. n : x = ms[i]
        BY <1>2, <3>1
      <4>2. msg[x] = [kind |-> kinds[i], parent |-> After(ms, i), body |-> x] /\ body[x] = 1
        BY <1>6, <2>2, <4>1
      <4> HIDE DEF msg, body
      <4> QED
        BY <1>5, <1>7, <4>2
    <3>2. CASE x \notin ToSet(ms)
      BY <3>2, HeapTypes
    <3> QED
      BY <3>1, <3>2
  <2> QED
    BY <2>1, <2>2, <2>3
<1>9. msg \in [Ids -> Msg] /\ body \in [Ids -> Nat]
  BY <1>8
<1> HIDE DEF msg, body, h2
<1>10. h2 = [obj |-> h.obj, msg |-> msg, body |-> body, bobj |-> h.bobj]
  <2>1. h = [obj |-> h.obj, msg |-> h.msg, body |-> h.body, bobj |-> h.bobj]
    BY HeapRecord
  <2>2. [h EXCEPT !.msg = msg] = [obj |-> h.obj, msg |-> msg, body |-> h.body, bobj |-> h.bobj]
    BY <2>1
  <2>3. h2 = [[h EXCEPT !.msg = msg] EXCEPT !.body = body]
    BY <1>3
  <2> QED
    BY <2>2, <2>3, Zenon
<1>11. h2 \in Heap
  <2>1. h.obj \in [Ids -> Object] /\ h.bobj \in [Ids -> [refs : Nat, body : Ids \cup {None}]]
    BY HeapRecord
  <2> QED
    BY <1>9, <1>10, <2>1, HeapOf, Zenon
<1>12. h2.obj = h.obj /\ h2.bobj = h.bobj /\ h2.msg = msg /\ h2.body = body
  BY <1>10
<1>13. \A i \in 1 .. n : /\ msg[ms[i]].kind \in Kinds /\ msg[ms[i]].body = ms[i]
                         /\ msg[ms[i]].parent = After(ms, i) /\ body[ms[i]] = 1
  <2> TAKE i \in 1 .. n
  <2>1. msg[ms[i]] = [kind |-> kinds[i], parent |-> After(ms, i), body |-> ms[i]]
    BY <1>6, <1>8
  <2> QED
    BY <1>7, <1>8, <2>1
<1> QED
  BY <1>2, <1>8, <1>11, <1>12, <1>13 DEF MessagesAdded, h2, ms, n

NewIds(h, ms) == ms \in Seq(Ids) /\ Once(ms) /\ ToSet(ms) \cap Used(h) = {}

LEMMA AddedAre ==
  ASSUME NEW ms \in Seq(Ids)
  PROVE  /\ ToSet(ms) \subseteq Ids /\ ToSet(ms) = {ms[i] : i \in 1 .. Len(ms)}
         /\ \A i \in 1 .. Len(ms) : ms[i] \in ToSet(ms) /\ ms[i] \in Ids
         /\ \A i \in 1 .. Len(ms) : After(ms, i) \in ToSet(ms) \cup {None}
<1>1. ToSet(ms) = {ms[i] : i \in 1 .. Len(ms)}
  BY DEF ToSet
<1>2. \A i \in 1 .. Len(ms) : ms[i] \in Ids
  OBVIOUS
<1>3. \A i \in 1 .. Len(ms) : i < Len(ms) => i + 1 \in 1 .. Len(ms)
  OBVIOUS
<1> QED
  BY <1>1, <1>2, <1>3 DEF After

LEMMA AddedAcyclic ==
  ASSUME NEW link \in Links, Acyclic(link), NEW g \in Links, NEW ms \in Seq(Ids), Once(ms),
         \A x \in Ids \ ToSet(ms) : g[x] = link[x] /\ g[x] \notin ToSet(ms),
         \A i \in 1 .. Len(ms) : g[ms[i]] = After(ms, i)
  PROVE  Acyclic(g)
<1>1. PICK R \in [Ids -> Nat] : Descends(link, R)
  BY DEF Acyclic
<1> DEFINE n == Len(ms)
<1>2. /\ n \in Nat /\ ToSet(ms) = {ms[i] : i \in 1 .. n} /\ ToSet(ms) \subseteq Ids
      /\ \A i \in 1 .. n : ms[i] \in ToSet(ms) /\ ms[i] \in Ids
  <2>1. n \in Nat
    OBVIOUS
  <2> QED
    BY <2>1, AddedAre, Zenon
<1> DEFINE R2 == [x \in Ids |-> IF x \in ToSet(ms) THEN n - PositionIn(ms, x) ELSE R[x]]
<1>3. \A i \in 1 .. n : R2[ms[i]] = n - i
  BY <1>2, PositionIs
<1>4. \A x \in Ids \ ToSet(ms) : R2[x] = R[x]
  OBVIOUS
<1>5. R2 \in [Ids -> Nat]
  <2>1. ASSUME NEW x \in Ids PROVE R2[x] \in Nat
    <3>1. CASE x \in ToSet(ms)
      <4>1. PICK i \in 1 .. n : x = ms[i]
        BY <1>2, <3>1
      <4>2. R2[x] = n - i
        BY <1>3, <4>1, Zenon
      <4> HIDE DEF R2
      <4> QED
        BY <1>2, <4>2
    <3>2. CASE x \notin ToSet(ms)
      BY <3>2
    <3> QED
      BY <3>1, <3>2
  <2> QED
    BY <2>1
<1> HIDE DEF R2
<1>6. ASSUME NEW x \in Ids, g[x] # None PROVE R2[g[x]] < R2[x]
  <2>1. CASE x \in ToSet(ms)
    <3>1. PICK i \in 1 .. n : x = ms[i]
      BY <1>2, <2>1
    <3>2. i < n /\ i + 1 \in 1 .. n /\ g[x] = ms[i + 1]
      BY <1>2, <1>6, <3>1 DEF After
    <3>3. R2[g[x]] = n - (i + 1) /\ R2[x] = n - i
      BY <1>3, <3>1, <3>2
    <3> QED
      BY <1>2, <3>3
  <2>2. CASE x \notin ToSet(ms)
    <3>1. g[x] = link[x] /\ g[x] \notin ToSet(ms) /\ g[x] \in Ids
      BY <1>6, <2>2 DEF Links
    <3>2. R[link[x]] < R[x]
      BY <1>1, <1>6, <3>1 DEF Descends
    <3> QED
      BY <1>4, <2>2, <3>1, <3>2
  <2> QED
    BY <2>1, <2>2
<1> QED
  BY <1>5, <1>6, Zenon DEF Acyclic, Descends

LEMMA MessagesAddedSound ==
  ASSUME NEW h, NEW r \in [Ids -> Nat], NEW br \in [Ids -> Nat], Sound(h, r, br), Freed(h),
         NEW ms, NewIds(h, ms), NEW h2, MessagesAdded(h2, h, ms)
  PROVE  /\ Sound(h2, r, br) /\ Freed(h2)
         /\ Matched(h) => Matched(h2)
         /\ Live(h2) = Live(h)
         /\ Orphans(h2) = Orphans(h) \cup ToSet(ms)
         /\ Used(h2) = Used(h) \cup ToSet(ms)
<1> DEFINE new == ToSet(ms)
<1>1. /\ ms \in Seq(Ids) /\ Once(ms) /\ new \cap Used(h) = {} /\ new \subseteq Ids /\ new = {ms[i] : i \in 1 .. Len(ms)}
      /\ \A i \in 1 .. Len(ms) : ms[i] \in new /\ ms[i] \in Ids
      /\ \A i \in 1 .. Len(ms) : After(ms, i) \in new \cup {None}
  BY AddedAre, Zenon DEF NewIds
<1>2. /\ h2 \in Heap /\ h2.obj = h.obj /\ h2.bobj = h.bobj
      /\ \A x \in Ids \ new : h2.msg[x] = h.msg[x] /\ h2.body[x] = h.body[x]
      /\ \A i \in 1 .. Len(ms) : /\ h2.msg[ms[i]].kind \in Kinds /\ h2.msg[ms[i]].body = ms[i]
                                 /\ h2.msg[ms[i]].parent = After(ms, i)
                                 /\ h2.body[ms[i]] = 1
  BY DEF MessagesAdded
<1>3. \A x \in new :
         /\ h.obj[x] = NoObject /\ h.msg[x] = NoMessage /\ h.body[x] = 0 /\ h.bobj[x] = NoBodyObject
         /\ x \notin Live(h) /\ x \notin Messages(h)
         /\ \A y \in Ids : /\ h.obj[y].message # x
                           /\ h.msg[y].parent # x /\ h.msg[y].body # x /\ h.bobj[y].body # x
  <2> TAKE x \in new
  <2>1. x \in Ids \ Used(h)
    BY <1>1
  <2> QED
    BY <2>1, UnusedIs
<1>4. \A x \in new : /\ h2.msg[x].kind \in Kinds /\ h2.msg[x].body = x
                     /\ h2.msg[x].parent \in new \cup {None} /\ h2.body[x] = 1
  <2> TAKE x \in new
  <2>1. PICK i \in 1 .. Len(ms) : x = ms[i]
    BY <1>1
  <2> QED
    BY <1>1, <1>2, <2>1, Zenon
<1>5. h \in Heap /\ Built(h) /\ Agree(h) /\ Counted(h, r, br) /\ None \notin Ids
  BY IdsFinite DEF Sound, Built
<1>6. Live(h2) = Live(h) /\ Live(h) \subseteq Ids /\ Messages(h) \subseteq Ids
  BY <1>2 DEF Live, Messages
<1>7. Messages(h2) = Messages(h) \cup new
  <2>1. "free" \notin Kinds
    BY DEF Kinds
  <2>2. \A x \in Ids \ new : x \in Messages(h2) <=> x \in Messages(h)
    BY <1>2 DEF Messages
  <2>3. \A x \in new : x \in Messages(h2)
    BY <1>1, <1>4, <2>1 DEF Messages
  <2>4. Messages(h2) \subseteq Ids
    BY DEF Messages
  <2> QED
    BY <1>1, <1>6, <2>2, <2>3, <2>4
<1>8. Orphans(h2) = Orphans(h) \cup new
  <2>1. {h2.obj[o].message : o \in Live(h2)} = {h.obj[o].message : o \in Live(h)}
    BY <1>2, <1>6
  <2>2. new \cap {h.obj[o].message : o \in Live(h)} = {}
    BY <1>3, <1>6
  <2> QED
    BY <1>7, <2>1, <2>2, Zenon DEF Orphans
<1>9. Used(h2) = Used(h) \cup new
  <2>1. Objects(h2) = Objects(h) /\ BodyObjects(h2) = BodyObjects(h)
    BY <1>2 DEF Objects, BodyObjects
  <2>2. Bodies(h2) = Bodies(h) \cup new
    <3>1. \A x \in Ids \ new : x \in Bodies(h2) <=> x \in Bodies(h)
      BY <1>2 DEF Bodies
    <3>2. \A x \in new : x \in Bodies(h2)
      <4> TAKE x \in new
      <4>1. x \in Ids /\ h2.body[x] = 1
        BY <1>1, <1>4, Zenon
      <4>2. h2.body[x] > 0
        BY <4>1
      <4> QED
        BY <4>1, <4>2 DEF Bodies
    <3>3. Bodies(h2) \subseteq Ids /\ Bodies(h) \subseteq Ids
      BY DEF Bodies
    <3> QED
      BY <1>1, <3>1, <3>2, <3>3
  <2> QED
    BY <1>7, <2>1, <2>2 DEF Used
<1>10. \A o \in Live(h) : h2.msg[h.obj[o].message] = h.msg[h.obj[o].message] /\ h.obj[o].message \in Messages(h)
  BY <1>2, <1>3, <1>5, <1>6 DEF Built
<1>11. \A m \in Messages(h) : h2.msg[m] = h.msg[m]
  BY <1>2, <1>3, <1>6
<1>12. Acyclic(MessageLinks(h2))
  <2>1. MessageLinks(h2) \in Links /\ MessageLinks(h) \in Links /\ Acyclic(MessageLinks(h))
    BY <1>2, <1>5, HeapTypes DEF Built
  <2>2. \A x \in Ids \ new : /\ MessageLinks(h2)[x] = MessageLinks(h)[x]
                             /\ MessageLinks(h2)[x] \notin new
    BY <1>2, <1>3 DEF MessageLinks
  <2>3. \A i \in 1 .. Len(ms) : MessageLinks(h2)[ms[i]] = After(ms, i)
    BY <1>1, <1>2, Zenon DEF MessageLinks
  <2> HIDE DEF new
  <2> QED
    BY <1>1, <2>1, <2>2, <2>3, AddedAcyclic, Zenon DEF new
<1>13. Built(h2)
  <2>1. \A o \in Live(h2) : h2.obj[o].message \in Messages(h2)
    BY <1>2, <1>6, <1>7, <1>10
  <2>2. \A o, p \in Live(h2) : h2.obj[o].message = h2.obj[p].message => o = p
    BY <1>2, <1>5, <1>6 DEF Built
  <2>3. \A m \in Messages(h2) : h2.msg[m].parent \in Messages(h2) \cup {None} /\ h2.msg[m].body \in Ids
    <3>1. \A m \in Messages(h) : h2.msg[m].parent \in Messages(h) \cup {None} /\ h2.msg[m].body \in Ids
      BY <1>5, <1>11 DEF Built
    <3> QED
      BY <1>1, <1>4, <1>7, <3>1, Zenon
  <2>4. \A m \in Ids \ Messages(h2) : h2.msg[m] = NoMessage
    BY <1>2, <1>5, <1>7, Zenon DEF Built
  <2> QED
    BY <1>2, <1>12, <2>1, <2>2, <2>3, <2>4 DEF Built
<1>14. Agree(h2)
  <2>1. \A o \in Live(h) :
          LET p == h.obj[o].parent
              mp == h.msg[h.obj[o].message].parent
          IN IF p # None THEN mp = h.obj[p].message ELSE mp \in Orphans(h) \cup {None}
    BY <1>5 DEF Agree
  <2>2. \A o \in Live(h2) :
          LET p == h2.obj[o].parent
              mp == h2.msg[h2.obj[o].message].parent
          IN IF p # None THEN mp = h2.obj[p].message ELSE mp \in Orphans(h2) \cup {None}
    BY <1>2, <1>6, <1>8, <1>10, <2>1
  <2>3. Orphans(h) \subseteq Messages(h) /\ \A m \in Orphans(h) : h.msg[m].parent \in Orphans(h) \cup {None}
    BY <1>5 DEF Agree, Orphans
  <2>4. \A m \in Orphans(h2) : h2.msg[m].parent \in Orphans(h2) \cup {None}
    <3>1. \A m \in Orphans(h) : h2.msg[m].parent \in Orphans(h) \cup {None}
      BY <1>11, <2>3
    <3> QED
      BY <1>4, <1>8, <3>1
  <2> QED
    BY <2>2, <2>4 DEF Agree
<1>15. Counted(h2, r, br)
  <2>1. /\ ObjectLinks(h2) = ObjectLinks(h) /\ Iterators(h2) = Iterators(h) /\ ObjectBodies(h2) = ObjectBodies(h)
        /\ BodiesOf(h2) = BodiesOf(h)
    BY <1>2 DEF ObjectLinks, Iterators, ObjectBodies, BodiesOf
  <2>2. ASSUME NEW b \in Ids
        PROVE  h2.body[b] = HowMany(MessageBodies(h2), Ids, b) + HowMany(BodiesOf(h2), Ids, b)
    <3>1. CASE b \in new
      <4>1. HowMany(BodiesOf(h2), Ids, b) = 0
        <5>1. \A i \in Ids : BodiesOf(h2)[i] # b
          BY <1>2, <1>3, <3>1 DEF BodiesOf
        <5> QED
          BY <5>1, IdsFinite, HowManyNat, Zenon
      <4>2. HowMany(MessageBodies(h2), Ids, b) = 1
        <5>1. MessageBodies(h2)[b] = b
          BY <1>4, <3>1 DEF MessageBodies
        <5>2. ASSUME NEW i \in Ids, MessageBodies(h2)[i] = b PROVE i = b
          <6>1. CASE i \in new
            BY <1>4, <5>2, <6>1 DEF MessageBodies
          <6>2. CASE i \notin new
            BY <1>2, <1>3, <3>1, <5>2, <6>2 DEF MessageBodies
          <6> QED
            BY <6>1, <6>2
        <5> QED
          BY <5>1, <5>2, HowManyOne
      <4> QED
        BY <1>4, <3>1, <4>1, <4>2
    <3>2. CASE b \notin new
      <4>1. \A i \in Ids : MessageBodies(h)[i] = b <=> MessageBodies(h2)[i] = b
        <5> TAKE i \in Ids
        <5>1. CASE i \in new
          <6>1. h2.msg[i].body = i /\ h.msg[i] = NoMessage
            BY <1>3, <1>4, <5>1
          <6>2. i # b /\ b # None
            BY <1>5, <3>2, <5>1
          <6> QED
            BY <6>1, <6>2 DEF MessageBodies, NoMessage
        <5>2. CASE i \notin new
          BY <1>2, <5>2 DEF MessageBodies
        <5> QED
          BY <5>1, <5>2
      <4>2. HowMany(MessageBodies(h), Ids, b) = HowMany(MessageBodies(h2), Ids, b)
        BY <4>1, HowManySame
      <4>3. h.body[b] = HowMany(MessageBodies(h), Ids, b) + HowMany(BodiesOf(h), Ids, b)
        BY <1>5 DEF Counted
      <4>4. h2.body[b] = h.body[b]
        BY <1>2, <3>2
      <4> QED
        BY <2>1, <4>2, <4>3, <4>4
    <3> QED
      BY <3>1, <3>2
  <2> QED
    BY <1>2, <1>5, <2>1, <2>2 DEF Counted
<1>16. Freed(h2)
  BY <1>2, <1>6 DEF Freed
<1>17. Matched(h) => Matched(h2)
  BY <1>2, <1>6, <1>10 DEF Matched
<1> QED
  BY <1>6, <1>8, <1>9, <1>13, <1>14, <1>15, <1>16, <1>17 DEF Sound

-----------------------------------------------------------------------------
(* Objects for new messages *)

\* The messages W get objects, with their ids, and those of B body objects.
Wraps(h2, h, W, B) ==
    /\ h2 \in Heap /\ h2.msg = h.msg
    /\ \A x \in Ids \ W : h2.obj[x] = h.obj[x]
    /\ \A x \in W : h2.obj[x] = [refs |-> 1, message |-> x,
                                 parent |-> IF h.msg[x].parent \in W THEN h.msg[x].parent ELSE None,
                                 body |-> IF x \in B THEN x ELSE None, iterator |-> None]
    /\ \A x \in Ids \ B : h2.bobj[x] = h.bobj[x]
    /\ \A x \in B : h2.bobj[x] = [refs |-> 1, body |-> h.msg[x].body]
    /\ \A b \in Ids : h2.body[b] = h.body[b] + HowMany(MessageBodies(h), B, b)

\* They are linked one to the next, a the first, and nothing else leads to them.
Wrappable(h, W, B, a) ==
    /\ W \subseteq Orphans(h) /\ B \subseteq W /\ a \in W
    /\ \A x \in W : h.obj[x] = NoObject /\ h.bobj[x] = NoBodyObject
    /\ \A m \in Ids \ W : h.msg[m].parent \notin W
    /\ \A x \in W : h.msg[x].parent # a
    /\ \A x, y \in W : h.msg[x].parent = h.msg[y].parent /\ h.msg[x].parent \in W => x = y

Wrapped(h2, h, W, B) ==
    /\ \A x \in W : /\ h2.obj[x].refs = 1 /\ h2.obj[x].message = x /\ h2.obj[x].iterator = None
                    /\ h2.obj[x].parent = IF h.msg[x].parent \in W THEN h.msg[x].parent ELSE None
                    /\ h2.obj[x].body = IF x \in B THEN x ELSE None
    /\ \A x \in B : h2.bobj[x].refs = 1 /\ h2.bobj[x].body = h.msg[x].body

LEMMA WrapsFields ==
  ASSUME NEW h2, NEW h, NEW W, NEW B, Wraps(h2, h, W, B)
  PROVE  Wrapped(h2, h, W, B)
<1> DEFINE p(x) == IF h.msg[x].parent \in W THEN h.msg[x].parent ELSE None
           b(x) == IF x \in B THEN x ELSE None
<1>1. /\ \A x \in W : h2.obj[x] = [refs |-> 1, message |-> x, parent |-> p(x), body |-> b(x), iterator |-> None]
      /\ \A x \in B : h2.bobj[x] = [refs |-> 1, body |-> h.msg[x].body]
  BY DEF Wraps
<1> HIDE DEF p, b
<1>2. ASSUME NEW x \in W
      PROVE  /\ h2.obj[x].refs = 1 /\ h2.obj[x].message = x /\ h2.obj[x].iterator = None
             /\ h2.obj[x].parent = p(x) /\ h2.obj[x].body = b(x)
  <2>1. h2.obj[x] = [refs |-> 1, message |-> x, parent |-> p(x), body |-> b(x), iterator |-> None]
    BY <1>1
  <2> QED
    BY <2>1
<1>3. ASSUME NEW x \in B
      PROVE  h2.bobj[x].refs = 1 /\ h2.bobj[x].body = h.msg[x].body
  <2>1. h2.bobj[x] = [refs |-> 1, body |-> h.msg[x].body]
    BY <1>1
  <2> QED
    BY <2>1
<1> QED
  BY <1>2, <1>3 DEF p, b, Wrapped

LEMMA WrapsCounted ==
  ASSUME NEW h, NEW r \in [Ids -> Nat], NEW br \in [Ids -> Nat], Sound(h, r, br),
         NEW W, NEW B, NEW a, Wrappable(h, W, B, a), NEW h2, Wraps(h2, h, W, B)
  PROVE  Counted(h2, Plus(r, a), br)
<1>1. /\ h \in Heap /\ Live(h) \subseteq Ids /\ Messages(h) \subseteq Ids /\ None \notin Ids
      /\ \A o \in Ids : /\ h.obj[o].parent \in Live(h) \cup {None}
                        /\ h.obj[o].iterator \in Live(h) \cup {None}
                        /\ r[o] > 0 => o \in Live(h)
                        /\ r[o] \in Nat /\ br[o] \in Nat
      /\ \A o \in Ids : h.obj[o].body # None => h.bobj[h.obj[o].body].refs > 0
      /\ \A c \in Ids : br[c] > 0 => h.bobj[c].refs > 0
  BY SoundLives, IdsFinite
<1>2. /\ \A o \in Ids :
            h.obj[o].refs >= HowMany(ObjectLinks(h), Ids, o) + HowMany(Iterators(h), Ids, o) + r[o]
      /\ \A c \in Ids : h.bobj[c].refs = br[c] + HowMany(ObjectBodies(h), Ids, c)
      /\ \A b \in Ids : h.body[b] = HowMany(MessageBodies(h), Ids, b) + HowMany(BodiesOf(h), Ids, b)
  BY DEF Sound, Counted
<1>3. /\ W \subseteq Ids /\ B \subseteq W /\ B \subseteq Ids /\ a \in W
      /\ \A x \in W : x \notin Live(h) /\ h.obj[x] = NoObject /\ h.bobj[x] = NoBodyObject
      /\ \A x \in W : h.msg[x].parent # a
      /\ \A x, y \in W : h.msg[x].parent = h.msg[y].parent /\ h.msg[x].parent \in W => x = y
  BY <1>1 DEF Wrappable, Orphans, Live
<1>4. /\ \A x \in Ids \ W : h2.obj[x] = h.obj[x]
      /\ \A x \in W : /\ h2.obj[x].refs = 1 /\ h2.obj[x].iterator = None
                      /\ h2.obj[x].parent = IF h.msg[x].parent \in W THEN h.msg[x].parent ELSE None
                      /\ h2.obj[x].body = IF x \in B THEN x ELSE None
      /\ \A x \in Ids \ B : h2.bobj[x] = h.bobj[x]
      /\ \A x \in B : h2.bobj[x].refs = 1 /\ h2.bobj[x].body = h.msg[x].body
      /\ h2.msg = h.msg
      /\ \A b \in Ids : h2.body[b] = h.body[b] + HowMany(MessageBodies(h), B, b)
  <2>1. Wrapped(h2, h, W, B)
    BY WrapsFields
  <2>2. /\ \A x \in Ids \ W : h2.obj[x] = h.obj[x]
        /\ \A x \in Ids \ B : h2.bobj[x] = h.bobj[x]
        /\ h2.msg = h.msg
        /\ \A b \in Ids : h2.body[b] = h.body[b] + HowMany(MessageBodies(h), B, b)
    BY DEF Wraps
  <2> QED
    BY <2>1, <2>2 DEF Wrapped
<1>5. \A x \in W : r[x] = 0 /\ br[x] = 0
  BY <1>1, <1>3 DEF NoBodyObject
<1>6. IsFiniteSet(Ids) /\ IsFiniteSet(W) /\ IsFiniteSet(B)
  BY <1>3, IdsFinite, FS_Subset, Zenon
<1>7. ASSUME NEW y \in Ids
      PROVE  h2.obj[y].refs >= HowMany(ObjectLinks(h2), Ids, y) + HowMany(Iterators(h2), Ids, y) + Plus(r, a)[y]
  <2>1. Plus(r, a)[y] = r[y] + (IF y = a THEN 1 ELSE 0)
    BY DEF Plus
  <2>2. CASE y \in W
    <3>1. \A i \in Ids : Iterators(h2)[i] # y
      <4> TAKE i \in Ids
      <4>1. CASE i \in W
        BY <1>1, <1>4, <4>1 DEF Iterators
      <4>2. CASE i \notin W
        BY <1>1, <1>3, <1>4, <2>2, <4>2 DEF Iterators
      <4> QED
        BY <4>1, <4>2
    <3>2. HowMany(Iterators(h2), Ids, y) = 0
      BY <1>6, <3>1, HowManyNat
    <3>3. \A i \in Ids : ObjectLinks(h2)[i] = y => i \in W /\ h.msg[i].parent = y
      <4> TAKE i \in Ids
      <4>1. CASE i \in W
        BY <1>1, <1>4, <4>1 DEF ObjectLinks
      <4>2. CASE i \notin W
        BY <1>1, <1>3, <1>4, <2>2, <4>2 DEF ObjectLinks
      <4> QED
        BY <4>1, <4>2
    <3>4. HowMany(ObjectLinks(h2), Ids, y) \in {0, 1} /\ (y = a => HowMany(ObjectLinks(h2), Ids, y) = 0)
      <4>1. CASE \A i \in Ids : ObjectLinks(h2)[i] # y
        BY <1>6, <4>1, HowManyNat
      <4>2. CASE \E i \in Ids : ObjectLinks(h2)[i] = y
        <5>1. PICK i \in Ids : ObjectLinks(h2)[i] = y
          BY <4>2
        <5>2. y # a
          BY <1>3, <3>3, <5>1
        <5>3. \A k \in Ids : ObjectLinks(h2)[k] = y => k = i
          BY <1>3, <2>2, <3>3, <5>1
        <5>4. HowMany(ObjectLinks(h2), Ids, y) = 1
          BY <5>1, <5>3, HowManyOne
        <5> QED
          BY <5>2, <5>4
      <4> QED
        BY <4>1, <4>2
    <3>5. h2.obj[y].refs = 1
      BY <1>4, <2>2
    <3>6. r[y] = 0
      BY <1>5, <2>2
    <3> QED
      BY <2>1, <3>2, <3>4, <3>5, <3>6
  <2>3. CASE y \notin W
    <3>1. \A i \in Ids : Iterators(h)[i] = y <=> Iterators(h2)[i] = y
      <4> TAKE i \in Ids
      <4>1. CASE i \in W
        BY <1>1, <1>3, <1>4, <4>1 DEF Iterators, NoObject
      <4>2. CASE i \notin W
        BY <1>4, <4>2 DEF Iterators
      <4> QED
        BY <4>1, <4>2
    <3>2. \A i \in Ids : ObjectLinks(h)[i] = y <=> ObjectLinks(h2)[i] = y
      <4> TAKE i \in Ids
      <4>1. CASE i \in W
        <5>1. h.obj[i].parent = None /\ h2.obj[i].parent \in W \cup {None}
          BY <1>3, <1>4, <4>1 DEF NoObject
        <5> QED
          BY <1>1, <2>3, <5>1 DEF ObjectLinks
      <4>2. CASE i \notin W
        BY <1>4, <4>2 DEF ObjectLinks
      <4> QED
        BY <4>1, <4>2
    <3>3. HowMany(ObjectLinks(h), Ids, y) = HowMany(ObjectLinks(h2), Ids, y)
      BY <3>2, HowManySame
    <3>4. HowMany(Iterators(h), Ids, y) = HowMany(Iterators(h2), Ids, y)
      BY <3>1, HowManySame
    <3>5. Plus(r, a)[y] = r[y]
      BY <1>1, <1>3, <2>1, <2>3
    <3>6. h2.obj[y].refs = h.obj[y].refs
      BY <1>4, <2>3
    <3> QED
      BY <1>2, <3>3, <3>4, <3>5, <3>6
  <2> QED
    BY <2>2, <2>3
<1>8. ASSUME NEW c \in Ids PROVE h2.bobj[c].refs = br[c] + HowMany(ObjectBodies(h2), Ids, c)
  <2>1. CASE c \in B
    <3>1. ObjectBodies(h2)[c] = c
      BY <1>3, <1>4, <2>1 DEF ObjectBodies
    <3>2. ASSUME NEW i \in Ids, ObjectBodies(h2)[i] = c PROVE i = c
      <4>1. CASE i \in W
        BY <1>1, <1>4, <3>2, <4>1 DEF ObjectBodies
      <4>2. CASE i \notin W
        <5>1. h.obj[i].body = c
          BY <1>4, <3>2, <4>2 DEF ObjectBodies
        <5>2. h.bobj[c].refs > 0 /\ h.bobj[c] = NoBodyObject
          BY <1>1, <1>3, <2>1, <5>1
        <5> QED
          BY <5>2 DEF NoBodyObject
      <4> QED
        BY <4>1, <4>2
    <3>3. HowMany(ObjectBodies(h2), Ids, c) = 1
      BY <3>1, <3>2, HowManyOne
    <3>4. h2.bobj[c].refs = 1 /\ br[c] = 0
      BY <1>3, <1>4, <1>5, <2>1
    <3> QED
      BY <3>3, <3>4
  <2>2. CASE c \notin B
    <3>1. \A i \in Ids : ObjectBodies(h)[i] = c <=> ObjectBodies(h2)[i] = c
      <4> TAKE i \in Ids
      <4>1. CASE i \in W
        <5>1. h.obj[i].body = None /\ h2.obj[i].body \in B \cup {None}
          BY <1>3, <1>4, <4>1 DEF NoObject
        <5> QED
          BY <1>1, <2>2, <5>1 DEF ObjectBodies
      <4>2. CASE i \notin W
        BY <1>4, <4>2 DEF ObjectBodies
      <4> QED
        BY <4>1, <4>2
    <3>2. HowMany(ObjectBodies(h), Ids, c) = HowMany(ObjectBodies(h2), Ids, c)
      BY <3>1, HowManySame
    <3>3. h2.bobj[c] = h.bobj[c]
      BY <1>4, <2>2
    <3> QED
      BY <1>2, <3>2, <3>3
  <2> QED
    BY <2>1, <2>2
<1>9. ASSUME NEW b \in Ids
      PROVE  h2.body[b] = HowMany(MessageBodies(h2), Ids, b) + HowMany(BodiesOf(h2), Ids, b)
  <2>1. MessageBodies(h2) = MessageBodies(h)
    BY <1>4 DEF MessageBodies
  <2>2. HowMany(BodiesOf(h2), B, b) = HowMany(MessageBodies(h), B, b)
    <3>1. \A i \in B : BodiesOf(h2)[i] = b <=> MessageBodies(h)[i] = b
      BY <1>3, <1>4 DEF BodiesOf, MessageBodies
    <3> QED
      BY <3>1, HowManySame
  <2>3. HowMany(BodiesOf(h2), Ids \ B, b) = HowMany(BodiesOf(h), Ids \ B, b)
    <3>1. \A i \in Ids \ B : BodiesOf(h2)[i] = b <=> BodiesOf(h)[i] = b
      BY <1>4 DEF BodiesOf
    <3> QED
      BY <3>1, HowManySame
  <2>4. HowMany(BodiesOf(h), B, b) = 0
    <3>1. \A i \in B : BodiesOf(h)[i] # b
      BY <1>1, <1>3 DEF BodiesOf, NoBodyObject
    <3> QED
      BY <1>6, <3>1, HowManyNat
  <2>5. /\ HowMany(BodiesOf(h), Ids, b) = HowMany(BodiesOf(h), B, b) + HowMany(BodiesOf(h), Ids \ B, b)
        /\ HowMany(BodiesOf(h2), Ids, b) = HowMany(BodiesOf(h2), B, b) + HowMany(BodiesOf(h2), Ids \ B, b)
    BY <1>3, <1>6, HowManySplit
  <2>6. /\ HowMany(BodiesOf(h), Ids \ B, b) \in Nat /\ HowMany(BodiesOf(h2), B, b) \in Nat
        /\ HowMany(MessageBodies(h), Ids, b) \in Nat
    BY <1>3, HeapCounts, Zenon
  <2>7. h2.body[b] = h.body[b] + HowMany(MessageBodies(h), B, b)
    BY <1>4
  <2>8. h.body[b] = HowMany(MessageBodies(h), Ids, b) + HowMany(BodiesOf(h), Ids, b)
    BY <1>2
  <2> QED
    BY <2>1, <2>2, <2>3, <2>4, <2>5, <2>6, <2>7, <2>8
<1> QED
  BY <1>7, <1>8, <1>9 DEF Counted

LEMMA WrapsSound ==
  ASSUME NEW h, NEW r \in [Ids -> Nat], NEW br \in [Ids -> Nat], Sound(h, r, br),
         NEW W, NEW B, NEW a, Wrappable(h, W, B, a), NEW h2, Wraps(h2, h, W, B)
  PROVE  /\ Sound(h2, Plus(r, a), br)
         /\ Freed(h) => Freed(h2)
         /\ Matched(h) => Matched(h2)
         /\ Live(h2) = Live(h) \cup W
         /\ Orphans(h2) = Orphans(h) \ W
         /\ Used(h2) = Used(h)
<1>1. /\ h \in Heap /\ Built(h) /\ Agree(h) /\ Live(h) \subseteq Ids /\ Messages(h) \subseteq Ids /\ None \notin Ids
      /\ \A o \in Ids : h.obj[o].parent \in Live(h) \cup {None}
      /\ \A o \in Live(h) : h.obj[o].message \in Messages(h) /\ h.obj[o].message # None
      /\ \A o \in Ids : h.obj[o].body # None => h.bobj[h.obj[o].body].refs > 0
      /\ \A m \in Messages(h) : h.body[h.msg[m].body] > 0
  BY SoundLives, IdsFinite DEF Sound
<1>2. /\ W \subseteq Ids /\ W \subseteq Orphans(h) /\ W \subseteq Messages(h) /\ B \subseteq W /\ B \subseteq Ids /\ a \in W
      /\ \A x \in W : x \notin Live(h) /\ h.obj[x] = NoObject /\ h.bobj[x] = NoBodyObject
      /\ \A m \in Ids \ W : h.msg[m].parent \notin W
  BY <1>1 DEF Wrappable, Orphans, Live
<1>3. /\ h2 \in Heap /\ h2.msg = h.msg
      /\ \A x \in Ids \ W : h2.obj[x] = h.obj[x]
      /\ \A x \in Ids \ B : h2.bobj[x] = h.bobj[x]
      /\ \A b \in Ids : h2.body[b] = h.body[b] + HowMany(MessageBodies(h), B, b)
  BY DEF Wraps
<1>4. /\ \A x \in W : /\ h2.obj[x].refs = 1 /\ h2.obj[x].message = x
                      /\ h2.obj[x].parent = IF h.msg[x].parent \in W THEN h.msg[x].parent ELSE None
                      /\ h2.obj[x].body = IF x \in B THEN x ELSE None
      /\ \A x \in B : h2.bobj[x].refs = 1 /\ h2.bobj[x].body = h.msg[x].body
  BY WrapsFields DEF Wrapped
<1>5. Live(h2) = Live(h) \cup W
  <2>1. \A x \in W : x \in Live(h2)
    BY <1>2, <1>4 DEF Live, NoObject
  <2>2. \A x \in Ids \ W : x \in Live(h2) <=> x \in Live(h)
    BY <1>3 DEF Live
  <2>3. Live(h2) \subseteq Ids
    BY DEF Live
  <2> QED
    BY <1>1, <1>2, <2>1, <2>2, <2>3
<1>6. Messages(h2) = Messages(h)
  BY <1>3 DEF Messages
<1>7. \A o \in Live(h) : o \notin W /\ h2.obj[o] = h.obj[o] /\ h.obj[o].message \notin W
  <2>1. \A o \in Live(h) : o \notin W
    BY <1>2
  <2>2. \A o \in Live(h) : h.obj[o].message \notin W
    BY <1>2 DEF Orphans
  <2> QED
    BY <1>1, <1>3, <2>1, <2>2
<1>8. Orphans(h2) = Orphans(h) \ W
  <2>1. {h2.obj[o].message : o \in Live(h2)} = {h.obj[o].message : o \in Live(h)} \cup W
    <3>1. {h2.obj[o].message : o \in Live(h2)} \subseteq {h.obj[o].message : o \in Live(h)} \cup W
      BY <1>4, <1>5, <1>7
    <3>2. {h.obj[o].message : o \in Live(h)} \subseteq {h2.obj[o].message : o \in Live(h2)}
      BY <1>5, <1>7
    <3>3. W \subseteq {h2.obj[o].message : o \in Live(h2)}
      BY <1>4, <1>5
    <3> QED
      BY <3>1, <3>2, <3>3, Zenon
  <2> QED
    BY <1>6, <2>1, Zenon DEF Orphans
<1>9. Built(h2)
  <2>1. \A o \in Live(h2) : h2.obj[o].message \in Messages(h2)
    BY <1>1, <1>2, <1>4, <1>5, <1>6, <1>7
  <2>2. ASSUME NEW o \in Live(h2), NEW p \in Live(h2), h2.obj[o].message = h2.obj[p].message PROVE o = p
    <3>1. \A x, y \in Live(h) : h.obj[x].message = h.obj[y].message => x = y
      BY <1>1 DEF Built
    <3> QED
      BY <1>4, <1>5, <1>7, <2>2, <3>1
  <2>3. MessageLinks(h2) = MessageLinks(h)
    BY <1>3 DEF MessageLinks
  <2>4. /\ \A m \in Messages(h) : h.msg[m].parent \in Messages(h) \cup {None} /\ h.msg[m].body \in Ids
        /\ \A m \in Ids \ Messages(h) : h.msg[m] = NoMessage
        /\ Acyclic(MessageLinks(h))
    BY <1>1 DEF Built
  <2>5. \A m \in Messages(h2) : h2.msg[m].parent \in Messages(h2) \cup {None} /\ h2.msg[m].body \in Ids
    BY <1>3, <1>6, <2>4
  <2>6. \A m \in Ids \ Messages(h2) : h2.msg[m] = NoMessage
    BY <1>3, <1>6, <2>4
  <2> QED
    BY <1>3, <2>1, <2>2, <2>3, <2>4, <2>5, <2>6 DEF Built
<1>10. Agree(h2)
  <2>1. \A o \in Live(h) :
          LET p == h.obj[o].parent
              mp == h.msg[h.obj[o].message].parent
          IN IF p # None THEN mp = h.obj[p].message ELSE mp \in Orphans(h) \cup {None}
    BY <1>1 DEF Agree
  <2>2. \A m \in Orphans(h) : h.msg[m].parent \in Orphans(h) \cup {None}
    BY <1>1 DEF Agree
  <2>3. ASSUME NEW o \in Live(h2)
        PROVE  LET p == h2.obj[o].parent
                   mp == h2.msg[h2.obj[o].message].parent
               IN IF p # None THEN mp = h2.obj[p].message ELSE mp \in Orphans(h2) \cup {None}
    <3>1. CASE o \in W
      <4>1. h2.obj[o].message = o /\ h2.msg[o].parent = h.msg[o].parent
        BY <1>3, <1>4, <3>1
      <4>2. h.msg[o].parent \in Orphans(h) \cup {None}
        BY <1>2, <2>2, <3>1
      <4>3. CASE h.msg[o].parent \in W
        <5>1. h2.obj[o].parent = h.msg[o].parent /\ h.msg[o].parent # None
          BY <1>1, <1>2, <1>4, <3>1, <4>3
        <5>2. h2.obj[h.msg[o].parent].message = h.msg[o].parent
          BY <1>4, <4>3
        <5> QED
          BY <4>1, <5>1, <5>2
      <4>4. CASE h.msg[o].parent \notin W
        <5>1. h2.obj[o].parent = None
          BY <1>4, <3>1, <4>4
        <5>2. h.msg[o].parent \in Orphans(h2) \cup {None}
          BY <1>8, <4>2, <4>4
        <5> QED
          BY <4>1, <5>1, <5>2
      <4> QED
        BY <4>3, <4>4
    <3>2. CASE o \in Live(h)
      <4>1. h2.obj[o] = h.obj[o] /\ h2.msg = h.msg /\ h.obj[o].message \in Ids \ W
        BY <1>1, <1>3, <1>7, <3>2
      <4>2. h.msg[h.obj[o].message].parent \notin W
        BY <1>2, <4>1
      <4>3. h.obj[o].parent # None => h2.obj[h.obj[o].parent] = h.obj[h.obj[o].parent]
        BY <1>1, <1>7, <3>2
      <4> QED
        BY <1>8, <2>1, <3>2, <4>1, <4>2, <4>3
    <3> QED
      BY <1>5, <3>1, <3>2
  <2>4. \A m \in Orphans(h2) : h2.msg[m].parent \in Orphans(h2) \cup {None}
    <3> TAKE m \in Orphans(h2)
    <3>1. m \in Orphans(h) /\ m \in Ids \ W
      BY <1>1, <1>8 DEF Orphans
    <3>2. h.msg[m].parent \in Orphans(h) \cup {None} /\ h.msg[m].parent \notin W
      BY <1>2, <2>2, <3>1
    <3> QED
      BY <1>3, <1>8, <3>2
  <2> QED
    BY <2>3, <2>4 DEF Agree
<1>11. Sound(h2, Plus(r, a), br)
  BY <1>9, <1>10, WrapsCounted DEF Sound
<1>12. Freed(h) => Freed(h2)
  <2> SUFFICES ASSUME Freed(h) PROVE Freed(h2)
    OBVIOUS
  <2>1. \A o \in Live(h2) : h2.obj[o].refs > 0
    <3> TAKE o \in Live(h2)
    <3>1. CASE o \in W
      <4>1. h2.obj[o].refs = 1
        BY <1>4, <3>1
      <4> QED
        BY <4>1
    <3>2. CASE o \in Live(h)
      BY <1>7, <3>2 DEF Freed
    <3> QED
      BY <1>5, <3>1, <3>2
  <2>2. \A c \in Ids : h2.bobj[c].refs = 0 => h2.bobj[c] = NoBodyObject
    <3> TAKE c \in Ids
    <3>1. CASE c \in B
      <4>1. h2.bobj[c].refs = 1
        BY <1>4, <3>1
      <4> QED
        BY <4>1
    <3>2. CASE c \notin B
      BY <1>3, <3>2 DEF Freed
    <3> QED
      BY <3>1, <3>2
  <2> QED
    BY <2>1, <2>2 DEF Freed
<1>13. Matched(h) => Matched(h2)
  <2> SUFFICES ASSUME Matched(h), NEW o \in Live(h2), h2.obj[o].body # None
               PROVE  h2.bobj[h2.obj[o].body].body = h2.msg[h2.obj[o].message].body
    BY DEF Matched
  <2>1. CASE o \in W
    <3>1. o \in B /\ h2.obj[o].body = o /\ h2.obj[o].message = o
      BY <1>4, <2>1
    <3> QED
      BY <1>3, <1>4, <3>1
  <2>2. CASE o \in Live(h)
    <3>1. h2.obj[o] = h.obj[o] /\ h2.msg = h.msg
      BY <1>3, <1>7, <2>2
    <3>2. h.obj[o].body \in Ids /\ h.bobj[h.obj[o].body].refs > 0
      BY <1>1, <2>2, <3>1, HeapTypes
    <3>3. h.obj[o].body \notin B
      BY <1>2, <3>2 DEF NoBodyObject
    <3>4. h2.bobj[h.obj[o].body] = h.bobj[h.obj[o].body]
      BY <1>3, <3>2, <3>3
    <3>5. h.bobj[h.obj[o].body].body = h.msg[h.obj[o].message].body
      BY <2>2, <3>1 DEF Matched
    <3> QED
      BY <3>1, <3>4, <3>5
  <2> QED
    BY <1>5, <2>1, <2>2
<1>14. Used(h2) = Used(h)
  <2>1. \A x \in W : x \in Messages(h)
    BY <1>2
  <2>2. Objects(h2) \subseteq Objects(h) \cup W /\ Objects(h) \subseteq Objects(h2) \cup W
    BY <1>3 DEF Objects
  <2>3. BodyObjects(h2) \subseteq BodyObjects(h) \cup W /\ BodyObjects(h) \subseteq BodyObjects(h2) \cup W
    BY <1>2, <1>3 DEF BodyObjects
  <2>4. Bodies(h2) = Bodies(h)
    <3>1. ASSUME NEW b \in Ids PROVE b \in Bodies(h2) <=> b \in Bodies(h)
      <4>1. h2.body[b] = h.body[b] + HowMany(MessageBodies(h), B, b) /\ h.body[b] \in Nat
        BY <1>1, <1>3, HeapTypes
      <4>2. /\ HowMany(MessageBodies(h), B, b) \in Nat
            /\ HowMany(MessageBodies(h), B, b) = 0 <=> \A i \in B : MessageBodies(h)[i] # b
        <5>1. IsFiniteSet(B)
          BY <1>2, IdsFinite, FS_Subset, Zenon
        <5> QED
          BY <5>1, HowManyNat
      <4>3. CASE HowMany(MessageBodies(h), B, b) = 0
        BY <4>1, <4>3 DEF Bodies
      <4>4. CASE HowMany(MessageBodies(h), B, b) # 0
        <5>1. PICK i \in B : MessageBodies(h)[i] = b
          BY <4>2, <4>4
        <5>2. h.msg[i].body = b /\ i \in Messages(h)
          BY <1>2, <5>1 DEF MessageBodies
        <5>3. h.body[b] > 0
          BY <1>1, <5>2
        <5>4. h2.body[b] > 0
          BY <4>1, <4>2, <5>3
        <5> QED
          BY <5>3, <5>4 DEF Bodies
      <4> QED
        BY <4>3, <4>4
    <3> QED
      BY <3>1 DEF Bodies
  <2> QED
    BY <1>6, <2>1, <2>2, <2>3, <2>4 DEF Used
<1> QED
  BY <1>5, <1>8, <1>11, <1>12, <1>13, <1>14

LEMMA AddedWrappable ==
  ASSUME NEW h, NEW r \in [Ids -> Nat], NEW br \in [Ids -> Nat], Sound(h, r, br), Freed(h),
         NEW ms, NewIds(h, ms), ms # <<>>, NEW h2, MessagesAdded(h2, h, ms)
  PROVE  /\ \A B : B \subseteq ToSet(ms) => Wrappable(h2, ToSet(ms), B, ms[1])
         /\ Wrappable(h2, {ms[1]}, {}, ms[1])
<1> DEFINE W == ToSet(ms)
           n == Len(ms)
<1>1. /\ ms \in Seq(Ids) /\ Once(ms) /\ W \cap Used(h) = {} /\ W \subseteq Ids /\ W = {ms[i] : i \in 1 .. n}
      /\ \A i \in 1 .. n : ms[i] \in W /\ ms[i] \in Ids
  BY AddedAre DEF NewIds
<1>2. n \in Nat /\ n > 0 /\ 1 \in 1 .. n
  BY <1>1
<1> HIDE DEF W, n
<1>3. /\ h2.obj = h.obj /\ h2.bobj = h.bobj
      /\ \A x \in Ids \ W : h2.msg[x] = h.msg[x]
      /\ \A i \in 1 .. n : h2.msg[ms[i]].parent = After(ms, i)
  BY DEF MessagesAdded, W, n
<1>4. \A x \in W : /\ h.obj[x] = NoObject /\ h.bobj[x] = NoBodyObject
                   /\ \A y \in Ids : h.msg[y].parent # x
  <2> TAKE x \in W
  <2>1. x \in Ids \ Used(h)
    BY <1>1, Zenon
  <2> QED
    BY <2>1, UnusedIs
<1>5. W \subseteq Orphans(h2)
  BY MessagesAddedSound DEF W
<1>6. None \notin W
  BY <1>1, IdsFinite
<1>7. \A i \in 1 .. n : After(ms, i) # None => i + 1 \in 1 .. n /\ After(ms, i) = ms[i + 1]
  BY <1>2 DEF After, n
<1>8. \A x \in W : h2.msg[x].parent # ms[1]
  <2> SUFFICES ASSUME NEW x \in W, h2.msg[x].parent = ms[1] PROVE FALSE
    OBVIOUS
  <2>1. PICK i \in 1 .. n : x = ms[i]
    BY <1>1
  <2>2. i + 1 \in 1 .. n /\ ms[i + 1] = ms[1]
    BY <1>1, <1>2, <1>3, <1>6, <1>7, <2>1, Zenon
  <2>3. i + 1 = 1
    BY <1>1, <1>2, <2>2 DEF Once, n
  <2> QED
    BY <2>1, <2>3
<1>9. ASSUME NEW x \in W, NEW y \in W, h2.msg[x].parent = h2.msg[y].parent, h2.msg[x].parent \in W PROVE x = y
  <2>1. PICK i \in 1 .. n : x = ms[i]
    BY <1>1
  <2>2. PICK j \in 1 .. n : y = ms[j]
    BY <1>1
  <2>3. i + 1 \in 1 .. n /\ j + 1 \in 1 .. n /\ ms[i + 1] = ms[j + 1]
    BY <1>3, <1>6, <1>7, <1>9, <2>1, <2>2
  <2>4. i + 1 = j + 1
    BY <1>1, <2>3 DEF Once, n
  <2> QED
    BY <2>1, <2>2, <2>4
<1>10. \A m \in Ids \ W : h2.msg[m].parent \notin W
  BY <1>3, <1>4, Zenon
<1>11. ms[1] \in W
  BY <1>1, <1>2
<1>12. \A x \in W : h2.obj[x] = NoObject /\ h2.bobj[x] = NoBodyObject
  BY <1>3, <1>4
<1>13. \A B : B \subseteq W => Wrappable(h2, W, B, ms[1])
  BY <1>5, <1>8, <1>9, <1>10, <1>11, <1>12 DEF Wrappable
<1>14. Wrappable(h2, {ms[1]}, {}, ms[1])
  <2>1. \A m \in Ids : h2.msg[m].parent # ms[1]
    BY <1>8, <1>10, <1>11
  <2> DEFINE V == {ms[1]}
  <2>2. /\ V \subseteq Orphans(h2) /\ {} \subseteq V /\ ms[1] \in V
        /\ \A x \in V : h2.obj[x] = NoObject /\ h2.bobj[x] = NoBodyObject
        /\ \A x, y \in V : x = y
    BY <1>5, <1>11, <1>12
  <2>3. (\A m \in Ids \ V : h2.msg[m].parent \notin V) /\ (\A x \in V : h2.msg[x].parent # ms[1])
    BY <1>1, <1>11, <2>1
  <2> HIDE DEF V
  <2>4. Wrappable(h2, V, {}, ms[1])
    BY <2>2, <2>3 DEF Wrappable
  <2> QED
    BY <2>4 DEF V
<1> QED
  BY <1>13, <1>14 DEF W

\* The chain of what was added, and what is behind its first.
LEMMA AddedChain ==
  ASSUME NEW h2, NEW r \in [Ids -> Nat], NEW br \in [Ids -> Nat], Sound(h2, r, br),
         NEW h, NEW ms \in Seq(Ids), Once(ms), ms # <<>>, MessagesAdded(h2, h, ms)
  PROVE  /\ MessageChain(h2, ms[1]) = ms
         /\ Len(ms) > 1 => /\ h2.msg[ms[1]].parent = ms[2] /\ ms[2] \in Ids
                           /\ MessageChain(h2, ms[2]) = Tail(ms)
                           /\ ToSet(ms) = {ms[1]} \cup ToSet(Tail(ms)) /\ ms[1] \notin ToSet(Tail(ms))
         /\ Len(ms) = 1 => h2.msg[ms[1]].parent = None
<1> DEFINE n == Len(ms)
           link == MessageLinks(h2)
<1>1. n \in Nat /\ n > 0 /\ \A i \in 1 .. n : ms[i] \in Ids
  OBVIOUS
<1>2. link \in Links /\ Acyclic(link)
  BY SoundChains, Zenon
<1>3. \A i \in 1 .. n : link[ms[i]] = After(ms, i) /\ h2.msg[ms[i]].parent = After(ms, i)
  BY <1>1 DEF MessagesAdded, MessageLinks
<1> HIDE DEF link
<1>4. \A i \in 1 .. n - 1 : link[ms[i]] = ms[i + 1]
  <2> TAKE i \in 1 .. n - 1
  <2>1. i \in 1 .. n /\ i < Len(ms)
    BY <1>1
  <2> QED
    BY <1>3, <2>1 DEF After
<1>5. link[ms[n]] = None
  <2>1. n \in 1 .. n /\ ~(n < Len(ms))
    BY <1>1
  <2> QED
    BY <1>3, <2>1, Zenon DEF After
<1>6. IsChain(link, ms, ms[1])
  BY <1>1, <1>4, <1>5 DEF IsChain, IsPath
<1>7. MessageChain(h2, ms[1]) = ms
  <2>1. Chain(link, ms[1]) = ms
    BY <1>1, <1>2, <1>6, ChainIs
  <2> QED
    BY <2>1 DEF MessageChain, link, MessageLinks
<1>8. ASSUME n > 1
      PROVE  /\ h2.msg[ms[1]].parent = ms[2] /\ ms[2] \in Ids
             /\ MessageChain(h2, ms[2]) = Tail(ms)
             /\ ToSet(ms) = {ms[1]} \cup ToSet(Tail(ms)) /\ ms[1] \notin ToSet(Tail(ms))
  <2> DEFINE t == Tail(ms)
  <2>1. t \in Seq(Ids) /\ Len(t) = n - 1 /\ \A i \in 1 .. n - 1 : t[i] = ms[i + 1]
    BY <1>1, <1>8
  <2> HIDE DEF t
  <2>2. h2.msg[ms[1]].parent = ms[2] /\ ms[2] \in Ids
    BY <1>1, <1>3, <1>8 DEF After
  <2>3. t # <<>> /\ t[1] = ms[2]
    <3> HIDE DEF n
    <3>0. n - 1 \in Nat /\ n - 1 > 0
      BY <1>1, <1>8
    <3>1. Len(t) # 0 /\ 1 \in 1 .. n - 1
      BY <2>1, <3>0
    <3>2. t[1] = ms[1 + 1]
      BY <2>1, <3>1
    <3> QED
      BY <3>1, <3>2
  <2>4. \A i \in 1 .. Len(t) - 1 : link[t[i]] = t[i + 1]
    <3> TAKE i \in 1 .. Len(t) - 1
    <3>1. i + 1 \in 1 .. n - 1 /\ i \in 1 .. n - 1
      BY <1>1, <1>8, <2>1
    <3> QED
      BY <1>4, <2>1, <3>1, Zenon
  <2>5. link[t[Len(t)]] = None
    <3>1. t[n - 1] = ms[n]
      BY <1>1, <1>8, <2>1
    <3> QED
      BY <1>5, <2>1, <3>1
  <2>6. IsChain(link, t, ms[2])
    BY <2>1, <2>3, <2>4, <2>5 DEF IsChain, IsPath
  <2>7. MessageChain(h2, ms[2]) = t
    <3>1. Chain(link, ms[2]) = t
      BY <1>2, <2>2, <2>6, ChainIs
    <3> QED
      BY <3>1 DEF MessageChain, link, MessageLinks
  <2>8. ToSet(ms) = {ms[i] : i \in 1 .. n} /\ ToSet(t) = {t[i] : i \in 1 .. n - 1}
    <3>1. ToSet(t) = {t[i] : i \in 1 .. Len(t)}
      BY <2>1, AddedAre
    <3>2. ToSet(ms) = {ms[i] : i \in 1 .. n}
      BY AddedAre
    <3> QED
      BY <2>1, <3>1, <3>2
  <2>9. ToSet(ms) \subseteq {ms[1]} \cup ToSet(t)
    <3> SUFFICES ASSUME NEW i \in 1 .. n PROVE ms[i] \in {ms[1]} \cup ToSet(t)
      BY <2>8, Zenon
    <3>1. CASE i = 1
      BY <3>1
    <3>2. CASE i # 1
      <4>1. i - 1 \in 1 .. n - 1 /\ (i - 1) + 1 = i
        BY <1>1, <3>2
      <4>2. t[i - 1] = ms[i]
        BY <2>1, <4>1, Zenon
      <4> QED
        BY <2>8, <4>1, <4>2, Zenon
    <3> QED
      BY <3>1, <3>2
  <2>10. \A i \in 1 .. n - 1 : t[i] \in ToSet(ms) /\ t[i] # ms[1]
    <3> TAKE i \in 1 .. n - 1
    <3>1. i + 1 \in 1 .. n /\ i + 1 # 1 /\ 1 \in 1 .. n
      BY <1>1, <1>8
    <3> QED
      BY <2>1, <2>8, <3>1, Zenon DEF Once
  <2>11. ms[1] \in ToSet(ms)
    BY <1>1, <2>8
  <2>12. ToSet(ms) = {ms[1]} \cup ToSet(t) /\ ms[1] \notin ToSet(t)
    BY <2>8, <2>9, <2>10, <2>11, Zenon
  <2> QED
    BY <2>2, <2>7, <2>12 DEF t
<1>9. n = 1 => h2.msg[ms[1]].parent = None
  BY <1>1, <1>3 DEF After
<1> QED
  BY <1>7, <1>8, <1>9, Zenon

\* The object for a message on its own, or linked to others.
NewObject(x, parent, body) == [refs |-> 1, message |-> x, parent |-> parent, body |-> body, iterator |-> None]

LEMMA NewObjectIs ==
  ASSUME NEW x \in Ids, NEW p \in Ids \cup {None}
  PROVE  /\ [NoObject EXCEPT !.refs = 1, !.message = x, !.body = x, !.parent = p] = NewObject(x, p, x)
         /\ [NoObject EXCEPT !.refs = 1, !.message = x] = NewObject(x, None, None)
         /\ NewObject(x, p, x) \in Object /\ NewObject(x, None, None) \in Object
<1> DEFINE e1 == [NoObject EXCEPT !.refs = 1]
           e2 == [e1 EXCEPT !.message = x]
           e3 == [e2 EXCEPT !.body = x]
<1>1. [NoObject EXCEPT !.refs = 1, !.message = x, !.body = x, !.parent = p] = NewObject(x, p, x)
  <2>1. e1 = [refs |-> 1, message |-> None, parent |-> None, body |-> None, iterator |-> None]
    BY DEF NoObject
  <2>2. [NoObject EXCEPT !.refs = 1, !.message = x, !.body = x, !.parent = p] = [e3 EXCEPT !.parent = p]
    OBVIOUS
  <2> HIDE DEF e1
  <2>3. e2 = [refs |-> 1, message |-> x, parent |-> None, body |-> None, iterator |-> None]
    BY <2>1
  <2> HIDE DEF e2
  <2>4. e3 = [refs |-> 1, message |-> x, parent |-> None, body |-> x, iterator |-> None]
    BY <2>3
  <2> HIDE DEF e3
  <2> QED
    BY <2>2, <2>4 DEF NewObject
<1>2. [NoObject EXCEPT !.refs = 1, !.message = x] = NewObject(x, None, None)
  <2>1. e1 = [refs |-> 1, message |-> None, parent |-> None, body |-> None, iterator |-> None]
    BY DEF NoObject
  <2>2. [NoObject EXCEPT !.refs = 1, !.message = x] = [e1 EXCEPT !.message = x]
    OBVIOUS
  <2> HIDE DEF e1
  <2> QED
    BY <2>1, <2>2 DEF NewObject
<1>3. NewObject(x, p, x) \in Object /\ NewObject(x, None, None) \in Object
  BY DEF NewObject, Object
<1> QED
  BY <1>1, <1>2, <1>3

ObjectsPut(h2, h, W) ==
    /\ h2 \in Heap /\ h2.msg = h.msg
    /\ \A x \in Ids : h2.obj[x] = IF x \in W THEN NewObject(x, h.msg[x].parent, x) ELSE h.obj[x]
    /\ \A x \in Ids : h2.bobj[x] = IF x \in W THEN [refs |-> 1, body |-> h.msg[x].body] ELSE h.bobj[x]
    /\ \A b \in Ids : h2.body[b] = h.body[b] + HowMany(MessageBodies(h), W, b)

LEMMA WithObjectsHeap ==
  ASSUME NEW h \in Heap, NEW W, W \subseteq Ids, NEW m, ToSet(MessageChain(h, m)) = W
  PROVE  ObjectsPut(WithObjects(h, m), h, W)
<1> DEFINE obj == [o \in Ids |-> IF o \in W THEN [NoObject EXCEPT !.refs = 1, !.message = o, !.body = o,
                                                                   !.parent = h.msg[o].parent]
                                 ELSE h.obj[o]]
           bobj == [c \in Ids |-> IF c \in W THEN [refs |-> 1, body |-> h.msg[c].body] ELSE h.bobj[c]]
           many(b) == Cardinality({x \in W : h.msg[x].body = b})
           body == [b \in Ids |-> h.body[b] + many(b)]
           h2 == WithObjects(h, m)
<1>1. h2 = [h EXCEPT !.obj = obj, !.bobj = bobj, !.body = body]
  BY DEF WithObjects
<1>2. /\ h = [obj |-> h.obj, msg |-> h.msg, body |-> h.body, bobj |-> h.bobj]
      /\ h.msg \in [Ids -> [kind : Kinds \cup {"free"}, parent : Ids \cup {None}, body : Ids \cup {None}]]
      /\ h.obj \in [Ids -> Object]
      /\ h.body \in [Ids -> Nat] /\ h.bobj \in [Ids -> [refs : Nat, body : Ids \cup {None}]]
  BY HeapRecord
<1>3. \A x \in Ids : h.msg[x].parent \in Ids \cup {None} /\ h.msg[x].body \in Ids \cup {None}
  BY <1>2
<1>4. \A b \in Ids : many(b) = HowMany(MessageBodies(h), W, b) /\ many(b) \in Nat
  <2> TAKE b \in Ids
  <2>1. {x \in W : h.msg[x].body = b} = {x \in W : MessageBodies(h)[x] = b}
    BY DEF MessageBodies
  <2>2. many(b) = HowMany(MessageBodies(h), W, b)
    BY <2>1, Zenon DEF HowMany
  <2>3. HowMany(MessageBodies(h), W, b) \in Nat
    BY HeapCounts, Zenon
  <2> QED
    BY <2>2, <2>3
<1> HIDE DEF many
<1>5. \A x \in Ids : /\ obj[x] = IF x \in W THEN NewObject(x, h.msg[x].parent, x) ELSE h.obj[x]
                     /\ obj[x] \in Object
  <2> TAKE x \in Ids
  <2>1. CASE x \in W
    <3>1. obj[x] = [NoObject EXCEPT !.refs = 1, !.message = x, !.body = x, !.parent = h.msg[x].parent]
      BY <2>1
    <3> HIDE DEF obj
    <3>2. h.msg[x].parent \in Ids \cup {None}
      BY <1>3
    <3>3. obj[x] = NewObject(x, h.msg[x].parent, x) /\ NewObject(x, h.msg[x].parent, x) \in Object
      BY <3>1, <3>2, NewObjectIs, Zenon
    <3> QED
      BY <2>1, <3>3
  <2>2. CASE x \notin W
    BY <1>2, <2>2
  <2> QED
    BY <2>1, <2>2
<1>6. \A x \in Ids : bobj[x] \in [refs : Nat, body : Ids \cup {None}]
  BY <1>2, <1>3
<1>7. \A b \in Ids : body[b] = h.body[b] + HowMany(MessageBodies(h), W, b) /\ body[b] \in Nat
  BY <1>2, <1>4
<1>8. obj \in [Ids -> Object] /\ bobj \in [Ids -> [refs : Nat, body : Ids \cup {None}]] /\ body \in [Ids -> Nat]
  BY <1>5, <1>6, <1>7, Zenon
<1>9. \A x \in Ids : bobj[x] = IF x \in W THEN [refs |-> 1, body |-> h.msg[x].body] ELSE h.bobj[x]
  OBVIOUS
<1> HIDE DEF obj, bobj, body, h2
<1>10. h2 = [obj |-> obj, msg |-> h.msg, body |-> body, bobj |-> bobj]
  <2> DEFINE h3 == [h EXCEPT !.obj = obj]
             h4 == [h3 EXCEPT !.bobj = bobj]
  <2>1. h3 = [obj |-> obj, msg |-> h.msg, body |-> h.body, bobj |-> h.bobj]
    BY <1>2
  <2>2. h2 = [h4 EXCEPT !.body = body]
    BY <1>1
  <2> HIDE DEF h3
  <2>3. h4 = [obj |-> obj, msg |-> h.msg, body |-> h.body, bobj |-> bobj]
    BY <2>1
  <2> HIDE DEF h4
  <2> QED
    BY <2>2, <2>3
<1>11. h2 \in Heap
  BY <1>2, <1>8, <1>10, HeapOf, Zenon
<1> QED
  BY <1>5, <1>7, <1>9, <1>10, <1>11 DEF h2, ObjectsPut

LEMMA WithObjectsWraps ==
  ASSUME NEW h, NEW r \in [Ids -> Nat], NEW br \in [Ids -> Nat], Sound(h, r, br), NEW m \in Ids,
         NEW W, ToSet(MessageChain(h, m)) = W
  PROVE  Wraps(WithObjects(h, m), h, W, W)
<1> DEFINE h2 == WithObjects(h, m)
<1>1. /\ W \subseteq Ids /\ h \in Heap
      /\ \A y \in W : h.msg[y].parent # None => h.msg[y].parent \in W
  BY MessageChainIs, Zenon DEF Sound, Built
<1>2. /\ h2 \in Heap /\ h2.msg = h.msg
      /\ \A x \in Ids : h2.obj[x] = IF x \in W THEN NewObject(x, h.msg[x].parent, x) ELSE h.obj[x]
      /\ \A x \in Ids : h2.bobj[x] = IF x \in W THEN [refs |-> 1, body |-> h.msg[x].body] ELSE h.bobj[x]
      /\ \A b \in Ids : h2.body[b] = h.body[b] + HowMany(MessageBodies(h), W, b)
  <2>1. ObjectsPut(h2, h, W)
    BY <1>1, WithObjectsHeap
  <2> QED
    BY <2>1 DEF ObjectsPut
<1> HIDE DEF h2
<1>3. \A x \in W : h2.obj[x] = NewObject(x, IF h.msg[x].parent \in W THEN h.msg[x].parent ELSE None,
                                         IF x \in W THEN x ELSE None)
  <2> TAKE x \in W
  <2>1. h.msg[x].parent = IF h.msg[x].parent \in W THEN h.msg[x].parent ELSE None
    BY <1>1
  <2>2. h2.obj[x] = NewObject(x, h.msg[x].parent, x)
    BY <1>1, <1>2
  <2> QED
    BY <2>1, <2>2
<1>4. \A x \in Ids \ W : h2.obj[x] = h.obj[x] /\ h2.bobj[x] = h.bobj[x]
  BY <1>2, Zenon
<1>5. \A x \in W : h2.bobj[x] = [refs |-> 1, body |-> h.msg[x].body]
  BY <1>1, <1>2
<1> QED
  BY <1>2, <1>3, <1>4, <1>5 DEF Wraps, NewObject, h2

LEMMA WithObjectWraps ==
  ASSUME NEW h, NEW r \in [Ids -> Nat], NEW br \in [Ids -> Nat], Sound(h, r, br), NEW m \in Ids
  PROVE  /\ Wraps(WithObject(h, m), h, {m}, {})
         /\ WithObject(h, m).body = h.body /\ WithObject(h, m).bobj = h.bobj
<1> DEFINE h2 == WithObject(h, m)
           new == [NoObject EXCEPT !.refs = 1, !.message = m]
<1>1. /\ h \in Heap /\ h = [obj |-> h.obj, msg |-> h.msg, body |-> h.body, bobj |-> h.bobj]
      /\ h.msg \in [Ids -> [kind : Kinds \cup {"free"}, parent : Ids \cup {None}, body : Ids \cup {None}]]
      /\ h.obj \in [Ids -> Object]
      /\ h.body \in [Ids -> Nat] /\ h.bobj \in [Ids -> [refs : Nat, body : Ids \cup {None}]]
  BY HeapRecord DEF Sound, Built
<1>2. new = NewObject(m, None, None) /\ NewObject(m, None, None) \in Object
  BY NewObjectIs, Zenon
<1> HIDE DEF new
<1> DEFINE obj == [h.obj EXCEPT ![m] = new]
<1>3. h2 = [obj |-> obj, msg |-> h.msg, body |-> h.body, bobj |-> h.bobj]
  BY <1>1 DEF WithObject, new
<1>4. obj \in [Ids -> Object] /\ obj[m] = new /\ \A x \in Ids \ {m} : obj[x] = h.obj[x]
  BY <1>1, <1>2
<1> HIDE DEF obj
<1>5. h2 \in Heap
  BY <1>1, <1>3, <1>4, HeapOf
<1> HIDE DEF h2
<1>6. /\ h2.msg = h.msg /\ h2.body = h.body /\ h2.bobj = h.bobj
      /\ h2.obj[m] = new /\ \A x \in Ids \ {m} : h2.obj[x] = h.obj[x]
  BY <1>3, <1>4
<1>7. h.msg[m].parent # m
  <2>1. PICK rank \in [Ids -> Nat] : Descends(MessageLinks(h), rank)
    BY SoundChains DEF Acyclic
  <2>2. MessageLinks(h)[m] = h.msg[m].parent /\ m # None
    BY IdsFinite DEF MessageLinks
  <2> QED
    BY <2>1, <2>2 DEF Descends
<1>8. \A b \in Ids : h2.body[b] = h.body[b] + HowMany(MessageBodies(h), {}, b)
  <2> TAKE b \in Ids
  <2>1. HowMany(MessageBodies(h), {}, b) = 0
    BY FS_EmptySet, HowManyNat
  <2>2. h.body[b] \in Nat
    BY <1>1
  <2> QED
    BY <1>6, <2>1, <2>2
<1>9. \A x \in {m} : h2.obj[x] = NewObject(x, IF h.msg[x].parent \in {m} THEN h.msg[x].parent ELSE None,
                                           IF x \in {} THEN x ELSE None)
  BY <1>2, <1>6, <1>7
<1> QED
  BY <1>5, <1>6, <1>8, <1>9 DEF Wraps, NewObject, h2

LEMMA ParentPut ==
  ASSUME NEW h \in Heap, NEW o \in Ids, NEW n \in Ids \cup {None}
  PROVE  LET h2 == [h EXCEPT !.obj[o].parent = n]
         IN /\ OnlyObject(h2, h, o)
            /\ h2.obj[o] = [refs |-> h.obj[o].refs, message |-> h.obj[o].message, parent |-> n,
                            body |-> h.obj[o].body, iterator |-> h.obj[o].iterator]
<1> DEFINE v == [h.obj[o] EXCEPT !.parent = n]
           new == [h.obj EXCEPT ![o] = v]
           h2 == [h EXCEPT !.obj[o].parent = n]
<1>1. h.obj \in [Ids -> Object] /\ h.obj[o] \in Object
  BY HeapRecord
<1>2. v \in Object /\ v = [refs |-> h.obj[o].refs, message |-> h.obj[o].message, parent |-> n,
                           body |-> h.obj[o].body, iterator |-> h.obj[o].iterator]
  BY <1>1 DEF Object
<1>3. h2 = [obj |-> new, msg |-> h.msg, body |-> h.body, bobj |-> h.bobj]
  <2>1. h2 = [h EXCEPT !.obj = new]
    OBVIOUS
  <2> HIDE DEF new, h2
  <2> QED
    BY <2>1, HeapRecord
<1> HIDE DEF v
<1>4. new \in [Ids -> Object] /\ new[o] = v /\ \A x \in Ids \ {o} : new[x] = h.obj[x]
  BY <1>1, <1>2
<1> HIDE DEF new, h2
<1>5. h2 \in Heap
  BY <1>3, <1>4, HeapRecord, HeapOf
<1>6. OnlyObject(h2, h, o) /\ h2.obj[o] = v
  BY <1>3, <1>4, <1>5 DEF OnlyObject
<1> QED
  BY <1>2, <1>6 DEF h2

\* The heap of new http\Message, from the one with the messages.
Constructed(h, o) ==
    LET h1 == WithObject(h, o)
        rest == h1.msg[o].parent
    IN IF rest = None THEN h1 ELSE [WithObjects(h1, rest) EXCEPT !.obj[o].parent = rest]

LEMMA ConstructedWraps ==
  ASSUME NEW h, NEW r \in [Ids -> Nat], NEW br \in [Ids -> Nat], Sound(h, r, br), NEW o \in Ids,
         NEW W, NEW rest \in Ids, h.msg[o].parent = rest, ToSet(MessageChain(h, rest)) = W, o \notin W
  PROVE  Wraps(Constructed(h, o), h, W \cup {o}, W)
<1> DEFINE h1 == WithObject(h, o)
           h2 == WithObjects(h1, rest)
           h3 == [h2 EXCEPT !.obj[o].parent = rest]
           V == W \cup {o}
<1>1. /\ W \subseteq Ids /\ rest \in W /\ None \notin Ids
      /\ \A y \in W : h.msg[y].parent # None => h.msg[y].parent \in W
  BY MessageChainIs, IdsFinite, Zenon
<1>2. Wraps(h1, h, {o}, {}) /\ Wrapped(h1, h, {o}, {}) /\ h1.body = h.body /\ h1.bobj = h.bobj
  BY WithObjectWraps, WrapsFields
<1> HIDE DEF h1
<1>3. h1 \in Heap /\ h1.msg = h.msg /\ \A x \in Ids \ {o} : h1.obj[x] = h.obj[x]
  BY <1>2 DEF Wraps
<1>4. h1.obj[o].refs = 1 /\ h1.obj[o].message = o /\ h1.obj[o].body = None /\ h1.obj[o].iterator = None
  BY <1>2 DEF Wrapped
<1>5. MessageChain(h1, rest) = MessageChain(h, rest) /\ MessageBodies(h1) = MessageBodies(h)
  BY <1>3 DEF MessageChain, MessageBodies
<1>6. ObjectsPut(h2, h1, W)
  BY <1>1, <1>3, <1>5, WithObjectsHeap
<1> HIDE DEF h2
<1>7. /\ h2 \in Heap /\ h2.msg = h.msg
      /\ \A x \in Ids : h2.obj[x] = IF x \in W THEN NewObject(x, h.msg[x].parent, x) ELSE h1.obj[x]
      /\ \A x \in Ids : h2.bobj[x] = IF x \in W THEN [refs |-> 1, body |-> h.msg[x].body] ELSE h.bobj[x]
      /\ \A b \in Ids : h2.body[b] = h.body[b] + HowMany(MessageBodies(h), W, b)
  BY <1>2, <1>3, <1>5, <1>6 DEF ObjectsPut
<1>8. /\ OnlyObject(h3, h2, o)
      /\ h3.obj[o] = [refs |-> h2.obj[o].refs, message |-> h2.obj[o].message, parent |-> rest,
                      body |-> h2.obj[o].body, iterator |-> h2.obj[o].iterator]
  BY <1>7, ParentPut
<1> HIDE DEF h3
<1>9. /\ h3 \in Heap /\ h3.msg = h.msg /\ h3.body = h2.body /\ h3.bobj = h2.bobj
      /\ \A x \in Ids \ {o} : h3.obj[x] = h2.obj[x]
  BY <1>7, <1>8 DEF OnlyObject
<1>10. h3.obj[o] = NewObject(o, rest, None)
  <2>1. h2.obj[o] = h1.obj[o]
    BY <1>7
  <2> QED
    BY <1>4, <1>8, <2>1 DEF NewObject
<1>11. \A x \in V : h3.obj[x] = NewObject(x, IF h.msg[x].parent \in V THEN h.msg[x].parent ELSE None,
                                          IF x \in W THEN x ELSE None)
  <2> TAKE x \in V
  <2>1. CASE x = o
    BY <1>1, <1>10, <2>1
  <2>2. CASE x \in W
    <3>1. x \in Ids \ {o}
      BY <1>1, <2>2
    <3>2. h3.obj[x] = NewObject(x, h.msg[x].parent, x)
      BY <1>7, <1>9, <2>2, <3>1
    <3>3. h.msg[x].parent = IF h.msg[x].parent \in V THEN h.msg[x].parent ELSE None
      BY <1>1, <2>2
    <3> QED
      BY <2>2, <3>2, <3>3
  <2> QED
    BY <2>1, <2>2
<1>12. \A x \in Ids \ V : h3.obj[x] = h.obj[x]
  BY <1>3, <1>7, <1>9
<1>13. /\ \A x \in Ids \ W : h3.bobj[x] = h.bobj[x]
       /\ \A x \in W : h3.bobj[x] = [refs |-> 1, body |-> h.msg[x].body]
       /\ \A b \in Ids : h3.body[b] = h.body[b] + HowMany(MessageBodies(h), W, b)
  BY <1>1, <1>7, <1>9, ZenonT(30)
<1>14. h1.msg[o].parent = rest /\ rest # None
  BY <1>1, <1>3
<1> HIDE DEF V
<1>15. Wraps(h3, h, V, W)
  BY <1>9, <1>11, <1>12, <1>13 DEF Wraps, NewObject
<1>16. Constructed(h, o) = h3
  BY <1>14 DEF Constructed, h1, h2, h3
<1> QED
  BY <1>15, <1>16 DEF V

\* ms are the messages of new objects, of which the first is referred to.
Made(h2, h, r, br, ms) ==
    /\ Stays(h2, h, Plus(r, ms[1]), br)
    /\ Live(h2) = Live(h) \cup ToSet(ms) /\ Used(h2) = Used(h) \cup ToSet(ms)
    /\ \A x \in Ids \ ToSet(ms) : h2.msg[x] = h.msg[x] /\ h2.obj[x] = h.obj[x]
    /\ h2.obj[ms[1]].message = ms[1] /\ MessageChain(h2, ms[1]) = ms

LEMMA WrappedMade ==
  ASSUME NEW h, NEW r \in [Ids -> Nat], NEW br \in [Ids -> Nat], Sound(h, r, br), Freed(h),
         NEW ms, NewIds(h, ms), ms # <<>>, NEW h1, MessagesAdded(h1, h, ms),
         NEW B, B \subseteq ToSet(ms), NEW h2, Wraps(h2, h1, ToSet(ms), B)
  PROVE  Made(h2, h, r, br, ms)
<1> DEFINE W == ToSet(ms)
<1>1. ms \in Seq(Ids) /\ Once(ms) /\ W \cap Used(h) = {} /\ ms[1] \in W /\ W \subseteq Ids
  <2>1. ms \in Seq(Ids) /\ Once(ms) /\ W \cap Used(h) = {}
    BY DEF NewIds
  <2>2. 1 \in 1 .. Len(ms)
    BY <2>1
  <2> QED
    BY <2>1, <2>2, AddedAre
<1>2. /\ Sound(h1, r, br) /\ Freed(h1) /\ (Matched(h) => Matched(h1))
      /\ Live(h1) = Live(h)
      /\ Orphans(h1) = Orphans(h) \cup W
      /\ Used(h1) = Used(h) \cup W
  BY MessagesAddedSound
<1>3. Wrappable(h1, W, B, ms[1])
  BY AddedWrappable, Zenon
<1>4. /\ Sound(h2, Plus(r, ms[1]), br) /\ (Freed(h1) => Freed(h2)) /\ (Matched(h1) => Matched(h2))
      /\ Live(h2) = Live(h1) \cup W
      /\ Orphans(h2) = Orphans(h1) \ W
      /\ Used(h2) = Used(h1)
  BY <1>2, <1>3, WrapsSound
<1>5. Orphans(h2) = Orphans(h)
  <2>1. Orphans(h) \cap W = {}
    BY <1>1 DEF Used, Orphans
  <2> QED
    BY <1>2, <1>4, <2>1
<1>6. /\ h2.msg = h1.msg
      /\ \A x \in Ids \ W : h2.obj[x] = h1.obj[x] /\ h1.obj = h.obj /\ h1.msg[x] = h.msg[x]
  BY DEF Wraps, MessagesAdded
<1>7. h2.obj[ms[1]].message = ms[1]
  BY <1>1, WrapsFields DEF Wrapped
<1>8. MessageChain(h2, ms[1]) = ms
  <2>1. MessageChain(h1, ms[1]) = ms
    BY <1>1, <1>2, AddedChain, Zenon
  <2> QED
    BY <1>6, <2>1 DEF MessageChain
<1> HIDE DEF W
<1> QED
  BY <1>2, <1>4, <1>5, <1>6, <1>7, <1>8 DEF Made, Stays, W

LEMMA FreshNew ==
  ASSUME NEW h, NEW kinds \in Seq(Kinds), kinds # <<>>, Room(h, Len(kinds)), h \in Heap,
         NEW ms, ms = FreshIds(h, Len(kinds))
  PROVE  /\ NewIds(h, ms) /\ ms # <<>> /\ ms[1] = Fresh(h, 1) /\ Len(ms) = Len(kinds) /\ ms[1] \in Ids /\ ms \in Seq(Ids)
         /\ MessagesAdded(WithMessages(h, kinds), h, ms)
<1>1. Len(kinds) \in Nat /\ Len(kinds) > 0 /\ 1 \in 1 .. Len(kinds)
  OBVIOUS
<1>2. /\ ms \in Seq(Ids) /\ Len(ms) = Len(kinds) /\ Once(ms) /\ ToSet(ms) \cap Used(h) = {}
      /\ ms[1] = Fresh(h, 1) /\ ms[1] \in Ids
  BY <1>1, FreshIs
<1>3. ms # <<>>
  BY <1>1, <1>2
<1> QED
  BY <1>2, <1>3, WithMessagesIs DEF NewIds

LEMMA OneOnly ==
  ASSUME NEW ms \in Seq(Ids), Len(ms) = 1
  PROVE  ToSet(ms) = {ms[1]}
<1>1. ToSet(ms) = {ms[i] : i \in 1 .. 1}
  BY AddedAre, Zenon
<1>2. \A i \in 1 .. 1 : i = 1
  OBVIOUS
<1> QED
  BY <1>1, <1>2

\* What parsing and copying make.
LEMMA ObjectsMade ==
  ASSUME NEW h, NEW r \in [Ids -> Nat], NEW br \in [Ids -> Nat], Sound(h, r, br), Freed(h),
         NEW kinds \in Seq(Kinds), kinds # <<>>, Room(h, Len(kinds))
  PROVE  LET ms == FreshIds(h, Len(kinds))
             h1 == WithMessages(h, kinds)
         IN /\ Made(WithObjects(h1, Fresh(h, 1)), h, r, br, ms)
            /\ Made(Constructed(h1, Fresh(h, 1)), h, r, br, ms)
            /\ ms[1] = Fresh(h, 1)
<1> DEFINE ms == FreshIds(h, Len(kinds))
           h1 == WithMessages(h, kinds)
           W == ToSet(ms)
<1>1. h \in Heap
  BY DEF Sound, Built
<1>2. /\ NewIds(h, ms) /\ ms # <<>> /\ ms[1] = Fresh(h, 1) /\ ms[1] \in Ids /\ ms \in Seq(Ids)
      /\ MessagesAdded(h1, h, ms)
  BY <1>1, FreshNew
<1> HIDE DEF ms, h1
<1>3. Sound(h1, r, br) /\ Once(ms)
  BY <1>2, MessagesAddedSound, Zenon DEF NewIds
<1>4. /\ MessageChain(h1, ms[1]) = ms
      /\ Len(ms) > 1 => /\ h1.msg[ms[1]].parent = ms[2] /\ ms[2] \in Ids
                        /\ MessageChain(h1, ms[2]) = Tail(ms)
                        /\ ToSet(ms) = {ms[1]} \cup ToSet(Tail(ms)) /\ ms[1] \notin ToSet(Tail(ms))
      /\ Len(ms) = 1 => h1.msg[ms[1]].parent = None
  <2>1. Sound(h1, r, br) /\ ms \in Seq(Ids) /\ Once(ms) /\ ms # <<>> /\ MessagesAdded(h1, h, ms)
    BY <1>2, <1>3
  <2> QED
    BY <2>1, AddedChain, ZenonT(30)
<1>5. Made(WithObjects(h1, ms[1]), h, r, br, ms)
  <2>1. Wraps(WithObjects(h1, ms[1]), h1, W, W)
    BY <1>2, <1>3, <1>4, WithObjectsWraps, Zenon
  <2> QED
    BY <1>2, <2>1, WrappedMade, Zenon
<1>6. Made(Constructed(h1, ms[1]), h, r, br, ms)
  <2>1. Len(ms) \in Nat /\ Len(ms) > 0
    BY <1>2
  <2>2. CASE Len(ms) = 1
    <3>1. WithObject(h1, ms[1]).msg = h1.msg /\ Wraps(WithObject(h1, ms[1]), h1, {ms[1]}, {})
      <4>1. Wraps(WithObject(h1, ms[1]), h1, {ms[1]}, {})
        BY <1>2, <1>3, WithObjectWraps, Zenon
      <4> QED
        BY <4>1 DEF Wraps
    <3>2. Constructed(h1, ms[1]) = WithObject(h1, ms[1])
      BY <1>4, <2>2, <3>1 DEF Constructed
    <3>3. W = {ms[1]}
      BY <1>2, <2>2, OneOnly
    <3>4. Wraps(Constructed(h1, ms[1]), h1, W, {})
      BY <3>1, <3>2, <3>3
    <3> QED
      BY <1>2, <3>4, WrappedMade, Zenon
  <2>3. CASE Len(ms) > 1
    <3> DEFINE V == ToSet(Tail(ms))
    <3>1. Wraps(Constructed(h1, ms[1]), h1, V \cup {ms[1]}, V)
      BY <1>2, <1>3, <1>4, <2>3, ConstructedWraps, Zenon
    <3>2. V \cup {ms[1]} = W /\ V \subseteq W
      BY <1>4, <2>3
    <3>3. Wraps(Constructed(h1, ms[1]), h1, W, V)
      BY <3>1, <3>2, Zenon
    <3> QED
      BY <1>2, <3>2, <3>3, WrappedMade, Zenon
  <2>4. Len(ms) = 1 \/ Len(ms) > 1
    <3> DEFINE n == Len(ms)
    <3>1. n \in Nat /\ n > 0
      BY <2>1
    <3> HIDE DEF n
    <3>2. n = 1 \/ n > 1
      BY <3>1
    <3> QED
      BY <3>2 DEF n
  <2> QED
    BY <2>2, <2>3, <2>4
<1> QED
  BY <1>2, <1>5, <1>6 DEF ms, h1

\* What unserialize makes.
LEMMA UnserializedSound ==
  ASSUME NEW h, NEW r \in [Ids -> Nat], NEW br \in [Ids -> Nat], Sound(h, r, br), Freed(h),
         NEW kinds \in Seq(Kinds), kinds # <<>>, Room(h, Len(kinds))
  PROVE  LET h2 == WithObject(WithMessages(h, kinds), Fresh(h, 1))
         IN /\ Sound(h2, Plus(r, Fresh(h, 1)), br) /\ Freed(h2)
            /\ Matched(h) => Matched(h2)
            /\ Len(kinds) = 1 => Orphans(h2) = Orphans(h)
            /\ Fresh(h, 1) \in Ids
<1> DEFINE ms == FreshIds(h, Len(kinds))
           h1 == WithMessages(h, kinds)
           h2 == WithObject(h1, ms[1])
<1>1. h \in Heap
  BY DEF Sound, Built
<1>2. /\ NewIds(h, ms) /\ ms # <<>> /\ ms[1] = Fresh(h, 1) /\ ms[1] \in Ids /\ ms \in Seq(Ids) /\ Len(ms) = Len(kinds)
      /\ MessagesAdded(h1, h, ms)
  BY <1>1, FreshNew
<1> HIDE DEF ms, h1
<1>3. /\ Sound(h1, r, br) /\ Freed(h1) /\ (Matched(h) => Matched(h1))
      /\ Orphans(h1) = Orphans(h) \cup ToSet(ms)
  <2>1. NewIds(h, ms) /\ MessagesAdded(h1, h, ms)
    BY <1>2
  <2> QED
    BY <2>1, MessagesAddedSound
<1>4. Wrappable(h1, {ms[1]}, {}, ms[1])
  BY <1>2, AddedWrappable, Zenon
<1>5. Wraps(h2, h1, {ms[1]}, {})
  BY <1>2, <1>3, WithObjectWraps, Zenon
<1> HIDE DEF h2
<1>6. /\ Sound(h2, Plus(r, ms[1]), br) /\ (Freed(h1) => Freed(h2)) /\ (Matched(h1) => Matched(h2))
      /\ Orphans(h2) = Orphans(h1) \ {ms[1]}
  BY <1>3, <1>4, <1>5, WrapsSound
<1>7. Len(kinds) = 1 => Orphans(h2) = Orphans(h)
  <2> SUFFICES ASSUME Len(kinds) = 1 PROVE Orphans(h2) = Orphans(h)
    OBVIOUS
  <2>1. ToSet(ms) = {ms[1]}
    BY <1>2, OneOnly
  <2>2. Orphans(h) \cap ToSet(ms) = {}
    BY <1>2 DEF NewIds, Used, Orphans
  <2> QED
    BY <1>3, <1>6, <2>1, <2>2
<1> QED
  BY <1>2, <1>3, <1>6, <1>7 DEF ms, h1, h2

-----------------------------------------------------------------------------
(* Two chains in one *)

Shorter(ds, ss) == IF Len(ds) < Len(ss) THEN Len(ds) ELSE Len(ss)

\* What the loop of php_http_message_zip did to the links.
ZippedLinks(h2, h, ds, ss) ==
    /\ h2 \in Heap /\ h2.obj = h.obj /\ h2.body = h.body /\ h2.bobj = h.bobj
    /\ \A x \in Ids : h2.msg[x].kind = h.msg[x].kind /\ h2.msg[x].body = h.msg[x].body
    /\ \A x \in Ids \ (ToSet(ds) \cup ToSet(ss)) : h2.msg[x] = h.msg[x]
    /\ \A i \in 1 .. Len(ds) : h2.msg[ds[i]].parent = IF i <= Len(ss) THEN ss[i] ELSE h.msg[ds[i]].parent
    /\ \A i \in 1 .. Len(ss) : h2.msg[ss[i]].parent = IF i < Len(ds) THEN ds[i + 1] ELSE h.msg[ss[i]].parent

LEMMA ZippedIs ==
  ASSUME NEW h \in Heap, NEW one, NEW two, NEW ds \in Seq(Ids), NEW ss \in Seq(Ids), Once(ds), Once(ss),
         ToSet(ds) \cap ToSet(ss) = {}, MessageChain(h, one) = ds, MessageChain(h, two) = ss
  PROVE  ZippedLinks(Zipped(h, one, two), h, ds, ss)
<1> DEFINE both == Shorter(ds, ss)
           Msg == [kind : Kinds \cup {"free"}, parent : Ids \cup {None}, body : Ids \cup {None}]
           inD(x) == \E i \in 1 .. both : ds[i] = x
           inS(x) == \E i \in 1 .. both : ss[i] = x /\ i < Len(ds)
           with(m, p) == [m EXCEPT !.parent = p]
           new(x) == CASE inD(x) -> with(h.msg[x], ss[PositionIn(ds, x)])
                       [] inS(x) -> with(h.msg[x], ds[PositionIn(ss, x) + 1])
                       [] OTHER -> h.msg[x]
           msg == [x \in Ids |-> new(x)]
           h2 == Zipped(h, one, two)
<1>1. h2 = [h EXCEPT !.msg = msg]
  BY DEF Zipped, Shorter
<1>2. /\ Len(ds) \in Nat /\ Len(ss) \in Nat /\ both \in Nat /\ both <= Len(ds) /\ both <= Len(ss)
      /\ both = Len(ds) \/ both = Len(ss)
  BY DEF Shorter
<1>3. /\ h.msg \in [Ids -> Msg] /\ h = [obj |-> h.obj, msg |-> h.msg, body |-> h.body, bobj |-> h.bobj]
      /\ h.obj \in [Ids -> Object] /\ h.body \in [Ids -> Nat] /\ h.bobj \in [Ids -> [refs : Nat, body : Ids \cup {None}]]
  BY HeapRecord
<1> HIDE DEF both
<1>4. \A m \in Msg, p \in Ids \cup {None} :
         with(m, p) \in Msg /\ with(m, p).kind = m.kind /\ with(m, p).body = m.body /\ with(m, p).parent = p
  OBVIOUS
<1>5. /\ ToSet(ds) = {ds[i] : i \in 1 .. Len(ds)} /\ ToSet(ss) = {ss[i] : i \in 1 .. Len(ss)}
      /\ \A i \in 1 .. Len(ds) : ds[i] \in Ids /\ ds[i] \in ToSet(ds)
      /\ \A i \in 1 .. Len(ss) : ss[i] \in Ids /\ ss[i] \in ToSet(ss)
  BY AddedAre
<1>6. /\ \A i \in 1 .. Len(ds) : PositionIn(ds, ds[i]) = i
      /\ \A i \in 1 .. Len(ss) : PositionIn(ss, ss[i]) = i
  BY PositionIs
<1>7. /\ \A i, j \in 1 .. Len(ds) : ds[i] = ds[j] => i = j
      /\ \A i, j \in 1 .. Len(ss) : ss[i] = ss[j] => i = j
      /\ \A i \in 1 .. Len(ds), j \in 1 .. Len(ss) : ds[i] # ss[j]
  BY <1>5, Zenon DEF Once
<1> HIDE DEF Msg, with
<1>8. ASSUME NEW i \in 1 .. both
      PROVE  i \in 1 .. Len(ds) /\ new(ds[i]) = with(h.msg[ds[i]], ss[i]) /\ ss[i] \in Ids
  <2>1. i \in 1 .. Len(ds) /\ i \in 1 .. Len(ss)
    BY <1>2
  <2>2. inD(ds[i]) /\ ~inS(ds[i])
    BY <1>2, <1>7, <2>1
  <2>3. new(ds[i]) = with(h.msg[ds[i]], ss[PositionIn(ds, ds[i])])
    <3> HIDE DEF inD, inS
    <3> QED
      BY <2>2
  <2> HIDE DEF new
  <2> QED
    BY <1>5, <1>6, <2>1, <2>3
<1>9. ASSUME NEW i \in 1 .. both, i < Len(ds)
      PROVE  i \in 1 .. Len(ss) /\ new(ss[i]) = with(h.msg[ss[i]], ds[i + 1]) /\ ds[i + 1] \in Ids
  <2>1. i \in 1 .. Len(ss) /\ i + 1 \in 1 .. Len(ds)
    BY <1>2, <1>9
  <2>2. inS(ss[i])
    BY <1>9
  <2>3. ~inD(ss[i])
    BY <1>2, <1>7, <2>1
  <2>4. new(ss[i]) = with(h.msg[ss[i]], ds[PositionIn(ss, ss[i]) + 1])
    <3> HIDE DEF inD, inS
    <3> QED
      BY <2>2, <2>3
  <2> HIDE DEF new
  <2> QED
    BY <1>5, <1>6, <2>1, <2>4
<1>10. ASSUME NEW x, ~inD(x), ~inS(x) PROVE new(x) = h.msg[x]
  <2> HIDE DEF inD, inS
  <2> QED
    BY <1>10
<1>11. ASSUME NEW x \in Ids
       PROVE  new(x) \in Msg /\ new(x).kind = h.msg[x].kind /\ new(x).body = h.msg[x].body
  <2>1. h.msg[x] \in Msg
    BY <1>3
  <2>2. CASE inD(x)
    <3>1. PICK i \in 1 .. both : ds[i] = x
      BY <2>2
    <3>2. new(x) = with(h.msg[x], ss[i]) /\ ss[i] \in Ids
      BY <1>8, <3>1
    <3>3. with(h.msg[x], ss[i]) \in Msg /\ with(h.msg[x], ss[i]).kind = h.msg[x].kind
          /\ with(h.msg[x], ss[i]).body = h.msg[x].body /\ with(h.msg[x], ss[i]).parent = ss[i]
      BY <1>4, <2>1, <3>2, Zenon
    <3> HIDE DEF new
    <3> QED
      BY <3>2, <3>3
  <2>3. CASE inS(x)
    <3>1. PICK i \in 1 .. both : ss[i] = x /\ i < Len(ds)
      BY <2>3
    <3>2. new(x) = with(h.msg[x], ds[i + 1]) /\ ds[i + 1] \in Ids
      BY <1>9, <3>1
    <3>3. with(h.msg[x], ds[i + 1]) \in Msg /\ with(h.msg[x], ds[i + 1]).kind = h.msg[x].kind
          /\ with(h.msg[x], ds[i + 1]).body = h.msg[x].body /\ with(h.msg[x], ds[i + 1]).parent = ds[i + 1]
      BY <1>4, <2>1, <3>2, Zenon
    <3> HIDE DEF new
    <3> QED
      BY <3>2, <3>3
  <2>4. CASE ~inD(x) /\ ~inS(x)
    <3>1. new(x) = h.msg[x]
      BY <1>10, <2>4
    <3> HIDE DEF new
    <3> QED
      BY <2>1, <3>1
  <2> HIDE DEF inD, inS, new
  <2> QED
    BY <2>2, <2>3, <2>4
<1>12. ASSUME NEW i \in 1 .. Len(ds)
       PROVE  new(ds[i]).parent = IF i <= Len(ss) THEN ss[i] ELSE h.msg[ds[i]].parent
  <2>1. ds[i] \in Ids /\ h.msg[ds[i]] \in Msg
    BY <1>3, <1>5
  <2>2. CASE i <= Len(ss)
    <3>1. i \in 1 .. both
      BY <1>2, <2>2
    <3>2. new(ds[i]) = with(h.msg[ds[i]], ss[i]) /\ ss[i] \in Ids
      BY <1>8, <3>1, Zenon
    <3>3. with(h.msg[ds[i]], ss[i]) \in Msg /\ with(h.msg[ds[i]], ss[i]).kind = h.msg[ds[i]].kind
          /\ with(h.msg[ds[i]], ss[i]).body = h.msg[ds[i]].body /\ with(h.msg[ds[i]], ss[i]).parent = ss[i]
      BY <1>4, <2>1, <3>2, ZenonT(30)
    <3> HIDE DEF new
    <3> QED
      BY <2>2, <3>2, <3>3
  <2>3. CASE ~(i <= Len(ss))
    <3>1. ~inD(ds[i])
      BY <1>2, <1>7, <2>3
    <3>2. ~inS(ds[i])
      BY <1>2, <1>7
    <3>3. new(ds[i]) = h.msg[ds[i]]
      BY <1>10, <3>1, <3>2
    <3> HIDE DEF new
    <3> QED
      BY <2>3, <3>3
  <2> HIDE DEF new
  <2> QED
    BY <2>2, <2>3
<1>13. ASSUME NEW i \in 1 .. Len(ss)
       PROVE  new(ss[i]).parent = IF i < Len(ds) THEN ds[i + 1] ELSE h.msg[ss[i]].parent
  <2>1. ss[i] \in Ids /\ h.msg[ss[i]] \in Msg
    BY <1>3, <1>5
  <2>2. CASE i < Len(ds)
    <3>1. i \in 1 .. both
      BY <1>2, <2>2
    <3>2. new(ss[i]) = with(h.msg[ss[i]], ds[i + 1]) /\ ds[i + 1] \in Ids
      BY <1>9, <2>2, <3>1, Zenon
    <3>3. with(h.msg[ss[i]], ds[i + 1]) \in Msg /\ with(h.msg[ss[i]], ds[i + 1]).kind = h.msg[ss[i]].kind
          /\ with(h.msg[ss[i]], ds[i + 1]).body = h.msg[ss[i]].body /\ with(h.msg[ss[i]], ds[i + 1]).parent = ds[i + 1]
      BY <1>4, <2>1, <3>2, ZenonT(30)
    <3> HIDE DEF new
    <3> QED
      BY <2>2, <3>2, <3>3
  <2>3. CASE ~(i < Len(ds))
    <3>1. ~inD(ss[i])
      BY <1>2, <1>7
    <3>2. ~inS(ss[i])
      BY <1>2, <1>7, <2>3
    <3>3. new(ss[i]) = h.msg[ss[i]]
      BY <1>10, <3>1, <3>2
    <3> HIDE DEF new
    <3> QED
      BY <2>3, <3>3
  <2> HIDE DEF new
  <2> QED
    BY <2>2, <2>3
<1>14. ASSUME NEW x \in Ids \ (ToSet(ds) \cup ToSet(ss)) PROVE new(x) = h.msg[x]
  <2>1. ~inD(x) /\ ~inS(x)
    BY <1>2, <1>5
  <2> QED
    BY <1>10, <2>1
<1> HIDE DEF new
<1>15. msg \in [Ids -> Msg] /\ \A x \in Ids : msg[x] = new(x)
  BY <1>11
<1> HIDE DEF msg, h2
<1>16. h2 = [obj |-> h.obj, msg |-> msg, body |-> h.body, bobj |-> h.bobj]
  BY <1>1, <1>3, Zenon
<1>17. h2 \in Heap
  BY <1>3, <1>15, <1>16, HeapOf, Zenon DEF Msg
<1> QED
  BY <1>5, <1>11, <1>12, <1>13, <1>14, <1>15, <1>16, <1>17 DEF ZippedLinks, h2

\* Where the elements of the first and of the second get.
FirstAt(ss, i) == IF i <= Len(ss) THEN 2 * i - 1 ELSE i + Len(ss)
SecondAt(ds, i) == IF i <= Len(ds) THEN 2 * i ELSE i + Len(ds)

LEMMA Halves ==
  ASSUME NEW k \in Nat
  PROVE  \E i \in Nat : k = 2 * i \/ k = 2 * i + 1
<1> DEFINE T == {n \in Nat : ~ \E i \in Nat : n = 2 * i \/ n = 2 * i + 1}
<1>1. ASSUME NEW n \in T PROVE \E m \in T : m < n
  <2>1. n # 0 /\ n # 1
    <3>1. 0 = 2 * 0 /\ 1 = 2 * 0 + 1
      OBVIOUS
    <3> QED
      BY <3>1
  <2>2. n - 2 \in Nat /\ n - 2 < n
    BY <2>1
  <2>3. SUFFICES ASSUME NEW i \in Nat, n - 2 = 2 * i \/ n - 2 = 2 * i + 1 PROVE FALSE
    BY <2>2
  <2>4. i + 1 \in Nat /\ (n = 2 * (i + 1) \/ n = 2 * (i + 1) + 1)
    BY <2>2, <2>3
  <2> QED
    BY <2>4, Zenon
<1>2. T \subseteq Nat
  OBVIOUS
<1>3. T = {}
  <2> HIDE DEF T
  <2> QED
    BY <1>1, <1>2, Induction, Zenon
<1> QED
  BY <1>3, Zenon

LEMMA PlacesOf ==
  ASSUME NEW ds \in Seq(Ids), NEW ss \in Seq(Ids)
  PROVE  LET N == Len(ds) + Len(ss)
         IN /\ N \in Nat
            /\ \A i \in 1 .. Len(ds) : FirstAt(ss, i) \in 1 .. N
            /\ \A i \in 1 .. Len(ss) : SecondAt(ds, i) \in 1 .. N
            /\ \A i, j \in 1 .. Len(ds) : FirstAt(ss, i) = FirstAt(ss, j) => i = j
            /\ \A i, j \in 1 .. Len(ss) : SecondAt(ds, i) = SecondAt(ds, j) => i = j
            /\ \A i \in 1 .. Len(ds), j \in 1 .. Len(ss) : FirstAt(ss, i) # SecondAt(ds, j)
            /\ \A k \in 1 .. N : \/ \E i \in 1 .. Len(ds) : k = FirstAt(ss, i)
                                 \/ \E i \in 1 .. Len(ss) : k = SecondAt(ds, i)
<1> DEFINE a == Len(ds)
           b == Len(ss)
           f(i) == IF i <= b THEN 2 * i - 1 ELSE i + b
           g(i) == IF i <= a THEN 2 * i ELSE i + a
<1>1. a \in Nat /\ b \in Nat
  OBVIOUS
<1> HIDE DEF a, b
<1>2. /\ a + b \in Nat
      /\ \A i \in 1 .. a : f(i) \in 1 .. a + b
      /\ \A i \in 1 .. b : g(i) \in 1 .. a + b
  BY <1>1
<1>3. \A i, j \in 1 .. a : f(i) = f(j) => i = j
  BY <1>1
<1>4. \A i, j \in 1 .. b : g(i) = g(j) => i = j
  BY <1>1
<1>5. \A i \in 1 .. a, j \in 1 .. b : f(i) # g(j)
  BY <1>1
<1>6. ASSUME NEW k \in 1 .. a + b PROVE (\E i \in 1 .. a : k = f(i)) \/ (\E i \in 1 .. b : k = g(i))
  <2>1. PICK i \in Nat : k = 2 * i \/ k = 2 * i + 1
    <3>1. k \in Nat
      BY <1>1
    <3> HIDE DEF f, g
    <3> QED
      BY <3>1, Halves, Zenon
  <2>2. CASE k = 2 * i /\ i <= a /\ i <= b
    <3>1. i \in 1 .. b /\ k = g(i)
      BY <1>1, <2>2
    <3> HIDE DEF f, g
    <3> QED
      BY <3>1
  <2>3. CASE k = 2 * i + 1 /\ i + 1 <= a /\ i + 1 <= b
    <3>1. i + 1 \in 1 .. a /\ k = f(i + 1)
      BY <1>1, <2>3
    <3> HIDE DEF f, g
    <3> QED
      BY <3>1
  <2>4. CASE k > 2 * b
    <3>1. k - b \in 1 .. a /\ k = f(k - b)
      BY <1>1, <2>4
    <3> HIDE DEF f, g
    <3> QED
      BY <3>1
  <2>5. CASE k > 2 * a
    <3>1. k - a \in 1 .. b /\ k = g(k - a)
      BY <1>1, <2>5
    <3> HIDE DEF f, g
    <3> QED
      BY <3>1
  <2> HIDE DEF f, g
  <2> QED
    BY <1>1, <2>1, <2>2, <2>3, <2>4, <2>5
<1>7. /\ \A i : FirstAt(ss, i) = f(i)
      /\ \A i : SecondAt(ds, i) = g(i)
  BY DEF FirstAt, SecondAt, a, b
<1> HIDE DEF f, g
<1>8. /\ \A i \in 1 .. a : FirstAt(ss, i) \in 1 .. a + b
      /\ \A i \in 1 .. b : SecondAt(ds, i) \in 1 .. a + b
  BY <1>2, <1>7
<1>9. /\ \A i, j \in 1 .. a : FirstAt(ss, i) = FirstAt(ss, j) => i = j
      /\ \A i, j \in 1 .. b : SecondAt(ds, i) = SecondAt(ds, j) => i = j
      /\ \A i \in 1 .. a, j \in 1 .. b : FirstAt(ss, i) # SecondAt(ds, j)
  BY <1>3, <1>4, <1>5, <1>7
<1>10. \A k \in 1 .. a + b : (\E i \in 1 .. a : k = FirstAt(ss, i)) \/ (\E i \in 1 .. b : k = SecondAt(ds, i))
  BY <1>6, <1>7
<1> QED
  BY <1>2, <1>8, <1>9, <1>10 DEF a, b

\* zs are the elements of ds and ss in turns, and then what one has more.
Interleaves(zs, ds, ss) ==
    /\ zs \in Seq(Ids) /\ Len(zs) = Len(ds) + Len(ss) /\ Once(zs) /\ ToSet(zs) = ToSet(ds) \cup ToSet(ss)
    /\ \A i \in 1 .. Len(ds) : \E k \in 1 .. Len(zs) :
          zs[k] = ds[i] /\ After(zs, k) = IF i <= Len(ss) THEN ss[i] ELSE After(ds, i)
    /\ \A i \in 1 .. Len(ss) : \E k \in 1 .. Len(zs) :
          zs[k] = ss[i] /\ After(zs, k) = IF i < Len(ds) THEN ds[i + 1] ELSE After(ss, i)
    /\ ds # <<>> => zs # <<>> /\ zs[1] = ds[1]

LEMMA InterleavedExists ==
  ASSUME NEW ds \in Seq(Ids), NEW ss \in Seq(Ids), Once(ds), Once(ss), ToSet(ds) \cap ToSet(ss) = {}, ss # <<>>
  PROVE  \E zs : Interleaves(zs, ds, ss)
<1> DEFINE a == Len(ds)
           b == Len(ss)
           f(i) == FirstAt(ss, i)
           g(i) == SecondAt(ds, i)
           N == a + b
           zs == [k \in 1 .. N |-> IF \E i \in 1 .. a : k = f(i) THEN ds[CHOOSE i \in 1 .. a : k = f(i)]
                                   ELSE ss[CHOOSE i \in 1 .. b : k = g(i)]]
<1>1. a \in Nat /\ b \in Nat /\ N \in Nat /\ b > 0
  OBVIOUS
<1>2. /\ \A i \in 1 .. a : f(i) \in 1 .. N
      /\ \A i \in 1 .. b : g(i) \in 1 .. N
      /\ \A i, j \in 1 .. a : f(i) = f(j) => i = j
      /\ \A i, j \in 1 .. b : g(i) = g(j) => i = j
      /\ \A i \in 1 .. a, j \in 1 .. b : f(i) # g(j)
      /\ \A k \in 1 .. N : (\E i \in 1 .. a : k = f(i)) \/ (\E i \in 1 .. b : k = g(i))
  BY PlacesOf, Zenon
<1>3. /\ \A i \in 1 .. a : f(i) = IF i <= b THEN 2 * i - 1 ELSE i + b
      /\ \A i \in 1 .. b : g(i) = IF i <= a THEN 2 * i ELSE i + a
  BY DEF FirstAt, SecondAt
<1>4. /\ ToSet(ds) = {ds[i] : i \in 1 .. a} /\ ToSet(ss) = {ss[i] : i \in 1 .. b}
      /\ \A i \in 1 .. a : ds[i] \in Ids /\ ds[i] \in ToSet(ds)
      /\ \A i \in 1 .. b : ss[i] \in Ids /\ ss[i] \in ToSet(ss)
  BY AddedAre
<1>5. /\ \A i, j \in 1 .. a : ds[i] = ds[j] => i = j
      /\ \A i, j \in 1 .. b : ss[i] = ss[j] => i = j
      /\ \A i \in 1 .. a, j \in 1 .. b : ds[i] # ss[j]
  BY <1>4, Zenon DEF Once
<1> HIDE DEF a, b, f, g, N
<1>6. ASSUME NEW i \in 1 .. a PROVE zs[f(i)] = ds[i]
  <2>1. f(i) \in 1 .. N /\ \E j \in 1 .. a : f(i) = f(j)
    BY <1>2
  <2>2. zs[f(i)] = ds[CHOOSE j \in 1 .. a : f(i) = f(j)]
    BY <2>1
  <2>3. (CHOOSE j \in 1 .. a : f(i) = f(j)) = i
    BY <1>2
  <2> QED
    BY <2>2, <2>3, Zenon
<1>7. ASSUME NEW i \in 1 .. b PROVE zs[g(i)] = ss[i]
  <2>1. g(i) \in 1 .. N /\ ~ \E j \in 1 .. a : g(i) = f(j)
    BY <1>2
  <2>2. zs[g(i)] = ss[CHOOSE j \in 1 .. b : g(i) = g(j)]
    BY <2>1
  <2>3. (CHOOSE j \in 1 .. b : g(i) = g(j)) = i
    BY <1>2
  <2> QED
    BY <2>2, <2>3, Zenon
<1>8. zs = [k \in 1 .. N |-> zs[k]]
  OBVIOUS
<1> HIDE DEF zs
<1>9. \A k \in 1 .. N : zs[k] \in ToSet(ds) \cup ToSet(ss) /\ zs[k] \in Ids
  <2> TAKE k \in 1 .. N
  <2>1. CASE \E i \in 1 .. a : k = f(i)
    BY <1>4, <1>6, <2>1
  <2>2. CASE \E i \in 1 .. b : k = g(i)
    BY <1>4, <1>7, <2>2
  <2> QED
    BY <1>2, <2>1, <2>2
<1>10. zs \in Seq(Ids) /\ Len(zs) = N
  <2>1. zs \in [1 .. N -> Ids]
    BY <1>8, <1>9
  <2> QED
    BY <1>1, <2>1 DEF N
<1>11. ASSUME NEW k \in 1 .. N, NEW l \in 1 .. N, zs[k] = zs[l] PROVE k = l
  <2>1. CASE \E i \in 1 .. a : k = f(i)
    <3>1. PICK i \in 1 .. a : k = f(i)
      BY <2>1
    <3>2. CASE \E j \in 1 .. a : l = f(j)
      BY <1>5, <1>6, <1>11, <3>1, <3>2
    <3>3. CASE \E j \in 1 .. b : l = g(j)
      BY <1>5, <1>6, <1>7, <1>11, <3>1, <3>3
    <3> QED
      BY <1>2, <3>2, <3>3
  <2>2. CASE \E i \in 1 .. b : k = g(i)
    <3>1. PICK i \in 1 .. b : k = g(i)
      BY <2>2
    <3>2. CASE \E j \in 1 .. a : l = f(j)
      BY <1>5, <1>6, <1>7, <1>11, <3>1, <3>2
    <3>3. CASE \E j \in 1 .. b : l = g(j)
      BY <1>5, <1>7, <1>11, <3>1, <3>3
    <3> QED
      BY <1>2, <3>2, <3>3
  <2> QED
    BY <1>2, <2>1, <2>2
<1>12. Once(zs)
  BY <1>10, <1>11 DEF Once
<1>13. ToSet(zs) = ToSet(ds) \cup ToSet(ss)
  <2>1. ToSet(zs) = {zs[k] : k \in 1 .. N}
    BY <1>10, AddedAre
  <2>2. \A i \in 1 .. a : ds[i] \in ToSet(zs)
    BY <1>2, <1>6, <2>1
  <2>3. \A i \in 1 .. b : ss[i] \in ToSet(zs)
    BY <1>2, <1>7, <2>1
  <2>4. ToSet(ds) \subseteq ToSet(zs) /\ ToSet(ss) \subseteq ToSet(zs)
    BY <1>4, <2>2, <2>3
  <2>5. ToSet(zs) \subseteq ToSet(ds) \cup ToSet(ss)
    BY <1>4, <1>9, <2>1
  <2> QED
    BY <2>4, <2>5
<1>14. ASSUME NEW i \in 1 .. a PROVE After(zs, f(i)) = IF i <= b THEN ss[i] ELSE After(ds, i)
  <2>1. f(i) = (IF i <= b THEN 2 * i - 1 ELSE i + b) /\ f(i) \in 1 .. N
    BY <1>2, <1>3
  <2>2. CASE i <= b
    <3>1. i \in 1 .. b /\ g(i) = 2 * i
      BY <1>1, <1>3, <2>2
    <3>2. f(i) < N /\ f(i) + 1 = g(i)
      BY <1>1, <2>1, <2>2, <3>1 DEF N
    <3> QED
      BY <1>7, <1>10, <2>2, <3>1, <3>2 DEF After
  <2>3. CASE i > b /\ i < a
    <3>1. i + 1 \in 1 .. a /\ f(i + 1) = i + 1 + b
      BY <1>1, <1>3, <2>3
    <3>2. f(i) < N /\ f(i) + 1 = f(i + 1)
      BY <1>1, <2>1, <2>3, <3>1 DEF N
    <3>3. zs[f(i) + 1] = ds[i + 1]
      BY <1>6, <3>1, <3>2
    <3>4. After(zs, f(i)) = ds[i + 1]
      BY <1>10, <3>2, <3>3 DEF After
    <3>5. After(ds, i) = ds[i + 1]
      BY <2>3 DEF After, a
    <3> QED
      BY <1>1, <2>3, <3>4, <3>5
  <2>4. CASE i > b /\ i = a
    <3>1. ~(f(i) < N)
      BY <1>1, <2>1, <2>4 DEF N
    <3>2. After(zs, f(i)) = None
      BY <1>10, <3>1 DEF After
    <3>3. After(ds, i) = None
      BY <2>4 DEF After, a
    <3> QED
      BY <1>1, <2>4, <3>2, <3>3
  <2> QED
    BY <1>1, <2>2, <2>3, <2>4
<1>15. ASSUME NEW i \in 1 .. b PROVE After(zs, g(i)) = IF i < a THEN ds[i + 1] ELSE After(ss, i)
  <2>1. g(i) = (IF i <= a THEN 2 * i ELSE i + a) /\ g(i) \in 1 .. N
    BY <1>2, <1>3
  <2>2. CASE i < a
    <3>1. i + 1 \in 1 .. a /\ f(i + 1) = 2 * i + 1
      <4>1. i + 1 \in 1 .. a /\ i <= b
        BY <1>1, <2>2
      <4>2. f(i + 1) = IF i + 1 <= b THEN 2 * (i + 1) - 1 ELSE i + 1 + b
        BY <1>3, <4>1
      <4> QED
        BY <1>1, <4>1, <4>2
    <3>2. g(i) < N /\ g(i) + 1 = f(i + 1)
      BY <1>1, <1>2, <2>1, <2>2, <3>1 DEF N
    <3>3. zs[g(i) + 1] = ds[i + 1]
      BY <1>6, <3>1, <3>2
    <3> QED
      BY <1>10, <2>2, <3>2, <3>3 DEF After
  <2>3. CASE i >= a /\ i < b
    <3>1. i + 1 \in 1 .. b /\ g(i + 1) = i + 1 + a
      BY <1>1, <1>3, <2>3
    <3>2. g(i) < N /\ g(i) + 1 = g(i + 1)
      BY <1>1, <2>1, <2>3, <3>1 DEF N
    <3>3. zs[g(i) + 1] = ss[i + 1]
      BY <1>7, <3>1, <3>2
    <3>4. After(zs, g(i)) = ss[i + 1]
      BY <1>10, <3>2, <3>3 DEF After
    <3>5. After(ss, i) = ss[i + 1]
      BY <2>3 DEF After, b
    <3> QED
      BY <1>1, <2>3, <3>4, <3>5
  <2>4. CASE i >= a /\ i = b
    <3>1. ~(g(i) < N)
      BY <1>1, <2>1, <2>4 DEF N
    <3>2. After(zs, g(i)) = None
      BY <1>10, <3>1 DEF After
    <3>3. After(ss, i) = None
      BY <2>4 DEF After, b
    <3> QED
      BY <1>1, <2>4, <3>2, <3>3
  <2> QED
    BY <1>1, <2>2, <2>3, <2>4
<1>16. ASSUME ds # <<>> PROVE zs # <<>> /\ zs[1] = ds[1]
  <2>1. a > 0
    BY <1>16 DEF a
  <2>2. 1 \in 1 .. a /\ f(1) = 1
    BY <1>1, <1>3, <2>1
  <2>3. zs[1] = ds[1]
    BY <1>6, <2>2
  <2>4. N > 0
    BY <1>1, <2>1 DEF N
  <2> QED
    BY <1>10, <2>3, <2>4
<1>17. \A i \in 1 .. a : \E k \in 1 .. N : zs[k] = ds[i] /\ After(zs, k) = IF i <= b THEN ss[i] ELSE After(ds, i)
  BY <1>2, <1>6, <1>14
<1>18. \A i \in 1 .. b : \E k \in 1 .. N : zs[k] = ss[i] /\ After(zs, k) = IF i < a THEN ds[i + 1] ELSE After(ss, i)
  BY <1>2, <1>7, <1>15
<1>19. Interleaves(zs, ds, ss)
  BY <1>10, <1>12, <1>13, <1>16, <1>17, <1>18 DEF Interleaves, a, b, N
<1> QED
  BY <1>19

\* There is room left for k more.
LEMMA RoomLeft ==
  ASSUME NEW h, NEW h2, NEW ms, NewIds(h, ms), Used(h2) \subseteq Used(h) \cup ToSet(ms),
         NEW k \in Nat, Room(h, Len(ms) + k)
  PROVE  Room(h2, k)
<1> DEFINE A == Used(h)
           B == ToSet(ms)
           n == Len(ms)
<1>1. ms \in Seq(Ids) /\ n \in Nat /\ B = {ms[i] : i \in 1 .. n}
  BY AddedAre DEF NewIds
<1>2. IsFiniteSet(B) /\ Cardinality(B) <= n /\ Cardinality(B) \in Nat
  <2>1. IsFiniteSet(1 .. n) /\ Cardinality(1 .. n) = n
    <3>1. 1 \in Int /\ n \in Int
      BY <1>1
    <3>2. IsFiniteSet(1 .. n) /\ Cardinality(1 .. n) = IF 1 > n THEN 0 ELSE n - 1 + 1
      BY <3>1, FS_Interval
    <3> HIDE DEF n
    <3> QED
      BY <1>1, <3>2
  <2> DEFINE f == [i \in 1 .. n |-> ms[i]]
  <2>2. f \in Surjection(1 .. n, B)
    BY <1>1 DEF Surjection
  <2> HIDE DEF f, B, n
  <2>3. IsFiniteSet(B) /\ Cardinality(B) <= Cardinality(1 .. n)
    BY <2>1, <2>2, FS_Surjection
  <2>4. Cardinality(B) \in Nat
    BY <2>3, FS_CardinalityType
  <2> QED
    BY <2>1, <2>3, <2>4
<1>3. IsFiniteSet(A) /\ Cardinality(A) \in Nat
  BY UsedFinite
<1> HIDE DEF A, B, n
<1>4. IsFiniteSet(A \cup B) /\ Cardinality(A \cup B) = Cardinality(A) + Cardinality(B) - Cardinality(A \cap B)
  BY <1>2, <1>3, FS_Union
<1>5. Cardinality(A \cap B) \in Nat
  <2>1. IsFiniteSet(A \cap B)
    BY <1>3, FS_Subset
  <2> QED
    BY <2>1, FS_CardinalityType
<1>6. Used(h2) \subseteq A \cup B
  BY DEF A, B
<1>7. Cardinality(Used(h2)) <= Cardinality(A \cup B) /\ Cardinality(Used(h2)) \in Nat
  <2>1. IsFiniteSet(Used(h2))
    BY UsedFinite
  <2>2. Cardinality(Used(h2)) <= Cardinality(A \cup B)
    BY <1>4, <1>6, FS_Subset
  <2> QED
    BY <2>1, <2>2, FS_CardinalityType
<1>8. Cardinality(A) + (n + k) <= MaxRoom
  BY DEF Room, A, n
<1>9. MaxRoom \in Nat
  BY BoundsAssumption
<1> QED
  BY <1>1, <1>2, <1>3, <1>4, <1>5, <1>7, <1>8, <1>9 DEF Room

\* The messages of an exchange are as if they had been made in turns.
LEMMA ZippedAdded ==
  ASSUME NEW h, NEW r \in [Ids -> Nat], NEW br \in [Ids -> Nat], Sound(h, r, br), Freed(h),
         NEW ds, NewIds(h, ds), ds # <<>>, NEW h1, MessagesAdded(h1, h, ds),
         NEW ss, NewIds(h1, ss), ss # <<>>, NEW h2, MessagesAdded(h2, h1, ss)
  PROVE  \E zs : /\ NewIds(h, zs) /\ zs # <<>> /\ zs[1] = ds[1] /\ Len(zs) = Len(ds) + Len(ss)
                 /\ MessagesAdded(Zipped(h2, ds[1], ss[1]), h, zs)
<1> DEFINE D == ToSet(ds)
           S == ToSet(ss)
           h3 == Zipped(h2, ds[1], ss[1])
<1>1. /\ ds \in Seq(Ids) /\ Once(ds) /\ D \cap Used(h) = {}
      /\ ss \in Seq(Ids) /\ Once(ss) /\ S \cap Used(h1) = {}
  BY DEF NewIds
<1>2. /\ D = {ds[i] : i \in 1 .. Len(ds)} /\ S = {ss[i] : i \in 1 .. Len(ss)}
      /\ \A i \in 1 .. Len(ds) : ds[i] \in Ids /\ ds[i] \in D
      /\ \A i \in 1 .. Len(ss) : ss[i] \in Ids /\ ss[i] \in S
  BY <1>1, AddedAre, Zenon
<1>3. Sound(h1, r, br) /\ Freed(h1) /\ Used(h1) = Used(h) \cup D
  BY MessagesAddedSound
<1>4. Sound(h2, r, br)
  BY <1>3, MessagesAddedSound
<1>5. D \cap S = {} /\ S \cap Used(h) = {}
  BY <1>1, <1>3
<1>6. /\ h1.obj = h.obj /\ h1.bobj = h.bobj
      /\ \A x \in Ids \ D : h1.msg[x] = h.msg[x] /\ h1.body[x] = h.body[x]
      /\ \A i \in 1 .. Len(ds) : /\ h1.msg[ds[i]].kind \in Kinds /\ h1.msg[ds[i]].body = ds[i]
                                 /\ h1.msg[ds[i]].parent = After(ds, i) /\ h1.body[ds[i]] = 1
  BY DEF MessagesAdded
<1>7. /\ h2 \in Heap /\ h2.obj = h1.obj /\ h2.bobj = h1.bobj
      /\ \A x \in Ids \ S : h2.msg[x] = h1.msg[x] /\ h2.body[x] = h1.body[x]
      /\ \A i \in 1 .. Len(ss) : /\ h2.msg[ss[i]].kind \in Kinds /\ h2.msg[ss[i]].body = ss[i]
                                 /\ h2.msg[ss[i]].parent = After(ss, i) /\ h2.body[ss[i]] = 1
  BY DEF MessagesAdded
<1> HIDE DEF D, S, h3
<1>8. \A i \in 1 .. Len(ds) : h2.msg[ds[i]] = h1.msg[ds[i]] /\ h2.body[ds[i]] = h1.body[ds[i]]
  BY <1>2, <1>5, <1>7, Zenon
<1>9. \A i \in 1 .. Len(ds) : /\ h2.msg[ds[i]].kind \in Kinds /\ h2.msg[ds[i]].body = ds[i]
                              /\ h2.msg[ds[i]].parent = After(ds, i) /\ h2.body[ds[i]] = 1
  BY <1>6, <1>8
<1>10. MessagesAdded(h2, h2, ds)
  BY <1>7, <1>9 DEF MessagesAdded
<1>11. MessageChain(h2, ds[1]) = ds /\ MessageChain(h2, ss[1]) = ss
  BY <1>1, <1>4, <1>10, AddedChain, Zenon
<1>12. ZippedLinks(h3, h2, ds, ss)
  BY <1>1, <1>5, <1>7, <1>11, ZippedIs DEF D, S, h3
<1>13. /\ h3 \in Heap /\ h3.obj = h2.obj /\ h3.body = h2.body /\ h3.bobj = h2.bobj
       /\ \A x \in Ids : h3.msg[x].kind = h2.msg[x].kind /\ h3.msg[x].body = h2.msg[x].body
       /\ \A x \in Ids \ (D \cup S) : h3.msg[x] = h2.msg[x]
       /\ \A i \in 1 .. Len(ds) : h3.msg[ds[i]].parent = IF i <= Len(ss) THEN ss[i] ELSE h2.msg[ds[i]].parent
       /\ \A i \in 1 .. Len(ss) : h3.msg[ss[i]].parent = IF i < Len(ds) THEN ds[i + 1] ELSE h2.msg[ss[i]].parent
  BY <1>12 DEF ZippedLinks, D, S
<1>14. PICK zs : Interleaves(zs, ds, ss)
  BY <1>1, <1>5, InterleavedExists, Zenon DEF D, S
<1>15. /\ zs \in Seq(Ids) /\ Len(zs) = Len(ds) + Len(ss) /\ Once(zs) /\ ToSet(zs) = D \cup S
       /\ \A i \in 1 .. Len(ds) : \E k \in 1 .. Len(zs) :
             zs[k] = ds[i] /\ After(zs, k) = IF i <= Len(ss) THEN ss[i] ELSE After(ds, i)
       /\ \A i \in 1 .. Len(ss) : \E k \in 1 .. Len(zs) :
             zs[k] = ss[i] /\ After(zs, k) = IF i < Len(ds) THEN ds[i + 1] ELSE After(ss, i)
       /\ zs # <<>> /\ zs[1] = ds[1]
  BY <1>14 DEF Interleaves, D, S
<1>16. \A k, l \in 1 .. Len(zs) : zs[k] = zs[l] => k = l
  BY <1>15 DEF Once
<1>17. \A k \in 1 .. Len(zs) : zs[k] \in D \cup S
  BY <1>15, AddedAre, Zenon
<1>18. ASSUME NEW k \in 1 .. Len(zs)
       PROVE  /\ h3.msg[zs[k]].kind \in Kinds /\ h3.msg[zs[k]].body = zs[k]
              /\ h3.msg[zs[k]].parent = After(zs, k) /\ h3.body[zs[k]] = 1
  <2>1. CASE zs[k] \in D
    <3>1. PICK i \in 1 .. Len(ds) : zs[k] = ds[i]
      BY <1>2, <2>1
    <3>2. PICK l \in 1 .. Len(zs) : zs[l] = ds[i] /\ After(zs, l) = IF i <= Len(ss) THEN ss[i] ELSE After(ds, i)
      BY <1>15
    <3>3. k = l
      BY <1>16, <3>1, <3>2
    <3>4. ds[i] \in Ids
      BY <1>2
    <3>5. h3.msg[ds[i]].parent = IF i <= Len(ss) THEN ss[i] ELSE After(ds, i)
      BY <1>9, <1>13, Zenon
    <3>6. h3.msg[ds[i]].kind \in Kinds /\ h3.msg[ds[i]].body = ds[i] /\ h3.body[ds[i]] = 1
      BY <1>9, <1>13, <3>4, Zenon
    <3> QED
      BY <3>1, <3>2, <3>3, <3>5, <3>6
  <2>2. CASE zs[k] \in S
    <3>1. PICK i \in 1 .. Len(ss) : zs[k] = ss[i]
      BY <1>2, <2>2
    <3>2. PICK l \in 1 .. Len(zs) : zs[l] = ss[i] /\ After(zs, l) = IF i < Len(ds) THEN ds[i + 1] ELSE After(ss, i)
      BY <1>15
    <3>3. k = l
      BY <1>16, <3>1, <3>2
    <3>4. ss[i] \in Ids
      BY <1>2
    <3>5. h3.msg[ss[i]].parent = IF i < Len(ds) THEN ds[i + 1] ELSE After(ss, i)
      BY <1>7, <1>13
    <3>6. h3.msg[ss[i]].kind \in Kinds /\ h3.msg[ss[i]].body = ss[i] /\ h3.body[ss[i]] = 1
      BY <1>7, <1>13, <3>4, Zenon
    <3> QED
      BY <3>1, <3>2, <3>3, <3>5, <3>6
  <2> QED
    BY <1>17, <2>1, <2>2
<1>19. \A x \in Ids \ ToSet(zs) : h3.msg[x] = h.msg[x] /\ h3.body[x] = h.body[x]
  BY <1>6, <1>7, <1>13, <1>15
<1>20. MessagesAdded(h3, h, zs)
  BY <1>6, <1>7, <1>13, <1>18, <1>19 DEF MessagesAdded
<1>21. NewIds(h, zs)
  BY <1>1, <1>5, <1>15 DEF NewIds
<1> QED
  BY <1>15, <1>20, <1>21 DEF h3

\* What handle_history makes of an exchange.
LEMMA ExchangeMade ==
  ASSUME NEW h, NEW r \in [Ids -> Nat], NEW br \in [Ids -> Nat], Sound(h, r, br), Freed(h),
         NEW responses \in Seq(Kinds), responses # <<>>, NEW requests \in Seq(Kinds), requests # <<>>,
         Room(h, Len(responses) + Len(requests))
  PROVE  LET one == Fresh(h, 1)
             h1 == WithMessages(h, responses)
             two == Fresh(h1, 1)
         IN \E zs : /\ NewIds(h, zs) /\ zs # <<>> /\ zs[1] = one /\ Len(zs) = Len(responses) + Len(requests)
                    /\ Made(WithObjects(Zipped(WithMessages(h1, requests), one, two), one), h, r, br, zs)
<1> DEFINE one == Fresh(h, 1)
           h1 == WithMessages(h, responses)
           two == Fresh(h1, 1)
           h2 == WithMessages(h1, requests)
           h3 == Zipped(h2, one, two)
           ds == FreshIds(h, Len(responses))
           ss == FreshIds(h1, Len(requests))
<1>1. h \in Heap /\ Len(responses) \in Nat /\ Len(requests) \in Nat
  BY DEF Sound, Built
<1>2. Room(h, Len(responses))
  <2>1. Cardinality(Used(h)) \in Nat /\ MaxRoom \in Nat
    BY UsedFinite, BoundsAssumption
  <2> QED
    BY <1>1, <2>1 DEF Room
<1>3. /\ NewIds(h, ds) /\ ds # <<>> /\ ds[1] = one /\ Len(ds) = Len(responses)
      /\ MessagesAdded(h1, h, ds)
  BY <1>1, <1>2, FreshNew
<1> HIDE DEF ds, h1
<1>4. Sound(h1, r, br) /\ Freed(h1) /\ Used(h1) = Used(h) \cup ToSet(ds)
  <2>1. NewIds(h, ds) /\ MessagesAdded(h1, h, ds)
    BY <1>3
  <2> QED
    BY <2>1, MessagesAddedSound
<1>5. Room(h1, Len(requests)) /\ h1 \in Heap
  <2>1. Room(h, Len(ds) + Len(requests))
    BY <1>3
  <2>2. Used(h1) \subseteq Used(h) \cup ToSet(ds)
    BY <1>4
  <2>3. Room(h1, Len(requests))
    BY <1>1, <1>3, <2>1, <2>2, RoomLeft, Zenon
  <2> QED
    BY <1>4, <2>3 DEF Sound, Built
<1>6. /\ NewIds(h1, ss) /\ ss # <<>> /\ ss[1] = two /\ Len(ss) = Len(requests)
      /\ MessagesAdded(h2, h1, ss)
  BY <1>5, FreshNew
<1> HIDE DEF ss, h2, one, two
<1>7. PICK zs : /\ NewIds(h, zs) /\ zs # <<>> /\ zs[1] = ds[1] /\ Len(zs) = Len(ds) + Len(ss)
                /\ MessagesAdded(Zipped(h2, ds[1], ss[1]), h, zs)
  BY <1>3, <1>6, ZippedAdded, Zenon
<1>8. MessagesAdded(h3, h, zs) /\ zs[1] = one /\ Len(zs) = Len(responses) + Len(requests)
  BY <1>3, <1>6, <1>7
<1> HIDE DEF h3
<1>9. Sound(h3, r, br) /\ zs \in Seq(Ids) /\ Once(zs)
  BY <1>7, <1>8, MessagesAddedSound, Zenon DEF NewIds
<1>10. MessageChain(h3, one) = zs
  BY <1>7, <1>8, <1>9, AddedChain, Zenon
<1>11. one \in Ids
  BY <1>7, <1>8, <1>9
<1>12. Wraps(WithObjects(h3, one), h3, ToSet(zs), ToSet(zs))
  BY <1>9, <1>10, <1>11, WithObjectsWraps
<1>13. Made(WithObjects(h3, one), h, r, br, zs)
  BY <1>7, <1>8, <1>12, WrappedMade, Zenon
<1> QED
  BY <1>7, <1>8, <1>13 DEF h1, h2, h3, one, two

-----------------------------------------------------------------------------
(* What is allocated, after references went *)

LEMMA LowerNat ==
  ASSUME NEW a \in Nat, NEW b \in Nat, NEW c \in Nat
  PROVE  /\ a - b > 0 => a > 0
         /\ a - b - c > 0 => a > 0
  OBVIOUS

LEMMA CollectedUsed ==
  ASSUME NEW h \in Heap
  PROVE  Used(Collected(h)) \subseteq Used(h)
<1> DEFINE S == Unreferenced(h)
           g == Gone(h, S)
           gm == g.messages
           gb == g.bobjs
           h2 == Collected(h)
           many(T, f, x) == Cardinality({i \in T : f[i] = x})
<1>1. /\ h2.obj = [o \in Ids |-> IF o \in S THEN NoObject ELSE [h.obj[o] EXCEPT !.refs = @ - References(h, S, o)]]
      /\ h2.msg = [m \in Ids |-> IF m \in gm THEN NoMessage ELSE h.msg[m]]
      /\ h2.body = [b \in Ids |-> h.body[b] - Cardinality({m \in gm : h.msg[m].body = b})
                                             - Cardinality({c \in gb : h.bobj[c].body = b})]
      /\ h2.bobj = [c \in Ids |-> IF c \in gb THEN NoBodyObject
                       ELSE [h.bobj[c] EXCEPT !.refs = @ - Cardinality({o \in S : h.obj[o].body = c})]]
  <2>1. g.objects = S
    BY DEF Gone
  <2> HIDE DEF S
  <2> QED
    BY <2>1 DEF Collected, S
<1>2. S \subseteq Ids
  <2>1. S = Without(h, S)
    BY UnreferencedFixed
  <2> HIDE DEF S
  <2> QED
    BY <2>1 DEF Without, Live
<1>3. gm \subseteq Ids /\ gb \subseteq Ids
  <2>1. gm = {h.obj[o].message : o \in S} \ {None} /\ gb \subseteq Ids
    BY DEF Gone
  <2> HIDE DEF S, gm, gb
  <2> QED
    BY <1>2, <2>1, HeapTypes
<1> HIDE DEF S, g, gm, gb, h2
<1>4. \A T : T \subseteq Ids => IsFiniteSet(T) /\ Cardinality(T) \in Nat
  BY IdsFinite, FS_Subset, FS_CardinalityType, Zenon
<1>5. /\ \A b : /\ Cardinality({m \in gm : h.msg[m].body = b}) \in Nat
                /\ Cardinality({c \in gb : h.bobj[c].body = b}) \in Nat
                /\ Cardinality({o \in S : h.obj[o].body = b}) \in Nat
      /\ \A o : References(h, S, o) \in Nat
  <2>1. \A b : /\ {m \in gm : h.msg[m].body = b} \subseteq Ids
               /\ {c \in gb : h.bobj[c].body = b} \subseteq Ids
               /\ {o \in S : h.obj[o].body = b} \subseteq Ids
    BY <1>2, <1>3
  <2>2. \A o : References(h, S, o) \in Nat
    BY <1>2, ReferencesNat
  <2> QED
    BY <1>4, <2>1, <2>2
<1>6. \A x \in Ids : /\ h.obj[x] \in [refs : Nat, message : Ids \cup {None}, parent : Ids \cup {None},
                                      body : Ids \cup {None}, iterator : Ids \cup {None}]
                     /\ h.obj[x].refs \in Nat /\ h.body[x] \in Nat
                     /\ h.bobj[x] \in [refs : Nat, body : Ids \cup {None}] /\ h.bobj[x].refs \in Nat
  BY HeapTypes
<1>7. ASSUME NEW x \in Ids, h2.obj[x].refs > 0 PROVE h.obj[x].refs > 0
  <2>1. x \notin S
    BY <1>1, <1>7 DEF NoObject
  <2>2. h2.obj[x] = [h.obj[x] EXCEPT !.refs = @ - References(h, S, x)]
    BY <1>1, <2>1
  <2>3. h2.obj[x].refs = h.obj[x].refs - References(h, S, x)
    BY <1>6, <2>2
  <2> QED
    BY <1>5, <1>6, <1>7, <2>3, LowerNat
<1>8. ASSUME NEW x \in Ids, h2.msg[x].kind # "free" PROVE h.msg[x].kind # "free"
  BY <1>1, <1>8 DEF NoMessage
<1>9. ASSUME NEW x \in Ids, h2.bobj[x].refs > 0 PROVE h.bobj[x].refs > 0
  <2>1. x \notin gb
    BY <1>1, <1>9 DEF NoBodyObject
  <2>2. h2.bobj[x] = [h.bobj[x] EXCEPT !.refs = @ - Cardinality({o \in S : h.obj[o].body = x})]
    BY <1>1, <2>1
  <2>3. h2.bobj[x].refs = h.bobj[x].refs - Cardinality({o \in S : h.obj[o].body = x})
    BY <1>6, <2>2
  <2> DEFINE a == h.bobj[x].refs
             b == Cardinality({o \in S : h.obj[o].body = x})
             d == h2.bobj[x].refs
  <2>4. a \in Nat /\ b \in Nat
    BY <1>5, <1>6, Zenon
  <2>5. d = a - b /\ d > 0
    BY <1>9, <2>3
  <2>6. a > 0
    <3> HIDE DEF a, b, d
    <3> QED
      BY <2>4, <2>5
  <2> QED
    BY <2>6
<1>10. ASSUME NEW x \in Ids, h2.body[x] > 0 PROVE h.body[x] > 0
  <2>1. h2.body[x] = h.body[x] - Cardinality({m \in gm : h.msg[m].body = x})
                               - Cardinality({c \in gb : h.bobj[c].body = x})
    BY <1>1
  <2> DEFINE a == h.body[x]
             b == Cardinality({m \in gm : h.msg[m].body = x})
             c == Cardinality({z \in gb : h.bobj[z].body = x})
             d == h2.body[x]
  <2>2. a \in Nat
    BY <1>6
  <2>3. b \in Nat /\ c \in Nat
    BY <1>5, Zenon
  <2>4. d = a - b - c
    BY <2>1
  <2>5. d > 0
    BY <1>10
  <2>6. a > 0
    <3> HIDE DEF a, b, c, d
    <3> QED
      BY <2>2, <2>3, <2>4, <2>5
  <2> QED
    BY <2>6
<1>11. /\ Objects(h2) \subseteq Objects(h) /\ Messages(h2) \subseteq Messages(h)
       /\ Bodies(h2) \subseteq Bodies(h) /\ BodyObjects(h2) \subseteq BodyObjects(h)
  BY <1>7, <1>8, <1>9, <1>10 DEF Objects, Messages, Bodies, BodyObjects
<1> QED
  BY <1>11 DEF Used, h2

LEMMA ReleasedUsed ==
  ASSUME NEW h \in Heap, NEW o \in Ids, h.obj[o].refs > 0
  PROVE  Used(Release(h, o)) \subseteq Used(h)
<1> DEFINE h1 == [h EXCEPT !.obj[o].refs = @ - 1]
           v == [h.obj[o] EXCEPT !.refs = @ - 1]
           new == [h.obj EXCEPT ![o] = v]
<1>1. h.obj \in [Ids -> Object] /\ h.obj[o] \in Object /\ h.obj[o].refs \in Nat
  BY HeapRecord DEF Object
<1>2. v \in Object
  BY <1>1 DEF Object
<1>3. h1 = [obj |-> new, msg |-> h.msg, body |-> h.body, bobj |-> h.bobj]
  <2>1. h1 = [h EXCEPT !.obj = new]
    OBVIOUS
  <2> HIDE DEF new, h1
  <2> QED
    BY <2>1, HeapRecord
<1> HIDE DEF v
<1>4. new \in [Ids -> Object] /\ \A x \in Ids \ {o} : new[x] = h.obj[x]
  BY <1>1, <1>2
<1> HIDE DEF new, h1
<1>5. h1 \in Heap
  BY <1>3, <1>4, HeapRecord, HeapOf, Zenon
<1>6. Used(h1) \subseteq Used(h)
  <2>1. Objects(h1) \subseteq Objects(h)
    BY <1>3, <1>4 DEF Objects
  <2>2. Messages(h1) = Messages(h) /\ Bodies(h1) = Bodies(h) /\ BodyObjects(h1) = BodyObjects(h)
    BY <1>3 DEF Messages, Bodies, BodyObjects
  <2> QED
    BY <2>1, <2>2 DEF Used
<1>7. Release(h, o) = Collected(h1)
  BY DEF Release, h1
<1> QED
  BY <1>5, <1>6, <1>7, CollectedUsed

LEMMA RelinkedUsed ==
  ASSUME NEW h \in Heap, Freed(h), NEW h2, Relinks(h2, h)
  PROVE  Used(h2) \subseteq Used(h)
<1>1. \A x \in Ids : /\ h2.obj[x] = NoObject <=> h.obj[x] = NoObject
                     /\ h2.msg[x].kind = h.msg[x].kind /\ h2.body[x] = h.body[x] /\ h2.bobj[x] = h.bobj[x]
  BY DEF Relinks
<1>2. ASSUME NEW x \in Ids, h2.obj[x].refs > 0 PROVE h.obj[x].refs > 0
  <2>1. h2.obj[x] # NoObject
    BY <1>2 DEF NoObject
  <2>2. x \in Live(h)
    BY <1>1, <2>1 DEF Live
  <2> QED
    BY <2>2 DEF Freed
<1>3. Objects(h2) \subseteq Objects(h)
  BY <1>2 DEF Objects
<1>4. Messages(h2) = Messages(h) /\ Bodies(h2) = Bodies(h) /\ BodyObjects(h2) = BodyObjects(h)
  BY <1>1 DEF Messages, Bodies, BodyObjects
<1> QED
  BY <1>3, <1>4 DEF Used

LEMMA PrependedUsed ==
  ASSUME NEW h, NEW r \in [Ids -> Nat], NEW br \in [Ids -> Nat], Sound(h, r, br), Freed(h),
         NEW o \in Live(h), NEW p \in Live(h)
  PROVE  Used(Prepended(h, o, p, TRUE)) \subseteq Used(h)
<1> DEFINE at == Last(ObjectChain(h, o))
<1>1. at \in Live(h) /\ h \in Heap
  BY ObjectChainIs, Zenon DEF Sound, Built
<1>2. Prepended(h, o, p, TRUE) = LinkedWith(h, at, p)
  BY DEF Prepended, Target, LinkedWith
<1> HIDE DEF at
<1>3. Relinks(LinkedWith(h, at, p), h)
  BY <1>1, LinkedMoves DEF LinkMoved
<1> QED
  BY <1>1, <1>2, <1>3, RelinkedUsed, Zenon

-----------------------------------------------------------------------------
(* What the client does *)

LEMMA PlusCommutes ==
  ASSUME NEW r \in [Ids -> Nat], NEW x, NEW y
  PROVE  Plus(Plus(r, x), y) = Plus(Plus(r, y), x)
<1>1. \A o \in Ids : Plus(Plus(r, x), y)[o] = Plus(Plus(r, y), x)[o]
  BY DEF Plus
<1>2. Plus(Plus(r, x), y) \in [Ids -> Nat] /\ Plus(Plus(r, y), x) \in [Ids -> Nat]
  BY PlusNat
<1> QED
  BY <1>1, <1>2

\* New messages are apart from all others.
LEMMA MadeApart ==
  ASSUME NEW h, NEW r \in [Ids -> Nat], NEW br \in [Ids -> Nat], Sound(h, r, br), Freed(h),
         NEW ms, NewIds(h, ms), ms # <<>>, NEW h2, Made(h2, h, r, br, ms), NEW q \in Live(h)
  PROVE  Apart(h2, ms[1], q) /\ q \in Live(h2) /\ ms[1] \in Live(h2)
<1> DEFINE W == ToSet(ms)
           m == h.obj[q].message
           c == MessageChain(h2, m)
           B == Messages(h)
<1>1. ms \in Seq(Ids) /\ W \cap Used(h) = {} /\ W \subseteq Ids /\ ms[1] \in W /\ ms[1] \in Ids
  <2>1. ms \in Seq(Ids) /\ W \cap Used(h) = {}
    BY DEF NewIds
  <2>2. 1 \in 1 .. Len(ms)
    BY <2>1
  <2> QED
    BY <2>1, <2>2, AddedAre
<1>2. /\ Sound(h2, Plus(r, ms[1]), br) /\ Live(h2) = Live(h) \cup W
      /\ \A x \in Ids \ W : h2.msg[x] = h.msg[x] /\ h2.obj[x] = h.obj[x]
      /\ h2.obj[ms[1]].message = ms[1] /\ MessageChain(h2, ms[1]) = ms
  BY DEF Made, Stays
<1>3. /\ Live(h) \subseteq Ids /\ B \subseteq Ids /\ m \in B /\ None \notin Ids
      /\ \A y \in B : h.msg[y].parent \in B \cup {None}
  BY SoundLives, IdsFinite DEF Sound, Built
<1>4. B \cap W = {}
  BY <1>1 DEF Used
<1>5. q \in Ids \ W
  <2>1. q \in Used(h)
    BY DEF Freed, Used, Objects, Live
  <2> QED
    BY <1>1, <1>3, <2>1
<1>6. h2.obj[q].message = m
  BY <1>2, <1>5
<1>7. IsChain(MessageLinks(h2), c, m)
  <2>1. m \in Ids /\ Plus(r, ms[1]) \in [Ids -> Nat]
    BY <1>3, PlusNat
  <2> QED
    BY <1>2, <2>1, MessageChainIs, Zenon
<1>8. \A y \in B : MessageLinks(h2)[y] # None => MessageLinks(h2)[y] \in B
  BY <1>2, <1>3, <1>4, Zenon DEF MessageLinks
<1> HIDE DEF W, m, c, B
<1>9. ToSet(c) \subseteq B
  BY <1>3, <1>7, <1>8, ChainClosed
<1>10. Apart(h2, ms[1], q)
  BY <1>2, <1>4, <1>6, <1>9 DEF Apart, c, W
<1> QED
  BY <1>1, <1>2, <1>10

\* handle_history
LEMMA RecordedSound ==
  ASSUME NEW h, NEW r \in [Ids -> Nat], NEW br \in [Ids -> Nat],
         history \in Ids \cup {None}, Sound(h, Plus(r, history), br), Freed(h),
         NEW responses \in Seq(Kinds), responses # <<>>, NEW requests \in Seq(Kinds), requests # <<>>,
         NEW k \in Nat, Room(h, Len(responses) + Len(requests) + k)
  PROVE  LET h2 == Recorded(h, responses, requests)
         IN /\ Stays(h2, h, Plus(r, Fresh(h, 1)), br) /\ Room(h2, k) /\ Fresh(h, 1) \in Ids
<1> DEFINE one == Fresh(h, 1)
           h1 == WithMessages(h, responses)
           two == Fresh(h1, 1)
           h2 == WithObjects(Zipped(WithMessages(h1, requests), one, two), one)
           n == Len(responses) + Len(requests)
           roots == Plus(r, history)
           h3 == Prepended(h2, one, history, TRUE)
           h4 == Recorded(h, responses, requests)
<1>1. roots \in [Ids -> Nat] /\ h \in Heap /\ n \in Nat /\ None \notin Ids
  BY PlusNat, IdsFinite DEF Sound, Built
<1>2. Room(h, n) /\ Room(h, n + k)
  <2>1. Cardinality(Used(h)) \in Nat /\ MaxRoom \in Nat
    BY UsedFinite, BoundsAssumption
  <2> HIDE DEF n
  <2>2. Room(h, n + k)
    BY DEF n
  <2> QED
    BY <1>1, <2>1, <2>2 DEF Room
<1>3. PICK zs : NewIds(h, zs) /\ zs # <<>> /\ zs[1] = one /\ Len(zs) = n /\ Made(h2, h, roots, br, zs)
  BY <1>1, <1>2, ExchangeMade, Zenon
<1>4. h4 = IF history = None THEN h2 ELSE Release(h3, history)
  BY DEF Recorded
<1>5. one \in Ids
  <2>1. zs \in Seq(Ids) /\ 1 \in 1 .. Len(zs)
    BY <1>3 DEF NewIds
  <2> QED
    BY <1>3, <2>1
<1> HIDE DEF one, h1, two, h2, n, roots, h4
<1>6. Stays(h2, h, Plus(roots, one), br) /\ Used(h2) = Used(h) \cup ToSet(zs)
  BY <1>3 DEF Made
<1>7. Plus(roots, one) \in [Ids -> Nat] /\ Plus(r, one) \in [Ids -> Nat]
  BY <1>1, PlusNat, Zenon
<1>8. CASE history = None
  <2>1. Plus(roots, one) = Plus(r, one)
    BY <1>8, PlusNone, Zenon DEF roots
  <2>2. Stays(h4, h, Plus(r, one), br) /\ Used(h4) \subseteq Used(h) \cup ToSet(zs)
    BY <1>4, <1>6, <1>8, <2>1
  <2>3. Room(h4, k)
    BY <1>2, <1>3, <2>2, RoomLeft, Zenon
  <2> QED
    BY <1>5, <2>2, <2>3 DEF h4, one
<1>9. CASE history # None
  <2>1. history \in Ids /\ roots[history] > 0
    BY <1>9 DEF roots, Plus
  <2>2. history \in Live(h)
    BY <1>1, <2>1, SoundLives, Zenon DEF roots
  <2>3. Apart(h2, one, history) /\ history \in Live(h2) /\ one \in Live(h2)
    BY <1>1, <1>3, <2>2, MadeApart, Zenon DEF roots
  <2>4. Sound(h2, Plus(roots, one), br) /\ Freed(h2)
    BY <1>6 DEF Stays
  <2>5. Stays(h3, h2, Plus(roots, one), br)
    BY <1>7, <2>3, <2>4, PrependedStays, Zenon
  <2> HIDE DEF h3
  <2>6. Stays(h3, h, Plus(roots, one), br)
    BY <1>6, <2>5 DEF Stays
  <2>7. Plus(roots, one) = Plus(Plus(r, one), history)
    BY PlusCommutes DEF roots
  <2>8. Stays(h4, h, Plus(r, one), br)
    <3>1. Stays(h3, h, Plus(Plus(r, one), history), br)
      BY <2>6, <2>7
    <3>2. Stays(IF history = None THEN h3 ELSE Release(h3, history), h, Plus(r, one), br)
      BY <1>7, <2>1, <3>1, ReleasedStays, Zenon
    <3> QED
      BY <1>4, <1>9, <3>2
  <2>9. Used(h3) \subseteq Used(h2)
    BY <1>7, <2>3, <2>4, PrependedUsed, Zenon DEF h3
  <2>10. Used(h4) \subseteq Used(h3)
    <3>1. Sound(h3, Plus(Plus(r, one), history), br) /\ Freed(h3)
      BY <2>6, <2>7 DEF Stays
    <3>2. Plus(Plus(r, one), history) \in [Ids -> Nat] /\ Plus(Plus(r, one), history)[history] > 0
      BY <1>7, <2>1, PlusNat, PlusMinus, Zenon
    <3>3. history \in Live(h3) /\ h3 \in Heap
      BY <2>1, <3>1, <3>2, SoundLives, Zenon
    <3>4. h3.obj[history].refs > 0
      BY <3>1, <3>3 DEF Freed
    <3>5. Used(Release(h3, history)) \subseteq Used(h3)
      BY <2>1, <3>3, <3>4, ReleasedUsed
    <3> QED
      BY <1>4, <1>9, <3>5
  <2>11. Used(h4) \subseteq Used(h) \cup ToSet(zs)
    BY <1>6, <2>9, <2>10
  <2>12. Room(h4, k)
    BY <1>2, <1>3, <2>11, RoomLeft, Zenon
  <2> QED
    BY <1>5, <2>8, <2>12 DEF h4, one
<1> QED
  BY <1>8, <1>9

\* handle_response, once the exchange is recorded or not.
LEMMA RespondedStays ==
  ASSUME NEW h, NEW r \in [Ids -> Nat], NEW br \in [Ids -> Nat], Sound(h, r, br), Freed(h),
         NEW kind \in Kinds, Room(h, 1), NEW q \in Live(h)
  PROVE  LET o == Fresh(h, 1)
             h2 == WithObjects(WithMessages(h, <<kind>>), o)
         IN Stays(Prepended(h2, o, q, TRUE), h, Plus(r, o), br) /\ o \in Ids
<1> DEFINE o == Fresh(h, 1)
           h2 == WithObjects(WithMessages(h, <<kind>>), o)
           ms == FreshIds(h, 1)
<1>1. <<kind>> \in Seq(Kinds) /\ <<kind>> # <<>> /\ Len(<<kind>>) = 1 /\ h \in Heap
  BY DEF Sound, Built
<1>2. Made(h2, h, r, br, ms) /\ ms[1] = o
  BY <1>1, ObjectsMade, Zenon
<1>3. NewIds(h, ms) /\ ms # <<>> /\ o \in Ids
  BY <1>1, <1>2, FreshNew, ZenonT(30)
<1> HIDE DEF o, h2, ms
<1>4. Apart(h2, o, q) /\ q \in Live(h2) /\ o \in Live(h2)
  BY <1>2, <1>3, MadeApart, Zenon
<1>5. Stays(h2, h, Plus(r, o), br) /\ Plus(r, o) \in [Ids -> Nat]
  BY <1>2, PlusNat DEF Made
<1>6. Stays(Prepended(h2, o, q, TRUE), h2, Plus(r, o), br)
  BY <1>4, <1>5, PrependedStays, Zenon DEF Stays
<1>7. Stays(Prepended(h2, o, q, TRUE), h, Plus(r, o), br)
  BY <1>5, <1>6, Zenon DEF Stays
<1> QED
  BY <1>3, <1>7, Zenon DEF o, h2

-----------------------------------------------------------------------------
(* Bodies *)

\* Only the bodies of objects, messages and body objects may differ.
BodiesOnly(h2, h) ==
    /\ h2 \in Heap
    /\ \A x \in Ids : /\ h2.obj[x] = NoObject <=> h.obj[x] = NoObject
                      /\ h2.obj[x].refs = h.obj[x].refs /\ h2.obj[x].message = h.obj[x].message
                      /\ h2.obj[x].parent = h.obj[x].parent /\ h2.obj[x].iterator = h.obj[x].iterator
                      /\ h2.msg[x].kind = h.msg[x].kind /\ h2.msg[x].parent = h.msg[x].parent
                      /\ x \notin Messages(h) => h2.msg[x] = h.msg[x]
                      /\ x \in Messages(h) => h2.msg[x].body \in Ids

IsOne(a, x) == IF a = x THEN 1 ELSE 0

\* One object, one message and one body object may have another body, and what is
\* counted changes by that.
BodiesMoved(h2, h, br2, br, o, m, k) ==
    /\ MovedAt(ObjectBodies(h2), ObjectBodies(h), o)
    /\ MovedAt(MessageBodies(h2), MessageBodies(h), m)
    /\ MovedAt(BodiesOf(h2), BodiesOf(h), k)
    /\ \A x \in Ids : /\ h2.bobj[x].refs + IsOne(h.obj[o].body, x) + br[x] = h.bobj[x].refs + IsOne(h2.obj[o].body, x) + br2[x]
                      /\ h2.body[x] + IsOne(h.msg[m].body, x) + IsOne(h.bobj[k].body, x)
                           = h.body[x] + IsOne(h2.msg[m].body, x) + IsOne(h2.bobj[k].body, x)

CountMoves(g, f, a, x) ==
    /\ HowMany(g, Ids, x) + IsOne(f[a], x) = HowMany(f, Ids, x) + IsOne(g[a], x)
    /\ HowMany(f, Ids, x) \in Nat /\ HowMany(g, Ids, x) \in Nat /\ IsOne(f[a], x) \in Nat /\ IsOne(g[a], x) \in Nat

LEMMA MovedCounts ==
  ASSUME NEW f, NEW g, NEW a \in Ids, MovedAt(g, f, a), NEW x
  PROVE  CountMoves(g, f, a, x)
  BY HowManyMoved DEF CountMoves, IsOne

LEMMA RebodiedCounted ==
  ASSUME NEW h \in Heap, NEW r \in [Ids -> Nat], NEW br \in [Ids -> Nat], Counted(h, r, br),
         NEW br2 \in [Ids -> Nat], NEW h2 \in Heap,
         ObjectLinks(h2) = ObjectLinks(h), Iterators(h2) = Iterators(h),
         \A x \in Ids : h2.obj[x].refs = h.obj[x].refs,
         NEW o \in Ids, NEW m \in Ids, NEW k \in Ids, BodiesMoved(h2, h, br2, br, o, m, k)
  PROVE  Counted(h2, r, br2)
<1>1. /\ ObjectBodies(h)[o] = h.obj[o].body /\ ObjectBodies(h2)[o] = h2.obj[o].body
      /\ MessageBodies(h)[m] = h.msg[m].body /\ MessageBodies(h2)[m] = h2.msg[m].body
      /\ BodiesOf(h)[k] = h.bobj[k].body /\ BodiesOf(h2)[k] = h2.bobj[k].body
  BY DEF ObjectBodies, MessageBodies, BodiesOf
<1>2. ASSUME NEW c \in Ids PROVE h2.bobj[c].refs = br2[c] + HowMany(ObjectBodies(h2), Ids, c)
  <2> DEFINE n == HowMany(ObjectBodies(h), Ids, c)
             n2 == HowMany(ObjectBodies(h2), Ids, c)
             i == IsOne(h.obj[o].body, c)
             i2 == IsOne(h2.obj[o].body, c)
             a == h.bobj[c].refs
             a2 == h2.bobj[c].refs
             b == br[c]
             b2 == br2[c]
  <2>1. n2 + i = n + i2 /\ n \in Nat /\ n2 \in Nat /\ i \in Nat /\ i2 \in Nat
    <3>1. MovedAt(ObjectBodies(h2), ObjectBodies(h), o)
      BY DEF BodiesMoved
    <3>2. CountMoves(ObjectBodies(h2), ObjectBodies(h), o, c)
      BY <3>1, MovedCounts
    <3> QED
      BY <1>1, <3>2 DEF CountMoves
  <2>2. a2 + i + b = a + i2 + b2
    BY DEF BodiesMoved
  <2>3. a = b + n
    BY DEF Counted
  <2>4. b \in Nat /\ b2 \in Nat
    OBVIOUS
  <2>5. a \in Nat /\ a2 \in Nat
    BY HeapTypes
  <2>6. a2 = b2 + n2
    <3> HIDE DEF n, n2, i, i2, a, a2, b, b2
    <3> QED
      BY <2>1, <2>2, <2>3, <2>4, <2>5
  <2> QED
    BY <2>6
<1>3. ASSUME NEW y \in Ids PROVE h2.body[y] = HowMany(MessageBodies(h2), Ids, y) + HowMany(BodiesOf(h2), Ids, y)
  <2> DEFINE n == HowMany(MessageBodies(h), Ids, y)
             n2 == HowMany(MessageBodies(h2), Ids, y)
             l == HowMany(BodiesOf(h), Ids, y)
             l2 == HowMany(BodiesOf(h2), Ids, y)
             i == IsOne(h.msg[m].body, y)
             i2 == IsOne(h2.msg[m].body, y)
             j == IsOne(h.bobj[k].body, y)
             j2 == IsOne(h2.bobj[k].body, y)
             a == h.body[y]
             a2 == h2.body[y]
  <2>1. n2 + i = n + i2 /\ n \in Nat /\ n2 \in Nat /\ i \in Nat /\ i2 \in Nat
    <3>1. MovedAt(MessageBodies(h2), MessageBodies(h), m)
      BY DEF BodiesMoved
    <3>2. CountMoves(MessageBodies(h2), MessageBodies(h), m, y)
      BY <3>1, MovedCounts
    <3> QED
      BY <1>1, <3>2 DEF CountMoves
  <2>2. l2 + j = l + j2 /\ l \in Nat /\ l2 \in Nat /\ j \in Nat /\ j2 \in Nat
    <3>1. MovedAt(BodiesOf(h2), BodiesOf(h), k)
      BY DEF BodiesMoved
    <3>2. CountMoves(BodiesOf(h2), BodiesOf(h), k, y)
      BY <3>1, MovedCounts
    <3> QED
      BY <1>1, <3>2 DEF CountMoves
  <2>3. a2 + i + j = a + i2 + j2
    BY DEF BodiesMoved
  <2>4. a = n + l
    BY DEF Counted
  <2>5. a \in Nat /\ a2 \in Nat
    BY HeapTypes
  <2>6. a2 = n2 + l2
    <3> HIDE DEF n, n2, l, l2, i, i2, j, j2, a, a2
    <3> QED
      BY <2>1, <2>2, <2>3, <2>4, <2>5
  <2> QED
    BY <2>6
<1>4. \A x \in Ids : h2.obj[x].refs >= HowMany(ObjectLinks(h2), Ids, x) + HowMany(Iterators(h2), Ids, x) + r[x]
  BY DEF Counted
<1> QED
  BY <1>2, <1>3, <1>4 DEF Counted

\* The objects and messages are linked as before.
LEMMA RebodiedSound ==
  ASSUME NEW h, NEW r \in [Ids -> Nat], NEW br \in [Ids -> Nat], Sound(h, r, br),
         NEW br2 \in [Ids -> Nat], NEW h2, BodiesOnly(h2, h),
         NEW o \in Ids, NEW m \in Ids, NEW k \in Ids, BodiesMoved(h2, h, br2, br, o, m, k)
  PROVE  /\ Sound(h2, r, br2) /\ Orphans(h2) = Orphans(h) /\ Live(h2) = Live(h) /\ Messages(h2) = Messages(h)
         /\ Freed(h) /\ (\A c \in Ids : h2.bobj[c] = h.bobj[c] \/ h2.bobj[c].refs > 0) => Freed(h2)
<1>1. h \in Heap /\ h2 \in Heap /\ Built(h) /\ Agree(h) /\ Counted(h, r, br)
  BY DEF Sound, Built, BodiesOnly
<1>2. Live(h2) = Live(h) /\ Messages(h2) = Messages(h)
  BY DEF Live, Messages, BodiesOnly
<1>3. \A x \in Ids : h2.obj[x].message = h.obj[x].message /\ h2.obj[x].parent = h.obj[x].parent
  BY DEF BodiesOnly
<1>4. \A x \in Ids : h2.msg[x].parent = h.msg[x].parent
  BY DEF BodiesOnly
<1>5. Live(h) \subseteq Ids /\ Messages(h) \subseteq Ids /\ \A x \in Live(h) : h.obj[x].message \in Ids
  BY <1>1 DEF Live, Messages, Built
<1>6. Orphans(h2) = Orphans(h)
  <2>1. {h2.obj[x].message : x \in Live(h2)} = {h.obj[x].message : x \in Live(h)}
    BY <1>2, <1>3, <1>5
  <2> QED
    BY <1>2, <2>1, Zenon DEF Orphans
<1>7. ObjectLinks(h2) = ObjectLinks(h) /\ Iterators(h2) = Iterators(h) /\ MessageLinks(h2) = MessageLinks(h)
  BY DEF BodiesOnly, ObjectLinks, Iterators, MessageLinks
<1>8. Counted(h2, r, br2)
  <2>1. \A x \in Ids : h2.obj[x].refs = h.obj[x].refs
    BY DEF BodiesOnly
  <2> QED
    BY <1>1, <1>7, <2>1, RebodiedCounted, Zenon
<1>9. Built(h2)
  <2>1. \A x \in Live(h2) : h2.obj[x].message \in Messages(h2)
    BY <1>1, <1>2, <1>3, <1>5 DEF Built
  <2>2. \A x, y \in Live(h2) : h2.obj[x].message = h2.obj[y].message => x = y
    BY <1>1, <1>2, <1>3, <1>5 DEF Built
  <2>3. \A x \in Messages(h2) : h2.msg[x].parent \in Messages(h2) \cup {None} /\ h2.msg[x].body \in Ids
    <3>1. \A x \in Messages(h) : h2.msg[x].body \in Ids
      BY <1>5 DEF BodiesOnly
    <3> QED
      BY <1>1, <1>2, <1>4, <1>5, <3>1 DEF Built
  <2>4. \A x \in Ids \ Messages(h2) : h2.msg[x] = NoMessage
    BY <1>1, <1>2 DEF Built, BodiesOnly
  <2>5. Acyclic(MessageLinks(h2))
    BY <1>1, <1>7 DEF Built
  <2> QED
    BY <1>1, <2>1, <2>2, <2>3, <2>4, <2>5 DEF Built
<1>10. Agree(h2)
  <2>1. ASSUME NEW x \in Live(h2)
        PROVE  IF h2.obj[x].parent # None THEN h2.msg[h2.obj[x].message].parent = h2.obj[h2.obj[x].parent].message
               ELSE h2.msg[h2.obj[x].message].parent \in Orphans(h2) \cup {None}
    <3>1. x \in Live(h) /\ h2.obj[x].parent = h.obj[x].parent /\ h2.obj[x].message = h.obj[x].message /\ h.obj[x].message \in Ids
      BY <1>2, <1>3, <1>5
    <3>2. h2.msg[h.obj[x].message].parent = h.msg[h.obj[x].message].parent
      BY <1>4, <3>1
    <3>3. h.obj[x].parent # None => h.obj[x].parent \in Ids
      BY <1>1, <1>5, <3>1, HeapTypes
    <3>4. h.obj[x].parent # None => h2.obj[h.obj[x].parent].message = h.obj[h.obj[x].parent].message
      BY <1>3, <3>3
    <3>5. IF h.obj[x].parent # None THEN h.msg[h.obj[x].message].parent = h.obj[h.obj[x].parent].message
          ELSE h.msg[h.obj[x].message].parent \in Orphans(h) \cup {None}
      BY <1>1, <3>1 DEF Agree
    <3> QED
      BY <1>6, <3>1, <3>2, <3>4, <3>5
  <2>2. \A x \in Orphans(h2) : h2.msg[x].parent \in Orphans(h2) \cup {None}
    <3>1. Orphans(h) \subseteq Ids
      BY <1>5 DEF Orphans
    <3> QED
      BY <1>1, <1>4, <1>6, <3>1 DEF Agree
  <2> QED
    BY <2>1, <2>2 DEF Agree
<1>11. ASSUME Freed(h), \A c \in Ids : h2.bobj[c] = h.bobj[c] \/ h2.bobj[c].refs > 0 PROVE Freed(h2)
  <2>1. \A x \in Live(h2) : h2.obj[x].refs > 0
    BY <1>2, <1>5, <1>11 DEF Freed, BodiesOnly
  <2>2. \A c \in Ids : h2.bobj[c].refs = 0 => h2.bobj[c] = NoBodyObject
    BY <1>11 DEF Freed
  <2> QED
    BY <2>1, <2>2 DEF Freed
<1> QED
  BY <1>2, <1>6, <1>8, <1>9, <1>10, <1>11 DEF Sound

\* Only the count of one body object differs.
LEMMA BodyRefsIs ==
  ASSUME NEW h \in Heap, NEW c \in Ids, NEW n \in Nat
  PROVE  LET h2 == [h EXCEPT !.bobj[c].refs = n]
         IN /\ h2 \in Heap /\ h2.obj = h.obj /\ h2.msg = h.msg /\ h2.body = h.body
            /\ h2.bobj = [h.bobj EXCEPT ![c] = [refs |-> n, body |-> h.bobj[c].body]]
<1> DEFINE v == [refs |-> n, body |-> h.bobj[c].body]
           new == [h.bobj EXCEPT ![c] = v]
           h2 == [h EXCEPT !.bobj[c].refs = n]
<1>1. h.bobj \in [Ids -> [refs : Nat, body : Ids \cup {None}]] /\ h.bobj[c] \in [refs : Nat, body : Ids \cup {None}]
  BY HeapRecord, HeapTypes
<1>2. [h.bobj[c] EXCEPT !.refs = n] = v /\ v \in [refs : Nat, body : Ids \cup {None}]
  BY <1>1, WithBodyRefs
<1>3. [h.bobj EXCEPT ![c].refs = n] = new
  BY <1>1, <1>2
<1>4. h2 = [h EXCEPT !.bobj = [h.bobj EXCEPT ![c].refs = n]]
  BY HeapRecord
<1>5. new \in [Ids -> [refs : Nat, body : Ids \cup {None}]]
  BY <1>1, <1>2
<1> HIDE DEF v, new, h2
<1>6. h2 = [obj |-> h.obj, msg |-> h.msg, body |-> h.body, bobj |-> new]
  BY <1>3, <1>4, HeapRecord
<1>7. h2 \in Heap
  BY <1>5, <1>6, HeapRecord, HeapOf, Zenon
<1> QED
  BY <1>6, <1>7 DEF h2, new, v

LEMMA SameObjects ==
  ASSUME NEW h, NEW r, NEW br, Sound(h, r, br), NEW h2 \in Heap, h2.obj = h.obj, h2.msg = h.msg
  PROVE  BodiesOnly(h2, h)
<1>1. \A x \in Messages(h) : h.msg[x].body \in Ids
  BY DEF Sound, Built
<1> QED
  BY <1>1 DEF BodiesOnly

WithBodyCount(h, c, n) == [h EXCEPT !.bobj[c].refs = n]

BodyRecounted(h2, h, r, br2, n) ==
    /\ Sound(h2, r, br2) /\ Orphans(h2) = Orphans(h)
    /\ Matched(h) => Matched(h2)
    /\ Freed(h) /\ n > 0 => Freed(h2)

LEMMA BodyCountSound ==
  ASSUME NEW h, NEW r \in [Ids -> Nat], NEW br \in [Ids -> Nat], Sound(h, r, br),
         NEW c \in Ids, NEW br2 \in [Ids -> Nat], MovedAt(br2, br, c),
         NEW n \in Nat, n + br[c] = h.bobj[c].refs + br2[c]
  PROVE  BodyRecounted(WithBodyCount(h, c, n), h, r, br2, n)
<1> DEFINE h2 == WithBodyCount(h, c, n)
<1>1. h \in Heap
  BY DEF Sound, Built
<1>2. /\ h2 \in Heap /\ h2.obj = h.obj /\ h2.msg = h.msg /\ h2.body = h.body
      /\ h2.bobj = [h.bobj EXCEPT ![c] = [refs |-> n, body |-> h.bobj[c].body]]
  BY <1>1, BodyRefsIs, ZenonT(30) DEF WithBodyCount
<1> HIDE DEF h2
<1>3. BodiesOnly(h2, h)
  BY <1>2, SameObjects
<1>4. /\ \A x \in Ids : h2.bobj[x].body = h.bobj[x].body
      /\ h2.bobj[c].refs = n /\ \A x \in Ids \ {c} : h2.bobj[x] = h.bobj[x]
  <2>1. h.bobj \in [Ids -> [refs : Nat, body : Ids \cup {None}]]
    BY <1>1, HeapRecord
  <2>2. h2.bobj[c] = [refs |-> n, body |-> h.bobj[c].body] /\ \A x \in Ids \ {c} : h2.bobj[x] = h.bobj[x]
    BY <1>2, <2>1
  <2> QED
    BY <2>2
<1>5. ObjectBodies(h2) = ObjectBodies(h) /\ MessageBodies(h2) = MessageBodies(h) /\ BodiesOf(h2) = BodiesOf(h)
  BY <1>2, <1>4 DEF ObjectBodies, MessageBodies, BodiesOf
<1>6. BodiesMoved(h2, h, br2, br, c, c, c)
  <2>1. ASSUME NEW x \in Ids
        PROVE  h2.bobj[x].refs + IsOne(h.obj[c].body, x) + br[x] = h.bobj[x].refs + IsOne(h2.obj[c].body, x) + br2[x]
    <3>1. IsOne(h.obj[c].body, x) \in Nat /\ h2.obj[c].body = h.obj[c].body
      BY <1>2 DEF IsOne
    <3>2. h.bobj[x].refs \in Nat /\ h2.bobj[x].refs \in Nat /\ br[x] \in Nat /\ br2[x] \in Nat
      BY <1>1, <1>2, HeapTypes
    <3>3. h2.bobj[x].refs + br[x] = h.bobj[x].refs + br2[x]
      <4>1. CASE x = c
        BY <1>4, <4>1
      <4>2. CASE x # c
        BY <1>4, <4>2 DEF MovedAt
      <4> QED
        BY <4>1, <4>2
    <3> QED
      BY <3>1, <3>2, <3>3
  <2>2. \A x \in Ids : h2.body[x] + IsOne(h.msg[c].body, x) + IsOne(h.bobj[c].body, x)
                           = h.body[x] + IsOne(h2.msg[c].body, x) + IsOne(h2.bobj[c].body, x)
    BY <1>2, <1>4
  <2>3. MovedAt(ObjectBodies(h2), ObjectBodies(h), c) /\ MovedAt(MessageBodies(h2), MessageBodies(h), c)
        /\ MovedAt(BodiesOf(h2), BodiesOf(h), c)
    BY <1>5 DEF MovedAt
  <2> QED
    BY <2>1, <2>2, <2>3 DEF BodiesMoved
<1>7. /\ Sound(h2, r, br2) /\ Orphans(h2) = Orphans(h) /\ Live(h2) = Live(h)
      /\ Freed(h) /\ (\A x \in Ids : h2.bobj[x] = h.bobj[x] \/ h2.bobj[x].refs > 0) => Freed(h2)
  BY <1>3, <1>6, RebodiedSound
<1>8. Matched(h) => Matched(h2)
  <2>1. \A o \in Ids : h2.obj[o].body # None => h2.bobj[h2.obj[o].body].body = h.bobj[h.obj[o].body].body
    <3>1. \A o \in Ids : h.obj[o].body # None => h.obj[o].body \in Ids
      BY <1>1, HeapTypes
    <3> QED
      BY <1>2, <1>4, <3>1
  <2>2. Live(h) \subseteq Ids
    BY DEF Live
  <2> QED
    BY <1>2, <1>7, <2>1, <2>2 DEF Matched
<1>9. Freed(h) /\ n > 0 => Freed(h2)
  BY <1>4, <1>7
<1> QED
  BY <1>7, <1>8, <1>9 DEF h2, BodyRecounted

LEMMA AddBodyRefStays ==
  ASSUME NEW h, NEW r \in [Ids -> Nat], NEW br \in [Ids -> Nat], Sound(h, r, br), NEW c \in Ids
  PROVE  Stays(AddBodyRef(h, c), h, r, Plus(br, c))
<1> DEFINE n == h.bobj[c].refs + 1
           br2 == Plus(br, c)
<1>1. h \in Heap /\ h.bobj[c].refs \in Nat
  BY HeapTypes DEF Sound, Built
<1>2. AddBodyRef(h, c) = WithBodyCount(h, c, n)
  BY DEF AddBodyRef, WithBodyCount
<1>3. br2 \in [Ids -> Nat] /\ br2[c] = br[c] + 1 /\ MovedAt(br2, br, c)
  <2>1. br2 \in [Ids -> Nat]
    BY PlusNat
  <2> QED
    BY <2>1 DEF Plus, MovedAt
<1>4. n \in Nat /\ n > 0 /\ n + br[c] = h.bobj[c].refs + br2[c]
  BY <1>1, <1>3
<1> HIDE DEF n, br2
<1>5. BodyRecounted(WithBodyCount(h, c, n), h, r, br2, n)
  BY <1>3, <1>4, BodyCountSound, Zenon
<1> QED
  BY <1>2, <1>4, <1>5 DEF Stays, br2, BodyRecounted

LEMMA ReleaseBodyStays ==
  ASSUME NEW h, NEW r \in [Ids -> Nat], NEW br \in [Ids -> Nat], Sound(h, r, br), NEW c \in Ids, br[c] > 0
  PROVE  /\ Stays(ReleaseBody(h, c), h, r, [br EXCEPT ![c] = @ - 1])
         /\ Freed(ReleaseBody(h, c))
<1> DEFINE n == h.bobj[c].refs - 1
           br2 == [br EXCEPT ![c] = @ - 1]
           h1 == WithBodyCount(h, c, n)
<1>1. h \in Heap /\ h.bobj[c].refs \in Nat /\ h.bobj[c].refs > 0
  BY HeapTypes, SoundLives DEF Sound, Built
<1>2. ReleaseBody(h, c) = Collected(h1)
  BY DEF ReleaseBody, WithBodyCount
<1>3. br2 \in [Ids -> Nat] /\ br2[c] = br[c] - 1 /\ MovedAt(br2, br, c)
  BY DEF MovedAt
<1>4. n \in Nat /\ n + br[c] = h.bobj[c].refs + br2[c]
  BY <1>1, <1>3
<1> HIDE DEF n, br2
<1>5. BodyRecounted(WithBodyCount(h, c, n), h, r, br2, n)
  BY <1>3, <1>4, BodyCountSound, Zenon
<1>6. Sound(h1, r, br2) /\ Orphans(h1) = Orphans(h) /\ (Matched(h) => Matched(h1))
  BY <1>5 DEF BodyRecounted
<1> HIDE DEF h1
<1>7. Sound(Collected(h1), r, br2) /\ Freed(Collected(h1)) /\ Keeps(Collected(h1), h1)
  BY <1>3, <1>6, CollectedSound
<1>8. Matched(h1) => Matched(Collected(h1))
  BY <1>6, <1>7, KeepsMatched DEF Sound, Built
<1>9. Orphans(Collected(h1)) = Orphans(h1)
  BY <1>7 DEF Keeps
<1> QED
  BY <1>2, <1>6, <1>7, <1>8, <1>9 DEF Stays, br2

LEMMA FreshOne ==
  ASSUME NEW h, Room(h, 1)
  PROVE  Fresh(h, 1) \in Ids \ Used(h)
<1>1. FreshIds(h, 1) \in Seq(Ids) /\ ToSet(FreshIds(h, 1)) \cap Used(h) = {} /\ FreshIds(h, 1)[1] = Fresh(h, 1)
      /\ ToSet(FreshIds(h, 1)) = {FreshIds(h, 1)[i] : i \in 1 .. 1} /\ Fresh(h, 1) \in Ids
  BY FreshIs
<1>2. Fresh(h, 1) \in ToSet(FreshIds(h, 1))
  BY <1>1
<1> QED
  BY <1>1, <1>2

\* A body object with no body so far is v, and the bodies are counted as bd.
BodyObjectPut(h2, h, c, v, bd) ==
    /\ h2 \in Heap /\ h2.obj = h.obj /\ h2.msg = h.msg /\ h2.body = bd
    /\ h2.bobj[c] = v /\ \A x \in Ids \ {c} : h2.bobj[x] = h.bobj[x]

LEMMA BodyObjectPutIs ==
  ASSUME NEW h \in Heap, NEW c \in Ids, NEW v \in [refs : Nat, body : Ids \cup {None}], NEW bd \in [Ids -> Nat]
  PROVE  BodyObjectPut([h EXCEPT !.bobj[c] = v, !.body = bd], h, c, v, bd)
<1> DEFINE h2 == [h EXCEPT !.bobj[c] = v, !.body = bd]
           new == [h.bobj EXCEPT ![c] = v]
<1>1. h.bobj \in [Ids -> [refs : Nat, body : Ids \cup {None}]]
  BY HeapRecord
<1>2. new \in [Ids -> [refs : Nat, body : Ids \cup {None}]] /\ new[c] = v /\ \A x \in Ids \ {c} : new[x] = h.bobj[x]
  BY <1>1
<1> DEFINE h1 == [h EXCEPT !.bobj = new]
<1>3. h2 = [h1 EXCEPT !.body = bd]
  BY HeapRecord
<1> HIDE DEF new, h2
<1>a. h1 = [obj |-> h.obj, msg |-> h.msg, body |-> h.body, bobj |-> new]
  BY HeapRecord
<1> HIDE DEF h1
<1>4. h2 = [obj |-> h.obj, msg |-> h.msg, body |-> bd, bobj |-> new]
  BY <1>3, <1>a
<1>5. h2 \in Heap
  BY <1>2, <1>4, HeapRecord, HeapOf, Zenon
<1> QED
  BY <1>2, <1>4, <1>5, Zenon DEF h2, BodyObjectPut

\* How the bodies are counted when b has its first holder.
FirstOf(h, b, bd) ==
    IF b = None THEN bd = h.body ELSE b \in Ids /\ h.body[b] = 0 /\ bd = [h.body EXCEPT ![b] = 1]

LEMMA BodyObjectStays ==
  ASSUME NEW h, NEW r \in [Ids -> Nat], NEW br \in [Ids -> Nat], Sound(h, r, br),
         NEW c \in Ids, h.bobj[c].body = None, NEW n \in Nat \ {0}, NEW b, NEW bd, FirstOf(h, b, bd),
         NEW br2 \in [Ids -> Nat], MovedAt(br2, br, c), n + br[c] = h.bobj[c].refs + br2[c],
         NEW h2, BodyObjectPut(h2, h, c, [refs |-> n, body |-> b], bd)
  PROVE  Stays(h2, h, r, br2)
<1>1. h \in Heap /\ h2 \in Heap /\ None \notin Ids
  BY IdsFinite DEF Sound, Built, BodyObjectPut
<1>2. /\ h2.obj = h.obj /\ h2.msg = h.msg /\ h2.body = bd
      /\ h2.bobj[c].refs = n /\ h2.bobj[c].body = b /\ \A x \in Ids \ {c} : h2.bobj[x] = h.bobj[x]
  BY DEF BodyObjectPut
<1>3. BodiesOnly(h2, h)
  BY <1>1, <1>2, SameObjects
<1>4. BodiesMoved(h2, h, br2, br, c, c, c)
  <2>1. ASSUME NEW x \in Ids
        PROVE  h2.bobj[x].refs + IsOne(h.obj[c].body, x) + br[x] = h.bobj[x].refs + IsOne(h2.obj[c].body, x) + br2[x]
    <3>1. IsOne(h.obj[c].body, x) \in Nat /\ h2.obj[c].body = h.obj[c].body
      BY <1>2 DEF IsOne
    <3>2. h.bobj[x].refs \in Nat /\ h2.bobj[x].refs \in Nat /\ br[x] \in Nat /\ br2[x] \in Nat
      BY <1>1, HeapTypes
    <3>3. h2.bobj[x].refs + br[x] = h.bobj[x].refs + br2[x]
      <4>1. CASE x = c
        BY <1>2, <4>1
      <4>2. CASE x # c
        BY <1>2, <4>2 DEF MovedAt
      <4> QED
        BY <4>1, <4>2
    <3> QED
      BY <3>1, <3>2, <3>3
  <2>2. ASSUME NEW x \in Ids
        PROVE  h2.body[x] + IsOne(h.msg[c].body, x) + IsOne(h.bobj[c].body, x)
                 = h.body[x] + IsOne(h2.msg[c].body, x) + IsOne(h2.bobj[c].body, x)
    <3>1. IsOne(h.msg[c].body, x) \in Nat /\ h2.msg[c].body = h.msg[c].body
      BY <1>2 DEF IsOne
    <3>2. IsOne(h.bobj[c].body, x) = 0
      BY <1>1 DEF IsOne
    <3>3. h.body \in [Ids -> Nat] /\ h.body[x] \in Nat
      BY <1>1, HeapRecord
    <3>4. h2.body[x] = h.body[x] + IsOne(b, x)
      <4>1. CASE b = None
        BY <1>1, <1>2, <3>3, <4>1 DEF FirstOf, IsOne
      <4>2. CASE b # None
        <5>1. b \in Ids /\ h.body[b] = 0 /\ h2.body = [h.body EXCEPT ![b] = 1]
          BY <1>2, <4>2 DEF FirstOf
        <5> QED
          BY <3>3, <5>1 DEF IsOne
      <4> QED
        BY <4>1, <4>2
    <3>5. IsOne(b, x) \in Nat
      BY DEF IsOne
    <3> QED
      BY <1>2, <3>1, <3>2, <3>3, <3>4, <3>5
  <2>3. MovedAt(ObjectBodies(h2), ObjectBodies(h), c) /\ MovedAt(MessageBodies(h2), MessageBodies(h), c)
        /\ MovedAt(BodiesOf(h2), BodiesOf(h), c)
    BY <1>2 DEF MovedAt, ObjectBodies, MessageBodies, BodiesOf
  <2> QED
    BY <2>1, <2>2, <2>3 DEF BodiesMoved
<1>5. /\ Sound(h2, r, br2) /\ Orphans(h2) = Orphans(h) /\ Live(h2) = Live(h)
      /\ Freed(h) /\ (\A x \in Ids : h2.bobj[x] = h.bobj[x] \/ h2.bobj[x].refs > 0) => Freed(h2)
  BY <1>3, <1>4, RebodiedSound
<1>6. Freed(h) => Freed(h2)
  BY <1>2, <1>5
<1>7. ASSUME Matched(h) PROVE Matched(h2)
  <2>1. ASSUME NEW o \in Live(h), h.obj[o].body # None PROVE h2.bobj[h.obj[o].body].body = h.msg[h.obj[o].message].body
    <3>1. h.bobj[h.obj[o].body].body = h.msg[h.obj[o].message].body
      BY <1>7, <2>1 DEF Matched
    <3>2. h.msg[h.obj[o].message].body \in Ids
      BY DEF Sound, Built
    <3>3. h.obj[o].body # c
      BY <1>1, <3>1, <3>2
    <3>4. h.obj[o].body \in Ids
      BY <1>1, <2>1, HeapTypes DEF Live
    <3> QED
      BY <1>2, <3>1, <3>3, <3>4
  <2> QED
    BY <1>2, <1>5, <2>1 DEF Matched
<1> QED
  BY <1>5, <1>6, <1>7 DEF Stays

\* new http\Message\Body and its copy
LEMMA NewBodyStays ==
  ASSUME NEW h, NEW r \in [Ids -> Nat], NEW br \in [Ids -> Nat], Sound(h, r, br), Freed(h), Room(h, 1),
         NEW some \in BOOLEAN
  PROVE  LET x == Fresh(h, 1)
         IN /\ Stays([h EXCEPT !.bobj[x] = [refs |-> 1, body |-> IF some THEN x ELSE None],
                               !.body = IF some THEN [@ EXCEPT ![x] = 1] ELSE @], h, r, Plus(br, x))
            /\ x \in Ids
<1> DEFINE x == Fresh(h, 1)
           b == IF some THEN x ELSE None
           v == [refs |-> 1, body |-> b]
           bd == IF some THEN [h.body EXCEPT ![x] = 1] ELSE h.body
           h2 == [h EXCEPT !.bobj[x] = v, !.body = bd]
           br2 == Plus(br, x)
<1>1. h \in Heap /\ x \in Ids \ Used(h) /\ None \notin Ids
  BY FreshOne, IdsFinite DEF Sound, Built
<1>2. [h EXCEPT !.bobj[x] = v, !.body = IF some THEN [@ EXCEPT ![x] = 1] ELSE @] = h2
  BY <1>1, HeapRecord
<1> HIDE DEF x
<1>3. h.body[x] = 0 /\ h.bobj[x] = NoBodyObject /\ br[x] = 0
  BY <1>1, UnusedIs
<1>4. h.body \in [Ids -> Nat] /\ bd \in [Ids -> Nat] /\ v \in [refs : Nat, body : Ids \cup {None}]
  BY <1>1, HeapRecord
<1>5. FirstOf(h, b, bd)
  BY <1>1, <1>3 DEF FirstOf
<1>6. br2 \in [Ids -> Nat] /\ MovedAt(br2, br, x) /\ br2[x] = 1
  <2>1. br2 \in [Ids -> Nat]
    BY PlusNat
  <2> QED
    BY <1>1, <1>3, <2>1 DEF Plus, MovedAt
<1>7. 1 + br[x] = h.bobj[x].refs + br2[x] /\ h.bobj[x].body = None
  BY <1>3, <1>6 DEF NoBodyObject
<1> HIDE DEF bd, h2, br2
<1>8. BodyObjectPut(h2, h, x, v, bd)
  BY <1>1, <1>4, BodyObjectPutIs, Zenon DEF h2
<1> HIDE DEF b
<1>9. Stays(h2, h, r, br2)
  BY <1>1, <1>5, <1>6, <1>7, <1>8, BodyObjectStays
<1> QED
  BY <1>1, <1>2, <1>9 DEF x, b, br2

LEMMA UseBodyStays ==
  ASSUME NEW h, NEW r \in [Ids -> Nat], NEW br \in [Ids -> Nat], Sound(h, r, br), Freed(h), Room(h, 1),
         NEW c \in Ids, br[c] > 0, h.bobj[c].body = None
  PROVE  Stays([h EXCEPT !.bobj[c].body = Fresh(h, 1), !.body[Fresh(h, 1)] = 1], h, r, br)
<1> DEFINE x == Fresh(h, 1)
           n == h.bobj[c].refs
           v == [refs |-> n, body |-> x]
           bd == [h.body EXCEPT ![x] = 1]
           h2 == [h EXCEPT !.bobj[c] = v, !.body = bd]
<1>1. h \in Heap /\ x \in Ids \ Used(h) /\ None \notin Ids
  BY FreshOne, IdsFinite DEF Sound, Built
<1> HIDE DEF x
<1>2. h.bobj \in [Ids -> [refs : Nat, body : Ids \cup {None}]] /\ h.body \in [Ids -> Nat]
  BY <1>1, HeapRecord
<1>3. [h EXCEPT !.bobj[c].body = x, !.body[x] = 1] = h2
  <2>1. [h.bobj[c] EXCEPT !.body = x] = v
    BY <1>2
  <2>2. [h EXCEPT !.bobj[c].body = x, !.body[x] = 1] = [h EXCEPT !.bobj[c] = [h.bobj[c] EXCEPT !.body = x], !.body = bd]
    BY <1>1, <1>2, HeapRecord
  <2> QED
    BY <2>1, <2>2, Zenon
<1>4. h.body[x] = 0
  BY <1>1, UnusedIs
<1>5. bd \in [Ids -> Nat] /\ n \in Nat \ {0} /\ v \in [refs : Nat, body : Ids \cup {None}]
  <2>1. n > 0
    BY SoundLives, Zenon
  <2> QED
    BY <1>1, <1>2, <2>1
<1>6. FirstOf(h, x, bd)
  BY <1>1, <1>4 DEF FirstOf
<1>7. MovedAt(br, br, c) /\ n + br[c] = h.bobj[c].refs + br[c]
  BY DEF MovedAt
<1> HIDE DEF bd, h2, n
<1>8. BodyObjectPut(h2, h, c, v, bd)
  BY <1>1, <1>5, BodyObjectPutIs, Zenon DEF h2
<1>9. Stays(h2, h, r, br)
  BY <1>1, <1>5, <1>6, <1>7, <1>8, BodyObjectStays
<1> QED
  BY <1>3, <1>9 DEF x

\* The object o has the body object c, and its message the body b.
BodyGiven(h2, h, o, c, b) ==
    /\ h2 \in Heap
    /\ \A x \in Ids \ {o} : h2.obj[x] = h.obj[x]
    /\ h2.obj[o] = [refs |-> h.obj[o].refs, message |-> h.obj[o].message, parent |-> h.obj[o].parent,
                    body |-> c, iterator |-> h.obj[o].iterator]
    /\ \A x \in Ids : /\ h2.msg[x].kind = h.msg[x].kind /\ h2.msg[x].parent = h.msg[x].parent
                      /\ h2.msg[x].body = IF x = h.obj[o].message THEN b ELSE h.msg[x].body

LEMMA BodyGivenMoves ==
  ASSUME NEW h, NEW r \in [Ids -> Nat], NEW br \in [Ids -> Nat], Sound(h, r, br),
         NEW o \in Live(h), NEW c, NEW b \in Ids, NEW h2, BodyGiven(h2, h, o, c, b)
  PROVE  /\ BodiesOnly(h2, h)
         /\ MovedAt(ObjectBodies(h2), ObjectBodies(h), o)
         /\ MovedAt(MessageBodies(h2), MessageBodies(h), h.obj[o].message)
         /\ h2.obj[o].body = c /\ h2.msg[h.obj[o].message].body = b
<1> DEFINE m == h.obj[o].message
<1>1. /\ h \in Heap /\ m \in Messages(h) /\ m # None /\ Messages(h) \subseteq Ids /\ m \in Ids /\ o \in Ids
      /\ \A x \in Messages(h) : h.msg[x].body \in Ids
  <2>1. m \in Messages(h) /\ m # None /\ Messages(h) \subseteq Ids /\ Live(h) \subseteq Ids
    BY SoundLives
  <2> QED
    BY <2>1 DEF Sound, Built
<1>2. h2.obj[o].refs = h.obj[o].refs /\ h2.obj[o].message = m /\ h2.obj[o].parent = h.obj[o].parent
      /\ h2.obj[o].iterator = h.obj[o].iterator /\ h2.obj[o].body = c
  BY DEF BodyGiven
<1>3. /\ \A x \in Ids \ {o} : h2.obj[x] = h.obj[x]
      /\ \A x \in Ids : /\ h2.msg[x].kind = h.msg[x].kind /\ h2.msg[x].parent = h.msg[x].parent
                        /\ h2.msg[x].body = IF x = m THEN b ELSE h.msg[x].body
      /\ h2 \in Heap
  BY DEF BodyGiven
<1> HIDE DEF m
<1>4. h2.obj[o] # NoObject /\ h.obj[o] # NoObject
  BY <1>1, <1>2 DEF NoObject, Live
<1>5. ASSUME NEW x \in Ids \ Messages(h) PROVE h2.msg[x] = h.msg[x]
  <2>1. h.msg[x] \in [kind : Kinds \cup {"free"}, parent : Ids \cup {None}, body : Ids \cup {None}]
    BY <1>1, HeapTypes
  <2>2. h2.msg[x] \in [kind : Kinds \cup {"free"}, parent : Ids \cup {None}, body : Ids \cup {None}]
    BY <1>3, HeapTypes
  <2>3. h2.msg[x].kind = h.msg[x].kind /\ h2.msg[x].parent = h.msg[x].parent /\ h2.msg[x].body = h.msg[x].body
    BY <1>1, <1>3
  <2> QED
    BY <2>1, <2>2, <2>3
<1>6. BodiesOnly(h2, h)
  <2>1. ASSUME NEW x \in Ids
        PROVE  /\ h2.obj[x] = NoObject <=> h.obj[x] = NoObject
               /\ h2.obj[x].refs = h.obj[x].refs /\ h2.obj[x].message = h.obj[x].message
               /\ h2.obj[x].parent = h.obj[x].parent /\ h2.obj[x].iterator = h.obj[x].iterator
    <3>1. CASE x = o
      BY <1>2, <1>4, <3>1 DEF m
    <3>2. CASE x # o
      BY <1>3, <3>2
    <3> QED
      BY <3>1, <3>2
  <2>2. \A x \in Messages(h) : h2.msg[x].body \in Ids
    BY <1>1, <1>3
  <2> QED
    BY <1>3, <1>5, <2>1, <2>2 DEF BodiesOnly
<1>7. MovedAt(ObjectBodies(h2), ObjectBodies(h), o)
  BY <1>3 DEF MovedAt, ObjectBodies
<1>8. MovedAt(MessageBodies(h2), MessageBodies(h), m)
  BY <1>3 DEF MovedAt, MessageBodies
<1> QED
  BY <1>1, <1>2, <1>3, <1>6, <1>7, <1>8 DEF m

LEMMA BodyGivenMatched ==
  ASSUME NEW h, NEW r \in [Ids -> Nat], NEW br \in [Ids -> Nat], Sound(h, r, br), Matched(h),
         NEW o \in Live(h), NEW c, NEW b, NEW h2, BodyGiven(h2, h, o, c, b), Live(h2) = Live(h),
         h2.bobj[c].body = b,
         \A x \in Live(h) : h.obj[x].body # None => h2.bobj[h.obj[x].body].body = h.bobj[h.obj[x].body].body
  PROVE  Matched(h2)
<1>1. \A x \in Live(h) : h.obj[x].message \in Ids /\ x \in Ids
  BY SoundLives
<1>2. \A x \in Live(h) : h.obj[x].message = h.obj[o].message => x = o
  BY DEF Sound, Built
<1>3. ASSUME NEW x \in Live(h), h2.obj[x].body # None
      PROVE  h2.bobj[h2.obj[x].body].body = h2.msg[h2.obj[x].message].body
  <2>1. CASE x = o
    <3>1. h2.obj[x].body = c /\ h2.obj[x].message = h.obj[o].message
      BY <2>1 DEF BodyGiven
    <3>2. h2.msg[h.obj[o].message].body = b
      BY <1>1 DEF BodyGiven
    <3> QED
      BY <3>1, <3>2
  <2>2. CASE x # o
    <3>1. h2.obj[x] = h.obj[x] /\ h.obj[x].message # h.obj[o].message
      BY <1>1, <1>2, <2>2 DEF BodyGiven
    <3>2. h2.msg[h.obj[x].message].body = h.msg[h.obj[x].message].body
      BY <1>1, <3>1 DEF BodyGiven
    <3>3. h.bobj[h.obj[x].body].body = h.msg[h.obj[x].message].body
      BY <1>3, <3>1 DEF Matched
    <3> QED
      BY <1>3, <3>1, <3>2, <3>3
  <2> QED
    BY <2>1, <2>2
<1> QED
  BY <1>3 DEF Matched

LEMMA ObjectBodyPut ==
  ASSUME NEW h \in Heap, NEW o \in Ids, NEW c \in Ids
  PROVE  LET h2 == [h EXCEPT !.obj[o].body = c]
         IN /\ h2 \in Heap /\ h2.msg = h.msg /\ h2.body = h.body /\ h2.bobj = h.bobj
            /\ \A x \in Ids \ {o} : h2.obj[x] = h.obj[x]
            /\ h2.obj[o] = [refs |-> h.obj[o].refs, message |-> h.obj[o].message, parent |-> h.obj[o].parent,
                            body |-> c, iterator |-> h.obj[o].iterator]
<1> DEFINE v == [refs |-> h.obj[o].refs, message |-> h.obj[o].message, parent |-> h.obj[o].parent,
                 body |-> c, iterator |-> h.obj[o].iterator]
           new == [h.obj EXCEPT ![o] = v]
           h2 == [h EXCEPT !.obj[o].body = c]
<1>1. h.obj \in [Ids -> Object] /\ h.obj[o] \in Object
  BY HeapRecord
<1>2. [h.obj[o] EXCEPT !.body = c] = v /\ v \in Object
  BY <1>1 DEF Object
<1>3. [h.obj EXCEPT ![o].body = c] = new /\ new \in [Ids -> Object]
  BY <1>1, <1>2
<1>4. h2 = [h EXCEPT !.obj = [h.obj EXCEPT ![o].body = c]]
  BY HeapRecord
<1>5. new[o] = v /\ \A x \in Ids \ {o} : new[x] = h.obj[x]
  BY <1>1
<1> HIDE DEF v, new, h2
<1>6. h2 = [obj |-> new, msg |-> h.msg, body |-> h.body, bobj |-> h.bobj]
  BY <1>3, <1>4, HeapRecord
<1>7. h2 \in Heap
  BY <1>3, <1>6, HeapRecord, HeapOf
<1> QED
  BY <1>5, <1>6, <1>7, Zenon DEF h2, v

\* h2 is h with the body b of the message m.
MessageHasBody(h2, h, m, b) ==
    /\ h2 \in Heap /\ h2.obj = h.obj /\ h2.body = h.body /\ h2.bobj = h.bobj
    /\ \A x \in Ids : /\ h2.msg[x].kind = h.msg[x].kind /\ h2.msg[x].parent = h.msg[x].parent
                      /\ h2.msg[x].body = IF x = m THEN b ELSE h.msg[x].body

LEMMA MessageBodyPut ==
  ASSUME NEW h \in Heap, NEW m \in Ids, NEW b \in Ids
  PROVE  MessageHasBody([h EXCEPT !.msg[m].body = b], h, m, b)
<1> DEFINE Msg == [kind : Kinds \cup {"free"}, parent : Ids \cup {None}, body : Ids \cup {None}]
           v == [kind |-> h.msg[m].kind, parent |-> h.msg[m].parent, body |-> b]
           new == [h.msg EXCEPT ![m] = v]
           h2 == [h EXCEPT !.msg[m].body = b]
<1>1. h.msg \in [Ids -> Msg] /\ h.msg[m] \in Msg
  BY HeapRecord
<1>2. [h.msg[m] EXCEPT !.body = b] = v /\ v \in Msg
  BY <1>1
<1> HIDE DEF Msg
<1>3. [h.msg EXCEPT ![m].body = b] = new /\ new \in [Ids -> Msg]
  BY <1>1, <1>2
<1>4. h2 = [h EXCEPT !.msg = [h.msg EXCEPT ![m].body = b]]
  BY HeapRecord
<1>5. new[m] = v /\ \A x \in Ids \ {m} : new[x] = h.msg[x]
  BY <1>1
<1>6. \A x \in Ids : /\ new[x].kind = h.msg[x].kind /\ new[x].parent = h.msg[x].parent
                     /\ new[x].body = IF x = m THEN b ELSE h.msg[x].body
  <2> HIDE DEF new
  <2> TAKE x \in Ids
  <2>1. CASE x = m
    BY <1>5, <2>1
  <2>2. CASE x # m
    BY <1>5, <2>2
  <2> QED
    BY <2>1, <2>2
<1> HIDE DEF v, new, h2
<1>7. h2 = [obj |-> h.obj, msg |-> new, body |-> h.body, bobj |-> h.bobj]
  BY <1>3, <1>4, HeapRecord
<1>8. h2 \in Heap
  BY <1>3, <1>7, HeapRecord, HeapOf, Zenon DEF Msg
<1> QED
  BY <1>6, <1>7, <1>8, Zenon DEF h2, MessageHasBody

\* getBody, the first time
LEMMA GetNewBodyStays ==
  ASSUME NEW h, NEW r \in [Ids -> Nat], NEW br \in [Ids -> Nat], Sound(h, r, br), Freed(h), Room(h, 1),
         NEW o \in Live(h), h.obj[o].body = None
  PROVE  LET x == Fresh(h, 1)
         IN /\ Stays([AddBodyRef(WithBodyObject(h, h.msg[h.obj[o].message].body), x) EXCEPT !.obj[o].body = x],
                     h, r, Plus(br, x))
            /\ x \in Ids
<1> DEFINE x == Fresh(h, 1)
           m == h.obj[o].message
           b == h.msg[m].body
           v == [refs |-> 1, body |-> b]
           bd == [h.body EXCEPT ![b] = @ + 1]
           h1 == WithBodyObject(h, b)
           h2 == AddBodyRef(h1, x)
           h3 == [h2 EXCEPT !.obj[o].body = x]
           br2 == Plus(br, x)
<1>1. h \in Heap /\ x \in Ids \ Used(h) /\ None \notin Ids
  BY FreshOne, IdsFinite DEF Sound, Built
<1>2. o \in Ids /\ m \in Ids /\ b \in Ids /\ m \in Messages(h)
  <2>1. m \in Messages(h) /\ Messages(h) \subseteq Ids /\ Live(h) \subseteq Ids
    BY SoundLives
  <2> QED
    BY <2>1 DEF Sound, Built
<1>3. h.body \in [Ids -> Nat] /\ bd \in [Ids -> Nat] /\ v \in [refs : Nat, body : Ids \cup {None}]
  BY <1>1, <1>2, HeapRecord
<1>4. h1 = [h EXCEPT !.bobj[x] = v, !.body = bd]
  BY <1>1, HeapRecord DEF WithBodyObject
<1> HIDE DEF x, bd, h1
<1>5. BodyObjectPut(h1, h, x, v, bd)
  BY <1>1, <1>3, <1>4, BodyObjectPutIs, Zenon
<1>6. /\ h1 \in Heap /\ h1.obj = h.obj /\ h1.msg = h.msg /\ h1.body = bd
      /\ h1.bobj[x] = v /\ \A y \in Ids \ {x} : h1.bobj[y] = h.bobj[y]
      /\ h1.bobj[x].refs = 1 /\ h1.bobj[x].body = b
  BY <1>5 DEF BodyObjectPut
<1>7. h2 = [h1 EXCEPT !.bobj[x].refs = 2]
  BY <1>6 DEF AddBodyRef
<1>8. /\ h2 \in Heap /\ h2.obj = h.obj /\ h2.msg = h.msg /\ h2.body = bd
      /\ h2.bobj = [h1.bobj EXCEPT ![x] = [refs |-> 2, body |-> b]]
  <2> DEFINE n == 2
             h4 == [h1 EXCEPT !.bobj[x].refs = n]
  <2>1. h1 \in Heap /\ x \in Ids /\ n \in Nat
    BY <1>1, <1>6
  <2>2. h2 = h4
    BY <1>7
  <2> HIDE DEF n, h2
  <2>3. /\ h4 \in Heap /\ h4.obj = h1.obj /\ h4.msg = h1.msg /\ h4.body = h1.body
        /\ h4.bobj = [h1.bobj EXCEPT ![x] = [refs |-> n, body |-> h1.bobj[x].body]]
    BY <2>1, BodyRefsIs, ZenonT(30)
  <2> HIDE DEF h4
  <2> QED
    BY <1>6, <2>2, <2>3 DEF n
<1>9. h2.bobj[x].refs = 2 /\ h2.bobj[x].body = b /\ \A y \in Ids \ {x} : h2.bobj[y] = h.bobj[y]
  <2>1. h1.bobj \in [Ids -> [refs : Nat, body : Ids \cup {None}]]
    BY <1>6, HeapRecord
  <2>2. h2.bobj[x] = [refs |-> 2, body |-> b] /\ \A y \in Ids \ {x} : h2.bobj[y] = h1.bobj[y]
    BY <1>1, <1>8, <2>1
  <2> QED
    BY <1>6, <2>2
<1> HIDE DEF h2
<1>10. /\ h3 \in Heap /\ h3.msg = h2.msg /\ h3.body = h2.body /\ h3.bobj = h2.bobj
       /\ \A y \in Ids \ {o} : h3.obj[y] = h2.obj[y]
       /\ h3.obj[o] = [refs |-> h2.obj[o].refs, message |-> h2.obj[o].message, parent |-> h2.obj[o].parent,
                       body |-> x, iterator |-> h2.obj[o].iterator]
  <2>1. h2 \in Heap /\ o \in Ids /\ x \in Ids
    BY <1>1, <1>2, <1>8
  <2> QED
    BY <2>1, ObjectBodyPut, ZenonT(30)
<1> HIDE DEF h3
<1>11. BodyGiven(h3, h, o, x, b)
  BY <1>8, <1>10 DEF BodyGiven
<1>12. /\ BodiesOnly(h3, h)
       /\ MovedAt(ObjectBodies(h3), ObjectBodies(h), o)
       /\ MovedAt(MessageBodies(h3), MessageBodies(h), m)
       /\ h3.obj[o].body = x /\ h3.msg[m].body = b
  BY <1>2, <1>11, BodyGivenMoves
<1>13. MovedAt(BodiesOf(h3), BodiesOf(h), x)
  BY <1>9, <1>10 DEF MovedAt, BodiesOf
<1>14. /\ h.body[x] = 0 /\ h.bobj[x] = NoBodyObject /\ br[x] = 0
       /\ \A y \in Ids : h.obj[y].body # x
  BY <1>1, UnusedIs
<1>15. br2 \in [Ids -> Nat] /\ \A y \in Ids : br2[y] = br[y] + IsOne(x, y)
  <2>1. br2 \in [Ids -> Nat]
    BY PlusNat
  <2> QED
    BY <2>1 DEF Plus, IsOne
<1>16. BodiesMoved(h3, h, br2, br, o, m, x)
  <2>1. ASSUME NEW y \in Ids
        PROVE  h3.bobj[y].refs + IsOne(h.obj[o].body, y) + br[y] = h.bobj[y].refs + IsOne(h3.obj[o].body, y) + br2[y]
    <3>1. IsOne(h.obj[o].body, y) = 0 /\ h3.obj[o].body = x
      BY <1>1, <1>12 DEF IsOne
    <3>2. br[y] \in Nat /\ br2[y] = br[y] + IsOne(x, y) /\ h.bobj[y].refs \in Nat
      BY <1>1, <1>15, HeapTypes
    <3>3. CASE y = x
      <4>1. h3.bobj[y].refs = 2 /\ h.bobj[y].refs = 0 /\ br[y] = 0 /\ IsOne(x, y) = 1
        BY <1>9, <1>10, <1>14, <3>3 DEF IsOne, NoBodyObject
      <4> QED
        BY <3>1, <3>2, <4>1
    <3>4. CASE y # x
      <4>1. h3.bobj[y].refs = h.bobj[y].refs /\ IsOne(x, y) = 0
        BY <1>9, <1>10, <3>4 DEF IsOne
      <4> QED
        BY <3>1, <3>2, <4>1
    <3> QED
      BY <3>3, <3>4
  <2>2. ASSUME NEW y \in Ids
        PROVE  h3.body[y] + IsOne(h.msg[m].body, y) + IsOne(h.bobj[x].body, y)
                 = h.body[y] + IsOne(h3.msg[m].body, y) + IsOne(h3.bobj[x].body, y)
    <3>1. IsOne(h.bobj[x].body, y) = 0 /\ h3.msg[m].body = b /\ h3.bobj[x].body = b
      BY <1>1, <1>9, <1>10, <1>12, <1>14 DEF IsOne, NoBodyObject
    <3>2. h3.body[y] = h.body[y] + IsOne(b, y) /\ h.body[y] \in Nat /\ IsOne(b, y) \in Nat
      <4>1. h3.body[y] = bd[y] /\ h.body[y] \in Nat
        BY <1>3, <1>8, <1>10
      <4>2. bd[y] = h.body[y] + IsOne(b, y)
        <5>1. CASE y = b
          BY <1>2, <1>3, <5>1 DEF IsOne, bd
        <5>2. CASE y # b
          BY <1>2, <1>3, <5>2 DEF IsOne, bd
        <5> QED
          BY <5>1, <5>2
      <4> QED
        BY <4>1, <4>2 DEF IsOne
    <3> HIDE DEF b
    <3>3. h.msg[m].body = b
      BY DEF b
    <3> QED
      BY <3>1, <3>2, <3>3
  <2> QED
    BY <1>12, <1>13, <2>1, <2>2 DEF BodiesMoved
<1> HIDE DEF br2
<1>17. /\ Sound(h3, r, br2) /\ Orphans(h3) = Orphans(h) /\ Live(h3) = Live(h)
       /\ Freed(h) /\ (\A y \in Ids : h3.bobj[y] = h.bobj[y] \/ h3.bobj[y].refs > 0) => Freed(h3)
  BY <1>1, <1>2, <1>12, <1>15, <1>16, RebodiedSound
<1>18. Freed(h3)
  BY <1>9, <1>10, <1>17
<1>19. ASSUME Matched(h) PROVE Matched(h3)
  <2>1. \A y \in Live(h) : h.obj[y].body # None => h3.bobj[h.obj[y].body].body = h.bobj[h.obj[y].body].body
    <3>1. \A y \in Live(h) : y \in Ids /\ (h.obj[y].body # None => h.obj[y].body \in Ids)
      BY <1>1, HeapTypes DEF Live
    <3> QED
      BY <1>9, <1>10, <1>14, <3>1
  <2>2. h3.bobj[x].body = b
    BY <1>9, <1>10
  <2> HIDE DEF b
  <2> QED
    BY <1>11, <1>17, <1>19, <2>1, <2>2, BodyGivenMatched
<1> QED
  BY <1>1, <1>17, <1>18, <1>19, Zenon DEF Stays, h3, h2, h1, x, br2

\* What is given another body has its old one counted down, and the new one up.
BodySwapped(bd, old, new) == [[bd EXCEPT ![old] = @ - 1] EXCEPT ![new] = @ + 1]

LEMMA SwappedCounts ==
  ASSUME NEW bd \in [Ids -> Nat], NEW old \in Ids, bd[old] > 0, NEW new \in Ids
  PROVE  /\ BodySwapped(bd, old, new) \in [Ids -> Nat]
         /\ \A y \in Ids : BodySwapped(bd, old, new)[y] + IsOne(old, y) = bd[y] + IsOne(new, y)
<1> DEFINE d1 == [bd EXCEPT ![old] = @ - 1]
           d2 == [d1 EXCEPT ![new] = @ + 1]
<1>1. d1 \in [Ids -> Nat] /\ \A y \in Ids : d1[y] + IsOne(old, y) = bd[y]
  <2>1. bd[old] - 1 \in Nat
    OBVIOUS
  <2>2. d1 \in [Ids -> Nat]
    BY <2>1
  <2>3. ASSUME NEW y \in Ids PROVE d1[y] + IsOne(old, y) = bd[y]
    <3>1. CASE y = old
      BY <3>1 DEF IsOne
    <3>2. CASE y # old
      BY <3>2 DEF IsOne
    <3> QED
      BY <3>1, <3>2
  <2> QED
    BY <2>2, <2>3
<1> HIDE DEF d1
<1>2. d2 \in [Ids -> Nat]
  BY <1>1
<1>3. ASSUME NEW y \in Ids PROVE d2[y] = d1[y] + IsOne(new, y)
  <2>1. CASE y = new
    BY <1>1, <2>1 DEF IsOne
  <2>2. CASE y # new
    BY <1>1, <2>2 DEF IsOne
  <2> QED
    BY <2>1, <2>2
<1> HIDE DEF d2
<1>4. ASSUME NEW y \in Ids PROVE d2[y] + IsOne(old, y) = bd[y] + IsOne(new, y)
  <2>1. d2[y] = d1[y] + IsOne(new, y) /\ d1[y] + IsOne(old, y) = bd[y] /\ d1[y] \in Nat
        /\ IsOne(new, y) \in Nat /\ IsOne(old, y) \in Nat
    BY <1>1, <1>3 DEF IsOne
  <2> QED
    BY <2>1
<1> QED
  BY <1>2, <1>4 DEF BodySwapped, d1, d2

LEMMA BodyPut ==
  ASSUME NEW h \in Heap, NEW bd \in [Ids -> Nat]
  PROVE  LET h2 == [h EXCEPT !.body = bd]
         IN h2 \in Heap /\ h2.obj = h.obj /\ h2.msg = h.msg /\ h2.body = bd /\ h2.bobj = h.bobj
<1> DEFINE h2 == [h EXCEPT !.body = bd]
<1>1. h2 = [obj |-> h.obj, msg |-> h.msg, body |-> bd, bobj |-> h.bobj]
  BY HeapRecord
<1> HIDE DEF h2
<1>2. h2 \in Heap
  BY <1>1, HeapRecord, HeapOf
<1> QED
  BY <1>1, <1>2 DEF h2

\* set_body before the old body object is released
Bodied(h, o, c, b) ==
    [AddBodyRef([h EXCEPT !.body[h.msg[h.obj[o].message].body] = @ - 1], c)
       EXCEPT !.body[b] = @ + 1, !.msg[h.obj[o].message].body = b, !.obj[o].body = c]

BodiedAs(h2, h, o, c, b) ==
    /\ BodyGiven(h2, h, o, c, b)
    /\ h2.body = BodySwapped(h.body, h.msg[h.obj[o].message].body, b)
    /\ h2.bobj[c].refs = h.bobj[c].refs + 1 /\ h2.bobj[c].body = h.bobj[c].body
    /\ \A x \in Ids \ {c} : h2.bobj[x] = h.bobj[x]

LEMMA BodiedIs ==
  ASSUME NEW h, NEW r \in [Ids -> Nat], NEW br \in [Ids -> Nat], Sound(h, r, br),
         NEW o \in Live(h), NEW c \in Ids, NEW b \in Ids
  PROVE  BodiedAs(Bodied(h, o, c, b), h, o, c, b)
<1> DEFINE m == h.obj[o].message
           mb == h.msg[m].body
           d1 == [h.body EXCEPT ![mb] = @ - 1]
           d2 == [d1 EXCEPT ![b] = @ + 1]
           h1 == [h EXCEPT !.body = d1]
           n == h.bobj[c].refs + 1
           h2 == [h1 EXCEPT !.bobj[c].refs = n]
           h3 == [h2 EXCEPT !.body = d2]
           h4 == [h3 EXCEPT !.msg[m].body = b]
           h5 == [h4 EXCEPT !.obj[o].body = c]
<1>1. h \in Heap /\ o \in Ids /\ m \in Ids /\ mb \in Ids /\ h.body[mb] > 0
  <2>1. m \in Messages(h) /\ Messages(h) \subseteq Ids /\ Live(h) \subseteq Ids /\ \A x \in Messages(h) : h.body[h.msg[x].body] > 0
    BY SoundLives
  <2> QED
    BY <2>1 DEF Sound, Built
<1>2. h.body \in [Ids -> Nat] /\ h.bobj \in [Ids -> [refs : Nat, body : Ids \cup {None}]]
  BY <1>1, HeapRecord
<1>3. d1 \in [Ids -> Nat] /\ d2 \in [Ids -> Nat]
  <2>1. h.body[mb] - 1 \in Nat
    BY <1>1, <1>2
  <2> HIDE DEF mb
  <2>2. d1 \in [Ids -> Nat]
    BY <1>2, <2>1, Zenon
  <2> HIDE DEF d1
  <2> QED
    BY <2>2
<1>4. h1 = [h EXCEPT !.body[mb] = @ - 1]
  BY <1>1, HeapRecord
<1> HIDE DEF mb, d1, h1
<1>5. h1 \in Heap /\ h1.obj = h.obj /\ h1.msg = h.msg /\ h1.body = d1 /\ h1.bobj = h.bobj
  BY <1>1, <1>3, BodyPut DEF h1
<1>6. h2 = AddBodyRef(h1, c)
  BY <1>5 DEF AddBodyRef
<1>7. n \in Nat
  BY <1>2
<1> HIDE DEF n, h2
<1>8. /\ h2 \in Heap /\ h2.obj = h1.obj /\ h2.msg = h1.msg /\ h2.body = h1.body
      /\ h2.bobj = [h1.bobj EXCEPT ![c] = [refs |-> n, body |-> h1.bobj[c].body]]
  BY <1>5, <1>7, BodyRefsIs DEF h2
<1> HIDE DEF d2, h3
<1>9. h3 \in Heap /\ h3.obj = h2.obj /\ h3.msg = h2.msg /\ h3.body = d2 /\ h3.bobj = h2.bobj
  BY <1>3, <1>8, BodyPut DEF h3
<1> HIDE DEF m, h4
<1>10. /\ h4 \in Heap /\ h4.obj = h3.obj /\ h4.body = h3.body /\ h4.bobj = h3.bobj
       /\ \A x \in Ids : /\ h4.msg[x].kind = h3.msg[x].kind /\ h4.msg[x].parent = h3.msg[x].parent
                         /\ h4.msg[x].body = IF x = m THEN b ELSE h3.msg[x].body
  <2>1. MessageHasBody(h4, h3, m, b)
    BY <1>1, <1>9, MessageBodyPut DEF h4
  <2> QED
    BY <2>1 DEF MessageHasBody
<1> HIDE DEF h5
<1>11. /\ h5 \in Heap /\ h5.msg = h4.msg /\ h5.body = h4.body /\ h5.bobj = h4.bobj
       /\ \A x \in Ids \ {o} : h5.obj[x] = h4.obj[x]
       /\ h5.obj[o] = [refs |-> h4.obj[o].refs, message |-> h4.obj[o].message, parent |-> h4.obj[o].parent,
                       body |-> c, iterator |-> h4.obj[o].iterator]
  BY <1>1, <1>10, ObjectBodyPut DEF h5
<1>12. h5 = Bodied(h, o, c, b)
  <2>1. h5 = [h2 EXCEPT !.body = d2, !.msg[m].body = b, !.obj[o].body = c]
    BY DEF h3, h4, h5
  <2>2. [h2 EXCEPT !.body[b] = @ + 1, !.msg[m].body = b, !.obj[o].body = c]
          = [h2 EXCEPT !.body = d2, !.msg[m].body = b, !.obj[o].body = c]
    <3>1. [h2.body EXCEPT ![b] = @ + 1] = d2
      BY <1>5, <1>8 DEF d2
    <3>2. [h2 EXCEPT !.body[b] = @ + 1, !.msg[m].body = b, !.obj[o].body = c]
            = [h2 EXCEPT !.body = [h2.body EXCEPT ![b] = @ + 1], !.msg[m].body = b, !.obj[o].body = c]
      BY <1>8, HeapRecord
    <3> QED
      BY <3>1, <3>2, Zenon
  <2>3. Bodied(h, o, c, b) = [AddBodyRef([h EXCEPT !.body[mb] = @ - 1], c)
                                EXCEPT !.body[b] = @ + 1, !.msg[m].body = b, !.obj[o].body = c]
    BY DEF Bodied, m, mb
  <2> QED
    BY <1>4, <1>6, <2>1, <2>2, <2>3
<1>13. h5.bobj[c] = [refs |-> n, body |-> h.bobj[c].body] /\ \A x \in Ids \ {c} : h5.bobj[x] = h.bobj[x]
  BY <1>2, <1>5, <1>8, <1>9, <1>10, <1>11
<1>14. h5.body = BodySwapped(h.body, mb, b)
  BY <1>9, <1>10, <1>11 DEF BodySwapped, d1, d2
<1>15. BodyGiven(h5, h, o, c, b)
  <2>1. h4.obj = h.obj /\ h3.msg = h.msg
    BY <1>5, <1>8, <1>9, <1>10
  <2> QED
    BY <1>10, <1>11, <2>1 DEF BodyGiven, m
<1>16. h5.bobj[c].refs = h.bobj[c].refs + 1 /\ h5.bobj[c].body = h.bobj[c].body
  BY <1>13 DEF n
<1>17. BodiedAs(h5, h, o, c, b)
  BY <1>13, <1>14, <1>15, <1>16 DEF BodiedAs, m, mb
<1> QED
  BY <1>12, <1>17

LEMMA BodiedSound ==
  ASSUME NEW h, NEW r \in [Ids -> Nat], NEW br \in [Ids -> Nat], Sound(h, r, br),
         NEW o \in Live(h), NEW c \in Ids, NEW b \in Ids
  PROVE  LET h2 == Bodied(h, o, c, b)
         IN /\ Sound(h2, r, Plus(br, h.obj[o].body)) /\ Orphans(h2) = Orphans(h)
            /\ Freed(h) => Freed(h2)
            /\ Matched(h) /\ h.bobj[c].body = b => Matched(h2)
<1> DEFINE h2 == Bodied(h, o, c, b)
           m == h.obj[o].message
           old == h.obj[o].body
           br2 == Plus(br, old)
<1>1. /\ h \in Heap /\ o \in Ids /\ m \in Ids /\ h.msg[m].body \in Ids /\ h.body[h.msg[m].body] > 0
  <2>1. m \in Messages(h) /\ Messages(h) \subseteq Ids /\ Live(h) \subseteq Ids /\ \A x \in Messages(h) : h.body[h.msg[x].body] > 0
    BY SoundLives
  <2> QED
    BY <2>1 DEF Sound, Built
<1>2. BodiedAs(h2, h, o, c, b)
  BY BodiedIs
<1> HIDE DEF h2
<1>3. /\ BodyGiven(h2, h, o, c, b)
      /\ h2.body = BodySwapped(h.body, h.msg[m].body, b)
      /\ h2.bobj[c].refs = h.bobj[c].refs + 1 /\ h2.bobj[c].body = h.bobj[c].body
      /\ \A x \in Ids \ {c} : h2.bobj[x] = h.bobj[x]
  BY <1>2 DEF BodiedAs
<1>4. /\ BodiesOnly(h2, h)
      /\ MovedAt(ObjectBodies(h2), ObjectBodies(h), o)
      /\ MovedAt(MessageBodies(h2), MessageBodies(h), m)
      /\ h2.obj[o].body = c /\ h2.msg[m].body = b
  BY <1>3, BodyGivenMoves
<1>5. MovedAt(BodiesOf(h2), BodiesOf(h), c)
  BY <1>3 DEF MovedAt, BodiesOf
<1>6. br2 \in [Ids -> Nat] /\ \A y \in Ids : br2[y] = br[y] + IsOne(old, y)
  <2>1. br2 \in [Ids -> Nat]
    BY PlusNat
  <2> QED
    BY <2>1 DEF Plus, IsOne
<1>7. \A y \in Ids : h2.body[y] + IsOne(h.msg[m].body, y) = h.body[y] + IsOne(b, y)
  <2>1. h.body \in [Ids -> Nat]
    BY <1>1, HeapRecord
  <2> QED
    BY <1>1, <1>3, <2>1, SwappedCounts
<1> HIDE DEF br2, m, old
<1>8. BodiesMoved(h2, h, br2, br, o, m, c)
  <2>1. ASSUME NEW y \in Ids
        PROVE  h2.bobj[y].refs + IsOne(h.obj[o].body, y) + br[y] = h.bobj[y].refs + IsOne(h2.obj[o].body, y) + br2[y]
    <3>1. IsOne(old, y) \in Nat /\ IsOne(c, y) \in Nat /\ br[y] \in Nat /\ h.bobj[y].refs \in Nat
      BY <1>1, HeapTypes DEF IsOne
    <3>2. h2.bobj[y].refs = h.bobj[y].refs + IsOne(c, y)
      <4>1. CASE y = c
        BY <1>3, <4>1 DEF IsOne
      <4>2. CASE y # c
        <5>1. h2.bobj[y].refs = h.bobj[y].refs /\ IsOne(c, y) = 0
          BY <1>3, <4>2 DEF IsOne
        <5> QED
          BY <3>1, <5>1
      <4> QED
        BY <4>1, <4>2
    <3>3. br2[y] = br[y] + IsOne(old, y) /\ h.obj[o].body = old /\ h2.obj[o].body = c
      BY <1>4, <1>6 DEF old
    <3> QED
      BY <3>1, <3>2, <3>3
  <2>2. ASSUME NEW y \in Ids
        PROVE  h2.body[y] + IsOne(h.msg[m].body, y) + IsOne(h.bobj[c].body, y)
                 = h.body[y] + IsOne(h2.msg[m].body, y) + IsOne(h2.bobj[c].body, y)
    <3>1. h2.bobj[c].body = h.bobj[c].body /\ h2.msg[m].body = b
      BY <1>3, <1>4
    <3>2. h2.body[y] + IsOne(h.msg[m].body, y) = h.body[y] + IsOne(b, y)
      BY <1>7
    <3> QED
      BY <3>1, <3>2
  <2> QED
    BY <1>4, <1>5, <2>1, <2>2 DEF BodiesMoved
<1>9. /\ Sound(h2, r, br2) /\ Orphans(h2) = Orphans(h) /\ Live(h2) = Live(h)
      /\ Freed(h) /\ (\A y \in Ids : h2.bobj[y] = h.bobj[y] \/ h2.bobj[y].refs > 0) => Freed(h2)
  BY <1>1, <1>4, <1>6, <1>8, RebodiedSound
<1>10. Freed(h) => Freed(h2)
  <2>1. h.bobj[c].refs \in Nat
    BY <1>1, HeapTypes
  <2>2. h2.bobj[c].refs > 0
    BY <1>3, <2>1
  <2> QED
    BY <1>3, <1>9, <2>2
<1>11. ASSUME Matched(h), h.bobj[c].body = b PROVE Matched(h2)
  <2>1. \A y \in Ids : h2.bobj[y].body = h.bobj[y].body
    BY <1>3
  <2>2. \A y \in Live(h) : h.obj[y].body # None => h2.bobj[h.obj[y].body].body = h.bobj[h.obj[y].body].body
    <3>1. \A y \in Live(h) : y \in Ids /\ (h.obj[y].body # None => h.obj[y].body \in Ids)
      BY <1>1, HeapTypes DEF Live
    <3> QED
      BY <2>1, <3>1
  <2>3. h2.bobj[c].body = b
    BY <1>11, <2>1
  <2> QED
    BY <1>3, <1>9, <1>11, <2>2, <2>3, BodyGivenMatched
<1> QED
  BY <1>9, <1>10, <1>11 DEF h2, br2, old

\* setBody
LEMMA BodySetSound ==
  ASSUME NEW h, NEW r \in [Ids -> Nat], NEW br \in [Ids -> Nat], Sound(h, r, br), Freed(h), Room(h, 1),
         NEW o \in Live(h), NEW c \in Ids
  PROVE  LET h2 == BodySet(h, o, c)
         IN /\ Sound(h2, r, br) /\ Freed(h2) /\ Orphans(h2) = Orphans(h)
            /\ Matched(h) /\ h.bobj[c].body # None => Matched(h2)
<1> DEFINE m == h.obj[o].message
           mb == h.msg[m].body
           old == h.obj[o].body
           h1 == [h EXCEPT !.body[mb] = @ - 1]
           d1 == [h.body EXCEPT ![mb] = @ - 1]
           b == IF h.bobj[c].body = None THEN Fresh(h1, 1) ELSE h.bobj[c].body
           h3 == Bodied(h, o, c, b)
           h4 == BodySet(h, o, c)
           br2 == Plus(br, old)
<1>1. /\ h \in Heap /\ o \in Ids /\ m \in Ids /\ mb \in Ids /\ h.body[mb] > 0 /\ None \notin Ids
      /\ old \in Ids \cup {None} /\ h.bobj[c].body \in Ids \cup {None}
  <2>1. m \in Messages(h) /\ Messages(h) \subseteq Ids /\ Live(h) \subseteq Ids /\ \A x \in Messages(h) : h.body[h.msg[x].body] > 0
    BY SoundLives
  <2>2. h \in Heap /\ o \in Ids
    BY <2>1 DEF Sound, Built
  <2>3. old \in Ids \cup {None} /\ h.bobj[c].body \in Ids \cup {None}
    BY <2>2, HeapTypes
  <2> QED
    BY <2>1, <2>2, <2>3, IdsFinite DEF Sound, Built
<1>2. h4 = IF old = None THEN h3 ELSE ReleaseBody(h3, old)
  BY DEF BodySet, Bodied
<1> HIDE DEF m, mb, h4
<1>3. Room(h1, 1)
  <2>1. h.body \in [Ids -> Nat]
    BY <1>1, HeapRecord
  <2>2. h1 = [h EXCEPT !.body = d1]
    BY <1>1, HeapRecord
  <2>3. d1 \in [Ids -> Nat] /\ \A x \in Ids : d1[x] > 0 => h.body[x] > 0
    <3>1. h.body[mb] - 1 \in Nat
      BY <1>1, <2>1
    <3> QED
      BY <1>1, <2>1, <3>1
  <2> HIDE DEF d1, h1
  <2>4. h1.obj = h.obj /\ h1.msg = h.msg /\ h1.body = d1 /\ h1.bobj = h.bobj
    BY <1>1, <2>2, <2>3, BodyPut
  <2>5. Objects(h1) = Objects(h) /\ Messages(h1) = Messages(h) /\ BodyObjects(h1) = BodyObjects(h)
    BY <2>4 DEF Objects, Messages, BodyObjects
  <2>6. Bodies(h1) \subseteq Bodies(h)
    BY <2>3, <2>4 DEF Bodies
  <2>7. Used(h1) \subseteq Used(h)
    BY <2>5, <2>6 DEF Used
  <2>8. Cardinality(Used(h1)) <= Cardinality(Used(h)) /\ Cardinality(Used(h1)) \in Nat /\ Cardinality(Used(h)) \in Nat
    BY <2>7, UsedFinite, FS_Subset
  <2>9. Cardinality(Used(h)) + 1 <= MaxRoom
    BY DEF Room
  <2> QED
    BY <2>8, <2>9, BoundsAssumption DEF Room
<1> HIDE DEF h1
<1>4. b \in Ids
  <2>1. Fresh(h1, 1) \in Ids
    BY <1>3, FreshOne
  <2> QED
    BY <1>1, <2>1
<1>5. h.bobj[c].body # None => h.bobj[c].body = b
  OBVIOUS
<1> HIDE DEF b, h3
<1>6. /\ Sound(h3, r, br2) /\ Orphans(h3) = Orphans(h) /\ (Freed(h) => Freed(h3))
      /\ Matched(h) /\ h.bobj[c].body = b => Matched(h3)
  BY <1>4, BodiedSound DEF h3
<1>7. CASE old = None
  <2>1. br2 = br
    BY <1>7, PlusNone
  <2> QED
    BY <1>2, <1>5, <1>6, <1>7, <2>1 DEF h4
<1>8. CASE old # None
  <2>1. old \in Ids
    BY <1>1, <1>8
  <2> HIDE DEF old
  <2>2. br2 \in [Ids -> Nat] /\ br2[old] > 0 /\ [br2 EXCEPT ![old] = @ - 1] = br
    BY <2>1, PlusNat, PlusMinus
  <2> HIDE DEF br2
  <2>3. /\ Stays(ReleaseBody(h3, old), h3, r, [br2 EXCEPT ![old] = @ - 1])
        /\ Freed(ReleaseBody(h3, old))
    BY <1>6, <2>1, <2>2, ReleaseBodyStays, Zenon
  <2>4. h4 = ReleaseBody(h3, old)
    BY <1>2, <1>8
  <2> QED
    BY <1>5, <1>6, <2>2, <2>3, <2>4, Zenon DEF Stays, h4
<1> QED
  BY <1>7, <1>8

-----------------------------------------------------------------------------
(* The invariant *)

\* The references on objects from outside the heap.
Roots == Plus(held, history)

IInv ==
    /\ TypeOK
    /\ Sound(heap, Roots, bheld) /\ Freed(heap)
    /\ "unusedBody" \notin scenario.calls => Matched(heap)
    /\ WithoutOrphans => Orphans(heap) = {}

LEMMA InvariantFacts ==
  ASSUME IInv
  PROVE  /\ heap \in Heap /\ held \in [Ids -> Nat] /\ bheld \in [Ids -> Nat] /\ Roots \in [Ids -> Nat]
         /\ scenario.variables \in Nat /\ scenario.room \in 1 .. MaxRoom /\ scenario.clientRoom \in 1 .. MaxRoom
         /\ \A o \in Ids : held[o] > 0 => o \in Live(heap) /\ Roots[o] > 0
         /\ history # None => history \in Live(heap)
         /\ \A c \in Ids : bheld[c] > 0 => heap.bobj[c].refs > 0
<1>1. scenario \in Scenarios /\ heap \in Heap /\ history \in Ids \cup {None}
      /\ held \in [Ids -> 0 .. scenario.variables] /\ bheld \in [Ids -> 0 .. scenario.variables]
  BY DEF IInv, TypeOK
<1>2. scenario.variables \in Nat /\ scenario.room \in 1 .. MaxRoom /\ scenario.clientRoom \in 1 .. MaxRoom
  BY <1>1, ScenariosAssumption
<1>3. held \in [Ids -> Nat] /\ bheld \in [Ids -> Nat]
  BY <1>1, <1>2
<1>4. Roots \in [Ids -> Nat]
  BY <1>3, PlusNat DEF Roots
<1>5. Sound(heap, Roots, bheld)
  BY DEF IInv
<1>6. /\ \A o \in Ids : Roots[o] > 0 => o \in Live(heap)
      /\ \A c \in Ids : bheld[c] > 0 => heap.bobj[c].refs > 0
  BY <1>3, <1>4, <1>5, SoundLives, Zenon
<1>7. \A o \in Ids : Roots[o] = held[o] + (IF o = history THEN 1 ELSE 0) /\ held[o] \in Nat
  BY <1>3 DEF Roots, Plus
<1>8. \A o \in Ids : held[o] > 0 \/ o = history => Roots[o] > 0
  BY <1>7
<1> QED
  BY <1>1, <1>2, <1>3, <1>4, <1>6, <1>8

LEMMA RoomEnough ==
  ASSUME IInv, NEW n \in Nat
  PROVE  (HasRoom(heap, n) => Room(heap, n)) /\ (HasClientRoom(heap, n) => Room(heap, n))
<1>1. Cardinality(Used(heap)) \in Nat /\ MaxRoom \in Nat
  BY UsedFinite, BoundsAssumption
<1>2. scenario.room \in 1 .. MaxRoom /\ scenario.clientRoom \in 1 .. MaxRoom
  BY InvariantFacts
<1> QED
  BY <1>1, <1>2 DEF HasRoom, HasClientRoom, Room

OneMore(s, r, o) == s = [r EXCEPT ![o] = @ + 1]

LEMMA RootsMore ==
  ASSUME NEW r \in [Ids -> Nat], NEW o \in Ids, NEW s, OneMore(s, r, o), NEW x
  PROVE  s = Plus(r, o) /\ Plus(s, x) = Plus(Plus(r, x), o)
<1>0. s = [r EXCEPT ![o] = @ + 1]
  BY DEF OneMore
<1>1. Plus(r, o) \in [Ids -> Nat] /\ \A y \in Ids : Plus(r, o)[y] = s[y]
  BY <1>0, PlusNat DEF Plus
<1>2. s = Plus(r, o)
  BY <1>0, <1>1, Zenon
<1>3. Plus(Plus(r, o), x) = Plus(Plus(r, x), o)
  BY PlusCommutes
<1> QED
  BY <1>2, <1>3

LEMMA RootsLess ==
  ASSUME NEW r \in [Ids -> Nat], NEW o \in Ids, r[o] > 0, NEW x
  PROVE  Plus([r EXCEPT ![o] = @ - 1], x) = [Plus(r, x) EXCEPT ![o] = @ - 1]
<1> DEFINE s == [r EXCEPT ![o] = @ - 1]
           t == Plus(r, x)
           u == [t EXCEPT ![o] = @ - 1]
<1>1. s \in [Ids -> Nat] /\ t \in [Ids -> Nat]
  BY PlusNat
<1>2. \A y \in Ids : t[y] = r[y] + (IF y = x THEN 1 ELSE 0)
  BY DEF Plus
<1>3. \A y \in Ids : Plus(s, x)[y] = s[y] + (IF y = x THEN 1 ELSE 0)
  BY DEF Plus
<1>4. Plus(s, x) \in [Ids -> Nat]
  BY <1>1, PlusNat, Zenon
<1>5. \A y \in Ids : u[y] = IF y = o THEN t[y] - 1 ELSE t[y]
  BY <1>1
<1>6. \A y \in Ids : s[y] = IF y = o THEN r[y] - 1 ELSE r[y]
  OBVIOUS
<1> HIDE DEF s, t
<1>7. u \in [Ids -> Int] /\ DOMAIN u = Ids /\ DOMAIN Plus(s, x) = Ids
  BY <1>1, <1>4
<1> HIDE DEF u
<1>8. ASSUME NEW y \in Ids PROVE u[y] = Plus(s, x)[y]
  <2>1. r[y] \in Nat
    OBVIOUS
  <2> QED
    BY <1>2, <1>3, <1>5, <1>6, <2>1
<1>9. u = Plus(s, x)
  BY <1>4, <1>7, <1>8
<1> QED
  BY <1>9 DEF s, t, u

LEMMA StaysTwice ==
  ASSUME NEW h, NEW h1, NEW h2, NEW r, NEW r2, NEW br, NEW br2, Stays(h1, h, r, br), Stays(h2, h1, r2, br2)
  PROVE  Stays(h2, h, r2, br2)
  BY DEF Stays

-----------------------------------------------------------------------------
(* What the steps have in common *)

LEMMA StepKeeps ==
  ASSUME IInv, scenario' = scenario, history' \in Ids \cup {None}, crashed' \in BOOLEAN,
         held' \in [Ids -> 0 .. scenario.variables], bheld' \in [Ids -> 0 .. scenario.variables],
         Sound(heap', Plus(held', history'), bheld'), Freed(heap'),
         "unusedBody" \notin scenario.calls => (Matched(heap) => Matched(heap')),
         WithoutOrphans => (Orphans(heap) = {} => Orphans(heap') = {})
  PROVE  IInv'
<1>1. heap' \in Heap /\ scenario' \in Scenarios
  BY DEF Sound, Built, IInv, TypeOK
<1>2. TypeOK'
  BY <1>1 DEF TypeOK
<1>3. Sound(heap', Roots', bheld')
  BY DEF Roots
<1>4. "unusedBody" \notin scenario'.calls => Matched(heap')
  BY DEF IInv
<1>5. WithoutOrphans' => Orphans(heap') = {}
  <2>1. WithoutOrphans' <=> WithoutOrphans
    BY DEF WithoutOrphans
  <2> QED
    BY <2>1 DEF IInv
<1> QED
  BY <1>2, <1>3, <1>4, <1>5 DEF IInv

LEMMA QuietStep ==
  ASSUME IInv, Stays(heap', heap, Roots, bheld), GetsNothing, Goes
  PROVE  IInv'
<1>1. /\ scenario' = scenario /\ history' \in Ids \cup {None} /\ crashed' \in BOOLEAN
      /\ held' \in [Ids -> 0 .. scenario.variables] /\ bheld' \in [Ids -> 0 .. scenario.variables]
  BY DEF IInv, TypeOK, GetsNothing, Goes
<1>2. Plus(held', history') = Roots /\ bheld' = bheld
  BY DEF Roots, GetsNothing, Goes
<1>3. Sound(heap', Plus(held', history'), bheld')
  BY <1>2 DEF Stays
<1>4. Freed(heap') /\ (Matched(heap) => Matched(heap')) /\ Orphans(heap') = Orphans(heap)
  BY DEF Stays, IInv
<1> QED
  BY <1>1, <1>3, <1>4, StepKeeps

LEMMA MoreHeld ==
  ASSUME NEW v \in Nat, NEW f \in [Ids -> 0 .. v], NEW o \in Ids, f[o] < v
  PROVE  [f EXCEPT ![o] = @ + 1] \in [Ids -> 0 .. v]
<1>1. f[o] + 1 \in 0 .. v
  OBVIOUS
<1> QED
  BY <1>1

LEMMA FewerHeld ==
  ASSUME NEW v \in Nat, NEW f \in [Ids -> 0 .. v], NEW o \in Ids, f[o] > 0
  PROVE  [f EXCEPT ![o] = @ - 1] \in [Ids -> 0 .. v]
<1>1. f[o] - 1 \in 0 .. v
  OBVIOUS
<1> QED
  BY <1>1

\* The script gets a reference to o.
LEMMA GetsStep ==
  ASSUME IInv, NEW o \in Ids, Gets(o), UNCHANGED <<crashed, scenario>>, history' \in Ids \cup {None},
         Stays(heap', heap, Plus(Plus(held, history'), o), bheld)
  PROVE  IInv'
<1>1. held \in [Ids -> Nat] /\ scenario.variables \in Nat
  BY InvariantFacts
<1>2. held' = [held EXCEPT ![o] = @ + 1] /\ held[o] < scenario.variables /\ bheld' = bheld
  BY DEF Gets
<1>3. held' \in [Ids -> 0 .. scenario.variables]
  <2>1. held \in [Ids -> 0 .. scenario.variables]
    BY DEF IInv, TypeOK
  <2> QED
    BY <1>1, <1>2, <2>1, MoreHeld
<1>4. Plus(held', history') = Plus(Plus(held, history'), o)
  <2>1. OneMore(held', held, o)
    BY <1>2 DEF OneMore
  <2> QED
    BY <1>1, <2>1, RootsMore
<1>5. Sound(heap', Plus(held', history'), bheld')
  BY <1>2, <1>4 DEF Stays
<1>6. Freed(heap') /\ (Matched(heap) => Matched(heap')) /\ Orphans(heap') = Orphans(heap)
  BY DEF Stays, IInv
<1>7. scenario' = scenario /\ crashed' \in BOOLEAN /\ bheld' \in [Ids -> 0 .. scenario.variables]
  BY <1>2 DEF IInv, TypeOK
<1> QED
  BY <1>3, <1>5, <1>6, <1>7, StepKeeps

LEMMA GetsBodyStep ==
  ASSUME IInv, NEW c \in Ids, GetsBody(c), Goes, Stays(heap', heap, Roots, Plus(bheld, c))
  PROVE  IInv'
<1>1. bheld \in [Ids -> Nat] /\ scenario.variables \in Nat
  BY InvariantFacts
<1>2. bheld' = [bheld EXCEPT ![c] = @ + 1] /\ bheld[c] < scenario.variables /\ held' = held
  BY DEF GetsBody
<1>3. bheld' \in [Ids -> 0 .. scenario.variables]
  <2>1. bheld \in [Ids -> 0 .. scenario.variables]
    BY DEF IInv, TypeOK
  <2> QED
    BY <1>1, <1>2, <2>1, MoreHeld
<1>4. bheld' = Plus(bheld, c)
  <2>1. OneMore(bheld', bheld, c)
    BY <1>2 DEF OneMore
  <2> QED
    BY <1>1, <2>1, RootsMore
<1>5. Plus(held', history') = Roots
  BY <1>2 DEF Roots, Goes
<1>6. Sound(heap', Plus(held', history'), bheld')
  BY <1>4, <1>5 DEF Stays
<1>7. Freed(heap') /\ (Matched(heap) => Matched(heap')) /\ Orphans(heap') = Orphans(heap)
  BY DEF Stays, IInv
<1>8. /\ scenario' = scenario /\ crashed' \in BOOLEAN /\ history' \in Ids \cup {None}
      /\ held' \in [Ids -> 0 .. scenario.variables]
  BY <1>2 DEF IInv, TypeOK, Goes
<1> QED
  BY <1>3, <1>6, <1>7, <1>8, StepKeeps

LEMMA CrashStep ==
  ASSUME IInv, Crash
  PROVE  IInv'
<1>1. /\ heap' = heap /\ held' = held /\ bheld' = bheld /\ history' = history /\ scenario' = scenario /\ crashed' = TRUE
  BY DEF Crash
<1>2. /\ history \in Ids \cup {None} /\ held \in [Ids -> 0 .. scenario.variables]
      /\ bheld \in [Ids -> 0 .. scenario.variables] /\ Sound(heap, Plus(held, history), bheld) /\ Freed(heap)
  BY DEF IInv, TypeOK, Roots
<1> QED
  BY <1>1, <1>2, StepKeeps

LEMMA StutterStep ==
  ASSUME IInv, UNCHANGED vars
  PROVE  IInv'
<1>1. /\ heap' = heap /\ held' = held /\ bheld' = bheld /\ history' = history /\ scenario' = scenario /\ crashed' = crashed
  BY DEF vars
<1>2. /\ history \in Ids \cup {None} /\ held \in [Ids -> 0 .. scenario.variables] /\ crashed \in BOOLEAN
      /\ bheld \in [Ids -> 0 .. scenario.variables] /\ Sound(heap, Plus(held, history), bheld) /\ Freed(heap)
  BY DEF IInv, TypeOK, Roots
<1> QED
  BY <1>1, <1>2, StepKeeps

\* A reference on o is the script's from now on.
LEMMA RefStep ==
  ASSUME IInv, NEW o \in Live(heap), heap' = AddRef(heap, o), Gets(o), Goes
  PROVE  IInv'
<1>1. Roots \in [Ids -> Nat] /\ bheld \in [Ids -> Nat] /\ Sound(heap, Roots, bheld) /\ Freed(heap)
  BY InvariantFacts DEF IInv
<1>2. o \in Ids
  BY DEF Live
<1>3. /\ Sound(heap', [Roots EXCEPT ![o] = @ + 1], bheld) /\ SameLinks(heap', heap)
      /\ Matched(heap) => Matched(heap')
      /\ Freed(heap) => Freed(heap')
  BY <1>1, AddRefSound, Zenon
<1>4. [Roots EXCEPT ![o] = @ + 1] = Plus(Roots, o)
  <2>1. OneMore([Roots EXCEPT ![o] = @ + 1], Roots, o)
    BY DEF OneMore
  <2> QED
    BY <1>1, <1>2, <2>1, RootsMore, Zenon
<1>5. Orphans(heap') = Orphans(heap)
  BY <1>1, <1>3, RelinkedSame DEF SameLinks, Sound, Built
<1>6. Stays(heap', heap, Plus(Roots, o), bheld)
  BY <1>3, <1>4, <1>5, Zenon DEF Stays
<1>7. Stays(heap', heap, Plus(Plus(held, history'), o), bheld) /\ history' \in Ids \cup {None}
  BY <1>6 DEF Roots, Goes, IInv, TypeOK
<1> QED
  BY <1>2, <1>7, GetsStep DEF Goes

-----------------------------------------------------------------------------
(* Each step keeps the invariant *)

LEMMA MadeStep ==
  ASSUME IInv, NEW kinds \in Seq(Kinds), kinds # <<>>, HasRoom(heap, Len(kinds)),
         \/ heap' = WithObjects(WithMessages(heap, kinds), Fresh(heap, 1))
         \/ heap' = Constructed(WithMessages(heap, kinds), Fresh(heap, 1)),
         Gets(Fresh(heap, 1)), Goes
  PROVE  IInv'
<1> DEFINE ms == FreshIds(heap, Len(kinds))
           x == Fresh(heap, 1)
<1>1. /\ Roots \in [Ids -> Nat] /\ bheld \in [Ids -> Nat] /\ Sound(heap, Roots, bheld) /\ Freed(heap)
      /\ Len(kinds) \in Nat /\ heap \in Heap
  BY InvariantFacts DEF IInv
<1>2. Room(heap, Len(kinds))
  BY <1>1, RoomEnough
<1>3. /\ Made(WithObjects(WithMessages(heap, kinds), x), heap, Roots, bheld, ms)
      /\ Made(Constructed(WithMessages(heap, kinds), x), heap, Roots, bheld, ms)
      /\ ms[1] = x
  BY <1>1, <1>2, ObjectsMade, Zenon
<1>4. NewIds(heap, ms) /\ ms # <<>> /\ ms[1] \in Ids
  BY <1>1, <1>2, FreshNew
<1> HIDE DEF ms, x
<1>5. Made(heap', heap, Roots, bheld, ms)
  BY <1>3 DEF x
<1>6. Stays(heap', heap, Plus(Plus(held, history'), x), bheld) /\ history' \in Ids \cup {None}
  BY <1>3, <1>5 DEF Made, Roots, Goes, IInv, TypeOK
<1>7. x \in Ids /\ Gets(x)
  BY <1>3, <1>4 DEF x
<1> QED
  BY <1>6, <1>7, GetsStep DEF Goes

LEMMA ParsedKinds ==
  ASSUME IInv, NEW kinds \in scenario.parsed \cup scenario.responses \cup scenario.requests
  PROVE  kinds \in Seq(Kinds) /\ kinds # <<>>
  BY ScenariosAssumption DEF IInv, TypeOK

LEMMA ConstructStep ==
  ASSUME IInv, NEW kinds \in scenario.parsed, Construct(kinds) \/ NewFromChain(kinds)
  PROVE  IInv'
<1>1. kinds \in Seq(Kinds) /\ kinds # <<>>
  BY ParsedKinds
<1>2. CASE NewFromChain(kinds)
  BY <1>1, <1>2, MadeStep DEF NewFromChain
<1>3. CASE Construct(kinds)
  <2>1. heap' = Constructed(WithMessages(heap, kinds), Fresh(heap, 1)) /\ Gets(Fresh(heap, 1)) /\ Goes
        /\ HasRoom(heap, Len(kinds))
    BY <1>3 DEF Construct, Constructed
  <2> QED
    BY <1>1, <2>1, MadeStep
<1> QED
  BY <1>2, <1>3

LEMMA UnserializeStep ==
  ASSUME IInv, NEW kinds \in scenario.parsed, Unserialize(kinds)
  PROVE  IInv'
<1> DEFINE x == Fresh(heap, 1)
<1>1. kinds \in Seq(Kinds) /\ kinds # <<>> /\ Len(kinds) \in Nat
  BY ParsedKinds
<1>2. Room(heap, Len(kinds))
  BY <1>1, RoomEnough DEF Unserialize
<1>3. Roots \in [Ids -> Nat] /\ bheld \in [Ids -> Nat] /\ Sound(heap, Roots, bheld) /\ Freed(heap)
  BY InvariantFacts DEF IInv
<1>4. heap' = WithObject(WithMessages(heap, kinds), x) /\ Gets(x) /\ Goes
  BY DEF Unserialize
<1>5. /\ Sound(heap', Plus(Roots, x), bheld) /\ Freed(heap')
      /\ Matched(heap) => Matched(heap')
      /\ Len(kinds) = 1 => Orphans(heap') = Orphans(heap)
      /\ x \in Ids
  BY <1>1, <1>2, <1>3, <1>4, UnserializedSound, Zenon
<1> HIDE DEF x
<1>6. WithoutOrphans => Len(kinds) = 1
  BY DEF WithoutOrphans, Unserialize, May
<1>7. held' = [held EXCEPT ![x] = @ + 1] /\ held[x] < scenario.variables /\ bheld' = bheld
  BY <1>4 DEF Gets
<1>8. history' = history /\ crashed' = crashed /\ scenario' = scenario
  BY <1>4 DEF Goes
<1>9. held' \in [Ids -> 0 .. scenario.variables] /\ held \in [Ids -> Nat]
  <2>1. held \in [Ids -> 0 .. scenario.variables]
    BY DEF IInv, TypeOK
  <2>2. scenario.variables \in Nat /\ held \in [Ids -> Nat]
    BY InvariantFacts
  <2> QED
    BY <1>5, <1>7, <2>1, <2>2, MoreHeld
<1>10. Plus(held', history') = Plus(Roots, x)
  <2>1. OneMore(held', held, x)
    BY <1>7 DEF OneMore
  <2>2. Plus(held', history) = Plus(Plus(held, history), x)
    BY <1>5, <1>9, <2>1, RootsMore
  <2> QED
    BY <1>8, <2>2 DEF Roots
<1>11. history' \in Ids \cup {None} /\ crashed' \in BOOLEAN /\ bheld' \in [Ids -> 0 .. scenario.variables]
  BY <1>7, <1>8 DEF IInv, TypeOK
<1>12. Sound(heap', Plus(held', history'), bheld')
  BY <1>5, <1>7, <1>10
<1> QED
  BY <1>5, <1>6, <1>8, <1>9, <1>11, <1>12, StepKeeps

LEMMA CloneStep ==
  ASSUME IInv, NEW o \in Ids, Clone(o) \/ Detach(o)
  PROVE  IInv'
<1> DEFINE m == heap.obj[o].message
           ms == MessageChain(heap, m)
           kinds == KindsOf(heap, ms)
<1>1. /\ Roots \in [Ids -> Nat] /\ bheld \in [Ids -> Nat] /\ Sound(heap, Roots, bheld) /\ heap \in Heap
      /\ o \in Live(heap)
  BY InvariantFacts DEF IInv, Clone, Detach
<1>2. m \in Messages(heap) /\ m \in Ids
  BY <1>1, SoundLives
<1>3. \A x \in Messages(heap) : heap.msg[x].kind \in Kinds
  <2>1. ASSUME NEW x \in Messages(heap) PROVE heap.msg[x].kind \in Kinds
    <3>1. x \in Ids /\ heap.msg[x].kind # "free"
      BY DEF Messages
    <3>2. heap.msg[x] \in [kind : Kinds \cup {"free"}, parent : Ids \cup {None}, body : Ids \cup {None}]
      BY <1>1, <3>1, HeapTypes
    <3> QED
      BY <3>1, <3>2
  <2> QED
    BY <2>1
<1>4. CASE Detach(o)
  <2>1. heap' = WithObjects(WithMessages(heap, <<heap.msg[m].kind>>), Fresh(heap, 1)) /\ Gets(Fresh(heap, 1)) /\ Goes
        /\ HasRoom(heap, 1)
    BY <1>4 DEF Detach
  <2>2. <<heap.msg[m].kind>> \in Seq(Kinds) /\ <<heap.msg[m].kind>> # <<>> /\ Len(<<heap.msg[m].kind>>) = 1
    BY <1>2, <1>3
  <2> QED
    BY <2>1, <2>2, MadeStep, Zenon
<1>5. CASE Clone(o)
  <2>1. heap' = WithObjects(WithMessages(heap, kinds), Fresh(heap, 1)) /\ Gets(Fresh(heap, 1)) /\ Goes
        /\ HasRoom(heap, Len(ms))
    BY <1>5 DEF Clone
  <2>2. ms \in Seq(Ids) /\ IsChain(MessageLinks(heap), ms, m)
    BY <1>1, <1>2, MessageChainIs, Zenon
  <2>3. ToSet(ms) \subseteq Messages(heap)
    <3>1. \A y \in Messages(heap) : MessageLinks(heap)[y] # None => MessageLinks(heap)[y] \in Messages(heap)
      <4>1. Messages(heap) \subseteq Ids /\ \A y \in Messages(heap) : heap.msg[y].parent \in Messages(heap) \cup {None}
        BY <1>1 DEF Messages, Sound, Built
      <4> QED
        BY <4>1 DEF MessageLinks
    <3> HIDE DEF ms, m
    <3> QED
      BY <1>2, <2>2, <3>1, ChainClosed
  <2>4. Len(ms) \in Nat /\ Len(ms) # 0 /\ DOMAIN ms = 1 .. Len(ms) /\ \A i \in 1 .. Len(ms) : ms[i] \in ToSet(ms)
    <3>1. ms # <<>>
      BY <2>2 DEF IsChain, IsPath
    <3> HIDE DEF ms
    <3> QED
      BY <2>2, <3>1 DEF ToSet
  <2> HIDE DEF ms, m
  <2>5. kinds = [i \in 1 .. Len(ms) |-> heap.msg[ms[i]].kind]
    BY <2>4 DEF KindsOf
  <2>6. \A i \in 1 .. Len(ms) : heap.msg[ms[i]].kind \in Kinds
    BY <1>3, <2>3, <2>4
  <2>7. kinds \in Seq(Kinds) /\ Len(kinds) = Len(ms)
    BY <2>4, <2>5, <2>6
  <2> HIDE DEF kinds
  <2>8. kinds # <<>>
    BY <2>4, <2>7
  <2> QED
    BY <2>1, <2>7, <2>8, MadeStep
<1> QED
  BY <1>4, <1>5

LEMMA GetParentMessageStep ==
  ASSUME IInv, NEW o \in Ids, GetParentMessage(o)
  PROVE  IInv'
<1>1. Roots \in [Ids -> Nat] /\ bheld \in [Ids -> Nat] /\ Sound(heap, Roots, bheld)
  BY InvariantFacts DEF IInv
<1>2. CASE heap.obj[o].parent = None
  <2>1. Crash
    BY <1>2 DEF GetParentMessage
  <2> QED
    BY <2>1, CrashStep
<1>3. CASE heap.obj[o].parent # None
  <2>1. heap.obj[o].parent \in Live(heap)
    BY <1>1, <1>3, SoundLives
  <2>2. heap' = AddRef(heap, heap.obj[o].parent) /\ Gets(heap.obj[o].parent) /\ Goes
    BY <1>3 DEF GetParentMessage
  <2> QED
    BY <2>1, <2>2, RefStep
<1> QED
  BY <1>2, <1>3

LEMMA SetParentMessageStep ==
  ASSUME IInv, NEW o \in Ids, NEW p \in Ids, SetParentMessage(o, p)
  PROVE  IInv'
<1> DEFINE old == heap.obj[o].parent
           had == heap.msg[heap.obj[o].message].parent # None
           h1 == LinkedWith(heap, o, p)
           B == {heap.obj[x].message : x \in ToSet(ObjectChain(heap, p))} \cup Orphans(heap)
<1>1. /\ Roots \in [Ids -> Nat] /\ bheld \in [Ids -> Nat] /\ Sound(heap, Roots, bheld)
      /\ o \in Live(heap) /\ p \in Live(heap)
  BY InvariantFacts DEF IInv, SetParentMessage
<1>2. CASE had /\ old = None
  <2>1. Crash
    BY <1>2 DEF SetParentMessage
  <2> QED
    BY <2>1, CrashStep
<1>3. CASE ~(had /\ old = None)
  <2>1. heap' = (IF had THEN Release(h1, old) ELSE h1) /\ GetsNothing /\ Goes
    BY <1>3 DEF SetParentMessage, LinkedWith
  <2>2. old # None => had
    <3>1. ASSUME old # None PROVE had
      <4>1. old \in Live(heap)
        BY <1>1, <3>1, SoundLives
      <4>2. heap.msg[heap.obj[o].message].parent = heap.obj[old].message
        BY <1>1, <3>1 DEF Sound, Agree
      <4>3. heap.obj[old].message # None
        BY <1>1, <4>1, SoundLives
      <4> QED
        BY <4>2, <4>3
    <3> QED
      BY <3>1
  <2>3. heap' = IF old = None THEN h1 ELSE Release(h1, old)
    BY <1>3, <2>1, <2>2
  <2>4. /\ B \subseteq Ids /\ heap.obj[p].message \in B /\ heap.obj[o].message \notin B
        /\ \A y \in B : heap.msg[y].parent # None => heap.msg[y].parent \in B
    <3>1. o \notin ToSet(ObjectChain(heap, p))
      BY DEF SetParentMessage
    <3> QED
      BY <1>1, <3>1, ChainOrOrphan
  <2> HIDE DEF B
  <2>5. Stays(IF old = None THEN h1 ELSE Release(h1, old), heap, Roots, bheld)
    BY <1>1, <2>4, LinkedStays
  <2>6. Stays(heap', heap, Roots, bheld)
    BY <2>3, <2>5
  <2> QED
    BY <2>1, <2>6, QuietStep
<1> QED
  BY <1>2, <1>3

LEMMA PrependStep ==
  ASSUME IInv, NEW o \in Ids, NEW p \in Ids, NEW top \in BOOLEAN, Prepend(o, p, top)
  PROVE  IInv'
<1>1. /\ Roots \in [Ids -> Nat] /\ bheld \in [Ids -> Nat] /\ Sound(heap, Roots, bheld)
      /\ o \in Live(heap) /\ p \in Live(heap)
  BY InvariantFacts DEF IInv, Prepend
<1>2. Apart(heap, o, p) /\ heap' = Prepended(heap, o, p, top) /\ GetsNothing /\ Goes
  BY DEF Prepend
<1>3. Stays(heap', heap, Roots, bheld)
  BY <1>1, <1>2, PrependedStays
<1> QED
  BY <1>2, <1>3, QuietStep

LEMMA ReverseChainStep ==
  ASSUME IInv, NEW o \in Ids, ReverseChain(o)
  PROVE  IInv'
<1> DEFINE last == Last(ObjectChain(heap, o))
<1>1. /\ Roots \in [Ids -> Nat] /\ bheld \in [Ids -> Nat] /\ Sound(heap, Roots, bheld) /\ o \in Live(heap)
  BY InvariantFacts DEF IInv, ReverseChain
<1>2. CASE heap' = AddRef(heap, o) /\ Gets(o)
  BY <1>1, <1>2, RefStep DEF ReverseChain
<1>3. CASE heap' = ObjectsReversed(heap, o) /\ Gets(last)
  <2>1. last \in Ids
    <3>1. last \in ToSet(ObjectChain(heap, o)) /\ ToSet(ObjectChain(heap, o)) \subseteq Live(heap)
      BY <1>1, ObjectChainIs
    <3> QED
      BY <3>1 DEF Live
  <2>2. Stays(heap', heap, Plus(Roots, last), bheld)
    BY <1>1, <1>3, ReversedStays
  <2> HIDE DEF last
  <2>3. Goes /\ history' \in Ids \cup {None} /\ Plus(held, history') = Roots
    BY DEF ReverseChain, Goes, IInv, TypeOK, Roots
  <2>4. Stays(heap', heap, Plus(Plus(held, history'), last), bheld) /\ Gets(last)
    BY <1>3, <2>2, <2>3
  <2> QED
    BY <2>1, <2>3, <2>4, GetsStep DEF Goes
<1> QED
  BY <1>2, <1>3 DEF ReverseChain

LEMMA SerializeStep ==
  ASSUME IInv, NEW o \in Ids, Serialize(o)
  PROVE  IInv'
<1>1. /\ Roots \in [Ids -> Nat] /\ bheld \in [Ids -> Nat] /\ Sound(heap, Roots, bheld) /\ o \in Live(heap)
  BY InvariantFacts DEF IInv, Serialize
<1>2. heap.obj[o].message \in Ids
  BY <1>1, SoundLives
<1>3. heap' = heap
  BY <1>1, <1>2, ReversedTwice DEF Serialize
<1>4. Stays(heap', heap, Roots, bheld)
  BY <1>1, <1>3 DEF Stays
<1> QED
  BY <1>4, QuietStep DEF Serialize

LEMMA UnsetStep ==
  ASSUME IInv, NEW o \in Ids, Unset(o)
  PROVE  IInv'
<1>1. /\ Roots \in [Ids -> Nat] /\ bheld \in [Ids -> Nat] /\ Sound(heap, Roots, bheld)
      /\ Roots[o] > 0 /\ held[o] > 0 /\ held \in [Ids -> Nat] /\ scenario.variables \in Nat
  BY InvariantFacts DEF IInv, Unset
<1>2. heap' = Release(heap, o) /\ held' = [held EXCEPT ![o] = @ - 1] /\ bheld' = bheld /\ Goes
  BY DEF Unset
<1>3. /\ Sound(heap', [Roots EXCEPT ![o] = @ - 1], bheld) /\ Freed(heap')
      /\ Matched(heap) => Matched(heap')
      /\ Orphans(heap') = Orphans(heap)
  BY <1>1, <1>2, ReleaseSound, Zenon
<1>4. \A x : Plus([held EXCEPT ![o] = @ - 1], x) = [Plus(held, x) EXCEPT ![o] = @ - 1]
  BY <1>1, RootsLess, Zenon
<1>5. Plus(held', history') = [Roots EXCEPT ![o] = @ - 1]
  BY <1>2, <1>4, Zenon DEF Roots, Goes
<1>6. held' \in [Ids -> 0 .. scenario.variables]
  <2>1. held \in [Ids -> 0 .. scenario.variables]
    BY DEF IInv, TypeOK
  <2> QED
    BY <1>1, <1>2, <2>1, FewerHeld
<1>7. /\ scenario' = scenario /\ history' \in Ids \cup {None} /\ crashed' \in BOOLEAN
      /\ bheld' \in [Ids -> 0 .. scenario.variables]
  BY <1>2 DEF IInv, TypeOK, Goes
<1>8. Sound(heap', Plus(held', history'), bheld')
  BY <1>2, <1>3, <1>5
<1> QED
  BY <1>3, <1>6, <1>7, <1>8, StepKeeps

LEMMA IterateStep ==
  ASSUME IInv, NEW o \in Ids, Rewind(o) \/ NextMessage(o) \/ Current(o)
  PROVE  IInv'
<1>1. /\ Roots \in [Ids -> Nat] /\ bheld \in [Ids -> Nat] /\ Sound(heap, Roots, bheld) /\ o \in Live(heap)
  BY InvariantFacts DEF IInv, Rewind, NextMessage, Current
<1>2. CASE Rewind(o)
  <2>1. Stays(heap', heap, Roots, bheld)
    BY <1>1, <1>2, RewindStays, Zenon DEF Rewind
  <2> QED
    BY <1>2, <2>1, QuietStep DEF Rewind
<1>3. CASE NextMessage(o)
  <2>1. Stays(heap', heap, Roots, bheld)
    BY <1>1, <1>3, NextStays, Zenon DEF NextMessage
  <2> QED
    BY <1>3, <2>1, QuietStep DEF NextMessage
<1>4. CASE Current(o)
  <2>1. heap.obj[o].iterator \in Live(heap)
    BY <1>1, <1>4, SoundLives DEF Current
  <2>2. heap' = AddRef(heap, heap.obj[o].iterator) /\ Gets(heap.obj[o].iterator) /\ Goes
    BY <1>4 DEF Current
  <2> QED
    BY <2>1, <2>2, RefStep
<1> QED
  BY <1>2, <1>3, <1>4

LEMMA GetBodyStep ==
  ASSUME IInv, NEW o \in Ids, GetBody(o)
  PROVE  IInv'
<1> DEFINE c == heap.obj[o].body
           x == Fresh(heap, 1)
<1>1. /\ Roots \in [Ids -> Nat] /\ bheld \in [Ids -> Nat] /\ Sound(heap, Roots, bheld) /\ Freed(heap)
      /\ o \in Live(heap) /\ heap \in Heap
  BY InvariantFacts, Zenon DEF IInv, GetBody
<1>2. CASE c # None
  <2>1. c \in Ids
    BY <1>1, <1>2, HeapTypes
  <2>2. heap' = AddBodyRef(heap, c) /\ GetsBody(c) /\ Goes
    BY <1>2 DEF GetBody
  <2> HIDE DEF c
  <2>3. Stays(heap', heap, Roots, Plus(bheld, c))
    BY <1>1, <2>1, <2>2, AddBodyRefStays
  <2> QED
    BY <2>1, <2>2, <2>3, GetsBodyStep
<1>3. CASE c = None
  <2>1. /\ heap' = [AddBodyRef(WithBodyObject(heap, heap.msg[heap.obj[o].message].body), x) EXCEPT !.obj[o].body = x]
        /\ HasRoom(heap, 1) /\ GetsBody(x) /\ Goes
    BY <1>3, ZenonT(30) DEF GetBody
  <2>2. Room(heap, 1)
    BY <2>1, RoomEnough, ZenonT(30)
  <2>3. Stays(heap', heap, Roots, Plus(bheld, x)) /\ x \in Ids
    BY <1>1, <1>3, <2>1, <2>2, GetNewBodyStays, Zenon
  <2> HIDE DEF x
  <2> QED
    BY <2>1, <2>3, GetsBodyStep, ZenonT(30)
<1> QED
  BY <1>2, <1>3

LEMMA NewBodyStep ==
  ASSUME IInv, (\E stream \in BOOLEAN : NewBody(stream)) \/ (\E c \in Ids : CloneBody(c))
  PROVE  IInv'
<1> DEFINE x == Fresh(heap, 1)
           made(some) == [heap EXCEPT !.bobj[x] = [refs |-> 1, body |-> IF some THEN x ELSE None],
                                      !.body = IF some THEN [@ EXCEPT ![x] = 1] ELSE @]
<1>1. /\ Roots \in [Ids -> Nat] /\ bheld \in [Ids -> Nat] /\ Sound(heap, Roots, bheld) /\ Freed(heap)
  BY InvariantFacts DEF IInv
<1>2. PICK some \in BOOLEAN : heap' = made(some) /\ HasRoom(heap, 1) /\ GetsBody(x) /\ Goes
  <2>1. ASSUME NEW stream \in BOOLEAN, NewBody(stream)
        PROVE  heap' = made(stream) /\ HasRoom(heap, 1) /\ GetsBody(x) /\ Goes
    BY <2>1, Zenon DEF NewBody
  <2>2. ASSUME NEW c \in Ids, CloneBody(c)
        PROVE  \E some \in BOOLEAN : heap' = made(some) /\ HasRoom(heap, 1) /\ GetsBody(x) /\ Goes
    <3>1. CASE heap.bobj[c].body = None
      <4>1. heap' = made(FALSE) /\ HasRoom(heap, 1) /\ GetsBody(x) /\ Goes
        BY <2>2, <3>1, Zenon DEF CloneBody
      <4> QED
        BY <4>1, Zenon
    <3>2. CASE heap.bobj[c].body # None
      <4>1. heap' = made(TRUE) /\ HasRoom(heap, 1) /\ GetsBody(x) /\ Goes
        BY <2>2, <3>2, Zenon DEF CloneBody
      <4> QED
        BY <4>1, Zenon
    <3> QED
      BY <3>1, <3>2, Zenon
  <2> HIDE DEF made, x
  <2> QED
    BY <2>1, <2>2
<1>3. Room(heap, 1)
  BY <1>2, RoomEnough
<1>4. Stays(made(some), heap, Roots, Plus(bheld, x)) /\ x \in Ids
  BY <1>1, <1>3, NewBodyStays, Zenon
<1> HIDE DEF made, x
<1> QED
  BY <1>2, <1>4, GetsBodyStep

LEMMA UseBodyStep ==
  ASSUME IInv, NEW c \in Ids, UseBody(c)
  PROVE  IInv'
<1>1. /\ Roots \in [Ids -> Nat] /\ bheld \in [Ids -> Nat] /\ Sound(heap, Roots, bheld) /\ Freed(heap)
  BY InvariantFacts DEF IInv
<1>2. Room(heap, 1)
  BY RoomEnough DEF UseBody
<1>3. Stays(heap', heap, Roots, bheld)
  BY <1>1, <1>2, UseBodyStays, Zenon DEF UseBody
<1> QED
  BY <1>3, QuietStep DEF UseBody

LEMMA SetBodyStep ==
  ASSUME IInv, NEW o \in Ids, NEW c \in Ids, SetBody(o, c)
  PROVE  IInv'
<1>1. /\ Roots \in [Ids -> Nat] /\ bheld \in [Ids -> Nat] /\ Sound(heap, Roots, bheld) /\ Freed(heap)
      /\ o \in Live(heap)
  BY InvariantFacts DEF IInv, SetBody
<1>2. Room(heap, 1)
  BY RoomEnough DEF SetBody
<1>3. /\ heap' = BodySet(heap, o, c) /\ GetsNothing /\ Goes
      /\ heap.bobj[c].body = None => "unusedBody" \in scenario.calls
  BY DEF SetBody, May
<1>4. /\ Sound(heap', Roots, bheld) /\ Freed(heap') /\ Orphans(heap') = Orphans(heap)
      /\ Matched(heap) /\ heap.bobj[c].body # None => Matched(heap')
  BY <1>1, <1>2, <1>3, BodySetSound
<1>5. /\ scenario' = scenario /\ history' \in Ids \cup {None} /\ crashed' \in BOOLEAN
      /\ held' \in [Ids -> 0 .. scenario.variables] /\ bheld' \in [Ids -> 0 .. scenario.variables]
  BY <1>3 DEF IInv, TypeOK, GetsNothing, Goes
<1>6. Sound(heap', Plus(held', history'), bheld')
  BY <1>3, <1>4 DEF Roots, GetsNothing, Goes
<1> QED
  BY <1>3, <1>4, <1>5, <1>6, StepKeeps

LEMMA UnsetBodyStep ==
  ASSUME IInv, NEW c \in Ids, UnsetBody(c)
  PROVE  IInv'
<1>1. /\ Roots \in [Ids -> Nat] /\ bheld \in [Ids -> Nat] /\ Sound(heap, Roots, bheld) /\ scenario.variables \in Nat
  BY InvariantFacts DEF IInv
<1>2. heap' = ReleaseBody(heap, c) /\ bheld' = [bheld EXCEPT ![c] = @ - 1] /\ held' = held /\ Goes /\ bheld[c] > 0
  BY DEF UnsetBody
<1>3. Stays(heap', heap, Roots, bheld') /\ Freed(heap')
  BY <1>1, <1>2, ReleaseBodyStays, Zenon
<1>4. bheld' \in [Ids -> 0 .. scenario.variables]
  <2>1. bheld \in [Ids -> 0 .. scenario.variables]
    BY DEF IInv, TypeOK
  <2> QED
    BY <1>1, <1>2, <2>1, FewerHeld
<1>5. /\ scenario' = scenario /\ history' \in Ids \cup {None} /\ crashed' \in BOOLEAN
      /\ held' \in [Ids -> 0 .. scenario.variables]
  BY <1>2 DEF IInv, TypeOK, Goes
<1>6. Sound(heap', Plus(held', history'), bheld') /\ (Matched(heap) => Matched(heap')) /\ Orphans(heap') = Orphans(heap)
  BY <1>2, <1>3 DEF Stays, Roots, Goes
<1> QED
  BY <1>3, <1>4, <1>5, <1>6, StepKeeps

LEMMA RespondStep ==
  ASSUME IInv, NEW q \in Ids, NEW responses \in scenario.responses, NEW requests \in scenario.requests,
         NEW record \in BOOLEAN, Respond(q, responses, requests, record)
  PROVE  IInv'
<1> DEFINE f == Fresh(heap, 1)
           h1 == IF record THEN Recorded(heap, responses, requests) ELSE heap
           o == Fresh(h1, 1)
           h2 == WithObjects(WithMessages(h1, <<Head(responses)>>), o)
           r == Plus(held, history')
<1>1. /\ held \in [Ids -> Nat] /\ bheld \in [Ids -> Nat] /\ Sound(heap, Plus(held, history), bheld) /\ Freed(heap)
      /\ history \in Ids \cup {None}
  BY InvariantFacts DEF IInv, Roots, TypeOK
<1>2. /\ responses \in Seq(Kinds) /\ responses # <<>> /\ requests \in Seq(Kinds) /\ requests # <<>>
  BY ParsedKinds
<1>3. /\ heap' = Prepended(h2, o, q, TRUE) /\ Gets(o) /\ crashed' = crashed /\ scenario' = scenario
      /\ history' = (IF record THEN f ELSE history) /\ held[q] > 0
      /\ HasClientRoom(heap, 1 + IF record THEN Len(responses) + Len(requests) ELSE 0)
  BY DEF Respond
<1> HIDE DEF h1
<1>4. Stays(h1, heap, r, bheld) /\ Room(h1, 1) /\ history' \in Ids \cup {None}
  <2>1. CASE record
    <3> DEFINE n == Len(responses) + Len(requests)
    <3>1. n \in Nat /\ n + 1 \in Nat /\ 1 + n = n + 1
      BY <1>2
    <3>2. HasClientRoom(heap, n + 1)
      BY <1>3, <2>1, <3>1
    <3>3. Room(heap, Len(responses) + Len(requests) + 1)
      BY <3>1, <3>2, RoomEnough
    <3> HIDE DEF n
    <3>4. LET g == Recorded(heap, responses, requests)
          IN Stays(g, heap, Plus(held, f), bheld) /\ Room(g, 1) /\ f \in Ids
      BY <1>1, <1>2, <3>3, RecordedSound, Zenon
    <3> QED
      BY <1>3, <2>1, <3>4 DEF h1
  <2>2. CASE ~record
    <3>1. h1 = heap /\ history' = history
      BY <1>3, <2>2 DEF h1
    <3>2. HasClientRoom(heap, 1)
      BY <1>3, <2>2
    <3>3. Room(heap, 1)
      BY <3>2, RoomEnough
    <3> QED
      BY <1>1, <3>1, <3>3 DEF Stays
  <2> QED
    BY <2>1, <2>2
<1>5. r \in [Ids -> Nat] /\ r[q] > 0
  <2>1. r \in [Ids -> Nat]
    BY <1>1, PlusNat
  <2>2. r[q] = held[q] + (IF q = history' THEN 1 ELSE 0) /\ held[q] \in Nat
    BY <1>1 DEF Plus
  <2> HIDE DEF r
  <2> QED
    BY <1>3, <2>1, <2>2
<1> HIDE DEF r
<1>6. Sound(h1, r, bheld) /\ Freed(h1)
  BY <1>1, <1>4 DEF Stays
<1>7. q \in Live(h1)
  BY <1>1, <1>5, <1>6, SoundLives
<1>8. Head(responses) \in Kinds
  BY <1>2
<1>9. Stays(heap', h1, Plus(r, o), bheld) /\ o \in Ids
  BY <1>1, <1>3, <1>4, <1>5, <1>6, <1>7, <1>8, RespondedStays, Zenon
<1> HIDE DEF o, h2
<1>10. Stays(heap', heap, Plus(r, o), bheld)
  BY <1>4, <1>9, StaysTwice
<1> QED
  BY <1>3, <1>4, <1>9, <1>10, GetsStep, Zenon DEF r

LEMMA GetHistoryStep ==
  ASSUME IInv, GetHistory
  PROVE  IInv'
<1>1. history \in Live(heap)
  BY InvariantFacts DEF GetHistory
<1> QED
  BY <1>1, RefStep DEF GetHistory

-----------------------------------------------------------------------------
(* The specification keeps the invariant *)

LEMMA InitInvariant == Init => IInv
<1> SUFFICES ASSUME Init PROVE IInv
  OBVIOUS
<1> DEFINE zeros == [x \in Ids |-> 0]
<1>1. /\ heap = [obj |-> [o \in Ids |-> NoObject], msg |-> [m \in Ids |-> NoMessage],
                 body |-> zeros, bobj |-> [c \in Ids |-> NoBodyObject]]
      /\ held = zeros /\ bheld = zeros /\ history = None /\ crashed = FALSE /\ scenario \in Scenarios
  BY DEF Init
<1>2. heap \in Heap
  BY <1>1 DEF Heap, NoObject, NoMessage, NoBodyObject
<1>3. Live(heap) = {} /\ Messages(heap) = {} /\ Orphans(heap) = {}
  BY <1>1 DEF Live, Messages, Orphans, NoMessage
<1>4. Acyclic(MessageLinks(heap))
  <2>1. zeros \in [Ids -> Nat] /\ Descends(MessageLinks(heap), zeros)
    BY <1>1 DEF Descends, MessageLinks, NoMessage
  <2> QED
    BY <2>1 DEF Acyclic
<1>5. Built(heap) /\ Agree(heap) /\ Matched(heap)
  <2>1. \A m \in Ids : heap.msg[m] = NoMessage
    BY <1>1
  <2> QED
    BY <1>2, <1>3, <1>4, <2>1 DEF Built, Agree, Matched
<1>6. Counted(heap, zeros, zeros)
  <2>1. \A x \in Ids : /\ ObjectLinks(heap)[x] = None /\ Iterators(heap)[x] = None /\ ObjectBodies(heap)[x] = None
                       /\ MessageBodies(heap)[x] = None /\ BodiesOf(heap)[x] = None
    BY <1>1 DEF ObjectLinks, Iterators, ObjectBodies, MessageBodies, BodiesOf, NoObject, NoMessage, NoBodyObject
  <2>2. \A x \in Ids : /\ HowMany(ObjectLinks(heap), Ids, x) = 0 /\ HowMany(Iterators(heap), Ids, x) = 0
                       /\ HowMany(ObjectBodies(heap), Ids, x) = 0 /\ HowMany(MessageBodies(heap), Ids, x) = 0
                       /\ HowMany(BodiesOf(heap), Ids, x) = 0
    <3>1. \A f, x : HowMany(f, Ids, x) = 0 <=> \A i \in Ids : f[i] # x
      BY IdsFinite, HowManyNat, Zenon
    <3> QED
      BY <2>1, <3>1, IdsFinite
  <2>3. \A x \in Ids : heap.obj[x].refs = 0 /\ heap.bobj[x].refs = 0 /\ heap.body[x] = 0 /\ zeros[x] = 0
    BY <1>1 DEF NoObject, NoBodyObject
  <2> HIDE DEF zeros
  <2> QED
    BY <2>2, <2>3 DEF Counted
<1>7. Freed(heap)
  BY <1>1, <1>3, Zenon DEF Freed
<1>8. Roots = zeros
  BY <1>1, PlusNone DEF Roots
<1>9. Sound(heap, Roots, bheld)
  BY <1>1, <1>5, <1>6, <1>8 DEF Sound
<1>10. TypeOK
  <2>1. scenario.variables \in Nat
    BY <1>1, ScenariosAssumption
  <2>2. held \in [Ids -> 0 .. scenario.variables] /\ bheld \in [Ids -> 0 .. scenario.variables]
    BY <1>1, <2>1
  <2> QED
    BY <1>1, <1>2, <2>2, Zenon DEF TypeOK
<1> QED
  BY <1>3, <1>5, <1>7, <1>9, <1>10 DEF IInv

LEMMA NextKeeps == IInv /\ [Next]_vars => IInv'
<1> SUFFICES ASSUME IInv, [Next]_vars PROVE IInv'
  OBVIOUS
<1>1. ASSUME NEW chain \in scenario.parsed, Construct(chain) \/ NewFromChain(chain) \/ Unserialize(chain)
      PROVE  IInv'
  BY <1>1, ConstructStep, UnserializeStep
<1>2. ASSUME NEW o \in Ids,
             \/ Clone(o) \/ Detach(o) \/ GetParentMessage(o) \/ ReverseChain(o) \/ Serialize(o)
             \/ Unset(o) \/ Rewind(o) \/ NextMessage(o) \/ Current(o) \/ GetBody(o)
             \/ UseBody(o) \/ CloneBody(o) \/ UnsetBody(o)
      PROVE  IInv'
  <2>1. CASE Clone(o) \/ Detach(o)
    BY <2>1, CloneStep
  <2>2. CASE GetParentMessage(o)
    BY <2>2, GetParentMessageStep
  <2>3. CASE ReverseChain(o)
    BY <2>3, ReverseChainStep
  <2>4. CASE Serialize(o)
    BY <2>4, SerializeStep
  <2>5. CASE Unset(o)
    BY <2>5, UnsetStep
  <2>6. CASE Rewind(o) \/ NextMessage(o) \/ Current(o)
    BY <2>6, IterateStep
  <2>7. CASE GetBody(o)
    BY <2>7, GetBodyStep
  <2>8. CASE UseBody(o)
    BY <2>8, UseBodyStep
  <2>9. CASE CloneBody(o)
    BY <2>9, NewBodyStep
  <2>10. CASE UnsetBody(o)
    BY <2>10, UnsetBodyStep
  <2> QED
    BY <1>2, <2>1, <2>2, <2>3, <2>4, <2>5, <2>6, <2>7, <2>8, <2>9, <2>10
<1>3. ASSUME NEW o \in Ids, NEW p \in Ids, SetParentMessage(o, p) \/ SetBody(o, p) \/ AddBody(o, p)
      PROVE  IInv'
  <2>1. CASE SetParentMessage(o, p)
    BY <2>1, SetParentMessageStep
  <2>2. CASE SetBody(o, p)
    BY <2>2, SetBodyStep
  <2>3. CASE AddBody(o, p)
    <3>1. Crash
      BY <2>3 DEF AddBody
    <3> QED
      BY <3>1, CrashStep
  <2> QED
    BY <1>3, <2>1, <2>2, <2>3
<1>4. ASSUME NEW o \in Ids, NEW p \in Ids, NEW top \in BOOLEAN, Prepend(o, p, top) PROVE IInv'
  BY <1>4, PrependStep
<1>5. ASSUME NEW stream \in BOOLEAN, NewBody(stream) PROVE IInv'
  BY <1>5, NewBodyStep
<1>6. ASSUME NEW q \in Ids, NEW responses \in scenario.responses, NEW requests \in scenario.requests,
             NEW record \in BOOLEAN, Respond(q, responses, requests, record)
      PROVE  IInv'
  BY <1>6, RespondStep
<1>7. CASE GetHistory
  BY <1>7, GetHistoryStep
<1>8. CASE UNCHANGED vars
  BY <1>8, StutterStep
<1> QED
  BY <1>1, <1>2, <1>3, <1>4, <1>5, <1>6, <1>7, <1>8 DEF Next

\* All the objects and body objects that are not gone.
LEMMA Lives ==
  ASSUME IInv
  PROVE  /\ Objects(heap) = Live(heap)
         /\ \A o \in Ids \ Objects(heap) : heap.obj[o] = NoObject
         /\ \A c \in Ids \ BodyObjects(heap) : heap.bobj[c] = NoBodyObject
         /\ \A m \in Ids \ Messages(heap) : heap.msg[m] = NoMessage
<1>1. heap \in Heap /\ Freed(heap) /\ Built(heap)
  BY InvariantFacts DEF IInv, Sound
<1>2. \A o \in Ids : heap.obj[o].refs \in Nat /\ heap.bobj[o].refs \in Nat
  BY <1>1, HeapTypes
<1>3. \A o \in Live(heap) : o \in Ids /\ heap.obj[o].refs > 0
  BY <1>1 DEF Freed, Live
<1>4. \A o \in Ids : heap.obj[o].refs > 0 => heap.obj[o] # NoObject
  BY DEF NoObject
<1>5. Objects(heap) = Live(heap)
  BY <1>3, <1>4 DEF Objects, Live
<1>6. \A c \in Ids \ BodyObjects(heap) : heap.bobj[c].refs = 0
  BY <1>2 DEF BodyObjects
<1>7. \A c \in Ids \ BodyObjects(heap) : heap.bobj[c] = NoBodyObject
  BY <1>1, <1>6 DEF Freed
<1> QED
  BY <1>1, <1>5, <1>7 DEF Live, Built

LEMMA InvariantLinked == IInv => Linked
<1> SUFFICES ASSUME IInv PROVE Linked
  OBVIOUS
<1>1. /\ Roots \in [Ids -> Nat] /\ bheld \in [Ids -> Nat] /\ Sound(heap, Roots, bheld)
      /\ Agree(heap) /\ Built(heap) /\ Objects(heap) = Live(heap)
  BY InvariantFacts, Lives DEF IInv, Sound
<1>2. ParentsAgree
  <2> SUFFICES ASSUME WithoutOrphans, NEW o \in Live(heap)
               PROVE  LET p == heap.obj[o].parent
                      IN heap.msg[heap.obj[o].message].parent = IF p = None THEN None ELSE heap.obj[p].message
    BY <1>1 DEF ParentsAgree
  <2>1. Orphans(heap) = {}
    BY DEF IInv
  <2> QED
    BY <1>1, <2>1 DEF Agree
<1>3. BodiesAgree
  <2> SUFFICES ASSUME "unusedBody" \notin scenario.calls, NEW o \in Live(heap), heap.obj[o].body # None
               PROVE  heap.bobj[heap.obj[o].body].body = heap.msg[heap.obj[o].message].body
    BY <1>1 DEF BodiesAgree
  <2>1. Matched(heap)
    BY DEF IInv
  <2> QED
    BY <2>1 DEF Matched
<1>4. NoCircle
  <2> SUFFICES ASSUME NEW o \in Live(heap)
               PROVE  /\ Len(ObjectChain(heap, o)) <= MaxRoom
                      /\ Len(MessageChain(heap, heap.obj[o].message)) <= MaxRoom
    BY <1>1 DEF NoCircle
  <2>1. heap.obj[o].message \in Ids
    BY <1>1 DEF Built, Messages
  <2> QED
    BY <1>1, <2>1, ObjectChainIs, MessageChainIs, Zenon
<1> QED
  BY <1>2, <1>3, <1>4 DEF Linked

\* What counts in a part of the ids, if elsewhere is nothing.
LEMMA CountedIn ==
  ASSUME NEW f, NEW S \in SUBSET Ids, NEW x \in Ids, \A i \in Ids \ S : f[i] = None
  PROVE  HowMany(f, Ids, x) = Cardinality({i \in S : f[i] = x})
<1>1. {i \in Ids : f[i] = x} = {i \in S : f[i] = x}
  BY IdsFinite, Zenon
<1> QED
  BY <1>1 DEF HowMany

LEMMA InvariantMemorySafe == IInv => MemorySafe
<1> SUFFICES ASSUME IInv PROVE MemorySafe
  OBVIOUS
<1>1. /\ Roots \in [Ids -> Nat] /\ bheld \in [Ids -> Nat] /\ Sound(heap, Roots, bheld)
      /\ Built(heap) /\ Counted(heap, Roots, bheld) /\ Objects(heap) = Live(heap) /\ heap \in Heap
  BY InvariantFacts, Lives DEF IInv, Sound
<1>2. /\ Messages(heap) \in SUBSET Ids /\ Objects(heap) \in SUBSET Ids /\ BodyObjects(heap) \in SUBSET Ids
      /\ Bodies(heap) \in SUBSET Ids
  BY DEF Messages, Objects, BodyObjects, Bodies
<1>3. /\ \A o \in Ids : /\ heap.obj[o].parent \in Live(heap) \cup {None}
                        /\ heap.obj[o].iterator \in Live(heap) \cup {None}
                        /\ heap.obj[o].body # None => heap.bobj[heap.obj[o].body].refs > 0
                        /\ heap.bobj[o].body # None => heap.body[heap.bobj[o].body] > 0
      /\ \A o \in Live(heap) : heap.obj[o].message \in Messages(heap)
      /\ \A m \in Messages(heap) : heap.body[heap.msg[m].body] > 0
  BY <1>1, SoundLives
<1>4. NoDangling
  <2>1. /\ \A o \in Ids : held[o] > 0 => o \in Objects(heap)
        /\ \A c \in Ids : bheld[c] > 0 => c \in BodyObjects(heap)
        /\ history \in Objects(heap) \cup {None}
    BY <1>1, InvariantFacts DEF BodyObjects
  <2>2. \A o \in Ids : heap.obj[o].body \in Ids \cup {None} /\ heap.bobj[o].body \in Ids \cup {None}
    <3> TAKE o \in Ids
    <3>1. /\ heap.obj[o] \in [refs : Nat, message : Ids \cup {None}, parent : Ids \cup {None},
                              body : Ids \cup {None}, iterator : Ids \cup {None}]
          /\ heap.bobj[o] \in [refs : Nat, body : Ids \cup {None}]
      BY <1>1, HeapTypes
    <3> QED
      BY <3>1
  <2>3. \A o \in Objects(heap) :
          /\ heap.obj[o].message \in Messages(heap)
          /\ {heap.obj[o].parent, heap.obj[o].iterator} \subseteq Objects(heap) \cup {None}
          /\ heap.obj[o].body \in BodyObjects(heap) \cup {None}
    BY <1>1, <1>2, <1>3, <2>2 DEF BodyObjects
  <2>4. \A m \in Messages(heap) :
          /\ heap.msg[m].parent \in Messages(heap) \cup {None}
          /\ heap.msg[m].body \in Bodies(heap)
    BY <1>1, <1>3 DEF Built, Bodies
  <2>5. \A c \in BodyObjects(heap) : heap.bobj[c].body \in Bodies(heap) \cup {None}
    BY <1>2, <1>3, <2>2 DEF Bodies
  <2> QED
    BY <2>1, <2>3, <2>4, <2>5 DEF NoDangling
<1>5. OneOwner
  <2> SUFFICES ASSUME NEW m \in Messages(heap)
               PROVE  LET owners == {o \in Objects(heap) : heap.obj[o].message = m}
                      IN Cardinality(owners) <= 1 /\ (WithoutOrphans => owners # {})
    BY DEF OneOwner
  <2> DEFINE owners == {o \in Objects(heap) : heap.obj[o].message = m}
  <2>1. \A o, p \in owners : o = p
    BY <1>1 DEF Built
  <2>2. CASE owners = {}
    <3>1. Cardinality(owners) = 0
      BY <2>2, FS_EmptySet
    <3>2. ~WithoutOrphans
      <4>1. m \in Orphans(heap)
        BY <1>1, <2>2 DEF Orphans
      <4> QED
        BY <4>1 DEF IInv
    <3> QED
      BY <3>1, <3>2
  <2>3. CASE owners # {}
    <3>1. PICK o : o \in owners
      BY <2>3
    <3>2. owners = {o}
      BY <2>1, <3>1
    <3>3. Cardinality(owners) = 1
      BY <3>2, FS_Singleton, Zenon
    <3> QED
      BY <2>3, <3>3
  <2> QED
    BY <2>2, <2>3
<1>6. BodiesCounted
  <2>1. /\ \A m \in Ids \ Messages(heap) : MessageBodies(heap)[m] = None
        /\ \A c \in Ids \ BodyObjects(heap) : BodiesOf(heap)[c] = None
        /\ \A o \in Ids \ Objects(heap) : ObjectBodies(heap)[o] = None
    BY Lives DEF MessageBodies, BodiesOf, ObjectBodies, NoMessage, NoBodyObject, NoObject
  <2>2. /\ \A m \in Ids : MessageBodies(heap)[m] = heap.msg[m].body
        /\ \A c \in Ids : BodiesOf(heap)[c] = heap.bobj[c].body
        /\ \A o \in Ids : ObjectBodies(heap)[o] = heap.obj[o].body
    BY DEF MessageBodies, BodiesOf, ObjectBodies
  <2>3. ASSUME NEW x \in Ids
        PROVE  /\ HowMany(MessageBodies(heap), Ids, x) = Cardinality({m \in Messages(heap) : heap.msg[m].body = x})
               /\ HowMany(BodiesOf(heap), Ids, x) = Cardinality({c \in BodyObjects(heap) : heap.bobj[c].body = x})
               /\ HowMany(ObjectBodies(heap), Ids, x) = Cardinality({o \in Objects(heap) : heap.obj[o].body = x})
    <3>1. /\ HowMany(MessageBodies(heap), Ids, x) = Cardinality({m \in Messages(heap) : MessageBodies(heap)[m] = x})
          /\ HowMany(BodiesOf(heap), Ids, x) = Cardinality({c \in BodyObjects(heap) : BodiesOf(heap)[c] = x})
          /\ HowMany(ObjectBodies(heap), Ids, x) = Cardinality({o \in Objects(heap) : ObjectBodies(heap)[o] = x})
      <4>1. ASSUME NEW f, NEW S \in SUBSET Ids, \A i \in Ids \ S : f[i] = None
            PROVE  HowMany(f, Ids, x) = Cardinality({i \in S : f[i] = x})
        BY <4>1, CountedIn
      <4>2. HowMany(MessageBodies(heap), Ids, x) = Cardinality({m \in Messages(heap) : MessageBodies(heap)[m] = x})
        BY <1>2, <2>1, <4>1
      <4>3. HowMany(BodiesOf(heap), Ids, x) = Cardinality({c \in BodyObjects(heap) : BodiesOf(heap)[c] = x})
        BY <1>2, <2>1, <4>1
      <4>4. HowMany(ObjectBodies(heap), Ids, x) = Cardinality({o \in Objects(heap) : ObjectBodies(heap)[o] = x})
        BY <1>2, <2>1, <4>1
      <4> QED
        BY <4>2, <4>3, <4>4
    <3>2. {m \in Messages(heap) : MessageBodies(heap)[m] = x} = {m \in Messages(heap) : heap.msg[m].body = x}
      BY <1>2, <2>2
    <3>3. {c \in BodyObjects(heap) : BodiesOf(heap)[c] = x} = {c \in BodyObjects(heap) : heap.bobj[c].body = x}
      BY <1>2, <2>2
    <3>4. {o \in Objects(heap) : ObjectBodies(heap)[o] = x} = {o \in Objects(heap) : heap.obj[o].body = x}
      BY <1>2, <2>2
    <3> QED
      BY <3>1, <3>2, <3>3, <3>4, Zenon
  <2>4. /\ \A c \in Ids : heap.bobj[c].refs = bheld[c] + HowMany(ObjectBodies(heap), Ids, c)
        /\ \A b \in Ids : heap.body[b] = HowMany(MessageBodies(heap), Ids, b) + HowMany(BodiesOf(heap), Ids, b)
    BY <1>1 DEF Counted
  <2> QED
    BY <2>3, <2>4, Zenon DEF BodiesCounted
<1> QED
  BY <1>4, <1>5, <1>6 DEF MemorySafe, Owned

LEMMA ObjectsInvariant == Spec => []IInv
<1>1. Init => IInv
  BY InitInvariant
<1>2. IInv /\ [Next]_vars => IInv'
  BY NextKeeps
<1> QED
  BY <1>1, <1>2, PTL DEF Spec

-----------------------------------------------------------------------------
(* What follows *)

\* Whatever a script does and however much fits, no count of references on a
\* message's object, a body or a body object goes below zero, and all links are
\* to ids: nothing is released more often than it was referred to.
THEOREM ObjectsTypeOK == Spec => []TypeOK
<1>1. IInv => TypeOK
  BY DEF IInv
<1> QED
  BY <1>1, ObjectsInvariant, PTL

\* The parents of the objects and those of their messages say the same after any
\* sequence of prepend, reverse, clone, history and the rest, the body object of
\* an object has the body of its message, and no chain is a circle: every loop
\* over parents in php_http_message.c comes to an end.
THEOREM ChainsLinked == Spec => []Linked
<1> QED
  BY InvariantLinked, ObjectsInvariant, PTL

\* In whatever order variables are given up, nothing that lives refers to what
\* php_http_message_object_free and php_http_message_body_free freed, each
\* message has the one object that will free it, and each body as many holders
\* as it counts.
THEOREM ObjectsMemorySafe == Spec => []MemorySafe
<1> QED
  BY InvariantMemorySafe, ObjectsInvariant, PTL
=============================================================================
