--------------------------- MODULE CbrListProofs ----------------------------
(***************************************************************************)
(* The lists and the pool of records of the callback registry: what the    *)
(* searches of ml-cbr.c find, how inserting and removing a node changes a  *)
(* sorted list, and how the numbers of nodes and registrations follow.     *)
(***************************************************************************)
EXTENDS MlCbr, FiniteSetTheorems, WellFoundedInduction, TLAPS

-----------------------------------------------------------------------------
(* Lists of nodes                                                          *)

\* A set of natural numbers has a least element: the first match of a search.
LEMMA Least ==
  ASSUME NEW S, S \subseteq Nat, S # {}
  PROVE  Min(S) \in S /\ \A y \in S : Min(S) <= y
  <1>1. PICK x \in S : \A y \in S : ~ (<<y, x>> \in OpToRel(<, Nat))
    BY NatLessThanWellFounded, WFMin, Zenon
  <1>2. ASSUME NEW y \in S PROVE x <= y
    <2>1. x \in Nat /\ y \in Nat /\ <<y, x>> \in Nat \X Nat
      BY Zenon
    <2>2. ~ (y < x)
      BY <1>1, <2>1, Zenon DEF OpToRel
    <2> QED
      BY <2>1, <2>2
  <1> QED
    BY <1>2, Zenon DEF Min

\* Where the item at j of a list is once another was put in at i.
Skip(i, j) == IF j < i THEN j ELSE j + 1

\* s is r with one more item, at i.
OneMore(r, s, i) ==
    /\ DOMAIN r = 1..Len(r) /\ Len(r) \in Nat
    /\ DOMAIN s = 1..(Len(r) + 1) /\ i \in DOMAIN s
    /\ \A j \in DOMAIN r : s[Skip(i, j)] = r[j]

\* w is the items of u and then those of v.
Joins(S, u, v, w) ==
    /\ w \in Seq(S) /\ Len(w) = Len(u) + Len(v)
    /\ \A j \in 1..Len(u) : w[j] = u[j]
    /\ \A j \in (Len(u) + 1)..(Len(u) + Len(v)) : w[j] = v[j - Len(u)]

\* A list followed by another.
LEMMA Joined ==
  ASSUME NEW S, NEW u \in Seq(S), NEW v \in Seq(S)
  PROVE  Joins(S, u, v, u \o v)
  BY DEF Joins

\* insert_cbr puts a node in and moves the later ones up.
LEMMA Inserted ==
  ASSUME NEW S, NEW s \in Seq(S), NEW x \in S, NEW i \in 1..(Len(s) + 1)
  PROVE  /\ InsertAt(s, i, x) \in Seq(S)
         /\ OneMore(s, InsertAt(s, i, x), i)
         /\ InsertAt(s, i, x)[i] = x
  <1> DEFINE u == SubSeq(s, 1, i - 1)
             v == SubSeq(s, i, Len(s))
             a == u \o <<x>>
             w == a \o v
  <1>1. /\ u \in Seq(S) /\ Len(u) = i - 1 /\ \A j \in 1..(i - 1) : u[j] = s[j]
        /\ v \in Seq(S) /\ Len(v) = Len(s) - i + 1
        /\ \A j \in 1..(Len(s) - i + 1) : v[j] = s[i + j - 1]
    OBVIOUS
  <1> HIDE DEF u, v
  <1>2. /\ a \in Seq(S) /\ Len(a) = i /\ a[i] = x
        /\ \A j \in 1..(i - 1) : a[j] = s[j]
    <2>1. <<x>> \in Seq(S) /\ Len(<<x>>) = 1 /\ <<x>>[1] = x
      OBVIOUS
    <2>2. /\ a \in Seq(S) /\ Len(a) = Len(u) + Len(<<x>>)
          /\ \A j \in 1..Len(u) : a[j] = u[j]
          /\ \A j \in (Len(u) + 1)..(Len(u) + Len(<<x>>)) : a[j] = <<x>>[j - Len(u)]
      <3>1. Joins(S, u, <<x>>, a)
        BY <1>1, <2>1, Joined, Zenon
      <3> QED
        BY <3>1, Zenon DEF Joins
    <2> HIDE DEF a
    <2> QED
      BY <1>1, <2>1, <2>2
  <1> HIDE DEF a
  <1>3. /\ w \in Seq(S) /\ Len(w) = Len(s) + 1 /\ w[i] = x
        /\ \A j \in 1..(i - 1) : w[j] = s[j]
        /\ \A j \in (i + 1)..(Len(s) + 1) : w[j] = s[j - 1]
    <2>1. /\ w \in Seq(S) /\ Len(w) = Len(a) + Len(v)
          /\ \A j \in 1..Len(a) : w[j] = a[j]
          /\ \A j \in (Len(a) + 1)..(Len(a) + Len(v)) : w[j] = v[j - Len(a)]
      <3>1. Joins(S, a, v, w)
        BY <1>1, <1>2, Joined, Zenon
      <3> QED
        BY <3>1, Zenon DEF Joins
    <2> HIDE DEF w
    <2>2. Len(w) = Len(s) + 1 /\ w[i] = x
      <3>1. i \in 1..Len(a) /\ Len(a) + Len(v) = Len(s) + 1
        BY <1>1, <1>2
      <3> QED
        BY <1>2, <2>1, <3>1, Zenon
    <2>3. ASSUME NEW j \in 1..(i - 1) PROVE w[j] = s[j]
      BY <1>2, <2>1
    <2>4. ASSUME NEW j \in (i + 1)..(Len(s) + 1) PROVE w[j] = s[j - 1]
      <3>1. j \in (Len(a) + 1)..(Len(a) + Len(v)) /\ j - i \in 1..(Len(s) - i + 1)
        BY <1>1, <1>2
      <3>2. w[j] = v[j - i] /\ v[j - i] = s[i + (j - i) - 1]
        BY <1>1, <1>2, <2>1, <3>1, Zenon
      <3> QED
        BY <3>2
    <2> QED
      BY <2>1, <2>2, <2>3, <2>4, Zenon
  <1>4. InsertAt(s, i, x) = w
    BY Zenon DEF InsertAt, w, a, u, v
  <1> HIDE DEF w
  <1>5. OneMore(s, w, i)
    <2>1. DOMAIN s = 1..Len(s) /\ Len(s) \in Nat /\ DOMAIN w = 1..(Len(s) + 1)
      BY <1>3
    <2>2. ASSUME NEW j \in DOMAIN s PROVE w[Skip(i, j)] = s[j]
      BY <1>3, <2>1 DEF Skip
    <2> QED
      BY <2>1, <2>2, Zenon DEF OneMore
  <1> QED
    BY <1>3, <1>4, <1>5, Zenon

\* ml_unregister_cbr takes a node out and moves the later ones down.
LEMMA Removed ==
  ASSUME NEW S, NEW s \in Seq(S), NEW i \in 1..Len(s)
  PROVE  /\ RemoveAt(s, i) \in Seq(S)
         /\ OneMore(RemoveAt(s, i), s, i)
  <1> DEFINE u == SubSeq(s, 1, i - 1)
             v == SubSeq(s, i + 1, Len(s))
             w == u \o v
  <1>1. /\ u \in Seq(S) /\ Len(u) = i - 1 /\ \A j \in 1..(i - 1) : u[j] = s[j]
        /\ v \in Seq(S) /\ Len(v) = Len(s) - i
        /\ \A j \in 1..(Len(s) - i) : v[j] = s[i + j]
    OBVIOUS
  <1> HIDE DEF u, v
  <1>2. /\ w \in Seq(S) /\ Len(w) = Len(s) - 1
        /\ \A j \in 1..(i - 1) : w[j] = s[j]
        /\ \A j \in i..(Len(s) - 1) : w[j] = s[j + 1]
    <2>1. /\ w \in Seq(S) /\ Len(w) = Len(u) + Len(v)
          /\ \A j \in 1..Len(u) : w[j] = u[j]
          /\ \A j \in (Len(u) + 1)..(Len(u) + Len(v)) : w[j] = v[j - Len(u)]
      <3>1. Joins(S, u, v, w)
        BY <1>1, Joined, Zenon
      <3> QED
        BY <3>1, Zenon DEF Joins
    <2> HIDE DEF w
    <2>2. Len(w) = Len(s) - 1
      BY <1>1, <2>1
    <2>3. ASSUME NEW j \in 1..(i - 1) PROVE w[j] = s[j]
      BY <1>1, <2>1
    <2>4. ASSUME NEW j \in i..(Len(s) - 1) PROVE w[j] = s[j + 1]
      <3>1. /\ j \in (Len(u) + 1)..(Len(u) + Len(v)) /\ j - Len(u) \in 1..(Len(s) - i)
            /\ i + (j - Len(u)) = j + 1
        BY <1>1
      <3> QED
        BY <1>1, <2>1, <3>1, Zenon
    <2> QED
      BY <2>1, <2>2, <2>3, <2>4, Zenon
  <1>3. RemoveAt(s, i) = w
    BY Zenon DEF RemoveAt, w, u, v
  <1> HIDE DEF w
  <1>4. OneMore(w, s, i)
    <2>1. DOMAIN w = 1..Len(w) /\ Len(w) \in Nat /\ DOMAIN s = 1..(Len(w) + 1) /\ i \in DOMAIN s
      BY <1>2
    <2>2. ASSUME NEW j \in DOMAIN w PROVE s[Skip(i, j)] = w[j]
      BY <1>2, <2>1 DEF Skip
    <2> QED
      BY <1>2, <2>1, <2>2, Zenon DEF OneMore
  <1> QED
    BY <1>2, <1>3, <1>4, Zenon

\* The places move up without meeting, and leave the new one free.
LEMMA SkipPlaces ==
  ASSUME NEW r, NEW s, NEW i, OneMore(r, s, i)
  PROVE  /\ \A j \in DOMAIN r : Skip(i, j) \in DOMAIN s /\ Skip(i, j) # i
         /\ \A j, k \in DOMAIN r : Skip(i, j) = Skip(i, k) => j = k
         /\ \A m \in DOMAIN s : m # i => \E j \in DOMAIN r : m = Skip(i, j)
  <1>1. /\ DOMAIN r = 1..Len(r) /\ Len(r) \in Nat /\ DOMAIN s = 1..(Len(r) + 1)
        /\ i \in DOMAIN s
    BY Zenon DEF OneMore
  <1>2. /\ \A j \in DOMAIN r : Skip(i, j) \in DOMAIN s /\ Skip(i, j) # i
        /\ \A j, k \in DOMAIN r : Skip(i, j) = Skip(i, k) => j = k
    BY <1>1 DEF Skip
  <1>3. ASSUME NEW m \in DOMAIN s, m # i PROVE \E j \in DOMAIN r : m = Skip(i, j)
    <2>1. CASE m < i
      BY <1>1, <2>1 DEF Skip
    <2>2. CASE ~ m < i
      <3>1. m - 1 \in DOMAIN r /\ m = Skip(i, m - 1)
        BY <1>1, <1>3, <2>2 DEF Skip
      <3> QED
        BY <3>1, Zenon
    <2> QED
      BY <2>1, <2>2, Zenon
  <1> QED
    BY <1>2, <1>3, Zenon

\* f maps S one to one to T without x.
Embeds(f, S, T, x) ==
    /\ f \in [S -> T]
    /\ \A a, b \in S : f[a] = f[b] => a = b
    /\ \A a \in S : f[a] # x
    /\ \A b \in T : b # x => \E a \in S : f[a] = b

\* A set that has the image of another and one element more is larger by one.
LEMMA OneLarger ==
  ASSUME NEW S, NEW T, IsFiniteSet(S), NEW x, x \in T, NEW f, Embeds(f, S, T, x)
  PROVE  IsFiniteSet(T) /\ Cardinality(T) = Cardinality(S) + 1
  <1> USE DEF Embeds
  <1> DEFINE U == T \ {x}
  <1>1. f \in Bijection(S, U)
    <2>1. f \in [S -> U]
      OBVIOUS
    <2>2. f \in Injection(S, U)
      BY <2>1, Zenon DEF Injection, IsInjective
    <2>3. f \in Surjection(S, U)
      BY <2>1, Zenon DEF Surjection
    <2> QED
      BY <2>2, <2>3, Zenon DEF Bijection
  <1>2. ExistsBijection(S, U)
    BY <1>1, Zenon DEF ExistsBijection
  <1>3. IsFiniteSet(U) /\ Cardinality(U) = Cardinality(S)
    BY <1>2, FS_Bijection, Zenon
  <1>4. x \notin U /\ T = U \cup {x}
    BY Zenon
  <1> HIDE DEF U
  <1>5. IsFiniteSet(U \cup {x}) /\ Cardinality(U \cup {x}) = Cardinality(U) + 1
    BY <1>3, <1>4, FS_AddElement, Zenon
  <1> QED
    BY <1>3, <1>4, <1>5, Zenon

\* Where a list has nodes of callback c.
At(s, c) == {k \in DOMAIN s : s[k].cbr = c}

\* A list has finitely many nodes of a callback.
LEMMA AtFinite ==
  ASSUME NEW s, NEW n \in Nat, DOMAIN s = 1..n, NEW c
  PROVE  /\ IsFiniteSet(At(s, c)) /\ Cardinality(At(s, c)) \in Nat
         /\ Cardinality(At(s, c)) = 0 <=> At(s, c) = {}
  <1>1. IsFiniteSet(1..n) /\ At(s, c) \in SUBSET (1..n)
    BY FS_Interval DEF At
  <1>2. IsFiniteSet(At(s, c))
    BY <1>1, FS_Subset, Zenon
  <1> QED
    BY <1>2, FS_CardinalityType, FS_EmptySet, Zenon

\* One more node is one more of its callback and as many of every other.
LEMMA AtOneMore ==
  ASSUME NEW r, NEW s, NEW i, OneMore(r, s, i), NEW c
  PROVE  Cardinality(At(s, c)) = Cardinality(At(r, c)) + (IF s[i].cbr = c THEN 1 ELSE 0)
  <1> DEFINE f == [k \in At(r, c) |-> Skip(i, k)]
  <1>1. /\ DOMAIN r = 1..Len(r) /\ Len(r) \in Nat /\ i \in DOMAIN s
        /\ \A j \in DOMAIN r : s[Skip(i, j)] = r[j]
    BY Zenon DEF OneMore
  <1>1a. /\ \A j \in DOMAIN r : Skip(i, j) \in DOMAIN s /\ Skip(i, j) # i
         /\ \A j, k \in DOMAIN r : Skip(i, j) = Skip(i, k) => j = k
         /\ \A m \in DOMAIN s : m # i => \E j \in DOMAIN r : m = Skip(i, j)
    BY SkipPlaces
  <1>2. IsFiniteSet(At(r, c)) /\ Cardinality(At(r, c)) \in Nat
    BY <1>1, AtFinite, Zenon
  <1>3. Embeds(f, At(r, c), At(s, c), i)
    <2>1. ASSUME NEW k \in At(r, c)
          PROVE  k \in DOMAIN r /\ f[k] = Skip(i, k) /\ f[k] \in At(s, c) /\ f[k] # i
      BY <1>1, <1>1a, Zenon DEF At
    <2>2. ASSUME NEW b \in At(s, c), b # i PROVE \E a \in At(r, c) : f[a] = b
      <3>1. PICK j \in DOMAIN r : b = Skip(i, j)
        BY <2>2, <1>1a, Zenon DEF At
      <3>2. j \in At(r, c)
        BY <1>1, <3>1, Zenon DEF At
      <3> QED
        BY <2>1, <3>1, <3>2, Zenon
    <2>3. f \in [At(r, c) -> At(s, c)]
      BY <2>1, Zenon
    <2> HIDE DEF f
    <2>4. \A a, b \in At(r, c) : f[a] = f[b] => a = b
      BY <2>1, <1>1a, Zenon
    <2> QED
      BY <2>1, <2>2, <2>3, <2>4, Zenon DEF Embeds
  <1> HIDE DEF f
  <1>4. CASE s[i].cbr = c
    <2>1. i \in At(s, c)
      BY <1>1, <1>4, Zenon DEF At
    <2>2. Cardinality(At(s, c)) = Cardinality(At(r, c)) + 1
      BY <1>2, <1>3, <2>1, OneLarger, Zenon
    <2> QED
      BY <1>4, <2>2, Zenon
  <1>5. CASE s[i].cbr # c
    <2>1. i \notin At(s, c)
      BY <1>5, Zenon DEF At
    <2>2. f \in Bijection(At(r, c), At(s, c))
      BY <1>3, <2>1, Zenon DEF Embeds, Bijection, Injection, Surjection, IsInjective
    <2>3. Cardinality(At(s, c)) = Cardinality(At(r, c))
      BY <1>2, <2>2, FS_Bijection, Zenon DEF ExistsBijection
    <2> QED
      BY <1>2, <1>5, <2>3
  <1> QED
    BY <1>4, <1>5, Zenon

\* The nodes on the lists N, each by its event and place.
Places(N) == UNION {{e} \X DOMAIN N[e] : e \in Events}

\* What a node on a list is.
LEMMA PlaceIs ==
  ASSUME NEW N, NEW p
  PROVE  p \in Places(N) <=> \E d \in Events : \E k \in DOMAIN N[d] : p = <<d, k>>
  <1>1. ASSUME p \in Places(N) PROVE \E d \in Events : \E k \in DOMAIN N[d] : p = <<d, k>>
    <2>1. PICK d \in Events : p \in {d} \X DOMAIN N[d]
      BY <1>1, Zenon DEF Places
    <2> QED
      BY <2>1
  <1>2. ASSUME NEW d \in Events, NEW k \in DOMAIN N[d], p = <<d, k>> PROVE p \in Places(N)
    <2>1. p \in {d} \X DOMAIN N[d]
      BY <1>2
    <2> QED
      BY <2>1, Zenon DEF Places
  <1> QED
    BY <1>1, <1>2, Zenon

\* One more node on one list is one more node in all.
LEMMA PlacesOneMore ==
  ASSUME NEW N, NEW M, NEW e \in Events, NEW i, OneMore(N[e], M[e], i),
         \A d \in Events : d # e => M[d] = N[d],
         IsFiniteSet(Places(N))
  PROVE  IsFiniteSet(Places(M)) /\ Cardinality(Places(M)) = Cardinality(Places(N)) + 1
  <1> DEFINE S == Places(N)
             T == Places(M)
             g(p) == IF p[1] = e THEN <<e, Skip(i, p[2])>> ELSE p
             f == [p \in S |-> g(p)]
             x == <<e, i>>
  <1>1. /\ i \in DOMAIN M[e]
        /\ \A j \in DOMAIN N[e] : Skip(i, j) \in DOMAIN M[e] /\ Skip(i, j) # i
        /\ \A j, k \in DOMAIN N[e] : Skip(i, j) = Skip(i, k) => j = k
        /\ \A m \in DOMAIN M[e] : m # i => \E j \in DOMAIN N[e] : m = Skip(i, j)
    <2>1. i \in DOMAIN M[e]
      BY Zenon DEF OneMore
    <2> QED
      BY <2>1, SkipPlaces
  <1>2. x \in T
    BY <1>1, PlaceIs, Zenon
  <1>3. ASSUME NEW d \in Events, NEW k \in DOMAIN N[d]
        PROVE  /\ <<d, k>> \in S
               /\ d = e => g(<<d, k>>) = <<e, Skip(i, k)>>
               /\ d # e => g(<<d, k>>) = <<d, k>>
               /\ g(<<d, k>>) \in T /\ g(<<d, k>>) # x
    <2>1. <<d, k>> \in S
      BY PlaceIs, Zenon
    <2>2. /\ d = e => g(<<d, k>>) = <<e, Skip(i, k)>>
          /\ d # e => g(<<d, k>>) = <<d, k>>
      OBVIOUS
    <2>3. CASE d = e
      <3>1. Skip(i, k) \in DOMAIN M[e] /\ Skip(i, k) # i
        BY <1>1, <2>3, Zenon
      <3>2. <<e, Skip(i, k)>> \in T
        BY <3>1, PlaceIs, Zenon
      <3>3. <<e, Skip(i, k)>> # x
        BY <3>1
      <3> QED
        BY <2>1, <2>2, <2>3, <3>2, <3>3, Zenon
    <2>4. CASE d # e
      <3>1. <<d, k>> \in T
        BY <2>4, PlaceIs, Zenon
      <3>2. <<d, k>> # x
        BY <2>4
      <3> QED
        BY <2>1, <2>2, <2>4, <3>1, <3>2, Zenon
    <2> QED
      BY <2>3, <2>4, Zenon
  <1>4. \A p \in S : f[p] = g(p)
    OBVIOUS
  <1>5. f \in [S -> T] /\ \A p \in S : f[p] # x
    <2>1. ASSUME NEW p \in S PROVE g(p) \in T /\ g(p) # x
      <3>1. PICK d \in Events : \E k \in DOMAIN N[d] : p = <<d, k>>
        BY PlaceIs, SMT
      <3> HIDE DEF g
      <3> QED
        BY <1>3, <3>1, Zenon
    <2> HIDE DEF g
    <2> QED
      BY <1>4, <2>1, Zenon
  <1>6. ASSUME NEW p \in S, NEW q \in S, f[p] = f[q] PROVE p = q
    <2>1. PICK d \in Events : \E k \in DOMAIN N[d] : p = <<d, k>>
      BY PlaceIs, SMT
    <2>2. PICK k \in DOMAIN N[d] : p = <<d, k>>
      BY <2>1, Zenon
    <2>3. PICK b \in Events : \E l \in DOMAIN N[b] : q = <<b, l>>
      BY PlaceIs, SMT
    <2>4. PICK l \in DOMAIN N[b] : q = <<b, l>>
      BY <2>3, Zenon
    <2>5. g(<<d, k>>) = g(<<b, l>>)
      BY <1>4, <1>6, <2>2, <2>4, Zenon
    <2>6. /\ d = e => g(<<d, k>>) = <<e, Skip(i, k)>>
          /\ d # e => g(<<d, k>>) = <<d, k>>
          /\ b = e => g(<<b, l>>) = <<e, Skip(i, l)>>
          /\ b # e => g(<<b, l>>) = <<b, l>>
      BY <1>3, Zenon
    <2> HIDE DEF g
    <2>7. CASE d = e /\ b = e
      <3>1. Skip(i, k) = Skip(i, l)
        BY <2>5, <2>6, <2>7
      <3> QED
        BY <1>1, <2>2, <2>4, <2>7, <3>1, Zenon
    <2>8. CASE d # e \/ b # e
      BY <2>2, <2>4, <2>5, <2>6, <2>8
    <2> QED
      BY <2>7, <2>8, Zenon
  <1>7. ASSUME NEW q \in T, q # x PROVE \E p \in S : f[p] = q
    <2>1. PICK b \in Events : \E l \in DOMAIN M[b] : q = <<b, l>>
      BY PlaceIs, SMT
    <2>2. PICK l \in DOMAIN M[b] : q = <<b, l>>
      BY <2>1, Zenon
    <2>3. CASE b = e
      <3>1. PICK j \in DOMAIN N[e] : l = Skip(i, j)
        BY <1>1, <1>7, <2>2, <2>3, Zenon
      <3> QED
        BY <1>3, <1>4, <2>2, <2>3, <3>1, Zenon
    <2>4. CASE b # e
      BY <1>3, <1>4, <2>2, <2>4, Zenon
    <2> QED
      BY <2>3, <2>4, Zenon
  <1> HIDE DEF S, T, f, x
  <1>8. Embeds(f, S, T, x)
    BY <1>5, <1>6, <1>7, Zenon DEF Embeds
  <1>9. IsFiniteSet(S)
    BY Zenon DEF S
  <1> QED
    BY <1>2, <1>8, <1>9, OneLarger, Zenon DEF S, T

Node == [cbr : Callbacks, prio : Prios]

\* Higher priorities come first.
Sorted(s) == \A i, j \in DOMAIN s : i < j => s[i].prio >= s[j].prio

\* Priorities are natural numbers.
LEMMA NodePrio ==
  ASSUME NEW s \in Seq(Node)
  PROVE  /\ Len(s) \in Nat /\ \A p \in Prios : p \in Nat
         /\ \A j \in 1..Len(s) : s[j].prio \in Nat
  <1>1. \A p \in Prios : p \in Nat
    BY CbrAssumption, Zenon
  <1>2. ASSUME NEW j \in 1..Len(s) PROVE s[j].prio \in Nat
    <2>1. s[j] \in Node
      OBVIOUS
    <2> QED
      BY <1>1, <2>1, Zenon DEF Node
  <1> QED
    BY <1>1, <1>2

\* The place insert_cbr chooses.
LEMMA InsertIs ==
  ASSUME NEW s \in Seq(Node), NEW c \in Callbacks, NEW p \in Prios
  PROVE  \E i \in 1..(Len(s) + 1) :
            /\ insert_cbr(s, c, p) = InsertAt(s, i, [cbr |-> c, prio |-> p])
            /\ \A j \in 1..(i - 1) : s[j].prio >= p
            /\ i <= Len(s) => s[i].prio < p
  <1> DEFINE I == {i \in 1..Len(s) : s[i].prio < p}
             lower == IF I # {} THEN Min(I) ELSE 0
             i == IF lower = 0 THEN Len(s) + 1 ELSE lower
  <1>0. /\ Len(s) \in Nat /\ p \in Nat
        /\ \A j \in 1..Len(s) : s[j].prio \in Nat
    BY NodePrio
  <1>1. insert_cbr(s, c, p) = InsertAt(s, i, [cbr |-> c, prio |-> p])
    BY Zenon DEF insert_cbr, SelectInSeq
  <1>2. CASE I = {}
    <2>1. i = Len(s) + 1
      BY <1>2, Zenon
    <2>2. \A j \in 1..Len(s) : s[j].prio >= p
      BY <1>0, <1>2
    <2> QED
      BY <1>0, <1>1, <2>1, <2>2
  <1>3. CASE I # {}
    <2>1. I \subseteq Nat
      OBVIOUS
    <2>2. Min(I) \in I /\ \A y \in I : Min(I) <= y
      BY <1>3, <2>1, Least, Zenon
    <2>3. i = Min(I)
      <3>1. Min(I) # 0
        BY <2>2
      <3> QED
        BY <1>3, <3>1, Zenon
    <2>4. i \in 1..Len(s) /\ s[i].prio < p /\ \A y \in I : i <= y
      BY <2>2, <2>3
    <2> HIDE DEF i
    <2>5. \A j \in 1..(i - 1) : s[j].prio >= p
      BY <1>0, <2>4
    <2> QED
      BY <1>0, <1>1, <2>4, <2>5
  <1> QED
    BY <1>2, <1>3, Zenon

\* insert_cbr keeps the order of priorities.
LEMMA InsertSorted ==
  ASSUME NEW s \in Seq(Node), Sorted(s), NEW c \in Callbacks, NEW p \in Prios
  PROVE  /\ insert_cbr(s, c, p) \in Seq(Node) /\ Sorted(insert_cbr(s, c, p))
         /\ \E i : OneMore(s, insert_cbr(s, c, p), i) /\ insert_cbr(s, c, p)[i].cbr = c
  <1> DEFINE x == [cbr |-> c, prio |-> p]
  <1>1. PICK i \in 1..(Len(s) + 1) :
            /\ insert_cbr(s, c, p) = InsertAt(s, i, x)
            /\ \A j \in 1..(i - 1) : s[j].prio >= p
            /\ i <= Len(s) => s[i].prio < p
    BY InsertIs, Zenon
  <1>2. PICK w : w = InsertAt(s, i, x)
    OBVIOUS
  <1>3. x \in Node /\ x.cbr = c /\ x.prio = p
    BY DEF Node
  <1> HIDE DEF x
  <1>4. w \in Seq(Node) /\ OneMore(s, w, i) /\ w[i] = x
    <2>1. /\ InsertAt(s, i, x) \in Seq(Node) /\ OneMore(s, InsertAt(s, i, x), i)
          /\ InsertAt(s, i, x)[i] = x
      BY <1>3, Inserted
    <2> QED
      BY <1>2, <2>1, Zenon
  <1>5. /\ DOMAIN s = 1..Len(s) /\ Len(s) \in Nat /\ DOMAIN w = 1..(Len(s) + 1)
        /\ \A j \in DOMAIN s : w[Skip(i, j)] = s[j]
    BY <1>4, Zenon DEF OneMore
  <1>6. /\ p \in Nat /\ \A j \in 1..Len(s) : s[j].prio \in Nat
        /\ \A j, k \in 1..Len(s) : j < k => s[j].prio >= s[k].prio
    BY <1>5, NodePrio, Zenon DEF Sorted
  <1>7. /\ \A j \in 1..(i - 1) : w[j] = s[j]
        /\ \A j \in (i + 1)..(Len(s) + 1) : w[j] = s[j - 1]
    <2>1. ASSUME NEW j \in 1..(i - 1) PROVE w[j] = s[j]
      <3>1. j \in DOMAIN s /\ Skip(i, j) = j
        BY <1>5 DEF Skip
      <3> QED
        BY <1>5, <3>1, Zenon
    <2>2. ASSUME NEW j \in (i + 1)..(Len(s) + 1) PROVE w[j] = s[j - 1]
      <3>1. j - 1 \in DOMAIN s /\ Skip(i, j - 1) = j
        BY <1>5 DEF Skip
      <3> QED
        BY <1>5, <3>1, Zenon
    <2> QED
      BY <2>1, <2>2, Zenon
  <1>8. ASSUME NEW a \in DOMAIN w, NEW b \in DOMAIN w, a < b
        PROVE  w[a].prio >= w[b].prio
    <2>1. CASE b < i
      BY <1>5, <1>6, <1>7, <1>8, <2>1
    <2>2. CASE b = i
      BY <1>1, <1>3, <1>4, <1>5, <1>7, <1>8, <2>2
    <2>3. CASE b > i /\ a > i
      <3>1. /\ a - 1 \in 1..Len(s) /\ b - 1 \in 1..Len(s) /\ a - 1 < b - 1
            /\ w[a] = s[a - 1] /\ w[b] = s[b - 1]
        <4>1. /\ a - 1 \in 1..Len(s) /\ b - 1 \in 1..Len(s) /\ a - 1 < b - 1
              /\ a \in (i + 1)..(Len(s) + 1) /\ b \in (i + 1)..(Len(s) + 1)
          BY <1>5, <1>8, <2>3
        <4> QED
          BY <1>7, <4>1, Zenon
      <3> QED
        BY <1>6, <3>1, Zenon
    <2>4. CASE b > i /\ a = i
      <3>1. b - 1 \in 1..Len(s) /\ i <= b - 1 /\ w[b] = s[b - 1] /\ i \in 1..Len(s)
        BY <1>5, <1>7, <1>8, <2>4
      <3>2. s[i].prio < p /\ (i = b - 1 \/ s[i].prio >= s[b - 1].prio)
        BY <1>1, <1>6, <3>1
      <3> QED
        BY <1>3, <1>4, <1>6, <2>4, <3>1, <3>2
    <2>5. CASE b > i /\ a < i
      <3>1. /\ a \in 1..Len(s) /\ b - 1 \in 1..Len(s) /\ a < b - 1
            /\ w[a] = s[a] /\ w[b] = s[b - 1]
        BY <1>5, <1>7, <1>8, <2>5
      <3> QED
        BY <1>6, <3>1
    <2> QED
      BY <1>5, <2>1, <2>2, <2>3, <2>4, <2>5
  <1> QED
    BY <1>1, <1>2, <1>3, <1>4, <1>8, Zenon DEF Sorted

\* Taking a node out keeps the order.
LEMMA RemoveSorted ==
  ASSUME NEW r, NEW s, NEW i, OneMore(r, s, i), Sorted(s)
  PROVE  Sorted(r)
  <1>1. /\ DOMAIN r = 1..Len(r) /\ Len(r) \in Nat /\ DOMAIN s = 1..(Len(r) + 1)
        /\ i \in DOMAIN s /\ \A j \in DOMAIN r : s[Skip(i, j)] = r[j]
    BY Zenon DEF OneMore
  <1>2. ASSUME NEW j \in DOMAIN r, NEW k \in DOMAIN r, j < k
        PROVE  Skip(i, j) \in DOMAIN s /\ Skip(i, k) \in DOMAIN s /\ Skip(i, j) < Skip(i, k)
    BY <1>1, <1>2 DEF Skip
  <1> QED
    BY <1>1, <1>2, Zenon DEF Sorted

-----------------------------------------------------------------------------
(* The lists and the registrations                                         *)

\* The lists N of the events are in order, with at most r[<<e, c>>] nodes of c on
\* that of e and at most u nodes in all; exactly as many while the pool has
\* n = RECORD_POOL_SIZE records.
Counted(N, r, u, n) ==
    /\ IsFiniteSet(Places(N)) /\ Cardinality(Places(N)) <= u
    /\ \A e \in Events : N[e] \in Seq(Node) /\ Sorted(N[e])
    /\ \A e \in Events, c \in Callbacks : Cardinality(At(N[e], c)) <= r[<<e, c>>]
    /\ n = RECORD_POOL_SIZE =>
          /\ Cardinality(Places(N)) = u
          /\ \A e \in Events, c \in Callbacks : Cardinality(At(N[e], c)) = r[<<e, c>>]

More(r, e, c) == [r EXCEPT ![<<e, c>>] = @ + 1]
Less(r, e, c) == [r EXCEPT ![<<e, c>>] = IF @ = 0 THEN 0 ELSE @ - 1]

\* What ml_register_cbr and ml_unregister_cbr do to the history of registrations.
LEMMA RegsType ==
  ASSUME NEW r \in [Events \X Callbacks -> Nat], NEW e \in Events, NEW c \in Callbacks
  PROVE  /\ More(r, e, c) \in [Events \X Callbacks -> Nat]
         /\ Less(r, e, c) \in [Events \X Callbacks -> Nat]
  <1>1. <<e, c>> \in Events \X Callbacks /\ r[<<e, c>>] \in Nat
    OBVIOUS
  <1> QED
    BY <1>1 DEF More, Less

\* r1 is r but for n registrations of callback c for event e.
Differ(r, r1, e, c, n) ==
    \A d \in Events, b \in Callbacks :
        /\ r[<<d, b>>] \in Nat
        /\ r1[<<d, b>>] = IF d = e /\ b = c THEN n ELSE r[<<d, b>>]

\* The registrations after ml_register_cbr and after ml_unregister_cbr.
LEMMA RegsChange ==
  ASSUME NEW r \in [Events \X Callbacks -> Nat], NEW e \in Events, NEW c \in Callbacks
  PROVE  /\ Differ(r, More(r, e, c), e, c, r[<<e, c>>] + 1)
         /\ Differ(r, Less(r, e, c), e, c, IF r[<<e, c>>] = 0 THEN 0 ELSE r[<<e, c>>] - 1)
  <1>1. ASSUME NEW d \in Events, NEW b \in Callbacks
        PROVE  /\ r[<<d, b>>] \in Nat
               /\ More(r, e, c)[<<d, b>>] = IF d = e /\ b = c THEN r[<<e, c>>] + 1 ELSE r[<<d, b>>]
               /\ Less(r, e, c)[<<d, b>>] =
                     IF d = e /\ b = c THEN IF r[<<e, c>>] = 0 THEN 0 ELSE r[<<e, c>>] - 1
                     ELSE r[<<d, b>>]
    <2>1. <<e, c>> \in Events \X Callbacks /\ <<d, b>> \in Events \X Callbacks
      OBVIOUS
    <2>2. ~ (d = e /\ b = c) => <<d, b>> # <<e, c>>
      OBVIOUS
    <2> QED
      BY <2>1, <2>2 DEF More, Less
  <1> QED
    BY <1>1, Zenon DEF Differ

\* The numbers in Counted are natural.
LEMMA CountsNat ==
  ASSUME NEW N, \A e \in Events : N[e] \in Seq(Node), NEW e \in Events, NEW c
  PROVE  Cardinality(At(N[e], c)) \in Nat
  <1>1. N[e] \in Seq(Node)
    BY Zenon
  <1>2. DOMAIN N[e] = 1..Len(N[e]) /\ Len(N[e]) \in Nat
    BY <1>1
  <1> QED
    BY <1>2, AtFinite, Zenon

\* A registered callback: one more node, one more registration.
LEMMA CountGrows ==
  ASSUME NEW N, NEW r \in [Events \X Callbacks -> Nat], NEW u \in Nat, NEW n,
         Counted(N, r, u, n),
         NEW M, NEW e \in Events, NEW c \in Callbacks, NEW i,
         OneMore(N[e], M[e], i), M[e][i].cbr = c, M[e] \in Seq(Node), Sorted(M[e]),
         \A d \in Events : d # e => M[d] = N[d]
  PROVE  Counted(M, More(r, e, c), u + 1, n)
  <1>1. IsFiniteSet(Places(M)) /\ Cardinality(Places(M)) = Cardinality(Places(N)) + 1
    <2>1. IsFiniteSet(Places(N))
      BY Zenon DEF Counted
    <2> QED
      BY <2>1, PlacesOneMore
  <1>2. Cardinality(Places(N)) \in Nat
    BY FS_CardinalityType, Zenon DEF Counted
  <1>3. \A d \in Events : M[d] \in Seq(Node) /\ Sorted(M[d])
    BY Zenon DEF Counted
  <1>4. ASSUME NEW d \in Events, NEW b \in Callbacks
        PROVE  /\ Cardinality(At(M[d], b)) <= More(r, e, c)[<<d, b>>]
               /\ n = RECORD_POOL_SIZE => Cardinality(At(M[d], b)) = More(r, e, c)[<<d, b>>]
    <2>1. /\ Cardinality(At(N[d], b)) <= r[<<d, b>>]
          /\ n = RECORD_POOL_SIZE => Cardinality(At(N[d], b)) = r[<<d, b>>]
      BY Zenon DEF Counted
    <2>2. Cardinality(At(N[d], b)) \in Nat
      BY CountsNat, Zenon DEF Counted
    <2>3. /\ r[<<d, b>>] \in Nat
          /\ More(r, e, c)[<<d, b>>] =
                IF d = e /\ b = c THEN r[<<e, c>>] + 1 ELSE r[<<d, b>>]
      <3>1. Differ(r, More(r, e, c), e, c, r[<<e, c>>] + 1)
        BY RegsChange, Zenon
      <3> QED
        BY <3>1, Zenon DEF Differ
    <2>4. d = e => Cardinality(At(M[d], b)) = Cardinality(At(N[d], b)) + (IF b = c THEN 1 ELSE 0)
      BY AtOneMore
    <2>5. d # e => Cardinality(At(M[d], b)) = Cardinality(At(N[d], b))
      BY Zenon
    <2>6. CASE d = e
      <3>1. CASE b = c
        <4>1. r[<<e, c>>] = r[<<d, b>>]
          BY <2>6, <3>1, Zenon
        <4> QED
          BY <2>1, <2>2, <2>3, <2>4, <2>6, <3>1, <4>1
      <3>2. CASE b # c
        BY <2>1, <2>2, <2>3, <2>4, <2>6, <3>2
      <3> QED
        BY <3>1, <3>2, Zenon
    <2>7. CASE d # e
      BY <2>1, <2>2, <2>3, <2>5, <2>7
    <2> QED
      BY <2>6, <2>7, Zenon
  <1>5. /\ Cardinality(Places(M)) <= u + 1
        /\ n = RECORD_POOL_SIZE => Cardinality(Places(M)) = u + 1
    BY <1>1, <1>2 DEF Counted
  <1> QED
    BY <1>1, <1>3, <1>4, <1>5, Zenon DEF Counted

\* A callback taken out: one node less, one registration less.
LEMMA CountShrinks ==
  ASSUME NEW N, NEW r \in [Events \X Callbacks -> Nat], NEW u \in Nat, NEW n,
         Counted(N, r, u, n),
         NEW M, NEW e \in Events, NEW c \in Callbacks, NEW i,
         OneMore(M[e], N[e], i), N[e][i].cbr = c, M[e] \in Seq(Node), Sorted(M[e]),
         \A d \in Events : d # e => M[d] = N[d]
  PROVE  Counted(M, Less(r, e, c), u - 1, n) /\ u >= 1
  <1>1. IsFiniteSet(Places(M))
    <2>1. DOMAIN M[e] \subseteq DOMAIN N[e]
      <3>1. DOMAIN M[e] = 1..Len(M[e]) /\ Len(M[e]) \in Nat /\ DOMAIN N[e] = 1..(Len(M[e]) + 1)
        BY Zenon DEF OneMore
      <3> QED
        BY <3>1
    <2>2. \A d \in Events : DOMAIN M[d] \subseteq DOMAIN N[d]
      BY <2>1, Zenon
    <2>3. ASSUME NEW p \in Places(M) PROVE p \in Places(N)
      <3>1. PICK d \in Events : \E k \in DOMAIN M[d] : p = <<d, k>>
        BY PlaceIs, SMT
      <3>2. PICK k \in DOMAIN M[d] : p = <<d, k>>
        BY <3>1, Zenon
      <3>3. k \in DOMAIN N[d]
        BY <2>2, Zenon
      <3> QED
        BY <3>2, <3>3, PlaceIs, Zenon
    <2>4. IsFiniteSet(Places(N))
      BY Zenon DEF Counted
    <2>5. Places(M) \in SUBSET Places(N)
      BY <2>3, Zenon
    <2> QED
      BY <2>4, <2>5, FS_Subset, Zenon
  <1>2. Cardinality(Places(N)) = Cardinality(Places(M)) + 1
    <2>1. \A d \in Events : d # e => N[d] = M[d]
      BY Zenon
    <2> QED
      BY <1>1, <2>1, PlacesOneMore
  <1>3. Cardinality(Places(M)) \in Nat
    BY <1>1, FS_CardinalityType, Zenon
  <1>4. \A d \in Events : M[d] \in Seq(Node) /\ Sorted(M[d])
    BY Zenon DEF Counted
  <1>5. ASSUME NEW d \in Events, NEW b \in Callbacks
        PROVE  /\ Cardinality(At(M[d], b)) <= Less(r, e, c)[<<d, b>>]
               /\ n = RECORD_POOL_SIZE => Cardinality(At(M[d], b)) = Less(r, e, c)[<<d, b>>]
    <2>1. /\ Cardinality(At(N[d], b)) <= r[<<d, b>>]
          /\ n = RECORD_POOL_SIZE => Cardinality(At(N[d], b)) = r[<<d, b>>]
      BY Zenon DEF Counted
    <2>2. Cardinality(At(N[d], b)) \in Nat /\ Cardinality(At(M[d], b)) \in Nat
      <3>1. \A a \in Events : M[a] \in Seq(Node) /\ N[a] \in Seq(Node)
        BY <1>4, Zenon DEF Counted
      <3> QED
        BY <3>1, CountsNat, Zenon
    <2>3. /\ r[<<d, b>>] \in Nat
          /\ Less(r, e, c)[<<d, b>>] =
                IF d = e /\ b = c THEN IF r[<<e, c>>] = 0 THEN 0 ELSE r[<<e, c>>] - 1 ELSE r[<<d, b>>]
      <3>1. Differ(r, Less(r, e, c), e, c, IF r[<<e, c>>] = 0 THEN 0 ELSE r[<<e, c>>] - 1)
        BY RegsChange, Zenon
      <3> QED
        BY <3>1, Zenon DEF Differ
    <2>4. d = e => Cardinality(At(N[d], b)) = Cardinality(At(M[d], b)) + (IF b = c THEN 1 ELSE 0)
      BY AtOneMore
    <2>5. d # e => Cardinality(At(M[d], b)) = Cardinality(At(N[d], b))
      BY Zenon
    <2>6. CASE d = e
      <3>1. CASE b = c
        <4>1. r[<<e, c>>] = r[<<d, b>>]
          BY <2>6, <3>1, Zenon
        <4> QED
          BY <2>1, <2>2, <2>3, <2>4, <2>6, <3>1, <4>1
      <3>2. CASE b # c
        BY <2>1, <2>2, <2>3, <2>4, <2>6, <3>2
      <3> QED
        BY <3>1, <3>2, Zenon
    <2>7. CASE d # e
      BY <2>1, <2>2, <2>3, <2>5, <2>7
    <2> QED
      BY <2>6, <2>7, Zenon
  <1>6. /\ Cardinality(Places(M)) <= u - 1 /\ u >= 1
        /\ n = RECORD_POOL_SIZE => Cardinality(Places(M)) = u - 1
    BY <1>2, <1>3 DEF Counted
  <1> QED
    BY <1>1, <1>4, <1>5, <1>6, Zenon DEF Counted

\* A registration that was never there is undone: no change.
LEMMA CountAbsent ==
  ASSUME NEW N, NEW r \in [Events \X Callbacks -> Nat], NEW u \in Nat, NEW n,
         Counted(N, r, u, n), NEW e \in Events, NEW c \in Callbacks, At(N[e], c) = {}
  PROVE  Counted(N, Less(r, e, c), u, n)
  <1>1. ASSUME NEW d \in Events, NEW b \in Callbacks
        PROVE  /\ Cardinality(At(N[d], b)) <= Less(r, e, c)[<<d, b>>]
               /\ n = RECORD_POOL_SIZE => Cardinality(At(N[d], b)) = Less(r, e, c)[<<d, b>>]
    <2>1. /\ Cardinality(At(N[d], b)) <= r[<<d, b>>]
          /\ n = RECORD_POOL_SIZE => Cardinality(At(N[d], b)) = r[<<d, b>>]
      BY Zenon DEF Counted
    <2>2. d = e /\ b = c => Cardinality(At(N[d], b)) = 0
      BY FS_EmptySet, Zenon
    <2>3. /\ r[<<d, b>>] \in Nat
          /\ Less(r, e, c)[<<d, b>>] =
                IF d = e /\ b = c THEN IF r[<<e, c>>] = 0 THEN 0 ELSE r[<<e, c>>] - 1 ELSE r[<<d, b>>]
      <3>1. Differ(r, Less(r, e, c), e, c, IF r[<<e, c>>] = 0 THEN 0 ELSE r[<<e, c>>] - 1)
        BY RegsChange, Zenon
      <3> QED
        BY <3>1, Zenon DEF Differ
    <2> QED
      BY <2>1, <2>2, <2>3
  <1> QED
    BY <1>1, Zenon DEF Counted

\* A callback registered in a record without a name is on no event's list.
LEMMA CountLeaks ==
  ASSUME NEW N, NEW r \in [Events \X Callbacks -> Nat], NEW u \in Nat, NEW n,
         Counted(N, r, u, n), NEW e \in Events, NEW c \in Callbacks,
         NEW m, m # RECORD_POOL_SIZE
  PROVE  Counted(N, More(r, e, c), u + 1, m)
  <1>1. ASSUME NEW d \in Events, NEW b \in Callbacks
        PROVE  Cardinality(At(N[d], b)) <= More(r, e, c)[<<d, b>>]
    <2>1. Cardinality(At(N[d], b)) <= r[<<d, b>>]
      BY Zenon DEF Counted
    <2>2. Cardinality(At(N[d], b)) \in Nat
      BY CountsNat, Zenon DEF Counted
    <2>3. /\ r[<<d, b>>] \in Nat
          /\ More(r, e, c)[<<d, b>>] =
                IF d = e /\ b = c THEN r[<<e, c>>] + 1 ELSE r[<<d, b>>]
      <3>1. Differ(r, More(r, e, c), e, c, r[<<e, c>>] + 1)
        BY RegsChange, Zenon
      <3> QED
        BY <3>1, Zenon DEF Differ
    <2> QED
      BY <2>1, <2>2, <2>3
  <1>2. Cardinality(Places(N)) \in Nat
    BY FS_CardinalityType, Zenon DEF Counted
  <1>3. Cardinality(Places(N)) <= u + 1
    BY <1>2 DEF Counted
  <1> QED
    BY <1>1, <1>3, Zenon DEF Counted

-----------------------------------------------------------------------------
(* The pool of records                                                     *)

Record == [name : Events \cup {NoEvent}, first : Seq(Node)]

\* No two records have the same name.
Distinct(pool) ==
    \A i, j \in DOMAIN pool : pool[i].name = pool[j].name /\ pool[i].name # NoEvent => i = j

\* The record of an event in a pool, and the list in it.
RecordOf(pool, e) == SelectInSeq(pool, LAMBDA r : r.name = e)
ListOf(pool, e) == IF RecordOf(pool, e) = 0 THEN <<>> ELSE pool[RecordOf(pool, e)].first
Lists(pool) == [e \in Events |-> ListOf(pool, e)]

\* find_record finds a record of that name if there is one.
LEMMA RecordFound ==
  ASSUME NEW pool \in Seq(Record), NEW e
  PROVE  \/ /\ RecordOf(pool, e) \in DOMAIN pool /\ RecordOf(pool, e) # 0
            /\ pool[RecordOf(pool, e)].name = e
         \/ /\ RecordOf(pool, e) = 0
            /\ \A i \in DOMAIN pool : pool[i].name # e
  <1> DEFINE I == {i \in 1..Len(pool) : pool[i].name = e}
  <1>1. RecordOf(pool, e) = IF I # {} THEN Min(I) ELSE 0
    BY Zenon DEF RecordOf, SelectInSeq
  <1>2. DOMAIN pool = 1..Len(pool) /\ Len(pool) \in Nat
    OBVIOUS
  <1>3. CASE I = {}
    BY <1>1, <1>2, <1>3, Zenon
  <1>4. CASE I # {}
    <2>1. I \subseteq Nat
      OBVIOUS
    <2>2. Min(I) \in I
      BY <1>4, <2>1, Least, Zenon
    <2>3. Min(I) # 0 /\ Min(I) \in 1..Len(pool) /\ pool[Min(I)].name = e
      BY <2>2
    <2> QED
      BY <1>1, <1>2, <1>4, <2>3, Zenon
  <1> QED
    BY <1>3, <1>4, Zenon

\* The list of an event is the one in its record, wherever that is.
HasList(pool, e) ==
    /\ Lists(pool)[e] = ListOf(pool, e) /\ Lists(pool)[e] \in Seq(Node)
    /\ \A i \in DOMAIN pool : pool[i].name = e => Lists(pool)[e] = pool[i].first
    /\ (\A i \in DOMAIN pool : pool[i].name # e) => Lists(pool)[e] = <<>>

\* It is so in every pool without a name twice.
LEMMA ListIs ==
  ASSUME NEW pool \in Seq(Record), Distinct(pool), NEW e \in Events
  PROVE  HasList(pool, e)
  <1>0. e # NoEvent
    BY CbrAssumption, Zenon
  <1>1. Lists(pool)[e] = ListOf(pool, e)
    BY Zenon DEF Lists
  <1>2. \A i \in DOMAIN pool : pool[i].name = e => ListOf(pool, e) = pool[i].first
    BY <1>0, RecordFound, Zenon DEF Distinct, ListOf
  <1>3. (\A i \in DOMAIN pool : pool[i].name # e) => ListOf(pool, e) = <<>>
    BY RecordFound, Zenon DEF ListOf
  <1>4. \A i \in DOMAIN pool : pool[i].first \in Seq(Node)
    <2>1. \A i \in DOMAIN pool : pool[i] \in Record
      OBVIOUS
    <2> QED
      BY <2>1, Zenon DEF Record
  <1>5. <<>> \in Seq(Node)
    OBVIOUS
  <1> QED
    BY <1>1, <1>2, <1>3, <1>4, <1>5, RecordFound, Zenon DEF HasList, ListOf

\* The lists of two pools are the same if records with names are.
LEMMA SameLists ==
  ASSUME NEW p \in Seq(Record), Distinct(p), NEW q \in Seq(Record), Distinct(q),
         NEW e \in Events,
         \A i \in DOMAIN p : p[i].name = e => i \in DOMAIN q /\ q[i] = p[i],
         \A i \in DOMAIN q : q[i].name = e => q[i].first = <<>> \/ (i \in DOMAIN p /\ p[i] = q[i])
  PROVE  Lists(q)[e] = Lists(p)[e]
  <1>0. HasList(p, e) /\ HasList(q, e)
    BY ListIs, Zenon
  <1>1. CASE \E i \in DOMAIN p : p[i].name = e
    <2>1. PICK i \in DOMAIN p : p[i].name = e
      BY <1>1, Zenon
    <2>2. i \in DOMAIN q /\ q[i] = p[i]
      BY <2>1, Zenon
    <2> QED
      BY <2>1, <2>2, <1>0, Zenon DEF HasList
  <1>2. CASE \A i \in DOMAIN p : p[i].name # e
    <2>1. Lists(p)[e] = <<>>
      BY <1>2, <1>0, Zenon DEF HasList
    <2>2. \A i \in DOMAIN q : q[i].name = e => q[i].first = <<>>
      BY <1>2, Zenon
    <2> QED
      BY <2>1, <2>2, <1>0, Zenon DEF HasList
  <1> QED
    BY <1>1, <1>2, Zenon

\* Pools in which every event has the same list have the same lists.
LEMMA ListsEqual ==
  ASSUME NEW p, NEW q, \A e \in Events : Lists(q)[e] = Lists(p)[e]
  PROVE  Lists(q) = Lists(p)
  BY DEF Lists

\* The record at k gets the list s.
PutList(p, k, s) == [p EXCEPT ![k].first = s]

\* q is the pool p in which the event of the record at k, if any, has the list s.
ListChanged(p, q, k, s) ==
    /\ q \in Seq(Record) /\ Distinct(q) /\ Len(q) = Len(p)
    /\ \A d \in Events : Lists(q)[d] = IF p[k].name = d THEN s ELSE Lists(p)[d]

\* A record gets another list.
LEMMA ListPut ==
  ASSUME NEW p \in Seq(Record), Distinct(p), NEW k \in DOMAIN p, NEW s \in Seq(Node)
  PROVE  ListChanged(p, PutList(p, k, s), k, s)
  <1> DEFINE q == PutList(p, k, s)
  <1>1. p[k] \in Record /\ DOMAIN p = 1..Len(p) /\ Len(p) \in Nat
    OBVIOUS
  <1>2. [p[k] EXCEPT !.first = s] \in Record
    BY <1>1 DEF Record
  <1>3. /\ DOMAIN q = DOMAIN p /\ q[k] = [p[k] EXCEPT !.first = s]
        /\ \A i \in DOMAIN p : i # k => q[i] = p[i]
    BY Zenon DEF PutList
  <1>4. q \in Seq(Record) /\ Len(q) = Len(p)
    BY <1>1, <1>2 DEF PutList
  <1> HIDE DEF q
  <1>5. q[k].name = p[k].name /\ q[k].first = s
    BY <1>1, <1>3 DEF Record
  <1>6. \A i \in DOMAIN p : q[i].name = p[i].name
    BY <1>3, <1>5, Zenon
  <1>7. Distinct(q)
    <2> SUFFICES ASSUME NEW a \in DOMAIN q, NEW b \in DOMAIN q,
                        q[a].name = q[b].name, q[a].name # NoEvent
                 PROVE  a = b
      BY Zenon DEF Distinct
    <2>1. a \in DOMAIN p /\ b \in DOMAIN p /\ p[a].name = p[b].name /\ p[a].name # NoEvent
      BY <1>3, <1>6
    <2> QED
      BY <2>1, Zenon DEF Distinct
  <1>8. ASSUME NEW d \in Events
        PROVE  Lists(q)[d] = IF p[k].name = d THEN s ELSE Lists(p)[d]
    <2>1. HasList(p, d) /\ HasList(q, d)
      BY <1>4, <1>7, ListIs, Zenon
    <2>2. CASE p[k].name = d
      BY <1>3, <1>5, <2>1, <2>2, Zenon DEF HasList
    <2>3. CASE p[k].name # d
      <3>1. CASE \E i \in DOMAIN p : p[i].name = d
        <4>1. PICK i \in DOMAIN p : p[i].name = d
          BY <3>1, Zenon
        <4>2. i \in DOMAIN q /\ q[i] = p[i]
          BY <1>3, <2>3, <4>1, Zenon
        <4> QED
          BY <2>1, <2>3, <4>1, <4>2, Zenon DEF HasList
      <3>2. CASE \A i \in DOMAIN p : p[i].name # d
        <4>1. \A i \in DOMAIN q : q[i].name # d
          BY <1>3, <1>6, <3>2, Zenon
        <4> QED
          BY <2>1, <2>3, <3>2, <4>1, Zenon DEF HasList
      <3> QED
        BY <3>1, <3>2, Zenon
    <2> QED
      BY <2>2, <2>3, Zenon
  <1> QED
    BY <1>4, <1>7, <1>8, Zenon DEF ListChanged, q

PoolInv ==
    /\ cbr_record_pool \in Seq(Record) /\ Distinct(cbr_record_pool)
    /\ Len(cbr_record_pool) >= RECORD_POOL_SIZE

\* What ml_register_cbr finds for an event: a record of its name, or the first of
\* a new arena; no list changes by it.
Provided(w, e) ==
    /\ w.pool \in Seq(Record) /\ Distinct(w.pool) /\ w.rec \in DOMAIN w.pool
    /\ Lists(w.pool) = Lists(cbr_record_pool)
    /\ \/ Len(w.pool) = Len(cbr_record_pool) /\ w.pool[w.rec].name = e
       \/ Len(w.pool) > Len(cbr_record_pool) /\ w.pool[w.rec].name = NoEvent

\* A free record takes the name of the event.
LEMMA RecordNamed ==
  ASSUME PoolInv, NEW e \in Events, \A i \in DOMAIN cbr_record_pool : cbr_record_pool[i].name # e,
         NEW j \in DOMAIN cbr_record_pool, cbr_record_pool[j].name = NoEvent,
         NEW w, w = [rec |-> j, pool |-> [cbr_record_pool EXCEPT ![j] = [name |-> e, first |-> <<>>]]]
  PROVE  Provided(w, e)
  <1> DEFINE p == cbr_record_pool
             x == [name |-> e, first |-> <<>>]
             q == [p EXCEPT ![j] = x]
  <1>0. p \in Seq(Record) /\ Distinct(p)
    BY Zenon DEF PoolInv
  <1>1. x \in Record /\ x.name = e /\ x.first = <<>>
    BY DEF Record
  <1> HIDE DEF x
  <1>2. /\ DOMAIN q = DOMAIN p /\ q[j] = x
        /\ \A i \in DOMAIN p : i # j => q[i] = p[i]
    BY Zenon
  <1>3. q \in Seq(Record) /\ Len(q) = Len(p)
    BY <1>0, <1>1
  <1>4. w.rec = j /\ w.pool = q
    BY DEF x
  <1> HIDE DEF p, q
  <1>5. Distinct(q)
    <2> SUFFICES ASSUME NEW a \in DOMAIN q, NEW b \in DOMAIN q,
                        q[a].name = q[b].name, q[a].name # NoEvent
                 PROVE  a = b
      BY Zenon DEF Distinct
    <2>1. \A i \in DOMAIN p : p[i].name # e
      BY Zenon DEF p
    <2>2. CASE a # j /\ b # j
      BY <1>0, <1>2, <2>2 DEF Distinct
    <2>3. CASE a = j \/ b = j
      BY <1>1, <1>2, <2>1, <2>3
    <2> QED
      BY <2>2, <2>3, Zenon
  <1>6. ASSUME NEW d \in Events PROVE Lists(q)[d] = Lists(p)[d]
    <2>1. d # NoEvent
      BY CbrAssumption, Zenon
    <2>2. \A i \in DOMAIN p : p[i].name = d => i \in DOMAIN q /\ q[i] = p[i]
      BY <1>2, <2>1, Zenon DEF p
    <2>3. \A i \in DOMAIN q : q[i].name = d => q[i].first = <<>> \/ (i \in DOMAIN p /\ p[i] = q[i])
      BY <1>1, <1>2, Zenon
    <2> QED
      BY <1>0, <1>3, <1>5, <2>2, <2>3, SameLists, Zenon
  <1>7. Lists(q) = Lists(p)
    BY <1>6, ListsEqual, Zenon
  <1> QED
    BY <1>1, <1>2, <1>3, <1>4, <1>5, <1>7, Zenon DEF Provided, p

\* The pool grows by an arena of records without names.
LEMMA RecordsAdded ==
  ASSUME PoolInv, NEW e \in Events,
         NEW w, w = [rec |-> Len(cbr_record_pool) + 1, pool |-> cbr_record_pool \o FreeRecords]
  PROVE  Provided(w, e)
  <1> DEFINE p == cbr_record_pool
             q == p \o FreeRecords
  <1>0. p \in Seq(Record) /\ Distinct(p) /\ DOMAIN p = 1..Len(p) /\ Len(p) \in Nat
    BY DEF PoolInv
  <1>1. /\ FreeRecords \in Seq(Record) /\ Len(FreeRecords) = RECORD_POOL_SIZE
        /\ \A i \in 1..RECORD_POOL_SIZE : FreeRecords[i] = [name |-> NoEvent, first |-> <<>>]
        /\ RECORD_POOL_SIZE \in Nat \ {0}
    <2>1. RECORD_POOL_SIZE \in Nat \ {0}
      BY CbrAssumption, Zenon
    <2>2. [name |-> NoEvent, first |-> <<>>] \in Record
      BY DEF Record
    <2> QED
      BY <2>1, <2>2 DEF FreeRecords
  <1>2. /\ q \in Seq(Record) /\ Len(q) = Len(p) + RECORD_POOL_SIZE
        /\ \A i \in 1..Len(p) : q[i] = p[i]
        /\ \A i \in (Len(p) + 1)..(Len(p) + RECORD_POOL_SIZE) : q[i] = FreeRecords[i - Len(p)]
    <2>1. Joins(Record, p, FreeRecords, q)
      BY <1>0, <1>1, Joined, Zenon
    <2> QED
      BY <1>1, <2>1, Zenon DEF Joins
  <1>3. w.rec = Len(p) + 1 /\ w.pool = q
    OBVIOUS
  <1> HIDE DEF p, q
  <1>4. DOMAIN q = 1..(Len(p) + RECORD_POOL_SIZE)
    BY <1>2
  <1>5. ASSUME NEW i \in DOMAIN q, i \notin DOMAIN p
        PROVE  q[i].name = NoEvent /\ q[i].first = <<>>
    <2>1. i \in (Len(p) + 1)..(Len(p) + RECORD_POOL_SIZE) /\ i - Len(p) \in 1..RECORD_POOL_SIZE
      BY <1>0, <1>1, <1>4, <1>5
    <2>2. q[i] = [name |-> NoEvent, first |-> <<>>]
      BY <1>1, <1>2, <2>1, Zenon
    <2> QED
      BY <2>2
  <1>6. DOMAIN p \subseteq DOMAIN q /\ Len(p) + 1 \in DOMAIN q /\ Len(p) + 1 \notin DOMAIN p
    BY <1>0, <1>1, <1>4
  <1>7. Distinct(q)
    <2> SUFFICES ASSUME NEW a \in DOMAIN q, NEW b \in DOMAIN q,
                        q[a].name = q[b].name, q[a].name # NoEvent
                 PROVE  a = b
      BY Zenon DEF Distinct
    <2>1. a \in DOMAIN p /\ b \in DOMAIN p
      BY <1>5, Zenon
    <2>2. q[a] = p[a] /\ q[b] = p[b]
      BY <1>0, <1>2, <2>1, Zenon
    <2> QED
      BY <1>0, <2>1, <2>2 DEF Distinct
  <1>8. ASSUME NEW d \in Events PROVE Lists(q)[d] = Lists(p)[d]
    <2>2. \A i \in DOMAIN p : p[i].name = d => i \in DOMAIN q /\ q[i] = p[i]
      BY <1>0, <1>2, <1>6, Zenon
    <2>3. \A i \in DOMAIN q : q[i].name = d => q[i].first = <<>> \/ (i \in DOMAIN p /\ p[i] = q[i])
      BY <1>0, <1>2, <1>5, Zenon
    <2> QED
      BY <1>0, <1>2, <1>7, <2>2, <2>3, SameLists, Zenon
  <1>9. Lists(q) = Lists(p)
    BY <1>8, ListsEqual, Zenon
  <1>10. q[Len(p) + 1].name = NoEvent
    BY <1>5, <1>6, Zenon
  <1>11. Len(q) > Len(p)
    BY <1>0, <1>1, <1>2
  <1> QED
    BY <1>2, <1>3, <1>6, <1>7, <1>9, <1>10, <1>11, Zenon DEF Provided, p

\* What ml_register_cbr works on.
LEMMA WithRecordIs ==
  ASSUME PoolInv, NEW e \in Events
  PROVE  Provided(WithRecord(e), e)
  <1>1. PICK i : i = RecordOf(cbr_record_pool, e)
    OBVIOUS
  <1>2. PICK j : j = RecordOf(cbr_record_pool, NoEvent)
    OBVIOUS
  <1>3. PICK w : w = WithRecord(e)
    OBVIOUS
  <1>4. w = IF i # 0 THEN [rec |-> i, pool |-> cbr_record_pool]
            ELSE IF j # 0
            THEN [rec |-> j, pool |-> [cbr_record_pool EXCEPT ![j] = [name |-> e, first |-> <<>>]]]
            ELSE [rec |-> Len(cbr_record_pool) + 1, pool |-> cbr_record_pool \o FreeRecords]
    BY <1>1, <1>2, <1>3, Zenon DEF WithRecord, find_record, RecordOf
  <1>5. cbr_record_pool \in Seq(Record)
    BY Zenon DEF PoolInv
  <1>6. CASE i # 0
    <2>1. i \in DOMAIN cbr_record_pool /\ cbr_record_pool[i].name = e
      BY <1>1, <1>5, <1>6, RecordFound, Zenon
    <2>2. w.rec = i /\ w.pool = cbr_record_pool
      BY <1>4, <1>6
    <2> QED
      BY <1>3, <2>1, <2>2, Zenon DEF Provided, PoolInv
  <1>7. CASE i = 0 /\ j # 0
    <2>1. /\ \A k \in DOMAIN cbr_record_pool : cbr_record_pool[k].name # e
          /\ j \in DOMAIN cbr_record_pool /\ cbr_record_pool[j].name = NoEvent
      BY <1>1, <1>2, <1>5, <1>7, RecordFound, Zenon
    <2> QED
      BY <1>3, <1>4, <1>7, <2>1, RecordNamed, Zenon
  <1>8. CASE i = 0 /\ j = 0
    BY <1>3, <1>4, <1>8, RecordsAdded, Zenon
  <1> QED
    BY <1>6, <1>7, <1>8, Zenon
=============================================================================
