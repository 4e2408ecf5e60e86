---------------------------- MODULE Lists_proofs ----------------------------
(***************************************************************************)
(* Induction over numbers, lists and finite sets, each for a set that is   *)
(* closed under one step, and what it says of the lists the code filters   *)
(* (Only), of the sums it takes and of the occurrences it counts.          *)
(***************************************************************************)
EXTENDS Lists, Integers, FiniteSetsExt, Functions, FiniteSetTheorems, SequenceTheorems, WellFoundedInduction, NaturalsInduction, TLAPS

\* What holds of 0, and of the next number whenever of one, holds of every number.
LEMMA Climb ==
  ASSUME NEW T, 0 \in T, \A n \in Nat : n \in T => n + 1 \in T
  PROVE  Nat \subseteq T
<1> DEFINE U == Nat \ T
<1> SUFFICES ASSUME U # {} PROVE FALSE
  OBVIOUS
<1>1. IsWellFoundedOn(OpToRel(<, Nat), Nat)
  BY NatLessThanWellFounded
<1>2. PICK n \in U : \A m \in U : ~(<<m, n>> \in OpToRel(<, Nat))
  BY <1>1, WFMin
<1>3. \A m \in U : ~(m < n)
  BY <1>2, Zenon DEF OpToRel
<1>4. n \in Nat /\ n # 0 /\ n - 1 \in Nat /\ n - 1 < n /\ (n - 1) + 1 = n
  OBVIOUS
<1>5. n - 1 \in T
  BY <1>3, <1>4
<1>6. QED  BY <1>4, <1>5

\* What holds of the empty list, and of a list with one more at its end whenever
\* of the list, holds of every list.
LEMMA Grow ==
  ASSUME NEW X, NEW T, <<>> \in T, \A s \in Seq(X) : \A x \in X : s \in T => Append(s, x) \in T
  PROVE  Seq(X) \subseteq T
<1> DEFINE L == {n \in Nat : \A s \in Seq(X) : Len(s) = n => s \in T}
<1>1. 0 \in L
  <2>1. \A s \in Seq(X) : Len(s) = 0 => s = <<>>
    OBVIOUS
  <2>2. QED  BY <2>1
<1>2. ASSUME NEW n \in Nat, n \in L PROVE n + 1 \in L
  <2> SUFFICES ASSUME NEW s \in Seq(X), Len(s) = n + 1 PROVE s \in T
    OBVIOUS
  <2>1. DEFINE front == SubSeq(s, 1, n)
  <2>2. /\ front \in Seq(X) /\ Len(front) = n /\ s[n + 1] \in X
        /\ \A i \in 1 .. n : front[i] = s[i]
    OBVIOUS
  <2>3. s = Append(front, s[n + 1])
    BY <2>2
  <2>4. front \in T
    BY <1>2, <2>2
  <2> HIDE DEF front
  <2>5. QED  BY <2>2, <2>3, <2>4
<1>3. Nat \subseteq L
  <2> HIDE DEF L
  <2>1. QED  BY <1>1, <1>2, Climb
<1>4. QED  BY <1>3

-----------------------------------------------------------------------------
(* The filter *)

\* f[i] is what is picked of the first i elements of s.
Picks(s, W, f, i) ==
  f[i] = IF i = 0 THEN <<>> ELSE IF i \in W THEN Append(f[i - 1], s[i]) ELSE f[i - 1]

Filters(s, W, n, f) ==
  f = [i \in 0 .. n |-> IF i = 0 THEN <<>> ELSE IF i \in W THEN Append(f[i - 1], s[i]) ELSE f[i - 1]]

LEMMA FiltersEach ==
  ASSUME NEW s, NEW W, NEW n, NEW f
  PROVE  /\ Filters(s, W, n, f) => \A i \in 0 .. n : Picks(s, W, f, i)
         /\ f = [i \in 0 .. n |-> f[i]] /\ (\A i \in 0 .. n : Picks(s, W, f, i)) => Filters(s, W, n, f)
<1>1. ASSUME Filters(s, W, n, f) PROVE \A i \in 0 .. n : Picks(s, W, f, i)
  BY <1>1, Zenon DEF Filters, Picks
<1>2. ASSUME f = [i \in 0 .. n |-> f[i]], \A i \in 0 .. n : Picks(s, W, f, i) PROVE Filters(s, W, n, f)
  BY <1>2 DEF Filters, Picks
<1>3. QED  BY <1>1, <1>2

\* The recursion in Picked has a function.
LEMMA FilterExists ==
  ASSUME NEW s, NEW W, NEW n \in Nat PROVE \E f : Filters(s, W, n, f)
<1> DEFINE T == {i \in Nat : \E f : Filters(s, W, i, f)}
<1>1. 0 \in T
  <2>1. Filters(s, W, 0, [j \in 0 .. 0 |-> <<>>])
    BY DEF Filters
  <2>2. QED  BY <2>1
<1>2. ASSUME NEW i \in Nat, NEW f, Filters(s, W, i, f) PROVE \E g : Filters(s, W, i + 1, g)
  <2> DEFINE g == [j \in 0 .. i + 1 |->
                     IF j # i + 1 THEN f[j]
                     ELSE IF i + 1 \in W THEN Append(f[i], s[i + 1]) ELSE f[i]]
  <2>1. \A j \in 0 .. i : g[j] = f[j] /\ Picks(s, W, f, j)
    BY <1>2, FiltersEach
  <2>2. g[i + 1] = IF i + 1 \in W THEN Append(f[i], s[i + 1]) ELSE f[i]
    OBVIOUS
  <2>3. g = [j \in 0 .. i + 1 |-> g[j]]
    OBVIOUS
  <2> HIDE DEF g
  <2>4. \A j \in 0 .. i + 1 : Picks(s, W, g, j)
    BY <2>1, <2>2 DEF Picks
  <2>5. Filters(s, W, i + 1, g)
    BY <2>3, <2>4, FiltersEach
  <2>6. QED  BY <2>5
<1>3. \A i \in Nat : i \in T => i + 1 \in T
  BY <1>2
<1>4. Nat \subseteq T
  <2> HIDE DEF T
  <2>1. QED  BY <1>1, <1>3, Climb
<1>5. QED  BY <1>4

LEMMA PickedFilters ==
  ASSUME NEW s, NEW W, Len(s) \in Nat
  PROVE  \E f : Filters(s, W, Len(s), f) /\ Picked(s, W) = f[Len(s)]
<1>1. DEFINE g == CHOOSE f : Filters(s, W, Len(s), f)
<1>2. Filters(s, W, Len(s), g)
  BY FilterExists
<1>3. Picked(s, W) = g[Len(s)]
  BY DEF Picked, Filters
<1>4. QED  BY <1>2, <1>3

\* What is picked of a list is told by its elements and their positions.
LEMMA FiltersAlike ==
  ASSUME NEW s, NEW t, NEW W, NEW V, NEW n \in Nat, NEW m \in Nat, n <= m, NEW f, NEW g,
         Filters(s, W, n, f), Filters(t, V, m, g),
         \A i \in 1 .. n : s[i] = t[i] /\ (i \in W <=> i \in V)
  PROVE  f[n] = g[n]
<1> DEFINE T == {i \in Nat : i <= n => f[i] = g[i]}
<1>1. (\A i \in 0 .. n : Picks(s, W, f, i)) /\ \A i \in 0 .. m : Picks(t, V, g, i)
  BY FiltersEach
<1>2. 0 \in T
  BY <1>1 DEF Picks
<1>3. \A i \in Nat : i \in T => i + 1 \in T
  BY <1>1 DEF Picks
<1> HIDE DEF T
<1>4. Nat \subseteq T
  BY <1>2, <1>3, Climb
<1>5. n \in T
  BY <1>4
<1>6. QED  BY <1>5 DEF T

\* Nothing is picked of nothing.
LEMMA PickedOfNone == \A W : Picked(<<>>, W) = <<>>
<1> SUFFICES ASSUME NEW W PROVE Picked(<<>>, W) = <<>>
  OBVIOUS
<1>1. PICK f : Filters(<<>>, W, 0, f) /\ Picked(<<>>, W) = f[0]
  BY PickedFilters
<1>2. Picks(<<>>, W, f, 0)
  BY <1>1, FiltersEach
<1>3. QED  BY <1>1, <1>2 DEF Picks

\* One more at the end is one more that is picked, or none.
LEMMA PickedOfMore ==
  ASSUME NEW X, NEW s \in Seq(X), NEW x \in X, NEW W, NEW V, \A i \in 1 .. Len(s) : i \in V <=> i \in W
  PROVE  Picked(Append(s, x), W) = IF Len(s) + 1 \in W THEN Append(Picked(s, V), x) ELSE Picked(s, V)
<1> DEFINE t == Append(s, x)
           n == Len(s)
<1>1. n \in Nat /\ Len(t) = n + 1 /\ t[n + 1] = x /\ \A i \in 1 .. n : t[i] = s[i]
  OBVIOUS
<1>0. \A i \in 1 .. n : i \in V <=> i \in W
  OBVIOUS
<1> HIDE DEF t, n
<1>2. PICK f : Filters(s, V, n, f) /\ Picked(s, V) = f[n]
  BY <1>1, PickedFilters DEF n
<1>3. PICK g : Filters(t, W, n + 1, g) /\ Picked(t, W) = g[n + 1]
  BY <1>1, PickedFilters
<1>4. f[n] = g[n]
  BY <1>0, <1>1, <1>2, <1>3, FiltersAlike
<1>5. Picks(t, W, g, n + 1)
  BY <1>1, <1>3, FiltersEach
<1>6. Picked(t, W) = IF n + 1 \in W THEN Append(Picked(s, V), x) ELSE Picked(s, V)
  BY <1>1, <1>2, <1>3, <1>4, <1>5 DEF Picks
<1>7. QED  BY <1>6 DEF t, n

\* What is picked is of the list.
LEMMA PickedIn ==
  ASSUME NEW X, NEW s \in Seq(X), NEW W PROVE Picked(s, W) \in Seq(X)
<1> DEFINE T == {t \in Seq(X) : Picked(t, W) \in Seq(X)}
<1>1. <<>> \in T
  <2>1. Picked(<<>>, W) = <<>> /\ <<>> \in Seq(X)
    BY PickedOfNone
  <2>2. QED  BY <2>1
<1>2. ASSUME NEW t \in Seq(X), NEW x \in X, t \in T PROVE Append(t, x) \in T
  <2>1. Picked(Append(t, x), W) = IF Len(t) + 1 \in W THEN Append(Picked(t, W), x) ELSE Picked(t, W)
    BY PickedOfMore
  <2>2. Picked(t, W) \in Seq(X)
    BY <1>2
  <2>3. Picked(Append(t, x), W) \in Seq(X)
    BY <2>1, <2>2
  <2>4. QED  BY <2>3
<1>3. Seq(X) \subseteq T
  <2> HIDE DEF T
  <2>1. QED  BY <1>1, <1>2, Grow
<1>4. QED  BY <1>3

\* Nothing passes of nothing.
LEMMA OnlyOfNone == \A S : Only(<<>>, S) = <<>>
BY PickedOfNone DEF Only

\* One more at the end is one more that passes, or none.
LEMMA OnlyOfMore ==
  ASSUME NEW X, NEW s \in Seq(X), NEW x \in X, NEW S
  PROVE  Only(Append(s, x), S) = IF x \in S THEN Append(Only(s, S), x) ELSE Only(s, S)
<1> DEFINE t == Append(s, x)
           V == {i \in DOMAIN s : s[i] \in S}
           W == {i \in DOMAIN t : t[i] \in S}
<1>1. \A i \in 1 .. Len(s) : i \in V <=> i \in W
  OBVIOUS
<1>2. Len(s) + 1 \in W <=> x \in S
  OBVIOUS
<1>3. Only(t, S) = Picked(t, W) /\ Only(s, S) = Picked(s, V)
  BY DEF Only
<1> HIDE DEF V, W
<1>4. Picked(t, W) = IF Len(s) + 1 \in W THEN Append(Picked(s, V), x) ELSE Picked(s, V)
  BY <1>1, PickedOfMore
<1>5. QED  BY <1>2, <1>3, <1>4

\* What passes is of the list and of the set.
LEMMA OnlyPasses ==
  ASSUME NEW X, NEW S, NEW s \in Seq(X) PROVE Only(s, S) \in Seq(X \cap S)
<1> DEFINE T == {t \in Seq(X) : Only(t, S) \in Seq(X \cap S)}
<1>1. <<>> \in T
  <2>1. Only(<<>>, S) = <<>> /\ <<>> \in Seq(X \cap S) /\ <<>> \in Seq(X)
    BY OnlyOfNone
  <2>2. QED  BY <2>1
<1>2. ASSUME NEW t \in Seq(X), NEW x \in X, t \in T PROVE Append(t, x) \in T
  <2>1. Only(Append(t, x), S) = IF x \in S THEN Append(Only(t, S), x) ELSE Only(t, S)
    BY OnlyOfMore
  <2>2. Only(t, S) \in Seq(X \cap S)
    BY <1>2
  <2>3. Only(Append(t, x), S) \in Seq(X \cap S)
    BY <2>1, <2>2
  <2>4. QED  BY <2>3
<1>3. Seq(X) \subseteq T
  <2> HIDE DEF T
  <2>1. QED  BY <1>1, <1>2, Grow
<1>4. QED  BY <1>3

\* A list of which all passes stays as it is.
LEMMA OnlyOfAll ==
  ASSUME NEW X, NEW S, X \subseteq S, NEW s \in Seq(X) PROVE Only(s, S) = s
<1> DEFINE T == {t \in Seq(X) : Only(t, S) = t}
<1>1. <<>> \in T
  BY OnlyOfNone
<1>2. ASSUME NEW t \in Seq(X), NEW x \in X, t \in T PROVE Append(t, x) \in T
  BY <1>2, OnlyOfMore
<1>3. Seq(X) \subseteq T
  <2> HIDE DEF T
  <2>1. QED  BY <1>1, <1>2, Grow
<1>4. QED  BY <1>3

\* A list of which nothing passes is gone.
LEMMA OnlyOfOthers ==
  ASSUME NEW X, NEW S, X \cap S = {}, NEW s \in Seq(X) PROVE Only(s, S) = <<>>
<1>1. Only(s, S) \in Seq({})
  BY OnlyPasses
<1>2. QED  BY <1>1

\* One more at the end of two lists is one more at the end of the second.
Joins(a, b, x) == Append(a \o b, x) = a \o Append(b, x)

LEMMA JoinMore ==
  ASSUME NEW Y, NEW a \in Seq(Y), NEW b \in Seq(Y), NEW x \in Y PROVE Joins(a, b, x)
<1>1. a \o b \in Seq(Y) /\ <<x>> \in Seq(Y)
  OBVIOUS
<1>2. Append(a \o b, x) = (a \o b) \o <<x>> /\ Append(b, x) = b \o <<x>>
  BY <1>1, AppendIsConcat
<1>3. (a \o b) \o <<x>> = a \o (b \o <<x>>)
  BY <1>1, ConcatAssociative
<1>4. QED  BY <1>2, <1>3 DEF Joins

\* Two lists pass one after the other.
LEMMA OnlyOfTwo ==
  ASSUME NEW X, NEW S, NEW s \in Seq(X), NEW r \in Seq(X)
  PROVE  Only(s \o r, S) = Only(s, S) \o Only(r, S)
<1> DEFINE T == {t \in Seq(X) : Only(s \o t, S) = Only(s, S) \o Only(t, S)}
<1>0. Only(s, S) \in Seq(X \cap S)
  BY OnlyPasses
<1>1. <<>> \in T
  BY <1>0, OnlyOfNone
<1>2. ASSUME NEW t \in Seq(X), NEW x \in X, t \in T PROVE Append(t, x) \in T
  <2>1. s \o Append(t, x) = Append(s \o t, x) /\ s \o t \in Seq(X)
    OBVIOUS
  <2>2. /\ Only(s \o Append(t, x), S) = IF x \in S THEN Append(Only(s \o t, S), x) ELSE Only(s \o t, S)
        /\ Only(Append(t, x), S) = IF x \in S THEN Append(Only(t, S), x) ELSE Only(t, S)
    BY <2>1, OnlyOfMore
  <2>3. Only(s \o t, S) = Only(s, S) \o Only(t, S) /\ Only(t, S) \in Seq(X \cap S)
    BY <1>2, OnlyPasses
  <2>4. Only(s, S) \in Seq(X) /\ Only(t, S) \in Seq(X)
    BY <1>0, <2>3
  <2>5. Append(Only(s, S) \o Only(t, S), x) = Only(s, S) \o Append(Only(t, S), x)
    <3>1. Joins(Only(s, S), Only(t, S), x)
      BY <2>4, JoinMore
    <3>2. QED  BY <3>1 DEF Joins
  <2>6. Only(s \o Append(t, x), S) = Only(s, S) \o Only(Append(t, x), S)
    BY <2>2, <2>3, <2>5
  <2>7. QED  BY <2>6
<1>3. Seq(X) \subseteq T
  <2> HIDE DEF T
  <2>1. QED  BY <1>1, <1>2, Grow
<1>4. QED  BY <1>3
-----------------------------------------------------------------------------
(* Sums *)

\* A finite set with one element less.
LEMMA OneLess ==
  ASSUME NEW S, IsFiniteSet(S), NEW x \in S
  PROVE  /\ IsFiniteSet(S \ {x}) /\ Cardinality(S \ {x}) \in Nat
         /\ Cardinality(S \ {x}) = Cardinality(S) - 1
         /\ \A n \in Nat : Cardinality(S) = n + 1 => Cardinality(S \ {x}) = n
         /\ \A n \in Nat : Cardinality(S) <= n + 1 => Cardinality(S \ {x}) <= n
<1>1. Cardinality(S) \in Nat
  BY FS_CardinalityType
<1>2. IsFiniteSet(S \ {x}) /\ Cardinality(S \ {x}) = Cardinality(S) - 1
  BY FS_RemoveElement
<1>3. Cardinality(S \ {x}) \in Nat
  BY <1>2, FS_CardinalityType
<1>4. PICK m \in Nat, k \in Nat : m = Cardinality(S) /\ k = Cardinality(S \ {x}) /\ k = m - 1
  BY <1>1, <1>2, <1>3
<1>5. \A a, b \in Nat : b = a - 1 => /\ \A n \in Nat : a = n + 1 => b = n
                                     /\ \A n \in Nat : a <= n + 1 => b <= n
  OBVIOUS
<1>6. (\A n \in Nat : m = n + 1 => k = n) /\ \A n \in Nat : m <= n + 1 => k <= n
  BY <1>4, <1>5, Zenon
<1>7. QED  BY <1>2, <1>3, <1>4, <1>6

\* What holds of the empty set, and with one more element whenever without it,
\* holds of every finite set.
LEMMA Collect ==
  ASSUME NEW U, NEW F, {} \in F,
         \A S \in SUBSET U : IsFiniteSet(S) /\ S \in F => \A x \in U \ S : S \cup {x} \in F
  PROVE  \A S \in SUBSET U : IsFiniteSet(S) => S \in F
<1> DEFINE T == {n \in Nat : \A S \in SUBSET U : IsFiniteSet(S) /\ Cardinality(S) = n => S \in F}
<1>1. 0 \in T
  BY FS_EmptySet
<1>2. ASSUME NEW n \in Nat, n \in T PROVE n + 1 \in T
  <2> SUFFICES ASSUME NEW S \in SUBSET U, IsFiniteSet(S), Cardinality(S) = n + 1 PROVE S \in F
    OBVIOUS
  <2>1. PICK x : x \in S
    BY FS_EmptySet
  <2>2. IsFiniteSet(S \ {x}) /\ Cardinality(S \ {x}) = n
    BY <2>1, OneLess
  <2>3. S \ {x} \in F
    BY <1>2, <2>2
  <2>4. (S \ {x}) \cup {x} = S /\ x \in U \ (S \ {x})
    BY <2>1
  <2>5. QED  BY <2>2, <2>3, <2>4
<1>3. Nat \subseteq T
  <2> HIDE DEF T
  <2>1. QED  BY <1>1, <1>2, Climb
<1>4. QED  BY <1>3, FS_CardinalityType

(* Sums over finite sets *)

Pivot(s) == CHOOSE x \in s : TRUE

\* f[s] is the sum of what the bag has for the elements of s.
Adds(bag, f, s) == f[s] = IF s = {} THEN 0 ELSE bag[Pivot(s)] + f[s \ {Pivot(s)}]

TotalOf(bag, T, f) ==
  f = [s \in SUBSET T |-> IF s = {} THEN 0 ELSE bag[Pivot(s)] + f[s \ {Pivot(s)}]]

\* The recursion in the sum has a function.
LEMMA TotalsExist ==
  ASSUME NEW bag, NEW T, IsFiniteSet(T) PROVE \E f : TotalOf(bag, T, f)
<1> DEFINE Small(n) == {s \in SUBSET T : Cardinality(s) <= n}
           Good(n, f) == f = [s \in Small(n) |-> f[s]] /\ \A s \in Small(n) : Adds(bag, f, s)
           N == {n \in Nat : \E f : Good(n, f)}
<1>0. \A s \in SUBSET T : /\ IsFiniteSet(s) /\ Cardinality(s) \in Nat /\ (Cardinality(s) = 0 <=> s = {})
                          /\ s # {} => Pivot(s) \in s /\ Cardinality(s \ {Pivot(s)}) = Cardinality(s) - 1
  <2> SUFFICES ASSUME NEW s \in SUBSET T
               PROVE  /\ IsFiniteSet(s) /\ Cardinality(s) \in Nat /\ (Cardinality(s) = 0 <=> s = {})
                      /\ s # {} => Pivot(s) \in s /\ Cardinality(s \ {Pivot(s)}) = Cardinality(s) - 1
    OBVIOUS
  <2>1. IsFiniteSet(s) /\ Cardinality(s) \in Nat /\ (Cardinality(s) = 0 <=> s = {})
    BY FS_Subset, FS_CardinalityType, FS_EmptySet
  <2>2. s # {} => Pivot(s) \in s
    BY DEF Pivot
  <2>3. QED  BY <2>1, <2>2, OneLess
<1>1. 0 \in N
  <2> DEFINE g == [s \in Small(0) |-> 0]
  <2>1. \A s \in Small(0) : s = {} /\ g[s] = 0
    <3>1. ASSUME NEW s \in Small(0) PROVE s = {}
      <4>1. Cardinality(s) \in Nat /\ Cardinality(s) <= 0 /\ (Cardinality(s) = 0 <=> s = {})
        BY <1>0
      <4>2. QED  BY <4>1
    <3>2. QED  BY <3>1
  <2>2. Good(0, g)
    BY <2>1 DEF Adds
  <2>3. QED  BY <2>2
<1>2. ASSUME NEW n \in Nat, NEW f, Good(n, f) PROVE \E g : Good(n + 1, g)
  <2> DEFINE g == [s \in Small(n + 1) |->
                     IF Cardinality(s) <= n THEN f[s] ELSE bag[Pivot(s)] + f[s \ {Pivot(s)}]]
  <2>1. g = [s \in Small(n + 1) |-> g[s]]
    OBVIOUS
  <2>2. ASSUME NEW s \in Small(n) PROVE s \in Small(n + 1) /\ g[s] = f[s]
    <3>1. PICK k \in Nat : k = Cardinality(s) /\ k <= n /\ s \in SUBSET T
      BY <1>0
    <3>2. k <= n + 1
      BY <3>1
    <3>3. QED  BY <3>1, <3>2
  <2>3. ASSUME NEW s \in Small(n + 1) PROVE Adds(bag, g, s)
    <3>0. Cardinality(s) \in Nat /\ Cardinality(s) <= n + 1
      BY <1>0
    <3>1. s # {} => s \ {Pivot(s)} \in Small(n)
      BY <1>0, <3>0
    <3>2. CASE s \in Small(n)
      <4>1. Adds(bag, f, s) /\ g[s] = f[s]
        BY <1>2, <2>2, <3>2
      <4>2. s # {} => g[s \ {Pivot(s)}] = f[s \ {Pivot(s)}]
        BY <2>2, <3>1
      <4>3. QED  BY <4>1, <4>2 DEF Adds
    <3>3. CASE s \notin Small(n)
      <4>1. ~(Cardinality(s) <= n) /\ s # {}
        <5>1. s \in SUBSET T /\ (Cardinality(s) = 0 <=> s = {})
          BY <1>0
        <5>2. ~(Cardinality(s) <= n)
          BY <3>3, <5>1
        <5>3. 0 <= n
          OBVIOUS
        <5>4. QED  BY <5>1, <5>2, <5>3
      <4>2. g[s] = bag[Pivot(s)] + f[s \ {Pivot(s)}]
        BY <4>1
      <4>3. g[s \ {Pivot(s)}] = f[s \ {Pivot(s)}]
        BY <2>2, <3>1, <4>1
      <4>4. QED  BY <4>1, <4>2, <4>3 DEF Adds
    <3>4. QED  BY <3>2, <3>3
  <2>4. Good(n + 1, g)
    BY <2>1, <2>3
  <2>5. QED  BY <2>4
<1>3. Nat \subseteq N
  <2>1. ASSUME NEW n \in Nat, n \in N PROVE n + 1 \in N
    <3>1. PICK f : Good(n, f)
      BY <2>1
    <3>2. \E g : Good(n + 1, g)
      BY <1>2, <3>1
    <3> HIDE DEF Good
    <3>3. QED  BY <3>2
  <2> HIDE DEF N
  <2>2. QED  BY <1>1, <2>1, Climb
<1>4. Cardinality(T) \in Nat /\ Small(Cardinality(T)) = SUBSET T
  BY FS_CardinalityType, FS_Subset
<1>5. PICK f : Good(Cardinality(T), f)
  BY <1>3, <1>4
<1>6. f = [s \in SUBSET T |-> f[s]] /\ \A s \in SUBSET T : Adds(bag, f, s)
  BY <1>4, <1>5
<1>7. TotalOf(bag, T, f)
  BY <1>6 DEF TotalOf, Adds
<1>8. QED  BY <1>7

LEMMA SumTotals ==
  ASSUME NEW bag, NEW T, IsFiniteSet(T)
  PROVE  \E f : (\A s \in SUBSET T : Adds(bag, f, s)) /\ SumFunctionOnSet(bag, T) = f[T]
<1> DEFINE f == CHOOSE f : TotalOf(bag, T, f)
<1>1. TotalOf(bag, T, f)
  BY TotalsExist
<1>2. SumFunctionOnSet(bag, T) = f[T]
  BY DEF SumFunctionOnSet, FoldFunctionOnSet, MapThenFoldSet, TotalOf, Pivot
<1> HIDE DEF f
<1>3. \A s \in SUBSET T : Adds(bag, f, s)
  BY <1>1, Zenon DEF TotalOf, Adds
<1>4. QED  BY <1>2, <1>3

\* A sum is told by what is added.
LEMMA TotalsAlike ==
  ASSUME NEW a, NEW b, NEW T, NEW f, NEW g, IsFiniteSet(T), \A x \in T : a[x] = b[x],
         \A s \in SUBSET T : Adds(a, f, s) /\ Adds(b, g, s)
  PROVE  f[T] = g[T]
<1> DEFINE N == {n \in Nat : \A s \in SUBSET T : Cardinality(s) = n => f[s] = g[s]}
<1>0. \A s \in SUBSET T : IsFiniteSet(s)
  BY FS_Subset
<1>1. 0 \in N
  <2>1. \A s \in SUBSET T : Cardinality(s) = 0 => s = {}
    BY <1>0, FS_EmptySet
  <2>2. QED  BY <2>1 DEF Adds
<1>2. ASSUME NEW n \in Nat, n \in N PROVE n + 1 \in N
  <2> SUFFICES ASSUME NEW s \in SUBSET T, Cardinality(s) = n + 1 PROVE f[s] = g[s]
    OBVIOUS
  <2>1. s # {} /\ Pivot(s) \in s
    BY FS_EmptySet DEF Pivot
  <2>2. s \ {Pivot(s)} \in SUBSET T /\ Cardinality(s \ {Pivot(s)}) = n
    BY <1>0, <2>1, OneLess
  <2>3. f[s \ {Pivot(s)}] = g[s \ {Pivot(s)}]
    BY <1>2, <2>2
  <2>4. QED  BY <2>1, <2>3 DEF Adds
<1>3. Nat \subseteq N
  <2> HIDE DEF N
  <2>1. QED  BY <1>1, <1>2, Climb
<1>4. QED  BY <1>3, FS_CardinalityType

LEMMA SumAlike ==
  ASSUME NEW a, NEW b, NEW T, IsFiniteSet(T), \A x \in T : a[x] = b[x]
  PROVE  SumFunctionOnSet(a, T) = SumFunctionOnSet(b, T)
<1>1. PICK f : (\A s \in SUBSET T : Adds(a, f, s)) /\ SumFunctionOnSet(a, T) = f[T]
  BY SumTotals
<1>2. PICK g : (\A s \in SUBSET T : Adds(b, g, s)) /\ SumFunctionOnSet(b, T) = g[T]
  BY SumTotals
<1>3. f[T] = g[T]
  BY <1>1, <1>2, TotalsAlike
<1>4. QED  BY <1>1, <1>2, <1>3

\* The sum, one element at a time.
LEMMA SumFirst ==
  ASSUME NEW bag, NEW T, IsFiniteSet(T)
  PROVE  SumFunctionOnSet(bag, T)
           = IF T = {} THEN 0 ELSE bag[Pivot(T)] + SumFunctionOnSet(bag, T \ {Pivot(T)})
<1>1. PICK f : (\A s \in SUBSET T : Adds(bag, f, s)) /\ SumFunctionOnSet(bag, T) = f[T]
  BY SumTotals
<1> DEFINE U == T \ {Pivot(T)}
<1>2. IsFiniteSet(U) /\ U \subseteq T
  BY FS_Subset
<1> HIDE DEF U
<1>3. PICK g : (\A s \in SUBSET U : Adds(bag, g, s)) /\ SumFunctionOnSet(bag, U) = g[U]
  BY <1>2, SumTotals
<1>4. f[U] = g[U]
  <2>1. \A s \in SUBSET U : Adds(bag, f, s) /\ Adds(bag, g, s)
    BY <1>1, <1>2, <1>3
  <2>2. QED  BY <1>2, <2>1, TotalsAlike
<1>5. Adds(bag, f, T)
  BY <1>1
<1>6. QED  BY <1>1, <1>3, <1>4, <1>5 DEF Adds, U

LEMMA SumNone == \A bag : SumFunctionOnSet(bag, {}) = 0
BY SumFirst, FS_EmptySet

LEMMA SumNat ==
  ASSUME NEW bag, NEW T, IsFiniteSet(T), \A x \in T : bag[x] \in Nat
  PROVE  SumFunctionOnSet(bag, T) \in Nat
<1> DEFINE N == {n \in Nat : \A s \in SUBSET T : Cardinality(s) = n => SumFunctionOnSet(bag, s) \in Nat}
<1>0. \A s \in SUBSET T : IsFiniteSet(s)
  BY FS_Subset
<1>1. 0 \in N
  <2>1. \A s \in SUBSET T : Cardinality(s) = 0 => s = {}
    BY <1>0, FS_EmptySet
  <2>2. QED  BY <2>1, SumNone
<1>2. ASSUME NEW n \in Nat, n \in N PROVE n + 1 \in N
  <2> SUFFICES ASSUME NEW s \in SUBSET T, Cardinality(s) = n + 1 PROVE SumFunctionOnSet(bag, s) \in Nat
    OBVIOUS
  <2>1. s # {} /\ Pivot(s) \in s
    BY FS_EmptySet DEF Pivot
  <2>2. s \ {Pivot(s)} \in SUBSET T /\ Cardinality(s \ {Pivot(s)}) = n
    BY <1>0, <2>1, OneLess
  <2>3. SumFunctionOnSet(bag, s \ {Pivot(s)}) \in Nat /\ bag[Pivot(s)] \in Nat
    BY <1>2, <2>1, <2>2
  <2>4. SumFunctionOnSet(bag, s) = bag[Pivot(s)] + SumFunctionOnSet(bag, s \ {Pivot(s)})
    BY <1>0, <2>1, SumFirst
  <2>5. QED  BY <2>3, <2>4
<1>3. Nat \subseteq N
  <2> HIDE DEF N
  <2>1. QED  BY <1>1, <1>2, Climb
<1>4. QED  BY <1>3, FS_CardinalityType

\* Any element may be added last.
LEMMA SumSplit ==
  ASSUME NEW bag, NEW T, IsFiniteSet(T), \A x \in T : bag[x] \in Nat
  PROVE  \A x \in T : SumFunctionOnSet(bag, T) = bag[x] + SumFunctionOnSet(bag, T \ {x})
<1> DEFINE Any(s) == \A x \in s : SumFunctionOnSet(bag, s) = bag[x] + SumFunctionOnSet(bag, s \ {x})
           N == {n \in Nat : \A s \in SUBSET T : Cardinality(s) = n => Any(s)}
<1>0. \A s \in SUBSET T : IsFiniteSet(s) /\ SumFunctionOnSet(bag, s) \in Nat
  <2>1. ASSUME NEW s \in SUBSET T PROVE IsFiniteSet(s) /\ SumFunctionOnSet(bag, s) \in Nat
    <3>1. IsFiniteSet(s)
      BY FS_Subset
    <3>2. QED  BY <3>1, SumNat
  <2>2. QED  BY <2>1
<1>1. 0 \in N
  <2>1. \A s \in SUBSET T : Cardinality(s) = 0 => s = {}
    BY <1>0, FS_EmptySet
  <2>2. QED  BY <2>1
<1>2. ASSUME NEW n \in Nat, n \in N PROVE n + 1 \in N
  <2> SUFFICES ASSUME NEW s \in SUBSET T, Cardinality(s) = n + 1, NEW x \in s
               PROVE  SumFunctionOnSet(bag, s) = bag[x] + SumFunctionOnSet(bag, s \ {x})
    OBVIOUS
  <2> DEFINE c == Pivot(s)
  <2>1. s # {} /\ c \in s
    BY DEF Pivot
  <2>2. SumFunctionOnSet(bag, s) = bag[c] + SumFunctionOnSet(bag, s \ {c})
    BY <1>0, <2>1, SumFirst
  <2> HIDE DEF c
  <2>3. CASE c = x
    BY <2>2, <2>3
  <2>4. CASE c # x
    <3>1. /\ s \ {c} \in SUBSET T /\ Cardinality(s \ {c}) = n /\ x \in s \ {c}
          /\ s \ {x} \in SUBSET T /\ Cardinality(s \ {x}) = n /\ c \in s \ {x}
      BY <1>0, <2>1, <2>4, OneLess
    <3>2. Any(s \ {c}) /\ Any(s \ {x})
      BY <1>2, <3>1
    <3>3. (s \ {c}) \ {x} = (s \ {x}) \ {c} /\ (s \ {c}) \ {x} \in SUBSET T
      OBVIOUS
    <3>4. SumFunctionOnSet(bag, s \ {c}) = bag[x] + SumFunctionOnSet(bag, (s \ {c}) \ {x})
      BY <3>1, <3>2
    <3>5. SumFunctionOnSet(bag, s \ {x}) = bag[c] + SumFunctionOnSet(bag, (s \ {x}) \ {c})
      BY <3>1, <3>2
    <3>6. SumFunctionOnSet(bag, (s \ {c}) \ {x}) \in Nat /\ bag[c] \in Nat /\ bag[x] \in Nat
      BY <1>0, <2>1, <3>3
    <3>7. PICK r \in Nat, u \in Nat, v \in Nat :
            r = SumFunctionOnSet(bag, (s \ {c}) \ {x}) /\ u = bag[c] /\ v = bag[x]
      BY <3>6
    <3>8. /\ SumFunctionOnSet(bag, s) = u + (v + r) /\ SumFunctionOnSet(bag, s \ {x}) = u + r
      BY <2>2, <3>3, <3>4, <3>5, <3>7
    <3>9. u + (v + r) = v + (u + r)
      OBVIOUS
    <3>10. QED  BY <3>7, <3>8, <3>9
  <2>5. QED  BY <2>3, <2>4
<1>3. Nat \subseteq N
  <2> HIDE DEF N
  <2>1. QED  BY <1>1, <1>2, Climb
<1>4. QED  BY <1>3, FS_CardinalityType

\* One element adds more.
LEMMA SumMore ==
  ASSUME NEW a, NEW b, NEW T, IsFiniteSet(T), NEW x \in T, NEW k \in Nat,
         \A y \in T : a[y] \in Nat, \A y \in T \ {x} : b[y] = a[y], b[x] = a[x] + k
  PROVE  \A n \in Nat : SumFunctionOnSet(a, T) = n => SumFunctionOnSet(b, T) = n + k
<1>1. \A y \in T : b[y] \in Nat
  <2>1. a[x] + k \in Nat
    OBVIOUS
  <2>2. QED  BY <2>1
<1>2. IsFiniteSet(T \ {x})
  BY FS_Subset
<1>3. SumFunctionOnSet(a, T) = a[x] + SumFunctionOnSet(a, T \ {x})
  BY SumSplit
<1>4. SumFunctionOnSet(b, T) = b[x] + SumFunctionOnSet(b, T \ {x})
  BY <1>1, SumSplit
<1>5. SumFunctionOnSet(a, T \ {x}) = SumFunctionOnSet(b, T \ {x})
  BY <1>2, SumAlike
<1>6. SumFunctionOnSet(a, T \ {x}) \in Nat
  BY <1>2, SumNat
<1>7. PICK r \in Nat, u \in Nat : r = SumFunctionOnSet(a, T \ {x}) /\ u = a[x]
  BY <1>6
<1>8. SumFunctionOnSet(a, T) = u + r /\ SumFunctionOnSet(b, T) = (u + k) + r
  BY <1>3, <1>4, <1>5, <1>7
<1>9. QED  BY <1>8

\* Nothings add up to nothing.
LEMMA SumOfNone ==
  ASSUME NEW a, NEW T, IsFiniteSet(T), \A x \in T : a[x] = 0 PROVE SumFunctionOnSet(a, T) = 0
<1> DEFINE F == {S \in SUBSET T : SumFunctionOnSet(a, S) = 0}
<1>1. {} \in F
  BY SumNone
<1>2. ASSUME NEW S \in SUBSET T, IsFiniteSet(S), S \in F, NEW x \in T \ S PROVE S \cup {x} \in F
  <2> DEFINE U == S \cup {x}
  <2>1. IsFiniteSet(U) /\ U \subseteq T /\ x \in U /\ U \ {x} = S
    BY <1>2, FS_AddElement
  <2> HIDE DEF U
  <2>2. \A y \in U : a[y] \in Nat
    BY <2>1
  <2>3. SumFunctionOnSet(a, U) = a[x] + SumFunctionOnSet(a, U \ {x})
    BY <2>1, <2>2, SumSplit
  <2>4. SumFunctionOnSet(a, U) = 0
    BY <1>2, <2>1, <2>3
  <2>5. QED  BY <2>1, <2>4 DEF U
<1>3. T \in F
  <2> HIDE DEF F
  <2>1. \A S \in SUBSET T : IsFiniteSet(S) /\ S \in F => \A x \in T \ S : S \cup {x} \in F
    BY <1>2
  <2>2. QED  BY <1>1, <2>1, Collect
<1>4. QED  BY <1>3

-----------------------------------------------------------------------------
(* Occurrences in a list *)

LEMMA PositionsFinite ==
  ASSUME NEW n \in Nat, NEW P, P \subseteq 1 .. n PROVE IsFiniteSet(P) /\ Cardinality(P) \in Nat
<1>1. IsFiniteSet(1 .. n)
  BY FS_Interval
<1>2. IsFiniteSet(P)
  BY <1>1, FS_Subset
<1>3. QED  BY <1>2, FS_CardinalityType

OneMore(a, b) == b = a + 1

\* Positions up to the next one.
LEMMA Positions ==
  ASSUME NEW n \in Nat, NEW P, NEW Q, P \subseteq 1 .. n, Q \subseteq 1 .. n + 1,
         \A i \in 1 .. n : i \in P <=> i \in Q
  PROVE  /\ IsFiniteSet(P) /\ Cardinality(P) \in Nat
         /\ n + 1 \in Q => OneMore(Cardinality(P), Cardinality(Q))
         /\ n + 1 \notin Q => Cardinality(Q) = Cardinality(P)
<1>1. IsFiniteSet(P) /\ Cardinality(P) \in Nat
  BY PositionsFinite
<1>2. n + 1 \notin P
  OBVIOUS
<1>0. \A i \in 1 .. n + 1 : i = n + 1 \/ i \in 1 .. n
  OBVIOUS
<1>3. n + 1 \in Q => Q = P \cup {n + 1}
  BY <1>0
<1>4. n + 1 \notin Q => Q = P
  BY <1>0
<1>5. Cardinality(P \cup {n + 1}) = Cardinality(P) + 1
  BY <1>1, <1>2, FS_AddElement
<1>6. QED  BY <1>1, <1>3, <1>4, <1>5 DEF OneMore

\* How often an element of Y is at a position of W.
Where(s, Y, W) == Cardinality({i \in DOMAIN s : i \in W /\ s[i] \in Y})

LEMMA WhereOfNone == \A Y, W : Where(<<>>, Y, W) = 0
<1>1. \A Y, W : {i \in DOMAIN <<>> : i \in W /\ <<>>[i] \in Y} = {}
  OBVIOUS
<1>2. QED  BY <1>1, FS_EmptySet DEF Where

LEMMA WhereOfMore ==
  ASSUME NEW X, NEW s \in Seq(X), NEW x \in X, NEW Y, NEW W, NEW V, \A i \in 1 .. Len(s) : i \in V <=> i \in W
  PROVE  /\ Where(s, Y, V) \in Nat
         /\ x \in Y /\ Len(s) + 1 \in W => Where(Append(s, x), Y, W) = Where(s, Y, V) + 1
         /\ ~(x \in Y /\ Len(s) + 1 \in W) => Where(Append(s, x), Y, W) = Where(s, Y, V)
<1> DEFINE t == Append(s, x)
           n == Len(s)
           P == {i \in DOMAIN s : i \in V /\ s[i] \in Y}
           Q == {i \in DOMAIN t : i \in W /\ t[i] \in Y}
<1>1. n \in Nat /\ DOMAIN s = 1 .. n /\ DOMAIN t = 1 .. n + 1 /\ t[n + 1] = x /\ \A i \in 1 .. n : t[i] = s[i]
  OBVIOUS
<1>2. P \subseteq 1 .. n /\ Q \subseteq 1 .. n + 1 /\ \A i \in 1 .. n : i \in P <=> i \in Q
  BY <1>1
<1>3. n + 1 \in Q <=> x \in Y /\ n + 1 \in W
  BY <1>1
<1> HIDE DEF P, Q, n, t
<1>4. /\ Cardinality(P) \in Nat
      /\ n + 1 \in Q => OneMore(Cardinality(P), Cardinality(Q))
      /\ n + 1 \notin Q => Cardinality(Q) = Cardinality(P)
  BY <1>1, <1>2, Positions
<1>5. QED  BY <1>3, <1>4 DEF Where, P, Q, n, t, OneMore

LEMMA WhereNat == ASSUME NEW X, NEW s \in Seq(X), NEW Y, NEW W PROVE Where(s, Y, W) \in Nat
<1>1. {i \in DOMAIN s : i \in W /\ s[i] \in Y} \subseteq 1 .. Len(s) /\ Len(s) \in Nat
  OBVIOUS
<1>2. QED  BY <1>1, PositionsFinite DEF Where

\* How often y is in the list.
CountIn(s, y) == Cardinality({i \in DOMAIN s : s[i] = y})

LEMMA CountWhere == ASSUME NEW s, NEW y PROVE CountIn(s, y) = Where(s, {y}, DOMAIN s)
<1>1. {i \in DOMAIN s : s[i] = y} = {i \in DOMAIN s : i \in DOMAIN s /\ s[i] \in {y}}
  OBVIOUS
<1>2. QED  BY <1>1 DEF CountIn, Where

LEMMA CountNat == ASSUME NEW X, NEW s \in Seq(X), NEW y PROVE CountIn(s, y) \in Nat
BY CountWhere, WhereNat

LEMMA CountOfNone == \A y : CountIn(<<>>, y) = 0
BY CountWhere, WhereOfNone

LEMMA CountOfMore ==
  ASSUME NEW X, NEW s \in Seq(X), NEW x \in X, NEW y
  PROVE  /\ x = y => CountIn(Append(s, x), y) = CountIn(s, y) + 1
         /\ x # y => CountIn(Append(s, x), y) = CountIn(s, y)
<1> DEFINE t == Append(s, x)
           V == DOMAIN s
           W == DOMAIN t
<1>1. (\A i \in 1 .. Len(s) : i \in V <=> i \in W) /\ Len(s) + 1 \in W
  OBVIOUS
<1>2. CountIn(s, y) = Where(s, {y}, V) /\ CountIn(t, y) = Where(t, {y}, W)
  BY CountWhere
<1> HIDE DEF V, W
<1>3. /\ x = y => Where(t, {y}, W) = Where(s, {y}, V) + 1
      /\ x # y => Where(t, {y}, W) = Where(s, {y}, V)
  BY <1>1, WhereOfMore
<1>4. QED  BY <1>2, <1>3

\* What is picked, counted.
LEMMA WherePicked ==
  ASSUME NEW X, NEW s \in Seq(X), NEW W, NEW Y
  PROVE  Where(Picked(s, W), Y, DOMAIN Picked(s, W)) = Where(s, Y, W)
<1> DEFINE In(u) == Where(u, Y, DOMAIN u)
           T == {t \in Seq(X) : In(Picked(t, W)) = Where(t, Y, W)}
<1>0. ASSUME NEW u \in Seq(X), NEW x \in X
      PROVE  /\ In(u) \in Nat
             /\ x \in Y => In(Append(u, x)) = In(u) + 1
             /\ x \notin Y => In(Append(u, x)) = In(u)
  <2> DEFINE v == Append(u, x)
             P == DOMAIN u
             Q == DOMAIN v
  <2>1. (\A i \in 1 .. Len(u) : i \in P <=> i \in Q) /\ Len(u) + 1 \in Q
    OBVIOUS
  <2> HIDE DEF P, Q
  <2>2. /\ Where(u, Y, P) \in Nat
        /\ x \in Y => Where(v, Y, Q) = Where(u, Y, P) + 1
        /\ x \notin Y => Where(v, Y, Q) = Where(u, Y, P)
    BY <2>1, WhereOfMore
  <2>3. QED  BY <2>2 DEF P, Q
<1>1. <<>> \in T
  <2>1. Picked(<<>>, W) = <<>> /\ In(<<>>) = 0 /\ Where(<<>>, Y, W) = 0
    BY PickedOfNone, WhereOfNone
  <2>2. QED  BY <2>1
<1> HIDE DEF In
<1>2. ASSUME NEW t \in Seq(X), NEW x \in X, t \in T PROVE Append(t, x) \in T
  <2>1. Picked(Append(t, x), W) = IF Len(t) + 1 \in W THEN Append(Picked(t, W), x) ELSE Picked(t, W)
    BY PickedOfMore
  <2>2. Picked(t, W) \in Seq(X) /\ In(Picked(t, W)) = Where(t, Y, W)
    BY <1>2, PickedIn
  <2>3. /\ x \in Y => In(Append(Picked(t, W), x)) = In(Picked(t, W)) + 1
        /\ x \notin Y => In(Append(Picked(t, W), x)) = In(Picked(t, W))
    BY <1>0, <2>2
  <2>4. /\ x \in Y /\ Len(t) + 1 \in W => Where(Append(t, x), Y, W) = Where(t, Y, W) + 1
        /\ ~(x \in Y /\ Len(t) + 1 \in W) => Where(Append(t, x), Y, W) = Where(t, Y, W)
    BY WhereOfMore
  <2>5. In(Picked(Append(t, x), W)) = Where(Append(t, x), Y, W)
    BY <2>1, <2>2, <2>3, <2>4
  <2>6. QED  BY <2>5
<1>3. Seq(X) \subseteq T
  <2> HIDE DEF T
  <2>1. QED  BY <1>1, <1>2, Grow
<1>4. In(Picked(s, W)) = Where(s, Y, W)
  BY <1>3
<1>5. QED  BY <1>4 DEF In

LEMMA CountPicked ==
  ASSUME NEW X, NEW s \in Seq(X), NEW W, NEW y PROVE CountIn(Picked(s, W), y) = Where(s, {y}, W)
BY WherePicked, CountWhere

LEMMA CountOnly ==
  ASSUME NEW X, NEW s \in Seq(X), NEW S, NEW y
  PROVE  CountIn(Only(s, S), y) = IF y \in S THEN CountIn(s, y) ELSE 0
<1> DEFINE W == {i \in DOMAIN s : s[i] \in S}
<1>1. CountIn(Only(s, S), y) = Where(s, {y}, W)
  BY CountPicked DEF Only
<1>2. {i \in DOMAIN s : i \in W /\ s[i] \in {y}} = IF y \in S THEN {i \in DOMAIN s : s[i] = y} ELSE {}
  OBVIOUS
<1> HIDE DEF W
<1>3. QED  BY <1>1, <1>2, FS_EmptySet DEF Where, CountIn

\* One less at the front.
LEMMA WhereOfTail ==
  ASSUME NEW X, NEW s \in Seq(X), s # <<>>, NEW Y
  PROVE  /\ Where(Tail(s), Y, DOMAIN Tail(s)) \in Nat
         /\ Head(s) \in Y => OneMore(Where(Tail(s), Y, DOMAIN Tail(s)), Where(s, Y, DOMAIN s))
         /\ Head(s) \notin Y => Where(Tail(s), Y, DOMAIN Tail(s)) = Where(s, Y, DOMAIN s)
<1> DEFINE In(u) == Where(u, Y, DOMAIN u)
           Is(t) == t # <<>> => /\ Head(t) \in Y => In(t) = In(Tail(t)) + 1
                                /\ Head(t) \notin Y => In(t) = In(Tail(t))
           T == {t \in Seq(X) : Is(t)}
<1>0. ASSUME NEW u \in Seq(X), NEW x \in X
      PROVE  /\ In(u) \in Nat
             /\ x \in Y => In(Append(u, x)) = In(u) + 1
             /\ x \notin Y => In(Append(u, x)) = In(u)
  <2> DEFINE v == Append(u, x)
             P == DOMAIN u
             Q == DOMAIN v
  <2>1. (\A i \in 1 .. Len(u) : i \in P <=> i \in Q) /\ Len(u) + 1 \in Q
    OBVIOUS
  <2> HIDE DEF P, Q
  <2>2. /\ Where(u, Y, P) \in Nat
        /\ x \in Y => Where(v, Y, Q) = Where(u, Y, P) + 1
        /\ x \notin Y => Where(v, Y, Q) = Where(u, Y, P)
    BY <2>1, WhereOfMore
  <2>3. QED  BY <2>2 DEF P, Q
<1> HIDE DEF In
<1>1. <<>> \in T
  OBVIOUS
<1>2. ASSUME NEW t \in Seq(X), NEW x \in X, t \in T PROVE Append(t, x) \in T
  <2>0. Append(t, x) # <<>> /\ Append(t, x) \in Seq(X) /\ Is(t) /\ <<>> \in Seq(X)
    <3>1. Is(t)
      BY <1>2
    <3> HIDE DEF Is
    <3>2. QED  BY <3>1
  <2>1. CASE t = <<>>
    <3>1. Append(t, x) = Append(<<>>, x) /\ Head(Append(t, x)) = x /\ Tail(Append(t, x)) = <<>>
      BY <2>1
    <3>2. Is(Append(t, x))
      BY <1>0, <2>0, <3>1
    <3>3. QED  BY <2>0, <3>2
  <2>2. CASE t # <<>>
    <3>1. Head(Append(t, x)) = Head(t) /\ Tail(Append(t, x)) = Append(Tail(t), x) /\ Tail(t) \in Seq(X)
      BY <2>2
    <3>2. /\ In(t) \in Nat /\ In(Tail(t)) \in Nat
          /\ x \in Y => In(Append(t, x)) = In(t) + 1 /\ In(Append(Tail(t), x)) = In(Tail(t)) + 1
          /\ x \notin Y => In(Append(t, x)) = In(t) /\ In(Append(Tail(t), x)) = In(Tail(t))
      BY <1>0, <3>1
    <3>3. /\ Head(t) \in Y => In(t) = In(Tail(t)) + 1
          /\ Head(t) \notin Y => In(t) = In(Tail(t))
      BY <2>0, <2>2
    <3> DEFINE a == In(Append(t, x))
               b == In(Append(Tail(t), x))
               c == In(t)
               d == In(Tail(t))
    <3>4. (Head(t) \in Y => a = b + 1) /\ (Head(t) \notin Y => a = b)
      <4>1. c \in Nat /\ d \in Nat /\ (x \in Y => a = c + 1 /\ b = d + 1) /\ (x \notin Y => a = c /\ b = d)
        BY <3>2
      <4>2. (Head(t) \in Y => c = d + 1) /\ (Head(t) \notin Y => c = d)
        BY <3>3
      <4> HIDE DEF a, b, c, d
      <4>3. CASE x \in Y
        BY <4>1, <4>2, <4>3
      <4>4. CASE x \notin Y
        BY <4>1, <4>2, <4>4
      <4>5. QED  BY <4>3, <4>4
    <3>6. Is(Append(t, x))
      BY <3>1, <3>4
    <3>5. QED  BY <2>0, <3>6
  <2>3. QED  BY <2>1, <2>2
<1>3. Seq(X) \subseteq T
  <2> HIDE DEF T
  <2>1. QED  BY <1>1, <1>2, Grow
<1>4. Is(s) /\ In(Tail(s)) \in Nat
  <2>1. Tail(s) \in Seq(X)
    OBVIOUS
  <2>2. QED  BY <1>0, <1>3, <2>1, WhereNat DEF In
<1>5. QED  BY <1>4 DEF In, OneMore

\* The element at i is the nth of its kind.
Nth(s, i) == Cardinality({j \in 1 .. i : s[j] = s[i]})

\* Of the copies of y, those beyond the first k.
LEMMA NthBeyond ==
  ASSUME NEW X, NEW s \in Seq(X), NEW k \in Nat, NEW y
  PROVE  /\ CountIn(s, y) > k => Cardinality({i \in DOMAIN s : s[i] = y /\ Nth(s, i) > k}) = CountIn(s, y) - k
         /\ CountIn(s, y) <= k => Cardinality({i \in DOMAIN s : s[i] = y /\ Nth(s, i) > k}) = 0
<1> DEFINE B(t) == {i \in DOMAIN t : t[i] = y /\ Nth(t, i) > k}
           Is(t) == /\ CountIn(t, y) > k => Cardinality(B(t)) = CountIn(t, y) - k
                    /\ CountIn(t, y) <= k => Cardinality(B(t)) = 0
           T == {t \in Seq(X) : Is(t)}
<1>1. <<>> \in T
  <2>1. B(<<>>) = {}
    OBVIOUS
  <2> HIDE DEF B
  <2>2. CountIn(<<>>, y) = 0 /\ Cardinality(B(<<>>)) = 0
    BY <2>1, CountOfNone, FS_EmptySet
  <2>4. Is(<<>>)
    BY <2>2
  <2> HIDE DEF Is
  <2>3. QED  BY <2>4
<1>2. ASSUME NEW t \in Seq(X), NEW x \in X, t \in T PROVE Append(t, x) \in T
  <2> DEFINE u == Append(t, x)
             n == Len(t)
  <2>1. /\ n \in Nat /\ DOMAIN t = 1 .. n /\ DOMAIN u = 1 .. n + 1 /\ u[n + 1] = x /\ u \in Seq(X)
        /\ \A i \in 1 .. n : u[i] = t[i]
    OBVIOUS
  <2> HIDE DEF u, n
  <2>2. \A i \in 1 .. n : Nth(u, i) = Nth(t, i)
    <3>1. \A i \in 1 .. n : {j \in 1 .. i : u[j] = u[i]} = {j \in 1 .. i : t[j] = t[i]}
      <4> SUFFICES ASSUME NEW i \in 1 .. n PROVE \A j \in 1 .. i : u[j] = u[i] <=> t[j] = t[i]
        OBVIOUS
      <4>1. \A j \in 1 .. i : j \in 1 .. n
        BY <2>1
      <4>2. QED  BY <2>1, <4>1
    <3>2. QED  BY <3>1 DEF Nth
  <2>3. Nth(u, n + 1) = CountIn(u, x)
    BY <2>1 DEF Nth, CountIn
  <2>4. B(t) \subseteq 1 .. n /\ B(u) \subseteq 1 .. n + 1 /\ \A i \in 1 .. n : i \in B(t) <=> i \in B(u)
    BY <2>1, <2>2
  <2>5. n + 1 \in B(u) <=> x = y /\ CountIn(u, y) > k
    BY <2>1, <2>3
  <2>6. Is(t)
    BY <1>2
  <2> HIDE DEF B
  <2>7. /\ Cardinality(B(t)) \in Nat
        /\ n + 1 \in B(u) => Cardinality(B(u)) = Cardinality(B(t)) + 1
        /\ n + 1 \notin B(u) => Cardinality(B(u)) = Cardinality(B(t))
    <3> DEFINE P == B(t)
               Q == B(u)
    <3>1. P \subseteq 1 .. n /\ Q \subseteq 1 .. n + 1 /\ \A i \in 1 .. n : i \in P <=> i \in Q
      BY <2>4
    <3>2. n \in Nat
      BY <2>1
    <3> HIDE DEF P, Q
    <3>3. /\ Cardinality(P) \in Nat
          /\ n + 1 \in Q => OneMore(Cardinality(P), Cardinality(Q))
          /\ n + 1 \notin Q => Cardinality(Q) = Cardinality(P)
      BY <3>1, <3>2, Positions
    <3>4. QED  BY <3>3 DEF P, Q, OneMore
  <2>8. /\ CountIn(t, y) \in Nat
        /\ x = y => CountIn(u, y) = CountIn(t, y) + 1
        /\ x # y => CountIn(u, y) = CountIn(t, y)
    BY CountNat, CountOfMore DEF u
  <2>9. Is(u)
    <3> DEFINE c == CountIn(u, y)
               d == Cardinality(B(u))
    <3>1. PICK a \in Nat, b \in Nat : a = CountIn(t, y) /\ b = Cardinality(B(t))
      BY <2>7, <2>8
    <3>2. (a > k => b = a - k) /\ (a <= k => b = 0)
      BY <2>6, <3>1
    <3>3. (x = y => c = a + 1) /\ (x # y => c = a)
      BY <2>8, <3>1
    <3>4. (x = y /\ c > k => d = b + 1) /\ (~(x = y /\ c > k) => d = b)
      BY <2>5, <2>7, <3>1
    <3> HIDE DEF c, d
    <3>5. (c > k => d = c - k) /\ (c <= k => d = 0)
      BY <3>2, <3>3, <3>4
    <3>6. QED  BY <3>1, <3>5 DEF c, d
  <2> HIDE DEF Is
  <2>10. QED  BY <2>1, <2>9 DEF u
<1>3. Seq(X) \subseteq T
  <2> HIDE DEF T
  <2>1. QED  BY <1>1, <1>2, Grow
<1>4. Is(s)
  BY <1>3
<1>5. QED  BY <1>4

-----------------------------------------------------------------------------
(* Largest and smallest *)

\* A finite set of numbers has a largest one.
LEMMA MaxIs ==
  ASSUME NEW S, IsFiniteSet(S), S # {}, S \subseteq Int
  PROVE  Max(S) \in S /\ \A y \in S : Max(S) >= y
<1> DEFINE F == {Q \in SUBSET S : Q # {} => \E x \in Q : \A y \in Q : x >= y}
<1>1. {} \in F
  OBVIOUS
<1>2. ASSUME NEW Q \in SUBSET S, Q \in F, NEW x \in S \ Q PROVE Q \cup {x} \in F
  <2>1. CASE Q = {}
    BY <2>1
  <2>2. CASE Q # {}
    <3>1. PICK m \in Q : \A y \in Q : m >= y
      BY <1>2, <2>2
    <3>2. m \in Int /\ x \in Int /\ \A y \in Q : y \in Int
      OBVIOUS
    <3>3. CASE m >= x
      BY <3>1, <3>2, <3>3
    <3>4. CASE x >= m
      <4>1. \A y \in Q : x >= y
        BY <3>1, <3>2, <3>4
      <4>2. QED  BY <3>2, <4>1
    <3>5. QED  BY <3>2, <3>3, <3>4
  <2>3. QED  BY <2>1, <2>2
<1>3. S \in F
  <2> HIDE DEF F
  <2>1. \A Q \in SUBSET S : IsFiniteSet(Q) /\ Q \in F => \A x \in S \ Q : Q \cup {x} \in F
    BY <1>2
  <2>2. QED  BY <1>1, <2>1, Collect
<1>4. \E x \in S : \A y \in S : x >= y
  BY <1>3
<1>5. QED  BY <1>4 DEF Max

\* What is least is in the set.
LEMMA MinIs ==
  ASSUME NEW S, IsFiniteSet(S), S # {}, S \subseteq Int
  PROVE  Min(S) \in S /\ \A y \in S : Min(S) <= y
<1> DEFINE F == {Q \in SUBSET S : Q # {} => \E x \in Q : \A y \in Q : x <= y}
<1>1. {} \in F
  OBVIOUS
<1>2. ASSUME NEW Q \in SUBSET S, Q \in F, NEW x \in S \ Q PROVE Q \cup {x} \in F
  <2>1. CASE Q = {}
    BY <2>1
  <2>2. CASE Q # {}
    <3>1. PICK m \in Q : \A y \in Q : m <= y
      BY <1>2, <2>2
    <3>2. m \in Int /\ x \in Int /\ \A y \in Q : y \in Int
      OBVIOUS
    <3>3. CASE m <= x
      BY <3>1, <3>3
    <3>4. CASE x < m
      BY <3>1, <3>2, <3>4
    <3>5. QED  BY <3>2, <3>3, <3>4
  <2>3. QED  BY <2>1, <2>2
<1>3. S \in F
  <2> HIDE DEF F
  <2>1. \A Q \in SUBSET S : IsFiniteSet(Q) /\ Q \in F => \A x \in S \ Q : Q \cup {x} \in F
    BY <1>2
  <2>2. QED  BY <1>1, <2>1, Collect
<1>4. QED  BY <1>3 DEF Min

LEMMA MinOfTwo ==
  \A a, b \in Int : Min({a, b}) = IF a <= b THEN a ELSE b
<1> SUFFICES ASSUME NEW a \in Int, NEW b \in Int PROVE Min({a, b}) = IF a <= b THEN a ELSE b
  OBVIOUS
<1> DEFINE m == IF a <= b THEN a ELSE b
<1>1. m \in {a, b} /\ \A y \in {a, b} : m <= y
  OBVIOUS
<1>2. \A x \in {a, b} : (\A y \in {a, b} : x <= y) => x = m
  OBVIOUS
<1>3. Min({a, b}) = CHOOSE x \in {a, b} : \A y \in {a, b} : x <= y
  BY DEF Min
<1> HIDE DEF m
<1>4. Min({a, b}) = m
  BY <1>1, <1>2, <1>3
<1>5. QED  BY <1>4 DEF m

LEMMA MaxOfTwo ==
  \A a, b \in Int : Max({a, b}) = IF a >= b THEN a ELSE b
<1> SUFFICES ASSUME NEW a \in Int, NEW b \in Int PROVE Max({a, b}) = IF a >= b THEN a ELSE b
  OBVIOUS
<1> DEFINE m == IF a >= b THEN a ELSE b
<1>1. m \in {a, b} /\ \A y \in {a, b} : m >= y
  OBVIOUS
<1>2. \A x \in {a, b} : (\A y \in {a, b} : x >= y) => x = m
  OBVIOUS
<1>3. Max({a, b}) = CHOOSE x \in {a, b} : \A y \in {a, b} : x >= y
  BY DEF Max
<1> HIDE DEF m
<1>4. Max({a, b}) = m
  BY <1>1, <1>2, <1>3
<1>5. QED  BY <1>4 DEF m

-----------------------------------------------------------------------------
(* What is in a list, and how long it is. *)

\* What is in a list that grows, and in what is left of one.
LEMMA RangeOfMore ==
  ASSUME NEW X, NEW s \in Seq(X), NEW x \in X PROVE Range(Append(s, x)) = Range(s) \cup {x}
<1> DEFINE t == Append(s, x)
<1>1. /\ DOMAIN s = 1 .. Len(s) /\ DOMAIN t = 1 .. Len(s) + 1 /\ Len(s) \in Nat
      /\ t[Len(s) + 1] = x /\ \A i \in 1 .. Len(s) : t[i] = s[i]
  OBVIOUS
<1> HIDE DEF t
<1>2. \A i \in 1 .. Len(s) + 1 : i = Len(s) + 1 \/ i \in 1 .. Len(s)
  BY <1>1
<1>3. \A i \in 1 .. Len(s) : i \in 1 .. Len(s) + 1
  BY <1>1
<1>4. Len(s) + 1 \in 1 .. Len(s) + 1
  BY <1>1
<1>5. ASSUME NEW y \in Range(t) PROVE y \in Range(s) \cup {x}
  <2>1. PICK i \in DOMAIN t : y = t[i]
    BY <1>5 DEF Range
  <2>2. CASE i = Len(s) + 1
    BY <1>1, <2>1, <2>2
  <2>3. CASE i \in 1 .. Len(s)
    BY <1>1, <2>1, <2>3 DEF Range
  <2>4. QED  BY <1>1, <1>2, <2>1, <2>2, <2>3
<1>6. ASSUME NEW y \in Range(s) PROVE y \in Range(t)
  <2>1. PICK i \in DOMAIN s : y = s[i]
    BY <1>6 DEF Range
  <2>2. i \in DOMAIN t /\ t[i] = y
    BY <1>1, <1>3, <2>1
  <2>3. QED  BY <2>2 DEF Range
<1>7. x \in Range(t)
  BY <1>1, <1>4 DEF Range
<1>8. QED  BY <1>5, <1>6, <1>7 DEF t

LEMMA RangeOfNone == Range(<<>>) = {}
BY DEF Range

LEMMA RangeIn == ASSUME NEW X, NEW s \in Seq(X) PROVE Range(s) \subseteq X
BY DEF Range

LEMMA RangeFinite == ASSUME NEW X, NEW s \in Seq(X) PROVE IsFiniteSet(Range(s))
<1> DEFINE T == {t \in Seq(X) : IsFiniteSet(Range(t))}
<1>1. <<>> \in T
  <2>1. <<>> \in Seq(X)
    OBVIOUS
  <2>2. QED  BY <2>1, RangeOfNone, FS_EmptySet
<1>2. ASSUME NEW t \in Seq(X), NEW x \in X, t \in T PROVE Append(t, x) \in T
  <2>1. Append(t, x) \in Seq(X)
    OBVIOUS
  <2>2. IsFiniteSet(Range(t) \cup {x})
    BY <1>2, FS_AddElement
  <2>3. Range(Append(t, x)) = Range(t) \cup {x}
    BY RangeOfMore
  <2>4. QED  BY <2>1, <2>2, <2>3
<1>3. Seq(X) \subseteq T
  <2> HIDE DEF T
  <2>1. QED  BY <1>1, <1>2, Grow
<1>4. QED  BY <1>3

LEMMA RangeOfOnly == ASSUME NEW X, NEW s \in Seq(X), NEW S PROVE Range(Only(s, S)) = Range(s) \cap S
<1> DEFINE T == {t \in Seq(X) : Range(Only(t, S)) = Range(t) \cap S}
<1>1. <<>> \in T
  <2>1. <<>> \in Seq(X)
    OBVIOUS
  <2>2. QED  BY <2>1, RangeOfNone, OnlyOfNone
<1>2. ASSUME NEW t \in Seq(X), NEW x \in X, t \in T PROVE Append(t, x) \in T
  <2>1. Append(t, x) \in Seq(X) /\ Only(t, S) \in Seq(X \cap S)
    BY OnlyPasses
  <2>2. Range(Append(t, x)) = Range(t) \cup {x}
    BY RangeOfMore
  <2>3. CASE x \in S
    <3>1. Only(Append(t, x), S) = Append(Only(t, S), x) /\ x \in X \cap S
      BY <2>3, OnlyOfMore
    <3>2. Range(Append(Only(t, S), x)) = Range(Only(t, S)) \cup {x}
      BY <2>1, <3>1, RangeOfMore
    <3>3. QED  BY <1>2, <2>1, <2>2, <2>3, <3>1, <3>2
  <2>4. CASE x \notin S
    BY <1>2, <2>1, <2>2, <2>4, OnlyOfMore
  <2>5. QED  BY <2>3, <2>4
<1>3. Seq(X) \subseteq T
  <2> HIDE DEF T
  <2>1. QED  BY <1>1, <1>2, Grow
<1>4. QED  BY <1>3

\* A list that loses something is shorter.
Shorter(s, S) ==
  /\ Len(Only(s, S)) \in Nat /\ Len(Only(s, S)) <= Len(s)
  /\ Range(s) \subseteq S \/ Len(Only(s, S)) < Len(s)

LEMMA OnlyIsShorter == ASSUME NEW X, NEW s \in Seq(X), NEW S PROVE Shorter(s, S)
<1> DEFINE T == {t \in Seq(X) : Shorter(t, S)}
<1>1. <<>> \in T
  <2>1. <<>> \in Seq(X) /\ Len(<<>>) = 0
    OBVIOUS
  <2>2. QED  BY <2>1, RangeOfNone, OnlyOfNone DEF Shorter
<1>2. ASSUME NEW t \in Seq(X), NEW x \in X, t \in T PROVE Append(t, x) \in T
  <2>1. Append(t, x) \in Seq(X) /\ Only(t, S) \in Seq(X \cap S) /\ Len(Append(t, x)) = Len(t) + 1 /\ Len(t) \in Nat
    BY OnlyPasses
  <2>2. Range(Append(t, x)) = Range(t) \cup {x}
    BY RangeOfMore
  <2>0. Shorter(t, S)
    BY <1>2
  <2>3. CASE x \in S
    <3>1. Only(Append(t, x), S) = Append(Only(t, S), x) /\ Len(Append(Only(t, S), x)) = Len(Only(t, S)) + 1
      BY <2>1, <2>3, OnlyOfMore
    <3>2. QED  BY <2>0, <2>1, <2>2, <2>3, <3>1 DEF Shorter
  <2>4. CASE x \notin S
    <3>1. Only(Append(t, x), S) = Only(t, S)
      BY <2>4, OnlyOfMore
    <3>2. QED  BY <2>0, <2>1, <2>2, <2>4, <3>1 DEF Shorter
  <2>5. QED  BY <2>3, <2>4
<1>3. Seq(X) \subseteq T
  <2> HIDE DEF T
  <2>1. QED  BY <1>1, <1>2, Grow
<1>4. QED  BY <1>3

\* One more in front.
LEMMA RangeOfFront ==
  ASSUME NEW X, NEW s \in Seq(X), NEW x \in X
  PROVE  <<x>> \o s \in Seq(X) /\ Len(<<x>> \o s) = Len(s) + 1 /\ Range(<<x>> \o s) = Range(s) \cup {x}
<1>1. <<x>> \in Seq(X) /\ <<x>> \o s \in Seq(X)
  OBVIOUS
<1> DEFINE t == <<x>> \o s
<1>2. /\ Len(s) \in Nat /\ DOMAIN s = 1 .. Len(s) /\ DOMAIN t = 1 .. Len(s) + 1 /\ Len(t) = Len(s) + 1
      /\ t[1] = x /\ \A i \in 1 .. Len(s) + 1 : i = 1 \/ (i - 1 \in 1 .. Len(s) /\ t[i] = s[i - 1])
  BY <1>1
<1>3. \A i \in 1 .. Len(s) : i + 1 \in 1 .. Len(s) + 1 /\ i + 1 # 1 /\ (i + 1) - 1 = i
  BY <1>2
<1> HIDE DEF t
<1>4. ASSUME NEW y \in Range(t) PROVE y \in Range(s) \cup {x}
  <2>1. PICK i \in 1 .. Len(s) + 1 : y = t[i]
    BY <1>2, <1>4 DEF Range
  <2>2. CASE i = 1
    BY <1>2, <2>1, <2>2
  <2>3. CASE i # 1
    BY <1>2, <2>1, <2>3 DEF Range
  <2>4. QED  BY <2>2, <2>3
<1>5. ASSUME NEW y \in Range(s) PROVE y \in Range(t)
  <2>1. PICK i \in 1 .. Len(s) : y = s[i]
    BY <1>2, <1>5 DEF Range
  <2>2. i + 1 \in DOMAIN t /\ t[i + 1] = y
    BY <1>2, <1>3, <2>1
  <2>3. QED  BY <2>2 DEF Range
<1>6. x \in Range(t)
  <2>1. 1 \in DOMAIN t
    BY <1>2
  <2>2. QED  BY <1>2, <2>1 DEF Range
<1>7. QED  BY <1>1, <1>2, <1>4, <1>5, <1>6 DEF t

\* As many pass as there are of them.
LEMMA LenOfOnly == ASSUME NEW X, NEW s \in Seq(X), NEW S PROVE Len(Only(s, S)) = Where(s, S, DOMAIN s)
<1> DEFINE In(t) == Where(t, S, DOMAIN t)
           T == {t \in Seq(X) : Len(Only(t, S)) = In(t)}
<1>1. <<>> \in T
  <2>1. <<>> \in Seq(X) /\ Len(<<>>) = 0
    OBVIOUS
  <2>2. QED  BY <2>1, OnlyOfNone, WhereOfNone
<1>2. ASSUME NEW t \in Seq(X), NEW x \in X, t \in T PROVE Append(t, x) \in T
  <2> DEFINE u == Append(t, x)
             V == DOMAIN t
             W == DOMAIN u
  <2>1. u \in Seq(X) /\ (\A i \in 1 .. Len(t) : i \in V <=> i \in W) /\ Len(t) + 1 \in W
    OBVIOUS
  <2>2. Only(t, S) \in Seq(X \cap S)
    BY OnlyPasses
  <2> HIDE DEF V, W
  <2>3. /\ x \in S => Where(u, S, W) = Where(t, S, V) + 1
        /\ x \notin S => Where(u, S, W) = Where(t, S, V)
    BY <2>1, WhereOfMore
  <2>4. Len(Only(t, S)) = Where(t, S, V)
    BY <1>2 DEF V
  <2>5. CASE x \in S
    <3>1. Only(u, S) = Append(Only(t, S), x) /\ Len(Append(Only(t, S), x)) = Len(Only(t, S)) + 1
      BY <2>2, <2>5, OnlyOfMore
    <3>2. Len(Only(u, S)) = Where(u, S, W)
      BY <2>3, <2>4, <2>5, <3>1
    <3>3. QED  BY <2>1, <3>2 DEF W
  <2>6. CASE x \notin S
    <3>1. Only(u, S) = Only(t, S)
      BY <2>6, OnlyOfMore
    <3>2. Len(Only(u, S)) = Where(u, S, W)
      BY <2>3, <2>4, <2>6, <3>1
    <3>3. QED  BY <2>1, <3>2 DEF W
  <2>7. QED  BY <2>5, <2>6
<1>3. Seq(X) \subseteq T
  <2> HIDE DEF T
  <2>1. QED  BY <1>1, <1>2, Grow
<1>4. QED  BY <1>3

\* Elements told apart by a key and counted by its values are, all together,
\* those whose key is one of them.
Keyed(D, key, S) == {i \in D : key[i] \in S}

LEMMA CountsAddUp ==
  ASSUME NEW D, IsFiniteSet(D), NEW key, NEW V, IsFiniteSet(V),
         NEW counts, \A v \in V : counts[v] = Cardinality(Keyed(D, key, {v}))
  PROVE  SumFunctionOnSet(counts, V) = Cardinality(Keyed(D, key, V))
<1> USE DEF Keyed
<1> DEFINE In(S) == Keyed(D, key, S)
           F == {S \in SUBSET V : SumFunctionOnSet(counts, S) = Cardinality(In(S))}
<1>0. /\ \A S : IsFiniteSet(In(S)) /\ Cardinality(In(S)) \in Nat
      /\ \A v \in V : counts[v] = Cardinality(In({v})) /\ counts[v] \in Nat
  <2>1. ASSUME NEW S PROVE IsFiniteSet(In(S)) /\ Cardinality(In(S)) \in Nat
    BY FS_Subset, FS_CardinalityType
  <2>2. \A v \in V : counts[v] = Cardinality(In({v}))
    OBVIOUS
  <2>3. QED  BY <2>1, <2>2
<1>1. {} \in F
  <2>1. In({}) = {}
    OBVIOUS
  <2>2. QED  BY <2>1, SumNone, FS_EmptySet
<1>2. ASSUME NEW S \in SUBSET V, IsFiniteSet(S), S \in F, NEW x \in V \ S PROVE S \cup {x} \in F
  <2> DEFINE U == S \cup {x}
  <2>1. IsFiniteSet(U) /\ U \subseteq V /\ x \in U /\ U \ {x} = S
    BY <1>2, FS_AddElement
  <2>2. In(U) = In({x}) \cup In(S) /\ In({x}) \cap In(S) = {}
    OBVIOUS
  <2> HIDE DEF U
  <2>3. Cardinality(In(U)) = Cardinality(In({x})) + Cardinality(In(S))
    <3> DEFINE P == In({x})
               Q == In(S)
    <3>1. /\ IsFiniteSet(P) /\ IsFiniteSet(Q) /\ Cardinality(P) \in Nat /\ Cardinality(Q) \in Nat
          /\ In(U) = P \cup Q /\ P \cap Q = {}
      BY <1>0, <2>2
    <3> HIDE DEF P, Q
    <3>2. Cardinality(P \cup Q) = Cardinality(P) + Cardinality(Q) - Cardinality(P \cap Q)
      BY <3>1, FS_Union
    <3>3. Cardinality(P \cap Q) = 0
      BY <3>1, FS_EmptySet
    <3>4. Cardinality(P \cup Q) = Cardinality(P) + Cardinality(Q)
      BY <3>1, <3>2, <3>3
    <3>5. QED  BY <3>1, <3>4 DEF P, Q
  <2>4. \A y \in U : counts[y] \in Nat
    BY <1>0, <2>1
  <2>5. SumFunctionOnSet(counts, U) = counts[x] + SumFunctionOnSet(counts, S)
    BY <2>1, <2>4, SumSplit
  <2>6. SumFunctionOnSet(counts, U) = Cardinality(In(U))
    BY <1>0, <1>2, <2>3, <2>5
  <2>7. QED  BY <2>1, <2>6 DEF U
<1>3. V \in F
  <2> HIDE DEF F
  <2>1. \A S \in SUBSET V : IsFiniteSet(S) /\ S \in F => \A x \in V \ S : S \cup {x} \in F
    BY <1>2
  <2>2. QED  BY <1>1, <2>1, Collect
<1>4. QED  BY <1>3

\* The first elements of a list, up to a limit.
FirstOf(s, m) == SubSeq(s, 1, Min({Len(s), m}))

LEMMA FirstOfHas ==
  ASSUME NEW X, NEW s \in Seq(X), NEW m \in Nat
  PROVE  /\ FirstOf(s, m) \in Seq(X) /\ Len(FirstOf(s, m)) \in Nat /\ Len(FirstOf(s, m)) <= Len(s) /\ Len(s) \in Nat
         /\ Len(s) <= m => FirstOf(s, m) = s
         /\ Len(s) > m => Len(FirstOf(s, m)) = m
         /\ \A i \in 1 .. Len(FirstOf(s, m)) : FirstOf(s, m)[i] = s[i]
<1> DEFINE f == FirstOf(s, m)
<1>0. f = SubSeq(s, 1, Min({Len(s), m}))
  BY DEF FirstOf
<1> HIDE DEF f
<1>1. Len(s) \in Nat
  OBVIOUS
<1>2. PICK n \in Nat : n = Len(s)
  BY <1>1
<1>3. Min({n, m}) = IF n <= m THEN n ELSE m
  BY MinOfTwo
<1>4. PICK k \in Nat : k = Min({n, m}) /\ k <= n /\ (n <= m => k = n) /\ (n > m => k = m)
  BY <1>3
<1>5. f = SubSeq(s, 1, k)
  BY <1>0, <1>2, <1>4
<1> DEFINE g == SubSeq(s, 1, k)
<1>6. g \in Seq(X) /\ Len(g) = k /\ \A i \in 1 .. k : g[i] = s[i]
  <2>1. k \in Nat /\ k <= Len(s) /\ Len(s) \in Nat
    BY <1>2, <1>4
  <2>2. \A i \in 1 .. k : s[i] \in X
    BY <2>1
  <2>3. g = [i \in 1 .. k |-> s[i]]
    BY <2>1
  <2>4. QED  BY <2>1, <2>2, <2>3
<1>7. k = Len(s) => g = s
  OBVIOUS
<1> HIDE DEF g
<1>8. f = g
  BY <1>5 DEF g
<1>9. k <= n /\ n = Len(s)
  BY <1>2, <1>4
<1>10. n <= m => f = s
  BY <1>2, <1>4, <1>7, <1>8
<1>11. n > m => Len(f) = m
  BY <1>4, <1>6, <1>8
<1>12. f \in Seq(X) /\ Len(f) = k /\ \A i \in 1 .. k : f[i] = s[i]
  BY <1>6, <1>8
<1>13. QED  BY <1>2, <1>4, <1>9, <1>10, <1>11, <1>12 DEF f
===============================================================================
