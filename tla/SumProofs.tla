------------------------------ MODULE SumProofs ------------------------------
(***************************************************************************)
(* Facts about SumFunctionOnSet of the module Functions, which is a fold    *)
(* over a set in no particular order: the sum of finitely many integers     *)
(* does not depend on that order.  The scores a jail collects are such sums.*)
(***************************************************************************)
EXTENDS Integers, Functions, FiniteSetTheorems, WellFoundedInduction, TLAPS

(* A set of numbers has a smallest one, because < is well-founded. *)
LEMMA Smallest ==
    ASSUME NEW T \in SUBSET Nat, T # {}
    PROVE  \E k \in T : \A i \in T : k <= i
  <1> DEFINE R == OpToRel(<, Nat)
  <1>1. IsWellFoundedOn(R, Nat)
    BY NatLessThanWellFounded
  <1>2. \A x, y \in T : y < x => <<y, x>> \in R
    BY DEF OpToRel
  <1> HIDE DEF R
  <1>3. PICK x \in T : \A y \in T : <<y, x>> \notin R
    BY <1>1, WFMin
  <1>4. \A y \in T : ~(y < x) /\ x \in Nat /\ y \in Nat
    BY <1>2, <1>3
  <1> QED
    BY <1>3, <1>4

(* Induction, with the numbers a statement holds for as a set. *)
LEMMA Inductive ==
    ASSUME NEW T \in SUBSET Nat, 0 \in T, \A n \in T : n + 1 \in T
    PROVE  T = Nat
  <1> SUFFICES ASSUME Nat \ T # {} PROVE FALSE
    OBVIOUS
  <1>1. PICK k \in Nat \ T : \A i \in Nat \ T : k <= i
    BY Smallest
  <1>2. k - 1 \in Nat /\ ~(k <= k - 1) /\ k - 1 + 1 = k
    BY <1>1
  <1> QED
    BY <1>1, <1>2

---------------------------------------------------------------------------
(* The recursive function the fold is made of.                              *)
Picked(s) == CHOOSE x \in s : TRUE
Added(fun, it, s) == IF s = {} THEN 0 ELSE fun[Picked(s)] + it[s \ {Picked(s)}]
Adds(fun, S, it) == it = [s \in SUBSET S |-> Added(fun, it, s)]

LEMMA PickedFirst ==
    ASSUME NEW S, IsFiniteSet(S), S # {}
    PROVE  /\ Picked(S) \in S /\ IsFiniteSet(S \ {Picked(S)}) /\ Cardinality(S) \in Nat
           /\ Cardinality(S \ {Picked(S)}) = Cardinality(S) - 1
  <1>1. Picked(S) \in S
    BY DEF Picked
  <1> QED
    BY <1>1, FS_RemoveElement, FS_CardinalityType

(* It exists: it is made for the sets of at most n elements, then of n + 1. *)
LEMMA IterExists ==
    ASSUME NEW fun, NEW S, IsFiniteSet(S)
    PROVE  \E it : Adds(fun, S, it)
  <1> DEFINE Upto(it, n) ==
                /\ it = [s \in SUBSET S |-> it[s]]
                /\ \A s \in SUBSET S : Cardinality(s) <= n => it[s] = Added(fun, it, s)
             T == {n \in Nat : \E it : Upto(it, n)}
  <1>1. \A s \in SUBSET S : IsFiniteSet(s) /\ Cardinality(s) \in Nat /\ Cardinality(s) <= Cardinality(S)
    BY FS_Subset, FS_CardinalityType
  <1>2. 0 \in T
    <2> DEFINE it == [s \in SUBSET S |-> 0]
    <2>1. ASSUME NEW s \in SUBSET S, Cardinality(s) <= 0 PROVE it[s] = Added(fun, it, s)
      <3>1. s = {}
        BY <1>1, <2>1, FS_EmptySet
      <3> QED
        BY <3>1 DEF Added
    <2>2. Upto(it, 0)
      BY <2>1
    <2> QED
      BY <2>2
  <1>3. ASSUME NEW n \in T PROVE n + 1 \in T
    <2>1. n \in Nat
      OBVIOUS
    <2>2. PICK f : Upto(f, n)
      OBVIOUS
    <2> DEFINE it == [s \in SUBSET S |-> IF Cardinality(s) <= n THEN f[s] ELSE Added(fun, f, s)]
    <2>3. ASSUME NEW s \in SUBSET S, Cardinality(s) <= n + 1 PROVE it[s] = Added(fun, it, s)
      <3>1. s # {} => it[s \ {Picked(s)}] = f[s \ {Picked(s)}]
        <4> SUFFICES ASSUME s # {} PROVE it[s \ {Picked(s)}] = f[s \ {Picked(s)}]
          OBVIOUS
        <4>1. s \ {Picked(s)} \in SUBSET S /\ Cardinality(s \ {Picked(s)}) = Cardinality(s) - 1
              /\ Cardinality(s) \in Nat
          BY <1>1, PickedFirst
        <4>2. Cardinality(s \ {Picked(s)}) <= n
          BY <2>1, <2>3, <4>1
        <4> QED
          BY <4>1, <4>2
      <3>2. Added(fun, it, s) = Added(fun, f, s)
        BY <3>1 DEF Added
      <3>3. it[s] = Added(fun, f, s)
        BY <2>2
      <3> QED
        BY <3>2, <3>3
    <2>4. Upto(it, n + 1)
      <3>1. it = [s \in SUBSET S |-> it[s]]
        OBVIOUS
      <3>2. \A s \in SUBSET S : Cardinality(s) <= n + 1 => it[s] = Added(fun, it, s)
        BY <2>3
      <3> HIDE DEF it
      <3> QED
        BY <3>1, <3>2
    <2> HIDE DEF it, Upto
    <2> QED
      BY <2>1, <2>4
  <1>4. Cardinality(S) \in T
    <2>1. T \in SUBSET Nat
      OBVIOUS
    <2> HIDE DEF T
    <2> QED
      BY <1>1, <1>2, <1>3, <2>1, Inductive
  <1>5. PICK it : Upto(it, Cardinality(S))
    BY <1>4
  <1>6. it = [s \in SUBSET S |-> Added(fun, it, s)]
    BY <1>1, <1>5
  <1> QED
    BY <1>6 DEF Adds

(* What the functions for two sets say of a common subset is the same. *)
LEMMA IterSame ==
    ASSUME NEW fun, NEW gun, NEW S, NEW R, NEW f, NEW g, IsFiniteSet(S), S \subseteq R,
           Adds(fun, S, f), Adds(gun, R, g), \A x \in S : fun[x] = gun[x]
    PROVE  f[S] = g[S]
  <1> DEFINE T == {n \in Nat : \A s \in SUBSET S : Cardinality(s) = n => f[s] = g[s]}
  <1>1. \A s \in SUBSET S : /\ IsFiniteSet(s) /\ Cardinality(s) \in Nat /\ s \in SUBSET R
                            /\ f[s] = Added(fun, f, s) /\ g[s] = Added(gun, g, s)
    <2>1. \A s \in SUBSET S : IsFiniteSet(s) /\ Cardinality(s) \in Nat
      BY FS_Subset, FS_CardinalityType
    <2>2. \A s \in SUBSET S : f[s] = Added(fun, f, s)
      BY DEF Adds
    <2>3. \A s \in SUBSET R : g[s] = Added(gun, g, s)
      BY DEF Adds
    <2> QED
      BY <2>1, <2>2, <2>3
  <1>2. 0 \in T
    <2>1. ASSUME NEW s \in SUBSET S, Cardinality(s) = 0 PROVE f[s] = g[s]
      <3>1. s = {}
        BY <1>1, <2>1, FS_EmptySet
      <3> QED
        BY <1>1, <3>1 DEF Added
    <2> QED
      BY <2>1
  <1>3. ASSUME NEW n \in T PROVE n + 1 \in T
    <2>1. ASSUME NEW s \in SUBSET S, Cardinality(s) = n + 1 PROVE f[s] = g[s]
      <3>1. n \in Nat /\ s # {}
        BY <2>1, FS_EmptySet
      <3>2. Picked(s) \in S /\ s \ {Picked(s)} \in SUBSET S /\ Cardinality(s \ {Picked(s)}) = n
        BY <1>1, <2>1, <3>1, PickedFirst
      <3>3. f[s \ {Picked(s)}] = g[s \ {Picked(s)}]
        BY <3>2
      <3> QED
        BY <1>1, <3>1, <3>2, <3>3 DEF Added
    <2> QED
      BY <2>1
  <1>4. Cardinality(S) \in T
    <2>1. T \in SUBSET Nat /\ Cardinality(S) \in Nat
      BY <1>1
    <2> HIDE DEF T
    <2> QED
      BY <1>2, <1>3, <2>1, Inductive
  <1> QED
    BY <1>4

LEMMA SumIter ==
    ASSUME NEW fun, NEW S, IsFiniteSet(S)
    PROVE  \E it : Adds(fun, S, it) /\ SumFunctionOnSet(fun, S) = it[S]
  <1> DEFINE it == CHOOSE it : Adds(fun, S, it)
  <1>1. Adds(fun, S, it)
    BY IterExists
  <1>2. SumFunctionOnSet(fun, S) = it[S]
    BY DEF SumFunctionOnSet, FoldFunctionOnSet, MapThenFoldSet, Adds, Added, Picked
  <1> QED
    BY <1>1, <1>2

---------------------------------------------------------------------------
(* Sums. *)

LEMMA SumEmpty == ASSUME NEW fun PROVE SumFunctionOnSet(fun, {}) = 0
  <1>1. PICK it : Adds(fun, {}, it) /\ SumFunctionOnSet(fun, {}) = it[{}]
    BY SumIter, FS_EmptySet
  <1> QED
    BY <1>1 DEF Adds, Added

(* Only the values on the set matter. *)
LEMMA SumEqual ==
    ASSUME NEW fun, NEW gun, NEW S, IsFiniteSet(S), \A x \in S : fun[x] = gun[x]
    PROVE  SumFunctionOnSet(fun, S) = SumFunctionOnSet(gun, S)
  <1>1. PICK f : Adds(fun, S, f) /\ SumFunctionOnSet(fun, S) = f[S]
    BY SumIter
  <1>2. PICK g : Adds(gun, S, g) /\ SumFunctionOnSet(gun, S) = g[S]
    BY SumIter
  <1> QED
    BY <1>1, <1>2, IterSame

LEMMA SumPicked ==
    ASSUME NEW fun, NEW S, IsFiniteSet(S), S # {}
    PROVE  SumFunctionOnSet(fun, S) = fun[Picked(S)] + SumFunctionOnSet(fun, S \ {Picked(S)})
  <1> DEFINE R == S \ {Picked(S)}
  <1>1. PICK f : Adds(fun, S, f) /\ SumFunctionOnSet(fun, S) = f[S]
    BY SumIter
  <1>2. PICK g : Adds(fun, R, g) /\ SumFunctionOnSet(fun, R) = g[R]
    BY PickedFirst, SumIter
  <1>3. f[S] = fun[Picked(S)] + f[R]
    BY <1>1 DEF Adds, Added
  <1>4. g[R] = f[R]
    <2>1. IsFiniteSet(R) /\ R \subseteq S
      BY PickedFirst
    <2> HIDE DEF R
    <2> QED
      BY <1>1, <1>2, <2>1, IterSame
  <1> QED
    BY <1>1, <1>2, <1>3, <1>4

(* A sum stays in any set that has 0 and all sums of two of its members. *)
LEMMA SumClosed ==
    ASSUME NEW D, 0 \in D, \A x, y \in D : x + y \in D,
           NEW fun, NEW S, IsFiniteSet(S), \A x \in S : fun[x] \in D
    PROVE  SumFunctionOnSet(fun, S) \in D
  <1> DEFINE T == {n \in Nat : \A s \in SUBSET S :
                      Cardinality(s) = n => SumFunctionOnSet(fun, s) \in D}
  <1>1. \A s \in SUBSET S : IsFiniteSet(s) /\ Cardinality(s) \in Nat
    BY FS_Subset, FS_CardinalityType
  <1>2. 0 \in T
    BY <1>1, FS_EmptySet, SumEmpty
  <1>3. ASSUME NEW n \in T PROVE n + 1 \in T
    <2>0. n \in Nat
      OBVIOUS
    <2>1. ASSUME NEW s \in SUBSET S, Cardinality(s) = n + 1
          PROVE  SumFunctionOnSet(fun, s) \in D
      <3>1. s # {}
        <4>1. n + 1 # 0 /\ Cardinality({}) = 0
          BY <2>0, FS_EmptySet
        <4> HIDE DEF T
        <4> QED
          BY <2>1, <4>1
      <3>2. Picked(s) \in S /\ s \ {Picked(s)} \in SUBSET S /\ Cardinality(s \ {Picked(s)}) = n
        BY <1>1, <2>0, <2>1, <3>1, PickedFirst
      <3>3. SumFunctionOnSet(fun, s \ {Picked(s)}) \in D /\ fun[Picked(s)] \in D
        BY <3>2
      <3> QED
        BY <1>1, <3>1, <3>3, SumPicked
    <2> QED
      BY <2>0, <2>1
  <1>4. Cardinality(S) \in T
    <2>1. T \in SUBSET Nat /\ Cardinality(S) \in Nat
      BY <1>1
    <2> HIDE DEF T
    <2> QED
      BY <1>2, <1>3, <2>1, Inductive
  <1> QED
    BY <1>4

LEMMA SumType ==
    ASSUME NEW fun, NEW S, IsFiniteSet(S)
    PROVE  /\ (\A x \in S : fun[x] \in Int) => SumFunctionOnSet(fun, S) \in Int
           /\ (\A x \in S : fun[x] \in Nat) => SumFunctionOnSet(fun, S) \in Nat
  <1>1. /\ 0 \in Int /\ \A x, y \in Int : x + y \in Int
        /\ 0 \in Nat /\ \A x, y \in Nat : x + y \in Nat
    OBVIOUS
  <1>2. ASSUME \A x \in S : fun[x] \in Int PROVE SumFunctionOnSet(fun, S) \in Int
    BY <1>1, <1>2, SumClosed
  <1>3. ASSUME \A x \in S : fun[x] \in Nat PROVE SumFunctionOnSet(fun, S) \in Nat
    BY <1>1, <1>3, SumClosed
  <1> QED
    BY <1>2, <1>3

(* Any element can be the first. *)
LEMMA SumFirst ==
    ASSUME NEW fun, NEW S, IsFiniteSet(S), \A x \in S : fun[x] \in Int, NEW x \in S
    PROVE  SumFunctionOnSet(fun, S) = fun[x] + SumFunctionOnSet(fun, S \ {x})
  <1> DEFINE Sum(s) == SumFunctionOnSet(fun, s)
             T == {n \in Nat : \A s \in SUBSET S :
                      Cardinality(s) = n => \A y \in s : Sum(s) = fun[y] + Sum(s \ {y})}
  <1>1. \A s \in SUBSET S : IsFiniteSet(s) /\ Cardinality(s) \in Nat /\ Sum(s) \in Int
    <2>1. \A s \in SUBSET S : IsFiniteSet(s) /\ Cardinality(s) \in Nat
      BY FS_Subset, FS_CardinalityType
    <2> QED
      BY <2>1, SumType
  <1>2. \A s \in SUBSET S : s # {} => /\ Picked(s) \in s
                                      /\ Sum(s) = fun[Picked(s)] + Sum(s \ {Picked(s)})
    BY <1>1, SumPicked DEF Picked
  <1>3. \A s \in SUBSET S : \A y \in s : Cardinality(s \ {y}) = Cardinality(s) - 1
    BY <1>1, FS_RemoveElement
  <1> HIDE DEF Sum
  <1>4. 0 \in T
    BY <1>1, FS_EmptySet
  <1>5. ASSUME NEW n \in T PROVE n + 1 \in T
    <2>1. ASSUME NEW s \in SUBSET S, Cardinality(s) = n + 1, NEW y \in s
          PROVE  Sum(s) = fun[y] + Sum(s \ {y})
      <3> DEFINE c == Picked(s)
      <3>1. n \in Nat /\ c \in s /\ Sum(s) = fun[c] + Sum(s \ {c})
        BY <1>2, <2>1
      <3> HIDE DEF c
      <3>2. CASE c = y
        BY <3>1, <3>2
      <3>3. CASE c # y
        <4>1. /\ s \ {c} \in SUBSET S /\ s \ {y} \in SUBSET S /\ y \in s \ {c} /\ c \in s \ {y}
              /\ (s \ {c}) \ {y} = (s \ {y}) \ {c} /\ (s \ {y}) \ {c} \in SUBSET S
          BY <3>1, <3>3
        <4>2. Cardinality(s \ {c}) = n /\ Cardinality(s \ {y}) = n
          BY <1>1, <1>3, <2>1, <3>1
        <4>3. Sum(s \ {c}) = fun[y] + Sum((s \ {c}) \ {y})
          BY <4>1, <4>2
        <4>4. Sum(s \ {y}) = fun[c] + Sum((s \ {y}) \ {c})
          BY <4>1, <4>2
        <4>5. fun[y] \in Int /\ fun[c] \in Int /\ Sum((s \ {y}) \ {c}) \in Int
          BY <1>1, <3>1, <4>1
        <4>6. Sum((s \ {c}) \ {y}) = Sum((s \ {y}) \ {c})
          BY <4>1
        <4> QED
          BY <3>1, <4>3, <4>4, <4>5, <4>6
      <3> QED
        BY <3>2, <3>3
    <2> QED
      BY <2>1
  <1>6. Cardinality(S) \in T
    <2>1. T \in SUBSET Nat /\ Cardinality(S) \in Nat
      BY <1>1
    <2> HIDE DEF T
    <2> QED
      BY <1>4, <1>5, <2>1, Inductive
  <1> QED
    BY <1>6 DEF Sum

(* One value more, or one that is larger.                                   *)
LEMMA SumRaised ==
    ASSUME NEW fun, NEW gun, NEW S, IsFiniteSet(S), \A y \in S : fun[y] \in Int, NEW x \in S,
           NEW d \in Int, gun[x] = fun[x] + d, \A y \in S : y # x => gun[y] = fun[y]
    PROVE  SumFunctionOnSet(gun, S) = SumFunctionOnSet(fun, S) + d
  <1> DEFINE R == S \ {x}
  <1>1. IsFiniteSet(R) /\ \A y \in R : y \in S /\ y # x
    BY FS_RemoveElement
  <1>2. SumFunctionOnSet(fun, R) = SumFunctionOnSet(gun, R) /\ SumFunctionOnSet(fun, R) \in Int
    <2>1. \A y \in R : fun[y] = gun[y] /\ fun[y] \in Int
      BY <1>1
    <2> HIDE DEF R
    <2> QED
      BY <1>1, <2>1, SumEqual, SumType
  <1>3. SumFunctionOnSet(fun, S) = fun[x] + SumFunctionOnSet(fun, R)
    BY SumFirst
  <1>4. SumFunctionOnSet(gun, S) = gun[x] + SumFunctionOnSet(gun, R)
    <2>1. \A y \in S : gun[y] \in Int
      OBVIOUS
    <2> QED
      BY <2>1, SumFirst
  <1> HIDE DEF R
  <1> QED
    BY <1>2, <1>3, <1>4

(* Zeros do not count. *)
LEMMA SumSupport ==
    ASSUME NEW fun, NEW S, IsFiniteSet(S), \A x \in S : fun[x] \in Int, NEW Z \in SUBSET S,
           \A x \in Z : fun[x] = 0
    PROVE  SumFunctionOnSet(fun, S) = SumFunctionOnSet(fun, S \ Z)
  <1> DEFINE T == {n \in Nat : \A z \in SUBSET Z :
                      Cardinality(z) = n => SumFunctionOnSet(fun, S) = SumFunctionOnSet(fun, S \ z)}
  <1>1. IsFiniteSet(Z) /\ \A z \in SUBSET Z : IsFiniteSet(z) /\ Cardinality(z) \in Nat
    BY FS_Subset, FS_CardinalityType
  <1>2. 0 \in T
    <2>1. ASSUME NEW z \in SUBSET Z, Cardinality(z) = 0
          PROVE  SumFunctionOnSet(fun, S) = SumFunctionOnSet(fun, S \ z)
      <3>1. z = {}
        BY <1>1, <2>1, FS_EmptySet
      <3> QED
        BY <3>1
    <2> QED
      BY <2>1
  <1>3. ASSUME NEW n \in T PROVE n + 1 \in T
    <2>0. n \in Nat
      OBVIOUS
    <2>1. ASSUME NEW z \in SUBSET Z, Cardinality(z) = n + 1
          PROVE  SumFunctionOnSet(fun, S) = SumFunctionOnSet(fun, S \ z)
      <3>0. z # {}
        <4>1. n + 1 # 0 /\ Cardinality({}) = 0
          BY <2>0, FS_EmptySet
        <4> HIDE DEF T
        <4> QED
          BY <2>1, <4>1
      <3>1. PICK x \in z : TRUE
        BY <3>0
      <3> DEFINE R == S \ (z \ {x})
      <3>2. z \ {x} \in SUBSET Z /\ Cardinality(z \ {x}) = n
        <4>1. IsFiniteSet(z) /\ Cardinality(z) \in Nat /\ n \in Nat
          BY <1>1, <2>0
        <4>2. Cardinality(z \ {x}) = Cardinality(z) - 1
          BY <3>1, <4>1, FS_RemoveElement
        <4> QED
          BY <2>1, <4>1, <4>2
      <3>3. SumFunctionOnSet(fun, S) = SumFunctionOnSet(fun, R)
        BY <3>2
      <3>4. x \in R /\ R \ {x} = S \ z /\ fun[x] = 0
        OBVIOUS
      <3>5. IsFiniteSet(R) /\ IsFiniteSet(S \ z) /\ \A y \in R : y \in S
        <4>1. R \subseteq S /\ S \ z \subseteq S
          OBVIOUS
        <4> QED
          BY <4>1, FS_Subset
      <3>6. SumFunctionOnSet(fun, S \ z) \in Int
        BY <3>5, SumType
      <3> HIDE DEF R
      <3>7. SumFunctionOnSet(fun, R) = fun[x] + SumFunctionOnSet(fun, R \ {x})
        BY <3>4, <3>5, SumFirst
      <3> QED
        BY <3>3, <3>4, <3>6, <3>7
    <2> QED
      BY <2>0, <2>1
  <1>4. Cardinality(Z) \in T
    <2>1. T \in SUBSET Nat /\ Cardinality(Z) \in Nat
      BY <1>1
    <2> HIDE DEF T
    <2> QED
      BY <1>2, <1>3, <2>1, Inductive
  <1> QED
    BY <1>4

(* The names of the terms do not matter: p maps S one to one onto R. *)
LEMMA SumRenamed ==
    ASSUME NEW fun, NEW gun, NEW S, NEW R, IsFiniteSet(S), NEW p \in [S -> R],
           \A x, y \in S : p[x] = p[y] => x = y, \A z \in R : \E x \in S : z = p[x],
           \A x \in S : fun[x] \in Int /\ gun[p[x]] = fun[x]
    PROVE  SumFunctionOnSet(gun, R) = SumFunctionOnSet(fun, S)
  <1> DEFINE Image(s) == {p[x] : x \in s}
             T == {n \in Nat : \A s \in SUBSET S : Cardinality(s) = n =>
                      IsFiniteSet(Image(s)) /\ SumFunctionOnSet(gun, Image(s)) = SumFunctionOnSet(fun, s)}
  <1>1. \A s \in SUBSET S : IsFiniteSet(s) /\ Cardinality(s) \in Nat
    BY FS_Subset, FS_CardinalityType
  <1>2. 0 \in T
    <2>1. ASSUME NEW s \in SUBSET S, Cardinality(s) = 0
          PROVE  IsFiniteSet(Image(s)) /\ SumFunctionOnSet(gun, Image(s)) = SumFunctionOnSet(fun, s)
      <3>1. s = {}
        BY <1>1, <2>1, FS_EmptySet
      <3>2. Image(s) = {}
        BY <3>1
      <3> HIDE DEF Image
      <3> QED
        BY <3>1, <3>2, FS_EmptySet, SumEmpty
    <2> HIDE DEF Image
    <2> QED
      BY <2>1
  <1>3. ASSUME NEW n \in T PROVE n + 1 \in T
    <2>0. n \in Nat
      OBVIOUS
    <2>1. ASSUME NEW s \in SUBSET S, Cardinality(s) = n + 1
          PROVE  IsFiniteSet(Image(s)) /\ SumFunctionOnSet(gun, Image(s)) = SumFunctionOnSet(fun, s)
      <3>1. s # {}
        <4>1. n + 1 # 0 /\ Cardinality({}) = 0
          BY <2>0, FS_EmptySet
        <4> HIDE DEF T
        <4> QED
          BY <2>1, <4>1
      <3>2. PICK x \in s : TRUE
        BY <3>1
      <3> DEFINE r == s \ {x}
      <3>3. IsFiniteSet(s) /\ Cardinality(r) = n /\ r \in SUBSET S /\ x \in S
        <4>1. IsFiniteSet(s) /\ Cardinality(s) \in Nat
          BY <1>1
        <4>2. Cardinality(r) = Cardinality(s) - 1
          BY <3>2, <4>1, FS_RemoveElement
        <4> QED
          BY <2>0, <2>1, <4>1, <4>2
      <3>4. IsFiniteSet(Image(r)) /\ SumFunctionOnSet(gun, Image(r)) = SumFunctionOnSet(fun, r)
        BY <3>3
      <3>5. Image(s) = Image(r) \cup {p[x]} /\ Image(s) \ {p[x]} = Image(r) /\ p[x] \in Image(s)
        BY <3>2, <3>3
      <3>6. \A z \in Image(s) : gun[z] \in Int
        OBVIOUS
      <3>7. SumFunctionOnSet(fun, s) = fun[x] + SumFunctionOnSet(fun, r)
        <4>1. \A y \in s : fun[y] \in Int
          OBVIOUS
        <4> QED
          BY <3>2, <3>3, <4>1, SumFirst
      <3> HIDE DEF Image, r
      <3>8. IsFiniteSet(Image(s))
        BY <3>4, <3>5, FS_AddElement
      <3>9. SumFunctionOnSet(gun, Image(s)) = gun[p[x]] + SumFunctionOnSet(gun, Image(r))
        BY <3>5, <3>6, <3>8, SumFirst
      <3> QED
        BY <3>3, <3>4, <3>7, <3>8, <3>9
    <2> HIDE DEF Image
    <2> QED
      BY <2>0, <2>1
  <1>4. Cardinality(S) \in T
    <2>1. T \in SUBSET Nat /\ Cardinality(S) \in Nat
      BY <1>1
    <2> HIDE DEF T
    <2> QED
      BY <1>2, <1>3, <2>1, Inductive
  <1>5. Image(S) = R
    OBVIOUS
  <1>6. SumFunctionOnSet(gun, Image(S)) = SumFunctionOnSet(fun, S)
    <2> HIDE DEF Image
    <2> QED
      BY <1>4
  <1> HIDE DEF Image
  <1> QED
    BY <1>5, <1>6

(* A sum over two disjoint sets is the sum of two sums. *)
LEMMA SumUnion ==
    ASSUME NEW fun, NEW S, NEW R, IsFiniteSet(S), IsFiniteSet(R), S \cap R = {},
           \A x \in S \cup R : fun[x] \in Int
    PROVE  SumFunctionOnSet(fun, S \cup R) = SumFunctionOnSet(fun, S) + SumFunctionOnSet(fun, R)
  <1> DEFINE Sum(s) == SumFunctionOnSet(fun, s)
             T == {n \in Nat : \A s \in SUBSET R :
                      Cardinality(s) = n => Sum(S \cup s) = Sum(S) + Sum(s)}
  <1>1. \A s \in SUBSET R : IsFiniteSet(s) /\ Cardinality(s) \in Nat /\ IsFiniteSet(S \cup s)
    BY FS_Subset, FS_CardinalityType, FS_Union
  <1>2. Sum(S) \in Int /\ Sum({}) = 0
    <2>1. \A x \in S : fun[x] \in Int
      OBVIOUS
    <2> QED
      BY <2>1, SumType, SumEmpty
  <1>3. 0 \in T
    <2>1. ASSUME NEW s \in SUBSET R, Cardinality(s) = 0 PROVE Sum(S \cup s) = Sum(S) + Sum(s)
      <3>1. s = {} /\ S \cup s = S
        BY <1>1, <2>1, FS_EmptySet
      <3> HIDE DEF Sum
      <3> QED
        BY <1>2, <3>1
    <2> HIDE DEF Sum
    <2> QED
      BY <2>1
  <1>4. ASSUME NEW n \in T PROVE n + 1 \in T
    <2>0. n \in Nat
      OBVIOUS
    <2>1. ASSUME NEW s \in SUBSET R, Cardinality(s) = n + 1
          PROVE  Sum(S \cup s) = Sum(S) + Sum(s)
      <3>1. s # {}
        <4>1. n + 1 # 0 /\ Cardinality({}) = 0
          BY <2>0, FS_EmptySet
        <4> HIDE DEF T
        <4> QED
          BY <2>1, <4>1
      <3>2. PICK x \in s : TRUE
        BY <3>1
      <3> DEFINE r == s \ {x}
      <3>3. IsFiniteSet(s) /\ Cardinality(r) = n /\ r \in SUBSET R /\ IsFiniteSet(r)
        <4>1. IsFiniteSet(s) /\ Cardinality(s) \in Nat
          BY <1>1
        <4>2. Cardinality(r) = Cardinality(s) - 1 /\ IsFiniteSet(r)
          BY <3>2, <4>1, FS_RemoveElement
        <4> QED
          BY <2>0, <2>1, <4>1, <4>2
      <3>4. Sum(S \cup r) = Sum(S) + Sum(r)
        <4> HIDE DEF r, Sum
        <4> QED
          BY <3>3
      <3>5. /\ (S \cup s) \ {x} = S \cup r /\ x \in S \cup s
            /\ \A y \in S \cup s : fun[y] \in Int
            /\ \A y \in s : fun[y] \in Int
            /\ \A y \in r : fun[y] \in Int
        BY <3>2
      <3>6. Sum(S \cup s) = fun[x] + Sum(S \cup r)
        <4>1. IsFiniteSet(S \cup s)
          BY <1>1
        <4> HIDE DEF r
        <4> QED
          BY <3>5, <4>1, SumFirst
      <3>7. Sum(s) = fun[x] + Sum(r)
        BY <3>2, <3>3, <3>5, SumFirst
      <3>8. Sum(r) \in Int /\ fun[x] \in Int
        BY <3>2, <3>3, <3>5, SumType
      <3> HIDE DEF Sum, r
      <3> QED
        BY <1>2, <3>4, <3>6, <3>7, <3>8
    <2> HIDE DEF Sum
    <2> QED
      BY <2>0, <2>1
  <1>5. Cardinality(R) \in T
    <2>1. T \in SUBSET Nat /\ Cardinality(R) \in Nat
      BY <1>1
    <2> HIDE DEF T
    <2> QED
      BY <1>3, <1>4, <2>1, Inductive
  <1> QED
    BY <1>5

(* A sum can be taken group by group: the groups are the sets of terms with *)
(* the same key.                                                            *)
LEMMA SumGrouped ==
    ASSUME NEW fun, NEW I, IsFiniteSet(I), \A i \in I : fun[i] \in Int, NEW key, NEW K, IsFiniteSet(K)
    PROVE  SumFunctionOnSet([k \in K |-> SumFunctionOnSet(fun, {i \in I : key[i] = k})], K)
              = SumFunctionOnSet(fun, {i \in I : key[i] \in K})
  <1> DEFINE Group(k) == {i \in I : key[i] = k}
             In(s) == {i \in I : key[i] \in s}
             gun == [k \in K |-> SumFunctionOnSet(fun, Group(k))]
             T == {n \in Nat : \A s \in SUBSET K : Cardinality(s) = n =>
                      SumFunctionOnSet(gun, s) = SumFunctionOnSet(fun, In(s))}
  <1>1. \A s \in SUBSET K : IsFiniteSet(s) /\ Cardinality(s) \in Nat
    BY FS_Subset, FS_CardinalityType
  <1>2. \A s \in SUBSET I : IsFiniteSet(s) /\ SumFunctionOnSet(fun, s) \in Int
    <2>1. \A s \in SUBSET I : IsFiniteSet(s) /\ \A i \in s : fun[i] \in Int
      BY FS_Subset
    <2> QED
      BY <2>1, SumType
  <1>3. \A k \in K : gun[k] = SumFunctionOnSet(fun, Group(k)) /\ gun[k] \in Int
    <2>1. \A k \in K : Group(k) \in SUBSET I
      OBVIOUS
    <2>2. \A k \in K : gun[k] = SumFunctionOnSet(fun, Group(k))
      OBVIOUS
    <2> HIDE DEF Group, gun
    <2> QED
      BY <1>2, <2>1, <2>2
  <1> HIDE DEF gun
  <1>4. 0 \in T
    <2>1. ASSUME NEW s \in SUBSET K, Cardinality(s) = 0
          PROVE  SumFunctionOnSet(gun, s) = SumFunctionOnSet(fun, In(s))
      <3>1. s = {}
        BY <1>1, <2>1, FS_EmptySet
      <3>2. In(s) = {}
        BY <3>1
      <3> HIDE DEF In
      <3> QED
        BY <3>1, <3>2, SumEmpty
    <2> HIDE DEF In
    <2> QED
      BY <2>1
  <1>5. ASSUME NEW n \in T PROVE n + 1 \in T
    <2>0. n \in Nat
      OBVIOUS
    <2>1. ASSUME NEW s \in SUBSET K, Cardinality(s) = n + 1
          PROVE  SumFunctionOnSet(gun, s) = SumFunctionOnSet(fun, In(s))
      <3>1. s # {}
        <4>1. n + 1 # 0 /\ Cardinality({}) = 0
          BY <2>0, FS_EmptySet
        <4> HIDE DEF T
        <4> QED
          BY <2>1, <4>1
      <3>2. PICK x \in s : TRUE
        BY <3>1
      <3> DEFINE r == s \ {x}
      <3>3. IsFiniteSet(s) /\ Cardinality(r) = n /\ r \in SUBSET K /\ x \in K
        <4>1. IsFiniteSet(s) /\ Cardinality(s) \in Nat
          BY <1>1
        <4>2. Cardinality(r) = Cardinality(s) - 1
          BY <3>2, <4>1, FS_RemoveElement
        <4> QED
          BY <2>0, <2>1, <3>2, <4>1, <4>2
      <3>4. SumFunctionOnSet(gun, r) = SumFunctionOnSet(fun, In(r))
        <4> HIDE DEF r, In
        <4> QED
          BY <3>3
      <3>5. SumFunctionOnSet(gun, s) = gun[x] + SumFunctionOnSet(gun, r)
        <4>1. \A k \in s : gun[k] \in Int
          BY <1>3
        <4> QED
          BY <3>2, <3>3, <4>1, SumFirst
      <3>6. /\ In(s) = In(r) \cup Group(x) /\ In(r) \cap Group(x) = {}
            /\ In(r) \in SUBSET I /\ Group(x) \in SUBSET I
            /\ \A i \in In(r) \cup Group(x) : fun[i] \in Int
        BY <3>2
      <3> HIDE DEF In, Group, r
      <3>7. SumFunctionOnSet(fun, In(r) \cup Group(x))
               = SumFunctionOnSet(fun, In(r)) + SumFunctionOnSet(fun, Group(x))
        BY <1>2, <3>6, SumUnion
      <3>8. gun[x] = SumFunctionOnSet(fun, Group(x))
        BY <1>3, <3>3
      <3>9. SumFunctionOnSet(fun, In(r)) \in Int /\ SumFunctionOnSet(fun, Group(x)) \in Int
        BY <1>2, <3>6
      <3> QED
        BY <3>4, <3>5, <3>6, <3>7, <3>8, <3>9
    <2> HIDE DEF In
    <2> QED
      BY <2>0, <2>1
  <1>6. Cardinality(K) \in T
    <2>1. T \in SUBSET Nat /\ Cardinality(K) \in Nat
      BY <1>1
    <2> HIDE DEF T
    <2> QED
      BY <1>4, <1>5, <2>1, Inductive
  <1>7. SumFunctionOnSet(gun, K) = SumFunctionOnSet(fun, In(K))
    <2> HIDE DEF In
    <2> QED
      BY <1>6
  <1> QED
    BY <1>7 DEF gun
=============================================================================
