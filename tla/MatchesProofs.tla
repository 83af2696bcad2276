---------------------------- MODULE MatchesProofs ----------------------------
(***************************************************************************)
(* The list of matches.c keeps its counters, and it implements the history  *)
(* of scores that Jail keeps, for every list, score and time.               *)
(***************************************************************************)
EXTENDS Matches, SumProofs, SequenceTheorems

USE MatchesAssumption

---------------------------------------------------------------------------
(* Expiry, for a sequence l and a time b. *)

After(l, b, f, i) ==
    IF i = 0 THEN <<>>
    ELSE IF l[i].time > b THEN Append(f[i - 1], l[i])
    ELSE f[i - 1]
Filters(l, b, f) == f = [i \in 0 .. Len(l) |-> After(l, b, f, i)]

(* s is made of the matches of l[1 .. n] younger than b: q says which.      *)
Chosen(l, b, n, s, q) ==
    /\ q \in [1 .. Len(s) -> 1 .. n]
    /\ \A j, k \in 1 .. Len(s) : j < k => q[j] < q[k]
    /\ \A j \in 1 .. Len(s) : s[j] = l[q[j]] /\ l[q[j]].time > b
    /\ \A i \in 1 .. n : l[i].time > b => \E j \in 1 .. Len(s) : q[j] = i

(* The recursive function of Kept exists: it is made up to i, then i + 1.   *)
LEMMA FilterExists ==
    ASSUME NEW l, Len(l) \in Nat, NEW b
    PROVE  \E f : Filters(l, b, f)
  <1> DEFINE Upto(f, n) ==
                /\ f = [i \in 0 .. Len(l) |-> f[i]]
                /\ \A i \in 0 .. Len(l) : i <= n => f[i] = After(l, b, f, i)
             T == {n \in Nat : \E f : Upto(f, n)}
  <1>1. 0 \in T
    <2> DEFINE f == [i \in 0 .. Len(l) |-> <<>>]
    <2>1. ASSUME NEW i \in 0 .. Len(l), i <= 0 PROVE f[i] = After(l, b, f, i)
      <3>1. i = 0
        BY <2>1
      <3> QED
        BY <3>1 DEF After
    <2>2. Upto(f, 0)
      BY <2>1
    <2> QED
      BY <2>2
  <1>2. ASSUME NEW n \in T PROVE n + 1 \in T
    <2>1. n \in Nat
      OBVIOUS
    <2>2. PICK g : Upto(g, n)
      OBVIOUS
    <2> DEFINE f == [i \in 0 .. Len(l) |-> IF i <= n THEN g[i] ELSE After(l, b, g, i)]
    <2>3. ASSUME NEW i \in 0 .. Len(l), i <= n + 1 PROVE f[i] = After(l, b, f, i)
      <3>1. i # 0 => i - 1 \in 0 .. Len(l) /\ i - 1 <= n /\ f[i - 1] = g[i - 1]
        BY <2>1, <2>3
      <3>2. After(l, b, f, i) = After(l, b, g, i)
        BY <3>1 DEF After
      <3>3. f[i] = After(l, b, g, i)
        BY <2>2
      <3> QED
        BY <3>2, <3>3
    <2>4. f = [i \in 0 .. Len(l) |-> f[i]]
      OBVIOUS
    <2>5. Upto(f, n + 1)
      BY <2>3, <2>4
    <2> HIDE DEF f
    <2> QED
      BY <2>1, <2>5
  <1>3. Len(l) \in T
    <2>1. T \in SUBSET Nat
      OBVIOUS
    <2> HIDE DEF T
    <2> QED
      BY <1>1, <1>2, <2>1, Inductive
  <1>4. PICK f : Upto(f, Len(l))
    BY <1>3
  <1>5. \A i \in 0 .. Len(l) : f[i] = After(l, b, f, i)
    BY <1>4
  <1>6. f = [i \in 0 .. Len(l) |-> After(l, b, f, i)]
    BY <1>4, <1>5
  <1> QED
    BY <1>6 DEF Filters

(* What is left of a list are its young matches, in their order.            *)
LEMMA FilterChooses ==
    ASSUME NEW S, NEW l \in Seq(S), NEW b, NEW f, Filters(l, b, f)
    PROVE  f[Len(l)] \in Seq(S) /\ \E q : Chosen(l, b, Len(l), f[Len(l)], q)
  <1> DEFINE T == {n \in Nat : n <= Len(l) =>
                     f[n] \in Seq(S) /\ \E q : Chosen(l, b, n, f[n], q)}
  <1>1. /\ Len(l) \in Nat /\ \A i \in 1 .. Len(l) : l[i] \in S
        /\ \A i \in 0 .. Len(l) : f[i] = After(l, b, f, i)
    BY DEF Filters
  <1>2. 0 \in T
    <2>1. f[0] = <<>>
      BY <1>1 DEF After
    <2>2. <<>> \in Seq(S) /\ Len(<<>>) = 0
      OBVIOUS
    <2>3. Chosen(l, b, 0, <<>>, [j \in 1 .. 0 |-> 1])
      BY <2>2 DEF Chosen
    <2> QED
      BY <2>1, <2>2, <2>3
  <1>3. ASSUME NEW n \in T PROVE n + 1 \in T
    <2> SUFFICES ASSUME n + 1 <= Len(l)
                 PROVE  f[n + 1] \in Seq(S) /\ \E q : Chosen(l, b, n + 1, f[n + 1], q)
      OBVIOUS
    <2> DEFINE s == f[n]
               e == l[n + 1]
    <2>1. n \in Nat /\ n <= Len(l) /\ n + 1 \in 1 .. Len(l) /\ n + 1 \in 0 .. Len(l)
          /\ n + 1 # 0 /\ n + 1 - 1 = n
      BY <1>1
    <2>2. s \in Seq(S) /\ e \in S
      BY <1>1, <2>1
    <2>3. PICK q : Chosen(l, b, n, s, q)
      BY <2>1
    <2>4. f[n + 1] = After(l, b, f, n + 1)
      BY <1>1, <2>1
    <2>5. f[n + 1] = IF e.time > b THEN Append(s, e) ELSE s
      BY <2>1, <2>4 DEF After
    <2> HIDE DEF T, s, e
    <2>6. CASE e.time > b
      <3> DEFINE t == Append(s, e)
                 r == [j \in 1 .. Len(t) |-> IF j = Len(t) THEN n + 1 ELSE q[j]]
      <3>1. /\ t \in Seq(S) /\ Len(s) \in Nat /\ Len(t) = Len(s) + 1
            /\ \A i \in 1 .. Len(s) : t[i] = s[i]
            /\ t[Len(t)] = e
        BY <2>2, AppendProperties
      <3> HIDE DEF t
      <3>2. \A j \in 1 .. Len(s) : r[j] = q[j] /\ q[j] \in 1 .. n /\ j \in 1 .. Len(t)
        BY <2>3, <3>1 DEF Chosen
      <3>3. r[Len(t)] = n + 1 /\ Len(t) \in 1 .. Len(t)
        BY <3>1
      <3>4. \A j \in 1 .. Len(t) : j = Len(t) \/ j \in 1 .. Len(s)
        BY <3>1
      <3>5. r \in [1 .. Len(t) -> 1 .. n + 1]
        BY <2>1, <2>3, <3>1 DEF Chosen
      <3> HIDE DEF r
      <3>6. ASSUME NEW j \in 1 .. Len(t), NEW k \in 1 .. Len(t), j < k PROVE r[j] < r[k]
        <4>1. j \in 1 .. Len(s)
          BY <3>1, <3>6
        <4>2. CASE k = Len(t)
          BY <2>1, <3>2, <3>3, <4>1, <4>2
        <4>3. CASE k \in 1 .. Len(s)
          BY <2>3, <3>2, <3>6, <4>1, <4>3 DEF Chosen
        <4> QED
          BY <3>4, <4>2, <4>3
      <3>7. ASSUME NEW j \in 1 .. Len(t) PROVE t[j] = l[r[j]] /\ l[r[j]].time > b
        <4>1. CASE j = Len(t)
          BY <2>6, <3>1, <3>3, <4>1 DEF e
        <4>2. CASE j \in 1 .. Len(s)
          BY <2>3, <3>1, <3>2, <4>2 DEF Chosen
        <4> QED
          BY <3>4, <4>1, <4>2
      <3>8. ASSUME NEW i \in 1 .. n + 1, l[i].time > b PROVE \E j \in 1 .. Len(t) : r[j] = i
        <4>1. CASE i = n + 1
          BY <3>3, <4>1
        <4>2. CASE i \in 1 .. n
          BY <2>3, <3>2, <3>8, <4>2 DEF Chosen
        <4> QED
          BY <2>1, <4>1, <4>2
      <3>9. Chosen(l, b, n + 1, t, r)
        BY <3>5, <3>6, <3>7, <3>8 DEF Chosen
      <3> QED
        BY <2>5, <2>6, <3>1, <3>9 DEF t
    <2>7. CASE ~(e.time > b)
      <3>1. q \in [1 .. Len(s) -> 1 .. n + 1]
        BY <2>1, <2>3 DEF Chosen
      <3>2. ASSUME NEW i \in 1 .. n + 1, l[i].time > b PROVE \E j \in 1 .. Len(s) : q[j] = i
        <4>1. i # n + 1
          BY <2>7, <3>2 DEF e
        <4>2. i \in 1 .. n
          BY <2>1, <4>1
        <4> QED
          BY <2>3, <3>2, <4>2 DEF Chosen
      <3>3. Chosen(l, b, n + 1, s, q)
        BY <2>3, <3>1, <3>2 DEF Chosen
      <3> QED
        BY <2>2, <2>5, <2>7, <3>3
    <2> QED
      BY <2>6, <2>7
  <1>4. Len(l) \in T
    <2>1. T \in SUBSET Nat
      OBVIOUS
    <2> HIDE DEF T
    <2> QED
      BY <1>1, <1>2, <1>3, <2>1, Inductive
  <1> QED
    BY <1>1, <1>4

---------------------------------------------------------------------------
(* The score, for a sequence l and a time a. *)

Sorted(l) == \A i, j \in DOMAIN l : i < j => l[i].time >= l[j].time

Scored(l) == [i \in DOMAIN l |-> l[i].score]
Young(l, a, i) == {j \in i .. Len(l) : l[j].time >= a}

Adding(l, a, f, i) ==
    IF i > Len(l) THEN 0
    ELSE IF a > l[i].time THEN 0
    ELSE l[i].score + f[i + 1]
Walks(l, a, f) == f = [i \in 1 .. Len(l) + 1 |-> Adding(l, a, f, i)]

LEMMA MatchFields ==
    ASSUME NEW l \in Seq(Match)
    PROVE  /\ Len(l) \in Nat /\ DOMAIN l = 1 .. Len(l)
           /\ \A i \in 1 .. Len(l) : l[i] \in Match /\ l[i].time \in Int /\ l[i].score \in Int
           /\ \A i \in 1 .. Len(l) : T0 <= l[i].time /\ l[i].time <= MaxTime /\ l[i].time \in H!Time
  <1>1. Len(l) \in Nat /\ DOMAIN l = 1 .. Len(l) /\ \A i \in 1 .. Len(l) : l[i] \in Match
    OBVIOUS
  <1>2. \A m \in Match : m.time \in H!Time /\ m.score \in Scores
    BY DEF Match
  <1>3. \A t \in H!Time : t \in Int /\ T0 <= t /\ t <= MaxTime
    BY DEF H!Time
  <1>4. \A i \in 1 .. Len(l) : l[i].time \in H!Time /\ l[i].score \in Nat
    BY <1>1, <1>2
  <1> QED
    BY <1>1, <1>3, <1>4

(* The walk from match i to the first old one adds every young score there  *)
(* is from i on, because the list is sorted.                                *)
LEMMA WalkAdds ==
    ASSUME NEW l \in Seq(Match), Sorted(l), NEW a \in Int
    PROVE  Walks(l, a, [i \in 1 .. Len(l) + 1 |-> SumFunctionOnSet(Scored(l), Young(l, a, i))])
  <1> DEFINE Y(i) == Young(l, a, i)
             Sum(i) == SumFunctionOnSet(Scored(l), Y(i))
             w == [i \in 1 .. Len(l) + 1 |-> Sum(i)]
  <1>1. /\ Len(l) \in Nat /\ DOMAIN l = 1 .. Len(l)
        /\ \A i \in 1 .. Len(l) : l[i].time \in Int /\ l[i].score \in Int
    BY MatchFields
  <1>2. \A i \in 1 .. Len(l) : Scored(l)[i] = l[i].score /\ Scored(l)[i] \in Int
    BY <1>1 DEF Scored
  <1>3. ASSUME NEW i \in 1 .. Len(l) + 1 PROVE Sum(i) = Adding(l, a, w, i)
    <2>1. CASE i > Len(l)
      <3>1. Y(i) = {}
        BY <1>1, <2>1 DEF Young
      <3>2. Sum(i) = 0
        BY <3>1, SumEmpty
      <3> QED
        BY <2>1, <3>2 DEF Adding
    <2>2. ASSUME i <= Len(l), a > l[i].time PROVE Sum(i) = Adding(l, a, w, i)
      <3>1. i \in 1 .. Len(l)
        BY <1>1, <2>2
      <3>2. ASSUME NEW j \in Y(i) PROVE FALSE
        <4>1. j \in 1 .. Len(l) /\ i <= j /\ l[j].time >= a
          BY <1>1, <3>1 DEF Young
        <4>2. i = j \/ i < j
          BY <1>1, <3>1, <4>1
        <4>3. i < j => l[i].time >= l[j].time
          BY <1>1, <3>1, <4>1 DEF Sorted
        <4> QED
          BY <1>1, <2>2, <3>1, <4>1, <4>2, <4>3
      <3>3. Y(i) = {}
        BY <3>2
      <3>4. Sum(i) = 0
        BY <3>3, SumEmpty
      <3> QED
        BY <1>1, <2>2, <3>4 DEF Adding
    <2>3. ASSUME i <= Len(l), ~(a > l[i].time) PROVE Sum(i) = Adding(l, a, w, i)
      <3>1. i \in 1 .. Len(l) /\ i + 1 \in 1 .. Len(l) + 1 /\ ~(i > Len(l))
        BY <1>1, <2>3
      <3>2. i \in Y(i)
        BY <1>1, <2>3, <3>1 DEF Young
      <3>3. Y(i) \ {i} = Y(i + 1)
        BY <1>1, <3>1 DEF Young
      <3>4. Y(i) \subseteq 1 .. Len(l)
        BY <1>1, <3>1 DEF Young
      <3>5. IsFiniteSet(Y(i))
        <4>1. IsFiniteSet(1 .. Len(l))
          BY <1>1, FS_Interval
        <4> HIDE DEF Y
        <4> QED
          BY <3>4, <4>1, FS_Subset
      <3> HIDE DEF Y
      <3>6. \A j \in Y(i) : Scored(l)[j] \in Int
        BY <1>2, <3>4
      <3>7. Sum(i) = Scored(l)[i] + SumFunctionOnSet(Scored(l), Y(i) \ {i})
        BY <3>2, <3>5, <3>6, SumFirst
      <3>8. Sum(i) = l[i].score + Sum(i + 1)
        BY <1>2, <3>1, <3>3, <3>7
      <3>9. w[i + 1] = Sum(i + 1)
        BY <3>1
      <3> QED
        BY <2>3, <3>1, <3>8, <3>9 DEF Adding
    <2> QED
      BY <1>1, <2>1, <2>2, <2>3
  <1>4. w = [i \in 1 .. Len(l) + 1 |-> Adding(l, a, w, i)]
    BY <1>3
  <1> QED
    BY <1>4 DEF Walks

(* The recursive function of Score is unique. *)
LEMMA WalkUnique ==
    ASSUME NEW l, Len(l) \in Nat, NEW a, NEW f, Walks(l, a, f), NEW g, Walks(l, a, g)
    PROVE  f[1] = g[1]
  <1> DEFINE T == {n \in Nat : \A i \in 1 .. Len(l) + 1 : i + n = Len(l) + 1 => f[i] = g[i]}
  <1>1. \A i \in 1 .. Len(l) + 1 : f[i] = Adding(l, a, f, i) /\ g[i] = Adding(l, a, g, i)
    BY DEF Walks
  <1>2. 0 \in T
    BY <1>1 DEF Adding
  <1>3. ASSUME NEW n \in T PROVE n + 1 \in T
    <2>1. ASSUME NEW i \in 1 .. Len(l) + 1, i + (n + 1) = Len(l) + 1 PROVE f[i] = g[i]
      <3>1. n \in Nat /\ i + 1 \in 1 .. Len(l) + 1 /\ (i + 1) + n = Len(l) + 1
        BY <2>1
      <3>2. f[i + 1] = g[i + 1]
        BY <3>1
      <3> QED
        BY <1>1, <3>2 DEF Adding
    <2> QED
      BY <2>1
  <1>4. Len(l) \in T
    <2>1. T \in SUBSET Nat
      OBVIOUS
    <2> HIDE DEF T
    <2> QED
      BY <1>2, <1>3, <2>1, Inductive
  <1> QED
    BY <1>4

---------------------------------------------------------------------------
(* The inductive invariant: the list is sorted and no match is from the     *)
(* future, so that prepending one keeps it sorted, and the counters agree.  *)

NotLater == \A i \in DOMAIN list : list[i].time <= clock

ListInv ==
    /\ clock \in H!Time
    /\ list \in Seq(Match)
    /\ Sorted(list)
    /\ NotLater
    /\ CountersAgree

LEMMA ListInit == Init => ListInv
  <1> SUFFICES ASSUME Init PROVE ListInv
    OBVIOUS
  <1>1. clock \in H!Time
    BY DEF Init, H!Time
  <1>2. list = <<>> /\ list \in Seq(Match) /\ DOMAIN list = {} /\ Len(list) = 0
    BY DEF Init
  <1>3. CountersAgree
    BY <1>2 DEF Init, CountersAgree
  <1> QED
    BY <1>1, <1>2, <1>3 DEF ListInv, Sorted, NotLater

LEMMA KeptChooses ==
    ASSUME list \in Seq(Match), NEW b
    PROVE  Kept(b) \in Seq(Match) /\ \E q : Chosen(list, b, Len(list), Kept(b), q)
  <1> DEFINE f == CHOOSE f : Filters(list, b, f)
  <1>1. Filters(list, b, f)
    BY MatchFields, FilterExists
  <1>2. Kept(b) = f[Len(list)]
    BY DEF Kept, Filters, After
  <1> HIDE DEF f
  <1> QED
    BY <1>1, <1>2, FilterChooses

LEMMA PrependShifts ==
    ASSUME ListInv, NEW s \in Scores, Prepend(s)
    PROVE  /\ list' \in Seq(Match) /\ Len(list') = Len(list) + 1
           /\ list'[1] = [time |-> clock, score |-> s]
           /\ \A i \in 1 .. Len(list) : list'[i + 1] = list[i]
           /\ \A i \in 1 .. Len(list') : i = 1 \/ (i - 1 \in 1 .. Len(list) /\ list'[i] = list[i - 1])
  <1> DEFINE m == [time |-> clock, score |-> s]
  <1>1. m \in Match /\ list \in Seq(Match) /\ list' = <<m>> \o list
    BY DEF ListInv, Match, Prepend
  <1> HIDE DEF m
  <1>2. <<m>> \in Seq(Match) /\ Len(<<m>>) = 1 /\ <<m>>[1] = m /\ Len(list) \in Nat
    BY <1>1
  <1>3. /\ list' \in Seq(Match) /\ Len(list') = 1 + Len(list)
        /\ \A i \in 1 .. 1 + Len(list) : list'[i] = IF i <= 1 THEN <<m>>[i] ELSE list[i - 1]
    BY <1>1, <1>2, ConcatProperties
  <1>4. list'[1] = m
    BY <1>2, <1>3
  <1>5. \A i \in 1 .. Len(list) : list'[i + 1] = list[i]
    BY <1>2, <1>3
  <1>6. \A i \in 1 .. Len(list') : i = 1 \/ (i - 1 \in 1 .. Len(list) /\ list'[i] = list[i - 1])
    BY <1>2, <1>3
  <1> QED
    BY <1>2, <1>3, <1>4, <1>5, <1>6 DEF m

LEMMA ListStep == ListInv /\ [Next]_vars => ListInv'
  <1> SUFFICES ASSUME ListInv, [Next]_vars PROVE ListInv'
    OBVIOUS
  <1>1. /\ Len(list) \in Nat /\ DOMAIN list = 1 .. Len(list) /\ list \in Seq(Match)
        /\ clock \in Int /\ T0 <= clock /\ clock <= MaxTime /\ 0 < clock
        /\ \A i \in 1 .. Len(list) : list[i].time \in Int
    BY MatchFields DEF ListInv, H!Time
  <1>2. CASE Tick
    <2>1. clock' \in H!Time /\ clock < clock' /\ clock' \in Int
      BY <1>1, <1>2 DEF Tick, H!Time
    <2>2. list' = list /\ count' = count /\ last' = last
      BY <1>2 DEF Tick
    <2>3. NotLater'
      BY <1>1, <2>1, <2>2 DEF ListInv, NotLater
    <2> QED
      BY <2>1, <2>2, <2>3 DEF ListInv, Sorted, CountersAgree
  <1>3. ASSUME NEW s \in Scores, Prepend(s) PROVE ListInv'
    <2>1. clock' = clock /\ count' = count + 1 /\ last' = IF clock > last THEN clock ELSE last
      BY <1>3 DEF Prepend
    <2>2. /\ list' \in Seq(Match) /\ Len(list') = Len(list) + 1 /\ DOMAIN list' = 1 .. Len(list')
          /\ list'[1].time = clock
          /\ \A i \in 1 .. Len(list') :
                i = 1 \/ (i - 1 \in 1 .. Len(list) /\ list'[i].time = list[i - 1].time)
      <3>1. /\ list' \in Seq(Match) /\ Len(list') = Len(list) + 1
            /\ list'[1] = [time |-> clock, score |-> s]
            /\ \A i \in 1 .. Len(list') :
                  i = 1 \/ (i - 1 \in 1 .. Len(list) /\ list'[i] = list[i - 1])
        BY <1>3, PrependShifts
      <3>2. DOMAIN list' = 1 .. Len(list')
        BY <3>1
      <3>3. list'[1].time = clock
        BY <3>1
      <3> QED
        BY <3>1, <3>2, <3>3
    <2>3. ASSUME NEW i \in 1 .. Len(list') PROVE list'[i].time <= clock
      <3>1. \A j \in 1 .. Len(list) : list[j].time <= clock
        BY <1>1 DEF ListInv, NotLater
      <3>2. CASE i = 1
        BY <1>1, <2>2, <3>2
      <3>3. CASE i # 1
        <4>1. i - 1 \in 1 .. Len(list) /\ list'[i].time = list[i - 1].time
          BY <2>2, <3>3
        <4> QED
          BY <3>1, <4>1
      <3> QED
        BY <3>2, <3>3
    <2>4. ASSUME NEW i \in 1 .. Len(list'), NEW j \in 1 .. Len(list'), i < j
          PROVE  list'[i].time >= list'[j].time
      <3>1. CASE i = 1
        BY <1>1, <2>2, <2>3, <3>1, MatchFields
      <3>2. CASE i # 1
        <4>1. i - 1 \in 1 .. Len(list) /\ j - 1 \in 1 .. Len(list) /\ i - 1 < j - 1
              /\ list'[i].time = list[i - 1].time /\ list'[j].time = list[j - 1].time
          BY <1>1, <2>2, <2>4, <3>2
        <4>2. list[i - 1].time >= list[j - 1].time
          BY <1>1, <4>1 DEF ListInv, Sorted
        <4> QED
          BY <4>1, <4>2
      <3> QED
        BY <3>1, <3>2
    <2>5. CountersAgree'
      <3>1. list' # <<>> /\ count' = Len(list')
        BY <1>1, <2>1, <2>2 DEF ListInv, CountersAgree
      <3>2. last = 0 \/ (list # <<>> /\ last = list[1].time)
        BY DEF ListInv, CountersAgree
      <3>3. last \in Int /\ last <= clock
        BY <1>1, <3>2 DEF ListInv, NotLater
      <3> QED
        BY <1>1, <2>1, <2>2, <3>1, <3>3 DEF CountersAgree
    <2>6. Sorted(list') /\ NotLater'
      BY <2>1, <2>2, <2>3, <2>4 DEF Sorted, NotLater
    <2> QED
      BY <2>1, <2>2, <2>5, <2>6 DEF ListInv, Sorted
  <1>4. ASSUME NEW b \in 0 .. MaxTime, Expire(b) PROVE ListInv'
    <2>1. /\ clock' = clock /\ list' = Kept(b)
          /\ count' = count - (Len(list) - Len(Kept(b)))
          /\ last' = IF Kept(b) = <<>> THEN 0 ELSE Head(Kept(b)).time
      BY <1>4 DEF Expire
    <2>2. PICK q : Chosen(list, b, Len(list), Kept(b), q)
      BY <1>1, KeptChooses
    <2> DEFINE k == Kept(b)
    <2>3. k \in Seq(Match) /\ Len(k) \in Nat /\ DOMAIN k = 1 .. Len(k)
      BY <1>1, KeptChooses
    <2> HIDE DEF k
    <2>4. \A j \in 1 .. Len(k) : q[j] \in 1 .. Len(list) /\ k[j].time = list[q[j]].time
      BY <2>2 DEF Chosen, k
    <2>5. \A i, j \in 1 .. Len(k) : i < j => q[i] < q[j]
      BY <2>2 DEF Chosen, k
    <2>6. Sorted(k)
      BY <1>1, <2>3, <2>4, <2>5 DEF ListInv, Sorted
    <2>7. \A j \in 1 .. Len(k) : k[j].time <= clock
      BY <1>1, <2>4 DEF ListInv, NotLater
    <2>8. count' = Len(k) /\ list' = k /\ last' = IF k = <<>> THEN 0 ELSE k[1].time
      <3>1. count = Len(list)
        BY DEF ListInv, CountersAgree
      <3>2. k # <<>> => Head(k) = k[1]
        BY <2>3
      <3> QED
        BY <1>1, <2>1, <2>3, <3>1, <3>2 DEF k
    <2>9. CountersAgree' /\ NotLater' /\ Sorted(list')
      BY <2>1, <2>3, <2>6, <2>7, <2>8 DEF CountersAgree, NotLater
    <2> QED
      BY <2>1, <2>3, <2>8, <2>9 DEF ListInv, Sorted
  <1>5. CASE Flush
    <2>1. list' = <<>> /\ count' = 0 /\ last' = 0 /\ clock' = clock
      BY <1>5 DEF Flush
    <2>2. DOMAIN list' = {} /\ Len(list') = 0 /\ list' \in Seq(Match)
      BY <2>1
    <2>3. CountersAgree'
      BY <2>1, <2>2 DEF CountersAgree
    <2> QED
      BY <2>1, <2>2, <2>3 DEF ListInv, Sorted, NotLater
  <1>6. CASE UNCHANGED vars
    BY <1>6 DEF vars, ListInv, Sorted, NotLater, CountersAgree
  <1> QED
    BY <1>2, <1>3, <1>4, <1>5, <1>6 DEF Next

LEMMA ListInvariance == Spec => []ListInv
  <1> QED
    BY ListInit, ListStep, PTL DEF Spec

(* The counter and the time of the latest match, which prepending, expiring *)
(* and flushing update each on their own (matches.c:36), always describe    *)
(* the list: f2b_jail_process and the reports trust them.                   *)
THEOREM CountersAlwaysAgree == Spec => []CountersAgree
  <1>1. ListInv => CountersAgree
    BY DEF ListInv
  <1> QED
    BY <1>1, ListInvariance, PTL

---------------------------------------------------------------------------
(* The history of a sequence l, and what happens to it. *)

At(l, t) == {i \in DOMAIN l : l[i].time = t}
Hist(l) == [t \in H!Time |-> SumFunctionOnSet(Scored(l), At(l, t))]

LEMMA AtFacts ==
    ASSUME NEW l \in Seq(Match), NEW t
    PROVE  /\ At(l, t) \subseteq 1 .. Len(l) /\ IsFiniteSet(At(l, t))
           /\ \A i \in At(l, t) : Scored(l)[i] \in Int
           /\ \A i \in 1 .. Len(l) : Scored(l)[i] = l[i].score /\ Scored(l)[i] \in Int
  <1>1. Len(l) \in Nat /\ DOMAIN l = 1 .. Len(l) /\ \A i \in 1 .. Len(l) : l[i].score \in Int
    BY MatchFields
  <1>2. At(l, t) \subseteq 1 .. Len(l)
    BY <1>1 DEF At
  <1>3. IsFiniteSet(At(l, t))
    <2>1. IsFiniteSet(1 .. Len(l))
      BY <1>1, FS_Interval
    <2> QED
      BY <1>2, <2>1, FS_Subset
  <1>4. \A i \in 1 .. Len(l) : Scored(l)[i] = l[i].score /\ Scored(l)[i] \in Int
    BY <1>1 DEF Scored
  <1> QED
    BY <1>2, <1>3, <1>4

LEMMA HistPrepend ==
    ASSUME NEW l \in Seq(Match), NEW k \in Seq(Match), Len(k) = Len(l) + 1,
           \A i \in 1 .. Len(l) : k[i + 1] = l[i],
           \A i \in 1 .. Len(k) : i = 1 \/ (i - 1 \in 1 .. Len(l) /\ k[i] = l[i - 1])
    PROVE  Hist(k) = H!f2b_matches_prepend(Hist(l), k[1].time, k[1].score)
  <1>1. Len(l) \in Nat /\ 1 \in 1 .. Len(k) /\ DOMAIN l = 1 .. Len(l) /\ DOMAIN k = 1 .. Len(k)
        /\ k[1].time \in H!Time
    BY MatchFields
  <1>2. ASSUME NEW t \in H!Time
        PROVE  Hist(k)[t] = IF t = k[1].time THEN Hist(l)[t] + k[1].score ELSE Hist(l)[t]
    <2> DEFINE S == At(l, t)
               R == At(k, t) \ {1}
               p == [i \in S |-> i + 1]
               SumL == SumFunctionOnSet(Scored(l), S)
               SumR == SumFunctionOnSet(Scored(k), R)
    <2>1. /\ S \subseteq 1 .. Len(l) /\ IsFiniteSet(S) /\ \A i \in S : Scored(l)[i] \in Int
          /\ \A i \in 1 .. Len(l) : Scored(l)[i] = l[i].score
      BY AtFacts
    <2>2. /\ At(k, t) \subseteq 1 .. Len(k) /\ IsFiniteSet(At(k, t))
          /\ \A i \in At(k, t) : Scored(k)[i] \in Int
          /\ \A i \in 1 .. Len(k) : Scored(k)[i] = k[i].score /\ Scored(k)[i] \in Int
      BY AtFacts
    <2>3. \A i \in S : i \in 1 .. Len(l) /\ i + 1 \in 1 .. Len(k) /\ k[i + 1] = l[i] /\ l[i].time = t
      BY <1>1, <2>1 DEF At
    <2>4. p \in [S -> R]
      BY <1>1, <2>3 DEF At
    <2>5. \A x, y \in S : p[x] = p[y] => x = y
      BY <2>3
    <2>6. ASSUME NEW z \in R PROVE \E x \in S : z = p[x]
      <3>1. z \in 1 .. Len(k) /\ z # 1 /\ k[z].time = t
        BY <1>1 DEF At
      <3>2. z - 1 \in 1 .. Len(l) /\ k[z] = l[z - 1] /\ z = (z - 1) + 1
        BY <3>1
      <3>3. z - 1 \in S
        BY <1>1, <3>1, <3>2 DEF At
      <3>4. p[z - 1] = (z - 1) + 1
        BY <3>3
      <3> QED
        BY <3>2, <3>3, <3>4
    <2>7. \A x \in S : Scored(l)[x] \in Int /\ Scored(k)[p[x]] = Scored(l)[x]
      <3>1. ASSUME NEW x \in S PROVE Scored(k)[p[x]] = Scored(l)[x]
        <4>1. p[x] = x + 1 /\ x + 1 \in 1 .. Len(k) /\ k[x + 1] = l[x] /\ x \in 1 .. Len(l)
          BY <2>3
        <4> QED
          BY <2>1, <2>2, <4>1
      <3> QED
        BY <2>1, <3>1
    <2>8. SumR = SumL
      <3> DEFINE fun == Scored(l)
                 gun == Scored(k)
      <3>1. IsFiniteSet(S) /\ \A x \in S : fun[x] \in Int /\ gun[p[x]] = fun[x]
        BY <2>1, <2>7
      <3>2. \A z \in R : \E x \in S : z = p[x]
        BY <2>6
      <3> HIDE DEF S, R, p, fun, gun
      <3>3. SumFunctionOnSet(gun, R) = SumFunctionOnSet(fun, S)
        BY <2>4, <2>5, <3>1, <3>2, SumRenamed
      <3> QED
        BY <3>3 DEF fun, gun
    <2>9. Hist(l)[t] = SumL /\ Hist(k)[t] = SumFunctionOnSet(Scored(k), At(k, t))
      BY DEF Hist
    <2>10. SumL \in Int
      BY <2>1, SumType
    <2> HIDE DEF SumL, SumR
    <2>11. CASE t = k[1].time
      <3>1. 1 \in At(k, t)
        BY <1>1, <2>11 DEF At
      <3>2. SumFunctionOnSet(Scored(k), At(k, t)) = Scored(k)[1] + SumR
        BY <2>2, <3>1, SumFirst DEF SumR
      <3>3. Scored(k)[1] = k[1].score /\ k[1].score \in Int
        BY <1>1, <2>2
      <3> QED
        BY <2>8, <2>9, <2>10, <2>11, <3>2, <3>3
    <2>12. CASE t # k[1].time
      <3>1. R = At(k, t)
        BY <2>12 DEF At
      <3> QED
        BY <2>8, <2>9, <2>12, <3>1 DEF SumR
    <2> QED
      BY <2>11, <2>12
  <1>3. \A h : h \in [H!Time -> Int] => H!f2b_matches_prepend(h, k[1].time, k[1].score)
              = [t \in H!Time |-> IF t = k[1].time THEN h[t] + k[1].score ELSE h[t]]
    BY DEF H!f2b_matches_prepend
  <1>4. Hist(l) \in [H!Time -> Int]
    <2>1. \A t \in H!Time : SumFunctionOnSet(Scored(l), At(l, t)) \in Int
      BY AtFacts, SumType
    <2> QED
      BY <2>1 DEF Hist
  <1>5. Hist(k) = [t \in H!Time |-> Hist(k)[t]]
    BY DEF Hist
  <1> QED
    BY <1>2, <1>3, <1>4, <1>5

LEMMA HistExpire ==
    ASSUME NEW l \in Seq(Match), NEW k \in Seq(Match), NEW b \in Int, NEW q,
           Chosen(l, b, Len(l), k, q)
    PROVE  Hist(k) = H!f2b_matches_expire(Hist(l), b)
  <1>1. /\ Len(l) \in Nat /\ DOMAIN l = 1 .. Len(l) /\ Len(k) \in Nat /\ DOMAIN k = 1 .. Len(k)
        /\ q \in [1 .. Len(k) -> 1 .. Len(l)]
        /\ \A i, j \in 1 .. Len(k) : i < j => q[i] < q[j]
        /\ \A j \in 1 .. Len(k) : k[j] = l[q[j]] /\ l[q[j]].time > b
        /\ \A i \in 1 .. Len(l) : l[i].time > b => \E j \in 1 .. Len(k) : q[j] = i
    BY MatchFields DEF Chosen
  <1>2. ASSUME NEW t \in H!Time
        PROVE  Hist(k)[t] = IF t > b THEN Hist(l)[t] ELSE 0
    <2> DEFINE S == At(k, t)
               R == At(l, t)
               p == [j \in S |-> q[j]]
    <2>0. t \in Int
      BY DEF H!Time
    <2>1. Hist(l)[t] = SumFunctionOnSet(Scored(l), R) /\ Hist(k)[t] = SumFunctionOnSet(Scored(k), S)
      BY DEF Hist
    <2>2. /\ S \subseteq 1 .. Len(k) /\ IsFiniteSet(S) /\ \A i \in S : Scored(k)[i] \in Int
          /\ \A i \in 1 .. Len(k) : Scored(k)[i] = k[i].score
          /\ \A i \in 1 .. Len(l) : Scored(l)[i] = l[i].score
      BY AtFacts
    <2>3. \A j \in S : j \in 1 .. Len(k) /\ k[j].time = t /\ l[q[j]].time > b /\ k[j] = l[q[j]]
                       /\ q[j] \in 1 .. Len(l)
      BY <1>1 DEF At
    <2>4. CASE t > b
      <3>1. p \in [S -> R]
        BY <1>1, <2>3 DEF At
      <3>2. ASSUME NEW x \in S, NEW y \in S, p[x] = p[y] PROVE x = y
        <4>1. q[x] = q[y] /\ x \in 1 .. Len(k) /\ y \in 1 .. Len(k) /\ q[x] \in Int /\ q[y] \in Int
          BY <2>3, <3>2
        <4>2. ~(x < y) /\ ~(y < x)
          BY <1>1, <4>1
        <4> QED
          BY <1>1, <4>1, <4>2
      <3>3. ASSUME NEW z \in R PROVE \E x \in S : z = p[x]
        <4>1. z \in 1 .. Len(l) /\ l[z].time = t
          BY <1>1 DEF At
        <4>2. PICK j \in 1 .. Len(k) : q[j] = z
          BY <1>1, <2>4, <4>1
        <4>3. j \in S
          BY <1>1, <4>1, <4>2 DEF At
        <4> QED
          BY <4>2, <4>3
      <3>4. ASSUME NEW x \in S PROVE Scored(k)[x] \in Int /\ Scored(l)[p[x]] = Scored(k)[x]
        <4>1. p[x] = q[x] /\ q[x] \in 1 .. Len(l) /\ k[x] = l[q[x]] /\ x \in 1 .. Len(k)
          BY <2>3
        <4> QED
          BY <2>2, <4>1
      <3>5. SumFunctionOnSet(Scored(l), R) = SumFunctionOnSet(Scored(k), S)
        <4> DEFINE fun == Scored(k)
                   gun == Scored(l)
        <4>1. IsFiniteSet(S) /\ \A x \in S : fun[x] \in Int /\ gun[p[x]] = fun[x]
          BY <2>2, <3>4
        <4>2. (\A x, y \in S : p[x] = p[y] => x = y) /\ (\A z \in R : \E x \in S : z = p[x])
          BY <3>2, <3>3
        <4> HIDE DEF S, R, p, fun, gun
        <4>3. SumFunctionOnSet(gun, R) = SumFunctionOnSet(fun, S)
          BY <3>1, <4>1, <4>2, SumRenamed
        <4> QED
          BY <4>3 DEF fun, gun
      <3> QED
        BY <2>1, <2>4, <3>5
    <2>5. CASE ~(t > b)
      <3>1. S = {}
        BY <2>0, <2>3, <2>5
      <3>2. SumFunctionOnSet(Scored(k), S) = 0
        BY <3>1, SumEmpty
      <3> QED
        BY <2>1, <2>5, <3>2
    <2> QED
      BY <2>4, <2>5
  <1>3. Hist(k) = [t \in H!Time |-> Hist(k)[t]]
    BY DEF Hist
  <1> QED
    BY <1>2, <1>3 DEF H!f2b_matches_expire

LEMMA HistScore ==
    ASSUME NEW l \in Seq(Match), NEW a \in Int
    PROVE  SumFunctionOnSet(Scored(l), Young(l, a, 1)) = H!f2b_matches_score(Hist(l), a)
  <1> DEFINE I == 1 .. Len(l)
             K == {t \in H!Time : t >= a}
             key == [i \in I |-> l[i].time]
             g == [t \in K |-> SumFunctionOnSet(Scored(l), {i \in I : key[i] = t})]
  <1>1. /\ Len(l) \in Nat /\ DOMAIN l = I
        /\ \A i \in I : l[i].time \in H!Time /\ l[i].time \in Int
    BY MatchFields
  <1>2. IsFiniteSet(I)
    BY <1>1, FS_Interval
  <1>3. IsFiniteSet(K)
    <2>1. IsFiniteSet(H!Time)
      BY FS_Interval DEF H!Time
    <2>2. K \subseteq H!Time
      OBVIOUS
    <2> HIDE DEF K
    <2> QED
      BY <2>1, <2>2, FS_Subset
  <1>4. \A i \in I : Scored(l)[i] \in Int
    BY AtFacts
  <1>5. \A t \in K : Hist(l)[t] = g[t]
    <2>1. ASSUME NEW t \in K PROVE Hist(l)[t] = g[t]
      <3>1. At(l, t) = {i \in I : key[i] = t}
        BY <1>1 DEF At
      <3>2. g[t] = SumFunctionOnSet(Scored(l), {i \in I : key[i] = t})
        OBVIOUS
      <3>3. Hist(l)[t] = SumFunctionOnSet(Scored(l), At(l, t))
        BY DEF Hist
      <3> HIDE DEF I, key, g
      <3> QED
        BY <3>1, <3>2, <3>3
    <2> QED
      BY <2>1
  <1>6. {i \in I : key[i] \in K} = Young(l, a, 1)
    BY <1>1 DEF Young
  <1>7. SumFunctionOnSet(g, K) = SumFunctionOnSet(Scored(l), {i \in I : key[i] \in K})
    <2> HIDE DEF I, K, key
    <2> QED
      BY <1>2, <1>3, <1>4, SumGrouped
  <1>8. SumFunctionOnSet(Hist(l), K) = SumFunctionOnSet(g, K)
    <2> HIDE DEF K, g
    <2> QED
      BY <1>3, <1>5, SumEqual
  <1>9. H!f2b_matches_score(Hist(l), a) = SumFunctionOnSet(Hist(l), K)
    BY DEF H!f2b_matches_score, H!SumFunctionOnSet, SumFunctionOnSet, H!FoldFunctionOnSet,
       FoldFunctionOnSet, H!MapThenFoldSet, MapThenFoldSet
  <1> HIDE DEF I, K, key, g
  <1> QED
    BY <1>6, <1>7, <1>8, <1>9

---------------------------------------------------------------------------
(* The refinement: PerSecond is the history of the list. *)

LEMMA PerSecondIs == PerSecond = Hist(list)
  <1> QED
    BY DEF PerSecond, ScoreOf, Hist, Scored, At

LEMMA HistoryInit == Init => PerSecond = H!f2b_matches_flush
  <1> SUFFICES ASSUME Init PROVE PerSecond = H!f2b_matches_flush
    OBVIOUS
  <1>1. \A t : At(list, t) = {}
    BY DEF Init, At
  <1>2. \A t : SumFunctionOnSet(Scored(list), At(list, t)) = 0
    BY <1>1, SumEmpty
  <1> QED
    BY <1>2, PerSecondIs DEF Hist, H!f2b_matches_flush

LEMMA HistorySteps == ListInv => HistoryStep
  <1> SUFFICES ASSUME ListInv PROVE HistoryStep
    OBVIOUS
  <1>1. PerSecond = Hist(list) /\ PerSecond' = Hist(list')
    BY PerSecondIs DEF PerSecond, ScoreOf, Hist, Scored, At
  <1>2. list \in Seq(Match)
    BY DEF ListInv
  <1>3. ASSUME Tick PROVE PerSecond' = PerSecond
    BY <1>1, <1>3 DEF Tick
  <1>4. ASSUME NEW s \in Scores, Prepend(s)
        PROVE  PerSecond' = H!f2b_matches_prepend(PerSecond, clock, s)
    <2>1. /\ list' \in Seq(Match) /\ Len(list') = Len(list) + 1
          /\ list'[1] = [time |-> clock, score |-> s]
          /\ \A i \in 1 .. Len(list) : list'[i + 1] = list[i]
          /\ \A i \in 1 .. Len(list') : i = 1 \/ (i - 1 \in 1 .. Len(list) /\ list'[i] = list[i - 1])
      BY <1>4, PrependShifts
    <2>2. list'[1].time = clock /\ list'[1].score = s
      BY <2>1
    <2>3. Hist(list') = H!f2b_matches_prepend(Hist(list), list'[1].time, list'[1].score)
      BY <1>2, <2>1, HistPrepend
    <2> QED
      BY <1>1, <2>2, <2>3
  <1>5. ASSUME NEW b \in 0 .. MaxTime, Expire(b)
        PROVE  PerSecond' = H!f2b_matches_expire(PerSecond, b)
    <2>1. list' = Kept(b) /\ b \in Int
      BY <1>5 DEF Expire
    <2>2. Kept(b) \in Seq(Match) /\ \E q : Chosen(list, b, Len(list), Kept(b), q)
      BY <1>2, KeptChooses
    <2>3. Hist(Kept(b)) = H!f2b_matches_expire(Hist(list), b)
      BY <1>2, <2>1, <2>2, HistExpire
    <2> QED
      BY <1>1, <2>1, <2>3
  <1>6. ASSUME Flush PROVE PerSecond' = H!f2b_matches_flush
    <2>1. list' = <<>>
      BY <1>6 DEF Flush
    <2>2. \A t : At(<<>>, t) = {}
      BY DEF At
    <2>3. \A t : SumFunctionOnSet(Scored(<<>>), At(<<>>, t)) = 0
      BY <2>2, SumEmpty
    <2>4. Hist(<<>>) = H!f2b_matches_flush
      BY <2>3 DEF Hist, H!f2b_matches_flush
    <2> QED
      BY <1>1, <2>1, <2>4
  <1> QED
    BY <1>3, <1>4, <1>5, <1>6 DEF HistoryStep

LEMMA ScoreAgrees ==
    ListInv => \A after \in 0 .. MaxTime : Score(after) = H!f2b_matches_score(PerSecond, after)
  <1> SUFFICES ASSUME ListInv, NEW a \in 0 .. MaxTime
               PROVE  Score(a) = H!f2b_matches_score(PerSecond, a)
    OBVIOUS
  <1> DEFINE w == [i \in 1 .. Len(list) + 1 |-> SumFunctionOnSet(Scored(list), Young(list, a, i))]
             f == CHOOSE f : Walks(list, a, f)
  <1>1. list \in Seq(Match) /\ Sorted(list) /\ a \in Int /\ Len(list) \in Nat
    BY MatchFields DEF ListInv
  <1>2. Walks(list, a, w)
    BY <1>1, WalkAdds
  <1>3. w[1] = SumFunctionOnSet(Scored(list), Young(list, a, 1))
    BY <1>1
  <1>4. Score(a) = f[1]
    BY DEF Score, Walks, Adding
  <1> HIDE DEF w
  <1>5. Walks(list, a, f)
    BY <1>2
  <1> HIDE DEF f
  <1>6. f[1] = w[1]
    BY <1>1, <1>2, <1>5, WalkUnique
  <1> QED
    BY <1>1, <1>3, <1>4, <1>6, PerSecondIs, HistScore

(* The linked list of matches.c implements the history of scores per second *)
(* that Jail works with: whatever is prepended, expired and flushed, and    *)
(* however long the list, each operation is the history's operation, and    *)
(* f2b_matches_score, which stops at the first old match (matches.c:79),    *)
(* misses nothing.                                                          *)
THEOREM ListImplementsHistory == Spec => ImplementsHistory
  <1>1. ListInv /\ [Next]_vars => [HistoryStep]_vars
    BY HistorySteps
  <1>2. Spec => [][HistoryStep]_vars
    BY <1>1, ListInvariance, PTL DEF Spec
  <1>3. Spec => [](\A after \in 0 .. MaxTime : Score(after) = H!f2b_matches_score(PerSecond, after))
    BY ListInvariance, ScoreAgrees, PTL
  <1>4. Spec => PerSecond = H!f2b_matches_flush
    BY HistoryInit DEF Spec
  <1> QED
    BY <1>2, <1>3, <1>4 DEF ImplementsHistory
=============================================================================
