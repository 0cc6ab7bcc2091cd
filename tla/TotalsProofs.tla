---------------------------- MODULE TotalsProofs ---------------------------
(***************************************************************************)
(* What can be said of the sum of a function over a finite set.  The fold  *)
(* that Total is takes the elements in an order of CHOOSE's; the sum does  *)
(* not depend on it.                                                       *)
(***************************************************************************)
EXTENDS Totals, FiniteSetTheorems, WellFoundedInduction, TLAPS

\* Every set of numbers has a least one.
LEMMA LeastExists ==
    ASSUME NEW T, T \subseteq Nat, T # {}
    PROVE  \E x \in T : \A y \in T : x <= y
  <1>1. \E x \in T : \A y \in T : ~(<<y, x>> \in OpToRel(<, Nat))
    BY NatLessThanWellFounded, WFMin, ZenonT(60)
  <1>2. \A x, y \in T : <<y, x>> \in OpToRel(<, Nat) <=> y < x
    BY DEF OpToRel
  <1>3. \A x, y \in T : ~(y < x) => x <= y
    OBVIOUS
  <1>. QED
    BY <1>1, <1>2, <1>3, ZenonT(60)

\* The element a sum takes next.
NextOf(s) == CHOOSE x \in s : TRUE

\* g gives for every set of elements in D the sum of f over it.
Sums(g, f, D) ==
    g = [s \in D |-> IF s = {} THEN 0 ELSE f[NextOf(s)] + g[s \ {NextOf(s)}]]

Small(S, n) == {s \in SUBSET S : Cardinality(s) <= n}

\* A set of elements is finite, and taking one out makes it smaller.
LEMMA SmallerSet ==
    ASSUME NEW S, IsFiniteSet(S), NEW s \in SUBSET S
    PROVE  /\ IsFiniteSet(s) /\ Cardinality(s) \in Nat
           /\ (Cardinality(s) = 0) <=> (s = {})
           /\ \A x \in s : s \ {x} \in SUBSET S /\ Cardinality(s \ {x}) = Cardinality(s) - 1
  <1>1. IsFiniteSet(s)
    BY FS_Subset
  <1>2. Cardinality(s) \in Nat
    BY <1>1, FS_CardinalityType
  <1>3. (Cardinality(s) = 0) <=> (s = {})
    BY <1>1, FS_EmptySet
  <1>4. \A x \in s : Cardinality(s \ {x}) = Cardinality(s) - 1
    BY <1>1, FS_RemoveElement
  <1>. QED
    BY <1>1, <1>2, <1>3, <1>4

\* The next element of a set is one of it.
LEMMA NextIn == ASSUME NEW s, s # {} PROVE NextOf(s) \in s
  BY DEF NextOf

\* The recursion of a sum has a solution on the sets of at most n elements.
LEMMA SumsExist ==
    ASSUME NEW S, IsFiniteSet(S), NEW f, NEW n, n \in Nat
    PROVE  \E g : Sums(g, f, Small(S, n))
  <1>. DEFINE Without == {m \in Nat : ~\E g : Sums(g, f, Small(S, m))}
  <1>1. SUFFICES ASSUME Without # {} PROVE FALSE
    OBVIOUS
  <1>2. PICK m \in Without : \A k \in Without : m <= k
    BY <1>1, LeastExists, ZenonT(60)
  <1>3. CASE m = 0
    <2>. DEFINE g == [s \in Small(S, 0) |-> 0]
    <2>1. \A s \in Small(S, 0) : s = {}
      BY SmallerSet DEF Small
    <2>2. Sums(g, f, Small(S, 0))
      BY <2>1 DEF Sums
    <2>. QED
      BY <1>2, <1>3, <2>2
  <1>4. CASE m # 0
    <2>1. m - 1 \in Nat /\ m - 1 \notin Without
      BY <1>2, <1>4
    <2>2. PICK g : Sums(g, f, Small(S, m - 1))
      BY <2>1
    <2>. DEFINE h == [s \in Small(S, m) |-> IF s = {} THEN 0 ELSE f[NextOf(s)] + g[s \ {NextOf(s)}]]
    <2>3. ASSUME NEW s \in Small(S, m), s # {}
          PROVE  s \ {NextOf(s)} \in Small(S, m - 1) /\ s \ {NextOf(s)} \in Small(S, m)
      <3>1. PICK x : x = NextOf(s)
        OBVIOUS
      <3>2. s \in SUBSET S /\ Cardinality(s) <= m /\ x \in s
        BY <2>3, <3>1, NextIn DEF Small
      <3>3. s \ {x} \in SUBSET S /\ Cardinality(s \ {x}) = Cardinality(s) - 1
            /\ Cardinality(s) \in Nat
        BY <3>2, SmallerSet
      <3>. QED
        BY <2>1, <3>1, <3>2, <3>3 DEF Small
    <2>4. ASSUME NEW s \in Small(S, m - 1) PROVE s \in Small(S, m) /\ h[s] = g[s]
      <3>1. s \in Small(S, m)
        BY <2>1, SmallerSet DEF Small
      <3>2. g[s] = IF s = {} THEN 0 ELSE f[NextOf(s)] + g[s \ {NextOf(s)}]
        BY <2>2, ZenonT(60) DEF Sums
      <3>. QED
        BY <3>1, <3>2
    <2>5. \A s \in Small(S, m) : h[s] = IF s = {} THEN 0 ELSE f[NextOf(s)] + h[s \ {NextOf(s)}]
      BY <2>3, <2>4, ZenonT(60)
    <2>6. Sums(h, f, Small(S, m))
      <3>1. h = [s \in Small(S, m) |-> h[s]]
        OBVIOUS
      <3>. HIDE DEF h
      <3>. QED
        BY <2>5, <3>1, Zenon DEF Sums
    <2>. QED
      BY <1>2, <2>6
  <1>. QED
    BY <1>3, <1>4

AllSums(g, f, S) == Sums(g, f, SUBSET S)

\* Total is a sum in this sense.
LEMMA TotalSums ==
    ASSUME NEW S, IsFiniteSet(S), NEW f, DOMAIN f = S
    PROVE  \E g : AllSums(g, f, S) /\ Total(f) = g[S]
  <1>1. S \in SUBSET S
    OBVIOUS
  <1>2. Cardinality(S) \in Nat
    BY <1>1, SmallerSet
  <1>3. Small(S, Cardinality(S)) = SUBSET S
    <2>1. \A s \in SUBSET S : Cardinality(s) <= Cardinality(S)
      BY FS_Subset
    <2>. QED
      BY <2>1 DEF Small
  <1>4. \E g : Sums(g, f, SUBSET S)
    <2>1. PICK n \in Nat : n = Cardinality(S)
      BY <1>2
    <2>2. \E g : Sums(g, f, Small(S, n))
      BY SumsExist
    <2>. QED
      BY <1>3, <2>1, <2>2, ZenonT(60)
  <1>. DEFINE iter == CHOOSE g : g = [s \in SUBSET S |->
                          IF s = {} THEN 0 ELSE f[NextOf(s)] + g[s \ {NextOf(s)}]]
  <1>5. Sums(iter, f, SUBSET S)
    BY <1>4, Zenon DEF Sums
  <1>6. Total(f) = iter[S]
    BY DEF Total, MapThenSumSet, MapThenFoldSet, NextOf
  <1>. QED
    BY <1>5, <1>6, ZenonT(60) DEF AllSums


\* A sum does not depend on the order in which the elements are taken.
LEMMA AnyOrder ==
    ASSUME NEW S, IsFiniteSet(S), NEW f \in [S -> Int], NEW g, AllSums(g, f, S),
           NEW any \in SUBSET S
    PROVE  g[any] \in Int /\ \A x \in any : g[any] = f[x] + g[any \ {x}]
  <1>. DEFINE Good(s) == g[s] \in Int /\ \A x \in s : g[s] = f[x] + g[s \ {x}]
              Bad == {n \in Nat : \E s \in SUBSET S : Cardinality(s) = n /\ ~Good(s)}
  <1>1. g[{}] = 0
    BY DEF AllSums, Sums
  <1>2. SUFFICES ASSUME Bad # {} PROVE FALSE
    <2>1. ASSUME NEW s \in SUBSET S, ~Good(s) PROVE Cardinality(s) \in Bad
      BY <2>1, SmallerSet
    <2>. QED
      BY <2>1, ZenonT(60)
  <1>3. PICK n \in Bad : \A k \in Bad : n <= k
    BY <1>2, LeastExists, ZenonT(60)
  <1>4. PICK s \in SUBSET S : Cardinality(s) = n /\ ~Good(s)
    BY <1>3, ZenonT(60)
  <1>5. ASSUME NEW t \in SUBSET S, Cardinality(t) < n PROVE Good(t)
    <2>1. Cardinality(t) \in Nat /\ n \in Nat
      BY SmallerSet
    <2>2. Cardinality(t) \notin Bad
      <3>. HIDE DEF Bad
      <3>. QED
        BY <1>3, <1>5, <2>1
    <2>. QED
      BY <2>1, <2>2
  <1>. HIDE DEF Bad
  <1>6. s # {}
    <2>1. Good({})
      BY <1>1
    <2>. QED
      BY <1>4, <2>1, ZenonT(60)
  <1>7. PICK c : c = NextOf(s)
    OBVIOUS
  <1>8. c \in s /\ g[s] = f[c] + g[s \ {c}]
    <2>1. c \in s
      BY <1>6, <1>7, NextIn
    <2>2. g[s] = f[c] + g[s \ {c}]
      BY <1>6, <1>7, ZenonT(60) DEF AllSums, Sums
    <2>. QED
      BY <2>1, <2>2
  <1>9. ASSUME NEW x \in s
        PROVE  s \ {x} \in SUBSET S /\ Good(s \ {x}) /\ x \in S
    <2>1. s \ {x} \in SUBSET S /\ Cardinality(s \ {x}) = Cardinality(s) - 1
          /\ Cardinality(s) \in Nat
      BY SmallerSet
    <2>2. Cardinality(s \ {x}) < n
      BY <1>4, <2>1
    <2>. QED
      BY <1>5, <2>1, <2>2, ZenonT(60)
  <1>10. g[s] \in Int
    <2>1. f[c] \in Int /\ g[s \ {c}] \in Int
      BY <1>8, <1>9
    <2>. QED
      BY <1>8, <2>1
  <1>11. ASSUME NEW x \in s PROVE g[s] = f[x] + g[s \ {x}]
    <2>1. CASE x = c
      BY <1>8, <2>1
    <2>2. CASE x # c
      <3>1. PICK u : u = (s \ {c}) \ {x}
        BY ZenonT(60)
      <3>2. u = (s \ {x}) \ {c} /\ x \in s \ {c} /\ c \in s \ {x}
        BY <1>8, <2>2, <3>1
      <3>3. g[s \ {c}] = f[x] + g[u]
        BY <1>8, <1>9, <3>1, <3>2, ZenonT(60)
      <3>4. g[s \ {x}] = f[c] + g[u]
        BY <1>9, <3>2
      <3>5. f[x] \in Int /\ f[c] \in Int /\ g[u] \in Int
        <4>1. f[x] \in Int /\ f[c] \in Int
          BY <1>8, <1>9
        <4>2. g[u] \in Int
          <5>1. s \ {c} \in SUBSET S /\ Cardinality(s \ {c}) = n - 1 /\ n \in Nat
            BY <1>4, <1>8, SmallerSet
          <5>2. u \in SUBSET S /\ Cardinality(u) = Cardinality(s \ {c}) - 1
            <6>1. PICK v : v = s \ {c}
              BY ZenonT(60)
            <6>. QED
              BY <3>1, <3>2, <5>1, <6>1, SmallerSet
          <5>3. Cardinality(u) < n
            BY <5>1, <5>2
          <5>. QED
            BY <1>5, <5>2, <5>3
        <4>. QED
          BY <4>1, <4>2
      <3>. QED
        BY <1>8, <3>3, <3>4, <3>5
    <2>. QED
      BY <2>1, <2>2
  <1>. QED
    BY <1>4, <1>10, <1>11

\* Any element can be taken out of the whole.
LEMMA TakenOut ==
    ASSUME NEW S, IsFiniteSet(S), NEW f \in [S -> Int], NEW g, AllSums(g, f, S)
    PROVE  \A x \in S : g[S] = f[x] + g[S \ {x}]
  <1>1. \A s \in SUBSET S : \A x \in s : g[s] = f[x] + g[s \ {x}]
    <2>1. SUFFICES ASSUME NEW s \in SUBSET S, NEW x \in s PROVE g[s] = f[x] + g[s \ {x}]
      BY ZenonT(60)
    <2>. QED
      BY AnyOrder
  <1>2. S \in SUBSET S
    OBVIOUS
  <1>. QED
    BY <1>1, <1>2, ZenonT(60)

\* Two sums agree on sets on which their functions do.
LEMMA SameSum ==
    ASSUME NEW S, IsFiniteSet(S), NEW f \in [S -> Int], NEW g, AllSums(g, f, S),
           NEW k \in [S -> Int], NEW h, AllSums(h, k, S),
           NEW t \in SUBSET S, \A a \in t : f[a] = k[a]
    PROVE  g[t] = h[t]
  <1>. DEFINE Bad == {n \in Nat : \E s \in SUBSET t : Cardinality(s) = n /\ g[s] # h[s]}
  <1>1. SUFFICES ASSUME Bad # {} PROVE FALSE
    <2>1. Cardinality(t) \in Nat
      BY SmallerSet
    <2>. QED
      BY <2>1
  <1>2. PICK n \in Bad : \A m \in Bad : n <= m
    BY <1>1, LeastExists, ZenonT(60)
  <1>3. PICK s \in SUBSET t : Cardinality(s) = n /\ g[s] # h[s]
    BY <1>2
  <1>4. s \in SUBSET S
    OBVIOUS
  <1>5. g[{}] = 0 /\ h[{}] = 0
    BY DEF AllSums, Sums
  <1>6. PICK x \in s : TRUE
    BY <1>3, <1>5
  <1>7. g[s] = f[x] + g[s \ {x}] /\ h[s] = k[x] + h[s \ {x}]
    <2>1. g[s] = f[x] + g[s \ {x}]
      BY <1>4, AnyOrder
    <2>2. h[s] = k[x] + h[s \ {x}]
      BY <1>4, AnyOrder
    <2>. QED
      BY <2>1, <2>2
  <1>8. g[s \ {x}] = h[s \ {x}]
    <2>1. s \ {x} \in SUBSET t /\ Cardinality(s \ {x}) = n - 1 /\ n - 1 \in Nat
      <3>1. Cardinality(s \ {x}) = n - 1 /\ n \in Nat
        BY <1>3, <1>4, SmallerSet
      <3>2. n # 0
        BY <1>3, <1>4, <1>6, SmallerSet
      <3>. QED
        BY <3>1, <3>2
    <2>2. n - 1 \notin Bad
      BY <1>2, <2>1
    <2>. QED
      BY <2>1, <2>2
  <1>. QED
    BY <1>3, <1>7, <1>8

\* A total in which one element's share changes.
LEMMA SumPoint ==
    ASSUME NEW S, IsFiniteSet(S), NEW f \in [S -> Int], NEW k \in [S -> Int], NEW x \in S,
           \A a \in S : a # x => f[a] = k[a]
    PROVE  Total(f) \in Int /\ Total(k) = Total(f) - f[x] + k[x]
  <1>1. PICK g : AllSums(g, f, S) /\ Total(f) = g[S]
    BY TotalSums
  <1>2. PICK h : AllSums(h, k, S) /\ Total(k) = h[S]
    BY TotalSums
  <1>. DEFINE t == S \ {x}
  <1>3. t \in SUBSET S /\ S \in SUBSET S /\ \A a \in t : f[a] = k[a]
    OBVIOUS
  <1>4. g[S] = f[x] + g[t] /\ g[S] \in Int /\ g[t] \in Int
    <2>1. \A y \in S : g[S] = f[y] + g[S \ {y}]
      BY <1>1, TakenOut
    <2>2. g[S] = f[x] + g[t]
      BY <2>1
    <2>3. g[S] \in Int
      BY <1>1, <1>3, AnyOrder
    <2>4. g[t] \in Int
      <3>. HIDE DEF t
      <3>. QED
        BY <1>1, <1>3, AnyOrder
    <2>. QED
      BY <2>2, <2>3, <2>4
  <1>5. h[S] = k[x] + h[t]
    <2>1. \A y \in S : h[S] = k[y] + h[S \ {y}]
      BY <1>2, TakenOut
    <2>. QED
      BY <2>1
  <1>. HIDE DEF t
  <1>6. g[t] = h[t]
    BY <1>1, <1>2, <1>3, SameSum
  <1>7. f[x] \in Int /\ k[x] \in Int
    OBVIOUS
  <1>. QED
    BY <1>1, <1>2, <1>4, <1>5, <1>6, <1>7

\* A total of numbers is a number, and no share is larger.
LEMMA SumNat ==
    ASSUME NEW S, IsFiniteSet(S), NEW f \in [S -> Nat]
    PROVE  /\ Total(f) \in Nat /\ \A x \in S : f[x] <= Total(f)
           /\ (\A x \in S : f[x] = 0) => Total(f) = 0
  <1>1. PICK g : AllSums(g, f, S) /\ Total(f) = g[S]
    BY TotalSums
  <1>2. f \in [S -> Int]
    OBVIOUS
  <1>. DEFINE Good(s) == g[s] \in Nat /\ ((\A x \in s : f[x] = 0) => g[s] = 0)
              Bad == {n \in Nat : \E s \in SUBSET S : Cardinality(s) = n /\ ~Good(s)}
  <1>3. ASSUME Bad # {} PROVE FALSE
    <2>1. PICK n \in Bad : \A m \in Bad : n <= m
      BY <1>3, LeastExists, ZenonT(60)
    <2>2. PICK s \in SUBSET S : Cardinality(s) = n /\ ~Good(s)
      BY <2>1
    <2>3. g[{}] = 0
      BY <1>1 DEF AllSums, Sums
    <2>4. PICK x \in s : TRUE
      BY <2>2, <2>3
    <2>5. g[s] = f[x] + g[s \ {x}]
      BY <1>1, <1>2, AnyOrder
    <2>6. s \ {x} \in SUBSET S /\ Cardinality(s \ {x}) = n - 1 /\ n - 1 \in Nat
      <3>1. Cardinality(s \ {x}) = n - 1 /\ n \in Nat /\ s \ {x} \in SUBSET S
        BY <2>2, SmallerSet
      <3>2. n # 0
        BY <2>2, <2>4, SmallerSet
      <3>. QED
        BY <3>1, <3>2
    <2>7. n - 1 \notin Bad
      BY <2>1, <2>6
    <2>8. Good(s \ {x})
      BY <2>6, <2>7
    <2>9. f[x] \in Nat
      OBVIOUS
    <2>. HIDE DEF Bad
    <2>10. g[s] \in Nat
      BY <2>5, <2>8, <2>9
    <2>11. ASSUME \A y \in s : f[y] = 0 PROVE g[s] = 0
      BY <2>5, <2>8, <2>11
    <2>. QED
      BY <2>2, <2>10, <2>11
  <1>4. ASSUME NEW s \in SUBSET S PROVE Good(s)
    <2>1. Cardinality(s) \in Nat
      BY SmallerSet
    <2>. QED
      BY <1>3, <2>1
  <1>. HIDE DEF Bad
  <1>5. Good(S)
    BY <1>4
  <1>6. ASSUME NEW x \in S PROVE f[x] <= g[S]
    <2>1. g[S] = f[x] + g[S \ {x}]
      BY <1>1, <1>2, TakenOut
    <2>2. g[S \ {x}] \in Nat /\ f[x] \in Nat
      BY <1>4
    <2>. QED
      BY <2>1, <2>2
  <1>. QED
    BY <1>1, <1>5, <1>6

\* A total goes down when one element's share does.
LEMMA SumDown ==
    ASSUME NEW S, IsFiniteSet(S), NEW f \in [S -> Nat], NEW k \in [S -> Nat], NEW x \in S,
           \A a \in S : a # x => f[a] = k[a], k[x] <= f[x]
    PROVE  Total(k) <= Total(f)
  <1>1. f \in [S -> Int] /\ k \in [S -> Int] /\ f[x] \in Nat /\ k[x] \in Nat
    OBVIOUS
  <1>2. Total(f) \in Int
    BY <1>1, SumPoint
  <1>3. Total(k) = Total(f) - f[x] + k[x]
    BY <1>1, SumPoint
  <1>. QED
    BY <1>1, <1>2, <1>3

\* A total stays when one share gains what another loses.
LEMMA SumMoved ==
    ASSUME NEW S, IsFiniteSet(S), NEW f \in [S -> Nat], NEW k \in [S -> Nat],
           NEW x \in S, NEW y \in S, x # y,
           \A a \in S : a # x /\ a # y => f[a] = k[a], k[x] + k[y] = f[x] + f[y]
    PROVE  Total(k) = Total(f)
  <1>1. PICK h : h = [f EXCEPT ![x] = k[x]]
    BY ZenonT(60)
  <1>2. /\ f \in [S -> Int] /\ k \in [S -> Int] /\ h \in [S -> Int]
        /\ f[x] \in Nat /\ k[x] \in Nat /\ f[y] \in Nat /\ k[y] \in Nat
    BY <1>1
  <1>3. h[x] = k[x] /\ h[y] = f[y] /\ \A a \in S : a # x => f[a] = h[a]
    BY <1>1
  <1>4. \A a \in S : a # y => h[a] = k[a]
    BY <1>1
  <1>5. Total(f) \in Int
    BY <1>2, <1>3, SumPoint
  <1>6. Total(h) = Total(f) - f[x] + h[x]
    BY <1>2, <1>3, SumPoint
  <1>7. Total(k) = Total(h) - h[y] + k[y]
    BY <1>2, <1>4, SumPoint
  <1>. QED
    BY <1>2, <1>3, <1>5, <1>6, <1>7

\* The total of f as a function of sets, with any element taken first.
SumInAnyOrder(g, f, S) ==
    /\ Total(f) = g[S] /\ g[{}] = 0
    /\ \A t \in SUBSET S : g[t] \in Int
    /\ \A t \in SUBSET S : \A x \in t : g[t] = f[x] + g[t \ {x}]

\* There is such a function.
LEMMA TotalInAnyOrder ==
    ASSUME NEW S, IsFiniteSet(S), NEW f \in [S -> Int]
    PROVE  \E g : SumInAnyOrder(g, f, S)
  <1>1. PICK g : AllSums(g, f, S) /\ Total(f) = g[S]
    BY TotalSums
  <1>2. g[{}] = 0
    BY <1>1 DEF AllSums, Sums
  <1>3. \A t \in SUBSET S : g[t] \in Int
    BY <1>1, AnyOrder
  <1>4. ASSUME NEW t \in SUBSET S, NEW x \in t PROVE g[t] = f[x] + g[t \ {x}]
    BY <1>1, AnyOrder
  <1>. QED
    BY <1>1, <1>2, <1>3, <1>4, ZenonT(60) DEF SumInAnyOrder

\* A total whose shares are p times as large, or larger, is p times as large.
LEMMA SumScaled ==
    ASSUME NEW S, IsFiniteSet(S), NEW f \in [S -> Nat], NEW k \in [S -> Nat], NEW p \in Nat,
           \A a \in S : p * f[a] <= k[a]
    PROVE  p * Total(f) <= Total(k)
  <1>1. f \in [S -> Int] /\ k \in [S -> Int]
    OBVIOUS
  <1>2. PICK g : SumInAnyOrder(g, f, S)
    BY <1>1, TotalInAnyOrder
  <1>3. PICK h : SumInAnyOrder(h, k, S)
    BY <1>1, TotalInAnyOrder
  <1>. DEFINE Bad == {n \in Nat : \E s \in SUBSET S :
                                      Cardinality(s) = n /\ ~(p * g[s] <= h[s])}
  <1>4. ASSUME Bad # {} PROVE FALSE
    <2>1. PICK n \in Bad : \A m \in Bad : n <= m
      BY <1>4, LeastExists, ZenonT(60)
    <2>2. PICK s \in SUBSET S : Cardinality(s) = n /\ ~(p * g[s] <= h[s])
      BY <2>1
    <2>3. g[{}] = 0 /\ h[{}] = 0
      BY <1>2, <1>3 DEF SumInAnyOrder
    <2>4. PICK x \in s : TRUE
      <3>1. p * 0 <= 0
        OBVIOUS
      <3>. QED
        BY <2>2, <2>3, <3>1, ZenonT(60)
    <2>5. g[s] = f[x] + g[s \ {x}]
      BY <1>2 DEF SumInAnyOrder
    <2>6. h[s] = k[x] + h[s \ {x}]
      BY <1>3 DEF SumInAnyOrder
    <2>7. s \ {x} \in SUBSET S /\ Cardinality(s \ {x}) = n - 1 /\ n - 1 \in Nat
      <3>1. Cardinality(s \ {x}) = n - 1 /\ n \in Nat /\ s \ {x} \in SUBSET S
        BY <2>2, SmallerSet
      <3>2. n # 0
        BY <2>2, <2>4, SmallerSet
      <3>. QED
        BY <3>1, <3>2
    <2>8. n - 1 \notin Bad
      BY <2>1, <2>7
    <2>9. p * g[s \ {x}] <= h[s \ {x}]
      BY <2>7, <2>8
    <2>. HIDE DEF Bad
    <2>10. PICK t \in SUBSET S : t = s \ {x}
      BY <2>7, ZenonT(60)
    <2>11. g[t] \in Int
      BY <1>2 DEF SumInAnyOrder
    <2>12. h[t] \in Int
      BY <1>3 DEF SumInAnyOrder
    <2>13. f[x] \in Nat /\ k[x] \in Nat /\ p * f[x] <= k[x]
      OBVIOUS
    <2>14. p * g[s] = p * f[x] + p * g[t] /\ p * f[x] \in Int /\ p * g[t] \in Int
      BY <2>5, <2>10, <2>11, <2>13
    <2>. QED
      BY <2>2, <2>6, <2>9, <2>10, <2>12, <2>13, <2>14
  <1>5. Cardinality(S) \in Nat /\ S \in SUBSET S
    BY SmallerSet
  <1>6. p * g[S] <= h[S]
    BY <1>4, <1>5
  <1>. QED
    BY <1>2, <1>3, <1>6 DEF SumInAnyOrder
=============================================================================
