-------------------------- MODULE BlockQueueProofs --------------------------
(***************************************************************************)
(* The invariants of the block queue hold for every tree of blocks, every  *)
(* number of verifiers and every verdict.                                  *)
(*                                                                         *)
(* The argument: QueueOK says of the queue that its pipeline holds no      *)
(* block twice, no block before its parent, and only blocks whose parent   *)
(* is known, and that only children of absent blocks wait; BatchOK says    *)
(* the like of the blocks the client has drained.  Most of what the code   *)
(* does (checking, releasing, purging) only takes blocks out of the        *)
(* pipeline and keeps the order of the others: that is Shrinks, shown once *)
(* for each operation and once to keep QueueOK and BatchOK.  What is left  *)
(* are import with the waking of children, drain, the import into the      *)
(* chain, doneDrain, clear and retryAllUnknown.                            *)
(***************************************************************************)
EXTENDS BlockQueue, WellFoundedInduction, TLAPS

USE ZenonT(60)

-----------------------------------------------------------------------------
(* Numbers and loops.                                                      *)

\* Every set of numbers has a least one.
LEMMA LeastExists ==
    ASSUME NEW T, T \subseteq Nat, T # {}
    PROVE  \E x \in T : \A y \in T : x <= y
  <1>1. \E x \in T : \A y \in T : ~(<<y, x>> \in OpToRel(<, Nat))
    BY NatLessThanWellFounded, WFMin
  <1>2. \A x, y \in T : <<y, x>> \in OpToRel(<, Nat) <=> y < x
    BY DEF OpToRel
  <1>3. \A x, y \in T : ~(y < x) => x <= y
    BY SMTT(60)
  <1>. QED
    BY <1>1, <1>2, <1>3

\* Induction up to n, over the set of the numbers for which a claim holds.
LEMMA UpTo ==
    ASSUME NEW n \in Nat, NEW P, 0 \in P, \A k \in 0..n : k + 1 \in 0..n /\ k \in P => k + 1 \in P
    PROVE  \A k \in 0..n : k \in P
  <1>. SUFFICES ASSUME (0..n) \ P # {} PROVE FALSE
    OBVIOUS
  <1>. DEFINE T == (0..n) \ P
  <1>0. T \subseteq Nat /\ T # {}
    BY SMTT(60)
  <1>1. PICK k \in T : \A m \in T : k <= m
    <2>. HIDE DEF T
    <2>. QED
      BY <1>0, LeastExists
  <1>2. k # 0
    BY <1>1
  <1>3. k - 1 \in 0..n /\ (k - 1) + 1 = k /\ ~(k <= k - 1)
    BY <1>1, <1>2, SMTT(60)
  <1>4. k - 1 \in P
    BY <1>1, <1>3
  <1>. QED
    BY <1>1, <1>3, <1>4

\* f runs a loop of n steps from x.
Runs(f, x, n, g) == f = [k \in 0..n |-> IF k = 0 THEN x ELSE g[k][f[k - 1]]]

\* A loop of n steps in X can be run.
LEMMA LoopExists ==
    ASSUME NEW X, NEW x \in X, NEW n \in Nat, NEW g \in [1..n -> [X -> X]]
    PROVE  \E f \in [0..n -> X] : Runs(f, x, n, g)
  <1>. DEFINE P == {m \in 0..n : \E f \in [0..m -> X] : Runs(f, x, m, g)}
  <1>1. 0 \in P
    <2>1. PICK f : f = [k \in 0..0 |-> x]
      OBVIOUS
    <2>2. f \in [0..0 -> X]
      BY <2>1
    <2>3. Runs(f, x, 0, g)
      BY <2>1, SMTT(60) DEF Runs
    <2>4. 0 \in 0..n
      BY SMTT(60)
    <2>. QED
      BY <2>2, <2>3, <2>4
  <1>2. ASSUME NEW m \in 0..n, m + 1 \in 0..n, m \in P PROVE m + 1 \in P
    <2>1. PICK f \in [0..m -> X] : Runs(f, x, m, g)
      BY <1>2
    <2>2. PICK h : h = [k \in 0..m + 1 |-> IF k = m + 1 THEN g[m + 1][f[m]] ELSE f[k]]
      OBVIOUS
    <2>3. m + 1 \in 1..n /\ m \in 0..m /\ g[m + 1] \in [X -> X] /\ g[m + 1][f[m]] \in X
      BY <1>2, SMTT(60)
    <2>4. h \in [0..m + 1 -> X]
      BY <2>2, <2>3, SMTT(60)
    <2>5. ASSUME NEW k \in 0..m + 1 PROVE h[k] = IF k = 0 THEN x ELSE g[k][h[k - 1]]
      <3>1. CASE k = 0
        BY <3>1, <2>1, <2>2, SMTT(60) DEF Runs
      <3>2. CASE k # 0 /\ k # m + 1
        <4>1. k \in 0..m /\ k - 1 \in 0..m /\ k - 1 \in 0..m + 1 /\ k - 1 # m + 1
          BY <3>2, SMTT(60)
        <4>2. h[k] = f[k] /\ h[k - 1] = f[k - 1]
          BY <4>1, <3>2, <2>2
        <4>3. f[k] = g[k][f[k - 1]]
          BY <4>1, <3>2, <2>1 DEF Runs
        <4>. QED
          BY <4>2, <4>3, <3>2
      <3>3. CASE k = m + 1
        <4>1. k - 1 = m /\ m \in 0..m + 1 /\ m # m + 1 /\ k # 0
          BY <3>3, SMTT(60)
        <4>2. h[m] = f[m] /\ h[k] = g[k][f[m]]
          BY <4>1, <3>3, <2>2
        <4>. QED
          BY <4>1, <4>2
      <3>. QED
        BY <3>1, <3>2, <3>3
    <2>6. Runs(h, x, m + 1, g)
      <3>1. h = [k \in 0..m + 1 |-> h[k]]
        BY <2>2
      <3>. QED
        BY <3>1, <2>5 DEF Runs
    <2>. QED
      BY <1>2, <2>4, <2>6
  <1>. HIDE DEF P
  <1>3. \A k \in 0..n : k \in P
    BY <1>1, <1>2, UpTo
  <1>4. n \in P
    BY <1>3, SMTT(60)
  <1>. QED
    BY <1>4 DEF P

-----------------------------------------------------------------------------
(* Sequences: who is in one, and who comes before whom.                    *)

\* Two sequences with the same members at the same places are the same.
LEMMA SameSequence ==
    ASSUME NEW S, NEW s \in Seq(S), NEW t \in Seq(S), Len(s) = Len(t), \A i \in 1..Len(s) : s[i] = t[i]
    PROVE  s = t
  BY SMTT(60)

\* Sequences joined are a sequence.
LEMMA JoinTyped ==
    ASSUME NEW S, NEW s \in Seq(S), NEW t \in Seq(S)
    PROVE  s \o t \in Seq(S)
  BY SMTT(60)

\* Appending is joining.
LEMMA AppendJoins ==
    ASSUME NEW S, NEW s \in Seq(S), NEW e \in S
    PROVE  Append(s, e) \in Seq(S) /\ Append(s, e) = s \o <<e>>
  BY SMTT(60)

\* The empty sequence adds nothing.
LEMMA JoinEmpty ==
    ASSUME NEW S, NEW s \in Seq(S)
    PROVE  s \o <<>> = s
  BY SMTT(60)

\* A sequence over a set is one over a larger set.
LEMMA WiderSeq ==
    ASSUME NEW S, NEW T, S \subseteq T, NEW s \in Seq(S)
    PROVE  s \in Seq(T)
  BY SMTT(60)
\* x comes before y in s.
Precedes(s, x, y) == \E i, j \in DOMAIN s : i < j /\ s[i] = x /\ s[j] = y

\* The elements of s are in t, in the same order.
Within(s, t) == Range(s) \subseteq Range(t) /\ \A x, y : Precedes(s, x, y) => Precedes(t, x, y)

\* Nothing is in s twice.
Distinct(s) == \A x : ~Precedes(s, x, x)

\* One sequence after another.
LEMMA Joined ==
    ASSUME NEW S, NEW s \in Seq(S), NEW t \in Seq(S)
    PROVE  /\ s \o t \in Seq(S)
           /\ Range(s \o t) = Range(s) \cup Range(t)
           /\ \A x, y : Precedes(s \o t, x, y) <=>
                 Precedes(s, x, y) \/ Precedes(t, x, y) \/ (x \in Range(s) /\ y \in Range(t))
  <1>1. /\ s \o t \in Seq(S) /\ DOMAIN (s \o t) = 1..Len(s) + Len(t)
        /\ DOMAIN s = 1..Len(s) /\ DOMAIN t = 1..Len(t) /\ Len(s) \in Nat /\ Len(t) \in Nat
    BY SMTT(60)
  <1>2. /\ \A i \in 1..Len(s) : i \in DOMAIN (s \o t) /\ (s \o t)[i] = s[i]
        /\ \A i \in 1..Len(t) : Len(s) + i \in DOMAIN (s \o t) /\ (s \o t)[Len(s) + i] = t[i]
    BY SMTT(60)
  <1>3. \A i \in 1..Len(s) + Len(t) : i \notin 1..Len(s) =>
           i - Len(s) \in 1..Len(t) /\ (s \o t)[i] = t[i - Len(s)]
    BY SMTT(60)
  <1>. DEFINE u == s \o t
  <1>. HIDE DEF u
  <1>4. Range(u) = Range(s) \cup Range(t)
    <2>1. ASSUME NEW x \in Range(u) PROVE x \in Range(s) \cup Range(t)
      <3>1. PICK i \in 1..Len(s) + Len(t) : u[i] = x
        BY <1>1 DEF Range, u
      <3>. QED
        BY <3>1, <1>1, <1>2, <1>3 DEF Range, u
    <2>2. ASSUME NEW x \in Range(s) PROVE x \in Range(u)
      BY <1>1, <1>2 DEF Range, u
    <2>3. ASSUME NEW x \in Range(t) PROVE x \in Range(u)
      <3>1. PICK i \in 1..Len(t) : t[i] = x
        BY <1>1 DEF Range
      <3>. QED
        BY <3>1, <1>1, <1>2 DEF Range, u
    <2>. QED
      BY <2>1, <2>2, <2>3
  <1>5. ASSUME NEW x, NEW y, Precedes(u, x, y)
        PROVE Precedes(s, x, y) \/ Precedes(t, x, y) \/ (x \in Range(s) /\ y \in Range(t))
    <2>1. PICK i, j \in DOMAIN u : i < j /\ u[i] = x /\ u[j] = y
      BY <1>5 DEF Precedes
    <2>2. CASE j \in 1..Len(s)
      BY <2>1, <2>2, <1>1, <1>2, SMTT(60) DEF Precedes, u
    <2>3. CASE i \notin 1..Len(s)
      BY <2>1, <2>3, <1>1, <1>3, SMTT(60) DEF Precedes, u
    <2>4. CASE i \in 1..Len(s) /\ j \notin 1..Len(s)
      BY <2>1, <2>4, <1>1, <1>2, <1>3 DEF Range, u
    <2>. QED
      BY <2>2, <2>3, <2>4
  <1>6. ASSUME NEW x, NEW y, Precedes(s, x, y) PROVE Precedes(u, x, y)
    BY <1>6, <1>1, <1>2 DEF Precedes, u
  <1>7. ASSUME NEW x, NEW y, Precedes(t, x, y) PROVE Precedes(u, x, y)
    <2>1. PICK i, j \in 1..Len(t) : i < j /\ t[i] = x /\ t[j] = y
      BY <1>7, <1>1 DEF Precedes
    <2>2. /\ Len(s) + i \in DOMAIN u /\ Len(s) + j \in DOMAIN u /\ Len(s) + i < Len(s) + j
          /\ u[Len(s) + i] = x /\ u[Len(s) + j] = y
      BY <2>1, <1>1, <1>2, SMTT(60) DEF u
    <2>. QED
      BY <2>2 DEF Precedes
  <1>8. ASSUME NEW x \in Range(s), NEW y \in Range(t) PROVE Precedes(u, x, y)
    <2>1. PICK i \in 1..Len(s), j \in 1..Len(t) : s[i] = x /\ t[j] = y
      BY <1>8, <1>1 DEF Range
    <2>2. i < Len(s) + j
      BY <1>1, SMTT(60)
    <2>. QED
      BY <2>1, <2>2, <1>1, <1>2 DEF Precedes, u
  <1>. QED
    BY <1>1, <1>4, <1>5, <1>6, <1>7, <1>8 DEF u

\* Four sequences joined from the left, or the first at last.
Regroups(a, b, c, d) == ((a \o b) \o c) \o d = a \o ((b \o c) \o d)

\* Joining is associative: four sequences joined from the left.
LEMMA JoinedFour ==
    ASSUME NEW a \in Seq(Blocks), NEW b \in Seq(Blocks), NEW c \in Seq(Blocks), NEW d \in Seq(Blocks)
    PROVE  Regroups(a, b, c, d)
  <1>1. (a \o b) \o c = a \o (b \o c)
    BY SMTT(60)
  <1>2. PICK x \in Seq(Blocks) : x = b \o c
    <2>1. b \o c \in Seq(Blocks)
      BY SMTT(60)
    <2>. QED
      BY <2>1
  <1>3. (a \o x) \o d = a \o (x \o d)
    BY SMTT(60)
  <1>. QED
    BY <1>1, <1>2, <1>3 DEF Regroups

\* The two in the middle joined first, or the two at each end.
TwoByTwo(a, b, c, d) == (a \o (b \o c)) \o d = (a \o b) \o (c \o d)

\* Joining is associative: four sequences joined two by two.
LEMMA JoinedTwoByTwo ==
    ASSUME NEW a \in Seq(Blocks), NEW b \in Seq(Blocks), NEW c \in Seq(Blocks), NEW d \in Seq(Blocks)
    PROVE  TwoByTwo(a, b, c, d)
  <1>1. a \o (b \o c) = (a \o b) \o c
    BY SMTT(60)
  <1>2. PICK x \in Seq(Blocks) : x = a \o b
    <2>1. a \o b \in Seq(Blocks)
      BY SMTT(60)
    <2>. QED
      BY <2>1
  <1>3. (x \o c) \o d = x \o (c \o d)
    BY SMTT(60)
  <1>. QED
    BY <1>1, <1>2, <1>3 DEF TwoByTwo

\* A sequence of one member.
LEMMA Single ==
    ASSUME NEW x
    PROVE  Range(<<x>>) = {x} /\ \A a, b : ~Precedes(<<x>>, a, b)
  BY SMTT(60) DEF Range, Precedes

\* The empty sequence.
LEMMA Nothing == Range(<<>>) = {} /\ \A a, b : ~Precedes(<<>>, a, b)
  BY SMTT(60) DEF Range, Precedes

\* Who precedes whom is in the sequence.
LEMMA PrecedesRange ==
    ASSUME NEW s, NEW x, NEW y, Precedes(s, x, y)
    PROVE  x \in Range(s) /\ y \in Range(s)
  BY DEF Range, Precedes

\* A sequence is its head and its tail.
LEMMA HeadAndTail ==
    ASSUME NEW S, NEW s \in Seq(S), s # <<>>
    PROVE  Head(s) \in S /\ Tail(s) \in Seq(S) /\ s = <<Head(s)>> \o Tail(s)
  <1>1. Head(s) \in S /\ Tail(s) \in Seq(S) /\ Len(Tail(s)) = Len(s) - 1
    BY SMTT(60)
  <1>2. <<Head(s)>> \in Seq(S)
    BY <1>1, SMTT(60)
  <1>3. <<Head(s)>> \o Tail(s) \in Seq(S) /\ Len(<<Head(s)>> \o Tail(s)) = Len(s)
    BY <1>1, <1>2, SMTT(60)
  <1>4. \A i \in 1..Len(s) : s[i] = (<<Head(s)>> \o Tail(s))[i]
    BY <1>1, <1>2, SMTT(60)
  <1>. QED
    BY <1>1, <1>3, <1>4, SameSequence

\* A sequence from its two halves.
LEMMA Halves ==
    ASSUME NEW S, NEW s \in Seq(S), NEW a \in Seq(S), NEW b \in Seq(S), NEW n \in 0..Len(s),
           Len(a) = n, Len(b) = Len(s) - n, \A i \in 1..n : a[i] = s[i],
           \A i \in 1..Len(s) - n : b[i] = s[n + i]
    PROVE  a \o b = s
  <1>1. a \o b \in Seq(S) /\ Len(a \o b) = Len(s)
    BY SMTT(60)
  <1>2. ASSUME NEW i \in 1..Len(s) PROVE (a \o b)[i] = s[i]
    <2>1. CASE i <= n
      BY <2>1, SMTT(60)
    <2>2. CASE i > n
      <3>1. i - n \in 1..Len(s) - n /\ n + (i - n) = i
        BY <2>2, SMTT(60)
      <3>2. (a \o b)[i] = b[i - n]
        BY <2>2, <3>1, SMTT(60)
      <3>. QED
        BY <3>1, <3>2
    <2>. QED
      BY <2>1, <2>2, SMTT(60)
  <1>. QED
    BY <1>1, <1>2, SameSequence

\* A sequence is its first n members and the others.
LEMMA FrontAndRest ==
    ASSUME NEW S, NEW s \in Seq(S), NEW n \in 0..Len(s)
    PROVE  /\ SubSeq(s, 1, n) \in Seq(S) /\ SubSeq(s, n + 1, Len(s)) \in Seq(S)
           /\ s = SubSeq(s, 1, n) \o SubSeq(s, n + 1, Len(s))
  <1>1. PICK a \in Seq(S) : a = SubSeq(s, 1, n) /\ Len(a) = n /\ \A i \in 1..n : a[i] = s[i]
    <2>1. SubSeq(s, 1, n) \in Seq(S) /\ Len(SubSeq(s, 1, n)) = n /\ \A i \in 1..n : SubSeq(s, 1, n)[i] = s[i]
      BY SMTT(60)
    <2>. QED
      BY <2>1
  <1>2. PICK b \in Seq(S) : b = SubSeq(s, n + 1, Len(s)) /\ Len(b) = Len(s) - n
                            /\ \A i \in 1..Len(s) - n : b[i] = s[n + i]
    <2>1. /\ SubSeq(s, n + 1, Len(s)) \in Seq(S) /\ Len(SubSeq(s, n + 1, Len(s))) = Len(s) - n
          /\ \A i \in 1..Len(s) - n : SubSeq(s, n + 1, Len(s))[i] = s[n + i]
      BY SMTT(60)
    <2>. QED
      BY <2>1
  <1>3. a \o b = s
    <2>1. Len(a) = n /\ Len(b) = Len(s) - n
      BY <1>1, <1>2
    <2>2. (\A i \in 1..n : a[i] = s[i]) /\ \A i \in 1..Len(s) - n : b[i] = s[n + i]
      BY <1>1, <1>2
    <2>. QED
      BY <2>1, <2>2, Halves
  <1>. QED
    BY <1>1, <1>2, <1>3

\* A sequence is a sequence of its members.
LEMMA RangeTyped ==
    ASSUME NEW S, NEW s \in Seq(S)
    PROVE  Range(s) \subseteq S
  BY SMTT(60) DEF Range

\* A member by its place is in the range, and has a place.
LEMMA InRange ==
    ASSUME NEW S, NEW s \in Seq(S)
    PROVE  /\ \A i \in 1..Len(s) : s[i] \in Range(s)
           /\ \A x \in Range(s) : \E i \in 1..Len(s) : s[i] = x
  BY SMTT(60) DEF Range

\* Everything of s is in t, in the order of t.
LEMMA WithinTransitive ==
    ASSUME NEW r, NEW s, NEW t, Within(r, s), Within(s, t)
    PROVE  Within(r, t)
  BY DEF Within

\* A sequence is within itself.
LEMMA WithinReflexive ==
    ASSUME NEW s
    PROVE  Within(s, s)
  BY DEF Within

\* Concatenation keeps Within.
LEMMA WithinJoined ==
    ASSUME NEW S, NEW a \in Seq(S), NEW b \in Seq(S), NEW c \in Seq(S), NEW d \in Seq(S),
           Within(a, c), Within(b, d)
    PROVE  Within(a \o b, c \o d)
  <1>1. Range(a \o b) = Range(a) \cup Range(b) /\ Range(c \o d) = Range(c) \cup Range(d)
    BY Joined
  <1>2. \A x, y : Precedes(a \o b, x, y) <=>
            Precedes(a, x, y) \/ Precedes(b, x, y) \/ (x \in Range(a) /\ y \in Range(b))
    BY Joined
  <1>3. \A x, y : Precedes(c \o d, x, y) <=>
            Precedes(c, x, y) \/ Precedes(d, x, y) \/ (x \in Range(c) /\ y \in Range(d))
    BY Joined
  <1>. QED
    BY <1>1, <1>2, <1>3 DEF Within

\* What is within a sequence without repetition has none.
LEMMA WithinDistinct ==
    ASSUME NEW s, NEW t, Within(s, t), Distinct(t)
    PROVE  Distinct(s)
  BY DEF Within, Distinct

\* Two sequences joined have no repetition when each has none and they share nothing.
LEMMA DistinctJoined ==
    ASSUME NEW S, NEW s \in Seq(S), NEW t \in Seq(S)
    PROVE  Distinct(s \o t) <=> Distinct(s) /\ Distinct(t) /\ Range(s) \cap Range(t) = {}
  <1>1. \A x, y : Precedes(s \o t, x, y) <=>
            Precedes(s, x, y) \/ Precedes(t, x, y) \/ (x \in Range(s) /\ y \in Range(t))
    BY Joined
  <1>2. (\A x : ~(x \in Range(s) /\ x \in Range(t))) <=> Range(s) \cap Range(t) = {}
    OBVIOUS
  <1>. QED
    BY <1>1, <1>2 DEF Distinct

\* Without repetition no two members precede each other.
LEMMA OneOrder ==
    ASSUME NEW S, NEW s \in Seq(S), Distinct(s), NEW x, NEW y, Precedes(s, x, y)
    PROVE  ~Precedes(s, y, x)
  <1>. SUFFICES ASSUME Precedes(s, y, x) PROVE FALSE
    OBVIOUS
  <1>1. PICK i, j \in 1..Len(s) : i < j /\ s[i] = x /\ s[j] = y
    BY SMTT(60) DEF Precedes
  <1>2. PICK k, l \in 1..Len(s) : k < l /\ s[k] = y /\ s[l] = x
    BY SMTT(60) DEF Precedes
  <1>3. i < l \/ k < j
    BY <1>1, <1>2, SMTT(60)
  <1>4. DOMAIN s = 1..Len(s)
    BY SMTT(60)
  <1>5. ~Precedes(s, x, x) /\ ~Precedes(s, y, y)
    BY DEF Distinct
  <1>6. CASE i < l
    BY <1>1, <1>2, <1>4, <1>5, <1>6 DEF Precedes
  <1>7. CASE k < j
    BY <1>1, <1>2, <1>4, <1>5, <1>7 DEF Precedes
  <1>. QED
    BY <1>3, <1>6, <1>7

\* Of two members of a sequence one precedes the other.
LEMMA SomeOrder ==
    ASSUME NEW S, NEW s \in Seq(S), NEW x \in Range(s), NEW y \in Range(s), x # y
    PROVE  Precedes(s, x, y) \/ Precedes(s, y, x)
  <1>1. PICK i, j \in 1..Len(s) : s[i] = x /\ s[j] = y
    BY SMTT(60) DEF Range
  <1>2. i < j \/ j < i
    BY <1>1, SMTT(60)
  <1>3. DOMAIN s = 1..Len(s)
    BY SMTT(60)
  <1>. QED
    BY <1>1, <1>2, <1>3 DEF Precedes
-----------------------------------------------------------------------------
(* The containers.                                                         *)

\* The loop of Keep.
KeepLoop(kept, seq, S) ==
    kept = [i \in 0..Len(seq) |->
               IF i = 0 THEN <<>>
               ELSE IF seq[i] \in S THEN Append(kept[i - 1], seq[i]) ELSE kept[i - 1]]

\* Keep is what its loop ends with.
LEMMA KeepRuns ==
    ASSUME NEW T, NEW seq \in Seq(T), NEW S
    PROVE  \E kept : KeepLoop(kept, seq, S) /\ Keep(seq, S) = kept[Len(seq)]
  <1>. DEFINE g == [i \in 1..Len(seq) |->
                      [r \in Seq(T) |-> IF seq[i] \in S THEN Append(r, seq[i]) ELSE r]]
  <1>1. Len(seq) \in Nat /\ <<>> \in Seq(T)
    BY SMTT(60)
  <1>2. g \in [1..Len(seq) -> [Seq(T) -> Seq(T)]]
    BY SMTT(60)
  <1>3. PICK f \in [0..Len(seq) -> Seq(T)] : Runs(f, <<>>, Len(seq), g)
    <2>. HIDE DEF g
    <2>. QED
      BY <1>1, <1>2, LoopExists
  <1>4. \A i \in 0..Len(seq) : i # 0 =>
            g[i][f[i - 1]] = IF seq[i] \in S THEN Append(f[i - 1], seq[i]) ELSE f[i - 1]
    <2>. TAKE i \in 0..Len(seq)
    <2>1. i # 0 => i \in 1..Len(seq) /\ i - 1 \in 0..Len(seq)
      BY <1>1, SMTT(60)
    <2>. QED
      BY <2>1, <1>3
  <1>5. KeepLoop(f, seq, S)
    <2>. HIDE DEF g
    <2>. QED
      BY <1>3, <1>4 DEF Runs, KeepLoop
  <1>6. PICK kept : kept = CHOOSE k : KeepLoop(k, seq, S)
    OBVIOUS
  <1>7. KeepLoop(kept, seq, S)
    BY <1>5, <1>6
  <1>8. Keep(seq, S) = kept[Len(seq)]
    BY <1>6 DEF Keep, KeepLoop
  <1>. QED
    BY <1>7, <1>8

\* The steps of that loop.
LEMMA KeepStep ==
    ASSUME NEW T, NEW seq \in Seq(T), NEW S, NEW kept, KeepLoop(kept, seq, S)
    PROVE  /\ kept[0] = <<>>
           /\ \A i \in 0..Len(seq) : i + 1 \in 0..Len(seq) =>
                /\ i + 1 \in DOMAIN seq
                /\ kept[i + 1] = IF seq[i + 1] \in S THEN Append(kept[i], seq[i + 1]) ELSE kept[i]
  <1>1. Len(seq) \in Nat /\ DOMAIN seq = 1..Len(seq)
    BY SMTT(60)
  <1>2. kept[0] = <<>>
    BY <1>1, SMTT(60) DEF KeepLoop
  <1>3. ASSUME NEW i \in 0..Len(seq), i + 1 \in 0..Len(seq)
        PROVE  /\ i + 1 \in DOMAIN seq
               /\ kept[i + 1] = IF seq[i + 1] \in S THEN Append(kept[i], seq[i + 1]) ELSE kept[i]
    <2>1. i + 1 # 0 /\ (i + 1) - 1 = i /\ i + 1 \in 1..Len(seq)
      BY <1>3, SMTT(60)
    <2>2. \A j \in 0..Len(seq) : j # 0 =>
             kept[j] = IF seq[j] \in S THEN Append(kept[j - 1], seq[j]) ELSE kept[j - 1]
      BY DEF KeepLoop
    <2>3. kept[i + 1] = IF seq[i + 1] \in S THEN Append(kept[(i + 1) - 1], seq[i + 1])
                        ELSE kept[(i + 1) - 1]
      BY <2>1, <2>2, <1>3
    <2>. QED
      BY <2>1, <2>3, <1>1
  <1>. QED
    BY <1>2, <1>3

\* Keep keeps the members in S, and their order.
LEMMA KeepKeeps ==
    ASSUME NEW T, NEW seq \in Seq(T), NEW S
    PROVE  /\ Keep(seq, S) \in Seq(T)
           /\ Range(Keep(seq, S)) = Range(seq) \cap S
           /\ Within(Keep(seq, S), seq)
  <1>. DEFINE n == Len(seq)
  <1>1. n \in Nat /\ DOMAIN seq = 1..n
    BY SMTT(60)
  <1>2. PICK kept : KeepLoop(kept, seq, S) /\ Keep(seq, S) = kept[n]
    BY KeepRuns
  <1>3. /\ kept[0] = <<>>
        /\ \A i \in 0..n : i + 1 \in 0..n =>
                /\ i + 1 \in DOMAIN seq
                /\ kept[i + 1] = IF seq[i + 1] \in S THEN Append(kept[i], seq[i + 1]) ELSE kept[i]
    BY <1>2, KeepStep, SMTT(60)
  <1>. DEFINE Before(i, x, y) == \E a, b \in 1..i : a < b /\ seq[a] = x /\ seq[b] = y
              Good(i) == /\ kept[i] \in Seq(T)
                         /\ Range(kept[i]) = {seq[j] : j \in 1..i} \cap S
                         /\ \A x, y : Precedes(kept[i], x, y) => Before(i, x, y)
              P == {i \in 0..n : Good(i)}
  <1>4. 0 \in P
    <2>1. {seq[j] : j \in 1..0} = {}
      BY SMTT(60)
    <2>2. Good(0)
      BY <2>1, <1>3, Nothing, SMTT(60)
    <2>. QED
      BY <2>2, <1>1, SMTT(60)
  <1>5. ASSUME NEW i \in 0..n, i + 1 \in 0..n, i \in P PROVE i + 1 \in P
    <2>. DEFINE e == seq[i + 1]
    <2>0. i + 1 \in DOMAIN seq /\ e \in T /\ kept[i] \in Seq(T)
      BY <1>3, <1>5, SMTT(60)
    <2>1. {seq[j] : j \in 1..i + 1} = {seq[j] : j \in 1..i} \cup {e}
      <3>1. 1..i + 1 = (1..i) \cup {i + 1}
        BY SMTT(60)
      <3>. QED
        BY <3>1
    <2>2. \A x, y : Before(i, x, y) => Before(i + 1, x, y)
      BY SMTT(60)
    <2>3. CASE e \in S
      <3>1. kept[i + 1] = kept[i] \o <<e>> /\ <<e>> \in Seq(T)
        <4>1. kept[i + 1] = Append(kept[i], e)
          BY <1>3, <1>5, <2>3
        <4>. QED
          BY <4>1, <2>0, AppendJoins, SMTT(60)
      <3>2. /\ Range(kept[i + 1]) = Range(kept[i]) \cup Range(<<e>>)
            /\ \A x, y : Precedes(kept[i + 1], x, y) <=>
                  Precedes(kept[i], x, y) \/ Precedes(<<e>>, x, y) \/ (x \in Range(kept[i]) /\ y \in Range(<<e>>))
        <4>. HIDE DEF e
        <4>1. PICK r : r = kept[i]
          OBVIOUS
        <4>2. r \in Seq(T) /\ <<e>> \in Seq(T)
          BY <4>1, <3>1, <2>0
        <4>3. /\ Range(r \o <<e>>) = Range(r) \cup Range(<<e>>)
              /\ \A x, y : Precedes(r \o <<e>>, x, y) <=>
                    Precedes(r, x, y) \/ Precedes(<<e>>, x, y) \/ (x \in Range(r) /\ y \in Range(<<e>>))
          BY <4>2, Joined
        <4>. QED
          BY <4>1, <4>3, <3>1
      <3>3. Range(<<e>>) = {e} /\ \A x, y : ~Precedes(<<e>>, x, y)
        BY Single
      <3>4. Range(kept[i + 1]) = {seq[j] : j \in 1..i + 1} \cap S
        BY <3>2, <3>3, <2>1, <2>3, <1>5, SMTT(60)
      <3>5. ASSUME NEW x, NEW y, Precedes(kept[i + 1], x, y) PROVE Before(i + 1, x, y)
        <4>1. CASE Precedes(kept[i], x, y)
          BY <4>1, <2>2, <1>5, SMTT(60)
        <4>2. CASE x \in Range(kept[i]) /\ y = e
          <5>1. PICK a \in 1..i : seq[a] = x
            BY <4>2, <1>5, SMTT(60)
          <5>2. a \in 1..i + 1 /\ i + 1 \in 1..i + 1 /\ a < i + 1
            BY SMTT(60)
          <5>. QED
            BY <5>1, <5>2, <4>2
        <4>. QED
          BY <4>1, <4>2, <3>2, <3>3, <3>5
      <3>6. kept[i + 1] \in Seq(T)
        BY <3>1, <2>0, SMTT(60)
      <3>. QED
        BY <3>4, <3>5, <3>6, <1>5
    <2>4. CASE e \notin S
      <3>1. kept[i + 1] = kept[i]
        BY <1>3, <1>5, <2>4
      <3>2. Range(kept[i + 1]) = {seq[j] : j \in 1..i + 1} \cap S
        BY <3>1, <2>1, <2>4, <1>5
      <3>3. \A x, y : Precedes(kept[i + 1], x, y) => Before(i + 1, x, y)
        BY <3>1, <2>2, <1>5, SMTT(60)
      <3>. QED
        BY <3>1, <3>2, <3>3, <2>0, <1>5
    <2>. QED
      BY <2>3, <2>4
  <1>6. n \in P
    <2>. HIDE DEF P, n
    <2>1. \A k \in 0..n : k \in P
      BY <1>1, <1>4, <1>5, UpTo
    <2>. QED
      BY <2>1, <1>1, SMTT(60)
  <1>7. {seq[j] : j \in 1..n} = Range(seq)
    BY <1>1 DEF Range
  <1>8. \A x, y : Before(n, x, y) => Precedes(seq, x, y)
    BY <1>1 DEF Precedes
  <1>. QED
    BY <1>2, <1>6, <1>7, <1>8, SMTT(60) DEF Within

\* What is kept and what is not together are as long as the sequence.
LEMMA KeepLength ==
    ASSUME NEW T, NEW seq \in Seq(T), NEW S, NEW R, \A x \in T : x \in R <=> x \notin S
    PROVE  Len(Keep(seq, S)) + Len(Keep(seq, R)) = Len(seq)
  <1>. DEFINE n == Len(seq)
  <1>1. n \in Nat /\ DOMAIN seq = 1..n
    BY SMTT(60)
  <1>2. PICK kept : KeepLoop(kept, seq, S) /\ Keep(seq, S) = kept[n]
    BY KeepRuns
  <1>3. PICK rest : KeepLoop(rest, seq, R) /\ Keep(seq, R) = rest[n]
    BY KeepRuns
  <1>4. /\ kept[0] = <<>>
        /\ \A i \in 0..n : i + 1 \in 0..n =>
                /\ i + 1 \in DOMAIN seq
                /\ kept[i + 1] = IF seq[i + 1] \in S THEN Append(kept[i], seq[i + 1]) ELSE kept[i]
    BY <1>2, KeepStep, SMTT(60)
  <1>5. /\ rest[0] = <<>>
        /\ \A i \in 0..n : i + 1 \in 0..n =>
                rest[i + 1] = IF seq[i + 1] \in R THEN Append(rest[i], seq[i + 1]) ELSE rest[i]
    BY <1>3, KeepStep, SMTT(60)
  <1>. DEFINE Good(i) == kept[i] \in Seq(T) /\ rest[i] \in Seq(T) /\ Len(kept[i]) + Len(rest[i]) = i
              P == {i \in 0..n : Good(i)}
  <1>6. 0 \in P
    <2>1. kept[0] \in Seq(T) /\ rest[0] \in Seq(T) /\ Len(kept[0]) = 0 /\ Len(rest[0]) = 0
      BY <1>4, <1>5, SMTT(60)
    <2>2. Len(kept[0]) + Len(rest[0]) = 0
      BY <2>1, SMTT(60)
    <2>3. 0 \in 0..n
      BY <1>1, SMTT(60)
    <2>. QED
      BY <2>1, <2>2, <2>3
  <1>7. ASSUME NEW i \in 0..n, i + 1 \in 0..n, i \in P PROVE i + 1 \in P
    <2>1. seq[i + 1] \in T
      BY <1>4, <1>7, SMTT(60)
    <2>2. CASE seq[i + 1] \in S
      <3>1. kept[i + 1] = Append(kept[i], seq[i + 1]) /\ rest[i + 1] = rest[i]
        BY <2>1, <2>2, <1>4, <1>5, <1>7
      <3>2. /\ kept[i + 1] \in Seq(T) /\ rest[i + 1] \in Seq(T)
            /\ Len(kept[i + 1]) = Len(kept[i]) + 1 /\ Len(rest[i + 1]) = Len(rest[i])
            /\ Len(kept[i]) \in Nat /\ Len(rest[i]) \in Nat
        BY <3>1, <2>1, <1>7, SMTT(60)
      <3>3. Len(kept[i + 1]) + Len(rest[i + 1]) = i + 1
        <4>1. PICK a \in Nat, b \in Nat : a = Len(kept[i]) /\ b = Len(rest[i])
          BY <3>2
        <4>2. a + b = i
          BY <4>1, <1>7
        <4>3. (a + 1) + b = i + 1 /\ a + (b + 1) = i + 1
          BY <4>2, SMTT(60)
        <4>. QED
          BY <4>1, <4>3, <3>2
      <3>. QED
        BY <3>2, <3>3, <1>7
    <2>3. CASE seq[i + 1] \notin S
      <3>1. rest[i + 1] = Append(rest[i], seq[i + 1]) /\ kept[i + 1] = kept[i]
        BY <2>1, <2>3, <1>4, <1>5, <1>7
      <3>2. /\ rest[i + 1] \in Seq(T) /\ kept[i + 1] \in Seq(T)
            /\ Len(rest[i + 1]) = Len(rest[i]) + 1 /\ Len(kept[i + 1]) = Len(kept[i])
            /\ Len(kept[i]) \in Nat /\ Len(rest[i]) \in Nat
        BY <3>1, <2>1, <1>7, SMTT(60)
      <3>3. Len(kept[i + 1]) + Len(rest[i + 1]) = i + 1
        <4>1. PICK a \in Nat, b \in Nat : a = Len(kept[i]) /\ b = Len(rest[i])
          BY <3>2
        <4>2. a + b = i
          BY <4>1, <1>7
        <4>3. (a + 1) + b = i + 1 /\ a + (b + 1) = i + 1
          BY <4>2, SMTT(60)
        <4>. QED
          BY <4>1, <4>3, <3>2
      <3>. QED
        BY <3>2, <3>3, <1>7
    <2>. QED
      BY <2>2, <2>3
  <1>8. n \in P
    <2>. HIDE DEF P, n
    <2>1. \A k \in 0..n : k \in P
      BY <1>1, <1>6, <1>7, UpTo
    <2>. QED
      BY <2>1, <1>1, SMTT(60)
  <1>. QED
    BY <1>2, <1>3, <1>8

\* The loop of ByKey.
ByKeyLoop(upTo, seq, key, n) ==
    upTo = [k \in 0..n + 1 |->
               IF k = 0 THEN <<>> ELSE upTo[k - 1] \o Keep(seq, {b \in Blocks : key[b] = k - 1})]

\* ByKey is what its loop ends with.
LEMMA ByKeyRuns ==
    ASSUME NEW seq \in Seq(Blocks), NEW key, NEW n \in Nat
    PROVE  \E upTo : ByKeyLoop(upTo, seq, key, n) /\ ByKey(seq, key, n) = upTo[n + 1]
  <1>. DEFINE X == Seq(Blocks)
              At(k) == Keep(seq, {b \in Blocks : key[b] = k - 1})
              g == [k \in 1..n + 1 |-> [r \in X |-> r \o At(k)]]
  <1>1. n + 1 \in Nat /\ <<>> \in X
    BY SMTT(60)
  <1>2. \A k : At(k) \in X
    BY KeepKeeps
  <1>3. g \in [1..n + 1 -> [X -> X]]
    <2>. HIDE DEF At
    <2>. QED
      BY <1>2, SMTT(60)
  <1>4. PICK f \in [0..n + 1 -> X] : Runs(f, <<>>, n + 1, g)
    <2>. HIDE DEF g, X
    <2>. QED
      BY <1>1, <1>3, LoopExists
  <1>5. \A k \in 0..n + 1 : k # 0 => g[k][f[k - 1]] = f[k - 1] \o At(k)
    <2>. TAKE k \in 0..n + 1
    <2>1. k # 0 => k \in 1..n + 1 /\ k - 1 \in 0..n + 1
      BY <1>1, SMTT(60)
    <2>. HIDE DEF At, X
    <2>. QED
      BY <2>1, <1>4, SMTT(60)
  <1>6. ByKeyLoop(f, seq, key, n)
    <2>. HIDE DEF g, X
    <2>. QED
      BY <1>4, <1>5 DEF Runs, ByKeyLoop
  <1>7. PICK upTo : upTo = CHOOSE k : ByKeyLoop(k, seq, key, n)
    OBVIOUS
  <1>8. ByKeyLoop(upTo, seq, key, n)
    BY <1>6, <1>7
  <1>9. ByKey(seq, key, n) = upTo[n + 1]
    BY <1>7 DEF ByKey, ByKeyLoop
  <1>. QED
    BY <1>8, <1>9

\* ByKey has the members whose key is at most n, each as often as they were there.
LEMMA ByKeySorts ==
    ASSUME NEW seq \in Seq(Blocks), NEW key \in [Blocks -> Nat], NEW n \in Nat
    PROVE  /\ ByKey(seq, key, n) \in Seq(Blocks)
           /\ Range(ByKey(seq, key, n)) = {b \in Range(seq) : key[b] <= n}
           /\ Distinct(seq) => Distinct(ByKey(seq, key, n))
  <1>1. PICK upTo : ByKeyLoop(upTo, seq, key, n) /\ ByKey(seq, key, n) = upTo[n + 1]
    BY ByKeyRuns
  <1>. DEFINE At(k) == Keep(seq, {b \in Blocks : key[b] = k})
              Good(k) == /\ upTo[k] \in Seq(Blocks)
                         /\ Range(upTo[k]) = {b \in Range(seq) : key[b] < k}
                         /\ Distinct(seq) => Distinct(upTo[k])
              P == {k \in 0..n + 1 : Good(k)}
  <1>0. Range(seq) \subseteq Blocks
    BY RangeTyped
  <1>2. \A k : At(k) \in Seq(Blocks) /\ Range(At(k)) = Range(seq) \cap {b \in Blocks : key[b] = k}
               /\ Within(At(k), seq)
    BY KeepKeeps
  <1>3. 0 \in P
    <2>1. upTo[0] = <<>>
      BY <1>1, SMTT(60) DEF ByKeyLoop
    <2>2. Range(upTo[0]) = {} /\ Distinct(upTo[0])
      BY <2>1, Nothing DEF Distinct
    <2>3. {b \in Range(seq) : key[b] < 0} = {}
      BY <1>0, SMTT(60)
    <2>4. 0 \in 0..n + 1 /\ upTo[0] \in Seq(Blocks)
      BY <2>1, SMTT(60)
    <2>. QED
      BY <2>2, <2>3, <2>4
  <1>4. ASSUME NEW k \in 0..n + 1, k + 1 \in 0..n + 1, k \in P PROVE k + 1 \in P
    <2>1. upTo[k + 1] = upTo[k] \o At(k)
      <3>1. \A j \in 0..n + 1 : j # 0 =>
               upTo[j] = upTo[j - 1] \o Keep(seq, {b \in Blocks : key[b] = j - 1})
        BY <1>1 DEF ByKeyLoop
      <3>2. k + 1 # 0 /\ (k + 1) - 1 = k
        BY SMTT(60)
      <3>3. upTo[k + 1] = upTo[(k + 1) - 1] \o Keep(seq, {b \in Blocks : key[b] = (k + 1) - 1})
        BY <3>1, <3>2, <1>4
      <3>. QED
        BY <3>2, <3>3
    <2>2. PICK r : r = upTo[k]
      OBVIOUS
    <2>3. PICK s : s = At(k)
      OBVIOUS
    <2>4. r \in Seq(Blocks) /\ s \in Seq(Blocks) /\ upTo[k + 1] = r \o s
      BY <2>1, <2>2, <2>3, <1>2, <1>4
    <2>5. Range(r \o s) = Range(r) \cup Range(s)
      BY <2>4, Joined
    <2>6. Range(r) = {b \in Range(seq) : key[b] < k} /\ Range(s) = Range(seq) \cap {b \in Blocks : key[b] = k}
      BY <2>2, <2>3, <1>2, <1>4
    <2>7. \A b \in Blocks : key[b] < k + 1 <=> key[b] < k \/ key[b] = k
      BY SMTT(60)
    <2>8. \A b \in Blocks : ~(key[b] < k /\ key[b] = k)
      BY SMTT(60)
    <2>9. Range(upTo[k + 1]) = {b \in Range(seq) : key[b] < k + 1}
      BY <2>4, <2>5, <2>6, <2>7, <1>0
    <2>10. Distinct(seq) => Distinct(upTo[k + 1])
      <3>1. Range(r) \cap Range(s) = {}
        BY <2>6, <2>8, <1>0
      <3>2. Distinct(seq) => Distinct(s)
        BY <2>3, <1>2, WithinDistinct
      <3>3. Distinct(seq) => Distinct(r)
        BY <2>2, <1>4
      <3>4. Distinct(seq) => Distinct(r \o s)
        BY <3>1, <3>2, <3>3, <2>4, DistinctJoined
      <3>. QED
        BY <3>4, <2>4
    <2>11. upTo[k + 1] \in Seq(Blocks)
      BY <2>4, SMTT(60)
    <2>. QED
      BY <2>9, <2>10, <2>11, <1>4
  <1>5. n + 1 \in P
    <2>. HIDE DEF P
    <2>1. n + 1 \in Nat /\ n + 1 \in 0..n + 1
      BY SMTT(60)
    <2>2. \A k \in 0..n + 1 : k \in P
      BY <2>1, <1>3, <1>4, UpTo
    <2>. QED
      BY <2>1, <2>2
  <1>6. \A b \in Blocks : key[b] < n + 1 <=> key[b] <= n
    BY SMTT(60)
  <1>7. {b \in Range(seq) : key[b] < n + 1} = {b \in Range(seq) : key[b] <= n}
    BY <1>0, <1>6
  <1>. QED
    BY <1>1, <1>5, <1>7

-----------------------------------------------------------------------------
(* Waking what waits.                                                      *)

Hashes == Blocks \cup {NoUncles}
Waking == [woken : Seq(Blocks), unknown : Seq(Blocks)]

\* One turn of the loop does nothing, or moves the children of the n-th hash.
LEMMA WakeMoves ==
    ASSUME NEW roots \in Seq(Hashes), NEW r \in Waking, NEW n \in Nat, n # 0
    PROVE  \/ n > Len(roots \o r.woken) /\ Wake(r, roots, n) = r
           \/ /\ n \in 1..Len(roots \o r.woken)
              /\ \E new, rest \in Seq(Blocks) :
                    /\ Wake(r, roots, n) = [woken |-> r.woken \o new, unknown |-> rest]
                    /\ Range(new) = {c \in Range(r.unknown) : Parent[c] = (roots \o r.woken)[n]}
                    /\ Range(rest) = {c \in Range(r.unknown) : Parent[c] # (roots \o r.woken)[n]}
                    /\ Within(new, r.unknown) /\ Within(rest, r.unknown)
                    /\ Len(new) + Len(rest) = Len(r.unknown)
  <1>. DEFINE list == roots \o r.woken
              children == {b \in Blocks : Parent[b] = list[n]}
  <1>1. r.woken \in Seq(Blocks) /\ r.unknown \in Seq(Blocks)
    BY DEF Waking
  <1>2. list \in Seq(Hashes) /\ Len(list) \in Nat
    <2>1. Blocks \subseteq Hashes
      BY DEF Hashes
    <2>2. r.woken \in Seq(Hashes)
      BY <1>1, <2>1, WiderSeq
    <2>. QED
      BY <2>2, SMTT(60)
  <1>3. CASE n > Len(list)
    BY <1>3 DEF Wake
  <1>4. CASE ~(n > Len(list))
    <2>. DEFINE new == Keep(r.unknown, children)
                rest == Keep(r.unknown, Blocks \ children)
    <2>1. n \in 1..Len(list)
      BY <1>2, <1>4, SMTT(60)
    <2>2. Wake(r, roots, n) = [woken |-> r.woken \o new, unknown |-> rest]
      BY <1>4 DEF Wake
    <2>3. /\ new \in Seq(Blocks) /\ rest \in Seq(Blocks)
          /\ Range(new) = Range(r.unknown) \cap children
          /\ Range(rest) = Range(r.unknown) \cap (Blocks \ children)
          /\ Within(new, r.unknown) /\ Within(rest, r.unknown)
      <3>. HIDE DEF children
      <3>. QED
        BY <1>1, KeepKeeps
    <2>4. Len(new) + Len(rest) = Len(r.unknown)
      <3>. HIDE DEF children
      <3>1. \A x \in Blocks : x \in Blocks \ children <=> x \notin children
        OBVIOUS
      <3>. QED
        BY <3>1, <1>1, KeepLength, SMTT(60)
    <2>5. Range(r.unknown) \subseteq Blocks
      BY <1>1, RangeTyped
    <2>6. /\ Range(new) = {c \in Range(r.unknown) : Parent[c] = list[n]}
          /\ Range(rest) = {c \in Range(r.unknown) : Parent[c] # list[n]}
      <3>. HIDE DEF new, rest, list
      <3>. QED
        BY <2>3, <2>5
    <2>. HIDE DEF new, rest, list
    <2>7. \E x, y \in Seq(Blocks) :
             /\ Wake(r, roots, n) = [woken |-> r.woken \o x, unknown |-> y]
             /\ Range(x) = {c \in Range(r.unknown) : Parent[c] = list[n]}
             /\ Range(y) = {c \in Range(r.unknown) : Parent[c] # list[n]}
             /\ Within(x, r.unknown) /\ Within(y, r.unknown)
             /\ Len(x) + Len(y) = Len(r.unknown)
      BY <2>2, <2>3, <2>4, <2>6
    <2>. QED
      BY <2>1, <2>7 DEF list
  <1>. QED
    BY <1>3, <1>4

\* A step of the loop keeps a pair of sequences of blocks.
LEMMA WakeTyped ==
    ASSUME NEW roots \in Seq(Hashes), NEW r \in Waking, NEW n \in Nat, n # 0
    PROVE  Wake(r, roots, n) \in Waking
  <1>1. \/ n > Len(roots \o r.woken) /\ Wake(r, roots, n) = r
        \/ /\ n \in 1..Len(roots \o r.woken)
           /\ \E new, rest \in Seq(Blocks) :
                 /\ Wake(r, roots, n) = [woken |-> r.woken \o new, unknown |-> rest]
                 /\ Range(new) = {c \in Range(r.unknown) : Parent[c] = (roots \o r.woken)[n]}
                 /\ Range(rest) = {c \in Range(r.unknown) : Parent[c] # (roots \o r.woken)[n]}
                 /\ Within(new, r.unknown) /\ Within(rest, r.unknown)
                 /\ Len(new) + Len(rest) = Len(r.unknown)
    BY WakeMoves
  <1>2. ASSUME NEW new \in Seq(Blocks), NEW rest \in Seq(Blocks),
               Wake(r, roots, n) = [woken |-> r.woken \o new, unknown |-> rest]
        PROVE  Wake(r, roots, n) \in Waking
    BY <1>2, SMTT(60) DEF Waking
  <1>. QED
    BY <1>1, <1>2

\* What the loop has done after n turns: it moved blocks from unknown to woken,
\* each behind its parent or a child of a root, and nothing that still waits is
\* a child of the first n hashes.
Woke(r, unknown, roots, n) ==
    /\ r \in Waking
    /\ Within(r.unknown, unknown)
    /\ Range(r.woken) \cup Range(r.unknown) = Range(unknown)
    /\ Len(r.woken) + Len(r.unknown) = Len(unknown)
    /\ Distinct(unknown) => Distinct(r.woken \o r.unknown)
    /\ \A c \in Range(r.woken) : Parent[c] \in Range(roots) \/ Precedes(r.woken, Parent[c], c)
    /\ \A m \in 1..n : m <= Len(roots \o r.woken) =>
          \A c \in Range(r.unknown) : Parent[c] # (roots \o r.woken)[m]

\* The loop starts with nothing woken and everything waiting.
LEMMA WokeStart ==
    ASSUME NEW unknown \in Seq(Blocks), NEW roots \in Seq(Hashes)
    PROVE  Woke([woken |-> <<>>, unknown |-> unknown], unknown, roots, 0)
  <1>. DEFINE r == [woken |-> <<>>, unknown |-> unknown]
  <1>1. r \in Waking /\ r.woken = <<>> /\ r.unknown = unknown
    BY SMTT(60) DEF Waking
  <1>2. Within(unknown, unknown)
    BY WithinReflexive
  <1>3. Range(r.woken) = {}
    BY <1>1, Nothing
  <1>4. Len(r.woken) + Len(r.unknown) = Len(unknown)
    BY <1>1, SMTT(60)
  <1>5. r.woken \o r.unknown = unknown
    BY <1>1, JoinEmpty, SMTT(60)
  <1>6. 1..0 = {}
    BY SMTT(60)
  <1>. HIDE DEF r
  <1>. QED
    BY <1>1, <1>2, <1>3, <1>4, <1>5, <1>6 DEF Woke, r

\* Each hash that is looked up keeps what the loop has established so far.
LEMMA WokeStep ==
    ASSUME NEW unknown \in Seq(Blocks), NEW roots \in Seq(Hashes), NEW r, NEW n \in Nat,
           Woke(r, unknown, roots, n)
    PROVE  Woke(Wake(r, roots, n + 1), unknown, roots, n + 1)
  <1>. DEFINE list == roots \o r.woken
  <1>1. r \in Waking /\ r.woken \in Seq(Blocks) /\ r.unknown \in Seq(Blocks)
    BY DEF Woke, Waking
  <1>2. list \in Seq(Hashes) /\ Len(list) \in Nat /\ r.woken \in Seq(Hashes)
    <2>1. Blocks \subseteq Hashes
      BY DEF Hashes
    <2>2. r.woken \in Seq(Hashes)
      BY <1>1, <2>1, WiderSeq
    <2>. QED
      BY <2>2, SMTT(60)
  <1>3. n + 1 \in Nat /\ n + 1 # 0
    BY SMTT(60)
  <1>4. CASE n + 1 > Len(list) /\ Wake(r, roots, n + 1) = r
    <2>1. \A m \in 1..n + 1 : m <= Len(list) => m \in 1..n
      BY <1>2, <1>4, SMTT(60)
    <2>. QED
      BY <2>1, <1>4 DEF Woke
  <1>5. ASSUME n + 1 \in 1..Len(list), NEW new \in Seq(Blocks), NEW rest \in Seq(Blocks),
               Wake(r, roots, n + 1) = [woken |-> r.woken \o new, unknown |-> rest],
               Range(new) = {c \in Range(r.unknown) : Parent[c] = list[n + 1]},
               Range(rest) = {c \in Range(r.unknown) : Parent[c] # list[n + 1]},
               Within(new, r.unknown), Within(rest, r.unknown),
               Len(new) + Len(rest) = Len(r.unknown)
        PROVE  Woke(Wake(r, roots, n + 1), unknown, roots, n + 1)
    <2>. DEFINE w == r.woken \o new
    <2>1. PICK v : v = Wake(r, roots, n + 1)
      OBVIOUS
    <2>2. w \in Seq(Blocks) /\ v \in Waking /\ v.woken = w /\ v.unknown = rest
      <3>1. w \in Seq(Blocks)
        BY <1>1, SMTT(60)
      <3>2. v = [woken |-> w, unknown |-> rest]
        BY <2>1, <1>5
      <3>. HIDE DEF w
      <3>. QED
        BY <3>1, <3>2 DEF Waking
    <2>3. /\ Range(w) = Range(r.woken) \cup Range(new)
          /\ \A x, y : Precedes(w, x, y) <=>
                Precedes(r.woken, x, y) \/ Precedes(new, x, y) \/ (x \in Range(r.woken) /\ y \in Range(new))
      BY <1>1, Joined
    <2>4. Within(rest, unknown)
      BY <1>5, WithinTransitive DEF Woke
    <2>5. Range(new) \cup Range(rest) = Range(r.unknown) /\ Range(new) \cap Range(rest) = {}
      BY <1>5
    <2>6. Range(w) \cup Range(rest) = Range(unknown)
      BY <2>3, <2>5 DEF Woke
    <2>7. Len(w) + Len(rest) = Len(unknown)
      <3>1. PICK a \in Nat, b \in Nat, c \in Nat : a = Len(r.woken) /\ b = Len(new) /\ c = Len(rest)
        BY <1>1, SMTT(60)
      <3>2. Len(w) = a + b
        BY <3>1, <1>1, SMTT(60)
      <3>3. b + c = Len(r.unknown) /\ a + Len(r.unknown) = Len(unknown)
        BY <3>1, <1>5 DEF Woke
      <3>4. (a + b) + c = a + (b + c)
        BY SMTT(60)
      <3>. QED
        BY <3>1, <3>2, <3>3, <3>4
    <2>8. Distinct(unknown) => Distinct(w \o rest)
      <3>. SUFFICES ASSUME Distinct(unknown) PROVE Distinct(w \o rest)
        OBVIOUS
      <3>1. Distinct(r.woken \o r.unknown)
        BY DEF Woke
      <3>2. Distinct(r.woken) /\ Distinct(r.unknown) /\ Range(r.woken) \cap Range(r.unknown) = {}
        BY <3>1, <1>1, DistinctJoined
      <3>3. Distinct(new) /\ Distinct(rest)
        BY <3>2, <1>5, WithinDistinct
      <3>4. Range(r.woken) \cap Range(new) = {} /\ Range(w) \cap Range(rest) = {}
        BY <3>2, <2>3, <2>5
      <3>5. Distinct(w)
        BY <3>2, <3>3, <3>4, <1>1, DistinctJoined
      <3>. HIDE DEF w
      <3>. QED
        BY <3>3, <3>4, <3>5, <2>2, DistinctJoined
    <2>9. ASSUME NEW c \in Range(w)
          PROVE  Parent[c] \in Range(roots) \/ Precedes(w, Parent[c], c)
      <3>1. CASE c \in Range(r.woken)
        BY <3>1, <2>3 DEF Woke
      <3>2. CASE c \in Range(new)
        <4>1. Parent[c] = list[n + 1]
          BY <3>2, <1>5
        <4>2. list[n + 1] \in Range(list)
          <5>. HIDE DEF list
          <5>. QED
            BY <1>2, <1>5, InRange
        <4>3. Range(list) = Range(roots) \cup Range(r.woken)
          BY <1>2, Joined
        <4>. QED
          BY <4>1, <4>2, <4>3, <3>2, <2>3
      <3>. QED
        BY <3>1, <3>2, <2>3
    <2>10. ASSUME NEW m \in 1..n + 1, m <= Len(roots \o w), NEW c \in Range(rest)
           PROVE  Parent[c] # (roots \o w)[m]
      <3>1. m <= Len(list) /\ m \in 1..Len(list)
        BY <1>2, <1>5, SMTT(60)
      <3>2. new \in Seq(Hashes)
        <4>1. Blocks \subseteq Hashes
          BY DEF Hashes
        <4>. QED
          BY <4>1, WiderSeq
      <3>3. roots \o w = list \o new
        <4>1. PICK x : x = r.woken
          OBVIOUS
        <4>2. (roots \o x) \o new = roots \o (x \o new)
          <5>1. x \in Seq(Hashes)
            BY <4>1, <1>2
          <5>. QED
            BY <5>1, <3>2, SMTT(60)
        <4>. QED
          BY <4>1, <4>2
      <3>4. (list \o new)[m] = list[m]
        <4>. HIDE DEF list
        <4>. QED
          BY <3>1, <3>2, <1>2, SMTT(60)
      <3>5. CASE m = n + 1
        BY <3>3, <3>4, <3>5, <1>5
      <3>6. CASE m \in 1..n
        <4>1. c \in Range(r.unknown)
          BY <1>5
        <4>2. Parent[c] # list[m]
          BY <4>1, <3>1, <3>6 DEF Woke
        <4>. QED
          BY <4>2, <3>3, <3>4
      <3>7. m = n + 1 \/ m \in 1..n
        BY SMTT(60)
      <3>. QED
        BY <3>5, <3>6, <3>7
    <2>. HIDE DEF w
    <2>11. Woke(v, unknown, roots, n + 1)
      BY <2>2, <2>4, <2>6, <2>7, <2>8, <2>9, <2>10 DEF Woke
    <2>. QED
      BY <2>1, <2>11
  <1>6. \/ n + 1 > Len(list) /\ Wake(r, roots, n + 1) = r
        \/ /\ n + 1 \in 1..Len(list)
           /\ \E new, rest \in Seq(Blocks) :
                    /\ Wake(r, roots, n + 1) = [woken |-> r.woken \o new, unknown |-> rest]
                    /\ Range(new) = {c \in Range(r.unknown) : Parent[c] = list[n + 1]}
                    /\ Range(rest) = {c \in Range(r.unknown) : Parent[c] # list[n + 1]}
                    /\ Within(new, r.unknown) /\ Within(rest, r.unknown)
                    /\ Len(new) + Len(rest) = Len(r.unknown)
    BY <1>1, <1>3, WakeMoves
  <1>. QED
    BY <1>4, <1>5, <1>6

\* What noteReady and collectUnknownBad find: the blocks that waited are woken or
\* wait on, each woken block is a child of a root or comes behind its parent, and
\* no child of a root or of a woken block waits on.
Wakes(r, unknown, roots) ==
    /\ r \in Waking
    /\ Within(r.unknown, unknown)
    /\ Range(r.woken) \cup Range(r.unknown) = Range(unknown)
    /\ Distinct(unknown) => Distinct(r.woken \o r.unknown)
    /\ \A c \in Range(r.woken) : Parent[c] \in Range(roots) \/ Precedes(r.woken, Parent[c], c)
    /\ \A c \in Range(r.unknown) : Parent[c] \notin Range(roots) \cup Range(r.woken)

\* The loop of WakeAll.
WakeLoop(loop, unknown, roots) ==
    loop = [n \in 0..Len(roots) + Len(unknown) |->
               IF n = 0 THEN [woken |-> <<>>, unknown |-> unknown] ELSE Wake(loop[n - 1], roots, n)]

\* The loop of noteReady and collectUnknownBad runs through all its steps.
LEMMA WakeAllRuns ==
    ASSUME NEW unknown \in Seq(Blocks), NEW roots \in Seq(Hashes)
    PROVE  \E loop : /\ WakeLoop(loop, unknown, roots)
                     /\ WakeAll(unknown, roots) = loop[Len(roots) + Len(unknown)]
  <1>. DEFINE N == Len(roots) + Len(unknown)
              start == [woken |-> <<>>, unknown |-> unknown]
              g == [n \in 1..N |-> [r \in Waking |-> Wake(r, roots, n)]]
  <1>1. N \in Nat
    BY SMTT(60)
  <1>2. start \in Waking
    BY SMTT(60) DEF Waking
  <1>3. ASSUME NEW n \in 1..N, NEW r \in Waking PROVE Wake(r, roots, n) \in Waking
    <2>. HIDE DEF N
    <2>1. n \in Nat /\ n # 0
      BY <1>1, SMTT(60)
    <2>. QED
      BY <2>1, WakeTyped
  <1>4. g \in [1..N -> [Waking -> Waking]]
    BY <1>3
  <1>. HIDE DEF N, start
  <1>5. PICK f \in [0..N -> Waking] : Runs(f, start, N, g)
    <2>. HIDE DEF g
    <2>. QED
      BY <1>1, <1>2, <1>4, LoopExists
  <1>6. \A n \in 0..N : n # 0 => g[n][f[n - 1]] = Wake(f[n - 1], roots, n)
    <2>. TAKE n \in 0..N
    <2>1. n # 0 => n \in 1..N /\ n - 1 \in 0..N
      BY <1>1, SMTT(60)
    <2>. QED
      BY <2>1, <1>5
  <1>7. WakeLoop(f, unknown, roots)
    <2>. HIDE DEF g
    <2>. QED
      BY <1>5, <1>6 DEF Runs, WakeLoop, N, start
  <1>8. PICK loop : loop = CHOOSE k : WakeLoop(k, unknown, roots)
    OBVIOUS
  <1>9. WakeLoop(loop, unknown, roots)
    BY <1>7, <1>8
  <1>10. WakeAll(unknown, roots) = loop[Len(roots) + Len(unknown)]
    BY <1>8 DEF WakeAll, WakeLoop
  <1>. QED
    BY <1>9, <1>10

\* When the loop ends nothing that waits has its parent among the roots or the woken.
LEMMA WakeAllWakes ==
    ASSUME NEW unknown \in Seq(Blocks), NEW roots \in Seq(Hashes)
    PROVE  Wakes(WakeAll(unknown, roots), unknown, roots)
  <1>. DEFINE N == Len(roots) + Len(unknown)
  <1>1. N \in Nat
    BY SMTT(60)
  <1>2. PICK loop : WakeLoop(loop, unknown, roots) /\ WakeAll(unknown, roots) = loop[N]
    BY WakeAllRuns
  <1>. DEFINE P == {n \in 0..N : Woke(loop[n], unknown, roots, n)}
  <1>3. loop[0] = [woken |-> <<>>, unknown |-> unknown] /\ \A n \in 0..N : n # 0 => loop[n] = Wake(loop[n - 1], roots, n)
    <2>1. loop = [n \in 0..N |-> IF n = 0 THEN [woken |-> <<>>, unknown |-> unknown] ELSE Wake(loop[n - 1], roots, n)]
      BY <1>2 DEF WakeLoop
    <2>2. 0 \in 0..N
      BY <1>1, SMTT(60)
    <2>. HIDE DEF N
    <2>. QED
      BY <2>1, <2>2
  <1>. HIDE DEF N
  <1>4. 0 \in P
    <2>1. 0 \in 0..N
      BY <1>1, SMTT(60)
    <2>2. Woke(loop[0], unknown, roots, 0)
      BY <1>3, WokeStart
    <2>. QED
      BY <2>1, <2>2
  <1>5. ASSUME NEW n \in 0..N, n + 1 \in 0..N, n \in P PROVE n + 1 \in P
    <2>1. n + 1 # 0 /\ (n + 1) - 1 = n /\ n \in Nat
      BY <1>1, SMTT(60)
    <2>2. loop[n + 1] = Wake(loop[(n + 1) - 1], roots, n + 1)
      BY <2>1, <1>3, <1>5
    <2>3. Woke(loop[n], unknown, roots, n)
      BY <1>5
    <2>4. Woke(Wake(loop[n], roots, n + 1), unknown, roots, n + 1)
      BY <2>1, <2>3, WokeStep
    <2>5. Woke(loop[n + 1], unknown, roots, n + 1)
      BY <2>1, <2>2, <2>4
    <2>. QED
      BY <2>5, <1>5
  <1>6. N \in P
    <2>. HIDE DEF P
    <2>1. \A k \in 0..N : k \in P
      BY <1>1, <1>4, <1>5, UpTo
    <2>. QED
      BY <2>1, <1>1, SMTT(60)
  <1>7. PICK r : r = WakeAll(unknown, roots)
    OBVIOUS
  <1>8. Woke(r, unknown, roots, N)
    BY <1>2, <1>6, <1>7
  <1>9. r.woken \in Seq(Blocks) /\ r.unknown \in Seq(Blocks) /\ r.woken \in Seq(Hashes)
    <2>1. Blocks \subseteq Hashes
      BY DEF Hashes
    <2>2. r.woken \in Seq(Blocks) /\ r.unknown \in Seq(Blocks)
      BY <1>8 DEF Woke, Waking
    <2>. QED
      BY <2>1, <2>2, WiderSeq
  <1>. DEFINE list == roots \o r.woken
  <1>10. Len(list) <= N
    <2>1. PICK a \in Nat, b \in Nat, c \in Nat : a = Len(roots) /\ b = Len(r.woken) /\ c = Len(r.unknown)
      BY <1>9, SMTT(60)
    <2>2. Len(list) = a + b
      BY <2>1, <1>9, SMTT(60)
    <2>3. b + c = Len(unknown) /\ N = a + Len(unknown)
      BY <2>1, <1>8 DEF Woke, N
    <2>4. a + b <= a + (b + c)
      BY SMTT(60)
    <2>5. N = a + (b + c)
      BY <2>3
    <2>. HIDE DEF list
    <2>. QED
      BY <2>2, <2>4, <2>5
  <1>11. ASSUME NEW c \in Range(r.unknown) PROVE Parent[c] \notin Range(roots) \cup Range(r.woken)
    <2>. SUFFICES ASSUME Parent[c] \in Range(roots) \cup Range(r.woken) PROVE FALSE
      OBVIOUS
    <2>1. Parent[c] \in Range(list)
      BY <1>9, Joined
    <2>2. list \in Seq(Hashes)
      BY <1>9, SMTT(60)
    <2>3. PICK m \in 1..Len(list) : list[m] = Parent[c]
      <3>. HIDE DEF list
      <3>. QED
        BY <2>1, <2>2, SMTT(60) DEF Range
    <2>4. m \in 1..N /\ m <= Len(list)
      <3>. HIDE DEF list
      <3>. QED
        BY <2>2, <1>1, <1>10, SMTT(60)
    <2>. QED
      BY <2>3, <2>4, <1>8 DEF Woke
  <1>12. Wakes(r, unknown, roots)
    BY <1>8, <1>11 DEF Wakes, Woke
  <1>. QED
    BY <1>7, <1>12
-----------------------------------------------------------------------------
(* The queue as its fields.                                                *)

\* The blocks of the entries of m_verifying.
BlocksOf(v) == [i \in DOMAIN v |-> v[i].block]

\* The pipeline of a queue.
Pipe(u) == u.verified \o BlocksOf(u.verifying) \o u.unverified

\* The types of the fields.
LEMMA QueueFields ==
    ASSUME NEW u \in Queue
    PROVE  /\ u.ready \subseteq Blocks /\ u.draining \subseteq Blocks /\ u.bad \subseteq Hashes
           /\ u.unknown \in Seq(Blocks) /\ u.unverified \in Seq(Blocks)
           /\ u.verified \in Seq(Blocks) /\ u.verifying \in Seq(Entries)
  BY DEF Queue, Hashes

\* The blocks of the entries are as the entries are.
LEMMA BlocksOfEntries ==
    ASSUME NEW v \in Seq(Entries)
    PROVE  /\ BlocksOf(v) \in Seq(Blocks)
           /\ Range(BlocksOf(v)) = {e.block : e \in Range(v)}
           /\ \A x, y : Precedes(BlocksOf(v), x, y) <=>
                 \E d, e : Precedes(v, d, e) /\ d.block = x /\ e.block = y
  <1>1. DOMAIN v = 1..Len(v) /\ Len(v) \in Nat /\ \A i \in 1..Len(v) : v[i] \in Entries
    BY SMTT(60)
  <1>2. \A e \in Entries : e.block \in Blocks
    BY DEF Entries
  <1>3. BlocksOf(v) = [i \in 1..Len(v) |-> v[i].block]
    BY <1>1 DEF BlocksOf
  <1>4. BlocksOf(v) \in Seq(Blocks) /\ DOMAIN BlocksOf(v) = DOMAIN v
    BY <1>1, <1>2, <1>3, SMTT(60)
  <1>5. Range(BlocksOf(v)) = {e.block : e \in Range(v)}
    BY <1>1, <1>3, SMTT(60) DEF Range
  <1>6. \A i \in DOMAIN v : BlocksOf(v)[i] = v[i].block
    BY <1>1, <1>3
  <1>7. ASSUME NEW x, NEW y
        PROVE  Precedes(BlocksOf(v), x, y) <=> \E d, e : Precedes(v, d, e) /\ d.block = x /\ e.block = y
    BY <1>4, <1>6 DEF Precedes
  <1>. QED
    BY <1>4, <1>5, <1>7

\* Entries within entries have blocks within their blocks.
LEMMA BlocksOfWithin ==
    ASSUME NEW v \in Seq(Entries), NEW w \in Seq(Entries), Within(v, w)
    PROVE  Within(BlocksOf(v), BlocksOf(w))
  <1>1. /\ Range(BlocksOf(v)) = {e.block : e \in Range(v)}
        /\ \A x, y : Precedes(BlocksOf(v), x, y) <=>
              \E d, e : Precedes(v, d, e) /\ d.block = x /\ e.block = y
    BY BlocksOfEntries
  <1>2. /\ Range(BlocksOf(w)) = {e.block : e \in Range(w)}
        /\ \A x, y : Precedes(BlocksOf(w), x, y) <=>
              \E d, e : Precedes(w, d, e) /\ d.block = x /\ e.block = y
    BY BlocksOfEntries
  <1>3. Range(BlocksOf(v)) \subseteq Range(BlocksOf(w))
    BY <1>1, <1>2 DEF Within
  <1>4. ASSUME NEW x, NEW y, Precedes(BlocksOf(v), x, y) PROVE Precedes(BlocksOf(w), x, y)
    <2>1. PICK d, e : Precedes(v, d, e) /\ d.block = x /\ e.block = y
      BY <1>1, <1>4, SMTT(60)
    <2>2. Precedes(w, d, e)
      BY <2>1 DEF Within
    <2>. QED
      BY <2>1, <2>2, <1>2
  <1>. QED
    BY <1>3, <1>4 DEF Within

\* The blocks of joined entries are the joined blocks.
LEMMA BlocksOfJoined ==
    ASSUME NEW v \in Seq(Entries), NEW w \in Seq(Entries)
    PROVE  BlocksOf(v \o w) = BlocksOf(v) \o BlocksOf(w)
  <1>1. /\ DOMAIN v = 1..Len(v) /\ DOMAIN w = 1..Len(w) /\ Len(v) \in Nat /\ Len(w) \in Nat
        /\ v \o w \in Seq(Entries) /\ Len(v \o w) = Len(v) + Len(w)
        /\ DOMAIN (v \o w) = 1..Len(v) + Len(w)
    BY SMTT(60)
  <1>2. /\ BlocksOf(v) \in Seq(Blocks) /\ BlocksOf(w) \in Seq(Blocks) /\ BlocksOf(v \o w) \in Seq(Blocks)
    BY <1>1, BlocksOfEntries
  <1>3. Len(BlocksOf(v)) = Len(v) /\ Len(BlocksOf(w)) = Len(w) /\ Len(BlocksOf(v \o w)) = Len(v) + Len(w)
    BY <1>1, SMTT(60) DEF BlocksOf
  <1>4. ASSUME NEW i \in 1..Len(v) + Len(w) PROVE BlocksOf(v \o w)[i] = (BlocksOf(v) \o BlocksOf(w))[i]
    <2>1. BlocksOf(v \o w)[i] = (v \o w)[i].block
      BY <1>1 DEF BlocksOf
    <2>2. CASE i <= Len(v)
      <3>1. i \in 1..Len(v) /\ (v \o w)[i] = v[i] /\ (BlocksOf(v) \o BlocksOf(w))[i] = BlocksOf(v)[i]
        BY <2>2, <1>1, <1>2, <1>3, SMTT(60)
      <3>. QED
        BY <3>1, <2>1, <1>1 DEF BlocksOf
    <2>3. CASE ~(i <= Len(v))
      <3>1. i - Len(v) \in 1..Len(w) /\ (v \o w)[i] = w[i - Len(v)]
        BY <2>3, <1>1, SMTT(60)
      <3>2. (BlocksOf(v) \o BlocksOf(w))[i] = BlocksOf(w)[i - Len(v)]
        BY <2>3, <1>1, <1>2, <1>3, SMTT(60)
      <3>. QED
        BY <3>1, <3>2, <2>1, <1>1 DEF BlocksOf
    <2>. QED
      BY <2>2, <2>3
  <1>5. PICK a \in Seq(Blocks), b \in Seq(Blocks), c \in Seq(Blocks) :
           a = BlocksOf(v) /\ b = BlocksOf(w) /\ c = BlocksOf(v \o w)
    BY <1>2
  <1>6. a \o b \in Seq(Blocks) /\ Len(a \o b) = Len(c) /\ Len(c) = Len(v) + Len(w)
    <2>1. a \o b \in Seq(Blocks) /\ Len(a \o b) = Len(a) + Len(b)
      BY SMTT(60)
    <2>2. Len(a) = Len(v) /\ Len(b) = Len(w) /\ Len(c) = Len(v) + Len(w)
      BY <1>3, <1>5
    <2>. QED
      BY <2>1, <2>2
  <1>7. \A i \in 1..Len(c) : c[i] = (a \o b)[i]
    BY <1>4, <1>5, <1>6
  <1>8. c = a \o b
    BY <1>6, <1>7, SameSequence
  <1>. QED
    BY <1>5, <1>8

\* The block of one entry.
LEMMA BlocksOfOne ==
    ASSUME NEW e \in Entries
    PROVE  <<e>> \in Seq(Entries) /\ BlocksOf(<<e>>) = <<e.block>>
  BY SMTT(60) DEF BlocksOf

\* What is in the pipeline, and in which order.
LEMMA PipeParts ==
    ASSUME NEW u \in Queue
    PROVE  /\ Pipe(u) \in Seq(Blocks) /\ BlocksOf(u.verifying) \in Seq(Blocks)
           /\ Range(Pipe(u)) =
                (Range(u.verified) \cup {e.block : e \in Range(u.verifying)}) \cup Range(u.unverified)
  <1>1. /\ u.unverified \in Seq(Blocks) /\ u.verified \in Seq(Blocks) /\ u.verifying \in Seq(Entries)
    BY QueueFields
  <1>2. BlocksOf(u.verifying) \in Seq(Blocks) /\ Range(BlocksOf(u.verifying)) = {e.block : e \in Range(u.verifying)}
    BY <1>1, BlocksOfEntries
  <1>3. PICK a \in Seq(Blocks), b \in Seq(Blocks), c \in Seq(Blocks) :
           a = u.verified /\ b = BlocksOf(u.verifying) /\ c = u.unverified
    BY <1>1, <1>2
  <1>4. a \o b \in Seq(Blocks) /\ (a \o b) \o c \in Seq(Blocks)
    BY SMTT(60)
  <1>5. Range(a \o b) = Range(a) \cup Range(b)
    BY Joined
  <1>6. Range((a \o b) \o c) = Range(a \o b) \cup Range(c)
    BY <1>4, Joined
  <1>. QED
    BY <1>2, <1>3, <1>4, <1>5, <1>6 DEF Pipe

\* A queue whose three parts are within those of another has its pipeline within the other one.
LEMMA PipeWithin ==
    ASSUME NEW u \in Queue, NEW v \in Queue, Within(v.verified, u.verified),
           Within(v.verifying, u.verifying), Within(v.unverified, u.unverified)
    PROVE  Within(Pipe(v), Pipe(u))
  <1>1. /\ u.unverified \in Seq(Blocks) /\ u.verified \in Seq(Blocks) /\ u.verifying \in Seq(Entries)
        /\ v.unverified \in Seq(Blocks) /\ v.verified \in Seq(Blocks) /\ v.verifying \in Seq(Entries)
    BY QueueFields
  <1>2. /\ BlocksOf(u.verifying) \in Seq(Blocks) /\ BlocksOf(v.verifying) \in Seq(Blocks)
        /\ Within(BlocksOf(v.verifying), BlocksOf(u.verifying))
    BY <1>1, BlocksOfEntries, BlocksOfWithin
  <1>3. Within(v.verified \o BlocksOf(v.verifying), u.verified \o BlocksOf(u.verifying))
    BY <1>1, <1>2, WithinJoined
  <1>4. /\ v.verified \o BlocksOf(v.verifying) \in Seq(Blocks)
        /\ u.verified \o BlocksOf(u.verifying) \in Seq(Blocks)
    BY <1>1, <1>2, SMTT(60)
  <1>. QED
    BY <1>1, <1>3, <1>4, WithinJoined DEF Pipe
-----------------------------------------------------------------------------
(* What purging and releasing may do to a queue.                           *)

\* A block that may have been purged.
Gone(b, bad) == b \in bad \/ Parent[b] \in bad \/ NoUncles \in bad

\* v is u with blocks taken out: what is no longer ready or waiting is bad, and
\* what has left the pipeline was purged; nothing came in or changed places.
Shrinks(u, v) ==
    /\ v \in Queue
    /\ v.draining = u.draining
    /\ u.bad \subseteq v.bad
    /\ v.ready \subseteq u.ready /\ u.ready \subseteq v.ready \cup v.bad
    /\ Within(Pipe(v), Pipe(u))
    /\ Within(v.unknown, u.unknown)
    /\ Range(u.unknown) \subseteq Range(v.unknown) \cup v.bad
    /\ \A b \in Range(Pipe(u)) : b \in Range(Pipe(v)) \/ Gone(b, v.bad)

\* A queue that does not change has not grown.
LEMMA ShrinksReflexive ==
    ASSUME NEW u \in Queue
    PROVE  Shrinks(u, u)
  <1>1. Within(Pipe(u), Pipe(u)) /\ Within(u.unknown, u.unknown)
    BY WithinReflexive
  <1>. QED
    BY <1>1 DEF Shrinks

\* Two shrinking steps make one.
LEMMA ShrinksTransitive ==
    ASSUME NEW u, NEW v, NEW w, Shrinks(u, v), Shrinks(v, w)
    PROVE  Shrinks(u, w)
  <1>1. Within(Pipe(w), Pipe(u)) /\ Within(w.unknown, u.unknown)
    BY WithinTransitive DEF Shrinks
  <1>2. \A b : Gone(b, v.bad) => Gone(b, w.bad)
    BY DEF Shrinks, Gone
  <1>3. w \in Queue /\ w.draining = u.draining /\ u.bad \subseteq w.bad
    BY DEF Shrinks
  <1>4. w.ready \subseteq u.ready /\ u.ready \subseteq w.ready \cup w.bad
    BY DEF Shrinks
  <1>5. Range(u.unknown) \subseteq Range(w.unknown) \cup w.bad
    BY DEF Shrinks
  <1>6. \A b \in Range(Pipe(u)) : b \in Range(Pipe(w)) \/ Gone(b, w.bad)
    BY <1>2 DEF Shrinks
  <1>. QED
    BY <1>1, <1>3, <1>4, <1>5, <1>6 DEF Shrinks

\* Blocks are found bad, and are no longer ready.
LEMMA MarkShrinks ==
    ASSUME NEW u \in Queue, NEW B, B \subseteq Hashes
    PROVE  Shrinks(u, [u EXCEPT !.bad = @ \cup B, !.ready = @ \ B])
  <1>1. PICK v : v = [u EXCEPT !.bad = @ \cup B, !.ready = @ \ B]
    OBVIOUS
  <1>2. /\ v \in Queue /\ v.draining = u.draining /\ v.bad = u.bad \cup B /\ v.ready = u.ready \ B
        /\ v.unknown = u.unknown /\ v.verified = u.verified /\ v.verifying = u.verifying
        /\ v.unverified = u.unverified
    BY <1>1 DEF Queue, Hashes
  <1>3. Pipe(v) = Pipe(u)
    BY <1>2 DEF Pipe
  <1>4. Shrinks(u, v)
    BY <1>2, <1>3, WithinReflexive DEF Shrinks
  <1>. QED
    BY <1>1, <1>4

\* collectUnknownBad only takes out of m_unknown.
LEMMA CollectShrinks ==
    ASSUME NEW u \in Queue, NEW hashes \in Seq(Hashes)
    PROVE  Shrinks(u, CollectUnknownBad(u, hashes))
  <1>1. PICK v : v = CollectUnknownBad(u, hashes)
    OBVIOUS
  <1>2. PICK r : r = WakeAll(u.unknown, hashes)
    OBVIOUS
  <1>3. u.unknown \in Seq(Blocks)
    BY QueueFields
  <1>4. Wakes(r, u.unknown, hashes)
    BY <1>2, <1>3, WakeAllWakes
  <1>5. r.woken \in Seq(Blocks) /\ r.unknown \in Seq(Blocks)
    BY <1>4 DEF Wakes, Waking
  <1>6. Range(r.woken) \subseteq Blocks
    BY <1>5, RangeTyped
  <1>7. v = [u EXCEPT !.unknown = r.unknown, !.bad = @ \cup Range(r.woken)]
    BY <1>1, <1>2 DEF CollectUnknownBad
  <1>8. /\ v \in Queue /\ v.draining = u.draining /\ v.bad = u.bad \cup Range(r.woken) /\ v.ready = u.ready
        /\ v.unknown = r.unknown /\ v.verified = u.verified /\ v.verifying = u.verifying
        /\ v.unverified = u.unverified
    BY <1>5, <1>6, <1>7 DEF Queue
  <1>9. Pipe(v) = Pipe(u)
    BY <1>8 DEF Pipe
  <1>10. Shrinks(u, v)
    BY <1>4, <1>8, <1>9, WithinReflexive DEF Shrinks, Wakes
  <1>. QED
    BY <1>1, <1>10

\* The loop body of updateBad: the hashes are marked and their waiting descendants are collected.
LEMMA NoteRemovedShrinks ==
    ASSUME NEW u \in Queue, NEW hashes \in Seq(Hashes)
    PROVE  Shrinks(u, NoteRemoved(u, hashes))
  <1>1. PICK v : v = [u EXCEPT !.bad = @ \cup Range(hashes), !.ready = @ \ Range(hashes)]
    OBVIOUS
  <1>2. Range(hashes) \subseteq Hashes
    BY RangeTyped
  <1>3. Shrinks(u, v) /\ v \in Queue
    BY <1>1, <1>2, MarkShrinks DEF Shrinks
  <1>4. Shrinks(v, CollectUnknownBad(v, hashes))
    BY <1>3, CollectShrinks
  <1>. QED
    BY <1>1, <1>3, <1>4, ShrinksTransitive DEF NoteRemoved

\* Taking purged entries out of m_verified, m_verifying or m_unverified.
LEMMA DropShrinks ==
    ASSUME NEW u \in Queue, NEW v \in Queue,
           v.draining = u.draining, v.bad = u.bad, v.ready = u.ready, v.unknown = u.unknown,
           Within(v.verified, u.verified), Within(v.verifying, u.verifying),
           Within(v.unverified, u.unverified),
           \A b \in Range(u.verified) : b \in Range(v.verified) \/ Gone(b, v.bad),
           \A e \in Range(u.verifying) : e \in Range(v.verifying) \/ Gone(e.block, v.bad),
           \A b \in Range(u.unverified) : b \in Range(v.unverified) \/ Gone(b, v.bad)
    PROVE  Shrinks(u, v)
  <1>1. Within(Pipe(v), Pipe(u))
    BY PipeWithin
  <1>2. Within(v.unknown, u.unknown)
    BY WithinReflexive
  <1>3. /\ Range(Pipe(u)) =
                (Range(u.verified) \cup {e.block : e \in Range(u.verifying)}) \cup Range(u.unverified)
        /\ Range(Pipe(v)) =
                (Range(v.verified) \cup {e.block : e \in Range(v.verifying)}) \cup Range(v.unverified)
    BY PipeParts
  <1>4. ASSUME NEW b \in Range(Pipe(u)) PROVE b \in Range(Pipe(v)) \/ Gone(b, v.bad)
    <2>1. CASE b \in Range(u.verified) \/ b \in Range(u.unverified)
      BY <2>1, <1>3
    <2>2. CASE b \in {e.block : e \in Range(u.verifying)}
      <3>1. PICK e \in Range(u.verifying) : b = e.block
        BY <2>2
      <3>2. CASE e \in Range(v.verifying)
        BY <3>1, <3>2, <1>3
      <3>. QED
        BY <3>1, <3>2
    <2>. QED
      BY <2>1, <2>2, <1>3
  <1>. QED
    BY <1>1, <1>2, <1>4 DEF Shrinks

\* The tail that removeIf leaves behind is part of the sequence.
LEMMA RemovedTyped ==
    ASSUME NEW S, NEW s \in Seq(S), NEW k \in Seq(S)
    PROVE  Removed(s, k) \in Seq(S)
  <1>1. Len(k) \in Nat /\ Len(s) \in Nat
    BY SMTT(60)
  <1>2. SubSeq(s, Len(k) + 1, Len(s)) \in Seq(S)
    BY <1>1, SMTT(60)
  <1>. QED
    BY <1>2 DEF Removed

\* The removeIf of m_verified in updateBad.
LEMMA PurgeVerifiedShrinks ==
    ASSUME NEW u \in Queue
    PROVE  Shrinks(u, PurgeVerified(u))
  <1>1. PICK kept : kept = Keep(u.verified, Sound(u))
    OBVIOUS
  <1>2. PICK v : v = [u EXCEPT !.verified = kept]
    OBVIOUS
  <1>3. u.verified \in Seq(Blocks)
    BY QueueFields
  <1>4. kept \in Seq(Blocks) /\ Range(kept) = Range(u.verified) \cap Sound(u) /\ Within(kept, u.verified)
    BY <1>1, <1>3, KeepKeeps
  <1>5. /\ v \in Queue /\ v.draining = u.draining /\ v.bad = u.bad /\ v.ready = u.ready
        /\ v.unknown = u.unknown /\ v.verified = kept /\ v.verifying = u.verifying
        /\ v.unverified = u.unverified
    BY <1>2, <1>4 DEF Queue
  <1>6. Range(u.verified) \subseteq Blocks
    BY <1>3, RangeTyped
  <1>7. \A b \in Range(u.verified) : b \in Range(kept) \/ Gone(b, u.bad)
    BY <1>4, <1>6 DEF Sound, Gone
  <1>8. Shrinks(u, v)
    BY <1>4, <1>5, <1>7, DropShrinks, WithinReflexive
  <1>9. Removed(u.verified, kept) \in Seq(Hashes)
    <2>1. Removed(u.verified, kept) \in Seq(Blocks)
      BY <1>3, <1>4, RemovedTyped
    <2>2. Blocks \subseteq Hashes
      BY DEF Hashes
    <2>. QED
      BY <2>1, <2>2, WiderSeq
  <1>10. Shrinks(v, NoteRemoved(v, Removed(u.verified, kept)))
    BY <1>5, <1>9, NoteRemovedShrinks
  <1>11. PurgeVerified(u) = NoteRemoved(v, Removed(u.verified, kept))
    BY <1>1, <1>2 DEF PurgeVerified
  <1>. QED
    BY <1>8, <1>10, <1>11, ShrinksTransitive

\* The removeIf of m_unverified in updateBad.
LEMMA PurgeUnverifiedShrinks ==
    ASSUME NEW u \in Queue
    PROVE  Shrinks(u, PurgeUnverified(u))
  <1>1. PICK kept : kept = Keep(u.unverified, Sound(u))
    OBVIOUS
  <1>2. PICK v : v = [u EXCEPT !.unverified = kept]
    OBVIOUS
  <1>3. u.unverified \in Seq(Blocks)
    BY QueueFields
  <1>4. kept \in Seq(Blocks) /\ Range(kept) = Range(u.unverified) \cap Sound(u) /\ Within(kept, u.unverified)
    BY <1>1, <1>3, KeepKeeps
  <1>5. /\ v \in Queue /\ v.draining = u.draining /\ v.bad = u.bad /\ v.ready = u.ready
        /\ v.unknown = u.unknown /\ v.verified = u.verified /\ v.verifying = u.verifying
        /\ v.unverified = kept
    BY <1>2, <1>4 DEF Queue
  <1>6. Range(u.unverified) \subseteq Blocks
    BY <1>3, RangeTyped
  <1>7. \A b \in Range(u.unverified) : b \in Range(kept) \/ Gone(b, u.bad)
    BY <1>4, <1>6 DEF Sound, Gone
  <1>8. Shrinks(u, v)
    BY <1>4, <1>5, <1>7, DropShrinks, WithinReflexive
  <1>9. Removed(u.unverified, kept) \in Seq(Hashes)
    <2>1. Removed(u.unverified, kept) \in Seq(Blocks)
      BY <1>3, <1>4, RemovedTyped
    <2>2. Blocks \subseteq Hashes
      BY DEF Hashes
    <2>. QED
      BY <2>1, <2>2, WiderSeq
  <1>10. Shrinks(v, NoteRemoved(v, Removed(u.unverified, kept)))
    BY <1>5, <1>9, NoteRemovedShrinks
  <1>11. PurgeUnverified(u) = NoteRemoved(v, Removed(u.unverified, kept))
    BY <1>1, <1>2 DEF PurgeUnverified
  <1>. QED
    BY <1>8, <1>10, <1>11, ShrinksTransitive

\* The removeIf of m_verifying in updateBad.
LEMMA PurgeVerifyingShrinks ==
    ASSUME NEW u \in Queue
    PROVE  Shrinks(u, PurgeVerifying(u))
  <1>. DEFINE S == {e \in Entries : Parent[e.block] \notin u.bad /\ Uncles(e) \notin u.bad}
              isBad(e) == Parent[e.block] \in u.bad \/ Uncles(e) \in u.bad
              hash(e) == IF e.done /\ isBad(e) THEN e.block ELSE Uncles(e)
  <1>1. PICK kept : kept = Keep(u.verifying, S)
    OBVIOUS
  <1>2. PICK v : v = [u EXCEPT !.verifying = kept]
    OBVIOUS
  <1>3. u.verifying \in Seq(Entries)
    BY QueueFields
  <1>4. kept \in Seq(Entries) /\ Range(kept) = Range(u.verifying) \cap S /\ Within(kept, u.verifying)
    <2>. HIDE DEF S
    <2>. QED
      BY <1>1, <1>3, KeepKeeps
  <1>5. /\ v \in Queue /\ v.draining = u.draining /\ v.bad = u.bad /\ v.ready = u.ready
        /\ v.unknown = u.unknown /\ v.verified = u.verified /\ v.verifying = kept
        /\ v.unverified = u.unverified
    BY <1>2, <1>4 DEF Queue
  <1>6. Range(u.verifying) \subseteq Entries
    BY <1>3, RangeTyped
  <1>7. \A e \in Range(u.verifying) : e \in Range(kept) \/ Gone(e.block, u.bad)
    BY <1>4, <1>6 DEF Gone, Uncles
  <1>8. Shrinks(u, v)
    BY <1>4, <1>5, <1>7, DropShrinks, WithinReflexive
  <1>9. PICK removed : removed = Removed(u.verifying, kept)
    OBVIOUS
  <1>10. removed \in Seq(Entries)
    BY <1>3, <1>4, <1>9, RemovedTyped
  <1>11. \A e \in Entries : hash(e) \in Hashes
    BY DEF Entries, Hashes, Uncles
  <1>. HIDE DEF hash
  <1>12. PICK hashes : hashes = [i \in DOMAIN removed |-> hash(removed[i])]
    OBVIOUS
  <1>13. hashes \in Seq(Hashes)
    BY <1>10, <1>11, <1>12, SMTT(60)
  <1>14. Shrinks(v, NoteRemoved(v, hashes))
    BY <1>5, <1>13, NoteRemovedShrinks
  <1>15. PurgeVerifying(u) = NoteRemoved(v, hashes)
    BY <1>1, <1>2, <1>9, <1>12 DEF PurgeVerifying, hash
  <1>. QED
    BY <1>8, <1>14, <1>15, ShrinksTransitive

\* The loop of updateBad.
BadLoop(round, u, b, rounds) ==
    round = [n \in 0..rounds |->
                IF n = 0 THEN CollectUnknownBad(u, <<b>>)
                ELSE PurgeVerifying(PurgeUnverified(PurgeVerified(round[n - 1])))]

\* updateBad only takes blocks out, whatever the number of its rounds.
LEMMA UpdateBadShrinks ==
    ASSUME NEW u \in Queue, NEW b \in Blocks
    PROVE  Shrinks(u, UpdateBad(u, b))
  <1>. DEFINE rounds == Len(u.verified) + Len(u.unverified) + Len(u.verifying)
              X == {v \in Queue : Shrinks(u, v)}
              Turn(v) == PurgeVerifying(PurgeUnverified(PurgeVerified(v)))
              start == CollectUnknownBad(u, <<b>>)
              g == [n \in 1..rounds |-> [v \in X |-> Turn(v)]]
  <1>1. rounds \in Nat
    <2>1. Len(u.verified) \in Nat /\ Len(u.unverified) \in Nat /\ Len(u.verifying) \in Nat
      BY QueueFields, SMTT(60)
    <2>2. PICK i \in Nat, j \in Nat, k \in Nat :
             i = Len(u.verified) /\ j = Len(u.unverified) /\ k = Len(u.verifying)
      BY <2>1
    <2>3. i + j + k \in Nat
      BY SMTT(60)
    <2>. QED
      BY <2>2, <2>3
  <1>2. start \in X
    <2>1. <<b>> \in Seq(Hashes)
      BY SMTT(60) DEF Hashes
    <2>2. Shrinks(u, start)
      BY <2>1, CollectShrinks
    <2>. QED
      BY <2>2 DEF Shrinks
  <1>3. ASSUME NEW v \in X PROVE Turn(v) \in X
    <2>1. v \in Queue /\ Shrinks(u, v)
      OBVIOUS
    <2>2. Shrinks(v, PurgeVerified(v)) /\ PurgeVerified(v) \in Queue
      BY <2>1, PurgeVerifiedShrinks DEF Shrinks
    <2>3. PICK v1 : v1 = PurgeVerified(v)
      OBVIOUS
    <2>4. Shrinks(v1, PurgeUnverified(v1)) /\ PurgeUnverified(v1) \in Queue
      BY <2>2, <2>3, PurgeUnverifiedShrinks DEF Shrinks
    <2>5. PICK v2 : v2 = PurgeUnverified(v1)
      OBVIOUS
    <2>6. Shrinks(v2, PurgeVerifying(v2)) /\ PurgeVerifying(v2) \in Queue
      BY <2>4, <2>5, PurgeVerifyingShrinks DEF Shrinks
    <2>7. Shrinks(u, v1)
      BY <2>1, <2>2, <2>3, ShrinksTransitive
    <2>8. Shrinks(u, v2)
      BY <2>7, <2>4, <2>5, ShrinksTransitive
    <2>9. Shrinks(u, PurgeVerifying(v2))
      BY <2>8, <2>6, ShrinksTransitive
    <2>10. Turn(v) = PurgeVerifying(v2)
      BY <2>3, <2>5
    <2>. QED
      BY <2>6, <2>9, <2>10
  <1>. HIDE DEF rounds, X, Turn, start
  <1>4. g \in [1..rounds -> [X -> X]]
    BY <1>3
  <1>5. PICK f \in [0..rounds -> X] : Runs(f, start, rounds, g)
    <2>. HIDE DEF g
    <2>. QED
      BY <1>1, <1>2, <1>4, LoopExists
  <1>6. \A n \in 0..rounds : n # 0 => g[n][f[n - 1]] = Turn(f[n - 1])
    <2>. TAKE n \in 0..rounds
    <2>1. n # 0 => n \in 1..rounds /\ n - 1 \in 0..rounds
      BY <1>1, SMTT(60)
    <2>. QED
      BY <2>1, <1>5
  <1>. HIDE DEF g
  <1>7. BadLoop(f, u, b, rounds)
    <2>1. f = [n \in 0..rounds |-> IF n = 0 THEN start ELSE Turn(f[n - 1])]
      BY <1>5, <1>6 DEF Runs
    <2>. QED
      BY <2>1 DEF BadLoop, start, Turn
  <1>8. PICK round : round = CHOOSE k : BadLoop(k, u, b, rounds)
    OBVIOUS
  <1>9. BadLoop(round, u, b, rounds)
    BY <1>7, <1>8
  <1>10. UpdateBad(u, b) = round[rounds]
    BY <1>8 DEF UpdateBad, BadLoop, rounds
  <1>11. round = [n \in 0..rounds |-> IF n = 0 THEN start ELSE Turn(round[n - 1])]
    BY <1>9 DEF BadLoop, start, Turn
  <1>. DEFINE P == {n \in 0..rounds : round[n] \in X}
  <1>12. 0 \in P
    BY <1>1, <1>2, <1>11, SMTT(60)
  <1>13. ASSUME NEW n \in 0..rounds, n + 1 \in 0..rounds, n \in P PROVE n + 1 \in P
    <2>1. n + 1 # 0 /\ (n + 1) - 1 = n
      BY SMTT(60)
    <2>2. round[n + 1] = Turn(round[(n + 1) - 1])
      BY <2>1, <1>11, <1>13
    <2>. QED
      BY <2>1, <2>2, <1>3, <1>13
  <1>14. rounds \in P
    <2>. HIDE DEF P
    <2>1. \A k \in 0..rounds : k \in P
      BY <1>1, <1>12, <1>13, UpTo
    <2>. QED
      BY <2>1, <1>1, SMTT(60)
  <1>. QED
    BY <1>10, <1>14 DEF X

\* The loop of doneDrain.
AllBadLoop(updated, u, bad) ==
    updated = [n \in 0..Len(bad) |-> IF n = 0 THEN u ELSE UpdateBad(updated[n - 1], bad[n])]

\* doneDrain only takes blocks out, and with no bad block it changes nothing.
LEMMA UpdateAllBadShrinks ==
    ASSUME NEW u \in Queue, NEW bad \in Seq(Blocks)
    PROVE  Shrinks(u, UpdateAllBad(u, bad)) /\ (bad = <<>> => UpdateAllBad(u, bad) = u)
  <1>. DEFINE N == Len(bad)
              X == {v \in Queue : Shrinks(u, v)}
              g == [n \in 1..N |-> [v \in X |-> UpdateBad(v, bad[n])]]
  <1>1. N \in Nat /\ \A n \in 1..N : bad[n] \in Blocks
    BY SMTT(60)
  <1>2. u \in X
    BY ShrinksReflexive
  <1>3. ASSUME NEW v \in X, NEW b \in Blocks PROVE UpdateBad(v, b) \in X
    <2>1. Shrinks(v, UpdateBad(v, b)) /\ UpdateBad(v, b) \in Queue
      BY UpdateBadShrinks DEF Shrinks
    <2>2. Shrinks(u, UpdateBad(v, b))
      BY <2>1, ShrinksTransitive
    <2>. QED
      BY <2>1, <2>2
  <1>. HIDE DEF N, X
  <1>4. g \in [1..N -> [X -> X]]
    BY <1>1, <1>3
  <1>5. PICK f \in [0..N -> X] : Runs(f, u, N, g)
    <2>. HIDE DEF g
    <2>. QED
      BY <1>1, <1>2, <1>4, LoopExists
  <1>6. \A n \in 0..N : n # 0 => g[n][f[n - 1]] = UpdateBad(f[n - 1], bad[n])
    <2>. TAKE n \in 0..N
    <2>1. n # 0 => n \in 1..N /\ n - 1 \in 0..N
      BY <1>1, SMTT(60)
    <2>. QED
      BY <2>1, <1>5
  <1>. HIDE DEF g
  <1>7. AllBadLoop(f, u, bad)
    BY <1>5, <1>6 DEF Runs, AllBadLoop, N
  <1>8. PICK updated : updated = CHOOSE k : AllBadLoop(k, u, bad)
    OBVIOUS
  <1>9. AllBadLoop(updated, u, bad)
    BY <1>7, <1>8
  <1>10. UpdateAllBad(u, bad) = updated[N]
    BY <1>8 DEF UpdateAllBad, AllBadLoop, N
  <1>11. updated = [n \in 0..N |-> IF n = 0 THEN u ELSE UpdateBad(updated[n - 1], bad[n])]
    BY <1>9 DEF AllBadLoop, N
  <1>. DEFINE P == {n \in 0..N : updated[n] \in X}
  <1>12. 0 \in P
    BY <1>1, <1>2, <1>11, SMTT(60)
  <1>13. ASSUME NEW n \in 0..N, n + 1 \in 0..N, n \in P PROVE n + 1 \in P
    <2>1. n + 1 # 0 /\ (n + 1) - 1 = n /\ n + 1 \in 1..N
      BY <1>1, <1>13, SMTT(60)
    <2>2. updated[n + 1] = UpdateBad(updated[(n + 1) - 1], bad[n + 1])
      BY <2>1, <1>11, <1>13
    <2>. QED
      BY <2>1, <2>2, <1>1, <1>3, <1>13
  <1>14. N \in P
    <2>. HIDE DEF P
    <2>1. \A k \in 0..N : k \in P
      BY <1>1, <1>12, <1>13, UpTo
    <2>. QED
      BY <2>1, <1>1, SMTT(60)
  <1>15. Shrinks(u, UpdateAllBad(u, bad))
    BY <1>10, <1>14 DEF X
  <1>16. ASSUME bad = <<>> PROVE UpdateAllBad(u, bad) = u
    <2>1. N = 0
      BY <1>16 DEF N
    <2>2. updated[0] = u
      BY <1>1, <1>11, SMTT(60)
    <2>. QED
      BY <2>1, <2>2, <1>10
  <1>. QED
    BY <1>15, <1>16

\* A change that leaves the pipeline as it is.
LEMMA SamePipe ==
    ASSUME NEW u \in Queue, NEW v \in Queue,
           v.draining = u.draining, v.bad = u.bad, v.ready = u.ready, v.unknown = u.unknown,
           Pipe(v) = Pipe(u)
    PROVE  Shrinks(u, v)
  BY WithinReflexive DEF Shrinks

\* The first entry leaves m_verifying, for m_verified or as a bad block.
LEMMA ReleaseFrontShrinks ==
    ASSUME NEW u \in Queue
    PROVE  Shrinks(u, ReleaseFront(u))
  <1>1. CASE u.verifying = <<>> \/ ~Head(u.verifying).done
    <2>1. ReleaseFront(u) = u
      BY <1>1 DEF ReleaseFront
    <2>. QED
      BY <2>1, ShrinksReflexive
  <1>2. CASE ~(u.verifying = <<>> \/ ~Head(u.verifying).done)
    <2>1. u.verifying \in Seq(Entries) /\ u.verifying # <<>>
      BY <1>2, QueueFields
    <2>2. PICK e \in Entries, rest \in Seq(Entries) :
             e = Head(u.verifying) /\ rest = Tail(u.verifying) /\ u.verifying = <<e>> \o rest
      BY <2>1, HeadAndTail
    <2>3. PICK b : b = e.block
      OBVIOUS
    <2>4. b \in Blocks
      BY <2>2, <2>3 DEF Entries
    <2>5. PICK v : v = ReleaseFront(u)
      OBVIOUS
    <2>6. CASE Parent[b] \in u.bad
      <3>1. v = [u EXCEPT !.verifying = Tail(@), !.bad = @ \cup {b}, !.ready = @ \ {b}]
        BY <1>2, <2>2, <2>3, <2>5, <2>6 DEF ReleaseFront
      <3>2. PICK w : w = [u EXCEPT !.bad = @ \cup {b}, !.ready = @ \ {b}]
        OBVIOUS
      <3>3. Shrinks(u, w)
        <4>1. {b} \subseteq Hashes
          BY <2>4 DEF Hashes
        <4>. QED
          BY <3>2, <4>1, MarkShrinks
      <3>4. /\ v \in Queue /\ v.draining = w.draining /\ v.bad = w.bad /\ v.ready = w.ready
            /\ v.unknown = w.unknown /\ v.verified = w.verified /\ v.verifying = rest
            /\ v.unverified = w.unverified /\ w.verifying = u.verifying /\ b \in v.bad
        BY <3>1, <3>2, <2>2, <2>4 DEF Queue
      <3>5. /\ Range(u.verifying) = {e} \cup Range(rest)
            /\ Within(rest, u.verifying)
        <4>1. <<e>> \in Seq(Entries)
          BY SMTT(60)
        <4>2. /\ Range(<<e>> \o rest) = Range(<<e>>) \cup Range(rest)
              /\ \A x, y : Precedes(<<e>> \o rest, x, y) <=> Precedes(<<e>>, x, y) \/ Precedes(rest, x, y)
                                   \/ (x \in Range(<<e>>) /\ y \in Range(rest))
          BY <4>1, Joined
        <4>3. Range(<<e>>) = {e}
          BY Single
        <4>. QED
          BY <4>2, <4>3, <2>2 DEF Within
      <3>6. \A d \in Range(w.verifying) : d \in Range(v.verifying) \/ Gone(d.block, v.bad)
        BY <3>4, <3>5, <2>3 DEF Gone
      <3>7. w \in Queue
        BY <3>3 DEF Shrinks
      <3>8. Within(v.verifying, w.verifying) /\ Within(v.verified, w.verified) /\ Within(v.unverified, w.unverified)
        BY <3>4, <3>5, WithinReflexive
      <3>9. Shrinks(w, v)
        BY <3>4, <3>6, <3>7, <3>8, DropShrinks
      <3>. QED
        BY <3>3, <3>9, <2>5, ShrinksTransitive
    <2>7. CASE Parent[b] \notin u.bad
      <3>1. v = [u EXCEPT !.verifying = Tail(@), !.verified = Append(@, b)]
        BY <1>2, <2>2, <2>3, <2>5, <2>7 DEF ReleaseFront
      <3>2. u.verified \in Seq(Blocks) /\ u.unverified \in Seq(Blocks)
        BY QueueFields
      <3>3. /\ v \in Queue /\ v.draining = u.draining /\ v.bad = u.bad /\ v.ready = u.ready
            /\ v.unknown = u.unknown /\ v.verified = Append(u.verified, b) /\ v.verifying = rest
            /\ v.unverified = u.unverified
        <4>1. PICK z \in Seq(Blocks) : z = Append(u.verified, b)
          BY <3>2, <2>4, AppendJoins
        <4>2. v = [u EXCEPT !.verifying = rest, !.verified = z]
          BY <3>1, <4>1, <2>2
        <4>. QED
          BY <4>1, <4>2 DEF Queue
      <3>4. BlocksOf(u.verifying) = <<b>> \o BlocksOf(rest)
        BY <2>2, <2>3, BlocksOfJoined, BlocksOfOne
      <3>5. PICK x \in Seq(Blocks), y \in Seq(Blocks) : x = BlocksOf(rest) /\ y = u.verified
        BY <3>2, BlocksOfEntries
      <3>6. <<b>> \in Seq(Blocks) /\ Append(y, b) = y \o <<b>>
        BY <2>4, <3>5, AppendJoins, SMTT(60)
      <3>7. (y \o <<b>>) \o x = y \o (<<b>> \o x)
        BY <3>6, SMTT(60)
      <3>8. Pipe(v) = Pipe(u)
        BY <3>3, <3>4, <3>5, <3>6, <3>7 DEF Pipe
      <3>. QED
        BY <3>3, <3>8, <2>5, SamePipe
    <2>. QED
      BY <2>6, <2>7
  <1>. QED
    BY <1>1, <1>2

\* Releasing finds no bad block where none is known.
LEMMA ReleaseFrontSound ==
    ASSUME NEW u \in Queue, u.bad = {}
    PROVE  ReleaseFront(u).bad = {}
  BY DEF ReleaseFront, Queue

\* The loop of drainVerified.
ReleaseLoop(released, u) ==
    released = [n \in 0..Len(u.verifying) |-> IF n = 0 THEN u ELSE ReleaseFront(released[n - 1])]

\* drainVerified only takes blocks out, and finds none bad when none is known.
LEMMA DrainVerifiedShrinks ==
    ASSUME NEW u \in Queue
    PROVE  Shrinks(u, DrainVerified(u)) /\ (u.bad = {} => DrainVerified(u).bad = {})
  <1>. DEFINE N == Len(u.verifying)
              X == {v \in Queue : Shrinks(u, v) /\ (u.bad = {} => v.bad = {})}
              g == [n \in 1..N |-> [v \in X |-> ReleaseFront(v)]]
  <1>1. N \in Nat
    BY QueueFields, SMTT(60)
  <1>2. u \in X
    BY ShrinksReflexive
  <1>3. ASSUME NEW v \in X PROVE ReleaseFront(v) \in X
    <2>1. Shrinks(v, ReleaseFront(v)) /\ ReleaseFront(v) \in Queue
      BY ReleaseFrontShrinks DEF Shrinks
    <2>2. Shrinks(u, ReleaseFront(v))
      BY <2>1, ShrinksTransitive
    <2>3. u.bad = {} => ReleaseFront(v).bad = {}
      BY ReleaseFrontSound
    <2>. QED
      BY <2>1, <2>2, <2>3
  <1>. HIDE DEF N, X
  <1>4. g \in [1..N -> [X -> X]]
    BY <1>3
  <1>5. PICK f \in [0..N -> X] : Runs(f, u, N, g)
    <2>. HIDE DEF g
    <2>. QED
      BY <1>1, <1>2, <1>4, LoopExists
  <1>6. \A n \in 0..N : n # 0 => g[n][f[n - 1]] = ReleaseFront(f[n - 1])
    <2>. TAKE n \in 0..N
    <2>1. n # 0 => n \in 1..N /\ n - 1 \in 0..N
      BY <1>1, SMTT(60)
    <2>. QED
      BY <2>1, <1>5
  <1>. HIDE DEF g
  <1>7. ReleaseLoop(f, u)
    BY <1>5, <1>6 DEF Runs, ReleaseLoop, N
  <1>8. PICK released : released = CHOOSE k : ReleaseLoop(k, u)
    OBVIOUS
  <1>9. ReleaseLoop(released, u)
    BY <1>7, <1>8
  <1>10. DrainVerified(u) = released[N]
    BY <1>8 DEF DrainVerified, ReleaseLoop, N
  <1>11. released = [n \in 0..N |-> IF n = 0 THEN u ELSE ReleaseFront(released[n - 1])]
    BY <1>9 DEF ReleaseLoop, N
  <1>. DEFINE P == {n \in 0..N : released[n] \in X}
  <1>12. 0 \in P
    BY <1>1, <1>2, <1>11, SMTT(60)
  <1>13. ASSUME NEW n \in 0..N, n + 1 \in 0..N, n \in P PROVE n + 1 \in P
    <2>1. n + 1 # 0 /\ (n + 1) - 1 = n
      BY SMTT(60)
    <2>2. released[n + 1] = ReleaseFront(released[(n + 1) - 1])
      BY <2>1, <1>11, <1>13
    <2>. QED
      BY <2>1, <2>2, <1>3, <1>13
  <1>14. N \in P
    <2>. HIDE DEF P
    <2>1. \A k \in 0..N : k \in P
      BY <1>1, <1>12, <1>13, UpTo
    <2>. QED
      BY <2>1, <1>1, SMTT(60)
  <1>. QED
    BY <1>10, <1>14 DEF X
-----------------------------------------------------------------------------
(* The number of a block.                                                  *)

\* The loop of Number.
HeightLoop(height) ==
    height = [n \in 0..NumBlocks |->
                 [b \in 0..NumBlocks |->
                     IF b = Genesis \/ n = 0 THEN 0 ELSE 1 + height[n - 1][Parent[b]]]]

\* Every block has a number.
LEMMA NumberTyped == Number \in [0..NumBlocks -> Nat]
  <1>. DEFINE N == NumBlocks
              X == [0..N -> Nat]
              start == [b \in 0..N |-> 0]
              Up(h) == [b \in 0..N |-> IF b = Genesis THEN 0 ELSE 1 + h[Parent[b]]]
              g == [n \in 1..N |-> [h \in X |-> Up(h)]]
  <1>1. N \in Nat /\ \A b \in 0..N : b # Genesis => Parent[b] \in 0..N
    BY BlocksAssumption, SMTT(60) DEF Blocks, Genesis
  <1>2. start \in X
    OBVIOUS
  <1>3. ASSUME NEW h \in X PROVE Up(h) \in X
    BY <1>1, SMTT(60)
  <1>. HIDE DEF N, X, Up, start
  <1>4. g \in [1..N -> [X -> X]]
    BY <1>3
  <1>5. PICK f \in [0..N -> X] : Runs(f, start, N, g)
    <2>. HIDE DEF g
    <2>. QED
      BY <1>1, <1>2, <1>4, LoopExists
  <1>6. \A n \in 0..N : n # 0 => g[n][f[n - 1]] = Up(f[n - 1])
    <2>. TAKE n \in 0..N
    <2>1. n # 0 => n \in 1..N /\ n - 1 \in 0..N
      BY <1>1, SMTT(60)
    <2>. QED
      BY <2>1, <1>5
  <1>. HIDE DEF g
  <1>7. f = [n \in 0..N |-> IF n = 0 THEN start ELSE Up(f[n - 1])]
    BY <1>5, <1>6 DEF Runs
  <1>8. \A h : (h = [n \in 0..N |-> IF n = 0 THEN start ELSE Up(h[n - 1])]) <=> HeightLoop(h)
    <2>. TAKE h
    <2>1. ASSUME NEW n \in 0..N
          PROVE  (IF n = 0 THEN start ELSE Up(h[n - 1])) =
                 [b \in 0..NumBlocks |->
                     IF b = Genesis \/ n = 0 THEN 0 ELSE 1 + h[n - 1][Parent[b]]]
      BY DEF start, Up, N
    <2>. QED
      BY <2>1 DEF HeightLoop, N
  <1>9. PICK height : height = CHOOSE k : HeightLoop(k)
    OBVIOUS
  <1>10. HeightLoop(height)
    BY <1>7, <1>8, <1>9
  <1>11. Number = height[N]
    BY <1>9 DEF Number, HeightLoop, N
  <1>12. height = [n \in 0..N |-> IF n = 0 THEN start ELSE Up(height[n - 1])]
    BY <1>8, <1>10
  <1>. DEFINE P == {n \in 0..N : height[n] \in X}
  <1>13. 0 \in P
    BY <1>1, <1>2, <1>12, SMTT(60)
  <1>14. ASSUME NEW n \in 0..N, n + 1 \in 0..N, n \in P PROVE n + 1 \in P
    <2>1. n + 1 # 0 /\ (n + 1) - 1 = n
      BY SMTT(60)
    <2>2. height[n + 1] = Up(height[(n + 1) - 1])
      BY <2>1, <1>12, <1>14
    <2>. QED
      BY <2>1, <2>2, <1>3, <1>14
  <1>15. N \in P
    <2>. HIDE DEF P
    <2>1. \A k \in 0..N : k \in P
      BY <1>1, <1>13, <1>14, UpTo
    <2>. QED
      BY <2>1, <1>1, SMTT(60)
  <1>. QED
    BY <1>11, <1>15 DEF X, N

\* No block is its own parent.
LEMMA NotOwnParent ==
    ASSUME NEW b \in Blocks
    PROVE  Parent[b] # b /\ Parent[b] \in 0..NumBlocks /\ Number[b] \in Nat
  <1>1. b \in 0..NumBlocks
    BY BlocksAssumption, SMTT(60) DEF Blocks
  <1>2. Number[b] = Number[Parent[b]] + 1 /\ Parent[b] \in 0..NumBlocks
    BY BlocksAssumption
  <1>3. Number[b] \in Nat
    BY <1>1, NumberTyped
  <1>. QED
    BY <1>2, <1>3, SMTT(60)
-----------------------------------------------------------------------------
(* The inductive invariant.                                                *)

\* The block or its parent was displaced.
Moved(c, D) == c \in D \/ Parent[c] \in D

\* No block is in the pipeline or in m_unknown twice, or in both.
Apart(u) ==
    /\ Distinct(Pipe(u)) /\ Distinct(u.unknown)
    /\ Range(Pipe(u)) \cap Range(u.unknown) = {}
    /\ Range(Pipe(u)) \subseteq u.ready \cup u.bad
    /\ (u.ready \cup u.draining) \cap Range(u.unknown) = {}

\* Only children of blocks that are nowhere on their way wait.
Waits(u) ==
    \A c \in Range(u.unknown) : Parent[c] \notin (u.ready \cup u.draining) \cup Range(Pipe(u))

\* C is the chain and D the displaced blocks: no block is before its parent.
Ordered(s, C, D) ==
    \A c \in Blocks : Precedes(s, c, Parent[c]) => Parent[c] \in C \/ Moved(c, D)

\* The parent of a block in the pipeline is known.
Known(u, C, D) ==
    \A c \in Range(Pipe(u)) :
        \/ Moved(c, D) \/ Parent[c] \in C
        \/ /\ Parent[c] \in (u.ready \cup u.draining) \cup u.bad
           /\ Parent[c] \notin Range(u.unknown)

\* A ready block that has left the pipeline was purged.
Ghosts(u) == \A b \in u.ready : b \in Range(Pipe(u)) \/ Gone(b, u.bad)

QueueOK(u, C, D) ==
    u \in Queue /\ Apart(u) /\ Waits(u) /\ Ordered(Pipe(u), C, D) /\ Known(u, C, D) /\ Ghosts(u)

\* The blocks s drained from u, of which those in B were found bad.
BatchOK(s, B, u, C, D) ==
    /\ Distinct(s)
    /\ Ordered(s, C, D)
    /\ \A c \in Range(s) :
        \/ Moved(c, D) \/ Parent[c] \in C \cup B
        \/ Precedes(s, Parent[c], c)
        \/ NoUncles \in u.bad
        \/ Parent[c] \notin Range(Pipe(u)) \cup Range(u.unknown) /\ Gone(Parent[c], u.bad)

Steps ==
    /\ pc # "import" => blocks = <<>> /\ badBlocks = <<>>
    /\ pc = "retry" <=> todo # <<>>

Drained == q.draining \subseteq (Range(blocks) \cup Range(badBlocks)) \cup (chain \cup displaced)

\* With valid blocks only nothing is bad.
Valid ==
    (\A b \in Blocks : verdict[b] = "good") /\ displaced = {} =>
        badBlocks = <<>> /\ q.bad = {} /\ q.ready = Range(Pipe(q))

IInv ==
    /\ TypeOK /\ verdict \in [Blocks -> Verdict]
    /\ Steps
    /\ QueueOK(q, chain, displaced)
    /\ BatchOK(blocks, Range(badBlocks), q, chain, displaced)
    /\ Drained
    /\ Valid
-----------------------------------------------------------------------------
(* What keeps it.                                                          *)

\* A chain that has grown.
LEMMA QueueGrows ==
    ASSUME NEW u, NEW C, NEW D, NEW E, NEW F, C \subseteq E, D \subseteq F, QueueOK(u, C, D)
    PROVE  QueueOK(u, E, F)
  BY DEF QueueOK, Ordered, Known, Moved

\* Purging and releasing.
LEMMA QueueShrinks ==
    ASSUME NEW u, NEW v, NEW C, NEW D, Shrinks(u, v), QueueOK(u, C, D)
    PROVE  QueueOK(v, C, D)
  <1>1. v \in Queue
    BY DEF Shrinks
  <1>2. Distinct(Pipe(v)) /\ Distinct(v.unknown)
    BY WithinDistinct DEF Shrinks, QueueOK, Apart
  <1>3. Range(Pipe(v)) \subseteq Range(Pipe(u)) /\ Range(v.unknown) \subseteq Range(u.unknown)
    BY DEF Shrinks, Within
  <1>4. Apart(v)
    <2>1. Range(Pipe(v)) \cap Range(v.unknown) = {}
      BY <1>3 DEF QueueOK, Apart
    <2>2. Range(Pipe(v)) \subseteq v.ready \cup v.bad
      BY <1>3 DEF QueueOK, Apart, Shrinks
    <2>3. (v.ready \cup v.draining) \cap Range(v.unknown) = {}
      BY <1>3 DEF QueueOK, Apart, Shrinks
    <2>. QED
      BY <1>2, <2>1, <2>2, <2>3 DEF Apart
  <1>5. Waits(v)
    BY <1>3 DEF QueueOK, Waits, Shrinks
  <1>6. Ordered(Pipe(v), C, D)
    BY DEF QueueOK, Ordered, Shrinks, Within
  <1>7. Known(v, C, D)
    BY <1>3 DEF QueueOK, Known, Shrinks
  <1>8. Ghosts(v)
    BY DEF QueueOK, Ghosts, Shrinks, Gone
  <1>. QED
    BY <1>1, <1>4, <1>5, <1>6, <1>7, <1>8 DEF QueueOK

\* The drained batch stays sound when the queue shrinks.
LEMMA BatchShrinks ==
    ASSUME NEW s, NEW B, NEW u, NEW v, NEW C, NEW D, Shrinks(u, v), BatchOK(s, B, u, C, D)
    PROVE  BatchOK(s, B, v, C, D)
  <1>1. Range(Pipe(v)) \subseteq Range(Pipe(u)) /\ Range(v.unknown) \subseteq Range(u.unknown)
    BY DEF Shrinks, Within
  <1>2. u.bad \subseteq v.bad
    BY DEF Shrinks
  <1>3. \A b : Gone(b, u.bad) => Gone(b, v.bad)
    BY <1>2 DEF Gone
  <1>. QED
    BY <1>1, <1>2, <1>3 DEF BatchOK

\* Nothing bad is found: nothing else has changed.
LEMMA ShrinksSound ==
    ASSUME NEW u, NEW v, Shrinks(u, v), u.ready = Range(Pipe(u)), v.bad = {}
    PROVE  v.ready = Range(Pipe(v))
  BY DEF Shrinks, Within, Gone

\* What is neither ready nor waiting any more is bad.
Keeps(u, v) ==
    /\ v.draining = u.draining
    /\ u.ready \cup Range(u.unknown) \subseteq (v.ready \cup Range(v.unknown)) \cup v.bad

\* A block that a shrinking step drops from the ready set or from m_unknown is bad.
LEMMA ShrinksKeeps ==
    ASSUME NEW u, NEW v, Shrinks(u, v)
    PROVE  Keeps(u, v)
  BY DEF Shrinks, Keeps

\* A block that no part of the queue knows.
Fresh(u, b) == b \notin (u.ready \cup u.draining) \cup (u.bad \cup Range(u.unknown))

\* It is not in the pipeline either.
LEMMA FreshIsOut ==
    ASSUME NEW u, NEW C, NEW D, QueueOK(u, C, D), NEW b, Fresh(u, b)
    PROVE  b \notin Range(Pipe(u))
  BY DEF QueueOK, Apart, Fresh

\* import puts the block into m_unknown.
LEMMA QueueUnknown ==
    ASSUME NEW u, NEW v, NEW C, NEW D, NEW b \in Blocks, QueueOK(u, C, D), Fresh(u, b),
           Parent[b] \notin u.bad, Parent[b] \notin (u.ready \cup u.draining) \cup C,
           v = [u EXCEPT !.unknown = Append(@, b)]
    PROVE  QueueOK(v, C, D)
  <1>1. u \in Queue /\ u.unknown \in Seq(Blocks)
    BY QueueFields DEF QueueOK
  <1>2. PICK s : s = Append(u.unknown, b)
    OBVIOUS
  <1>3. s \in Seq(Blocks) /\ s = u.unknown \o <<b>> /\ <<b>> \in Seq(Blocks)
    BY <1>1, <1>2, AppendJoins, SMTT(60)
  <1>4. Range(s) = Range(u.unknown) \cup {b}
    <2>1. Range(u.unknown \o <<b>>) = Range(u.unknown) \cup Range(<<b>>)
      BY <1>1, <1>3, Joined
    <2>2. Range(<<b>>) = {b}
      BY Single
    <2>. QED
      BY <2>1, <2>2, <1>3
  <1>5. Distinct(s)
    <2>1. Range(<<b>>) = {b} /\ Distinct(<<b>>)
      BY Single DEF Distinct
    <2>2. Range(u.unknown) \cap Range(<<b>>) = {}
      BY <2>1 DEF Fresh
    <2>3. Distinct(u.unknown)
      BY DEF QueueOK, Apart
    <2>. QED
      BY <2>1, <2>2, <2>3, <1>1, <1>3, DistinctJoined
  <1>6. /\ v \in Queue /\ v.draining = u.draining /\ v.bad = u.bad /\ v.ready = u.ready
        /\ v.unknown = s /\ v.verified = u.verified /\ v.verifying = u.verifying
        /\ v.unverified = u.unverified
    <2>1. v = [u EXCEPT !.unknown = s]
      BY <1>2
    <2>. QED
      BY <2>1, <1>1, <1>3 DEF Queue
  <1>7. Pipe(v) = Pipe(u)
    BY <1>6 DEF Pipe
  <1>8. b \notin Range(Pipe(u))
    BY FreshIsOut
  <1>9. Parent[b] \notin Range(Pipe(u))
    BY DEF QueueOK, Apart
  <1>10. Apart(v)
    <2>1. Range(Pipe(v)) \cap Range(v.unknown) = {}
      BY <1>4, <1>6, <1>7, <1>8 DEF QueueOK, Apart
    <2>2. (v.ready \cup v.draining) \cap Range(v.unknown) = {}
      BY <1>4, <1>6 DEF QueueOK, Apart, Fresh
    <2>. QED
      BY <2>1, <2>2, <1>5, <1>6, <1>7 DEF QueueOK, Apart
  <1>11. Waits(v)
    BY <1>4, <1>6, <1>7, <1>9 DEF QueueOK, Waits
  <1>12. Ordered(Pipe(v), C, D) /\ Ghosts(v)
    BY <1>6, <1>7 DEF QueueOK, Ghosts
  <1>13. Known(v, C, D)
    <2>1. ASSUME NEW c \in Range(Pipe(u))
          PROVE  \/ Moved(c, D) \/ Parent[c] \in C
                 \/ Parent[c] \in (u.ready \cup u.draining) \cup u.bad /\ Parent[c] \notin Range(s)
      <3>1. Parent[c] \in (u.ready \cup u.draining) \cup u.bad => Parent[c] # b
        BY DEF Fresh
      <3>2. \/ Moved(c, D) \/ Parent[c] \in C
            \/ Parent[c] \in (u.ready \cup u.draining) \cup u.bad /\ Parent[c] \notin Range(u.unknown)
        BY DEF QueueOK, Known
      <3>. QED
        BY <3>1, <3>2, <1>4
    <2>. QED
      BY <2>1, <1>6, <1>7 DEF Known
  <1>. QED
    BY <1>6, <1>10, <1>11, <1>12, <1>13 DEF QueueOK

\* The drained batch stays sound when import puts a block into m_unknown.
LEMMA BatchUnknown ==
    ASSUME NEW s, NEW B, NEW u, NEW v, NEW C, NEW D, NEW b, BatchOK(s, B, u, C, D), Fresh(u, b),
           Parent[b] \notin u.bad, v.bad = u.bad,
           Range(Pipe(v)) \cup Range(v.unknown) = (Range(Pipe(u)) \cup Range(u.unknown)) \cup {b}
    PROVE  BatchOK(s, B, v, C, D)
  <1>1. Gone(b, u.bad) => NoUncles \in u.bad
    BY DEF Gone, Fresh
  <1>2. ASSUME NEW c \in Range(s)
        PROVE  \/ Moved(c, D) \/ Parent[c] \in C \cup B
               \/ Precedes(s, Parent[c], c)
               \/ NoUncles \in v.bad
               \/ Parent[c] \notin Range(Pipe(v)) \cup Range(v.unknown) /\ Gone(Parent[c], v.bad)
    <2>1. \/ Moved(c, D) \/ Parent[c] \in C \cup B
          \/ Precedes(s, Parent[c], c)
          \/ NoUncles \in u.bad
          \/ Parent[c] \notin Range(Pipe(u)) \cup Range(u.unknown) /\ Gone(Parent[c], u.bad)
      BY DEF BatchOK
    <2>. QED
      BY <2>1, <1>1
  <1>. QED
    BY <1>2 DEF BatchOK

\* v is u with b made ready, and what waited for it.
Readied(u, v, b) ==
    /\ v.bad = u.bad /\ v.draining = u.draining /\ b \in v.ready
    /\ u.ready \subseteq v.ready
    /\ Range(u.unknown) \subseteq v.ready \cup Range(v.unknown)
    /\ Range(Pipe(v)) \cup Range(v.unknown) = (Range(Pipe(u)) \cup Range(u.unknown)) \cup {b}
    /\ u.ready = Range(Pipe(u)) => v.ready = Range(Pipe(v))

\* import makes the block ready, and wakes what waited for it.
LEMMA QueueReady ==
    ASSUME NEW u, NEW v, NEW C, NEW D, NEW b \in Blocks, QueueOK(u, C, D), Fresh(u, b),
           Parent[b] \in (u.ready \cup u.draining) \cup C,
           v = NoteReady([u EXCEPT !.unverified = Append(@, b), !.ready = @ \cup {b}], b)
    PROVE  QueueOK(v, C, D) /\ Readied(u, v, b)
  <1>1. /\ u \in Queue /\ u.unknown \in Seq(Blocks) /\ u.unverified \in Seq(Blocks)
        /\ u.verified \in Seq(Blocks) /\ u.verifying \in Seq(Entries)
    BY QueueFields DEF QueueOK
  <1>2. PICK r : r = WakeAll(u.unknown, <<b>>)
    OBVIOUS
  <1>3. <<b>> \in Seq(Hashes) /\ <<b>> \in Seq(Blocks) /\ Range(<<b>>) = {b} /\ \A x, y : ~Precedes(<<b>>, x, y)
    BY Single, SMTT(60) DEF Hashes
  <1>4. Wakes(r, u.unknown, <<b>>)
    BY <1>1, <1>2, <1>3, WakeAllWakes
  <1>5. PICK w \in Seq(Blocks), rest \in Seq(Blocks) : r.woken = w /\ r.unknown = rest
    BY <1>4 DEF Wakes, Waking
  <1>6. PICK y \in Seq(Blocks) : y = Append(u.unverified, b)
    BY <1>1, AppendJoins
  <1>7. y = u.unverified \o <<b>>
    BY <1>1, <1>6, AppendJoins
  <1>8. v = [u EXCEPT !.unverified = y \o w, !.unknown = rest, !.ready = (@ \cup {b}) \cup Range(w)]
    <2>1. PICK x : x = [u EXCEPT !.unverified = y, !.ready = @ \cup {b}]
      OBVIOUS
    <2>2. x = [u EXCEPT !.unverified = Append(@, b), !.ready = @ \cup {b}]
      BY <2>1, <1>6
    <2>3. /\ x.unknown = u.unknown /\ x.unverified = y /\ x.ready = u.ready \cup {b}
      BY <2>1, <1>1 DEF Queue
    <2>4. v = [x EXCEPT !.unverified = @ \o w, !.unknown = rest, !.ready = @ \cup Range(w)]
      BY <2>2, <2>3, <1>2, <1>5 DEF NoteReady
    <2>. QED
      BY <2>1, <2>3, <2>4, <1>1 DEF Queue
  <1>9. Range(w) \subseteq Blocks
    BY RangeTyped
  <1>10. /\ v \in Queue /\ v.draining = u.draining /\ v.bad = u.bad
         /\ v.ready = (u.ready \cup {b}) \cup Range(w)
         /\ v.unknown = rest /\ v.verified = u.verified /\ v.verifying = u.verifying
         /\ v.unverified = y \o w
    <2>1. y \o w \in Seq(Blocks)
      BY SMTT(60)
    <2>. QED
      BY <2>1, <1>1, <1>8, <1>9 DEF Queue
  <1>11. PICK a \in Seq(Blocks), p \in Seq(Blocks) :
            a = u.verified \o BlocksOf(u.verifying) /\ p = Pipe(u) /\ p = a \o u.unverified
    <2>1. Pipe(u) \in Seq(Blocks) /\ BlocksOf(u.verifying) \in Seq(Blocks)
      BY <1>1, PipeParts
    <2>2. u.verified \o BlocksOf(u.verifying) \in Seq(Blocks)
      BY <2>1, <1>1, SMTT(60)
    <2>. QED
      BY <2>1, <2>2 DEF Pipe
  <1>. DEFINE n == <<b>> \o w
  <1>12. n \in Seq(Blocks) /\ Pipe(v) = p \o n
    <2>1. n \in Seq(Blocks)
      BY <1>3, SMTT(60)
    <2>2. Pipe(v) = a \o (y \o w)
      BY <1>10, <1>11 DEF Pipe
    <2>3. PICK z \in Seq(Blocks) : z = u.unverified
      BY <1>1
    <2>4. a \o ((z \o <<b>>) \o w) = (a \o z) \o (<<b>> \o w)
      <3>1. (z \o <<b>>) \o w = z \o (<<b>> \o w)
        BY <1>3, SMTT(60)
      <3>2. a \o (z \o n) = (a \o z) \o n
        <4>. HIDE DEF n
        <4>. QED
          BY <2>1, SMTT(60)
      <3>. QED
        BY <3>1, <3>2
    <2>. QED
      BY <2>1, <2>2, <2>3, <2>4, <1>7, <1>11
  <1>13. /\ Range(w) \cup Range(rest) = Range(u.unknown)
         /\ Distinct(w) /\ Distinct(rest) /\ Range(w) \cap Range(rest) = {}
    <2>1. Distinct(u.unknown)
      BY DEF QueueOK, Apart
    <2>2. Distinct(w \o rest)
      BY <2>1, <1>4, <1>5 DEF Wakes
    <2>3. Range(w) \cup Range(rest) = Range(u.unknown)
      BY <1>4, <1>5 DEF Wakes
    <2>. QED
      BY <2>2, <2>3, DistinctJoined
  <1>14. /\ \A c \in Range(w) : Parent[c] = b \/ Precedes(w, Parent[c], c)
         /\ \A c \in Range(rest) : Parent[c] # b /\ Parent[c] \notin Range(w)
    BY <1>3, <1>4, <1>5 DEF Wakes
  <1>15. /\ Range(n) = {b} \cup Range(w)
         /\ \A c, d : Precedes(n, c, d) <=> Precedes(w, c, d) \/ (c = b /\ d \in Range(w))
    <2>1. /\ Range(n) = Range(<<b>>) \cup Range(w)
          /\ \A c, d : Precedes(n, c, d) <=>
                Precedes(<<b>>, c, d) \/ Precedes(w, c, d) \/ (c \in Range(<<b>>) /\ d \in Range(w))
      BY <1>3, Joined
    <2>. HIDE DEF n
    <2>. QED
      BY <2>1, <1>3
  <1>. HIDE DEF n
  <1>16. /\ Range(Pipe(v)) = Range(p) \cup Range(n)
         /\ \A c, d : Precedes(Pipe(v), c, d) <=>
                Precedes(p, c, d) \/ Precedes(n, c, d) \/ (c \in Range(p) /\ d \in Range(n))
    <2>1. /\ Range(p \o n) = Range(p) \cup Range(n)
          /\ \A c, d : Precedes(p \o n, c, d) <=>
                Precedes(p, c, d) \/ Precedes(n, c, d) \/ (c \in Range(p) /\ d \in Range(n))
      BY <1>12, Joined
    <2>. QED
      BY <2>1, <1>12
  <1>17. b \notin Range(p) /\ b \notin Range(u.unknown)
    BY <1>11, FreshIsOut DEF Fresh
  <1>18. Distinct(Pipe(v))
    <2>1. \A c : ~Precedes(p, c, c)
      BY <1>11 DEF QueueOK, Apart, Distinct
    <2>2. \A c : ~Precedes(n, c, c)
      BY <1>13, <1>15, <1>17 DEF Distinct
    <2>3. Range(p) \cap Range(u.unknown) = {}
      BY <1>11 DEF QueueOK, Apart
    <2>4. Range(p) \cap Range(n) = {}
      BY <2>3, <1>13, <1>15, <1>17
    <2>. QED
      BY <2>1, <2>2, <2>4, <1>16 DEF Distinct
  <1>19. Apart(v)
    <2>1. Range(Pipe(v)) \cap Range(v.unknown) = {}
      BY <1>10, <1>11, <1>13, <1>15, <1>16, <1>17 DEF QueueOK, Apart
    <2>2. Range(Pipe(v)) \subseteq v.ready \cup v.bad
      BY <1>10, <1>11, <1>15, <1>16 DEF QueueOK, Apart
    <2>3. (v.ready \cup v.draining) \cap Range(v.unknown) = {}
      BY <1>10, <1>13, <1>17 DEF QueueOK, Apart
    <2>. QED
      BY <2>1, <2>2, <2>3, <1>10, <1>13, <1>18 DEF Apart
  <1>20. Waits(v)
    BY <1>10, <1>11, <1>13, <1>14, <1>15, <1>16 DEF QueueOK, Waits
  <1>21. ASSUME NEW c \in Blocks, Precedes(Pipe(v), c, Parent[c])
         PROVE  Parent[c] \in C \/ Moved(c, D)
    <2>1. CASE Precedes(p, c, Parent[c])
      BY <2>1, <1>11 DEF QueueOK, Ordered
    <2>2. CASE Precedes(w, c, Parent[c])
      <3>1. c \in Range(w) /\ Parent[c] \in Range(w)
        BY <2>2, PrecedesRange
      <3>2. ~Precedes(w, Parent[c], c)
        BY <2>2, <1>13, OneOrder
      <3>. QED
        BY <3>1, <3>2, <1>13, <1>14, <1>17
    <2>3. CASE c = b /\ Parent[c] \in Range(w)
      BY <2>3, <1>13 DEF QueueOK, Apart
    <2>4. CASE c \in Range(p) /\ Parent[c] \in Range(n)
      <3>1. Parent[c] = b \/ Parent[c] \in Range(u.unknown)
        BY <2>4, <1>13, <1>15
      <3>2. \/ Moved(c, D) \/ Parent[c] \in C
            \/ Parent[c] \in (u.ready \cup u.draining) \cup u.bad /\ Parent[c] \notin Range(u.unknown)
        BY <2>4, <1>11 DEF QueueOK, Known
      <3>. QED
        BY <3>1, <3>2 DEF Fresh
    <2>. QED
      BY <2>1, <2>2, <2>3, <2>4, <1>15, <1>16, <1>21
  <1>22. ASSUME NEW c \in Range(Pipe(v))
         PROVE  \/ Moved(c, D) \/ Parent[c] \in C
                \/ Parent[c] \in (v.ready \cup v.draining) \cup v.bad /\ Parent[c] \notin Range(v.unknown)
    <2>1. CASE c \in Range(p)
      <3>1. \/ Moved(c, D) \/ Parent[c] \in C
            \/ Parent[c] \in (u.ready \cup u.draining) \cup u.bad /\ Parent[c] \notin Range(u.unknown)
        BY <2>1, <1>11 DEF QueueOK, Known
      <3>. QED
        BY <3>1, <1>10, <1>13
    <2>2. CASE c = b
      <3>1. Parent[b] \in u.ready \cup u.draining => Parent[b] \notin Range(u.unknown)
        BY DEF QueueOK, Apart
      <3>. QED
        BY <3>1, <2>2, <1>10, <1>13
    <2>3. CASE c \in Range(w)
      <3>1. Parent[c] = b \/ Parent[c] \in Range(w)
        BY <2>3, <1>14, PrecedesRange
      <3>. QED
        BY <3>1, <1>10, <1>13, <1>17
    <2>. QED
      BY <2>1, <2>2, <2>3, <1>15, <1>16
  <1>23. Ghosts(v)
    BY <1>10, <1>11, <1>15, <1>16 DEF QueueOK, Ghosts
  <1>24. QueueOK(v, C, D)
    BY <1>10, <1>19, <1>20, <1>21, <1>22, <1>23 DEF QueueOK, Ordered, Known
  <1>25. Range(Pipe(v)) \cup Range(v.unknown) = (Range(Pipe(u)) \cup Range(u.unknown)) \cup {b}
    BY <1>10, <1>11, <1>13, <1>15, <1>16
  <1>26. u.ready = Range(Pipe(u)) => v.ready = Range(Pipe(v))
    BY <1>10, <1>11, <1>15, <1>16
  <1>27. u.ready \subseteq v.ready /\ b \in v.ready /\ Range(u.unknown) \subseteq v.ready \cup Range(v.unknown)
    BY <1>10, <1>13
  <1>. QED
    BY <1>10, <1>24, <1>25, <1>26, <1>27 DEF Readied


\* What import does to the queue with a block that nothing knows.
LEMMA AcceptOK ==
    ASSUME NEW b \in Blocks, NEW D, NEW s, NEW B, QueueOK(q, chain, D), Fresh(q, b)
    PROVE  /\ QueueOK(Accept(b), chain, D)
           /\ BatchOK(s, B, q, chain, D) => BatchOK(s, B, Accept(b), chain, D)
           /\ Keeps(q, Accept(b))
           /\ b \in (Accept(b).ready \cup Range(Accept(b).unknown)) \cup Accept(b).bad
           /\ q.bad = {} /\ q.ready = Range(Pipe(q)) =>
                 Accept(b).bad = {} /\ Accept(b).ready = Range(Pipe(Accept(b)))
  <1>1. PICK v : v = Accept(b)
    OBVIOUS
  <1>2. q \in Queue
    BY DEF QueueOK
  <1>. SUFFICES /\ QueueOK(v, chain, D)
                /\ BatchOK(s, B, q, chain, D) => BatchOK(s, B, v, chain, D)
                /\ Keeps(q, v)
                /\ b \in (v.ready \cup Range(v.unknown)) \cup v.bad
                /\ q.bad = {} /\ q.ready = Range(Pipe(q)) => v.bad = {} /\ v.ready = Range(Pipe(v))
    BY <1>1
  <1>3. CASE Parent[b] \in q.bad
    <2>1. PICK u : u = [q EXCEPT !.bad = @ \cup {b}]
      OBVIOUS
    <2>2. v = UpdateBad(u, b)
      BY <1>1, <1>3, <2>1 DEF Accept
    <2>3. /\ u \in Queue /\ u.draining = q.draining /\ u.bad = q.bad \cup {b} /\ u.ready = q.ready
          /\ u.unknown = q.unknown /\ u.verified = q.verified /\ u.verifying = q.verifying
          /\ u.unverified = q.unverified
      BY <1>2, <2>1 DEF Queue
    <2>4. Pipe(u) = Pipe(q)
      BY <2>3 DEF Pipe
    <2>5. Shrinks(q, u)
      BY <2>3, <2>4, WithinReflexive DEF Shrinks
    <2>6. Shrinks(u, v)
      BY <2>2, <2>3, UpdateBadShrinks
    <2>7. Shrinks(q, v)
      BY <2>5, <2>6, ShrinksTransitive
    <2>8. QueueOK(v, chain, D)
      BY <2>7, QueueShrinks
    <2>9. BatchOK(s, B, q, chain, D) => BatchOK(s, B, v, chain, D)
      BY <2>7, BatchShrinks
    <2>10. Keeps(q, v)
      BY <2>7, ShrinksKeeps
    <2>11. b \in v.bad
      BY <2>3, <2>6 DEF Shrinks
    <2>. QED
      BY <2>8, <2>9, <2>10, <2>11, <1>3
  <1>4. CASE Parent[b] \notin q.bad /\ Parent[b] \notin (q.ready \cup q.draining) \cup chain
    <2>1. v = [q EXCEPT !.unknown = Append(@, b)]
      BY <1>1, <1>4 DEF Accept
    <2>2. QueueOK(v, chain, D)
      BY <2>1, <1>4, QueueUnknown
    <2>3. q.unknown \in Seq(Blocks)
      BY <1>2, QueueFields
    <2>4. Range(Append(q.unknown, b)) = Range(q.unknown) \cup {b}
      <3>1. Append(q.unknown, b) = q.unknown \o <<b>> /\ <<b>> \in Seq(Blocks)
        BY <2>3, AppendJoins, SMTT(60)
      <3>2. Range(q.unknown \o <<b>>) = Range(q.unknown) \cup Range(<<b>>)
        BY <3>1, <2>3, Joined
      <3>3. Range(<<b>>) = {b}
        BY Single
      <3>. QED
        BY <3>1, <3>2, <3>3
    <2>5. /\ v.draining = q.draining /\ v.bad = q.bad /\ v.ready = q.ready
          /\ v.unknown = Append(q.unknown, b) /\ v.verified = q.verified /\ v.verifying = q.verifying
          /\ v.unverified = q.unverified
      BY <2>1, <1>2 DEF Queue
    <2>6. Pipe(v) = Pipe(q)
      BY <2>5 DEF Pipe
    <2>7. Range(v.unknown) = Range(q.unknown) \cup {b}
      BY <2>4, <2>5
    <2>8. Range(Pipe(v)) \cup Range(v.unknown) = (Range(Pipe(q)) \cup Range(q.unknown)) \cup {b}
      BY <2>6, <2>7
    <2>9. BatchOK(s, B, q, chain, D) => BatchOK(s, B, v, chain, D)
      BY <2>5, <2>8, <1>4, BatchUnknown
    <2>10. Keeps(q, v) /\ b \in Range(v.unknown)
      BY <2>5, <2>7 DEF Keeps
    <2>. QED
      BY <2>2, <2>5, <2>6, <2>9, <2>10
  <1>5. CASE Parent[b] \notin q.bad /\ Parent[b] \in (q.ready \cup q.draining) \cup chain
    <2>1. v = NoteReady([q EXCEPT !.unverified = Append(@, b), !.ready = @ \cup {b}], b)
      BY <1>1, <1>5 DEF Accept
    <2>2. /\ QueueOK(v, chain, D)
          /\ v.bad = q.bad /\ v.draining = q.draining /\ b \in v.ready
          /\ q.ready \subseteq v.ready
          /\ Range(q.unknown) \subseteq v.ready \cup Range(v.unknown)
          /\ Range(Pipe(v)) \cup Range(v.unknown) = (Range(Pipe(q)) \cup Range(q.unknown)) \cup {b}
          /\ q.ready = Range(Pipe(q)) => v.ready = Range(Pipe(v))
      <3>1. QueueOK(v, chain, D) /\ Readied(q, v, b)
        BY <2>1, <1>5, QueueReady
      <3>. QED
        BY <3>1 DEF Readied
    <2>3. BatchOK(s, B, q, chain, D) => BatchOK(s, B, v, chain, D)
      BY <2>2, <1>5, BatchUnknown
    <2>4. Keeps(q, v)
      BY <2>2 DEF Keeps
    <2>. QED
      BY <2>2, <2>3, <2>4
  <1>. QED
    BY <1>3, <1>4, <1>5

\* retryAllUnknown queues everything that waits, and displaces it.
LEMMA QueueRetry ==
    ASSUME NEW C, NEW D, QueueOK(q, C, D), NEW s, NEW B, BatchOK(s, B, q, C, D), NEW v, NEW all,
           all = ByKey(q.unknown, Parent, NumBlocks),
           v = [q EXCEPT !.unverified = @ \o all, !.unknown = <<>>, !.ready = @ \cup Range(all)]
    PROVE  /\ QueueOK(v, C, D \cup Range(q.unknown))
           /\ BatchOK(s, B, v, C, D \cup Range(q.unknown))
           /\ Keeps(q, v) /\ v.bad = q.bad
  <1>1. /\ q \in Queue /\ q.unknown \in Seq(Blocks) /\ q.unverified \in Seq(Blocks)
        /\ q.verified \in Seq(Blocks) /\ q.verifying \in Seq(Entries)
    BY QueueFields DEF QueueOK
  <1>2. /\ all \in Seq(Blocks) /\ Range(all) = {b \in Range(q.unknown) : Parent[b] <= NumBlocks}
        /\ Distinct(q.unknown) => Distinct(all)
    <2>1. NumBlocks \in Nat /\ Parent \in [Blocks -> Nat]
      BY BlocksAssumption, SMTT(60)
    <2>. QED
      BY <2>1, <1>1, ByKeySorts
  <1>3. Range(q.unknown) \subseteq Blocks
    BY <1>1, RangeTyped
  <1>4. \A b \in Blocks : Parent[b] <= NumBlocks
    BY BlocksAssumption, SMTT(60)
  <1>5. Range(all) = Range(q.unknown) /\ Distinct(all)
    BY <1>2, <1>3, <1>4 DEF QueueOK, Apart
  <1>6. PICK y \in Seq(Blocks) : y = q.unverified \o all
    <2>1. q.unverified \o all \in Seq(Blocks)
      BY <1>1, <1>2, JoinTyped
    <2>. QED
      BY <2>1
  <1>7. /\ v \in Queue /\ v.draining = q.draining /\ v.bad = q.bad
        /\ v.ready = q.ready \cup Range(q.unknown)
        /\ v.unknown = <<>> /\ v.verified = q.verified /\ v.verifying = q.verifying
        /\ v.unverified = y
    <2>1. v = [q EXCEPT !.unverified = y, !.unknown = <<>>, !.ready = @ \cup Range(q.unknown)]
      BY <1>5, <1>6
    <2>2. PICK x \in SUBSET Blocks, nil \in Seq(Blocks) : x = q.ready \cup Range(q.unknown) /\ nil = <<>>
      <3>1. q.ready \cup Range(q.unknown) \in SUBSET Blocks /\ <<>> \in Seq(Blocks)
        BY <1>1, <1>3, QueueFields, SMTT(60)
      <3>. QED
        BY <3>1
    <2>3. v = [q EXCEPT !.unverified = y, !.unknown = nil, !.ready = x]
      BY <2>1, <2>2
    <2>4. /\ v \in Queue /\ v.draining = q.draining /\ v.bad = q.bad /\ v.ready = x
          /\ v.unknown = nil /\ v.verified = q.verified /\ v.verifying = q.verifying
          /\ v.unverified = y
      BY <2>3, <1>1 DEF Queue
    <2>. QED
      BY <2>2, <2>4
  <1>8. PICK p \in Seq(Blocks) : p = Pipe(q)
    BY <1>1, PipeParts
  <1>9. Pipe(v) = p \o all
    <2>1. PICK a \in Seq(Blocks), z \in Seq(Blocks) :
             a = q.verified \o BlocksOf(q.verifying) /\ z = q.unverified
      <3>1. BlocksOf(q.verifying) \in Seq(Blocks)
        BY <1>1, PipeParts
      <3>2. q.verified \o BlocksOf(q.verifying) \in Seq(Blocks)
        BY <3>1, <1>1, JoinTyped
      <3>. QED
        BY <3>2, <1>1
    <2>2. a \o (z \o all) = (a \o z) \o all
      BY <1>2, SMTT(60)
    <2>. QED
      BY <2>1, <2>2, <1>6, <1>7, <1>8 DEF Pipe
  <1>10. /\ Range(Pipe(v)) = Range(p) \cup Range(all)
         /\ \A c, d : Precedes(Pipe(v), c, d) <=>
               Precedes(p, c, d) \/ Precedes(all, c, d) \/ (c \in Range(p) /\ d \in Range(all))
    <2>1. /\ Range(p \o all) = Range(p) \cup Range(all)
          /\ \A c, d : Precedes(p \o all, c, d) <=>
                Precedes(p, c, d) \/ Precedes(all, c, d) \/ (c \in Range(p) /\ d \in Range(all))
      BY <1>2, Joined
    <2>. QED
      BY <2>1, <1>9
  <1>. DEFINE E == D \cup Range(q.unknown)
  <1>11. Range(v.unknown) = {} /\ Distinct(v.unknown)
    BY <1>7, Nothing DEF Distinct
  <1>12. Apart(v)
    <2>1. Distinct(p) /\ Range(p) \cap Range(q.unknown) = {}
      BY <1>8 DEF QueueOK, Apart
    <2>2. Distinct(p \o all)
      BY <2>1, <1>2, <1>5, DistinctJoined
    <2>3. Range(Pipe(v)) \subseteq v.ready \cup v.bad
      BY <1>5, <1>7, <1>8, <1>10 DEF QueueOK, Apart
    <2>. QED
      BY <2>2, <2>3, <1>9, <1>11 DEF Apart
  <1>13. Waits(v)
    BY <1>11 DEF Waits
  <1>14. Ordered(Pipe(v), C, E)
    <2>1. ASSUME NEW c \in Blocks, Precedes(Pipe(v), c, Parent[c])
          PROVE  Parent[c] \in C \/ Moved(c, E)
      <3>1. CASE Precedes(p, c, Parent[c])
        BY <3>1, <1>8 DEF QueueOK, Ordered, Moved
      <3>2. CASE Precedes(all, c, Parent[c])
        BY <3>2, <1>5, PrecedesRange DEF Moved
      <3>3. CASE Parent[c] \in Range(all)
        BY <3>3, <1>5 DEF Moved
      <3>. QED
        BY <3>1, <3>2, <3>3, <2>1, <1>10
    <2>. QED
      BY <2>1 DEF Ordered
  <1>15. Known(v, C, E)
    <2>1. ASSUME NEW c \in Range(Pipe(v))
          PROVE  \/ Moved(c, E) \/ Parent[c] \in C
                 \/ Parent[c] \in (v.ready \cup v.draining) \cup v.bad /\ Parent[c] \notin Range(v.unknown)
      <3>1. CASE c \in Range(p)
        <4>1. \/ Moved(c, D) \/ Parent[c] \in C
              \/ Parent[c] \in (q.ready \cup q.draining) \cup q.bad
          BY <3>1, <1>8 DEF QueueOK, Known
        <4>. QED
          BY <4>1, <1>7, <1>11 DEF Moved
      <3>2. CASE c \in Range(all)
        BY <3>2, <1>5 DEF Moved
      <3>. QED
        BY <3>1, <3>2, <1>10
    <2>. QED
      BY <2>1 DEF Known
  <1>16. Ghosts(v)
    BY <1>5, <1>7, <1>8, <1>10 DEF QueueOK, Ghosts
  <1>17. BatchOK(s, B, v, C, E)
    <2>1. Ordered(s, C, E)
      BY DEF BatchOK, Ordered, Moved
    <2>2. ASSUME NEW c \in Range(s)
          PROVE  \/ Moved(c, E) \/ Parent[c] \in C \cup B
                 \/ Precedes(s, Parent[c], c)
                 \/ NoUncles \in v.bad
                 \/ Parent[c] \notin Range(Pipe(v)) \cup Range(v.unknown) /\ Gone(Parent[c], v.bad)
      <3>1. \/ Moved(c, D) \/ Parent[c] \in C \cup B
            \/ Precedes(s, Parent[c], c)
            \/ NoUncles \in q.bad
            \/ Parent[c] \notin Range(Pipe(q)) \cup Range(q.unknown) /\ Gone(Parent[c], q.bad)
        BY DEF BatchOK
      <3>2. Moved(c, D) => Moved(c, E)
        BY DEF Moved
      <3>3. Range(Pipe(v)) \cup Range(v.unknown) = Range(Pipe(q)) \cup Range(q.unknown)
        BY <1>5, <1>8, <1>10, <1>11
      <3>. QED
        BY <3>1, <3>2, <3>3, <1>7
    <2>. QED
      BY <2>1, <2>2 DEF BatchOK
  <1>18. Keeps(q, v)
    BY <1>7 DEF Keeps
  <1>. QED
    BY <1>7, <1>12, <1>13, <1>14, <1>15, <1>16, <1>17, <1>18 DEF QueueOK

\* drain hands the first verified blocks to the client.
Handed(u, out, rest) ==
    [u EXCEPT !.verified = rest, !.draining = @ \cup Range(out), !.ready = @ \ Range(out)]

HandedOK(u, v, out, C, D) ==
    /\ QueueOK(v, C, D)
    /\ BatchOK(out, {}, v, C, D)
    /\ v.bad = u.bad /\ v.draining = u.draining \cup Range(out) /\ v.ready = u.ready \ Range(out)
    /\ v.unknown = u.unknown
    /\ Range(Pipe(u)) = Range(out) \cup Range(Pipe(v)) /\ Range(out) \cap Range(Pipe(v)) = {}

\* drain keeps the queue sound and hands out a sound batch.
LEMMA QueueDrain ==
    ASSUME NEW C, NEW D, NEW u, QueueOK(u, C, D), u.draining \subseteq C \cup D,
           NEW out \in Seq(Blocks), NEW rest \in Seq(Blocks), u.verified = out \o rest, NEW v,
           v = Handed(u, out, rest)
    PROVE  HandedOK(u, v, out, C, D)
  <1>1. /\ u \in Queue /\ u.unknown \in Seq(Blocks) /\ u.unverified \in Seq(Blocks)
        /\ u.verified \in Seq(Blocks) /\ u.verifying \in Seq(Entries)
    BY QueueFields DEF QueueOK
  <1>2. Range(out) \subseteq Blocks
    BY RangeTyped
  <1>3. /\ v \in Queue /\ v.draining = u.draining \cup Range(out) /\ v.bad = u.bad
        /\ v.ready = u.ready \ Range(out)
        /\ v.unknown = u.unknown /\ v.verified = rest /\ v.verifying = u.verifying
        /\ v.unverified = u.unverified
    <2>1. PICK x \in SUBSET Blocks, y \in SUBSET Blocks : x = u.draining \cup Range(out) /\ y = u.ready \ Range(out)
      <3>1. u.draining \cup Range(out) \in SUBSET Blocks /\ u.ready \ Range(out) \in SUBSET Blocks
        BY <1>1, <1>2, QueueFields
      <3>. QED
        BY <3>1
    <2>2. v = [u EXCEPT !.verified = rest, !.draining = x, !.ready = y]
      BY <2>1 DEF Handed
    <2>3. /\ v \in Queue /\ v.draining = x /\ v.bad = u.bad /\ v.ready = y
          /\ v.unknown = u.unknown /\ v.verified = rest /\ v.verifying = u.verifying
          /\ v.unverified = u.unverified
      BY <2>2, <1>1 DEF Queue
    <2>. QED
      BY <2>1, <2>3
  <1>4. PICK p \in Seq(Blocks) : p = Pipe(v)
    BY <1>3, PipeParts
  <1>5. Pipe(u) = out \o p
    <2>1. PICK a \in Seq(Blocks), z \in Seq(Blocks) : a = BlocksOf(u.verifying) /\ z = u.unverified
      BY <1>1, PipeParts
    <2>2. ((out \o rest) \o a) \o z = out \o ((rest \o a) \o z)
      <3>1. Regroups(out, rest, a, z)
        BY JoinedFour
      <3>. QED
        BY <3>1 DEF Regroups
    <2>. QED
      BY <2>1, <2>2, <1>3, <1>4 DEF Pipe
  <1>6. /\ Range(Pipe(u)) = Range(out) \cup Range(p)
        /\ \A c, d : Precedes(Pipe(u), c, d) <=>
              Precedes(out, c, d) \/ Precedes(p, c, d) \/ (c \in Range(out) /\ d \in Range(p))
    <2>1. /\ Range(out \o p) = Range(out) \cup Range(p)
          /\ \A c, d : Precedes(out \o p, c, d) <=>
                Precedes(out, c, d) \/ Precedes(p, c, d) \/ (c \in Range(out) /\ d \in Range(p))
      BY Joined
    <2>. QED
      BY <2>1, <1>5
  <1>7. Distinct(out) /\ Distinct(p) /\ Range(out) \cap Range(p) = {}
    <2>1. Distinct(out \o p)
      BY <1>5 DEF QueueOK, Apart
    <2>. QED
      BY <2>1, DistinctJoined
  <1>8. Apart(v)
    <2>1. Range(p) \cap Range(v.unknown) = {}
      BY <1>3, <1>6 DEF QueueOK, Apart
    <2>2. Range(p) \subseteq v.ready \cup v.bad
      BY <1>3, <1>6, <1>7 DEF QueueOK, Apart
    <2>3. (v.ready \cup v.draining) \cap Range(v.unknown) = {}
      BY <1>3, <1>6 DEF QueueOK, Apart
    <2>4. Distinct(v.unknown)
      BY <1>3 DEF QueueOK, Apart
    <2>. QED
      BY <2>1, <2>2, <2>3, <2>4, <1>4, <1>7 DEF Apart
  <1>9. Waits(v)
    BY <1>3, <1>4, <1>6 DEF QueueOK, Waits
  <1>10. Ordered(p, C, D) /\ Ordered(out, C, D)
    BY <1>6 DEF QueueOK, Ordered
  <1>11. Known(v, C, D)
    <2>1. ASSUME NEW c \in Range(p)
          PROVE  \/ Moved(c, D) \/ Parent[c] \in C
                 \/ Parent[c] \in (v.ready \cup v.draining) \cup v.bad /\ Parent[c] \notin Range(v.unknown)
      <3>1. \/ Moved(c, D) \/ Parent[c] \in C
            \/ Parent[c] \in (u.ready \cup u.draining) \cup u.bad /\ Parent[c] \notin Range(u.unknown)
        BY <1>6 DEF QueueOK, Known
      <3>. QED
        BY <3>1, <1>3
    <2>. QED
      BY <2>1, <1>4 DEF Known
  <1>12. Ghosts(v)
    BY <1>3, <1>4, <1>6 DEF QueueOK, Ghosts
  <1>13. ASSUME NEW c \in Range(out)
         PROVE  \/ Moved(c, D) \/ Parent[c] \in C \cup {}
                \/ Precedes(out, Parent[c], c)
                \/ NoUncles \in v.bad
                \/ Parent[c] \notin Range(Pipe(v)) \cup Range(v.unknown) /\ Gone(Parent[c], v.bad)
    <2>. SUFFICES ASSUME ~Moved(c, D), Parent[c] \notin C, ~Precedes(out, Parent[c], c)
                  PROVE  Parent[c] \notin Range(Pipe(v)) \cup Range(v.unknown) /\ Gone(Parent[c], v.bad)
      OBVIOUS
    <2>0. c \in Blocks /\ Parent[c] # c
      BY <1>2, NotOwnParent
    <2>1. ~Precedes(Pipe(u), c, Parent[c])
      BY <2>0 DEF QueueOK, Ordered
    <2>2. Parent[c] \notin Range(p)
      BY <2>1, <1>6
    <2>3. Parent[c] \notin Range(out)
      BY <2>0, <2>1, <1>6, SomeOrder
    <2>4. Parent[c] \in (u.ready \cup u.draining) \cup u.bad /\ Parent[c] \notin Range(u.unknown)
      BY <1>6 DEF QueueOK, Known
    <2>5. Parent[c] \notin u.draining
      BY DEF Moved
    <2>6. Parent[c] \in u.ready => Gone(Parent[c], u.bad)
      BY <2>2, <2>3, <1>6 DEF QueueOK, Ghosts
    <2>7. Parent[c] \in u.bad => Gone(Parent[c], u.bad)
      BY DEF Gone
    <2>. QED
      BY <2>2, <2>4, <2>5, <2>6, <2>7, <1>3, <1>4
  <1>14. BatchOK(out, {}, v, C, D)
    BY <1>7, <1>10, <1>13 DEF BatchOK
  <1>15. QueueOK(v, C, D)
    BY <1>3, <1>4, <1>8, <1>9, <1>10, <1>11, <1>12 DEF QueueOK
  <1>. QED
    BY <1>3, <1>4, <1>6, <1>7, <1>14, <1>15 DEF HandedOK

\* The chain imports or refuses the next drained block.
LEMMA BatchNext ==
    ASSUME NEW s \in Seq(Blocks), s # <<>>, NEW u, NEW B, NEW C, NEW D, NEW A, NEW E, NEW F,
           BatchOK(s, B, u, C, D), B \subseteq A, C \subseteq E, D \subseteq F,
           Head(s) \in A \cup E \cup F
    PROVE  BatchOK(Tail(s), A, u, E, F)
  <1>1. PICK b \in Blocks, t \in Seq(Blocks) : b = Head(s) /\ t = Tail(s) /\ s = <<b>> \o t
    BY HeadAndTail
  <1>2. <<b>> \in Seq(Blocks) /\ Range(<<b>>) = {b} /\ \A c, d : ~Precedes(<<b>>, c, d)
    BY Single, SMTT(60)
  <1>3. /\ Range(s) = {b} \cup Range(t)
        /\ \A c, d : Precedes(s, c, d) <=> Precedes(t, c, d) \/ (c = b /\ d \in Range(t))
    <2>1. /\ Range(<<b>> \o t) = Range(<<b>>) \cup Range(t)
          /\ \A c, d : Precedes(<<b>> \o t, c, d) <=>
                Precedes(<<b>>, c, d) \/ Precedes(t, c, d) \/ (c \in Range(<<b>>) /\ d \in Range(t))
      BY <1>2, Joined
    <2>. QED
      BY <2>1, <1>1, <1>2
  <1>4. Distinct(t)
    BY <1>3 DEF BatchOK, Distinct
  <1>5. Ordered(t, E, F)
    BY <1>3 DEF BatchOK, Ordered, Moved
  <1>6. ASSUME NEW c \in Range(t)
        PROVE  \/ Moved(c, F) \/ Parent[c] \in E \cup A
               \/ Precedes(t, Parent[c], c)
               \/ NoUncles \in u.bad
               \/ Parent[c] \notin Range(Pipe(u)) \cup Range(u.unknown) /\ Gone(Parent[c], u.bad)
    <2>1. \/ Moved(c, D) \/ Parent[c] \in C \cup B
          \/ Precedes(s, Parent[c], c)
          \/ NoUncles \in u.bad
          \/ Parent[c] \notin Range(Pipe(u)) \cup Range(u.unknown) /\ Gone(Parent[c], u.bad)
      BY <1>3 DEF BatchOK
    <2>2. Moved(c, D) => Moved(c, F)
      BY DEF Moved
    <2>3. Precedes(s, Parent[c], c) => Precedes(t, Parent[c], c) \/ Parent[c] \in A \cup E \cup F
      BY <1>1, <1>3
    <2>4. Parent[c] \in F => Moved(c, F)
      BY DEF Moved
    <2>. QED
      BY <2>1, <2>2, <2>3, <2>4
  <1>. QED
    BY <1>1, <1>4, <1>5, <1>6 DEF BatchOK

\* The first drained block has its parent in the chain, when nothing is bad.
LEMMA BatchSound ==
    ASSUME NEW s \in Seq(Blocks), s # <<>>, NEW u, NEW C, BatchOK(s, {}, u, C, {}), u.bad = {}
    PROVE  Parent[Head(s)] \in C
  <1>1. PICK b \in Blocks, t \in Seq(Blocks) : b = Head(s) /\ t = Tail(s) /\ s = <<b>> \o t
    BY HeadAndTail
  <1>2. <<b>> \in Seq(Blocks) /\ Range(<<b>>) = {b} /\ \A c, d : ~Precedes(<<b>>, c, d)
    BY Single, SMTT(60)
  <1>3. /\ Range(s) = {b} \cup Range(t)
        /\ \A c, d : Precedes(s, c, d) <=> Precedes(t, c, d) \/ (c = b /\ d \in Range(t))
    <2>1. /\ Range(<<b>> \o t) = Range(<<b>>) \cup Range(t)
          /\ \A c, d : Precedes(<<b>> \o t, c, d) <=>
                Precedes(<<b>>, c, d) \/ Precedes(t, c, d) \/ (c \in Range(<<b>>) /\ d \in Range(t))
      BY <1>2, Joined
    <2>. QED
      BY <2>1, <1>1, <1>2
  <1>4. b \notin Range(t)
    BY <1>3 DEF BatchOK, Distinct
  <1>5. ~Precedes(s, Parent[b], b)
    BY <1>3, <1>4, PrecedesRange
  <1>6. ~Moved(b, {}) /\ ~Gone(Parent[b], u.bad) /\ NoUncles \notin u.bad
    BY DEF Moved, Gone
  <1>7. Parent[b] \in C \cup {}
    BY <1>3, <1>5, <1>6 DEF BatchOK
  <1>. QED
    BY <1>1, <1>7

\* doneDrain: nothing is being drained, and the blocks of B are bad.
DoneWith(u, B) == [u EXCEPT !.draining = {}, !.bad = @ \cup B]

DoneOK(u, v, B, C, D) ==
    /\ QueueOK(v, C, D)
    /\ v.bad = u.bad \cup B /\ v.draining = {} /\ v.ready = u.ready /\ v.unknown = u.unknown
    /\ Pipe(v) = Pipe(u)

\* doneDrain keeps the queue sound: what was drained is bad, in the chain or displaced.
LEMMA QueueDone ==
    ASSUME NEW u, NEW C, NEW D, QueueOK(u, C, D), NEW B, B \subseteq Blocks,
           u.draining \subseteq B \cup (C \cup D), NEW v,
           v = DoneWith(u, B)
    PROVE  DoneOK(u, v, B, C, D)
  <1>1. u \in Queue
    BY DEF QueueOK
  <1>2. /\ v \in Queue /\ v.draining = {} /\ v.bad = u.bad \cup B /\ v.ready = u.ready
        /\ v.unknown = u.unknown /\ v.verified = u.verified /\ v.verifying = u.verifying
        /\ v.unverified = u.unverified
    BY <1>1 DEF Queue, DoneWith
  <1>3. Pipe(v) = Pipe(u)
    BY <1>2 DEF Pipe
  <1>4. Apart(v)
    BY <1>2, <1>3 DEF QueueOK, Apart
  <1>5. Waits(v)
    BY <1>2, <1>3 DEF QueueOK, Waits
  <1>6. Known(v, C, D)
    <2>1. ASSUME NEW c \in Range(Pipe(u))
          PROVE  \/ Moved(c, D) \/ Parent[c] \in C
                 \/ Parent[c] \in (v.ready \cup v.draining) \cup v.bad /\ Parent[c] \notin Range(v.unknown)
      <3>1. \/ Moved(c, D) \/ Parent[c] \in C
            \/ Parent[c] \in (u.ready \cup u.draining) \cup u.bad /\ Parent[c] \notin Range(u.unknown)
        BY DEF QueueOK, Known
      <3>2. Parent[c] \in u.draining => Parent[c] \in B \/ Parent[c] \in C \/ Moved(c, D)
        BY DEF Moved
      <3>. QED
        BY <3>1, <3>2, <1>2
    <2>. QED
      BY <2>1, <1>3 DEF Known
  <1>7. Ghosts(v)
    BY <1>2, <1>3 DEF QueueOK, Ghosts, Gone
  <1>. QED
    BY <1>2, <1>3, <1>4, <1>5, <1>6, <1>7 DEF DoneOK, QueueOK

\* A queue of its fields.
LEMMA MakeQueue ==
    ASSUME NEW a \in SUBSET (Blocks \cup {NoUncles}), NEW x \in Seq(Blocks), NEW y \in Seq(Entries)
    PROVE  \A w : w = [ready |-> {}, draining |-> {}, bad |-> a, unknown |-> x,
                       unverified |-> x, verified |-> x, verifying |-> y] => w \in Queue
  BY SMTT(60) DEF Queue

\* The empty queue.
LEMMA QueueEmpty ==
    ASSUME NEW C, NEW D, NEW B, B \subseteq Hashes, NEW v, v = [EmptyQueue EXCEPT !.bad = B]
    PROVE  /\ QueueOK(v, C, D)
           /\ v.bad = B /\ v.draining = {} /\ v.ready = {} /\ Range(v.unknown) = {} /\ Range(Pipe(v)) = {}
  <1>1. /\ v \in Queue /\ v.draining = {} /\ v.bad = B /\ v.ready = {}
        /\ v.unknown = <<>> /\ v.verified = <<>> /\ v.verifying = <<>> /\ v.unverified = <<>>
    <2>1. v = [ready |-> {}, draining |-> {}, bad |-> B, unknown |-> <<>>,
               unverified |-> <<>>, verified |-> <<>>, verifying |-> <<>>]
      BY DEF EmptyQueue
    <2>2. <<>> \in Seq(Blocks) /\ <<>> \in Seq(Entries) /\ B \in SUBSET (Blocks \cup {NoUncles})
      BY SMTT(60) DEF Hashes
    <2>3. PICK x \in Seq(Blocks), y \in Seq(Entries) : x = <<>> /\ y = <<>>
      BY <2>2
    <2>4. v = [ready |-> {}, draining |-> {}, bad |-> B, unknown |-> x,
               unverified |-> x, verified |-> x, verifying |-> y]
      BY <2>1, <2>3
    <2>5. v \in Queue
      <3>1. PICK w : w = [ready |-> {}, draining |-> {}, bad |-> B, unknown |-> x,
                          unverified |-> x, verified |-> x, verifying |-> y]
        OBVIOUS
      <3>2. w \in Queue
        BY <3>1, <2>2, MakeQueue
      <3>. QED
        BY <3>1, <3>2, <2>4
    <2>. QED
      BY <2>1, <2>5, SMTT(60)
  <1>2. Pipe(v) = <<>>
    BY <1>1, SMTT(60) DEF Pipe, BlocksOf
  <1>3. Range(<<>>) = {} /\ \A a, b : ~Precedes(<<>>, a, b)
    BY Nothing
  <1>4. Apart(v) /\ Waits(v) /\ Ordered(Pipe(v), C, D) /\ Known(v, C, D) /\ Ghosts(v)
    BY <1>1, <1>2, <1>3 DEF Apart, Waits, Ordered, Known, Ghosts, Distinct
  <1>. QED
    BY <1>1, <1>2, <1>3, <1>4 DEF QueueOK
-----------------------------------------------------------------------------
(* The steps.                                                              *)

\* The blocks of Held, part by part.
Parts(u, f, t, s, B) ==
    (u.ready \cup u.draining) \cup ((Range(u.unknown) \cup Range(f)) \cup Range(t)) \cup (Range(s) \cup Range(B))

\* What the queue answers for is the union of its parts.
LEMMA HeldParts ==
    ASSUME NEW u \in Queue, NEW f \in Seq(Blocks), NEW t \in Seq(Blocks), NEW s \in Seq(Blocks),
           NEW B \in Seq(Blocks)
    PROVE  u.ready \cup u.draining \cup Range(u.unknown \o f \o t \o s \o B) = Parts(u, f, t, s, B)
  <1>1. PICK a \in Seq(Blocks) : a = u.unknown
    BY QueueFields
  <1>2. PICK b \in Seq(Blocks) : b = a \o f
    BY JoinTyped
  <1>3. PICK c \in Seq(Blocks) : c = b \o t
    BY JoinTyped
  <1>4. PICK d \in Seq(Blocks) : d = c \o s
    BY JoinTyped
  <1>5. Range(b) = Range(a) \cup Range(f)
    BY <1>2, Joined
  <1>6. Range(c) = Range(b) \cup Range(t)
    BY <1>3, Joined
  <1>7. Range(d) = Range(c) \cup Range(s)
    BY <1>4, Joined
  <1>8. Range(d \o B) = Range(d) \cup Range(B)
    BY Joined
  <1>9. u.unknown \o f \o t \o s \o B = d \o B
    BY <1>1, <1>2, <1>3, <1>4
  <1>. QED
    BY <1>1, <1>5, <1>6, <1>7, <1>8, <1>9 DEF Parts

\* What a step may do to the blocks the queue answers for.
Accounted ==
    \A b \in Held \ Held' :
        \/ b \in chain' \cup q'.bad \cup displaced'
        \/ Number[b] <= irreversible'
        \/ clears' # clears

\* A step that accounts for each part accounts for what is held.
LEMMA Accounting ==
    ASSUME TypeOK, TypeOK',
           \A b \in Parts(q, future, todo, blocks, badBlocks) :
              \/ b \in Parts(q', future', todo', blocks', badBlocks')
              \/ b \in chain' \cup q'.bad \cup displaced'
              \/ Number[b] <= irreversible'
              \/ clears' # clears
    PROVE  Accounted
  <1>1. Held = Parts(q, future, todo, blocks, badBlocks)
    <2>1. q \in Queue /\ future \in Seq(Blocks) /\ todo \in Seq(Blocks) /\ blocks \in Seq(Blocks)
          /\ badBlocks \in Seq(Blocks)
      BY DEF TypeOK
    <2>. QED
      BY <2>1, HeldParts, SMTT(60) DEF Held
  <1>2. Held' = Parts(q', future', todo', blocks', badBlocks')
    <2>1. q' \in Queue /\ future' \in Seq(Blocks) /\ todo' \in Seq(Blocks) /\ blocks' \in Seq(Blocks)
          /\ badBlocks' \in Seq(Blocks)
      BY DEF TypeOK
    <2>. QED
      BY <2>1, HeldParts, SMTT(60) DEF Held
  <1>. QED
    BY <1>1, <1>2 DEF Accounted

\* A step of the queue that leaves the client and the chain alone.
LEMMA QueueStep ==
    ASSUME IInv, TypeOK', Steps', UNCHANGED <<blocks, badBlocks, chain, displaced, verdict>>,
           QueueOK(q', chain, displaced), BatchOK(blocks, Range(badBlocks), q', chain, displaced),
           q'.draining \subseteq q.draining,
           (\A b \in Blocks : verdict[b] = "good") /\ displaced = {} =>
              q'.bad = {} /\ q'.ready = Range(Pipe(q'))
    PROVE  IInv'
  <1>1. Drained'
    BY DEF IInv, Drained
  <1>2. Valid'
    BY DEF IInv, Valid
  <1>3. QueueOK(q', chain', displaced') /\ BatchOK(blocks', Range(badBlocks'), q', chain', displaced')
    OBVIOUS
  <1>4. verdict' \in [Blocks -> Verdict]
    BY DEF IInv
  <1>. QED
    BY <1>1, <1>2, <1>3, <1>4 DEF IInv

\* A step that only takes blocks out.
LEMMA ShrinkStep ==
    ASSUME IInv, TypeOK', Steps', Shrinks(q, q'),
           UNCHANGED <<future, todo, blocks, badBlocks, chain, displaced, verdict>>,
           (\A b \in Blocks : verdict[b] = "good") /\ displaced = {} => q'.bad = {}
    PROVE  IInv' /\ Accounted
  <1>1. QueueOK(q', chain, displaced)
    BY QueueShrinks DEF IInv
  <1>2. BatchOK(blocks, Range(badBlocks), q', chain, displaced)
    BY BatchShrinks DEF IInv
  <1>3. q'.draining \subseteq q.draining
    BY DEF Shrinks
  <1>4. (\A b \in Blocks : verdict[b] = "good") /\ displaced = {} => q'.bad = {} /\ q'.ready = Range(Pipe(q'))
    BY ShrinksSound DEF IInv, Valid
  <1>5. IInv'
    BY <1>1, <1>2, <1>3, <1>4, QueueStep
  <1>6. Keeps(q, q')
    BY ShrinksKeeps
  <1>7. Accounted
    <2>1. \A b \in Parts(q, future, todo, blocks, badBlocks) :
             b \in Parts(q', future', todo', blocks', badBlocks') \/ b \in chain' \cup q'.bad \cup displaced'
      BY <1>6 DEF Keeps, Parts
    <2>2. TypeOK
      BY DEF IInv
    <2>. QED
      BY <2>1, <2>2, Accounting
  <1>. QED
    BY <1>5, <1>7

\* A step that leaves the queue alone.
LEMMA IdleStep ==
    ASSUME IInv, TypeOK', Steps',
           UNCHANGED <<q, future, todo, blocks, badBlocks, chain, displaced, verdict>>
    PROVE  IInv' /\ Accounted
  <1>1. q \in Queue
    BY DEF IInv, TypeOK
  <1>2. Shrinks(q, q')
    BY <1>1, ShrinksReflexive
  <1>3. (\A b \in Blocks : verdict[b] = "good") /\ displaced = {} => q'.bad = {}
    BY DEF IInv, Valid
  <1>. QED
    BY <1>2, <1>3, ShrinkStep

\* A verifier takes a block: it stays at its place in the pipeline.
LEMMA TakeShrinks ==
    ASSUME NEW u \in Queue, u.unverified # <<>>, NEW v,
           v = [u EXCEPT !.unverified = Tail(@),
                         !.verifying = Append(@, [block |-> Head(u.unverified), done |-> FALSE])]
    PROVE  Shrinks(u, v) /\ v.bad = u.bad
  <1>1. u.unverified \in Seq(Blocks) /\ u.verified \in Seq(Blocks) /\ u.verifying \in Seq(Entries)
    BY QueueFields
  <1>2. PICK b \in Blocks, t \in Seq(Blocks) : b = Head(u.unverified) /\ t = Tail(u.unverified)
                                               /\ u.unverified = <<b>> \o t
    BY <1>1, HeadAndTail
  <1>3. PICK e \in Entries : e = [block |-> b, done |-> FALSE] /\ e.block = b
    <2>1. [block |-> b, done |-> FALSE] \in Entries /\ [block |-> b, done |-> FALSE].block = b
      BY DEF Entries
    <2>. QED
      BY <2>1
  <1>4. PICK w \in Seq(Entries) : w = Append(u.verifying, e) /\ w = u.verifying \o <<e>>
    BY <1>1, AppendJoins
  <1>5. v = [u EXCEPT !.unverified = t, !.verifying = w]
    BY <1>2, <1>3, <1>4
  <1>6. /\ v \in Queue /\ v.draining = u.draining /\ v.bad = u.bad /\ v.ready = u.ready
        /\ v.unknown = u.unknown /\ v.verified = u.verified /\ v.verifying = w
        /\ v.unverified = t
    BY <1>5 DEF Queue
  <1>7. BlocksOf(w) = BlocksOf(u.verifying) \o <<b>>
    <2>1. <<e>> \in Seq(Entries) /\ BlocksOf(<<e>>) = <<b>>
      BY <1>3, BlocksOfOne
    <2>2. BlocksOf(u.verifying \o <<e>>) = BlocksOf(u.verifying) \o BlocksOf(<<e>>)
      BY <2>1, <1>1, BlocksOfJoined
    <2>. QED
      BY <2>1, <2>2, <1>4
  <1>8. PICK a \in Seq(Blocks), c \in Seq(Blocks) : a = u.verified /\ c = BlocksOf(u.verifying)
    BY <1>1, PipeParts
  <1>9. (a \o (c \o <<b>>)) \o t = (a \o c) \o (<<b>> \o t)
    <2>1. <<b>> \in Seq(Blocks)
      BY SMTT(60)
    <2>2. TwoByTwo(a, c, <<b>>, t)
      BY <2>1, JoinedTwoByTwo
    <2>. QED
      BY <2>2 DEF TwoByTwo
  <1>10. Pipe(v) = Pipe(u)
    BY <1>2, <1>6, <1>7, <1>8, <1>9 DEF Pipe
  <1>. QED
    BY <1>6, <1>10, SamePipe
\* Take: the block goes from m_unverified to the end of m_verifying.
LEMMA TakeStep ==
    ASSUME IInv, NEW t \in Threads, Take(t)
    PROVE  IInv' /\ Accounted
  <1>1. TypeOK /\ q \in Queue /\ q.unverified \in Seq(Blocks) /\ q.unverified # <<>>
    BY QueueFields DEF IInv, TypeOK, Take
  <1>2. Shrinks(q, q') /\ q'.bad = q.bad
    BY <1>1, TakeShrinks DEF Take
  <1>3. Head(q.unverified) \in Blocks
    BY <1>1, SMTT(60)
  <1>4. TypeOK'
    <2>1. work' \in [Threads -> Blocks \cup {NoBlock}]
      BY <1>1, <1>3 DEF Take, TypeOK
    <2>2. q' \in Queue
      BY <1>2 DEF Shrinks
    <2>. QED
      BY <1>1, <2>1, <2>2 DEF Take, TypeOK, clientVars, chainVars, worldVars
  <1>5. /\ Steps'
        /\ UNCHANGED <<future, todo, blocks, badBlocks, chain, displaced, verdict>>
    BY DEF Take, IInv, Steps, clientVars, chainVars, worldVars
  <1>6. (\A b \in Blocks : verdict[b] = "good") /\ displaced = {} => q'.bad = {}
    BY <1>2 DEF IInv, Valid
  <1>. QED
    BY <1>2, <1>4, <1>5, <1>6, ShrinkStep

\* A block that fails its check is marked and its entry erased.
LEMMA FailShrinks ==
    ASSUME NEW u \in Queue, NEW b \in Blocks, NEW v,
           v = [u EXCEPT !.ready = @ \ {b}, !.bad = @ \cup {b},
                         !.verifying = Keep(@, Entries \ {[block |-> b, done |-> FALSE]})]
    PROVE  Shrinks(u, v)
  <1>1. PICK w : w = [u EXCEPT !.bad = @ \cup {b}, !.ready = @ \ {b}]
    OBVIOUS
  <1>2. Shrinks(u, w) /\ w \in Queue
    <2>1. {b} \subseteq Hashes
      BY DEF Hashes
    <2>2. Shrinks(u, w)
      BY <1>1, <2>1, MarkShrinks
    <2>. QED
      BY <2>2 DEF Shrinks
  <1>3. PICK e \in Entries : e = [block |-> b, done |-> FALSE] /\ e.block = b
    <2>1. [block |-> b, done |-> FALSE] \in Entries /\ [block |-> b, done |-> FALSE].block = b
      BY DEF Entries
    <2>. QED
      BY <2>1
  <1>4. u.verifying \in Seq(Entries) /\ Range(u.verifying) \subseteq Entries
    BY QueueFields, RangeTyped
  <1>5. PICK k \in Seq(Entries) : /\ k = Keep(u.verifying, Entries \ {e})
                                  /\ Range(k) = Range(u.verifying) \cap (Entries \ {e})
                                  /\ Within(k, u.verifying)
    BY <1>4, KeepKeeps
  <1>6. PICK r \in SUBSET Blocks, a \in SUBSET (Blocks \cup {NoUncles}) :
            r = u.ready \ {b} /\ a = u.bad \cup {b} /\ b \in a
    <2>1. u.ready \ {b} \in SUBSET Blocks /\ u.bad \cup {b} \in SUBSET (Blocks \cup {NoUncles})
      BY QueueFields DEF Hashes
    <2>. QED
      BY <2>1
  <1>7. /\ v \in Queue /\ v.draining = w.draining /\ v.bad = w.bad /\ v.ready = w.ready
        /\ v.unknown = w.unknown /\ v.verified = w.verified /\ v.unverified = w.unverified
        /\ v.verifying = k /\ w.verifying = u.verifying /\ b \in v.bad
    <2>1. v = [u EXCEPT !.ready = r, !.bad = a, !.verifying = k]
      BY <1>3, <1>5, <1>6
    <2>2. w = [u EXCEPT !.bad = a, !.ready = r]
      BY <1>1, <1>6
    <2>3. /\ v \in Queue /\ v.draining = u.draining /\ v.bad = a /\ v.ready = r
          /\ v.unknown = u.unknown /\ v.verified = u.verified /\ v.unverified = u.unverified
          /\ v.verifying = k
      BY <2>1 DEF Queue
    <2>4. /\ w.draining = u.draining /\ w.bad = a /\ w.ready = r
          /\ w.unknown = u.unknown /\ w.verified = u.verified /\ w.unverified = u.unverified
          /\ w.verifying = u.verifying
      BY <2>2 DEF Queue
    <2>. QED
      BY <2>3, <2>4, <1>6
  <1>8. \A d \in Range(w.verifying) : d \in Range(v.verifying) \/ Gone(d.block, v.bad)
    <2>1. Gone(b, v.bad)
      BY <1>7 DEF Gone
    <2>. QED
      BY <2>1, <1>3, <1>4, <1>5, <1>7
  <1>9. /\ Within(v.verified, w.verified) /\ Within(v.unverified, w.unverified)
        /\ Within(v.verifying, w.verifying)
    BY <1>5, <1>7, WithinReflexive
  <1>10. Shrinks(w, v)
    BY <1>2, <1>7, <1>8, <1>9, DropShrinks
  <1>. QED
    BY <1>2, <1>10, ShrinksTransitive

\* VerifyFails.
LEMMA VerifyFailsStep ==
    ASSUME IInv, NEW t \in Threads, VerifyFails(t)
    PROVE  IInv' /\ Accounted
  <1>1. TypeOK /\ q \in Queue /\ work[t] \in Blocks
    BY DEF IInv, TypeOK, VerifyFails
  <1>2. PICK v : v = [q EXCEPT !.ready = @ \ {work[t]}, !.bad = @ \cup {work[t]},
                         !.verifying = Keep(@, Entries \ {[block |-> work[t], done |-> FALSE]})]
    OBVIOUS
  <1>3. Shrinks(q, v) /\ v \in Queue
    <2>1. Shrinks(q, v)
      BY <1>1, <1>2, FailShrinks
    <2>. QED
      BY <2>1 DEF Shrinks
  <1>4. q' = DrainVerified(v)
    BY <1>2 DEF VerifyFails
  <1>5. Shrinks(q, q')
    <2>1. Shrinks(v, q')
      BY <1>3, <1>4, DrainVerifiedShrinks
    <2>. QED
      BY <2>1, <1>3, ShrinksTransitive
  <1>6. TypeOK'
    <2>1. work' \in [Threads -> Blocks \cup {NoBlock}]
      BY <1>1 DEF VerifyFails, TypeOK
    <2>2. q' \in Queue
      BY <1>5 DEF Shrinks
    <2>. QED
      BY <1>1, <2>1, <2>2 DEF VerifyFails, TypeOK, clientVars, chainVars, worldVars
  <1>7. /\ Steps'
        /\ UNCHANGED <<future, todo, blocks, badBlocks, chain, displaced, verdict>>
    BY DEF VerifyFails, IInv, Steps, clientVars, chainVars, worldVars
  <1>8. ~(\A b \in Blocks : verdict[b] = "good")
    BY <1>1 DEF VerifyFails
  <1>. QED
    BY <1>5, <1>6, <1>7, <1>8, ShrinkStep

\* The entry is finished: the blocks of m_verifying are the same.
LEMMA PutShrinks ==
    ASSUME NEW u \in Queue, NEW i \in DOMAIN u.verifying, NEW v,
           v = [u EXCEPT !.verifying[i].done = TRUE]
    PROVE  Shrinks(u, v) /\ v.bad = u.bad
  <1>1. u.verifying \in Seq(Entries)
    BY QueueFields
  <1>2. PICK w : w = [u.verifying EXCEPT ![i].done = TRUE]
    OBVIOUS
  <1>3. w \in Seq(Entries) /\ BlocksOf(w) = BlocksOf(u.verifying)
    <2>1. /\ w \in Seq(Entries) /\ DOMAIN w = DOMAIN u.verifying
          /\ \A j \in DOMAIN w : w[j].block = u.verifying[j].block
      <3>1. u.verifying[i] \in Entries
        BY <1>1, SMTT(60)
      <3>2. PICK d \in Entries : d = [u.verifying[i] EXCEPT !.done = TRUE] /\ d.block = u.verifying[i].block
        <4>1. /\ [u.verifying[i] EXCEPT !.done = TRUE] \in Entries
              /\ [u.verifying[i] EXCEPT !.done = TRUE].block = u.verifying[i].block
          BY <3>1 DEF Entries
        <4>. QED
          BY <4>1
      <3>3. w = [u.verifying EXCEPT ![i] = d]
        BY <1>2, <3>2
      <3>. QED
        BY <1>1, <3>2, <3>3, SMTT(60)
    <2>. QED
      BY <2>1 DEF BlocksOf
  <1>4. v = [u EXCEPT !.verifying = w]
    BY <1>2 DEF Queue
  <1>5. /\ v \in Queue /\ v.draining = u.draining /\ v.bad = u.bad /\ v.ready = u.ready
        /\ v.unknown = u.unknown /\ v.verified = u.verified /\ v.verifying = w
        /\ v.unverified = u.unverified
    BY <1>3, <1>4 DEF Queue
  <1>6. Pipe(v) = Pipe(u)
    BY <1>3, <1>5 DEF Pipe
  <1>. QED
    BY <1>5, <1>6, SamePipe

\* VerifySucceeds: the entry is finished, and released with its successors when it is the first.
LEMMA VerifySucceedsStep ==
    ASSUME IInv, NEW t \in Threads, VerifySucceeds(t)
    PROVE  IInv' /\ Accounted
  <1>1. TypeOK /\ q \in Queue /\ work[t] \in Blocks /\ q.verifying \in Seq(Entries)
    BY QueueFields DEF IInv, TypeOK, VerifySucceeds
  <1>2. PICK mine : mine = {i \in DOMAIN q.verifying :
                               q.verifying[i] = [block |-> work[t], done |-> FALSE]}
    OBVIOUS
  <1>3. PICK first : first = CHOOSE i \in mine : \A j \in mine : i <= j
    OBVIOUS
  <1>4. PICK put : put = [q EXCEPT !.verifying[first].done = TRUE]
    OBVIOUS
  <1>5. q' = IF mine = {} THEN q ELSE IF 1 \in mine THEN DrainVerified(put) ELSE put
    BY <1>2, <1>3, <1>4, SMTT(60) DEF VerifySucceeds
  <1>6. Shrinks(q, q') /\ (q.bad = {} => q'.bad = {})
    <2>1. CASE mine = {}
      BY <2>1, <1>1, <1>5, ShrinksReflexive
    <2>2. CASE mine # {}
      <3>1. mine \subseteq Nat
        BY <1>1, <1>2, SMTT(60)
      <3>2. \E i \in mine : \A j \in mine : i <= j
        BY <3>1, <2>2, LeastExists
      <3>3. first \in mine
        BY <3>2, <1>3
      <3>4. first \in DOMAIN q.verifying
        BY <3>3, <1>2
      <3>5. Shrinks(q, put) /\ put.bad = q.bad
        BY <3>4, <1>1, <1>4, PutShrinks
      <3>6. put \in Queue
        BY <3>5 DEF Shrinks
      <3>7. Shrinks(put, DrainVerified(put)) /\ (put.bad = {} => DrainVerified(put).bad = {})
        BY <3>6, DrainVerifiedShrinks
      <3>8. Shrinks(q, DrainVerified(put))
        BY <3>5, <3>7, ShrinksTransitive
      <3>. QED
        BY <3>5, <3>7, <3>8, <2>2, <1>5
    <2>. QED
      BY <2>1, <2>2
  <1>7. TypeOK'
    <2>1. work' \in [Threads -> Blocks \cup {NoBlock}]
      BY <1>1 DEF VerifySucceeds, TypeOK
    <2>2. q' \in Queue
      BY <1>6 DEF Shrinks
    <2>3. syncFlag' \in BOOLEAN
      BY DEF VerifySucceeds
    <2>. QED
      BY <1>1, <2>1, <2>2, <2>3 DEF VerifySucceeds, TypeOK, clientVars, chainVars, worldVars
  <1>8. /\ Steps'
        /\ UNCHANGED <<future, todo, blocks, badBlocks, chain, displaced, verdict>>
    BY DEF VerifySucceeds, IInv, Steps, clientVars, chainVars, worldVars
  <1>9. (\A b \in Blocks : verdict[b] = "good") /\ displaced = {} => q'.bad = {}
    BY <1>6 DEF IInv, Valid
  <1>. QED
    BY <1>6, <1>7, <1>8, <1>9, ShrinkStep
\* SkipSync.
LEMMA SkipSyncStep ==
    ASSUME IInv, SkipSync
    PROVE  IInv' /\ Accounted
  <1>1. TypeOK' /\ Steps' /\ UNCHANGED <<q, future, todo, blocks, badBlocks, chain, displaced, verdict>>
    BY DEF SkipSync, IInv, TypeOK, Steps, chainVars, worldVars
  <1>. QED
    BY <1>1, IdleStep

\* AssignFlag.
LEMMA AssignFlagStep ==
    ASSUME IInv, AssignFlag
    PROVE  IInv' /\ Accounted
  <1>1. TypeOK' /\ Steps' /\ UNCHANGED <<q, future, todo, blocks, badBlocks, chain, displaced, verdict>>
    BY DEF AssignFlag, IInv, TypeOK, Steps, chainVars, worldVars
  <1>. QED
    BY <1>1, IdleStep

\* Elapse.
LEMMA ElapseStep ==
    ASSUME IInv, Elapse
    PROVE  IInv' /\ Accounted
  <1>1. now' \in 0..MaxTime
    BY BoundsAssumption, SMTT(60) DEF Elapse, IInv, TypeOK
  <1>2. TypeOK' /\ Steps' /\ UNCHANGED <<q, future, todo, blocks, badBlocks, chain, displaced, verdict>>
    BY <1>1 DEF Elapse, IInv, TypeOK, Steps, clientVars, chainVars, worldVars
  <1>. QED
    BY <1>2, IdleStep

\* Drain: blocks go from m_verified to the client.
LEMMA DrainStep ==
    ASSUME IInv, Drain
    PROVE  IInv' /\ Accounted
  <1>1. /\ TypeOK /\ q \in Queue /\ q.verified \in Seq(Blocks)
        /\ blocks = <<>> /\ badBlocks = <<>> /\ badBlocks' = <<>>
        /\ UNCHANGED <<future, work, todo, more, chain, irreversible, now, verdict, transients, clears,
                       retries, displaced>>
    BY QueueFields DEF IInv, TypeOK, Steps, Drain, chainVars, worldVars
  <1>2. PICK n \in 0..Len(q.verified) :
            /\ blocks' = SubSeq(q.verified, 1, n)
            /\ q' = [q EXCEPT !.verified = SubSeq(@, n + 1, Len(@)),
                              !.draining = @ \cup Range(SubSeq(q.verified, 1, n)),
                              !.ready = @ \ Range(SubSeq(q.verified, 1, n))]
    <2>. DEFINE n == IF q.draining # {} THEN 0
                     ELSE IF SyncAmount < Len(q.verified) THEN SyncAmount ELSE Len(q.verified)
    <2>1. n \in 0..Len(q.verified)
      BY <1>1, BoundsAssumption, SMTT(60)
    <2>. QED
      BY <2>1 DEF Drain
  <1>3. PICK out \in Seq(Blocks), rest \in Seq(Blocks) :
            out = SubSeq(q.verified, 1, n) /\ rest = SubSeq(q.verified, n + 1, Len(q.verified))
            /\ q.verified = out \o rest
    <2>1. /\ SubSeq(q.verified, 1, n) \in Seq(Blocks) /\ SubSeq(q.verified, n + 1, Len(q.verified)) \in Seq(Blocks)
          /\ q.verified = SubSeq(q.verified, 1, n) \o SubSeq(q.verified, n + 1, Len(q.verified))
      BY <1>1, FrontAndRest
    <2>. QED
      BY <2>1
  <1>4. blocks' = out /\ q' = Handed(q, out, rest)
    BY <1>2, <1>3 DEF Handed
  <1>5. q.draining \subseteq chain \cup displaced
    BY <1>1, Nothing DEF IInv, Drained
  <1>6. QueueOK(q, chain, displaced)
    BY DEF IInv
  <1>7. /\ QueueOK(q', chain, displaced)
        /\ BatchOK(out, {}, q', chain, displaced)
        /\ q'.bad = q.bad /\ q'.draining = q.draining \cup Range(out) /\ q'.ready = q.ready \ Range(out)
        /\ q'.unknown = q.unknown
        /\ Range(Pipe(q)) = Range(out) \cup Range(Pipe(q')) /\ Range(out) \cap Range(Pipe(q')) = {}
    <2>1. HandedOK(q, q', out, chain, displaced)
      BY <1>3, <1>4, <1>5, <1>6, QueueDrain
    <2>. QED
      BY <2>1 DEF HandedOK
  <1>8. TypeOK' /\ Steps'
    <2>1. q' \in Queue
      BY <1>7 DEF QueueOK
    <2>2. pc' = "import" /\ syncFlag' = FALSE /\ pc = "sync"
      BY DEF Drain
    <2>3. TypeOK'
      BY <1>1, <1>4, <2>1, <2>2 DEF TypeOK
    <2>. QED
      BY <1>1, <2>2, <2>3 DEF IInv, Steps
  <1>9. Drained'
    BY <1>1, <1>4, <1>5, <1>7 DEF Drained
  <1>10. BatchOK(blocks', Range(badBlocks'), q', chain', displaced')
    BY <1>1, <1>4, <1>7, Nothing
  <1>11. Valid'
    <2>1. q.ready = Range(Pipe(q)) => q'.ready = Range(Pipe(q'))
      BY <1>7
    <2>. QED
      BY <1>1, <1>7, <2>1 DEF IInv, Valid
  <1>12. IInv'
    BY <1>1, <1>7, <1>8, <1>9, <1>10, <1>11 DEF IInv
  <1>13. Accounted
    <2>1. \A b \in Parts(q, future, todo, blocks, badBlocks) :
             b \in Parts(q', future', todo', blocks', badBlocks')
      BY <1>1, <1>7, Nothing DEF Parts
    <2>. QED
      BY <1>1, <1>8, <2>1, Accounting
  <1>. QED
    BY <1>12, <1>13

\* ImportNext: the next block of the batch goes to the chain, to the bad ones or is displaced.
LEMMA ImportNextStep ==
    ASSUME IInv, ImportNext
    PROVE  IInv' /\ Accounted
  <1>1. /\ TypeOK /\ blocks \in Seq(Blocks) /\ blocks # <<>> /\ badBlocks \in Seq(Blocks)
        /\ chain \subseteq Blocks \cup {Genesis} /\ displaced \subseteq Blocks
        /\ irreversible \in 0..MaxIrreversible /\ transients \in 0..MaxTransient
        /\ blocks' = Tail(blocks) /\ pc = "import"
        /\ UNCHANGED <<q, future, work, pc, todo, more, syncFlag, now, verdict, clears, retries>>
    BY DEF IInv, TypeOK, ImportNext
  <1>2. PICK b \in Blocks, t \in Seq(Blocks) : b = Head(blocks) /\ t = Tail(blocks) /\ blocks = <<b>> \o t
    BY <1>1, HeadAndTail
  <1>3. Range(blocks) = {b} \cup Range(t)
    <2>1. <<b>> \in Seq(Blocks)
      BY SMTT(60)
    <2>. QED
      BY <2>1, <1>2, Joined, Single
  <1>4. Append(badBlocks, b) \in Seq(Blocks) /\ Range(Append(badBlocks, b)) = Range(badBlocks) \cup {b}
    <2>1. <<b>> \in Seq(Blocks) /\ Append(badBlocks, b) = badBlocks \o <<b>>
      BY <1>1, SMTT(60)
    <2>2. badBlocks \o <<b>> \in Seq(Blocks) /\ Range(badBlocks \o <<b>>) = Range(badBlocks) \cup Range(<<b>>)
      BY <2>1, <1>1, Joined
    <2>. QED
      BY <2>1, <2>2, Single
  <1>5. ASSUME \A c \in Blocks : verdict[c] = "good", displaced = {} PROVE Parent[b] \in chain
    <2>1. badBlocks = <<>> /\ q.bad = {}
      BY <1>5 DEF IInv, Valid
    <2>2. BatchOK(blocks, {}, q, chain, {})
      BY <2>1, <1>5, Nothing DEF IInv
    <2>. QED
      BY <1>1, <1>2, <2>1, <2>2, BatchSound
  <1>6. /\ badBlocks' \in Seq(Blocks) /\ Range(badBlocks) \subseteq Range(badBlocks')
        /\ chain' \subseteq Blocks \cup {Genesis} /\ chain \subseteq chain'
        /\ displaced' \subseteq Blocks /\ displaced \subseteq displaced'
        /\ irreversible' \in 0..MaxIrreversible /\ transients' \in 0..MaxTransient
        /\ b \in Range(badBlocks') \cup chain' \cup displaced'
        /\ (\A c \in Blocks : verdict[c] = "good") /\ displaced' = {} => badBlocks' = badBlocks
    <2>1. CASE b \in chain /\ UNCHANGED <<badBlocks, chainVars, transients, displaced>>
      BY <2>1, <1>1 DEF chainVars
    <2>2. CASE /\ b \notin chain
               /\ Parent[b] \notin chain \/ verdict[b] = "state"
               /\ badBlocks' = Append(badBlocks, b)
               /\ UNCHANGED <<chainVars, transients, displaced>>
      <3>1. ~((\A c \in Blocks : verdict[c] = "good") /\ displaced' = {})
        BY <2>2, <1>5
      <3>. QED
        BY <2>2, <3>1, <1>1, <1>4 DEF chainVars
    <2>3. CASE /\ chain' = chain \cup {b}
               /\ irreversible' \in {irreversible} \cup
                    {n \in irreversible..MaxIrreversible : n <= Number[b]}
               /\ UNCHANGED <<badBlocks, transients, displaced>>
      BY <2>3, <1>1, SMTT(60)
    <2>4. CASE /\ transients < MaxTransient
               /\ transients' = transients + 1
               /\ displaced' = displaced \cup {b}
               /\ UNCHANGED <<badBlocks, chainVars>>
      BY <2>4, <1>1, BoundsAssumption, SMTT(60) DEF chainVars
    <2>. QED
      BY <2>1, <2>2, <2>3, <2>4, <1>2 DEF ImportNext
  <1>7. TypeOK' /\ Steps'
    BY <1>1, <1>2, <1>6 DEF IInv, TypeOK, Steps
  <1>8. QueueOK(q', chain', displaced')
    <2>1. QueueOK(q, chain, displaced)
      BY DEF IInv
    <2>. QED
      BY <2>1, <1>1, <1>6, QueueGrows
  <1>9. BatchOK(blocks', Range(badBlocks'), q', chain', displaced')
    <2>1. BatchOK(blocks, Range(badBlocks), q, chain, displaced)
      BY DEF IInv
    <2>2. Head(blocks) \in (Range(badBlocks') \cup chain') \cup displaced'
      BY <1>2, <1>6
    <2>. QED
      BY <2>1, <2>2, <1>1, <1>6, BatchNext
  <1>10. Drained'
    BY <1>1, <1>2, <1>3, <1>6 DEF IInv, Drained
  <1>11. Valid'
    <2>1. displaced' = {} => displaced = {}
      BY <1>6
    <2>. QED
      BY <1>1, <1>6, <2>1 DEF IInv, Valid
  <1>12. IInv'
    BY <1>1, <1>7, <1>8, <1>9, <1>10, <1>11 DEF IInv
  <1>13. Accounted
    <2>1. \A c \in Parts(q, future, todo, blocks, badBlocks) :
             c \in Parts(q', future', todo', blocks', badBlocks') \/ c \in chain' \cup q'.bad \cup displaced'
      BY <1>1, <1>2, <1>3, <1>6 DEF Parts
    <2>. QED
      BY <1>1, <1>7, <2>1, Accounting
  <1>. QED
    BY <1>12, <1>13

\* DoneDrain.
LEMMA DoneDrainStep ==
    ASSUME IInv, DoneDrain
    PROVE  IInv' /\ Accounted
  <1>1. /\ TypeOK /\ badBlocks \in Seq(Blocks) /\ blocks = <<>> /\ blocks' = <<>> /\ badBlocks' = <<>>
        /\ pc = "import" /\ pc' = "assign"
        /\ UNCHANGED <<future, work, todo, syncFlag, chain, irreversible, now, verdict, transients,
                       clears, retries, displaced>>
    BY DEF IInv, TypeOK, DoneDrain, chainVars, worldVars
  <1>2. PICK B : B = Range(badBlocks) /\ B \subseteq Blocks
    BY <1>1, RangeTyped
  <1>3. PICK v : v = DoneWith(q, B)
    OBVIOUS
  <1>4. q' = UpdateAllBad(v, badBlocks)
    BY <1>2, <1>3 DEF DoneDrain, DoneWith
  <1>5. QueueOK(q, chain, displaced)
    BY DEF IInv
  <1>6. q.draining \subseteq B \cup (chain \cup displaced)
    BY <1>1, <1>2, Nothing DEF IInv, Drained
  <1>7. /\ QueueOK(v, chain, displaced)
        /\ v.bad = q.bad \cup B /\ v.draining = {} /\ v.ready = q.ready /\ v.unknown = q.unknown
        /\ Pipe(v) = Pipe(q)
    <2>1. DoneOK(q, v, B, chain, displaced)
      BY <1>2, <1>3, <1>5, <1>6, QueueDone
    <2>. QED
      BY <2>1 DEF DoneOK
  <1>8. Shrinks(v, q') /\ (badBlocks = <<>> => q' = v)
    <2>1. v \in Queue
      BY <1>7 DEF QueueOK
    <2>. QED
      BY <2>1, <1>1, <1>4, UpdateAllBadShrinks
  <1>9. QueueOK(q', chain, displaced) /\ q' \in Queue /\ q'.draining = {}
    <2>1. QueueOK(q', chain, displaced)
      BY <1>7, <1>8, QueueShrinks
    <2>. QED
      BY <2>1, <1>7, <1>8 DEF QueueOK, Shrinks
  <1>10. TypeOK' /\ Steps'
    <2>1. more' \in BOOLEAN
      BY DEF DoneDrain
    <2>2. TypeOK'
      BY <1>1, <1>9, <2>1 DEF TypeOK
    <2>. QED
      BY <1>1, <2>2 DEF IInv, Steps
  <1>11. BatchOK(blocks', Range(badBlocks'), q', chain', displaced')
    BY <1>1, Nothing DEF BatchOK, Distinct, Ordered
  <1>12. Drained'
    BY <1>9 DEF Drained
  <1>13. Valid'
    <2>. SUFFICES ASSUME \A b \in Blocks : verdict[b] = "good", displaced = {}
                  PROVE  q'.bad = {} /\ q'.ready = Range(Pipe(q'))
      BY <1>1 DEF Valid
    <2>1. badBlocks = <<>> /\ q.bad = {} /\ q.ready = Range(Pipe(q))
      BY DEF IInv, Valid
    <2>2. B = {} /\ q' = v
      BY <2>1, <1>2, <1>8, Nothing
    <2>. QED
      BY <2>1, <2>2, <1>7
  <1>14. IInv'
    BY <1>1, <1>9, <1>10, <1>11, <1>12, <1>13 DEF IInv
  <1>15. Accounted
    <2>1. Keeps(v, q') /\ v.bad \subseteq q'.bad
      BY <1>8, ShrinksKeeps DEF Shrinks
    <2>2. \A b \in Parts(q, future, todo, blocks, badBlocks) :
             b \in Parts(q', future', todo', blocks', badBlocks') \/ b \in chain' \cup q'.bad \cup displaced'
      BY <2>1, <1>1, <1>2, <1>6, <1>7, Nothing DEF Parts, Keeps
    <2>. QED
      BY <1>1, <1>10, <2>2, Accounting
  <1>. QED
    BY <1>14, <1>15
\* What import promises: the block is accounted for, and all else is kept.
Imported(b) ==
    /\ QueueOK(q', chain, displaced)
    /\ BatchOK(blocks, Range(badBlocks), q', chain, displaced)
    /\ Keeps(q, q') /\ future' \in Seq(Blocks) /\ Range(future) \subseteq Range(future')
    /\ q.bad = {} /\ q.ready = Range(Pipe(q)) => q'.bad = {} /\ q'.ready = Range(Pipe(q'))
    /\ \/ b \in (q'.ready \cup q'.draining) \cup (Range(q'.unknown) \cup Range(future'))
       \/ b \in q'.bad \cup chain
       \/ Number[b] <= irreversible

\* import keeps the queue sound and accounts for the block, whichever way it goes.
LEMMA ImportOK ==
    ASSUME IInv, NEW b \in Blocks, NEW isOurs \in BOOLEAN, Import(b, isOurs)
    PROVE  Imported(b)
  <1>1. /\ TypeOK /\ q \in Queue /\ future \in Seq(Blocks) /\ QueueOK(q, chain, displaced)
        /\ BatchOK(blocks, Range(badBlocks), q, chain, displaced)
    BY DEF IInv, TypeOK
  <1>2. Keeps(q, q)
    BY DEF Keeps
  <1>3. CASE ~Offered(b)
    <2>1. q' = q /\ future' = future
      BY <1>3 DEF Import
    <2>2. \/ b \in (q.ready \cup q.draining) \cup (Range(q.unknown) \cup Range(future))
          \/ b \in q.bad \cup chain
          \/ Number[b] <= irreversible
      <3>1. Number[b] \in Nat /\ irreversible \in Nat
        BY <1>1, NotOwnParent, BoundsAssumption, SMTT(60) DEF TypeOK
      <3>2. ~(Number[b] > irreversible) => Number[b] <= irreversible
        BY <3>1, SMTT(60)
      <3>. QED
        BY <1>3, <3>2 DEF Offered
    <2>. QED
      BY <2>1, <2>2, <1>1, <1>2 DEF Imported
  <1>4. CASE Offered(b) /\ Time[b] > now /\ ~isOurs
    <2>1. q' = q /\ future' = Append(future, b)
      BY <1>4 DEF Import
    <2>2. <<b>> \in Seq(Blocks) /\ Append(future, b) = future \o <<b>>
      BY <1>1, SMTT(60)
    <2>3. future \o <<b>> \in Seq(Blocks) /\ Range(future \o <<b>>) = Range(future) \cup Range(<<b>>)
      BY <2>2, <1>1, Joined
    <2>4. future' \in Seq(Blocks) /\ Range(future') = Range(future) \cup {b}
      BY <2>1, <2>2, <2>3, Single
    <2>. QED
      BY <2>1, <2>4, <1>1, <1>2 DEF Imported
  <1>5. CASE Offered(b) /\ ~(Time[b] > now /\ ~isOurs)
    <2>1. q' = Accept(b) /\ future' = future
      BY <1>5 DEF Import
    <2>2. Fresh(q, b)
      BY <1>5 DEF Offered, Fresh
    <2>3. /\ QueueOK(Accept(b), chain, displaced)
          /\ BatchOK(blocks, Range(badBlocks), Accept(b), chain, displaced)
          /\ Keeps(q, Accept(b))
          /\ b \in (Accept(b).ready \cup Range(Accept(b).unknown)) \cup Accept(b).bad
          /\ q.bad = {} /\ q.ready = Range(Pipe(q)) =>
                Accept(b).bad = {} /\ Accept(b).ready = Range(Pipe(Accept(b)))
      BY <2>2, <1>1, AcceptOK
    <2>. QED
      BY <2>1, <2>3, <1>1 DEF Imported
  <1>. QED
    BY <1>3, <1>4, <1>5

\* A step that imports b and moves it, if anything, out of todo.
LEMMA ImportStep ==
    ASSUME IInv, NEW b \in Blocks, Imported(b), TypeOK', Steps',
           Range(todo) \subseteq Range(todo') \cup {b},
           UNCHANGED <<blocks, badBlocks, chain, displaced, verdict, irreversible>>
    PROVE  IInv' /\ Accounted
  <1>1. q'.draining \subseteq q.draining
    BY DEF Imported, Keeps
  <1>2. (\A c \in Blocks : verdict[c] = "good") /\ displaced = {} => q'.bad = {} /\ q'.ready = Range(Pipe(q'))
    BY DEF IInv, Valid, Imported
  <1>3. QueueOK(q', chain, displaced) /\ BatchOK(blocks, Range(badBlocks), q', chain, displaced)
    BY DEF Imported
  <1>4. IInv'
    BY <1>1, <1>2, <1>3, QueueStep
  <1>5. Accounted
    <2>1. \A c \in Parts(q, future, todo, blocks, badBlocks) :
             \/ c \in Parts(q', future', todo', blocks', badBlocks')
             \/ c \in chain' \cup q'.bad \cup displaced'
             \/ Number[c] <= irreversible'
      BY DEF Imported, Keeps, Parts
    <2>2. TypeOK
      BY DEF IInv
    <2>. QED
      BY <2>1, <2>2, Accounting
  <1>. QED
    BY <1>4, <1>5

\* ImportFromPeer.
LEMMA ImportFromPeerStep ==
    ASSUME IInv, NEW b \in Blocks, ImportFromPeer(b)
    PROVE  IInv' /\ Accounted
  <1>1. Imported(b)
    BY ImportOK DEF ImportFromPeer
  <1>2. q' \in Queue /\ future' \in Seq(Blocks)
    BY <1>1 DEF Imported, QueueOK
  <1>3. /\ TypeOK' /\ Steps' /\ Range(todo) \subseteq Range(todo') \cup {b}
        /\ UNCHANGED <<blocks, badBlocks, chain, displaced, verdict, irreversible>>
    BY <1>2 DEF ImportFromPeer, IInv, TypeOK, Steps, clientVars, chainVars, worldVars
  <1>. QED
    BY <1>1, <1>3, ImportStep

\* Seal.
LEMMA SealStep ==
    ASSUME IInv, Seal
    PROVE  IInv' /\ Accounted
  <1>1. CASE UNCHANGED <<q, future>>
    <2>1. TypeOK' /\ Steps' /\ UNCHANGED <<q, future, todo, blocks, badBlocks, chain, displaced, verdict>>
      BY <1>1 DEF Seal, IInv, TypeOK, Steps, chainVars, worldVars
    <2>. QED
      BY <2>1, IdleStep
  <1>2. CASE \E b \in Own : Parent[b] \in chain /\ Offered(b) /\ Import(b, TRUE)
    <2>1. PICK b \in Own : Import(b, TRUE)
      BY <1>2
    <2>2. b \in Blocks
      BY BlocksAssumption
    <2>3. Imported(b)
      BY <2>1, <2>2, ImportOK
    <2>4. q' \in Queue /\ future' \in Seq(Blocks)
      BY <2>3 DEF Imported, QueueOK
    <2>5. /\ TypeOK' /\ Steps' /\ Range(todo) \subseteq Range(todo') \cup {b}
          /\ UNCHANGED <<blocks, badBlocks, chain, displaced, verdict, irreversible>>
      BY <2>4 DEF Seal, IInv, TypeOK, Steps, chainVars, worldVars
    <2>. QED
      BY <2>2, <2>3, <2>5, ImportStep
  <1>. QED
    BY <1>1, <1>2 DEF Seal

\* TickImport: the first block of todo is imported again.
LEMMA TickImportStep ==
    ASSUME IInv, TickImport
    PROVE  IInv' /\ Accounted
  <1>1. /\ todo \in Seq(Blocks) /\ todo # <<>> /\ todo' = Tail(todo)
        /\ pc = "retry" /\ pc' = IF todo' = <<>> THEN "seal" ELSE "retry"
    BY DEF IInv, TypeOK, Steps, TickImport
  <1>2. PICK b \in Blocks, t \in Seq(Blocks) : b = Head(todo) /\ t = Tail(todo) /\ todo = <<b>> \o t
    BY <1>1, HeadAndTail
  <1>3. Range(todo) = {b} \cup Range(t)
    <2>1. <<b>> \in Seq(Blocks)
      BY SMTT(60)
    <2>. QED
      BY <2>1, <1>2, Joined, Single
  <1>4. Imported(b)
    BY <1>2, ImportOK DEF TickImport
  <1>5. q' \in Queue /\ future' \in Seq(Blocks)
    BY <1>4 DEF Imported, QueueOK
  <1>6. TypeOK' /\ Steps' /\ UNCHANGED <<blocks, badBlocks, chain, displaced, verdict, irreversible>>
    BY <1>1, <1>2, <1>5 DEF TickImport, IInv, TypeOK, Steps, chainVars, worldVars
  <1>7. Range(todo) \subseteq Range(todo') \cup {b}
    BY <1>1, <1>2, <1>3
  <1>. QED
    BY <1>4, <1>6, <1>7, ImportStep

\* Tick: what is due goes from m_future to todo, the rest stays.
LEMMA TickStep ==
    ASSUME IInv, Tick
    PROVE  IInv' /\ Accounted
  <1>1. /\ TypeOK /\ future \in Seq(Blocks) /\ now \in Nat /\ Time \in [Blocks -> Nat] /\ todo = <<>>
        /\ pc = "tick" /\ pc' = IF todo' = <<>> THEN "seal" ELSE "retry"
    <2>1. now \in Nat /\ Time \in [Blocks -> Nat]
      BY BlocksAssumption, BoundsAssumption, SMTT(60) DEF IInv, TypeOK
    <2>. QED
      BY <2>1 DEF IInv, TypeOK, Steps, Tick
  <1>2. todo' \in Seq(Blocks) /\ Range(todo') = {b \in Range(future) : Time[b] <= now}
    BY <1>1, ByKeySorts DEF Tick
  <1>3. PICK S : S = {b \in Blocks : Time[b] > now}
    OBVIOUS
  <1>4. future' \in Seq(Blocks) /\ Range(future') = Range(future) \cap S
    BY <1>1, <1>3, KeepKeeps DEF Tick
  <1>5. TypeOK' /\ Steps' /\ UNCHANGED <<q, blocks, badBlocks, chain, displaced, verdict>>
    BY <1>1, <1>2, <1>4 DEF Tick, IInv, TypeOK, Steps, chainVars, worldVars
  <1>6. QueueOK(q', chain, displaced) /\ BatchOK(blocks, Range(badBlocks), q', chain, displaced)
    BY <1>5 DEF IInv
  <1>7. (\A c \in Blocks : verdict[c] = "good") /\ displaced = {} => q'.bad = {} /\ q'.ready = Range(Pipe(q'))
    BY <1>5 DEF IInv, Valid
  <1>8. IInv'
    <2>1. q'.draining \subseteq q.draining
      BY <1>5
    <2>. QED
      BY <2>1, <1>5, <1>6, <1>7, QueueStep
  <1>9. Range(future) \subseteq Range(future') \cup Range(todo')
    <2>1. Range(future) \subseteq Blocks
      BY <1>1, RangeTyped
    <2>2. \A b \in Blocks : Time[b] <= now \/ Time[b] > now
      BY <1>1, SMTT(60)
    <2>. QED
      BY <2>1, <2>2, <1>2, <1>3, <1>4
  <1>10. Accounted
    <2>1. \A c \in Parts(q, future, todo, blocks, badBlocks) :
             c \in Parts(q', future', todo', blocks', badBlocks')
      BY <1>1, <1>5, <1>9, Nothing DEF Parts
    <2>. QED
      BY <1>1, <1>5, <2>1, Accounting
  <1>. QED
    BY <1>8, <1>10
\* Clear: all but m_knownBad is dropped under the verifiers and the client.
LEMMA ClearStep ==
    ASSUME IInv, Clear
    PROVE  IInv' /\ Accounted
  <1>1. /\ TypeOK /\ q \in Queue /\ q' = [EmptyQueue EXCEPT !.bad = q.bad] /\ future' = <<>>
        /\ clears \in 0..MaxClears /\ clears < MaxClears /\ clears' = clears + 1
        /\ UNCHANGED <<work, pc, blocks, badBlocks, todo, more, syncFlag, chain, irreversible, now,
                       verdict, transients, retries, displaced>>
    BY DEF IInv, TypeOK, Clear, clientVars, chainVars
  <1>2. q.bad \subseteq Hashes
    BY <1>1, QueueFields
  <1>3. /\ QueueOK(q', chain, displaced)
        /\ q'.bad = q.bad /\ q'.draining = {} /\ q'.ready = {} /\ Range(q'.unknown) = {}
        /\ Range(Pipe(q')) = {}
    BY <1>1, <1>2, QueueEmpty
  <1>4. clears' \in 0..MaxClears /\ clears' # clears
    BY <1>1, BoundsAssumption, SMTT(60)
  <1>5. TypeOK' /\ Steps'
    <2>1. q' \in Queue /\ future' \in Seq(Blocks)
      BY <1>1, <1>3, SMTT(60) DEF QueueOK
    <2>. QED
      BY <1>1, <1>4, <2>1 DEF IInv, TypeOK, Steps
  <1>6. BatchOK(blocks, Range(badBlocks), q', chain, displaced)
    <2>1. BatchOK(blocks, Range(badBlocks), q, chain, displaced)
      BY DEF IInv
    <2>. QED
      BY <2>1, <1>3 DEF BatchOK
  <1>7. (\A c \in Blocks : verdict[c] = "good") /\ displaced = {} => q'.bad = {} /\ q'.ready = Range(Pipe(q'))
    BY <1>3 DEF IInv, Valid
  <1>8. IInv'
    <2>1. q'.draining \subseteq q.draining
      BY <1>3
    <2>. QED
      BY <2>1, <1>1, <1>3, <1>5, <1>6, <1>7, QueueStep
  <1>9. Accounted
    BY <1>4 DEF Accounted
  <1>. QED
    BY <1>8, <1>9

\* RetryAllUnknown: what waits is queued without its parent, so it counts as displaced.
LEMMA RetryAllUnknownStep ==
    ASSUME IInv, RetryAllUnknown
    PROVE  IInv' /\ Accounted
  <1>1. /\ TypeOK /\ q \in Queue /\ q.unknown # <<>> /\ q.unknown \in Seq(Blocks)
        /\ retries \in 0..MaxRetries /\ retries < MaxRetries /\ retries' = retries + 1
        /\ displaced' = displaced \cup Range(q.unknown)
        /\ UNCHANGED <<future, work, pc, blocks, badBlocks, todo, more, syncFlag, chain, irreversible, now,
                       verdict, transients, clears>>
    BY QueueFields DEF IInv, TypeOK, RetryAllUnknown, clientVars, chainVars
  <1>2. PICK all : all = ByKey(q.unknown, Parent, NumBlocks)
    OBVIOUS
  <1>3. q' = [q EXCEPT !.unverified = @ \o all, !.unknown = <<>>, !.ready = @ \cup Range(all)]
    BY <1>2 DEF RetryAllUnknown
  <1>4. QueueOK(q, chain, displaced) /\ BatchOK(blocks, Range(badBlocks), q, chain, displaced)
    BY DEF IInv
  <1>5. /\ QueueOK(q', chain, displaced')
        /\ BatchOK(blocks, Range(badBlocks), q', chain, displaced')
        /\ Keeps(q, q') /\ q'.bad = q.bad
    <2>1. /\ QueueOK(q', chain, displaced \cup Range(q.unknown))
          /\ BatchOK(blocks, Range(badBlocks), q', chain, displaced \cup Range(q.unknown))
          /\ Keeps(q, q') /\ q'.bad = q.bad
      BY <1>2, <1>3, <1>4, QueueRetry
    <2>. QED
      BY <2>1, <1>1
  <1>6. TypeOK' /\ Steps'
    <2>1. q' \in Queue
      BY <1>5 DEF QueueOK
    <2>2. displaced' \subseteq Blocks
      BY <1>1, RangeTyped DEF TypeOK
    <2>3. retries' \in 0..MaxRetries
      BY <1>1, BoundsAssumption, SMTT(60)
    <2>. QED
      BY <1>1, <2>1, <2>2, <2>3 DEF IInv, TypeOK, Steps
  <1>7. Drained'
    <2>1. q'.draining = q.draining
      BY <1>5 DEF Keeps
    <2>. QED
      BY <1>1, <2>1 DEF IInv, Drained
  <1>8. Valid'
    <2>1. displaced' # {}
      <3>1. Head(q.unknown) \in Range(q.unknown)
        BY <1>1, SMTT(60) DEF Range
      <3>. QED
        BY <3>1, <1>1
    <2>. QED
      BY <2>1 DEF Valid
  <1>9. IInv'
    <2>1. QueueOK(q', chain', displaced') /\ BatchOK(blocks', Range(badBlocks'), q', chain', displaced')
      BY <1>1, <1>5
    <2>. QED
      BY <1>1, <2>1, <1>6, <1>7, <1>8 DEF IInv
  <1>10. Accounted
    <2>1. \A c \in Parts(q, future, todo, blocks, badBlocks) :
             c \in Parts(q', future', todo', blocks', badBlocks') \/ c \in chain' \cup q'.bad \cup displaced'
      BY <1>1, <1>5 DEF Parts, Keeps
    <2>. QED
      BY <1>1, <1>6, <2>1, Accounting
  <1>. QED
    BY <1>9, <1>10

\* The empty queue satisfies the invariant.
LEMMA InitInvariant == Init => IInv
  <1>. SUFFICES ASSUME Init PROVE IInv
    OBVIOUS
  <1>1. q = [EmptyQueue EXCEPT !.bad = {}] /\ {} \subseteq Hashes
    <2>1. PICK x : x = <<>>
      OBVIOUS
    <2>2. EmptyQueue = [ready |-> {}, draining |-> {}, bad |-> {}, unknown |-> x,
                        unverified |-> x, verified |-> x, verifying |-> x]
      BY <2>1 DEF EmptyQueue
    <2>3. EmptyQueue = [EmptyQueue EXCEPT !.bad = {}]
      BY <2>2, SMTT(60)
    <2>4. q = EmptyQueue
      BY DEF Init
    <2>. QED
      BY <2>3, <2>4
  <1>2. /\ QueueOK(q, chain, displaced)
        /\ q.bad = {} /\ q.draining = {} /\ q.ready = {} /\ Range(Pipe(q)) = {}
    BY <1>1, QueueEmpty
  <1>3. /\ future = <<>> /\ work = [t \in Threads |-> NoBlock]
        /\ pc = "sync" /\ blocks = <<>> /\ badBlocks = <<>> /\ todo = <<>> /\ more = FALSE
        /\ syncFlag = FALSE /\ chain = {Genesis} /\ irreversible = 0 /\ now = 0
        /\ transients = 0 /\ clears = 0 /\ retries = 0 /\ displaced = {}
        /\ verdict \in [Blocks -> Verdict]
    BY BlocksAssumption DEF Init
  <1>4. TypeOK
    <2>1. q \in Queue
      BY <1>2 DEF QueueOK
    <2>2. /\ irreversible \in 0..MaxIrreversible /\ now \in 0..MaxTime
          /\ transients \in 0..MaxTransient /\ clears \in 0..MaxClears /\ retries \in 0..MaxRetries
      BY <1>3, BoundsAssumption, SMTT(60)
    <2>3. future \in Seq(Blocks) /\ blocks \in Seq(Blocks) /\ badBlocks \in Seq(Blocks) /\ todo \in Seq(Blocks)
      BY <1>3, SMTT(60)
    <2>4. work \in [Threads -> Blocks \cup {NoBlock}]
      BY <1>3
    <2>5. chain \subseteq Blocks \cup {Genesis} /\ displaced \subseteq Blocks
      BY <1>3
    <2>6. pc = "sync" /\ more \in BOOLEAN /\ syncFlag \in BOOLEAN
      BY <1>3
    <2>. QED
      BY <2>1, <2>2, <2>3, <2>4, <2>5, <2>6 DEF TypeOK
  <1>5. Steps
    BY <1>3 DEF Steps
  <1>6. BatchOK(blocks, Range(badBlocks), q, chain, displaced)
    BY <1>3, Nothing DEF BatchOK, Distinct, Ordered
  <1>7. Drained
    BY <1>2 DEF Drained
  <1>8. Valid
    BY <1>2, <1>3 DEF Valid
  <1>. QED
    BY <1>2, <1>3, <1>4, <1>5, <1>6, <1>7, <1>8 DEF IInv

\* A step that changes nothing.
LEMMA StutterStep ==
    ASSUME IInv, UNCHANGED vars
    PROVE  IInv' /\ Accounted
  <1>1. TypeOK' /\ Steps' /\ UNCHANGED <<q, future, todo, blocks, badBlocks, chain, displaced, verdict>>
    BY DEF IInv, TypeOK, Steps, vars, clientVars, chainVars, worldVars
  <1>. QED
    BY <1>1, IdleStep

\* Every step keeps the invariant and accounts for what it drops.
LEMMA NextInvariant ==
    ASSUME IInv, [Next]_vars
    PROVE  IInv' /\ Accounted
  <1>1. ASSUME NEW t \in Threads, Verifier(t) PROVE IInv' /\ Accounted
    BY <1>1, TakeStep, VerifyFailsStep, VerifySucceedsStep DEF Verifier
  <1>2. CASE Client
    BY <1>2, SkipSyncStep, DrainStep, ImportNextStep, DoneDrainStep, AssignFlagStep, TickStep,
       TickImportStep, SealStep DEF Client
  <1>3. CASE Network
    BY <1>3, ImportFromPeerStep, ClearStep, RetryAllUnknownStep DEF Network
  <1>4. CASE Elapse
    BY <1>4, ElapseStep
  <1>5. CASE UNCHANGED vars
    BY <1>5, StutterStep
  <1>. QED
    BY <1>1, <1>2, <1>3, <1>4, <1>5 DEF Next
-----------------------------------------------------------------------------
(* What it implies.                                                        *)

\* The pipeline of the properties.
LEMMA PipelineIsPipe == Pipeline = Pipe(q)
  BY DEF Pipeline, Pipe, BlocksOf

\* Distinct, by places.
LEMMA DistinctPlaces ==
    ASSUME NEW S, NEW s \in Seq(S), Distinct(s), NEW i \in DOMAIN s, NEW j \in DOMAIN s, s[i] = s[j]
    PROVE  i = j
  <1>1. i \in Nat /\ j \in Nat
    BY SMTT(60)
  <1>2. ~(i < j) /\ ~(j < i)
    BY DEF Distinct, Precedes
  <1>. QED
    BY <1>1, <1>2, SMTT(60)

\* No block is in the pipeline twice, and each is known.
LEMMA InvariantImpliesOnce ==
    ASSUME IInv
    PROVE  OncePerBlock
  <1>1. q \in Queue /\ Apart(q)
    BY DEF IInv, QueueOK
  <1>2. Pipe(q) \in Seq(Blocks) /\ Distinct(Pipe(q)) /\ Range(Pipe(q)) \subseteq q.ready \cup q.bad
    BY <1>1, PipeParts DEF Apart
  <1>3. \A i, j \in DOMAIN Pipe(q) : Pipe(q)[i] = Pipe(q)[j] => i = j
    BY <1>2, DistinctPlaces
  <1>. QED
    BY <1>2, <1>3, PipelineIsPipe DEF OncePerBlock

\* Only children of blocks that are not on their way wait.
LEMMA InvariantImpliesWaits ==
    ASSUME IInv
    PROVE  UnknownWaits
  BY DEF IInv, QueueOK, Waits, UnknownWaits

\* With valid blocks only nothing is bad.
LEMMA InvariantImpliesSound ==
    ASSUME IInv
    PROVE  SoundWhenValid
  BY PipelineIsPipe DEF IInv, Valid, SoundWhenValid

\* Parents first, in the batch, in the pipeline and from one to the other.
LEMMA InvariantImpliesOrder ==
    ASSUME IInv
    PROVE  ParentsFirst
  <1>1. /\ q \in Queue /\ blocks \in Seq(Blocks) /\ badBlocks \in Seq(Blocks)
        /\ Ordered(Pipe(q), chain, displaced) /\ BatchOK(blocks, Range(badBlocks), q, chain, displaced)
    BY DEF IInv, TypeOK, QueueOK
  <1>2. PICK p \in Seq(Blocks) : p = Pipe(q)
    BY <1>1, PipeParts
  <1>3. PICK order \in Seq(Blocks) : order = blocks \o p
    <2>1. blocks \o p \in Seq(Blocks)
      BY <1>1, SMTT(60)
    <2>. QED
      BY <2>1
  <1>4. \A x, y : Precedes(order, x, y) <=>
           Precedes(blocks, x, y) \/ Precedes(p, x, y) \/ (x \in Range(blocks) /\ y \in Range(p))
    BY <1>1, <1>3, Joined
  <1>5. ASSUME NEW i \in DOMAIN order, NEW j \in DOMAIN order, i < j, Parent[order[i]] = order[j]
        PROVE  \/ order[j] \in Range(badBlocks \o SubSeq(order, 1, i - 1)) \cup chain
               \/ displaced \cap {order[i], order[j]} # {}
               \/ NoUncles \in q.bad
    <2>1. PICK c \in Blocks : c = order[i] /\ Parent[c] = order[j]
      BY <1>5, SMTT(60)
    <2>2. Precedes(order, c, Parent[c])
      BY <1>5, <2>1 DEF Precedes
    <2>3. Moved(c, displaced) => displaced \cap {order[i], order[j]} # {}
      BY <2>1 DEF Moved
    <2>4. PICK sub \in Seq(Blocks) : sub = SubSeq(order, 1, i - 1)
      <3>1. SubSeq(order, 1, i - 1) \in Seq(Blocks)
        BY <1>5, SMTT(60)
      <3>. QED
        BY <3>1
    <2>5. Range(badBlocks \o sub) = Range(badBlocks) \cup Range(sub)
      BY <1>1, Joined
    <2>6. CASE Precedes(blocks, c, Parent[c]) \/ Precedes(p, c, Parent[c])
      <3>1. Parent[c] \in chain \/ Moved(c, displaced)
        BY <2>6, <1>1, <1>2 DEF BatchOK, Ordered
      <3>. QED
        BY <3>1, <2>1, <2>3
    <2>7. CASE c \in Range(blocks) /\ Parent[c] \in Range(p)
      <3>1. \/ Moved(c, displaced) \/ Parent[c] \in chain \cup Range(badBlocks)
            \/ Precedes(blocks, Parent[c], c) \/ NoUncles \in q.bad
        BY <2>7, <1>1, <1>2 DEF BatchOK
      <3>2. ASSUME Precedes(blocks, Parent[c], c) PROVE Parent[c] \in Range(sub)
        <4>1. PICK k \in DOMAIN blocks, m \in DOMAIN blocks : k < m /\ blocks[k] = Parent[c] /\ blocks[m] = c
          BY <3>2 DEF Precedes
        <4>2. /\ DOMAIN blocks = 1..Len(blocks) /\ Len(blocks) \in Nat
              /\ DOMAIN order = 1..Len(order) /\ Len(order) \in Nat
              /\ \A n \in DOMAIN blocks : n \in DOMAIN order /\ order[n] = blocks[n]
          BY <1>1, <1>3, SMTT(60)
        <4>3. k < i
          <5>1. CASE i \in DOMAIN blocks
            <6>1. blocks[i] = blocks[m]
              BY <5>1, <4>1, <4>2, <2>1
            <6>2. Distinct(blocks)
              BY <1>1 DEF BatchOK
            <6>3. i = m
              BY <6>1, <6>2, <5>1, <1>1, DistinctPlaces
            <6>. QED
              BY <6>3, <4>1
          <5>2. CASE i \notin DOMAIN blocks
            BY <5>2, <4>2, <1>5, SMTT(60)
          <5>. QED
            BY <5>1, <5>2
        <4>4. k \in DOMAIN sub /\ sub[k] = order[k]
          BY <4>2, <4>3, <2>4, <1>5, SMTT(60)
        <4>5. sub[k] = Parent[c]
          BY <4>1, <4>2, <4>4
        <4>. QED
          BY <4>4, <4>5 DEF Range
      <3>. QED
        BY <3>1, <3>2, <2>1, <2>3, <2>4, <2>5
    <2>. QED
      BY <2>2, <2>6, <2>7, <1>4
  <1>6. blocks \o Pipeline = order
    BY <1>2, <1>3, PipelineIsPipe
  <1>. QED
    BY <1>5, <1>6 DEF ParentsFirst
-----------------------------------------------------------------------------
(* The theorems.                                                           *)

\* The inductive invariant holds in every state, for any tree of blocks, any number
\* of verifiers and any verdicts.
THEOREM QueueInvariant == Spec => []IInv
  <1>1. Init => IInv
    BY InitInvariant
  <1>2. IInv /\ [Next]_vars => IInv'
    BY NextInvariant
  <1>. QED
    BY <1>1, <1>2, PTL DEF Spec

\* No block reaches the chain before its parent, however the verifiers, the
\* client and the network threads interleave.
THEOREM QueueOrder == Spec => []ParentsFirst
  <1>1. IInv => ParentsFirst
    BY InvariantImpliesOrder
  <1>. QED
    BY <1>1, QueueInvariant, PTL

\* A block is never in the pipeline twice, and import refuses a copy of each one in it.
THEOREM QueueOnce == Spec => []OncePerBlock
  <1>1. IInv => OncePerBlock
    BY InvariantImpliesOnce
  <1>. QED
    BY <1>1, QueueInvariant, PTL

\* A block waits in m_unknown only while its parent is neither ready nor being imported.
THEOREM QueueWaits == Spec => []UnknownWaits
  <1>1. IInv => UnknownWaits
    BY InvariantImpliesWaits
  <1>. QED
    BY <1>1, QueueInvariant, PTL

\* With valid blocks only, nothing is ever marked bad and the ready set is the pipeline.
THEOREM QueueSound == Spec => []SoundWhenValid
  <1>1. IInv => SoundWhenValid
    BY InvariantImpliesSound
  <1>. QED
    BY <1>1, QueueInvariant, PTL

\* No step forgets a block: what leaves the queue is in the chain, bad, too old,
\* displaced or cleared.
THEOREM QueueAccounts == Spec => NothingForgotten
  <1>1. IInv /\ [Next]_vars => [Accounted]_vars
    BY NextInvariant
  <1>. QED
    BY <1>1, QueueInvariant, PTL DEF Spec, NothingForgotten, Accounted

\* Type correctness.
THEOREM QueueTypes == Spec => []TypeOK
  <1>1. IInv => TypeOK
    BY DEF IInv
  <1>. QED
    BY <1>1, QueueInvariant, PTL
=============================================================================
