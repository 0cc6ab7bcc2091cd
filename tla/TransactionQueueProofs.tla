----------------------- MODULE TransactionQueueProofs -----------------------
(***************************************************************************)
(* The invariants of the transaction queue, and that nothing is lost from  *)
(* it without a reason, for every finite set of transactions and every     *)
(* limit.                                                                  *)
(*                                                                         *)
(* Good says of a queue that no nonce is held twice, that m_futureSize is  *)
(* the number of future transactions, that what is held is known and is    *)
(* within both limits together.  The operations are loops over sets of     *)
(* possible queues, so each has a lemma of the form: every queue it may    *)
(* leave behind is Good, and relates to the one before by Takes (what is   *)
(* new was offered), Leaves (what was to go has gone) and Explained (what  *)
(* went without that was trimmed at a limit).  Good and these relations    *)
(* compose, which carries them through the loops; a loop itself is a       *)
(* recursive function, and LoopExists shows that it has its values.        *)
(***************************************************************************)
EXTENDS TransactionQueue, FiniteSetTheorems, WellFoundedInduction, TLAPS

USE ZenonT(60)

-----------------------------------------------------------------------------
(* Numbers and loops.                                                      *)

\* Every set of numbers has a least one.
LEMMA LeastExists ==
    ASSUME NEW T, T \subseteq Nat, T # {}
    PROVE  \E x \in T : \A y \in T : x <= y
  <1>1. \E x \in T : \A y \in T : ~(<<y, x>> \in OpToRel(<, Nat))
    BY NatLessThanWellFounded, WFMin
  <1>2. \A x, y \in T : <<y, x>> \in OpToRel(<, Nat) <=> y < x
    BY DEF OpToRel
  <1>3. \A x, y \in T : ~(y < x) => x <= y
    BY SMTT(60)
  <1>. QED
    BY <1>1, <1>2, <1>3

\* Induction up to n, over the set of the numbers for which a claim holds.
LEMMA UpTo ==
    ASSUME NEW n \in Nat, NEW P, 0 \in P, \A k \in 0..n : k + 1 \in 0..n /\ k \in P => k + 1 \in P
    PROVE  \A k \in 0..n : k \in P
  <1>. SUFFICES ASSUME (0..n) \ P # {} PROVE FALSE
    OBVIOUS
  <1>. DEFINE T == (0..n) \ P
  <1>0. T \subseteq Nat /\ T # {}
    BY SMTT(60)
  <1>1. PICK k \in T : \A m \in T : k <= m
    <2>. HIDE DEF T
    <2>. QED
      BY <1>0, LeastExists
  <1>2. k # 0
    BY <1>1
  <1>3. k - 1 \in 0..n /\ (k - 1) + 1 = k /\ ~(k <= k - 1)
    BY <1>1, <1>2, SMTT(60)
  <1>4. k - 1 \in P
    BY <1>1, <1>3
  <1>. QED
    BY <1>1, <1>3, <1>4

\* f runs a loop of n steps from x.
Runs(f, x, n, g) == f = [k \in 0..n |-> IF k = 0 THEN x ELSE g[k][f[k - 1]]]

\* A loop of n steps in X can be run.
LEMMA LoopExists ==
    ASSUME NEW X, NEW x \in X, NEW n \in Nat, NEW g \in [1..n -> [X -> X]]
    PROVE  \E f \in [0..n -> X] : Runs(f, x, n, g)
  <1>. DEFINE P == {m \in 0..n : \E f \in [0..m -> X] : Runs(f, x, m, g)}
  <1>1. 0 \in P
    <2>1. PICK f : f = [k \in 0..0 |-> x]
      OBVIOUS
    <2>2. f \in [0..0 -> X]
      BY <2>1
    <2>3. Runs(f, x, 0, g)
      BY <2>1, SMTT(60) DEF Runs
    <2>4. 0 \in 0..n
      BY SMTT(60)
    <2>. QED
      BY <2>2, <2>3, <2>4
  <1>2. ASSUME NEW m \in 0..n, m + 1 \in 0..n, m \in P PROVE m + 1 \in P
    <2>1. PICK f \in [0..m -> X] : Runs(f, x, m, g)
      BY <1>2
    <2>2. PICK h : h = [k \in 0..m + 1 |-> IF k = m + 1 THEN g[m + 1][f[m]] ELSE f[k]]
      OBVIOUS
    <2>3. m + 1 \in 1..n /\ m \in 0..m /\ g[m + 1] \in [X -> X] /\ g[m + 1][f[m]] \in X
      BY <1>2, SMTT(60)
    <2>4. h \in [0..m + 1 -> X]
      BY <2>2, <2>3, SMTT(60)
    <2>5. ASSUME NEW k \in 0..m + 1 PROVE h[k] = IF k = 0 THEN x ELSE g[k][h[k - 1]]
      <3>1. CASE k = 0
        BY <3>1, <2>1, <2>2, SMTT(60) DEF Runs
      <3>2. CASE k # 0 /\ k # m + 1
        <4>1. k \in 0..m /\ k - 1 \in 0..m /\ k - 1 \in 0..m + 1 /\ k - 1 # m + 1
          BY <3>2, SMTT(60)
        <4>2. h[k] = f[k] /\ h[k - 1] = f[k - 1]
          BY <4>1, <3>2, <2>2
        <4>3. f[k] = g[k][f[k - 1]]
          BY <4>1, <3>2, <2>1 DEF Runs
        <4>. QED
          BY <4>2, <4>3, <3>2
      <3>3. CASE k = m + 1
        <4>1. k - 1 = m /\ m \in 0..m + 1 /\ m # m + 1 /\ k # 0
          BY <3>3, SMTT(60)
        <4>2. h[m] = f[m] /\ h[k] = g[k][f[m]]
          BY <4>1, <3>3, <2>2
        <4>. QED
          BY <4>1, <4>2
      <3>. QED
        BY <3>1, <3>2, <3>3
    <2>6. Runs(h, x, m + 1, g)
      <3>1. h = [k \in 0..m + 1 |-> h[k]]
        BY <2>2
      <3>. QED
        BY <3>1, <2>5 DEF Runs
    <2>. QED
      BY <1>2, <2>4, <2>6
  <1>. HIDE DEF P
  <1>3. \A k \in 0..n : k \in P
    BY <1>1, <1>2, UpTo
  <1>4. n \in P
    BY <1>3, SMTT(60)
  <1>. QED
    BY <1>4 DEF P

\* f runs a loop of n steps from the states in S, each of which leads to some others.
Spread(f, S, n, g) ==
    f = [k \in 0..n |-> IF k = 0 THEN S ELSE UNION {g[k][v] : v \in f[k - 1]}]

\* Such a loop can be run, and does not leave X.
LEMMA SpreadExists ==
    ASSUME NEW X, NEW S \in SUBSET X, NEW n \in Nat, NEW g \in [1..n -> [X -> SUBSET X]]
    PROVE  \E f \in [0..n -> SUBSET X] : Spread(f, S, n, g)
  <1>. DEFINE all(k, T) == UNION {g[k][v] : v \in T}
              h == [k \in 1..n |-> [T \in SUBSET X |-> all(k, T)]]
  <1>1. ASSUME NEW k \in 1..n, NEW T \in SUBSET X PROVE all(k, T) \in SUBSET X
    <2>1. g[k] \in [X -> SUBSET X]
      OBVIOUS
    <2>2. \A v \in T : g[k][v] \in SUBSET X
      BY <2>1
    <2>. QED
      BY <2>2
  <1>2. h \in [1..n -> [SUBSET X -> SUBSET X]]
    BY <1>1
  <1>3. ASSUME NEW k \in 1..n, NEW T \in SUBSET X PROVE h[k][T] = all(k, T)
    OBVIOUS
  <1>. HIDE DEF h
  <1>4. PICK f \in [0..n -> SUBSET X] : Runs(f, S, n, h)
    BY <1>2, LoopExists
  <1>5. ASSUME NEW k \in 0..n, k # 0 PROVE k \in 1..n /\ f[k - 1] \in SUBSET X
    BY <1>5, SMTT(60)
  <1>6. ASSUME NEW k \in 0..n, k # 0 PROVE h[k][f[k - 1]] = all(k, f[k - 1])
    BY <1>6, <1>5, <1>3
  <1>7. [k \in 0..n |-> IF k = 0 THEN S ELSE h[k][f[k - 1]]]
        = [k \in 0..n |-> IF k = 0 THEN S ELSE all(k, f[k - 1])]
    BY <1>6
  <1>. QED
    BY <1>4, <1>7 DEF Runs, Spread

-----------------------------------------------------------------------------
(* Sequences of transactions.                                              *)

\* Nothing is in s twice.
Distinct(s) == \A i, j \in DOMAIN s : s[i] = s[j] => i = j

\* An enumeration is a sequence.
LEMMA EnumerationIsSeq ==
    ASSUME NEW S, NEW n \in Nat, NEW f \in [1..n -> S]
    PROVE  f \in Seq(S) /\ Len(f) = n /\ DOMAIN f = 1..n
  BY SMTT(60)

\* InsertAt adds one member.
LEMMA InsertAtAdds ==
    ASSUME NEW S, NEW s \in Seq(S), NEW p \in 1..Len(s) + 1, NEW e \in S
    PROVE  /\ InsertAt(s, p, e) \in Seq(S)
           /\ Range(InsertAt(s, p, e)) = Range(s) \cup {e}
           /\ Distinct(s) /\ e \notin Range(s) => Distinct(InsertAt(s, p, e))
  <1>. DEFINE n == Len(s)
              f == InsertAt(s, p, e)
  <1>1. n \in Nat /\ DOMAIN s = 1..n /\ \A i \in 1..n : s[i] \in S
    BY SMTT(60)
  <1>2. ASSUME NEW i \in 1..n + 1
        PROVE  (IF i < p THEN s[i] ELSE IF i = p THEN e ELSE s[i - 1]) \in S
    BY <1>1, SMTT(60)
  <1>3. f \in [1..n + 1 -> S]
    BY <1>2 DEF InsertAt
  <1>4. n + 1 \in Nat
    BY <1>1, SMTT(60)
  <1>5. \A i \in 1..n + 1 : f[i] = IF i < p THEN s[i] ELSE IF i = p THEN e ELSE s[i - 1]
    BY DEF InsertAt
  <1>. HIDE DEF f
  <1>6. f \in Seq(S) /\ DOMAIN f = 1..n + 1
    BY <1>3, <1>4, EnumerationIsSeq
  <1>7. ASSUME NEW i \in 1..n + 1, i # p
        PROVE  \E j \in 1..n : f[i] = s[j] /\ (i < p => j = i) /\ (~(i < p) => j = i - 1)
    BY <1>7, <1>1, <1>5, SMTT(60)
  <1>8. ASSUME NEW j \in 1..n PROVE \E i \in 1..n + 1 : f[i] = s[j]
    <2>1. CASE j < p
      BY <2>1, <1>1, <1>5, SMTT(60)
    <2>2. CASE ~(j < p)
      <3>1. j + 1 \in 1..n + 1 /\ ~(j + 1 < p) /\ j + 1 # p /\ (j + 1) - 1 = j
        BY <2>2, <1>1, SMTT(60)
      <3>. QED
        BY <3>1, <1>5
    <2>. QED
      BY <2>1, <2>2
  <1>9. f[p] = e
    BY <1>1, <1>5, SMTT(60)
  <1>10. Range(f) = Range(s) \cup {e}
    <2>1. ASSUME NEW x \in Range(f) PROVE x \in Range(s) \cup {e}
      <3>1. PICK i \in 1..n + 1 : f[i] = x
        BY <1>6 DEF Range
      <3>. QED
        BY <3>1, <1>1, <1>7, <1>9 DEF Range
    <2>2. ASSUME NEW x \in Range(s) PROVE x \in Range(f)
      BY <1>1, <1>6, <1>8 DEF Range
    <2>3. e \in Range(f)
      <3>1. p \in 1..n + 1
        OBVIOUS
      <3>. QED
        BY <3>1, <1>6, <1>9 DEF Range
    <2>. QED
      BY <2>1, <2>2, <2>3
  <1>11. ASSUME Distinct(s), e \notin Range(s), NEW i \in 1..n + 1, NEW j \in 1..n + 1, f[i] = f[j]
         PROVE  i = j
    <2>1. CASE i = p \/ j = p
      BY <2>1, <1>1, <1>7, <1>9, <1>11 DEF Range
    <2>2. CASE i # p /\ j # p
      <3>1. PICK k \in 1..n : f[i] = s[k] /\ (i < p => k = i) /\ (~(i < p) => k = i - 1)
        BY <2>2, <1>7
      <3>2. PICK m \in 1..n : f[j] = s[m] /\ (j < p => m = j) /\ (~(j < p) => m = j - 1)
        BY <2>2, <1>7
      <3>3. k = m
        BY <3>1, <3>2, <1>1, <1>11 DEF Distinct
      <3>. QED
        BY <3>1, <3>2, <3>3, <2>2, SMTT(60)
    <2>. QED
      BY <2>1, <2>2
  <1>. QED
    BY <1>6, <1>10, <1>11 DEF f, Distinct

\* Append adds one member.
LEMMA AppendAdds ==
    ASSUME NEW S, NEW s \in Seq(S), NEW e \in S
    PROVE  /\ Append(s, e) \in Seq(S)
           /\ Range(Append(s, e)) = Range(s) \cup {e}
           /\ Distinct(s) /\ e \notin Range(s) => Distinct(Append(s, e))
  <1>. DEFINE n == Len(s)
              f == Append(s, e)
  <1>1. n \in Nat /\ DOMAIN s = 1..n
    BY SMTT(60)
  <1>2. f \in Seq(S) /\ DOMAIN f = 1..n + 1 /\ f[n + 1] = e /\ \A i \in 1..n : f[i] = s[i]
    BY SMTT(60)
  <1>. HIDE DEF f
  <1>3. 1..n + 1 = (1..n) \cup {n + 1}
    BY <1>1, SMTT(60)
  <1>4. Range(f) = Range(s) \cup {e}
    <2>1. ASSUME NEW x \in Range(f) PROVE x \in Range(s) \cup {e}
      <3>1. PICK i \in DOMAIN f : x = f[i]
        BY DEF Range
      <3>2. CASE i \in 1..n
        <4>1. x = s[i] /\ i \in DOMAIN s
          BY <1>1, <1>2, <3>1, <3>2
        <4>. QED
          BY <4>1 DEF Range
      <3>3. CASE i = n + 1
        BY <1>2, <3>1, <3>3
      <3>. QED
        BY <1>2, <1>3, <3>2, <3>3
    <2>2. ASSUME NEW x \in Range(s) PROVE x \in Range(f)
      <3>1. PICK i \in DOMAIN s : x = s[i]
        BY DEF Range
      <3>2. i \in DOMAIN f /\ x = f[i]
        BY <1>1, <1>2, <1>3, <3>1
      <3>. QED
        BY <3>2 DEF Range
    <2>3. e \in Range(f)
      <3>1. n + 1 \in DOMAIN f
        BY <1>2, <1>3
      <3>. QED
        BY <3>1, <1>2 DEF Range
    <2>. QED
      BY <2>1, <2>2, <2>3
  <1>5. ASSUME Distinct(s), e \notin Range(s) PROVE Distinct(f)
    <2>1. ASSUME NEW i \in DOMAIN f, NEW j \in DOMAIN f, f[i] = f[j] PROVE i = j
      <3>1. (i \in 1..n \/ i = n + 1) /\ (j \in 1..n \/ j = n + 1)
        BY <1>2, <1>3
      <3>2. \A k \in 1..n : f[k] \in Range(s)
        BY <1>1, <1>2 DEF Range
      <3>3. CASE i \in 1..n /\ j \in 1..n
        BY <3>3, <2>1, <1>1, <1>2, <1>5 DEF Distinct
      <3>. QED
        BY <3>1, <3>2, <3>3, <2>1, <1>2, <1>5
    <2>. QED
      BY <2>1 DEF Distinct
  <1>. QED
    BY <1>2, <1>4, <1>5 DEF f

\* The front of a sequence without repetitions has none, and the rest are not in it.
LEMMA CutInTwo ==
    ASSUME NEW S, NEW s \in Seq(S), NEW n \in Nat, n <= Len(s)
    PROVE  /\ SubSeq(s, 1, n) \in Seq(S) /\ Len(SubSeq(s, 1, n)) = n
           /\ Range(s) = Range(SubSeq(s, 1, n)) \cup Range(SubSeq(s, n + 1, Len(s)))
           /\ Distinct(s) => /\ Distinct(SubSeq(s, 1, n))
                             /\ Range(SubSeq(s, 1, n)) \cap Range(SubSeq(s, n + 1, Len(s))) = {}
  <1>. DEFINE a == SubSeq(s, 1, n)
              b == SubSeq(s, n + 1, Len(s))
  <1>1. /\ a \in Seq(S) /\ Len(a) = n /\ DOMAIN a = 1..n /\ \A i \in 1..n : a[i] = s[i]
        /\ DOMAIN s = 1..Len(s) /\ Len(s) \in Nat
    BY SMTT(60)
  <1>2. /\ DOMAIN b = 1..Len(s) - n /\ \A i \in 1..Len(s) - n : b[i] = s[i + n]
    BY SMTT(60)
  <1>. HIDE DEF a, b
  <1>3. \A i \in 1..n : i \in 1..Len(s)
    BY <1>1, SMTT(60)
  <1>4. \A i \in 1..Len(s) - n : i + n \in 1..Len(s) /\ i + n \notin 1..n
    BY <1>1, SMTT(60)
  <1>5. \A i \in 1..Len(s) : i \notin 1..n => i - n \in 1..Len(s) - n /\ (i - n) + n = i
    BY <1>1, SMTT(60)
  <1>6. Range(s) = Range(a) \cup Range(b)
    <2>1. ASSUME NEW i \in 1..Len(s), i \notin 1..n PROVE s[i] \in Range(b)
      <3>1. b[i - n] = s[i]
        BY <2>1, <1>2, <1>5
      <3>. QED
        BY <3>1, <2>1, <1>2, <1>5 DEF Range
    <2>2. ASSUME NEW i \in 1..n PROVE s[i] \in Range(a)
      BY <1>1 DEF Range
    <2>3. Range(s) \subseteq Range(a) \cup Range(b)
      BY <2>1, <2>2, <1>1 DEF Range
    <2>. QED
      BY <2>3, <1>1, <1>2, <1>3, <1>4 DEF Range
  <1>7. ASSUME Distinct(s) PROVE Distinct(a) /\ Range(a) \cap Range(b) = {}
    <2>1. Distinct(a)
      BY <1>7, <1>1, <1>3 DEF Distinct
    <2>2. ASSUME NEW x \in Range(a), x \in Range(b) PROVE FALSE
      <3>1. PICK i \in 1..n : s[i] = x
        BY <1>1 DEF Range
      <3>2. PICK j \in 1..Len(s) - n : s[j + n] = x
        BY <2>2, <1>2 DEF Range
      <3>3. i \in DOMAIN s /\ j + n \in DOMAIN s /\ j + n \notin 1..n
        BY <1>1, <1>3, <1>4
      <3>4. i = j + n
        BY <3>1, <3>2, <3>3, <1>7 DEF Distinct
      <3>. QED
        BY <3>3, <3>4
    <2>. QED
      BY <2>1, <2>2
  <1>. QED
    BY <1>1, <1>6, <1>7 DEF a, b

\* The loop of Drops.
DropsLoop(kept, seq, S) ==
    kept = [i \in 0..Len(seq) |->
               IF i = 0 THEN <<>>
               ELSE IF seq[i] \in S THEN kept[i - 1] ELSE Append(kept[i - 1], seq[i])]

\* Drops is what its loop ends with.
LEMMA DropsRuns ==
    ASSUME NEW T, NEW seq \in Seq(T), NEW S
    PROVE  \E kept : DropsLoop(kept, seq, S) /\ Drops(seq, S) = kept[Len(seq)]
  <1>. DEFINE n == Len(seq)
              one(k, s) == IF seq[k] \in S THEN s ELSE Append(s, seq[k])
              g == [k \in 1..n |-> [s \in Seq(T) |-> one(k, s)]]
  <1>1. n \in Nat /\ <<>> \in Seq(T)
    BY SMTT(60)
  <1>2. ASSUME NEW k \in 1..n, NEW s \in Seq(T) PROVE one(k, s) \in Seq(T)
    BY SMTT(60)
  <1>3. g \in [1..n -> [Seq(T) -> Seq(T)]]
    BY <1>2
  <1>4. \A k \in 1..n, s \in Seq(T) : g[k][s] = one(k, s)
    OBVIOUS
  <1>. HIDE DEF g
  <1>5. PICK f \in [0..n -> Seq(T)] : Runs(f, <<>>, n, g)
    BY <1>1, <1>3, LoopExists
  <1>6. ASSUME NEW k \in 0..n, k # 0 PROVE k \in 1..n /\ f[k - 1] \in Seq(T)
    BY <1>6, SMTT(60)
  <1>7. \A k \in 0..n : k # 0 => g[k][f[k - 1]] = one(k, f[k - 1])
    BY <1>6, <1>4
  <1>8. DropsLoop(f, seq, S)
    <2>1. [k \in 0..n |-> IF k = 0 THEN <<>> ELSE g[k][f[k - 1]]]
          = [k \in 0..n |-> IF k = 0 THEN <<>> ELSE one(k, f[k - 1])]
      BY <1>7
    <2>. QED
      BY <2>1, <1>5 DEF Runs, DropsLoop
  <1>9. PICK kept : kept = CHOOSE k : DropsLoop(k, seq, S)
    OBVIOUS
  <1>10. DropsLoop(kept, seq, S)
    BY <1>8, <1>9
  <1>11. Drops(seq, S) = kept[n]
    BY <1>9 DEF Drops, DropsLoop
  <1>. QED
    BY <1>10, <1>11

\* Drops takes out the members in S and repeats nothing.
LEMMA DropsDrops ==
    ASSUME NEW T, NEW seq \in Seq(T), NEW S
    PROVE  /\ Drops(seq, S) \in Seq(T)
           /\ Range(Drops(seq, S)) = Range(seq) \ S
           /\ Distinct(seq) => Distinct(Drops(seq, S))
  <1>. DEFINE n == Len(seq)
  <1>1. n \in Nat /\ DOMAIN seq = 1..n /\ \A i \in 1..n : seq[i] \in T
    BY SMTT(60)
  <1>2. PICK kept : DropsLoop(kept, seq, S) /\ Drops(seq, S) = kept[n]
    BY DropsRuns
  <1>. DEFINE first(k) == {seq[i] : i \in 1..k} \ S
              P == {k \in 0..n : /\ kept[k] \in Seq(T)
                                 /\ Range(kept[k]) = first(k)
                                 /\ Distinct(seq) => Distinct(kept[k])}
  <1>3. 0 \in P
    <2>1. 0 \in 0..n /\ kept[0] = <<>>
      BY <1>1, <1>2, SMTT(60) DEF DropsLoop
    <2>2. <<>> \in Seq(T) /\ DOMAIN <<>> = {} /\ 1..0 = {}
      BY SMTT(60)
    <2>3. Range(<<>>) = {} /\ Distinct(<<>>) /\ first(0) = {}
      BY <2>2 DEF Range, Distinct
    <2>. QED
      BY <2>1, <2>2, <2>3
  <1>4. ASSUME NEW k \in 0..n, k + 1 \in 0..n, k \in P PROVE k + 1 \in P
    <2>1. k + 1 # 0 /\ (k + 1) - 1 = k /\ k + 1 \in 1..n /\ k + 1 \notin 1..k
          /\ 1..k + 1 = (1..k) \cup {k + 1} /\ \A i \in 1..k : i \in 1..n
      BY <1>1, <1>4, SMTT(60)
    <2>2. kept[k + 1] = IF seq[k + 1] \in S THEN kept[k] ELSE Append(kept[k], seq[k + 1])
      BY <2>1, <1>2, <1>4 DEF DropsLoop
    <2>3. PICK e \in T : e = seq[k + 1]
      BY <2>1, <1>1
    <2>4. PICK s \in Seq(T) : s = kept[k]
      BY <1>4
    <2>5. Range(s) = first(k) /\ (Distinct(seq) => Distinct(s))
      BY <2>4, <1>4
    <2>6. CASE e \in S
      <3>1. first(k + 1) = first(k)
        BY <2>1, <2>3, <2>6
      <3>. QED
        BY <3>1, <2>2, <2>3, <2>4, <2>5, <2>6, <1>4
    <2>7. CASE e \notin S
      <3>1. first(k + 1) = first(k) \cup {e}
        BY <2>1, <2>3, <2>7
      <3>4. /\ Append(s, e) \in Seq(T)
            /\ Range(Append(s, e)) = Range(s) \cup {e}
            /\ Distinct(s) /\ e \notin Range(s) => Distinct(Append(s, e))
        BY AppendAdds
      <3>5. ASSUME Distinct(seq) PROVE e \notin first(k)
        BY <3>5, <2>1, <2>3, <1>1 DEF Distinct
      <3>6. Distinct(seq) => Distinct(Append(s, e))
        BY <3>4, <3>5, <2>5
      <3>. QED
        BY <3>1, <3>4, <3>6, <2>2, <2>3, <2>4, <2>5, <2>7, <1>4
    <2>. QED
      BY <2>6, <2>7
  <1>. HIDE DEF P
  <1>5. \A k \in 0..n : k \in P
    BY <1>1, <1>3, <1>4, UpTo
  <1>6. n \in 0..n
    BY <1>1, SMTT(60)
  <1>7. first(n) = Range(seq) \ S
    BY <1>1 DEF Range
  <1>. QED
    BY <1>2, <1>5, <1>6, <1>7 DEF P

-----------------------------------------------------------------------------
(* Current transactions are put in their place.                            *)

\* v is u but for m_current.
SameButCurrent(u, v) ==
    /\ v.future = u.future /\ v.futureSize = u.futureSize
    /\ v.known = u.known /\ v.dropped = u.dropped /\ v.flag = u.flag

\* In v the transactions of S are current too.
Adds(u, v, S) ==
    /\ v \in Queue /\ SameButCurrent(u, v)
    /\ Distinct(v.current)
    /\ Range(v.current) = Range(u.current) \cup S

\* A queue with another m_current.
LEMMA WithCurrent ==
    ASSUME NEW u \in Queue, NEW c \in Seq(Txs), NEW v, v = [u EXCEPT !.current = c]
    PROVE  v \in Queue /\ SameButCurrent(u, v) /\ v.current = c
  BY SMTT(60) DEF Queue, SameButCurrent

\* The places of emplace are places.
LEMMA PlacesAre ==
    ASSUME NEW c \in Seq(Txs), NEW t \in Txs, NEW p \in Places(c, t)
    PROVE  p \in 1..Len(c) + 1
  <1>1. Len(Append(c, t)) = Len(c) + 1
    BY SMTT(60)
  <1>2. p \in 1..Len(Append(c, t))
    BY DEF Places
  <1>. QED
    BY <1>1, <1>2

\* emplace stays among the queues.
LEMMA EmplaceTyped ==
    ASSUME NEW u \in Queue, NEW t \in Txs
    PROVE  Emplace(u, t) \in SUBSET Queue
  <1>. SUFFICES ASSUME NEW v \in Emplace(u, t) PROVE v \in Queue
    OBVIOUS
  <1>1. u.current \in Seq(Txs)
    BY SMTT(60) DEF Queue
  <1>2. PICK p \in Places(u.current, t) : v = [u EXCEPT !.current = InsertAt(u.current, p, t)]
    BY DEF Emplace
  <1>3. InsertAt(u.current, p, t) \in Seq(Txs)
    BY <1>1, PlacesAre, InsertAtAdds
  <1>. QED
    BY <1>2, <1>3, WithCurrent

\* emplace adds one that is not there.
LEMMA EmplaceAdds ==
    ASSUME NEW u \in Queue, NEW t \in Txs, NEW v \in Emplace(u, t),
           Distinct(u.current), t \notin Range(u.current)
    PROVE  Adds(u, v, {t})
  <1>1. u.current \in Seq(Txs)
    BY SMTT(60) DEF Queue
  <1>2. PICK p \in Places(u.current, t) : v = [u EXCEPT !.current = InsertAt(u.current, p, t)]
    BY DEF Emplace
  <1>3. PICK c : c = InsertAt(u.current, p, t)
    OBVIOUS
  <1>4. c \in Seq(Txs) /\ Range(c) = Range(u.current) \cup {t} /\ Distinct(c)
    <2>2. PICK s \in Seq(Txs) : s = u.current
      BY <1>1
    <2>1. p \in 1..Len(s) + 1
      BY <2>2, PlacesAre
    <2>3. /\ InsertAt(s, p, t) \in Seq(Txs)
          /\ Range(InsertAt(s, p, t)) = Range(s) \cup {t}
          /\ Distinct(s) /\ t \notin Range(s) => Distinct(InsertAt(s, p, t))
      BY <2>1, InsertAtAdds
    <2>. QED
      BY <2>2, <2>3, <1>3
  <1>. QED
    BY <1>2, <1>3, <1>4, WithCurrent DEF Adds

\* The loop of EmplaceAll.
EmplaceLoop(placed, u, seq) ==
    placed = [n \in 0..Len(seq) |->
                 IF n = 0 THEN {u} ELSE UNION {Emplace(v, seq[n]) : v \in placed[n - 1]}]

\* EmplaceAll is what its loop ends with.
LEMMA EmplaceRuns ==
    ASSUME NEW u \in Queue, NEW seq \in Seq(Txs)
    PROVE  \E placed : EmplaceLoop(placed, u, seq) /\ EmplaceAll(u, seq) = placed[Len(seq)]
  <1>. DEFINE n == Len(seq)
              g == [k \in 1..n |-> [v \in Queue |-> Emplace(v, seq[k])]]
  <1>1. n \in Nat /\ {u} \in SUBSET Queue
    BY SMTT(60)
  <1>2. ASSUME NEW k \in 1..n, NEW v \in Queue PROVE Emplace(v, seq[k]) \in SUBSET Queue
    <2>1. seq[k] \in Txs
      BY SMTT(60)
    <2>. QED
      BY <2>1, EmplaceTyped
  <1>3. g \in [1..n -> [Queue -> SUBSET Queue]]
    BY <1>2
  <1>4. \A k \in 1..n, v \in Queue : g[k][v] = Emplace(v, seq[k])
    OBVIOUS
  <1>. HIDE DEF g
  <1>5. PICK f \in [0..n -> SUBSET Queue] : Spread(f, {u}, n, g)
    BY <1>1, <1>3, SpreadExists
  <1>6. ASSUME NEW k \in 0..n, k # 0 PROVE k \in 1..n /\ f[k - 1] \in SUBSET Queue
    BY <1>6, SMTT(60)
  <1>7. ASSUME NEW k \in 0..n, k # 0
        PROVE  UNION {g[k][v] : v \in f[k - 1]} = UNION {Emplace(v, seq[k]) : v \in f[k - 1]}
    <2>1. \A v \in f[k - 1] : g[k][v] = Emplace(v, seq[k])
      BY <1>7, <1>6, <1>4
    <2>. QED
      BY <2>1
  <1>8. EmplaceLoop(f, u, seq)
    BY <1>5, <1>7 DEF Spread, EmplaceLoop
  <1>9. PICK placed : placed = CHOOSE p : EmplaceLoop(p, u, seq)
    OBVIOUS
  <1>10. EmplaceLoop(placed, u, seq)
    BY <1>8, <1>9
  <1>11. EmplaceAll(u, seq) = placed[n]
    BY <1>9 DEF EmplaceAll, EmplaceLoop
  <1>. QED
    BY <1>10, <1>11

\* EmplaceAll adds all of a sequence that is not there.
LEMMA EmplaceAllAdds ==
    ASSUME NEW u \in Queue, NEW seq \in Seq(Txs), Distinct(u.current), Distinct(seq),
           Range(u.current) \cap Range(seq) = {}, NEW w \in EmplaceAll(u, seq)
    PROVE  Adds(u, w, Range(seq))
  <1>. DEFINE n == Len(seq)
              first(k) == {seq[i] : i \in 1..k}
  <1>1. n \in Nat /\ DOMAIN seq = 1..n /\ \A i \in 1..n : seq[i] \in Txs
    BY SMTT(60)
  <1>2. PICK placed : EmplaceLoop(placed, u, seq) /\ EmplaceAll(u, seq) = placed[n]
    BY EmplaceRuns
  <1>. DEFINE P == {k \in 0..n : \A v \in placed[k] : Adds(u, v, first(k))}
  <1>3. 0 \in P
    <2>1. 0 \in 0..n /\ placed[0] = {u}
      BY <1>1, <1>2, SMTT(60) DEF EmplaceLoop
    <2>2. first(0) = {}
      <3>1. 1..0 = {}
        BY SMTT(60)
      <3>. QED
        BY <3>1
    <2>3. Adds(u, u, {})
      BY DEF Adds, SameButCurrent
    <2>. QED
      BY <2>1, <2>2, <2>3
  <1>4. ASSUME NEW k \in 0..n, k + 1 \in 0..n, k \in P PROVE k + 1 \in P
    <2>1. k + 1 # 0 /\ (k + 1) - 1 = k /\ k + 1 \in 1..n /\ k + 1 \notin 1..k
          /\ 1..k + 1 = (1..k) \cup {k + 1} /\ \A i \in 1..k : i \in 1..n
      BY <1>1, <1>4, SMTT(60)
    <2>2. placed[k + 1] = UNION {Emplace(v, seq[k + 1]) : v \in placed[k]}
      BY <2>1, <1>2, <1>4 DEF EmplaceLoop
    <2>3. PICK e \in Txs : e = seq[k + 1]
      BY <2>1, <1>1
    <2>4. first(k + 1) = first(k) \cup {e}
      BY <2>1, <2>3
    <2>5. e \notin first(k) /\ e \notin Range(u.current)
      <3>1. e \in Range(seq)
        BY <2>1, <2>3, <1>1 DEF Range
      <3>2. \A i \in 1..k : seq[i] # e
        BY <2>1, <2>3, <1>1 DEF Distinct
      <3>. QED
        BY <3>1, <3>2
    <2>6. ASSUME NEW v \in placed[k + 1] PROVE Adds(u, v, first(k + 1))
      <3>1. PICK x \in placed[k] : v \in Emplace(x, e)
        BY <2>2, <2>3
      <3>2. Adds(u, x, first(k))
        BY <1>4
      <3>3. x \in Queue /\ Distinct(x.current) /\ e \notin Range(x.current)
        BY <3>2, <2>5 DEF Adds
      <3>4. Adds(x, v, {e})
        BY <3>1, <3>3, EmplaceAdds
      <3>5. SameButCurrent(u, v)
        BY <3>2, <3>4 DEF Adds, SameButCurrent
      <3>6. Range(v.current) = Range(u.current) \cup first(k + 1)
        BY <3>2, <3>4, <2>4 DEF Adds
      <3>. QED
        BY <3>4, <3>5, <3>6 DEF Adds
    <2>. QED
      BY <2>6, <1>4
  <1>. HIDE DEF P
  <1>5. \A k \in 0..n : k \in P
    BY <1>1, <1>3, <1>4, UpTo
  <1>6. n \in 0..n /\ first(n) = Range(seq)
    <2>1. n \in 0..n
      BY <1>1, SMTT(60)
    <2>. QED
      BY <2>1, <1>1 DEF Range
  <1>. QED
    BY <1>2, <1>5, <1>6 DEF P

-----------------------------------------------------------------------------
(* Future transactions are cut off.                                        *)

\* The queues whose m_futureSize is exact.
Counted == {v \in Queue : v.futureSize = Cardinality(v.future)}

\* v has lost some future transactions of u, and counts the others.
Cuts(u, v) ==
    /\ v \in Counted
    /\ v.current = u.current /\ v.future \subseteq u.future
    /\ v.known = u.known /\ v.dropped = u.dropped /\ v.flag = u.flag

\* The transactions of a queue are finitely many.
LEMMA FiniteTxs ==
    ASSUME NEW S, S \subseteq Txs
    PROVE  IsFiniteSet(S) /\ Cardinality(S) \in Nat
  <1>1. IsFiniteSet(S)
    BY TxsAssumption, FS_Subset
  <1>. QED
    BY <1>1, FS_CardinalityType

\* The fields of a queue.
LEMMA Fields ==
    ASSUME NEW u \in Queue
    PROVE  /\ u.current \in Seq(Txs) /\ u.future \subseteq Txs /\ u.futureSize \in Nat
           /\ u.known \subseteq Txs /\ u.dropped \subseteq Txs /\ u.flag \in BOOLEAN
           /\ Range(u.current) \subseteq Txs
  <1>1. /\ u.current \in Seq(Txs) /\ u.future \subseteq Txs /\ u.futureSize \in Nat
        /\ u.known \subseteq Txs /\ u.dropped \subseteq Txs /\ u.flag \in BOOLEAN
    BY SMTT(60) DEF Queue
  <1>2. \A i \in DOMAIN u.current : u.current[i] \in Txs
    BY <1>1, SMTT(60)
  <1>. QED
    BY <1>1, <1>2 DEF Range

\* v is u with the future transactions F, of which it counts n.
OtherFuture(u, v, F, n) ==
    /\ v \in Queue /\ v.current = u.current /\ v.future = F /\ v.futureSize = n
    /\ v.known = u.known /\ v.dropped = u.dropped /\ v.flag = u.flag

\* A queue with other future transactions.
LEMMA WithFuture ==
    ASSUME NEW u \in Queue, NEW F \in SUBSET Txs, NEW n \in Nat,
           NEW v, v = [u EXCEPT !.future = F, !.futureSize = n]
    PROVE  OtherFuture(u, v, F, n)
  <1>1. PICK x : x = [u EXCEPT !.future = F]
    OBVIOUS
  <1>2. /\ x \in Queue /\ x.current = u.current /\ x.future = F
        /\ x.known = u.known /\ x.dropped = u.dropped /\ x.flag = u.flag
    BY <1>1, SMTT(60) DEF Queue
  <1>3. v = [x EXCEPT !.futureSize = n]
    BY <1>1
  <1>4. /\ v \in Queue /\ v.current = x.current /\ v.future = x.future /\ v.futureSize = n
        /\ v.known = x.known /\ v.dropped = x.dropped /\ v.flag = x.flag
    BY <1>2, <1>3, SMTT(60) DEF Queue
  <1>. QED
    BY <1>2, <1>4 DEF OtherFuture

\* Cutting off the last transaction of an account.
LEMMA LastCutCuts ==
    ASSUME NEW u \in Counted, NEW v \in LastCut(u)
    PROVE  Cuts(u, v) /\ v.futureSize = u.futureSize - 1
  <1>1. u \in Queue /\ u.futureSize = Cardinality(u.future)
    BY DEF Counted
  <1>2. u.future \subseteq Txs /\ u.futureSize \in Nat
    BY <1>1, Fields
  <1>3. PICK t \in u.future : v = [u EXCEPT !.future = u.future \ {t}, !.futureSize = u.futureSize - 1]
    BY DEF LastCut
  <1>4. PICK F \in SUBSET Txs : F = u.future \ {t}
    BY <1>2
  <1>5. Cardinality(F) \in Nat /\ IsFiniteSet(u.future)
    BY <1>2, FiniteTxs
  <1>6. Cardinality(F) = Cardinality(u.future) - 1
    BY <1>4, <1>5, FS_RemoveElement
  <1>7. u.futureSize - 1 \in Nat
    BY <1>1, <1>5, <1>6
  <1>8. PICK n \in Nat : n = u.futureSize - 1
    BY <1>7
  <1>9. OtherFuture(u, v, F, n)
    BY <1>1, <1>3, <1>4, <1>8, WithFuture
  <1>10. v \in Counted
    BY <1>1, <1>6, <1>8, <1>9 DEF Counted, OtherFuture
  <1>. QED
    BY <1>4, <1>8, <1>9, <1>10 DEF Cuts, OtherFuture

\* The loop of TrimFuture.
TrimLoop(trimmed, u) ==
    trimmed = [n \in 0..u.futureSize |->
                  IF n = 0 THEN {u} ELSE UNION {LastCut(v) : v \in trimmed[n - 1]}]

\* TrimFuture, where there are too many, is what its loop ends with.
LEMMA TrimRuns ==
    ASSUME NEW u \in Counted, ~(u.futureSize <= FutureLimit)
    PROVE  \E trimmed : TrimLoop(trimmed, u) /\ TrimFuture(u) = trimmed[u.futureSize - FutureLimit]
  <1>. DEFINE n == u.futureSize
              g == [k \in 1..n |-> [v \in Counted |-> LastCut(v)]]
  <1>1. n \in Nat /\ {u} \in SUBSET Counted
    BY Fields DEF Counted
  <1>2. ASSUME NEW v \in Counted PROVE LastCut(v) \in SUBSET Counted
    BY LastCutCuts DEF Cuts
  <1>3. g \in [1..n -> [Counted -> SUBSET Counted]]
    BY <1>2
  <1>4. \A k \in 1..n, v \in Counted : g[k][v] = LastCut(v)
    OBVIOUS
  <1>. HIDE DEF g
  <1>5. PICK f \in [0..n -> SUBSET Counted] : Spread(f, {u}, n, g)
    BY <1>1, <1>3, SpreadExists
  <1>6. ASSUME NEW k \in 0..n, k # 0 PROVE k \in 1..n /\ f[k - 1] \in SUBSET Counted
    BY <1>1, <1>6, SMTT(60)
  <1>7. ASSUME NEW k \in 0..n, k # 0
        PROVE  UNION {g[k][v] : v \in f[k - 1]} = UNION {LastCut(v) : v \in f[k - 1]}
    <2>1. \A v \in f[k - 1] : g[k][v] = LastCut(v)
      BY <1>7, <1>6, <1>4
    <2>. QED
      BY <2>1
  <1>8. TrimLoop(f, u)
    BY <1>5, <1>7 DEF Spread, TrimLoop
  <1>9. PICK trimmed : trimmed = CHOOSE p : TrimLoop(p, u)
    OBVIOUS
  <1>10. TrimLoop(trimmed, u)
    BY <1>8, <1>9
  <1>11. TrimFuture(u) = trimmed[n - FutureLimit]
    BY <1>9 DEF TrimFuture, TrimLoop
  <1>. QED
    BY <1>10, <1>11

\* TrimFuture leaves no more than FutureLimit, and cuts only what is beyond.
LEMMA TrimFutureTrims ==
    ASSUME NEW u \in Counted, NEW w \in TrimFuture(u)
    PROVE  /\ Cuts(u, w) /\ Cardinality(w.future) <= FutureLimit
           /\ Cardinality(u.future) <= FutureLimit => w = u
  <1>. DEFINE n == u.futureSize
  <1>1. n \in Nat /\ FutureLimit \in Nat
    BY LimitsAssumption, Fields DEF Counted
  <1>2. Cuts(u, u)
    BY DEF Cuts
  <1>3. CASE n <= FutureLimit
    <2>1. w = u
      BY <1>3 DEF TrimFuture
    <2>2. n = Cardinality(u.future)
      BY DEF Counted
    <2>. QED
      BY <2>1, <2>2, <1>2, <1>3
  <1>4. CASE ~(n <= FutureLimit)
    <2>1. PICK trimmed : TrimLoop(trimmed, u) /\ TrimFuture(u) = trimmed[n - FutureLimit]
      BY <1>4, TrimRuns
    <2>. DEFINE P == {k \in 0..n : \A v \in trimmed[k] : Cuts(u, v) /\ v.futureSize = n - k}
    <2>2. 0 \in P
      <3>1. 0 \in 0..n /\ n - 0 = n
        BY <1>1, SMTT(60)
      <3>2. trimmed[0] = {u}
        BY <3>1, <2>1 DEF TrimLoop
      <3>. QED
        BY <3>1, <3>2, <1>2
    <2>3. ASSUME NEW k \in 0..n, k + 1 \in 0..n, k \in P PROVE k + 1 \in P
      <3>1. k + 1 # 0 /\ (k + 1) - 1 = k /\ (n - k) - 1 = n - (k + 1)
        BY <1>1, <2>3, SMTT(60)
      <3>2. trimmed[k + 1] = UNION {LastCut(v) : v \in trimmed[k]}
        BY <3>1, <2>1, <2>3 DEF TrimLoop
      <3>3. ASSUME NEW v \in trimmed[k + 1] PROVE Cuts(u, v) /\ v.futureSize = n - (k + 1)
        <4>1. PICK x \in trimmed[k] : v \in LastCut(x)
          BY <3>2
        <4>2. Cuts(u, x) /\ x.futureSize = n - k
          BY <2>3
        <4>3. x \in Counted
          BY <4>2 DEF Cuts
        <4>4. Cuts(x, v) /\ v.futureSize = x.futureSize - 1
          BY <4>1, <4>3, LastCutCuts
        <4>5. Cuts(u, v)
          BY <4>2, <4>4 DEF Cuts
        <4>. QED
          BY <4>2, <4>4, <4>5, <3>1
      <3>. QED
        BY <3>3, <2>3
    <2>. HIDE DEF P
    <2>4. \A k \in 0..n : k \in P
      BY <1>1, <2>2, <2>3, UpTo
    <2>5. n - FutureLimit \in 0..n /\ n - (n - FutureLimit) = FutureLimit /\ FutureLimit <= FutureLimit
      BY <1>1, <1>4, SMTT(60)
    <2>6. Cuts(u, w) /\ w.futureSize = FutureLimit
      BY <2>1, <2>4, <2>5 DEF P
    <2>7. ~(Cardinality(u.future) <= FutureLimit)
      BY <1>4 DEF Counted
    <2>. QED
      BY <2>5, <2>6, <2>7 DEF Cuts, Counted
  <1>. QED
    BY <1>3, <1>4

-----------------------------------------------------------------------------
(* The followers of a transaction.                                         *)

\* The n-th follower, and the n for which there is none.
NextTo(future, t, n) == {f \in future : f.from = t.from /\ f.nonce = t.nonce + n}
Gaps(future, t) == {n \in 1..Cardinality(future) + 1 : NextTo(future, t, n) = {}}

\* No transaction is the follower at two distances.
LEMMA NextToApart ==
    ASSUME NEW F \in SUBSET Txs, NEW t \in Txs, NEW m \in Nat, NEW n \in Nat,
           NEW f \in NextTo(F, t, m), f \in NextTo(F, t, n)
    PROVE  m = n
  <1>1. f.nonce = t.nonce + m /\ f.nonce = t.nonce + n
    BY DEF NextTo
  <1>2. t.nonce \in Nat
    BY TxsAssumption
  <1>. QED
    BY <1>1, <1>2, SMTT(60)

\* There are fewer followers than future transactions and one: one distance has none.
LEMMA GapExists ==
    ASSUME NEW F \in SUBSET Txs, NEW t \in Txs
    PROVE  Gaps(F, t) # {}
  <1>. SUFFICES ASSUME Gaps(F, t) = {} PROVE FALSE
    OBVIOUS
  <1>. DEFINE c == Cardinality(F)
              D == 1..c + 1
              f == [n \in D |-> CHOOSE x \in NextTo(F, t, n) : TRUE]
  <1>1. IsFiniteSet(F) /\ c \in Nat
    BY FiniteTxs
  <1>2. ASSUME NEW n \in D PROVE f[n] \in NextTo(F, t, n) /\ n \in Nat
    <2>1. NextTo(F, t, n) # {}
      BY DEF Gaps
    <2>2. n \in Nat
      BY <1>1, SMTT(60)
    <2>. QED
      BY <2>1, <2>2
  <1>3. f \in [D -> F]
    BY <1>2 DEF NextTo
  <1>. HIDE DEF f
  <1>4. IsFiniteSet(D) /\ Cardinality(D) = c + 1
    BY <1>1, FS_Interval, SMTT(60)
  <1>. HIDE DEF D
  <1>5. f \in Injection(D, F)
    BY <1>2, <1>3, NextToApart DEF Injection, IsInjective
  <1>6. Cardinality(D) <= Cardinality(F)
    BY <1>1, <1>5, FS_Injection
  <1>. QED
    BY <1>1, <1>4, <1>6, SMTT(60)

\* The followers are future transactions, each of them once.
LEMMA FollowersAre ==
    ASSUME NEW F \in SUBSET Txs, NEW t \in Txs, NEW run, run = Followers(F, t)
    PROVE  /\ run \in Seq(Txs) /\ Range(run) \subseteq F /\ Distinct(run)
           /\ Len(run) = Cardinality(Range(run))
  <1>. DEFINE g == Min(Gaps(F, t))
  <1>1. Gaps(F, t) \subseteq Nat
    <2>1. Cardinality(F) \in Nat
      BY FiniteTxs
    <2>2. 1..Cardinality(F) + 1 \subseteq Nat
      BY <2>1, SMTT(60)
    <2>. QED
      BY <2>2 DEF Gaps
  <1>2. g \in Gaps(F, t) /\ \A n \in Gaps(F, t) : g <= n
    <2>1. \E x \in Gaps(F, t) : \A y \in Gaps(F, t) : x <= y
      BY <1>1, GapExists, LeastExists
    <2>. QED
      BY <2>1 DEF Min
  <1>3. run = [n \in 1..g - 1 |-> CHOOSE f \in NextTo(F, t, n) : TRUE]
    BY DEF Followers, NextTo, Gaps
  <1>4. Cardinality(F) \in Nat /\ g \in 1..Cardinality(F) + 1
    BY <1>2, FiniteTxs DEF Gaps
  <1>. HIDE DEF g
  <1>5. g - 1 \in Nat /\ \A n \in 1..g - 1 : n \in 1..Cardinality(F) + 1 /\ ~(g <= n) /\ n \in Nat
    BY <1>4, SMTT(60)
  <1>6. ASSUME NEW n \in 1..g - 1 PROVE run[n] \in NextTo(F, t, n)
    <2>1. NextTo(F, t, n) # {}
      BY <1>2, <1>5 DEF Gaps
    <2>. QED
      BY <2>1, <1>3
  <1>7. run \in [1..g - 1 -> F]
    BY <1>3, <1>6 DEF NextTo
  <1>8. run \in Seq(F) /\ Len(run) = g - 1 /\ DOMAIN run = 1..g - 1
    BY <1>5, <1>7, EnumerationIsSeq
  <1>9. run \in Seq(Txs)
    BY <1>8, SMTT(60)
  <1>10. Range(run) \subseteq F
    BY <1>7, <1>8 DEF Range
  <1>11. \A m, n \in 1..g - 1 : run[m] = run[n] => m = n
    BY <1>5, <1>6, NextToApart
  <1>12. Distinct(run)
    BY <1>8, <1>11 DEF Distinct
  <1>13. Len(run) = Cardinality(Range(run))
    <2>1. IsFiniteSet(1..g - 1) /\ Cardinality(1..g - 1) = g - 1
      BY <1>5, FS_Interval, SMTT(60)
    <2>2. run \in [1..g - 1 -> Range(run)] /\ \A x \in Range(run) : \E n \in 1..g - 1 : run[n] = x
      BY <1>7, <1>8 DEF Range
    <2>3. run \in Bijection(1..g - 1, Range(run))
      BY <2>2, <1>11 DEF Bijection, Injection, Surjection, IsInjective
    <2>4. ExistsBijection(1..g - 1, Range(run))
      BY <2>3 DEF ExistsBijection
    <2>. QED
      BY <2>1, <2>4, <1>8, FS_Bijection
  <1>. QED
    BY <1>9, <1>10, <1>12, <1>13

-----------------------------------------------------------------------------
(* makeCurrent_WITH_LOCK.                                                  *)

HeldBy(u) == Range(u.current) \cup u.future

\* One transaction per nonce, in one of the two sets, and m_futureSize exact.
Sorted(u) ==
    /\ u \in Counted
    /\ Distinct(u.current)
    /\ \A t, v \in HeldBy(u) : SameSlot(t, v) => t = v
    /\ Range(u.current) \cap u.future = {}

\* w is a sorted queue that holds nothing new and knows what u knows; only where
\* m_future was too long has it lost anything, and nothing current.
Keeps(u, w) ==
    /\ Sorted(w) /\ HeldBy(w) \subseteq HeldBy(u)
    /\ w.known = u.known /\ w.dropped = u.dropped
    /\ Range(u.current) \subseteq Range(w.current) /\ w.future \subseteq u.future
    /\ Cardinality(u.future) <= FutureLimit => HeldBy(u) \subseteq HeldBy(w)

\* Fewer future transactions are within the limit too.
LEMMA FewerFuture ==
    ASSUME NEW u \in Queue, NEW F, F \subseteq u.future, Cardinality(u.future) <= FutureLimit
    PROVE  Cardinality(F) <= FutureLimit
  <1>1. u.future \subseteq Txs
    BY Fields
  <1>2. IsFiniteSet(u.future) /\ Cardinality(u.future) \in Nat /\ Cardinality(F) \in Nat
    BY <1>1, FiniteTxs
  <1>3. Cardinality(F) <= Cardinality(u.future)
    BY <1>2, FS_Subset
  <1>. QED
    BY <1>2, <1>3, LimitsAssumption, SMTT(60)

\* v is u but for the flag.
OtherFlag(u, v) ==
    /\ v \in Queue /\ v.current = u.current /\ v.future = u.future
    /\ v.futureSize = u.futureSize /\ v.known = u.known /\ v.dropped = u.dropped

\* A queue with the flag raised or lowered.
LEMMA WithFlag ==
    ASSUME NEW u \in Queue, NEW b \in BOOLEAN, NEW v, v = [u EXCEPT !.flag = b]
    PROVE  OtherFlag(u, v)
  BY SMTT(60) DEF Queue, OtherFlag

\* The followers of t are current, and counted as future no more.
LEMMA FollowKeeps ==
    ASSUME NEW u, Sorted(u), NEW t \in Txs, NEW w \in Follow(u, t)
    PROVE  Keeps(u, w)
  <1>1. u \in Queue /\ u.futureSize = Cardinality(u.future) /\ Distinct(u.current)
    BY DEF Sorted, Counted
  <1>2. u.future \in SUBSET Txs /\ u.futureSize \in Nat /\ u.flag \in BOOLEAN
    BY <1>1, Fields
  <1>3. PICK run : run = Followers(u.future, t)
    OBVIOUS
  <1>4. /\ run \in Seq(Txs) /\ Range(run) \subseteq u.future /\ Distinct(run)
        /\ Len(run) = Cardinality(Range(run))
    BY <1>2, <1>3, FollowersAre
  <1>5. PICK F \in SUBSET Txs : F = u.future \ Range(run)
    BY <1>2
  <1>6. Cardinality(F) \in Nat /\ Cardinality(F) = u.futureSize - Len(run)
    <2>1. IsFiniteSet(u.future) /\ Cardinality(F) \in Nat
      BY <1>2, FiniteTxs
    <2>2. u.future \cap Range(run) = Range(run)
      BY <1>4
    <2>3. Cardinality(u.future \ Range(run)) = Cardinality(u.future) - Cardinality(u.future \cap Range(run))
      BY <2>1, FS_Difference
    <2>. QED
      BY <2>1, <2>2, <2>3, <1>1, <1>4, <1>5
  <1>7. PICK n \in Nat : n = u.futureSize - Len(run)
    BY <1>6
  <1>8. PICK b \in BOOLEAN : b = (u.flag \/ run # <<>>)
    OBVIOUS
  <1>9. w \in EmplaceAll([u EXCEPT !.future = F, !.futureSize = n, !.flag = b], run)
    BY <1>3, <1>5, <1>7, <1>8 DEF Follow
  <1>10. PICK y : y = [u EXCEPT !.future = F, !.futureSize = n]
    OBVIOUS
  <1>11. OtherFuture(u, y, F, n)
    BY <1>1, <1>10, WithFuture
  <1>12. PICK x : x = [y EXCEPT !.flag = b]
    OBVIOUS
  <1>13. w \in EmplaceAll(x, run)
    BY <1>9, <1>10, <1>12
  <1>14. OtherFlag(y, x)
    BY <1>11, <1>12, WithFlag DEF OtherFuture
  <1>15. /\ x \in Queue /\ x.current = u.current /\ x.future = F /\ x.futureSize = n
         /\ x.known = u.known /\ x.dropped = u.dropped
    BY <1>11, <1>14 DEF OtherFuture, OtherFlag
  <1>16. Range(u.current) \cap Range(run) = {}
    BY <1>4 DEF Sorted
  <1>17. Adds(x, w, Range(run))
    BY <1>1, <1>4, <1>13, <1>15, <1>16, EmplaceAllAdds
  <1>18. /\ w \in Queue /\ w.future = F /\ w.futureSize = n
         /\ w.known = u.known /\ w.dropped = u.dropped /\ Distinct(w.current)
         /\ Range(w.current) = Range(u.current) \cup Range(run)
    BY <1>15, <1>17 DEF Adds, SameButCurrent
  <1>19. HeldBy(w) = HeldBy(u)
    BY <1>4, <1>5, <1>18 DEF HeldBy
  <1>20. w \in Counted
    BY <1>6, <1>7, <1>18 DEF Counted
  <1>21. Range(w.current) \cap w.future = {}
    BY <1>5, <1>18 DEF Sorted
  <1>22. \A a, v \in HeldBy(w) : SameSlot(a, v) => a = v
    BY <1>19 DEF Sorted
  <1>23. Range(u.current) \subseteq Range(w.current) /\ w.future \subseteq u.future
    BY <1>5, <1>18
  <1>. QED
    BY <1>18, <1>19, <1>20, <1>21, <1>22, <1>23 DEF Keeps, Sorted

\* makeCurrent adds nothing, and leaves no more than FutureLimit future transactions.
LEMMA MakeCurrentKeeps ==
    ASSUME NEW u, Sorted(u), NEW t \in Txs, NEW w \in MakeCurrent(u, t)
    PROVE  Keeps(u, w) /\ Cardinality(w.future) <= FutureLimit
  <1>1. PICK v \in Follow(u, t) : w \in TrimFuture(v)
    BY DEF MakeCurrent
  <1>2. Keeps(u, v)
    BY FollowKeeps
  <1>3. v \in Counted
    BY <1>2 DEF Keeps, Sorted
  <1>4. /\ Cuts(v, w) /\ Cardinality(w.future) <= FutureLimit
        /\ Cardinality(v.future) <= FutureLimit => w = v
    BY <1>1, <1>3, TrimFutureTrims
  <1>5. HeldBy(w) \subseteq HeldBy(v)
    BY <1>4 DEF Cuts, HeldBy
  <1>6. Sorted(w)
    BY <1>2, <1>4, <1>5 DEF Keeps, Sorted, Cuts
  <1>7. ASSUME Cardinality(u.future) <= FutureLimit PROVE HeldBy(u) \subseteq HeldBy(w)
    <2>1. u \in Queue /\ v.future \subseteq u.future
      BY <1>2 DEF Keeps, Sorted, Counted
    <2>2. Cardinality(v.future) <= FutureLimit
      BY <2>1, <1>7, FewerFuture
    <2>. QED
      BY <2>2, <1>2, <1>4, <1>7 DEF Keeps
  <1>. QED
    BY <1>2, <1>4, <1>5, <1>6, <1>7 DEF Keeps, Cuts

-----------------------------------------------------------------------------
(* import.                                                                 *)

\* A queue as the code leaves it: sorted, all known, and within the limits.
Good(u) ==
    /\ Sorted(u)
    /\ HeldBy(u) \subseteq u.known
    /\ Cardinality(HeldBy(u)) <= Limit + FutureLimit

\* m_current is at its limit.
Full(u) == Len(u.current) >= Limit

\* What a queue holds are transactions.
LEMMA HeldTyped ==
    ASSUME NEW u \in Queue
    PROVE  HeldBy(u) \subseteq Txs /\ Range(u.current) \subseteq Txs
  BY Fields DEF HeldBy

\* A queue that holds no more than a good one is within the limits.
LEMMA FewerHeld ==
    ASSUME NEW u \in Queue, NEW w \in Queue, HeldBy(w) \subseteq HeldBy(u),
           Cardinality(HeldBy(u)) <= Limit + FutureLimit
    PROVE  Cardinality(HeldBy(w)) <= Limit + FutureLimit
  <1>1. IsFiniteSet(HeldBy(u)) /\ Cardinality(HeldBy(u)) \in Nat /\ Cardinality(HeldBy(w)) \in Nat
    BY HeldTyped, FiniteTxs
  <1>2. Cardinality(HeldBy(w)) <= Cardinality(HeldBy(u))
    BY <1>1, FS_Subset
  <1>3. Limit \in Nat /\ FutureLimit \in Nat
    BY LimitsAssumption
  <1>. QED
    BY <1>1, <1>2, <1>3, SMTT(60)

\* A sequence has no more members than places.
LEMMA RangeBound ==
    ASSUME NEW s \in Seq(Txs)
    PROVE  Cardinality(Range(s)) <= Len(s) /\ IsFiniteSet(Range(s))
  <1>1. Len(s) \in Nat /\ DOMAIN s = 1..Len(s)
    BY SMTT(60)
  <1>2. s \in Surjection(1..Len(s), Range(s))
    <2>1. s = [i \in 1..Len(s) |-> s[i]]
      BY SMTT(60)
    <2>. QED
      BY <2>1, <1>1 DEF Surjection, Range
  <1>3. IsFiniteSet(1..Len(s)) /\ Cardinality(1..Len(s)) = Len(s)
    BY <1>1, FS_Interval, SMTT(60)
  <1>4. IsFiniteSet(Range(s)) /\ Cardinality(Range(s)) <= Cardinality(1..Len(s))
    BY <1>2, <1>3, FS_Surjection
  <1>. QED
    BY <1>3, <1>4

\* The two limits together bound what is held.
LEMMA BothLimits ==
    ASSUME NEW u \in Queue, Len(u.current) <= Limit, Cardinality(u.future) <= FutureLimit
    PROVE  Cardinality(HeldBy(u)) <= Limit + FutureLimit
  <1>. DEFINE A == Range(u.current)
              B == u.future
  <1>1. u.current \in Seq(Txs) /\ B \subseteq Txs /\ A \subseteq Txs
    BY Fields
  <1>2. Cardinality(A) <= Len(u.current) /\ Len(u.current) \in Nat
    <2>1. Len(u.current) \in Nat
      BY <1>1, SMTT(60)
    <2>. QED
      BY <2>1, <1>1, RangeBound
  <1>3. /\ IsFiniteSet(A) /\ Cardinality(A) \in Nat
        /\ IsFiniteSet(B) /\ Cardinality(B) \in Nat
        /\ Cardinality(A \cap B) \in Nat
    BY <1>1, FiniteTxs
  <1>4. Cardinality(A \cup B) = Cardinality(A) + Cardinality(B) - Cardinality(A \cap B)
    BY <1>3, FS_Union
  <1>5. Limit \in Nat /\ FutureLimit \in Nat
    BY LimitsAssumption
  <1>6. Cardinality(A \cup B) <= Limit + FutureLimit
    <2>. HIDE DEF A, B
    <2>. QED
      BY <1>2, <1>3, <1>4, <1>5, SMTT(60) DEF B
  <1>. QED
    BY <1>6 DEF HeldBy

\* v is u with other transactions known.
OtherKnown(u, v, K) ==
    /\ v \in Queue /\ v.current = u.current /\ v.future = u.future
    /\ v.futureSize = u.futureSize /\ v.known = K /\ v.dropped = u.dropped /\ v.flag = u.flag

\* A queue with other transactions known.
LEMMA WithKnown ==
    ASSUME NEW u \in Queue, NEW K \in SUBSET Txs, NEW v, v = [u EXCEPT !.known = K]
    PROVE  OtherKnown(u, v, K)
  BY SMTT(60) DEF Queue, OtherKnown

\* insertCurrent of a transaction whose nonce is free.
LEMMA InsertCurrentInserts ==
    ASSUME NEW u, Sorted(u), NEW t \in Txs, \A x \in HeldBy(u) : ~SameSlot(x, t),
           NEW w \in InsertCurrent(u, t)
    PROVE  /\ Sorted(w) /\ HeldBy(w) \subseteq HeldBy(u) \cup {t}
           /\ w.known = u.known \cup {t} /\ Cardinality(w.future) <= FutureLimit
           /\ Range(u.current) \cup {t} \subseteq Range(w.current) /\ w.future \subseteq u.future
           /\ Cardinality(u.future) <= FutureLimit => HeldBy(u) \subseteq HeldBy(w)
  <1>1. u \in Queue /\ u.futureSize = Cardinality(u.future) /\ Distinct(u.current)
    BY DEF Sorted, Counted
  <1>2. PICK y \in Emplace(u, t) : \E x \in MakeCurrent(y, t) : w = [x EXCEPT !.known = x.known \cup {t}]
    BY DEF InsertCurrent
  <1>3. t \notin HeldBy(u)
    BY DEF SameSlot
  <1>4. t \notin Range(u.current) /\ t \notin u.future
    BY <1>3 DEF HeldBy
  <1>5. Adds(u, y, {t})
    BY <1>1, <1>4, EmplaceAdds
  <1>6. /\ y \in Queue /\ y.future = u.future /\ y.futureSize = u.futureSize
        /\ y.known = u.known /\ Distinct(y.current)
        /\ Range(y.current) = Range(u.current) \cup {t}
    BY <1>5 DEF Adds, SameButCurrent
  <1>7. HeldBy(y) = HeldBy(u) \cup {t}
    BY <1>6 DEF HeldBy
  <1>8. \A a, v \in HeldBy(y) : SameSlot(a, v) => a = v
    BY <1>7 DEF Sorted, SameSlot
  <1>9. Range(y.current) \cap y.future = {}
    BY <1>4, <1>6 DEF Sorted
  <1>10. Sorted(y)
    BY <1>1, <1>6, <1>8, <1>9 DEF Sorted, Counted
  <1>. PICK x \in MakeCurrent(y, t) : w = [x EXCEPT !.known = x.known \cup {t}]
    BY <1>2
  <1>11. Keeps(y, x) /\ Cardinality(x.future) <= FutureLimit
    BY <1>10, MakeCurrentKeeps
  <1>12. x \in Queue /\ x.known = u.known
    BY <1>6, <1>11 DEF Keeps, Sorted, Counted
  <1>13. PICK K \in SUBSET Txs : K = x.known \cup {t}
    BY <1>12, Fields
  <1>14. OtherKnown(x, w, K)
    BY <1>12, <1>13, WithKnown
  <1>15. HeldBy(w) = HeldBy(x)
    BY <1>14 DEF OtherKnown, HeldBy
  <1>16. Sorted(w)
    BY <1>11, <1>14, <1>15 DEF Keeps, Sorted, Counted, OtherKnown
  <1>17. Range(u.current) \cup {t} \subseteq Range(w.current) /\ w.future \subseteq u.future
    BY <1>6, <1>11, <1>14 DEF Keeps, OtherKnown
  <1>18. Cardinality(u.future) <= FutureLimit => HeldBy(u) \subseteq HeldBy(w)
    BY <1>6, <1>7, <1>11, <1>15 DEF Keeps
  <1>. QED
    BY <1>7, <1>11, <1>12, <1>13, <1>14, <1>15, <1>16, <1>17, <1>18 DEF Keeps, OtherKnown

\* v is u with other transactions current and known.
OtherCurrent(u, v, c, K) ==
    /\ v \in Queue /\ v.current = c /\ v.future = u.future
    /\ v.futureSize = u.futureSize /\ v.known = K /\ v.dropped = u.dropped /\ v.flag = u.flag

\* A queue with other transactions current and known.
LEMMA WithCurrentAndKnown ==
    ASSUME NEW u \in Queue, NEW c \in Seq(Txs), NEW K \in SUBSET Txs,
           NEW v, v = [u EXCEPT !.current = c, !.known = K]
    PROVE  OtherCurrent(u, v, c, K)
  <1>1. PICK x : x = [u EXCEPT !.current = c]
    OBVIOUS
  <1>2. x \in Queue /\ SameButCurrent(u, x) /\ x.current = c
    BY <1>1, WithCurrent
  <1>3. v = [x EXCEPT !.known = K]
    BY <1>1
  <1>4. OtherKnown(x, v, K)
    BY <1>2, <1>3, WithKnown
  <1>. QED
    BY <1>2, <1>4 DEF OtherKnown, OtherCurrent, SameButCurrent

\* Some current transactions leave a queue; no others are forgotten.
LEMMA CurrentLeave ==
    ASSUME NEW u, Sorted(u), NEW c \in Seq(Txs), NEW K \in SUBSET Txs, NEW w,
           OtherCurrent(u, w, c, K), Distinct(c), Range(c) \subseteq Range(u.current)
    PROVE  Sorted(w) /\ HeldBy(w) \subseteq HeldBy(u)
  <1>1. w \in Queue /\ w.current = c /\ w.future = u.future /\ w.futureSize = u.futureSize
    BY DEF OtherCurrent
  <1>2. HeldBy(w) \subseteq HeldBy(u)
    BY <1>1 DEF HeldBy
  <1>. QED
    BY <1>1, <1>2 DEF Sorted, Counted

\* The last current transactions fall off, and are forgotten.
LEMMA TrimCurrentTrims ==
    ASSUME NEW u, Sorted(u), HeldBy(u) \subseteq u.known, Cardinality(u.future) <= FutureLimit
    PROVE  /\ Good(TrimCurrent(u)) /\ TrimCurrent(u).future = u.future
           /\ HeldBy(TrimCurrent(u)) \subseteq HeldBy(u)
           /\ TrimCurrent(u) = u \/ Full(TrimCurrent(u))
  <1>1. u \in Queue /\ Distinct(u.current) /\ Range(u.current) \cap u.future = {}
    BY DEF Sorted, Counted
  <1>2. u.current \in Seq(Txs) /\ u.known \subseteq Txs /\ Limit \in Nat
    BY <1>1, Fields, LimitsAssumption
  <1>3. CASE Len(u.current) <= Limit
    <2>1. TrimCurrent(u) = u
      BY <1>3 DEF TrimCurrent
    <2>2. Cardinality(HeldBy(u)) <= Limit + FutureLimit
      BY <1>1, <1>3, BothLimits
    <2>. QED
      BY <2>1, <2>2 DEF Good
  <1>4. CASE ~(Len(u.current) <= Limit)
    <2>1. PICK s \in Seq(Txs) : s = u.current
      BY <1>2
    <2>2. Limit <= Len(s) /\ Limit <= Limit /\ Limit >= Limit
      BY <2>1, <1>2, <1>4, SMTT(60)
    <2>. DEFINE a == SubSeq(s, 1, Limit)
                b == SubSeq(s, Limit + 1, Len(s))
    <2>3. /\ a \in Seq(Txs) /\ Len(a) = Limit
          /\ Range(s) = Range(a) \cup Range(b)
          /\ Distinct(s) => Distinct(a) /\ Range(a) \cap Range(b) = {}
      BY <2>2, <1>2, CutInTwo
    <2>4. PICK w : w = TrimCurrent(u)
      OBVIOUS
    <2>5. PICK K \in SUBSET Txs : K = u.known \ Range(b)
      BY <1>2
    <2>6. w = [u EXCEPT !.current = a, !.known = K]
      BY <2>1, <2>4, <2>5, <1>4 DEF TrimCurrent
    <2>. HIDE DEF a, b
    <2>7. OtherCurrent(u, w, a, K)
      BY <2>3, <2>6, <1>1, WithCurrentAndKnown
    <2>8. Distinct(a) /\ Range(a) \subseteq Range(u.current)
      BY <2>1, <2>3, <1>1
    <2>9. Sorted(w) /\ HeldBy(w) \subseteq HeldBy(u)
      BY <2>3, <2>7, <2>8, CurrentLeave
    <2>10. HeldBy(w) \subseteq w.known
      <3>1. w.current = a /\ w.future = u.future /\ w.known = u.known \ Range(b)
        BY <2>5, <2>7 DEF OtherCurrent
      <3>2. HeldBy(w) \cap Range(b) = {}
        BY <3>1, <2>1, <2>3, <1>1 DEF HeldBy
      <3>. QED
        BY <3>1, <3>2, <2>9
    <2>11. w \in Queue /\ Len(w.current) <= Limit /\ Cardinality(w.future) <= FutureLimit
      BY <2>2, <2>3, <2>7 DEF OtherCurrent
    <2>12. Cardinality(HeldBy(w)) <= Limit + FutureLimit
      BY <2>11, BothLimits
    <2>13. w.future = u.future /\ Full(w)
      BY <2>2, <2>3, <2>7 DEF OtherCurrent, Full
    <2>. QED
      BY <2>4, <2>9, <2>10, <2>12, <2>13 DEF Good
  <1>. QED
    BY <1>3, <1>4

\* remove keeps a good queue good and takes out one transaction.
LEMMA RemovedGood ==
    ASSUME NEW u, Good(u), NEW t
    PROVE  /\ Good(Removed(u, t)) /\ Removed(u, t).future = u.future
           /\ HeldBy(Removed(u, t)) \subseteq HeldBy(u)
           /\ Range(u.current) \ {t} \subseteq Range(Removed(u, t).current)
           /\ Removed(u, t).dropped = u.dropped
  <1>1. u \in Queue /\ Sorted(u) /\ Distinct(u.current) /\ Range(u.current) \cap u.future = {}
    BY DEF Good, Sorted, Counted
  <1>2. u.current \in Seq(Txs) /\ u.known \subseteq Txs
    BY <1>1, Fields
  <1>3. CASE t \notin Range(u.current)
    BY <1>3 DEF Removed
  <1>4. CASE t \in Range(u.current)
    <2>1. PICK c : c = Drops(u.current, {t})
      OBVIOUS
    <2>2. c \in Seq(Txs) /\ Range(c) = Range(u.current) \ {t} /\ Distinct(c)
      BY <2>1, <1>1, <1>2, DropsDrops
    <2>3. PICK K \in SUBSET Txs : K = u.known \ {t}
      BY <1>2
    <2>4. PICK w : w = Removed(u, t)
      OBVIOUS
    <2>5. w = [u EXCEPT !.current = c, !.known = K]
      BY <2>1, <2>3, <2>4, <1>4 DEF Removed
    <2>6. OtherCurrent(u, w, c, K)
      BY <2>2, <2>5, <1>1, WithCurrentAndKnown
    <2>7. Range(c) \subseteq Range(u.current)
      BY <2>2
    <2>8. Sorted(w) /\ HeldBy(w) \subseteq HeldBy(u)
      BY <2>2, <2>6, <2>7, <1>1, CurrentLeave
    <2>9. HeldBy(w) \subseteq w.known
      <3>1. w.current = c /\ w.future = u.future /\ w.known = u.known \ {t}
        BY <2>3, <2>6 DEF OtherCurrent
      <3>2. t \notin HeldBy(w)
        BY <3>1, <2>2, <1>1, <1>4 DEF HeldBy
      <3>. QED
        BY <3>1, <3>2, <2>8 DEF Good
    <2>10. Cardinality(HeldBy(w)) <= Limit + FutureLimit
      BY <2>6, <2>8, <1>1, FewerHeld DEF Good, OtherCurrent
    <2>11. /\ w.future = u.future /\ Range(u.current) \ {t} \subseteq Range(w.current)
           /\ w.dropped = u.dropped
      BY <2>2, <2>6 DEF OtherCurrent
    <2>. QED
      BY <2>4, <2>8, <2>9, <2>10, <2>11 DEF Good
  <1>. QED
    BY <1>3, <1>4

\* What u holds and w does not is in M, gave its nonce to one that w holds, or was
\* future when m_future was too long.
Explained(u, w, M) ==
    \A x \in HeldBy(u) \ HeldBy(w) :
       \/ x \in M \/ \E y \in HeldBy(w) : SameSlot(x, y)
       \/ x \in u.future /\ ~(Cardinality(u.future) <= FutureLimit)

\* From u to w transactions of S were imported.
Takes(u, w, S) ==
    /\ w.future \subseteq u.future /\ HeldBy(w) \subseteq HeldBy(u) \cup S
    /\ Full(w) \/ (Explained(u, w, {}) /\ Range(u.current) \subseteq Range(w.current))

\* From u to w transactions of M were dropped.
Leaves(u, w, M) ==
    /\ w.future \subseteq u.future /\ HeldBy(w) \subseteq HeldBy(u)
    /\ Explained(u, w, M) /\ Range(u.current) \ M \subseteq Range(w.current)

\* Losses are explained over two updates if the second drops nothing that the
\* first imported.
LEMMA ExplainedTwice ==
    ASSUME NEW u, NEW v, NEW w, NEW M, NEW N, Sorted(u), Sorted(v), v.future \subseteq u.future,
           Explained(u, v, M), Explained(v, w, N), N \cap HeldBy(v) \subseteq HeldBy(u)
    PROVE  Explained(u, w, M \cup N)
  <1>. SUFFICES ASSUME NEW x \in HeldBy(u) \ HeldBy(w)
                PROVE  \/ x \in M \cup N \/ \E y \in HeldBy(w) : SameSlot(x, y)
                       \/ x \in u.future /\ ~(Cardinality(u.future) <= FutureLimit)
    BY DEF Explained
  <1>1. u \in Queue
    BY DEF Sorted, Counted
  <1>2. Cardinality(u.future) <= FutureLimit => Cardinality(v.future) <= FutureLimit
    BY <1>1, FewerFuture
  <1>3. CASE x \in HeldBy(v)
    BY <1>2, <1>3 DEF Explained
  <1>4. CASE x \notin HeldBy(v) /\ \E y \in HeldBy(v) : SameSlot(x, y)
    <2>1. PICK y \in HeldBy(v) : SameSlot(x, y)
      BY <1>4
    <2>2. y \notin HeldBy(u)
      BY <2>1, <1>4 DEF Sorted
    <2>3. y \notin N /\ y \notin v.future
      BY <2>2 DEF HeldBy
    <2>4. CASE y \in HeldBy(w)
      BY <2>1, <2>4
    <2>5. CASE y \notin HeldBy(w)
      <3>1. PICK z \in HeldBy(w) : SameSlot(y, z)
        BY <2>3, <2>5 DEF Explained
      <3>2. SameSlot(x, z)
        BY <3>1, <2>1 DEF SameSlot
      <3>. QED
        BY <3>2
    <2>. QED
      BY <2>4, <2>5
  <1>5. CASE x \notin HeldBy(v) /\ ~\E y \in HeldBy(v) : SameSlot(x, y)
    BY <1>5 DEF Explained
  <1>. QED
    BY <1>3, <1>4, <1>5

\* A sequence without repetitions has as many members as places.
LEMMA DistinctLength ==
    ASSUME NEW s \in Seq(Txs), Distinct(s)
    PROVE  Cardinality(Range(s)) = Len(s)
  <1>1. Len(s) \in Nat /\ DOMAIN s = 1..Len(s)
    BY SMTT(60)
  <1>2. s = [i \in 1..Len(s) |-> s[i]]
    BY SMTT(60)
  <1>3. s \in [1..Len(s) -> Range(s)] /\ \A x \in Range(s) : \E i \in 1..Len(s) : s[i] = x
    BY <1>1, <1>2 DEF Range
  <1>4. s \in Bijection(1..Len(s), Range(s))
    BY <1>1, <1>3 DEF Distinct, Bijection, Injection, Surjection, IsInjective
  <1>5. IsFiniteSet(1..Len(s)) /\ Cardinality(1..Len(s)) = Len(s)
    BY <1>1, FS_Interval, SMTT(60)
  <1>. QED
    BY <1>4, <1>5, FS_Bijection DEF ExistsBijection

\* A queue with all that a full one has is full.
LEMMA StaysFull ==
    ASSUME NEW v, NEW w, Sorted(v), Sorted(w), Full(v), Range(v.current) \subseteq Range(w.current)
    PROVE  Full(w)
  <1>1. v \in Queue /\ w \in Queue /\ Distinct(v.current) /\ Distinct(w.current)
    BY DEF Sorted, Counted
  <1>2. v.current \in Seq(Txs) /\ w.current \in Seq(Txs) /\ Range(w.current) \subseteq Txs
    BY <1>1, Fields
  <1>3. /\ Cardinality(Range(v.current)) = Len(v.current)
        /\ Cardinality(Range(w.current)) = Len(w.current)
    BY <1>1, <1>2, DistinctLength
  <1>4. IsFiniteSet(Range(w.current))
    BY <1>2, FiniteTxs
  <1>5. Cardinality(Range(v.current)) <= Cardinality(Range(w.current))
    BY <1>4, FS_Subset
  <1>6. Len(v.current) \in Nat /\ Len(w.current) \in Nat /\ Limit \in Nat
    BY <1>2, LimitsAssumption, SMTT(60)
  <1>7. Len(v.current) <= Len(w.current)
    BY <1>3, <1>5
  <1>. QED
    BY <1>6, <1>7, SMTT(60) DEF Full

\* One import and then others.
LEMMA TakesTwice ==
    ASSUME NEW u, NEW v, NEW w, NEW S, Sorted(u), Sorted(v), Sorted(w), Takes(u, v, S), Takes(v, w, S)
    PROVE  Takes(u, w, S)
  <1>1. w.future \subseteq u.future /\ HeldBy(w) \subseteq HeldBy(u) \cup S
    BY DEF Takes
  <1>2. CASE Full(w)
    BY <1>1, <1>2 DEF Takes
  <1>3. CASE ~Full(w)
    <2>1. Explained(v, w, {}) /\ Range(v.current) \subseteq Range(w.current)
      BY <1>3 DEF Takes
    <2>2. ~Full(v)
      BY <2>1, <1>3, StaysFull
    <2>3. Explained(u, v, {}) /\ Range(u.current) \subseteq Range(v.current) /\ v.future \subseteq u.future
      BY <2>2 DEF Takes
    <2>4. Explained(u, w, {} \cup {})
      BY <2>1, <2>3, ExplainedTwice
    <2>5. {} \cup {} = {}
      OBVIOUS
    <2>. QED
      BY <2>1, <2>3, <2>4, <2>5, <1>1 DEF Takes
  <1>. QED
    BY <1>2, <1>3

\* Of more transactions, the same can be said.
LEMMA TakesMore ==
    ASSUME NEW u, NEW w, NEW S, NEW T, S \subseteq T, Takes(u, w, S)
    PROVE  Takes(u, w, T)
  BY DEF Takes

\* Of more transactions, the same can be said.
LEMMA LeavesMore ==
    ASSUME NEW u, NEW w, NEW M, NEW N, M \subseteq N, Leaves(u, w, M)
    PROVE  Leaves(u, w, N)
  BY DEF Leaves, Explained

\* One drop and then others.
LEMMA LeavesTwice ==
    ASSUME NEW u, NEW v, NEW w, NEW M, Sorted(u), Sorted(v), Leaves(u, v, M), Leaves(v, w, M)
    PROVE  Leaves(u, w, M)
  <1>1. v.future \subseteq u.future /\ HeldBy(v) \subseteq HeldBy(u) /\ Explained(u, v, M) /\ Explained(v, w, M)
    BY DEF Leaves
  <1>2. M \cap HeldBy(v) \subseteq HeldBy(u) /\ M \cup M = M
    BY <1>1
  <1>3. Explained(u, w, M \cup M)
    BY <1>1, <1>2, ExplainedTwice
  <1>. QED
    BY <1>1, <1>2, <1>3 DEF Leaves

\* manageImport of a transaction whose nonce is not current: the future
\* transaction with its nonce, if any, makes room and is counted off.
LEMMA ManageImportGood ==
    ASSUME NEW u, Good(u), NEW t \in Txs, \A c \in Range(u.current) : ~SameSlot(c, t),
           NEW w \in ManageImport(u, t)
    PROVE  Good(w) /\ Takes(u, w, {t})
  <1>1. u \in Queue /\ Sorted(u) /\ u.futureSize = Cardinality(u.future) /\ HeldBy(u) \subseteq u.known
    BY DEF Good, Sorted, Counted
  <1>2. u.future \in SUBSET Txs /\ u.futureSize \in Nat
    BY <1>1, Fields
  <1>3. PICK same \in SUBSET u.future : same = {f \in u.future : SameSlot(f, t)}
    OBVIOUS
  <1>4. PICK F \in SUBSET Txs : F = u.future \ same
    BY <1>2
  <1>5. Cardinality(F) \in Nat /\ Cardinality(F) = u.futureSize - Cardinality(same)
    <2>1. IsFiniteSet(u.future) /\ Cardinality(F) \in Nat
      BY <1>2, FiniteTxs
    <2>2. u.future \cap same = same
      OBVIOUS
    <2>3. Cardinality(u.future \ same) = Cardinality(u.future) - Cardinality(u.future \cap same)
      BY <2>1, FS_Difference
    <2>. QED
      BY <2>1, <2>2, <2>3, <1>1, <1>4
  <1>6. PICK n \in Nat : n = u.futureSize - Cardinality(same)
    BY <1>5
  <1>7. PICK y : y = [u EXCEPT !.future = F, !.futureSize = n]
    OBVIOUS
  <1>8. OtherFuture(u, y, F, n)
    BY <1>1, <1>7, WithFuture
  <1>9. PICK rest : rest = [y EXCEPT !.flag = TRUE]
    OBVIOUS
  <1>10. OtherFlag(y, rest)
    BY <1>8, <1>9, WithFlag DEF OtherFuture
  <1>11. /\ rest \in Queue /\ rest.current = u.current /\ rest.future = F
         /\ rest.futureSize = n /\ rest.known = u.known
    BY <1>8, <1>10 DEF OtherFuture, OtherFlag
  <1>12. HeldBy(rest) \subseteq HeldBy(u) /\ Range(rest.current) \cap rest.future = {}
    BY <1>1, <1>4, <1>11 DEF HeldBy, Sorted
  <1>13. rest \in Counted
    BY <1>5, <1>6, <1>11 DEF Counted
  <1>14. Sorted(rest)
    BY <1>1, <1>11, <1>12, <1>13 DEF Sorted
  <1>15. \A x \in HeldBy(rest) : ~SameSlot(x, t)
    BY <1>3, <1>4, <1>11 DEF HeldBy
  <1>16. PICK v \in InsertCurrent(rest, t) : w = TrimCurrent(v)
    BY <1>3, <1>4, <1>6, <1>7, <1>9 DEF ManageImport
  <1>17. /\ Sorted(v) /\ HeldBy(v) \subseteq HeldBy(rest) \cup {t}
         /\ v.known = rest.known \cup {t} /\ Cardinality(v.future) <= FutureLimit
         /\ Range(rest.current) \cup {t} \subseteq Range(v.current) /\ v.future \subseteq rest.future
         /\ Cardinality(rest.future) <= FutureLimit => HeldBy(rest) \subseteq HeldBy(v)
    BY <1>14, <1>15, InsertCurrentInserts
  <1>18. HeldBy(v) \subseteq v.known
    BY <1>1, <1>11, <1>12, <1>17
  <1>19. /\ Good(w) /\ w.future = v.future /\ HeldBy(w) \subseteq HeldBy(v)
         /\ w = v \/ Full(w)
    BY <1>16, <1>17, <1>18, TrimCurrentTrims
  <1>20. F \subseteq u.future
    BY <1>4
  <1>21. w.future \subseteq u.future /\ HeldBy(w) \subseteq HeldBy(u) \cup {t}
    BY <1>11, <1>12, <1>17, <1>19, <1>20
  <1>22. Explained(u, v, {})
    <2>1. t \in HeldBy(v) /\ Range(u.current) \subseteq HeldBy(v)
      BY <1>11, <1>17 DEF HeldBy
    <2>2. Cardinality(u.future) <= FutureLimit => Cardinality(rest.future) <= FutureLimit
      BY <1>1, <1>11, <1>20, FewerFuture
    <2>3. ASSUME NEW x \in HeldBy(u) \ HeldBy(v)
          PROVE  \/ \E z \in HeldBy(v) : SameSlot(x, z)
                 \/ x \in u.future /\ ~(Cardinality(u.future) <= FutureLimit)
      <3>1. x \in u.future
        BY <2>1 DEF HeldBy
      <3>2. CASE x \in same
        BY <3>2, <2>1, <1>3
      <3>3. CASE x \notin same
        <4>1. x \in HeldBy(rest)
          BY <3>1, <3>3, <1>4, <1>11 DEF HeldBy
        <4>. QED
          BY <4>1, <3>1, <2>2, <1>17
      <3>. QED
        BY <3>2, <3>3
    <2>. QED
      BY <2>3 DEF Explained
  <1>23. Takes(u, w, {t})
    BY <1>11, <1>17, <1>19, <1>21, <1>22 DEF Takes
  <1>. QED
    BY <1>19, <1>23

\* import, refused or not.
LEMMA ImportGood ==
    ASSUME NEW u, Good(u), NEW t \in Txs, NEW retry, NEW w \in Import(u, t, retry)
    PROVE  Good(w) /\ Takes(u, w, {t})
  <1>1. CASE Imported(u, t, retry)
    <2>1. w \in ManageImport(u, t)
      BY <1>1 DEF Import
    <2>2. \A c \in Range(u.current) : ~SameSlot(c, t)
      BY <1>1 DEF Imported, Refused
    <2>. QED
      BY <2>1, <2>2, ManageImportGood
  <1>2. CASE ~Imported(u, t, retry)
    <2>1. w = u
      BY <1>2 DEF Import
    <2>. QED
      BY <2>1 DEF Takes, Explained
  <1>. QED
    BY <1>1, <1>2

\* The good queues.
GoodQueues == {u \in Queue : Good(u)}

\* A good queue is one of them.
LEMMA GoodIsQueue ==
    ASSUME NEW u, Good(u)
    PROVE  u \in GoodQueues
  BY DEF Good, Sorted, Counted, GoodQueues

\* The loop of ImportAll.
ImportLoop(imported, S, seq) ==
    imported = [n \in 0..Len(seq) |->
                   IF n = 0 THEN S ELSE UNION {Import(u, seq[n], TRUE) : u \in imported[n - 1]}]

\* What one import after another leaves of good queues are good queues.
LEMMA ImportAllGood ==
    ASSUME NEW S \in SUBSET GoodQueues, NEW seq \in Seq(Txs)
    PROVE  /\ ImportAll(S, seq) \in SUBSET GoodQueues
           /\ \A w \in ImportAll(S, seq) : \E u \in S : Takes(u, w, Range(seq))
  <1>. DEFINE n == Len(seq)
              g == [k \in 1..n |-> [v \in GoodQueues |-> Import(v, seq[k], TRUE)]]
  <1>1. n \in Nat
    BY SMTT(60)
  <1>2. ASSUME NEW k \in 1..n, NEW v \in GoodQueues PROVE Import(v, seq[k], TRUE) \in SUBSET GoodQueues
    <2>1. seq[k] \in Txs
      BY SMTT(60)
    <2>2. Good(v)
      BY DEF GoodQueues
    <2>. QED
      BY <2>1, <2>2, ImportGood, GoodIsQueue
  <1>3. g \in [1..n -> [GoodQueues -> SUBSET GoodQueues]]
    BY <1>2
  <1>4. \A k \in 1..n, v \in GoodQueues : g[k][v] = Import(v, seq[k], TRUE)
    OBVIOUS
  <1>. HIDE DEF g
  <1>5. PICK f \in [0..n -> SUBSET GoodQueues] : Spread(f, S, n, g)
    BY <1>1, <1>3, SpreadExists
  <1>6. ASSUME NEW k \in 0..n, k # 0 PROVE k \in 1..n /\ f[k - 1] \in SUBSET GoodQueues
    BY <1>6, SMTT(60)
  <1>7. ASSUME NEW k \in 0..n, k # 0
        PROVE  UNION {g[k][v] : v \in f[k - 1]} = UNION {Import(v, seq[k], TRUE) : v \in f[k - 1]}
    <2>1. \A v \in f[k - 1] : g[k][v] = Import(v, seq[k], TRUE)
      BY <1>7, <1>6, <1>4
    <2>. QED
      BY <2>1
  <1>8. ImportLoop(f, S, seq)
    BY <1>5, <1>7 DEF Spread, ImportLoop
  <1>9. PICK imported : imported = CHOOSE p : ImportLoop(p, S, seq)
    OBVIOUS
  <1>10. ImportLoop(imported, S, seq)
    BY <1>8, <1>9
  <1>11. ImportAll(S, seq) = imported[n]
    BY <1>9 DEF ImportAll, ImportLoop
  <1>. DEFINE P == {k \in 0..n : /\ imported[k] \in SUBSET GoodQueues
                                 /\ \A w \in imported[k] : \E u \in S : Takes(u, w, Range(seq))}
  <1>12. 0 \in P
    <2>1. 0 \in 0..n
      BY <1>1, SMTT(60)
    <2>2. imported[0] = S
      BY <2>1, <1>10 DEF ImportLoop
    <2>3. \A u \in S : Takes(u, u, Range(seq))
      BY DEF Takes, Explained
    <2>. QED
      BY <2>1, <2>2, <2>3
  <1>13. ASSUME NEW k \in 0..n, k + 1 \in 0..n, k \in P PROVE k + 1 \in P
    <2>1. k + 1 # 0 /\ (k + 1) - 1 = k /\ k + 1 \in 1..n
      BY <1>1, <1>13, SMTT(60)
    <2>2. imported[k + 1] = UNION {Import(v, seq[k + 1], TRUE) : v \in imported[k]}
      BY <2>1, <1>10, <1>13 DEF ImportLoop
    <2>3. \A v \in imported[k] : Import(v, seq[k + 1], TRUE) \in SUBSET GoodQueues
      BY <2>1, <1>2, <1>13
    <2>4. PICK e \in Txs : e = seq[k + 1]
      <3>1. seq[k + 1] \in Txs
        BY <2>1, SMTT(60)
      <3>. QED
        BY <3>1
    <2>5. {e} \subseteq Range(seq)
      <3>1. k + 1 \in DOMAIN seq
        BY <2>1, SMTT(60)
      <3>. QED
        BY <3>1, <2>4 DEF Range
    <2>6. ASSUME NEW w \in imported[k + 1] PROVE \E u \in S : Takes(u, w, Range(seq))
      <3>1. PICK v \in imported[k] : w \in Import(v, e, TRUE)
        BY <2>2, <2>4
      <3>2. PICK u \in S : Takes(u, v, Range(seq))
        BY <1>13
      <3>3. Good(v) /\ Good(u)
        BY <1>13 DEF GoodQueues
      <3>4. Good(w) /\ Takes(v, w, {e})
        BY <3>1, <3>3, ImportGood
      <3>5. Takes(v, w, Range(seq))
        BY <3>4, <2>5, TakesMore
      <3>6. Takes(u, w, Range(seq))
        BY <3>2, <3>3, <3>4, <3>5, TakesTwice DEF Good
      <3>. QED
        BY <3>6
    <2>. QED
      BY <2>2, <2>3, <2>6, <1>13
  <1>. HIDE DEF P
  <1>14. \A k \in 0..n : k \in P
    BY <1>1, <1>12, <1>13, UpTo
  <1>15. n \in 0..n
    BY <1>1, SMTT(60)
  <1>. QED
    BY <1>11, <1>14, <1>15 DEF P

-----------------------------------------------------------------------------
(* What the client does to a transaction.                                  *)

\* The flag does not matter.
LEMMA FlagGood ==
    ASSUME NEW u, Good(u), NEW b \in BOOLEAN, NEW v, v = [u EXCEPT !.flag = b]
    PROVE  Good(v)
  <1>1. u \in Queue
    BY DEF Good, Sorted, Counted
  <1>2. OtherFlag(u, v)
    BY <1>1, WithFlag
  <1>3. HeldBy(v) = HeldBy(u)
    BY <1>2 DEF OtherFlag, HeldBy
  <1>. QED
    BY <1>2, <1>3 DEF OtherFlag, Good, Sorted, Counted

\* drop, which remembers the transaction as dropped.
LEMMA DropGoodQueue ==
    ASSUME NEW u, Good(u), NEW t \in Txs
    PROVE  /\ Good(Drop(u, t))
           /\ \A x \in HeldBy(u) \ HeldBy(Drop(u, t)) : x \in Drop(u, t).dropped
  <1>1. CASE t \notin u.known
    BY <1>1 DEF Drop
  <1>2. CASE t \in u.known
    <2>1. u \in Queue
      BY DEF Good, Sorted, Counted
    <2>2. PICK D \in SUBSET Txs : D = u.dropped \cup {t}
      BY <2>1, Fields
    <2>3. PICK v : v = [u EXCEPT !.dropped = D]
      OBVIOUS
    <2>4. /\ v \in Queue /\ v.current = u.current /\ v.future = u.future
          /\ v.futureSize = u.futureSize /\ v.known = u.known
      BY <2>1, <2>3, SMTT(60) DEF Queue
    <2>5. HeldBy(v) = HeldBy(u)
      BY <2>4 DEF HeldBy
    <2>6. Good(v)
      BY <2>4, <2>5 DEF Good, Sorted, Counted
    <2>7. Drop(u, t) = Removed(v, t)
      BY <1>2, <2>2, <2>3 DEF Drop
    <2>8. /\ Good(Removed(v, t)) /\ Removed(v, t).future = v.future
          /\ Range(v.current) \ {t} \subseteq Range(Removed(v, t).current)
          /\ Removed(v, t).dropped = v.dropped
      BY <2>6, RemovedGood
    <2>9. t \in v.dropped
      BY <2>1, <2>2, <2>3, SMTT(60) DEF Queue
    <2>10. HeldBy(u) \ HeldBy(Removed(v, t)) \subseteq {t}
      BY <2>5, <2>8 DEF HeldBy
    <2>. QED
      BY <2>7, <2>8, <2>9, <2>10
  <1>. QED
    BY <1>1, <1>2

\* dropGood: the followers of a mined transaction become current and it leaves.
LEMMA DropGoodGood ==
    ASSUME NEW u, Good(u), NEW t \in Txs, NEW w \in DropGood(u, t)
    PROVE  Good(w) /\ Leaves(u, w, {t})
  <1>1. PICK v \in MakeCurrent(u, t) : w = Removed(v, t)
    BY DEF DropGood
  <1>2. u \in Queue /\ Sorted(u)
    BY DEF Good, Sorted, Counted
  <1>3. Keeps(u, v)
    BY <1>2, MakeCurrentKeeps
  <1>4. v \in Queue /\ HeldBy(v) \subseteq HeldBy(u)
    BY <1>3 DEF Keeps, Sorted, Counted
  <1>5. Cardinality(HeldBy(v)) <= Limit + FutureLimit
    BY <1>2, <1>4, FewerHeld DEF Good
  <1>6. Good(v)
    BY <1>3, <1>5 DEF Good, Keeps
  <1>7. /\ Good(w) /\ w.future = v.future /\ HeldBy(w) \subseteq HeldBy(v)
        /\ Range(v.current) \ {t} \subseteq Range(w.current)
    BY <1>1, <1>6, RemovedGood
  <1>8. /\ Range(u.current) \subseteq Range(v.current) /\ v.future \subseteq u.future
        /\ Cardinality(u.future) <= FutureLimit => HeldBy(u) \subseteq HeldBy(v)
    BY <1>3 DEF Keeps
  <1>9. ASSUME NEW x \in HeldBy(u) \ HeldBy(w), x # t
        PROVE  x \in u.future /\ ~(Cardinality(u.future) <= FutureLimit)
    <2>1. x \notin HeldBy(v)
      BY <1>7, <1>9 DEF HeldBy
    <2>2. x \notin Range(u.current)
      BY <2>1, <1>8 DEF HeldBy
    <2>. QED
      BY <2>1, <2>2, <1>8 DEF HeldBy
  <1>10. Explained(u, w, {t})
    BY <1>9 DEF Explained
  <1>11. w.future \subseteq u.future /\ HeldBy(w) \subseteq HeldBy(u)
    BY <1>4, <1>7, <1>8
  <1>12. Range(u.current) \ {t} \subseteq Range(w.current)
    BY <1>7, <1>8
  <1>. QED
    BY <1>7, <1>10, <1>11, <1>12 DEF Leaves

\* setFuture: what it moves was not future before, so the count stays exact.
LEMMA SetFutureGood ==
    ASSUME NEW u, Good(u), NEW t \in Txs
    PROVE  Good(SetFuture(u, t)) /\ HeldBy(SetFuture(u, t)) = HeldBy(u)
  <1>1. /\ u \in Queue /\ Sorted(u) /\ u.futureSize = Cardinality(u.future)
        /\ Distinct(u.current) /\ Range(u.current) \cap u.future = {}
    BY DEF Good, Sorted, Counted
  <1>2. /\ u.current \in Seq(Txs) /\ u.future \subseteq Txs /\ Range(u.current) \subseteq Txs
        /\ u.futureSize \in Nat
    BY <1>1, Fields
  <1>3. PICK moved \in SUBSET Range(u.current) :
            moved = IF t \notin Range(u.current) THEN {}
                    ELSE {c \in Range(u.current) : c.from = t.from /\ c.nonce >= t.nonce}
    OBVIOUS
  <1>4. {m \in moved : ~\E f \in u.future : SameSlot(m, f)} = moved
    <2>1. ASSUME NEW m \in moved, NEW f \in u.future PROVE ~SameSlot(m, f)
      <3>1. m \in HeldBy(u) /\ f \in HeldBy(u) /\ m # f
        BY <1>1 DEF HeldBy
      <3>. QED
        BY <3>1, <1>1 DEF Sorted
    <2>. QED
      BY <2>1
  <1>5. PICK F \in SUBSET Txs : F = u.future \cup moved
    BY <1>2
  <1>6. PICK c : c = Drops(u.current, moved)
    OBVIOUS
  <1>7. c \in Seq(Txs) /\ Range(c) = Range(u.current) \ moved /\ Distinct(c)
    BY <1>1, <1>2, <1>6, DropsDrops
  <1>8. Cardinality(F) \in Nat /\ Cardinality(F) = u.futureSize + Cardinality(moved)
    <2>1. /\ IsFiniteSet(u.future) /\ IsFiniteSet(moved) /\ Cardinality(F) \in Nat
          /\ Cardinality(u.future) \in Nat /\ Cardinality(moved) \in Nat
      BY <1>2, FiniteTxs
    <2>2. u.future \cap moved = {}
      BY <1>1
    <2>3. Cardinality(u.future \cup moved)
          = Cardinality(u.future) + Cardinality(moved) - Cardinality(u.future \cap moved)
      BY <2>1, FS_Union
    <2>4. Cardinality(u.future \cap moved) = 0
      BY <2>2, FS_EmptySet
    <2>5. Cardinality(F) = Cardinality(u.future) + Cardinality(moved) - 0
      BY <2>3, <2>4, <1>5
    <2>. QED
      BY <2>1, <2>5, <1>1, SMTT(60)
  <1>9. PICK n \in Nat : n = u.futureSize + Cardinality(moved)
    BY <1>8
  <1>10. PICK w : w = SetFuture(u, t)
    OBVIOUS
  <1>11. w = [u EXCEPT !.current = c, !.future = F, !.futureSize = n]
    BY <1>3, <1>4, <1>5, <1>6, <1>9, <1>10 DEF SetFuture
  <1>12. PICK x : x = [u EXCEPT !.current = c]
    OBVIOUS
  <1>13. x \in Queue /\ SameButCurrent(u, x) /\ x.current = c
    BY <1>1, <1>7, <1>12, WithCurrent
  <1>14. w = [x EXCEPT !.future = F, !.futureSize = n]
    BY <1>11, <1>12
  <1>15. OtherFuture(x, w, F, n)
    BY <1>13, <1>14, WithFuture
  <1>16. w \in Queue /\ w.current = c /\ w.future = F /\ w.futureSize = n /\ w.known = u.known
    BY <1>13, <1>15 DEF OtherFuture, SameButCurrent
  <1>17. HeldBy(w) = HeldBy(u) /\ Range(w.current) \cap w.future = {}
    BY <1>1, <1>5, <1>7, <1>16 DEF HeldBy
  <1>18. w \in Counted
    BY <1>8, <1>9, <1>16 DEF Counted
  <1>19. Sorted(w)
    BY <1>1, <1>7, <1>16, <1>17, <1>18 DEF Sorted
  <1>. QED
    BY <1>10, <1>16, <1>17, <1>19 DEF Good

\* The loop of DropAllGood.
DropLoop(left, S, seq) ==
    left = [n \in 0..Len(seq) |->
               IF n = 0 THEN S ELSE UNION {DropGood(u, seq[n]) : u \in left[n - 1]}]

\* What one dropGood after another leaves of good queues are good queues.
LEMMA DropAllGoodGood ==
    ASSUME NEW S \in SUBSET GoodQueues, NEW seq \in Seq(Txs)
    PROVE  /\ DropAllGood(S, seq) \in SUBSET GoodQueues
           /\ \A w \in DropAllGood(S, seq) : \E u \in S : Leaves(u, w, Range(seq))
  <1>. DEFINE n == Len(seq)
              g == [k \in 1..n |-> [v \in GoodQueues |-> DropGood(v, seq[k])]]
  <1>1. n \in Nat
    BY SMTT(60)
  <1>2. ASSUME NEW k \in 1..n, NEW v \in GoodQueues PROVE DropGood(v, seq[k]) \in SUBSET GoodQueues
    <2>1. seq[k] \in Txs
      BY SMTT(60)
    <2>2. Good(v)
      BY DEF GoodQueues
    <2>. QED
      BY <2>1, <2>2, DropGoodGood, GoodIsQueue
  <1>3. g \in [1..n -> [GoodQueues -> SUBSET GoodQueues]]
    BY <1>2
  <1>4. \A k \in 1..n, v \in GoodQueues : g[k][v] = DropGood(v, seq[k])
    OBVIOUS
  <1>. HIDE DEF g
  <1>5. PICK f \in [0..n -> SUBSET GoodQueues] : Spread(f, S, n, g)
    BY <1>1, <1>3, SpreadExists
  <1>6. ASSUME NEW k \in 0..n, k # 0 PROVE k \in 1..n /\ f[k - 1] \in SUBSET GoodQueues
    BY <1>6, SMTT(60)
  <1>7. ASSUME NEW k \in 0..n, k # 0
        PROVE  UNION {g[k][v] : v \in f[k - 1]} = UNION {DropGood(v, seq[k]) : v \in f[k - 1]}
    <2>1. \A v \in f[k - 1] : g[k][v] = DropGood(v, seq[k])
      BY <1>7, <1>6, <1>4
    <2>. QED
      BY <2>1
  <1>8. DropLoop(f, S, seq)
    BY <1>5, <1>7 DEF Spread, DropLoop
  <1>9. PICK left : left = CHOOSE p : DropLoop(p, S, seq)
    OBVIOUS
  <1>10. DropLoop(left, S, seq)
    BY <1>8, <1>9
  <1>11. DropAllGood(S, seq) = left[n]
    BY <1>9 DEF DropAllGood, DropLoop
  <1>. DEFINE P == {k \in 0..n : /\ left[k] \in SUBSET GoodQueues
                                 /\ \A w \in left[k] : \E u \in S : Leaves(u, w, Range(seq))}
  <1>12. 0 \in P
    <2>1. 0 \in 0..n
      BY <1>1, SMTT(60)
    <2>2. left[0] = S
      BY <2>1, <1>10 DEF DropLoop
    <2>3. \A u \in S : Leaves(u, u, Range(seq))
      BY DEF Leaves, Explained
    <2>. QED
      BY <2>1, <2>2, <2>3
  <1>13. ASSUME NEW k \in 0..n, k + 1 \in 0..n, k \in P PROVE k + 1 \in P
    <2>1. k + 1 # 0 /\ (k + 1) - 1 = k /\ k + 1 \in 1..n
      BY <1>1, <1>13, SMTT(60)
    <2>2. left[k + 1] = UNION {DropGood(v, seq[k + 1]) : v \in left[k]}
      BY <2>1, <1>10, <1>13 DEF DropLoop
    <2>3. \A v \in left[k] : DropGood(v, seq[k + 1]) \in SUBSET GoodQueues
      BY <2>1, <1>2, <1>13
    <2>4. PICK e \in Txs : e = seq[k + 1]
      <3>1. seq[k + 1] \in Txs
        BY <2>1, SMTT(60)
      <3>. QED
        BY <3>1
    <2>5. {e} \subseteq Range(seq)
      <3>1. k + 1 \in DOMAIN seq
        BY <2>1, SMTT(60)
      <3>. QED
        BY <3>1, <2>4 DEF Range
    <2>6. ASSUME NEW w \in left[k + 1] PROVE \E u \in S : Leaves(u, w, Range(seq))
      <3>1. PICK v \in left[k] : w \in DropGood(v, e)
        BY <2>2, <2>4
      <3>2. PICK u \in S : Leaves(u, v, Range(seq))
        BY <1>13
      <3>3. Good(v) /\ Good(u)
        BY <1>13 DEF GoodQueues
      <3>4. Good(w) /\ Leaves(v, w, {e})
        BY <3>1, <3>3, DropGoodGood
      <3>5. Leaves(v, w, Range(seq))
        BY <3>4, <2>5, LeavesMore
      <3>6. Leaves(u, w, Range(seq))
        BY <3>2, <3>3, <3>4, <3>5, LeavesTwice DEF Good
      <3>. QED
        BY <3>6
    <2>. QED
      BY <2>2, <2>3, <2>6, <1>13
  <1>. HIDE DEF P
  <1>14. \A k \in 0..n : k \in P
    BY <1>1, <1>12, <1>13, UpTo
  <1>15. n \in 0..n
    BY <1>1, SMTT(60)
  <1>. QED
    BY <1>11, <1>14, <1>15 DEF P

\* resyncStateFromChain leaves good queues, to which it imports.
LEMMA ResyncGood ==
    ASSUME NEW S \in SUBSET GoodQueues, NEW own, post \in Seq(Txs), NEW w \in Resync(S, own)
    PROVE  Good(w) /\ \E u \in S : Takes(u, w, Range(post))
  <1>1. PICK v \in IF own THEN S ELSE ImportAll(S, post) : w = Raised(v)
    BY DEF Resync
  <1>2. v \in GoodQueues /\ \E u \in S : Takes(u, v, Range(post))
    <2>1. CASE own
      BY <2>1, <1>1 DEF Takes, Explained
    <2>2. CASE ~own
      BY <2>2, <1>1, ImportAllGood
    <2>. QED
      BY <2>1, <2>2
  <1>3. Good(w) /\ OtherFlag(v, w)
    BY <1>1, <1>2, FlagGood, WithFlag DEF GoodQueues, Raised
  <1>4. HeldBy(w) = HeldBy(v) /\ w.current = v.current /\ w.future = v.future
    BY <1>3 DEF OtherFlag, HeldBy
  <1>. QED
    BY <1>2, <1>3, <1>4 DEF Takes, Explained, Full

-----------------------------------------------------------------------------
(* The steps.                                                              *)

\* The inductive invariant.
IInv == Good(q) /\ TypeOK /\ BlockBounded

\* The queue starts empty.
LEMMA EmptyGood ==
    ASSUME NEW u, u \in Queue, u.current = <<>>, u.future = {}, u.futureSize = 0
    PROVE  Good(u)
  <1>1. DOMAIN <<>> = {}
    BY SMTT(60)
  <1>2. Range(u.current) = {} /\ Distinct(u.current)
    BY <1>1 DEF Range, Distinct
  <1>3. HeldBy(u) = {} /\ Cardinality({}) = 0
    BY <1>2, FS_EmptySet DEF HeldBy
  <1>4. 0 <= Limit + FutureLimit
    BY LimitsAssumption, SMTT(60)
  <1>. QED
    BY <1>2, <1>3, <1>4 DEF Good, Sorted, Counted

\* The invariant holds at first.
LEMMA InitIInv == Init => IInv
  <1>. SUFFICES ASSUME Init PROVE IInv
    OBVIOUS
  <1>1. q \in Queue /\ q.current = <<>> /\ q.future = {} /\ q.futureSize = 0
    <2>1. q = EmptyQueue
      BY DEF Init
    <2>2. <<>> \in Seq(Txs) /\ 0 \in Nat
      BY SMTT(60)
    <2>. QED
      BY <2>1, <2>2 DEF EmptyQueue, Queue
  <1>2. Good(q)
    BY <1>1, EmptyGood
  <1>3. <<>> \in Seq(Txs) /\ 0 \in 0..MaxSwitches /\ Len(<<>>) + Len(<<>>) <= BlockLimit
    BY LimitsAssumption, SMTT(60)
  <1>. QED
    BY <1>1, <1>2, <1>3 DEF Init, IInv, TypeOK, BlockBounded

\* A transaction arrives.
LEMMA ImportStep ==
    ASSUME IInv, NEW t \in Txs, ImportTransaction(t)
    PROVE  IInv'
  <1>1. \A c \in Range(q.current) : ~SameSlot(c, t)
    BY DEF ImportTransaction, Imported, Refused
  <1>2. Good(q')
    BY <1>1, ManageImportGood DEF ImportTransaction, IInv
  <1>3. q' \in Queue
    BY <1>2 DEF Good, Sorted, Counted
  <1>. QED
    BY <1>2, <1>3 DEF ImportTransaction, IInv, TypeOK, BlockBounded, chainVars, clientVars, Good, HeldBy

\* The user clears the queue.
LEMMA ClearStep ==
    ASSUME IInv, ClearPending
    PROVE  IInv'
  <1>1. q \in Queue
    BY DEF IInv, TypeOK
  <1>2. PICK D \in SUBSET Txs, b \in BOOLEAN : D = q.dropped /\ b = q.flag
    BY <1>1, Fields
  <1>3. q' = [EmptyQueue EXCEPT !.dropped = D, !.flag = b]
    BY <1>2 DEF ClearPending
  <1>4. <<>> \in Seq(Txs) /\ 0 \in Nat
    BY SMTT(60)
  <1>5. q' = [current |-> <<>>, future |-> {}, futureSize |-> 0,
              known |-> {}, dropped |-> D, flag |-> b]
    BY <1>3 DEF EmptyQueue
  <1>6. q' \in Queue /\ q'.current = <<>> /\ q'.future = {} /\ q'.futureSize = 0
    BY <1>4, <1>5 DEF Queue
  <1>7. Good(q')
    BY <1>6, EmptyGood
  <1>. QED
    BY <1>4, <1>6, <1>7 DEF ClearPending, IInv, TypeOK, BlockBounded, chainVars, Good, HeldBy

\* The invariant from its parts, one step later.
LEMMA IInvNext ==
    ASSUME Good(q'), mined' \in Seq(Txs), pending' \in Seq(Txs), post' \in Seq(Txs), ts' \in Seq(Txs),
           pc' \in {"idle", "execute"}, failed' \in BOOLEAN, full' \in BOOLEAN, receipts' \in BOOLEAN,
           sealed' \in BOOLEAN, stale' \in BOOLEAN, switches' \in 0..MaxSwitches,
           Len(pending') + Len(ts') <= BlockLimit
    PROVE  IInv'
  <1>1. q' \in Queue
    BY DEF Good, Sorted, Counted
  <1>. QED
    BY <1>1 DEF IInv, TypeOK, BlockBounded, Good, HeldBy

\* The invariant, taken apart.
Parts ==
    /\ Good(q) /\ q \in Queue /\ mined \in Seq(Txs) /\ pending \in Seq(Txs) /\ post \in Seq(Txs)
    /\ ts \in Seq(Txs) /\ pc \in {"idle", "execute"}
    /\ failed \in BOOLEAN /\ full \in BOOLEAN /\ receipts \in BOOLEAN
    /\ sealed \in BOOLEAN /\ stale \in BOOLEAN
    /\ switches \in 0..MaxSwitches
    /\ Len(pending) + Len(ts) <= BlockLimit

\* It has these parts.
LEMMA IInvParts == IInv => Parts
  BY DEF IInv, TypeOK, BlockBounded, Parts

\* The first k members of a sequence, or all.
LEMMA FirstOnes ==
    ASSUME NEW s \in Seq(Txs), NEW k \in Nat, NEW r, r = SubSeq(s, 1, IF k < Len(s) THEN k ELSE Len(s))
    PROVE  r \in Seq(Txs) /\ Len(r) <= k
  <1>1. CASE k < Len(s)
    BY <1>1, SMTT(60)
  <1>2. CASE ~(k < Len(s))
    BY <1>2, SMTT(60)
  <1>. QED
    BY <1>1, <1>2

\* syncTransactionQueue asks for what fits into m_working.
LEMMA StartSyncStep ==
    ASSUME IInv, StartSync
    PROVE  IInv'
  <1>1. Parts
    BY IInvParts
  <1>2. PICK lowered : lowered = [q EXCEPT !.flag = FALSE]
    OBVIOUS
  <1>3. Good(lowered)
    BY <1>1, <1>2, FlagGood DEF Parts
  <1>4. {lowered} \in SUBSET GoodQueues
    BY <1>3, GoodIsQueue
  <1>5. Good(q')
    <2>1. q' \in IF stale THEN Resync({lowered}, FALSE) ELSE {lowered}
      BY <1>2 DEF StartSync
    <2>2. CASE stale
      BY <2>1, <2>2, <1>1, <1>4, ResyncGood DEF Parts
    <2>3. CASE ~stale
      BY <2>1, <2>3, <1>3
    <2>. QED
      BY <2>2, <2>3
  <1>6. <<>> \in Seq(Txs) /\ Len(<<>>) = 0
    BY SMTT(60)
  <1>7. pending' \in Seq(Txs) /\ post' \in Seq(Txs) /\ BlockLimit \in Nat /\ Len(pending') <= BlockLimit
    <2>1. BlockLimit \in Nat /\ Len(<<>>) <= BlockLimit
      BY LimitsAssumption, <1>6, SMTT(60)
    <2>2. Len(pending) <= BlockLimit
      BY <1>1, <2>1, SMTT(60) DEF Parts
    <2>3. CASE stale
      BY <2>1, <2>3, <1>6 DEF StartSync
    <2>4. CASE ~stale
      BY <2>1, <2>2, <2>4, <1>1 DEF StartSync, Parts
    <2>. QED
      BY <2>3, <2>4
  <1>8. PICK n \in Nat : n = BlockLimit - Len(pending')
    <2>1. BlockLimit - Len(pending') \in Nat
      BY <1>7, SMTT(60)
    <2>. QED
      BY <2>1
  <1>9. PICK fresh : fresh = Drops(q'.current, Range(pending'))
    OBVIOUS
  <1>10. fresh \in Seq(Txs)
    <2>1. q'.current \in Seq(Txs)
      BY <1>5, Fields DEF Good, Sorted, Counted
    <2>. QED
      BY <2>1, <1>9, DropsDrops
  <1>11. /\ ts' = SubSeq(fresh, 1, IF n < Len(fresh) THEN n ELSE Len(fresh))
         /\ full' = (Len(ts') = n)
    BY <1>8, <1>9 DEF StartSync
  <1>12. ts' \in Seq(Txs) /\ Len(ts') <= n
    BY <1>10, <1>11, FirstOnes
  <1>13. Len(pending') + Len(ts') <= BlockLimit
    BY <1>7, <1>8, <1>12, SMTT(60)
  <1>14. full' \in BOOLEAN
    BY <1>11
  <1>15. /\ mined' = mined /\ switches' = switches /\ sealed' = sealed
         /\ pc' = "execute" /\ stale' = FALSE /\ failed' = FALSE /\ receipts' = FALSE
    BY DEF StartSync, chainVars
  <1>. QED
    BY <1>1, <1>5, <1>7, <1>12, <1>13, <1>14, <1>15, IInvNext DEF Parts

\* One transaction is executed, dropped, set back or left.
LEMMA ExecuteStep ==
    ASSUME IInv, Execute
    PROVE  IInv'
  <1>1. Parts
    BY IInvParts
  <1>2. ts # <<>> /\ ts' = Tail(ts)
    BY DEF Execute
  <1>3. ts \in Seq(Txs) /\ pending \in Seq(Txs) /\ Len(pending) + Len(ts) <= BlockLimit /\ BlockLimit \in Nat
    BY <1>1, LimitsAssumption DEF Parts
  <1>4. Head(ts) \in Txs /\ ts' \in Seq(Txs) /\ Len(ts') = Len(ts) - 1
        /\ Len(ts) \in Nat /\ Len(pending) \in Nat
    BY <1>2, <1>3, SMTT(60)
  <1>5. PICK t \in Txs : t = Head(ts)
    BY <1>4
  <1>6. \/ pending' = Append(pending, t) /\ receipts' = TRUE /\ UNCHANGED <<q, failed>>
        \/ q' = Drop(q, t) /\ failed' = TRUE /\ UNCHANGED <<pending, receipts>>
        \/ q' = SetFuture(q, t) /\ failed' = TRUE /\ UNCHANGED <<pending, receipts>>
        \/ failed' = TRUE /\ UNCHANGED <<q, pending, receipts>>
    BY <1>5 DEF Execute
  <1>7. Good(q')
    BY <1>1, <1>6, DropGoodQueue, SetFutureGood DEF Parts
  <1>8. Append(pending, t) \in Seq(Txs) /\ Len(Append(pending, t)) = Len(pending) + 1
    BY <1>3, SMTT(60)
  <1>9. pending' \in Seq(Txs) /\ (Len(pending') = Len(pending) \/ Len(pending') = Len(pending) + 1)
    BY <1>3, <1>6, <1>8
  <1>10. Len(pending') + Len(ts') <= BlockLimit
    BY <1>3, <1>4, <1>9, SMTT(60)
  <1>11. failed' \in BOOLEAN /\ receipts' \in BOOLEAN
    BY <1>1, <1>6 DEF Parts
  <1>12. /\ mined' = mined /\ switches' = switches /\ post' = post /\ pc' = pc
         /\ full' = full /\ sealed' = sealed /\ stale' = stale
    BY DEF Execute, chainVars
  <1>. QED
    BY <1>1, <1>4, <1>7, <1>9, <1>10, <1>11, <1>12, IInvNext DEF Parts

\* The end of Block::sync.
LEMMA EndSyncStep ==
    ASSUME IInv, EndSync
    PROVE  IInv'
  <1>1. Parts
    BY IInvParts
  <1>2. PICK b \in BOOLEAN : b = (failed \/ full \/ ts # <<>>)
    OBVIOUS
  <1>3. Good(q')
    BY <1>1, <1>2, FlagGood DEF EndSync, Parts
  <1>4. <<>> \in Seq(Txs) /\ Len(pending) + Len(<<>>) <= BlockLimit
    <2>1. pending \in Seq(Txs) /\ ts \in Seq(Txs) /\ Len(pending) + Len(ts) <= BlockLimit /\ BlockLimit \in Nat
      BY <1>1, LimitsAssumption DEF Parts
    <2>. QED
      BY <2>1, SMTT(60)
  <1>5. /\ mined' = mined /\ switches' = switches /\ pending' = pending /\ ts' = <<>>
        /\ pc' = "idle" /\ sealed' = sealed /\ stale' = stale
        /\ failed' = FALSE /\ full' = FALSE /\ receipts' = FALSE
        /\ post' \in {pending, post}
    BY DEF EndSync, chainVars
  <1>. QED
    BY <1>1, <1>3, <1>4, <1>5, IInvNext DEF Parts

\* A block is made.
LEMMA SealStep ==
    ASSUME IInv, Seal
    PROVE  IInv'
  <1>1. Parts
    BY IInvParts
  <1>2. /\ q' = q /\ mined' = mined /\ switches' = switches /\ pending' = pending /\ ts' = ts
        /\ pc' = pc /\ sealed' = TRUE /\ stale' = stale
        /\ failed' = failed /\ full' = full /\ receipts' = receipts /\ post' = pending
    BY DEF Seal, chainVars
  <1>. QED
    BY <1>1, <1>2, IInvNext DEF Parts

\* The chain changes.
LEMMA ChainStep ==
    ASSUME IInv, NEW dead \in Seq(Txs), NEW live \in Seq(Txs), Len(dead) <= Len(mined),
           NEW own, NEW major \in BOOLEAN, ChainChanged(dead, live, own, major),
           switches' \in 0..MaxSwitches
    PROVE  IInv'
  <1>1. Parts
    BY IInvParts
  <1>2. q \in GoodQueues
    BY <1>1 DEF Parts, GoodQueues
  <1>3. PICK good : good = DropAllGood(ImportAll({q}, dead), live)
    OBVIOUS
  <1>4. good \in SUBSET GoodQueues
    <2>1. ImportAll({q}, dead) \in SUBSET GoodQueues
      BY <1>2, ImportAllGood
    <2>. QED
      BY <2>1, <1>3, DropAllGoodGood
  <1>5. Good(q')
    <2>1. q' \in IF major THEN good ELSE Resync(good, own)
      BY <1>3 DEF ChainChanged
    <2>2. CASE major
      BY <2>1, <2>2, <1>4 DEF GoodQueues
    <2>3. CASE ~major
      BY <2>1, <2>3, <1>1, <1>4, ResyncGood DEF Parts
    <2>. QED
      BY <2>2, <2>3
  <1>6. mined' \in Seq(Txs)
    <2>1. mined' = SubSeq(mined, 1, Len(mined) - Len(dead)) \o live
      BY DEF ChainChanged
    <2>2. mined \in Seq(Txs)
      BY <1>1 DEF Parts
    <2>3. SubSeq(mined, 1, Len(mined) - Len(dead)) \in Seq(Txs)
      BY <2>2, SMTT(60)
    <2>4. PICK m \in Seq(Txs) : m = SubSeq(mined, 1, Len(mined) - Len(dead))
      BY <2>3
    <2>5. m \o live \in Seq(Txs)
      BY SMTT(60)
    <2>. QED
      BY <2>1, <2>4, <2>5
  <1>7. <<>> \in Seq(Txs) /\ Len(<<>>) + Len(ts) <= BlockLimit
    <2>1. pending \in Seq(Txs) /\ ts \in Seq(Txs) /\ Len(pending) + Len(ts) <= BlockLimit /\ BlockLimit \in Nat
      BY <1>1, LimitsAssumption DEF Parts
    <2>. QED
      BY <2>1, SMTT(60)
  <1>8. /\ ts' = ts /\ pc' = pc /\ failed' = failed /\ full' = full /\ receipts' = receipts
        /\ stale' = major /\ sealed' \in BOOLEAN
        /\ pending' \in {pending, <<>>} /\ post' \in {post, <<>>}
    BY DEF ChainChanged
  <1>9. pending' \in Seq(Txs) /\ post' \in Seq(Txs) /\ Len(pending') + Len(ts') <= BlockLimit
    BY <1>1, <1>7, <1>8 DEF Parts
  <1>. QED
    BY <1>1, <1>5, <1>6, <1>8, <1>9, IInvNext DEF Parts

\* A block of another producer.
LEMMA NewBlockStep ==
    ASSUME IInv, NEW major \in BOOLEAN, NewBlock(major)
    PROVE  IInv'
  <1>1. switches' \in 0..MaxSwitches /\ mined \in Seq(Txs)
    BY IInvParts DEF NewBlock, Parts
  <1>2. <<>> \in Seq(Txs) /\ Len(<<>>) <= Len(mined) /\ \A t \in Txs : <<t>> \in Seq(Txs)
    BY <1>1, SMTT(60)
  <1>3. \E live \in Seq(Txs) : ChainChanged(<<>>, live, FALSE, major)
    BY <1>2 DEF NewBlock
  <1>. QED
    BY <1>1, <1>2, <1>3, ChainStep

\* The block this node made.
LEMMA OwnBlockStep ==
    ASSUME IInv, OwnBlock
    PROVE  IInv'
  <1>1. switches' \in 0..MaxSwitches /\ mined \in Seq(Txs) /\ pending \in Seq(Txs)
    BY IInvParts DEF OwnBlock, Parts
  <1>2. <<>> \in Seq(Txs) /\ Len(<<>>) <= Len(mined)
    BY <1>1, SMTT(60)
  <1>3. ChainChanged(<<>>, pending, TRUE, FALSE) /\ FALSE \in BOOLEAN
    BY DEF OwnBlock
  <1>. QED
    BY <1>1, <1>2, <1>3, ChainStep

\* The last block is replaced.
LEMMA SwitchStep ==
    ASSUME IInv, NEW major \in BOOLEAN, Switch(major)
    PROVE  IInv'
  <1>1. switches \in 0..MaxSwitches /\ mined \in Seq(Txs)
    BY IInvParts DEF Parts
  <1>2. switches < MaxSwitches /\ switches' = switches + 1 /\ mined # <<>>
    BY DEF Switch
  <1>3. switches' \in 0..MaxSwitches
    BY <1>1, <1>2, LimitsAssumption, SMTT(60)
  <1>4. PICK dead : dead = SubSeq(mined, Len(mined), Len(mined))
    OBVIOUS
  <1>5. dead \in Seq(Txs) /\ Len(dead) <= Len(mined)
    BY <1>1, <1>2, <1>4, SMTT(60)
  <1>6. <<>> \in Seq(Txs) /\ \A t \in Txs : <<t>> \in Seq(Txs)
    BY SMTT(60)
  <1>7. \E live \in Seq(Txs) : ChainChanged(dead, live, FALSE, major)
    BY <1>4, <1>6 DEF Switch
  <1>. QED
    BY <1>3, <1>5, <1>7, ChainStep

-----------------------------------------------------------------------------
(* What leaves the queue.                                                  *)

\* What the queue holds.
LEMMA HeldIs == Held = HeldBy(q) /\ Held' = HeldBy(q')
  BY DEF Held, HeldBy

\* The mined transactions of the queue are so many.
LEMMA HeldMined ==
    ASSUME Parts
    PROVE  /\ IsFiniteSet(Held \cap Range(mined')) /\ Cardinality(Held \cap Range(mined')) \in Nat
           /\ Cardinality(Held) \in Nat
  <1>1. Held \subseteq Txs
    BY HeldIs, HeldTyped DEF Parts
  <1>. QED
    BY <1>1, FiniteTxs

\* A full queue is crowded.
LEMMA FullIsCrowded ==
    ASSUME Parts, Good(q'), Full(q')
    PROVE  Crowded
  <1>1. Cardinality(Held \cap Range(mined')) \in Nat
    BY HeldMined
  <1>2. q'.current \in Seq(Txs)
    BY Fields DEF Good, Sorted, Counted
  <1>3. Len(q'.current) \in Nat /\ Limit \in Nat
    BY <1>2, LimitsAssumption, SMTT(60)
  <1>. QED
    BY <1>1, <1>3, SMTT(60) DEF Crowded, Full

\* Losses that are explained are accounted for.
LEMMA ExplainedAccounted ==
    ASSUME Parts, NEW M, M \subseteq Range(mined'), Explained(q, q', M)
    PROVE  Accounted
  <1>1. q.future \subseteq Txs
    BY Fields DEF Parts
  <1>2. Cardinality(q.future) \in Nat /\ FutureLimit \in Nat
    BY <1>1, FiniteTxs, LimitsAssumption
  <1>3. ~(Cardinality(q.future) <= FutureLimit) => Cardinality(q.future) > FutureLimit
    BY <1>2, SMTT(60)
  <1>. QED
    BY <1>3, HeldIs DEF Explained, Accounted

\* Imports account for what they push out.
LEMMA TakesAccounted ==
    ASSUME Parts, Good(q'), NEW S, Takes(q, q', S)
    PROVE  Accounted
  <1>1. CASE Full(q')
    BY <1>1, FullIsCrowded DEF Accounted
  <1>2. CASE ~Full(q')
    <2>1. Explained(q, q', {}) /\ {} \subseteq Range(mined')
      BY <1>2 DEF Takes
    <2>. QED
      BY <2>1, ExplainedAccounted
  <1>. QED
    BY <1>1, <1>2

\* An arriving transaction pushes out what it must.
LEMMA ImportAccounted ==
    ASSUME IInv, NEW t \in Txs, ImportTransaction(t)
    PROVE  Accounted
  <1>1. Parts
    BY IInvParts
  <1>2. \A c \in Range(q.current) : ~SameSlot(c, t)
    BY DEF ImportTransaction, Imported, Refused
  <1>3. Good(q') /\ Takes(q, q', {t})
    BY <1>1, <1>2, ManageImportGood DEF ImportTransaction, Parts
  <1>. QED
    BY <1>1, <1>3, TakesAccounted

\* So does a stale working block that starts again.
LEMMA StartSyncAccounted ==
    ASSUME IInv, StartSync
    PROVE  Accounted
  <1>1. Parts
    BY IInvParts
  <1>2. PICK lowered : lowered = [q EXCEPT !.flag = FALSE]
    OBVIOUS
  <1>3. Good(lowered) /\ OtherFlag(q, lowered)
    BY <1>1, <1>2, FlagGood, WithFlag DEF Parts
  <1>4. {lowered} \in SUBSET GoodQueues
    BY <1>3, GoodIsQueue
  <1>5. q' \in IF stale THEN Resync({lowered}, FALSE) ELSE {lowered}
    BY <1>2 DEF StartSync
  <1>6. Good(q') /\ Takes(lowered, q', Range(post))
    <2>1. CASE stale
      BY <2>1, <1>1, <1>4, <1>5, ResyncGood DEF Parts
    <2>2. CASE ~stale
      BY <2>2, <1>3, <1>5 DEF Takes, Explained
    <2>. QED
      BY <2>1, <2>2
  <1>7. HeldBy(lowered) = HeldBy(q) /\ lowered.current = q.current /\ lowered.future = q.future
    BY <1>3 DEF OtherFlag, HeldBy
  <1>8. Takes(q, q', Range(post))
    BY <1>6, <1>7 DEF Takes, Explained
  <1>. QED
    BY <1>1, <1>6, <1>8, TakesAccounted

\* An execution loses only what it drops.
LEMMA ExecuteAccounted ==
    ASSUME IInv, Execute
    PROVE  Accounted
  <1>1. Parts
    BY IInvParts
  <1>2. ts \in Seq(Txs) /\ ts # <<>>
    BY <1>1 DEF Parts, Execute
  <1>3. Head(ts) \in Txs
    BY <1>2, SMTT(60)
  <1>4. q' \in {q, Drop(q, Head(ts)), SetFuture(q, Head(ts))}
    BY DEF Execute
  <1>5. \A x \in HeldBy(q) \ HeldBy(q') : x \in q'.dropped
    BY <1>1, <1>3, <1>4, DropGoodQueue, SetFutureGood DEF Parts
  <1>. QED
    BY <1>5, HeldIs DEF Accounted

\* Where a full queue loses mined transactions, it and they are as many as the limit.
LEMMA MinedFromFull ==
    ASSUME Parts, Good(q'), NEW v, Good(v), Full(v), NEW M, M \subseteq Range(mined'),
           M \cap HeldBy(v) \subseteq Held, Range(v.current) \ M \subseteq Range(q'.current)
    PROVE  Crowded
  <1>. DEFINE A == Range(q'.current)
              B == Held \cap Range(mined')
  <1>1. v \in Queue /\ Distinct(v.current) /\ q' \in Queue /\ Distinct(q'.current)
    BY DEF Good, Sorted, Counted
  <1>2. v.current \in Seq(Txs) /\ q'.current \in Seq(Txs) /\ A \subseteq Txs
    BY <1>1, Fields
  <1>3. Cardinality(Range(v.current)) = Len(v.current) /\ Cardinality(A) = Len(q'.current)
    BY <1>1, <1>2, DistinctLength
  <1>4. Range(v.current) \subseteq A \cup B
    BY DEF HeldBy
  <1>5. IsFiniteSet(A) /\ Cardinality(A) \in Nat /\ IsFiniteSet(B) /\ Cardinality(B) \in Nat
    BY <1>2, FiniteTxs, HeldMined
  <1>6. IsFiniteSet(A \cup B) /\ Cardinality(A \cup B) = Cardinality(A) + Cardinality(B) - Cardinality(A \cap B)
    BY <1>5, FS_Union
  <1>7. Cardinality(A \cap B) \in Nat
    <2>1. A \cap B \subseteq Txs
      BY <1>2
    <2>. QED
      BY <2>1, FiniteTxs
  <1>8. Cardinality(Range(v.current)) <= Cardinality(A \cup B)
    BY <1>4, <1>6, FS_Subset
  <1>9. Len(v.current) \in Nat /\ Limit \in Nat /\ Len(v.current) >= Limit
    BY <1>2, LimitsAssumption, SMTT(60) DEF Full
  <1>10. Cardinality(A) + Cardinality(B) >= Limit
    <2>. HIDE DEF A, B
    <2>. QED
      BY <1>3, <1>5, <1>6, <1>7, <1>8, <1>9, SMTT(60)
  <1>. QED
    BY <1>3, <1>10 DEF Crowded

\* A change of the chain returns the dead, drops the mined and returns m_postSeal.
LEMMA ChainAccounted ==
    ASSUME IInv, NEW dead \in Seq(Txs), NEW live \in Seq(Txs), Len(dead) <= Len(mined),
           Range(dead) \cap Range(live) = {}, NEW own, NEW major \in BOOLEAN,
           ChainChanged(dead, live, own, major)
    PROVE  Accounted
  <1>. DEFINE M == Range(live)
  <1>1. Parts
    BY IInvParts
  <1>2. q \in GoodQueues /\ {q} \in SUBSET GoodQueues
    BY <1>1 DEF Parts, GoodQueues
  <1>3. PICK back : back = ImportAll({q}, dead)
    OBVIOUS
  <1>4. back \in SUBSET GoodQueues /\ \A w \in back : Takes(q, w, Range(dead))
    <2>1. PICK S \in SUBSET GoodQueues : S = {q}
      BY <1>2
    <2>2. /\ ImportAll(S, dead) \in SUBSET GoodQueues
          /\ \A w \in ImportAll(S, dead) : \E u \in S : Takes(u, w, Range(dead))
      BY ImportAllGood
    <2>. QED
      BY <2>1, <2>2, <1>3
  <1>5. PICK good : good = DropAllGood(back, live)
    OBVIOUS
  <1>6. good \in SUBSET GoodQueues /\ \A w \in good : \E u \in back : Leaves(u, w, M)
    BY <1>4, <1>5, DropAllGoodGood
  <1>7. q' \in IF major THEN good ELSE Resync(good, own)
    BY <1>3, <1>5 DEF ChainChanged
  <1>8. Good(q') /\ \E w \in good : Takes(w, q', Range(post))
    <2>1. CASE major
      BY <2>1, <1>6, <1>7 DEF GoodQueues, Takes, Explained
    <2>2. CASE ~major
      BY <2>2, <1>1, <1>6, <1>7, ResyncGood DEF Parts
    <2>. QED
      BY <2>1, <2>2
  <1>9. PICK w \in good : Takes(w, q', Range(post))
    BY <1>8
  <1>10. PICK v \in back : Leaves(v, w, M)
    BY <1>6
  <1>11. Takes(q, v, Range(dead)) /\ Good(v) /\ Good(w) /\ Good(q) /\ Sorted(v) /\ Sorted(w) /\ Sorted(q)
    BY <1>2, <1>4, <1>6 DEF GoodQueues, Good
  <1>12. M \subseteq Range(mined')
    <2>1. mined \in Seq(Txs) /\ mined' = SubSeq(mined, 1, Len(mined) - Len(dead)) \o live
      BY <1>1 DEF Parts, ChainChanged
    <2>2. SubSeq(mined, 1, Len(mined) - Len(dead)) \in Seq(Txs)
      BY <2>1, SMTT(60)
    <2>3. PICK m \in Seq(Txs) : m = SubSeq(mined, 1, Len(mined) - Len(dead))
      BY <2>2
    <2>4. \A i \in DOMAIN live : Len(m) + i \in DOMAIN (m \o live) /\ (m \o live)[Len(m) + i] = live[i]
      BY SMTT(60)
    <2>. QED
      BY <2>1, <2>3, <2>4 DEF Range
  <1>13. M \cap HeldBy(v) \subseteq HeldBy(q)
    BY <1>11 DEF Takes
  <1>14. CASE Full(q')
    BY <1>1, <1>8, <1>14, FullIsCrowded DEF Accounted
  <1>15. CASE ~Full(q') /\ Full(v)
    <2>1. Range(w.current) \subseteq Range(q'.current)
      BY <1>9, <1>15 DEF Takes
    <2>2. Range(v.current) \ M \subseteq Range(q'.current)
      BY <2>1, <1>10 DEF Leaves
    <2>3. M \cap HeldBy(v) \subseteq Held
      BY <1>13, HeldIs
    <2>. HIDE DEF M
    <2>4. Crowded
      BY <2>2, <2>3, <1>1, <1>8, <1>11, <1>12, <1>15, MinedFromFull
    <2>. QED
      BY <2>4 DEF Accounted
  <1>16. CASE ~Full(q') /\ ~Full(v)
    <2>1. Explained(w, q', {}) /\ Explained(v, w, M) /\ Explained(q, v, {})
      BY <1>9, <1>10, <1>11, <1>16 DEF Takes, Leaves
    <2>2. v.future \subseteq q.future /\ w.future \subseteq q.future
      BY <1>10, <1>11 DEF Takes, Leaves
    <2>. HIDE DEF M
    <2>3. Explained(q, w, {} \cup M)
      BY <2>1, <2>2, <1>11, <1>13, ExplainedTwice
    <2>4. {} \cap HeldBy(w) \subseteq HeldBy(q)
      OBVIOUS
    <2>5. Explained(q, q', ({} \cup M) \cup {})
      BY <2>1, <2>2, <2>3, <2>4, <1>11, ExplainedTwice
    <2>6. ({} \cup M) \cup {} = M
      OBVIOUS
    <2>. QED
      BY <2>5, <2>6, <1>1, <1>12, ExplainedAccounted
  <1>. QED
    BY <1>14, <1>15, <1>16

\* A new block, of another producer or of this node.
LEMMA BlockAccounted ==
    ASSUME IInv, (\E major \in BOOLEAN : NewBlock(major)) \/ OwnBlock
    PROVE  Accounted
  <1>1. mined \in Seq(Txs) /\ pending \in Seq(Txs)
    BY IInvParts DEF Parts
  <1>2. /\ <<>> \in Seq(Txs) /\ Len(<<>>) <= Len(mined) /\ DOMAIN <<>> = {}
        /\ \A t \in Txs : <<t>> \in Seq(Txs)
    BY <1>1, SMTT(60)
  <1>3. \E live \in Seq(Txs), own, major \in BOOLEAN : ChainChanged(<<>>, live, own, major)
    BY <1>1, <1>2 DEF NewBlock, OwnBlock
  <1>4. \A live \in Seq(Txs) : Range(<<>>) \cap Range(live) = {}
    BY <1>2 DEF Range
  <1>. QED
    BY <1>2, <1>3, <1>4, ChainAccounted

\* Another block in the place of the last one: it does not mine the same transaction.
LEMMA SwitchAccounted ==
    ASSUME IInv, NEW major \in BOOLEAN, Switch(major)
    PROVE  Accounted
  <1>1. mined \in Seq(Txs) /\ mined # <<>>
    BY IInvParts DEF Parts, Switch
  <1>2. PICK dead : dead = SubSeq(mined, Len(mined), Len(mined))
    OBVIOUS
  <1>3. dead \in Seq(Txs) /\ Len(dead) <= Len(mined) /\ DOMAIN dead = {1} /\ dead[1] = mined[Len(mined)]
    BY <1>1, <1>2, SMTT(60)
  <1>4. /\ <<>> \in Seq(Txs) /\ DOMAIN <<>> = {}
        /\ \A t \in Txs : <<t>> \in Seq(Txs) /\ DOMAIN <<t>> = {1} /\ <<t>>[1] = t
    BY SMTT(60)
  <1>5. Range(dead) = {Last(mined)} /\ Range(<<>>) = {} /\ \A t \in Txs : Range(<<t>>) = {t}
    <2>1. Range(dead) = {dead[1]} /\ Range(<<>>) = {}
      BY <1>3, <1>4 DEF Range
    <2>2. ASSUME NEW t \in Txs PROVE Range(<<t>>) = {t}
      <3>1. DOMAIN <<t>> = {1} /\ <<t>>[1] = t
        BY <1>4
      <3>. QED
        BY <3>1 DEF Range
    <2>. QED
      BY <2>1, <2>2, <1>3 DEF Last
  <1>6. \E live \in Seq(Txs) : Last(mined) \notin Range(live) /\ ChainChanged(dead, live, FALSE, major)
    BY <1>2, <1>4, <1>5 DEF Switch
  <1>7. PICK live \in Seq(Txs) : Last(mined) \notin Range(live) /\ ChainChanged(dead, live, FALSE, major)
    BY <1>6
  <1>8. Range(dead) \cap Range(live) = {}
    BY <1>5, <1>7
  <1>. QED
    BY <1>3, <1>7, <1>8, ChainAccounted

\* Every step accounts for what it loses.
LEMMA NextAccounted == IInv /\ [Next]_vars => [Accounted]_vars
  <1>. SUFFICES ASSUME IInv, Next PROVE Accounted
    OBVIOUS
  <1>1. CASE EndSync
    <2>1. Parts
      BY IInvParts
    <2>2. PICK b \in BOOLEAN : b = (failed \/ full \/ ts # <<>>)
      OBVIOUS
    <2>3. OtherFlag(q, q')
      BY <2>1, <2>2, <1>1, WithFlag DEF EndSync, Parts
    <2>. QED
      BY <2>3 DEF OtherFlag, Accounted, Held
  <1>2. CASE Seal \/ ClearPending
    BY <1>2 DEF Seal, Accounted, Held
  <1>. QED
    BY <1>1, <1>2, ImportAccounted, StartSyncAccounted, ExecuteAccounted, BlockAccounted,
       SwitchAccounted DEF Next

-----------------------------------------------------------------------------
(* The theorems.                                                           *)

\* Every step keeps the invariant.
LEMMA NextIInv == IInv /\ [Next]_vars => IInv'
  <1>. SUFFICES ASSUME IInv, [Next]_vars PROVE IInv'
    OBVIOUS
  <1>1. CASE UNCHANGED vars
    BY <1>1 DEF vars, chainVars, clientVars, IInv, TypeOK, BlockBounded, Good, HeldBy
  <1>2. CASE Next
    BY <1>2, ImportStep, ClearStep, StartSyncStep, ExecuteStep, EndSyncStep, SealStep, OwnBlockStep,
       NewBlockStep, SwitchStep DEF Next
  <1>. QED
    BY <1>1, <1>2

\* The queue is good in every state.
THEOREM QueueStaysGood == Spec => []IInv
  <1>. QED
    BY InitIInv, NextIInv, PTL DEF Spec

\* Every variable has its type: no field of the queue, no sequence of the client
\* ever leaves its range.
THEOREM TypeCorrect == Spec => []TypeOK
  <1>1. IInv => TypeOK
    BY DEF IInv
  <1>. QED
    BY <1>1, QueueStaysGood, PTL

\* One transaction per account and nonce, in one of m_current and m_future, for
\* every set of transactions and every limit.
THEOREM OneTransactionPerNonce == Spec => []NonceOnce
  <1>1. IInv => NonceOnce
    <2>. SUFFICES ASSUME IInv PROVE NonceOnce
      OBVIOUS
    <2>1. Sorted(q) /\ Held = HeldBy(q)
      BY DEF IInv, Good, Held, HeldBy
    <2>2. ASSUME NEW i \in DOMAIN q.current, NEW j \in DOMAIN q.current,
                 SameSlot(q.current[i], q.current[j])
          PROVE  i = j
      <3>1. q.current[i] \in HeldBy(q) /\ q.current[j] \in HeldBy(q)
        BY DEF HeldBy, Range
      <3>2. q.current[i] = q.current[j]
        BY <3>1, <2>1, <2>2 DEF Sorted
      <3>. QED
        BY <3>2, <2>1 DEF Sorted, Distinct
    <2>. QED
      BY <2>1, <2>2 DEF NonceOnce, Sorted
  <1>. QED
    BY <1>1, QueueStaysGood, PTL

\* m_futureSize counts m_future, whatever is set back, followed, replaced or trimmed.
THEOREM FutureIsCounted == Spec => []FutureSizeExact
  <1>1. IInv => FutureSizeExact
    BY DEF IInv, Good, Sorted, Counted, FutureSizeExact
  <1>. QED
    BY <1>1, QueueStaysGood, PTL

\* What the queue holds is in m_known, so the same transaction is not taken twice.
THEOREM HeldAreKnown == Spec => []QueuedIsKnown
  <1>1. IInv => QueuedIsKnown
    BY DEF IInv, Good, QueuedIsKnown, Held, HeldBy
  <1>. QED
    BY <1>1, QueueStaysGood, PTL

\* m_current and m_future together hold at most the sum of their limits, though
\* each alone can pass its own.
THEOREM HeldWithinLimits == Spec => []HeldBounded
  <1>1. IInv => HeldBounded
    BY DEF IInv, Good, HeldBounded, Held, HeldBy
  <1>. QED
    BY <1>1, QueueStaysGood, PTL

\* Block::sync never asks for a negative number of transactions.
THEOREM BlockWithinLimit == Spec => []BlockBounded
  <1>1. IInv => BlockBounded
    BY DEF IInv
  <1>. QED
    BY <1>1, QueueStaysGood, PTL
\* Nothing leaves the queue without a reason: a transaction that is gone was
\* mined or dropped, gave its nonce to another, or fell off a set that was full.
THEOREM NothingIsLost == Spec => NothingLost
  <1>. QED
    BY NextAccounted, QueueStaysGood, PTL DEF Spec, NothingLost

=============================================================================
