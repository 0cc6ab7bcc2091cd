------------------------ MODULE ProducerRoundsProofs ------------------------
(***************************************************************************)
(* Proofs about the producers' race, the POW queue and the round, for any  *)
(* accounts, seats, votes and lap length.                                  *)
(*                                                                         *)
(* None of the properties is inductive alone.  That a round has distinct   *)
(* seats rests on the indices it is filled from being orders; those rest   *)
(* on ids and queue numbers being unique; that num_pow_witnesses is the    *)
(* length of the queue rests on everybody who is popped or leaves it being *)
(* queued; that nobody passes the line rests on every object's finish time *)
(* being projected from its own speed, position and time.  Inv says all of *)
(* this of the state between blocks.  The lemmas before it follow one      *)
(* block through update_pow, update_pvomi_perblock and calculateNextRound. *)
(***************************************************************************)
EXTENDS ProducerRounds, FiniteSetTheorems, WellFoundedInduction, TLAPS

\* Leaves are for Zenon, those with arithmetic, functions or sequences cite SMT.
USE ZenonT(60)

\* Every set of numbers has a least one.
LEMMA LeastExists ==
    ASSUME NEW T, T \subseteq Nat, T # {}
    PROVE  \E x \in T : \A y \in T : x <= y
<1>1. \E x \in T : \A y \in T : ~(<<y, x>> \in OpToRel(<, Nat))
  BY NatLessThanWellFounded, WFMin
<1>2. \A x, y \in T : <<y, x>> \in OpToRel(<, Nat) <=> y < x
  BY DEF OpToRel
<1>3. \A x, y \in T : ~(y < x) => x <= y
  BY SMTT(60)
<1> QED BY <1>1, <1>2, <1>3

\* An index orders the accounts of S: of two, one comes first.
Orders(order, S) ==
    /\ \A a, b \in S : a # b => <<a, b>> \in order \/ <<b, a>> \in order
    /\ \A a, b, c \in S : <<a, b>> \in order /\ <<b, c>> \in order => <<a, c>> \in order

IsLast(m, T, order) == \A a \in T \ {m} : <<a, m>> \in order

\* Some account is the last in an index.
LEMMA LastExists ==
    ASSUME NEW S, IsFiniteSet(S), S # {}, NEW order, Orders(order, S)
    PROVE  \E m \in S : IsLast(m, S, order)
<1> DEFINE Without == {n \in Nat : \E T \in SUBSET S : T # {} /\ Cardinality(T) = n
                                        /\ ~\E m \in T : IsLast(m, T, order)}
<1>1. SUFFICES ASSUME Without # {} PROVE FALSE
  <2>1. Cardinality(S) \in Nat
    BY FS_CardinalityType
  <2> QED BY <2>1
<1>2. PICK n \in Without : \A k \in Without : n <= k
  BY <1>1, LeastExists
<1>3. PICK T \in SUBSET S : T # {} /\ Cardinality(T) = n /\ ~\E m \in T : IsLast(m, T, order)
  BY <1>2
<1>4. PICK x \in T : TRUE
  BY <1>3
<1> DEFINE U == T \ {x}
<1>5. /\ IsFiniteSet(T) /\ IsFiniteSet(U) /\ n \in Nat
      /\ Cardinality(U) = n - 1 /\ Cardinality(U) \in Nat
  <2>1. IsFiniteSet(T)
    BY FS_Subset
  <2>2. IsFiniteSet(U) /\ Cardinality(U) = Cardinality(T) - 1
    BY <2>1, <1>4, FS_RemoveElement
  <2> QED BY <2>1, <2>2, <1>2, <1>3, FS_CardinalityType
<1>6. CASE U = {}
  BY <1>3, <1>4, <1>6 DEF IsLast
<1>7. CASE U # {}
  <2>1. PICK m \in U : IsLast(m, U, order)
    <3>1. n - 1 \notin Without
      BY <1>2, <1>5, SMTT(60)
    <3>2. U \in SUBSET S /\ n - 1 \in Nat
      BY <1>5
    <3> QED BY <1>5, <1>7, <3>1, <3>2
  <2>2. m # x /\ m \in S /\ x \in S
    BY <1>4
  <2>3. CASE <<x, m>> \in order
    BY <1>3, <2>1, <2>3 DEF IsLast
  <2>4. CASE <<m, x>> \in order
    <3>1. ASSUME NEW a \in T, a # x PROVE <<a, x>> \in order
      <4>1. a = m \/ <<a, m>> \in order
        BY <2>1, <3>1 DEF IsLast
      <4> QED BY <2>2, <2>4, <4>1 DEF Orders
    <3> QED BY <1>3, <1>4, <3>1 DEF IsLast
  <2> QED BY <2>2, <2>3, <2>4 DEF Orders
<1> QED BY <1>6, <1>7

InOrder(s, order) == \A i, j \in DOMAIN s : i < j => <<s[i], s[j]>> \in order

\* The sequences of the elements of S, each once.
Listings(S) == Injection(1..Cardinality(S), S)

\* Finitely many accounts can be listed in the order of an index.
LEMMA OrderExists ==
    ASSUME NEW S, IsFiniteSet(S), NEW order, Orders(order, S)
    PROVE  \E s \in Listings(S) : InOrder(s, order)
<1> DEFINE Without == {n \in Nat : \E T \in SUBSET S : Cardinality(T) = n
                                        /\ ~\E s \in Listings(T) : InOrder(s, order)}
<1>1. SUFFICES ASSUME Without # {} PROVE FALSE
  <2>1. Cardinality(S) \in Nat
    BY FS_CardinalityType
  <2> QED BY <2>1
<1>2. PICK n \in Without : \A k \in Without : n <= k
  BY <1>1, LeastExists
<1>3. PICK T \in SUBSET S : Cardinality(T) = n /\ ~\E s \in Listings(T) : InOrder(s, order)
  BY <1>2
<1>4. IsFiniteSet(T)
  BY FS_Subset
<1>5. CASE T = {}
  <2>1. Cardinality(T) = 0
    BY <1>5, FS_EmptySet
  <2>2. <<>> \in Listings(T) /\ InOrder(<<>>, order)
    BY <2>1, SMTT(60) DEF Listings, Injection, IsInjective, InOrder
  <2> QED BY <1>3, <2>2
<1>6. CASE T # {}
  <2>1. PICK m \in T : IsLast(m, T, order)
    <3>1. Orders(order, T)
      BY DEF Orders
    <3> QED BY <1>4, <1>6, <3>1, LastExists
  <2> DEFINE U == T \ {m}
  <2>2. Cardinality(U) = n - 1 /\ n \in Nat /\ n - 1 \in Nat
    <3>1. IsFiniteSet(U) /\ Cardinality(U) = Cardinality(T) - 1
      BY <1>4, <2>1, FS_RemoveElement
    <3>2. Cardinality(U) \in Nat
      BY <3>1, FS_CardinalityType
    <3> QED BY <3>1, <3>2, <1>2, <1>3
  <2>3. PICK s \in Listings(U) : InOrder(s, order)
    <3>1. n - 1 \notin Without
      BY <1>2, <2>2, SMTT(60)
    <3> QED BY <2>2, <3>1
  <2>4. s \in [1..(n - 1) -> U] /\ \A i, j \in 1..(n - 1) : i # j => s[i] # s[j]
    BY <2>2, <2>3 DEF Listings, Injection, IsInjective
  <2> DEFINE t == [i \in 1..n |-> IF i = n THEN m ELSE s[i]]
  <2>5. \A i \in 1..n : i = n \/ i \in 1..(n - 1)
    BY <2>2, SMTT(60)
  <2>6. t \in [1..n -> T]
    BY <2>4, <2>5, <2>1
  <2>7. \A i, j \in 1..n : i # j => t[i] # t[j]
    BY <2>4, <2>5
  <2>8. t \in Listings(T)
    BY <1>3, <2>6, <2>7 DEF Listings, Injection, IsInjective
  <2>9. ASSUME NEW i \in 1..n, NEW j \in 1..n, i < j PROVE <<t[i], t[j]>> \in order
    <3>1. i \in 1..(n - 1)
      BY <2>2, <2>9, SMTT(60)
    <3>2. CASE j = n
      BY <2>1, <2>4, <3>1, <3>2, <2>2, SMTT(60) DEF IsLast
    <3>3. CASE j # n
      <4>1. DOMAIN s = 1..(n - 1) /\ j \in 1..(n - 1)
        BY <2>4, <2>5, <3>3
      <4>2. t[i] = s[i] /\ t[j] = s[j]
        BY <3>1, <3>3, <2>2, SMTT(60)
      <4> QED BY <2>3, <2>9, <3>1, <4>1, <4>2 DEF InOrder
    <3> QED BY <3>2, <3>3
  <2>10. InOrder(t, order)
    <3>1. DOMAIN t = 1..n
      OBVIOUS
    <3> HIDE DEF t
    <3> QED BY <2>9, <3>1 DEF InOrder
  <2> QED BY <1>3, <2>8, <2>10
<1> QED BY <1>5, <1>6

\* s lists accounts of S, none of them twice.
Lists(s, S) == s \in Seq(S) /\ \A i, j \in 1..Len(s) : i # j => s[i] # s[j]

\* An index lists all accounts it orders.
LEMMA OrderedLists ==
    ASSUME NEW S, IsFiniteSet(S), NEW order, Orders(order, S)
    PROVE  Lists(Ordered(S, order), S) /\ Len(Ordered(S, order)) = Cardinality(S)
<1>1. PICK s \in Listings(S) : InOrder(s, order)
  BY OrderExists
<1>2. Ordered(S, order) \in Listings(S)
  BY <1>1 DEF Ordered, InOrder, Listings
<1>3. Cardinality(S) \in Nat
  BY FS_CardinalityType
<1>4. PICK t : t = Ordered(S, order)
  OBVIOUS
<1>5. t \in [1..Cardinality(S) -> S]
      /\ \A i, j \in 1..Cardinality(S) : i # j => t[i] # t[j]
  BY <1>2, <1>4 DEF Listings, Injection, IsInjective
<1>6. t \in Seq(S) /\ Len(t) = Cardinality(S)
  BY <1>3, <1>5, SMTT(60)
<1> QED BY <1>4, <1>5, <1>6 DEF Lists

\* A beginning of a list is a list.
LEMMA FirstLists ==
    ASSUME NEW S, NEW s, Lists(s, S), NEW n, n \in Nat
    PROVE  /\ Lists(First(s, n), S)
           /\ Len(First(s, n)) = IF n < Len(s) THEN n ELSE Len(s)
           /\ \A i \in 1..Len(First(s, n)) : First(s, n)[i] = s[i]
<1> DEFINE k == IF n < Len(s) THEN n ELSE Len(s)
<1>1. s \in Seq(S) /\ Len(s) \in Nat
  BY SMTT(60) DEF Lists
<1>2. k \in 0..Len(s)
  BY <1>1, SMTT(60)
<1>3. First(s, n) = SubSeq(s, 1, k)
  BY DEF First
<1> HIDE DEF k
<1>4. PICK t : t = SubSeq(s, 1, k)
  OBVIOUS
<1>5. t \in Seq(S) /\ Len(t) = k /\ \A i \in 1..k : t[i] = s[i]
  BY <1>1, <1>2, <1>4, SMTT(60)
<1>6. Lists(t, S)
  BY <1>2, <1>5, SMTT(60) DEF Lists
<1> QED BY <1>3, <1>4, <1>5, <1>6 DEF k

\* Two lists of different accounts make one.
LEMMA CatLists ==
    ASSUME NEW S, NEW s, Lists(s, S), NEW T, NEW t, Lists(t, T),
           \A i \in 1..Len(s), j \in 1..Len(t) : s[i] # t[j]
    PROVE  Lists(s \o t, S \cup T) /\ Len(s \o t) = Len(s) + Len(t)
<1>1. s \in Seq(S \cup T) /\ t \in Seq(S \cup T) /\ Len(s) \in Nat /\ Len(t) \in Nat
  BY SMTT(60) DEF Lists
<1>2. PICK u : u = s \o t
  OBVIOUS
<1>3. /\ u \in Seq(S \cup T) /\ Len(u) = Len(s) + Len(t)
      /\ \A i \in 1..Len(u) : u[i] = IF i <= Len(s) THEN s[i] ELSE t[i - Len(s)]
  BY <1>1, <1>2, SMTT(60)
<1>4. ASSUME NEW i \in 1..Len(u), NEW j \in 1..Len(u), i < j PROVE u[i] # u[j]
  <2>1. CASE j <= Len(s)
    BY <1>1, <1>3, <1>4, <2>1, SMTT(60) DEF Lists
  <2>2. CASE i > Len(s)
    <3>1. i - Len(s) \in 1..Len(t) /\ j - Len(s) \in 1..Len(t) /\ i - Len(s) # j - Len(s)
      BY <1>1, <1>3, <1>4, <2>2, SMTT(60)
    <3>2. u[i] = t[i - Len(s)] /\ u[j] = t[j - Len(s)]
      BY <1>1, <1>3, <1>4, <2>2, SMTT(60)
    <3> QED BY <3>1, <3>2 DEF Lists
  <2>3. CASE i <= Len(s) /\ j > Len(s)
    BY <1>1, <1>3, <1>4, <2>3, SMTT(60)
  <2> QED BY <1>1, <1>3, <2>1, <2>2, <2>3, SMTT(60)
<1>5. \A i, j \in 1..Len(u) : i # j => u[i] # u[j]
  BY <1>1, <1>3, <1>4, SMTT(60)
<1> QED BY <1>2, <1>3, <1>5 DEF Lists

\* A list names as many accounts as it is long.
LEMMA ListCounts ==
    ASSUME NEW S, NEW s, Lists(s, S)
    PROVE  /\ Range(s) \subseteq S /\ IsFiniteSet(Range(s)) /\ Cardinality(Range(s)) = Len(s)
           /\ \A x : x \in Range(s) <=> \E i \in 1..Len(s) : x = s[i]
<1>1. s \in Seq(S) /\ Len(s) \in Nat /\ DOMAIN s = 1..Len(s)
  BY SMTT(60) DEF Lists
<1>2. Range(s) \subseteq S /\ \A x : x \in Range(s) <=> \E i \in 1..Len(s) : x = s[i]
  BY <1>1, SMTT(60) DEF Range
<1>3. s \in Bijection(1..Len(s), Range(s))
  BY <1>1, <1>2, SMTT(60) DEF Lists, Bijection, Injection, Surjection, IsInjective
<1>4. ExistsBijection(1..Len(s), Range(s))
  BY <1>3 DEF ExistsBijection
<1>5. IsFiniteSet(1..Len(s))
  BY <1>1, FS_Interval, SMTT(60)
<1>6. IsFiniteSet(Range(s)) /\ Cardinality(Range(s)) = Len(s)
  BY <1>1, <1>4, <1>5, FS_Bijection, FS_CountingElements
<1> QED BY <1>2, <1>6
\* A bounded set of numbers has a greatest one.
LEMMA GreatestExists ==
    ASSUME NEW T, T \subseteq Nat, T # {}, NEW m \in Nat, \A x \in T : x <= m
    PROVE  \E x \in T : \A y \in T : y <= x
<1> DEFINE U == {u \in Nat : \A x \in T : x <= u}
<1>1. PICK u \in U : \A v \in U : u <= v
  <2>1. U \subseteq Nat /\ U # {}
    OBVIOUS
  <2> QED BY <2>1, LeastExists
<1>2. PICK t \in T : TRUE
  OBVIOUS
<1>3. ASSUME u \notin T PROVE FALSE
  <2>1. \A x \in T : x \in Nat /\ x <= u /\ x # u
    BY <1>3
  <2>2. u - 1 \in Nat /\ \A x \in T : x <= u - 1
    BY <2>1, <1>2, SMTT(60)
  <2> QED BY <1>1, <2>2, SMTT(60)
<1> QED BY <1>3

\* Max is that one.
LEMMA MaxIs ==
    ASSUME NEW T, T \subseteq Nat, T # {}, NEW m \in Nat, \A x \in T : x <= m
    PROVE  Max(T) \in T /\ \A y \in T : y <= Max(T)
<1>1. PICK x \in T : \A y \in T : x >= y
  BY GreatestExists
<1>2. Max(T) \in T /\ \A y \in T : Max(T) >= y
  BY <1>1 DEF Max
<1> QED BY <1>2

\* The places of a finite set of numbers are 1, 2, ... without repetition.
LEMMA PlaceIs ==
    ASSUME NEW S, IsFiniteSet(S), S \subseteq Nat, NEW a \in S
    PROVE  /\ Place(a, S) \in Nat \ {0} /\ Place(a, S) <= Cardinality(S)
           /\ \A b \in S : Place(a, S) = Place(b, S) => a = b
<1> DEFINE Upto(b) == {c \in S : c <= b}
<1>1. ASSUME NEW b \in S
      PROVE  /\ IsFiniteSet(Upto(b)) /\ Cardinality(Upto(b)) \in Nat
             /\ Cardinality(Upto(b)) <= Cardinality(S)
  <2>1. Upto(b) \in SUBSET S
    OBVIOUS
  <2> HIDE DEF Upto
  <2> QED BY <2>1, FS_Subset, FS_CardinalityType
<1>2. Cardinality(Upto(a)) # 0
  <2>1. a \in Upto(a)
    BY SMTT(60)
  <2> HIDE DEF Upto
  <2> QED BY <1>1, <2>1, FS_EmptySet
<1>3. ASSUME NEW b \in S, NEW c \in S, b < c PROVE Cardinality(Upto(b)) # Cardinality(Upto(c))
  <2>1. Upto(b) \in SUBSET Upto(c) /\ c \in Upto(c) /\ c \notin Upto(b)
    <3>1. \A x \in S : x \in Nat
      OBVIOUS
    <3>2. \A x \in S : x <= b => x <= c
      BY <1>3, <3>1, SMTT(60)
    <3>3. c <= c /\ ~(c <= b)
      BY <1>3, <3>1, SMTT(60)
    <3> QED BY <3>2, <3>3
  <2>2. IsFiniteSet(Upto(c))
    BY <1>1
  <2> HIDE DEF Upto
  <2> QED BY <2>1, <2>2, FS_Subset
<1>4. \A b \in S : Cardinality(Upto(a)) = Cardinality(Upto(b)) => a = b
  <2>1. \A b \in S : a = b \/ a < b \/ b < a
    BY SMTT(60)
  <2> HIDE DEF Upto
  <2> QED BY <2>1, <1>3
<1> QED BY <1>1, <1>2, <1>4 DEF Place

-----------------------------------------------------------------------------
(* What holds between the steps of a block.                                *)

\* The race: owners' objects o, the next id n, the race time t.
RaceOK(o, n, t) ==
    /\ o \in [Accounts -> ProducerVotes \cup {None}]
    /\ \A a \in Registered(o) :
          /\ o[a].id < n
          /\ o[a].position <= RaceLapLength
          /\ o[a].time <= t /\ t <= o[a].finish /\ o[a].finish <= RaceLapLength
          /\ o[a].finish = o[a].time + TimeToFinish(o[a].speed, o[a].position)
    /\ \A a, b \in Registered(o) : o[a].id = o[b].id => a = b

\* The POW queue: pow_worker by owner, the last number given out.
QueueOK(queue, total) ==
    /\ queue \in [Accounts -> Nat \cup {None}]
    /\ \A a \in Queued(queue) : queue[a] <= total
    /\ \A a, b \in Queued(queue) : queue[a] = queue[b] => a = b

\* The two together; a registered account has a producer_object and is not queued.
Sound(o, n, t, queue, total, witnesses) ==
    /\ n \in Nat /\ t \in 0..RaceLapLength /\ total \in Nat
    /\ RaceOK(o, n, t) /\ QueueOK(queue, total)
    /\ \A a \in Registered(o) : queue[a] = 0
    /\ witnesses = Cardinality(Queued(queue)) /\ witnesses <= total

\* A round: every seat is filled or empty, and the holders have producer_objects.
RoundOK(round, queue) ==
    /\ round \in Seq(Accounts \cup {Empty}) /\ Len(round) = TotalProducersPerRound
    /\ \A i, j \in 1..TotalProducersPerRound : i # j /\ round[i] # Empty => round[i] # round[j]
    /\ \E i \in 1..TotalProducersPerRound : round[i] # Empty
    /\ \A i \in 1..TotalProducersPerRound : round[i] # Empty => queue[round[i]] # None

\* Any accounts are finitely many.
LEMMA SomeAccounts == ASSUME NEW S, S \subseteq Accounts
                      PROVE IsFiniteSet(S) /\ Cardinality(S) \in Nat
<1>1. IsFiniteSet(S)
  BY AccountsAssumption, FS_Subset
<1> QED BY <1>1, FS_CardinalityType

\* What a registered producer's object holds.
LEMMA RegisteredHas ==
    ASSUME NEW o, NEW n, NEW t, RaceOK(o, n, t), NEW a \in Registered(o)
    PROVE  /\ a \in Accounts /\ o[a] \in ProducerVotes
           /\ o[a].id \in Nat /\ o[a].speed \in Int /\ o[a].position \in Nat
           /\ o[a].time \in Nat /\ o[a].finish \in Nat
<1>1. a \in Accounts /\ o[a] \in ProducerVotes
  BY DEF RaceOK, Registered
<1> QED BY <1>1 DEF ProducerVotes

\* A queued account has its number in the queue.
LEMMA QueuedHas ==
    ASSUME NEW queue, NEW total, QueueOK(queue, total), NEW a \in Queued(queue)
    PROVE  a \in Accounts /\ queue[a] \in Nat /\ queue[a] # 0
  BY DEF QueueOK, Queued

\* The three indices order the accounts they hold: ids and numbers in the queue differ.
LEMMA VotesOrder ==
    ASSUME NEW o, NEW n, NEW t, RaceOK(o, n, t), NEW S, S \subseteq Registered(o)
    PROVE  Orders({p \in S \X S : MoreVotes(o, p[1], p[2])}, S)
<1>1. \A a \in S : o[a].id \in Nat /\ o[a].speed \in Int
  BY RegisteredHas
<1>2. \A a, b \in S : o[a].id = o[b].id => a = b
  BY DEF RaceOK
<1>3. \A a, b \in S : a # b => MoreVotes(o, a, b) \/ MoreVotes(o, b, a)
  BY <1>1, <1>2, SMTT(60) DEF MoreVotes
<1>4. \A a, b, c \in S : MoreVotes(o, a, b) /\ MoreVotes(o, b, c) => MoreVotes(o, a, c)
  BY <1>1, SMTT(60) DEF MoreVotes
<1> QED BY <1>3, <1>4 DEF Orders

\* The index by projected finish time: equal times are ordered by id.
LEMMA FinishOrder ==
    ASSUME NEW o, NEW n, NEW t, RaceOK(o, n, t), NEW S, S \subseteq Registered(o)
    PROVE  Orders({p \in S \X S : FinishesBefore(o, p[1], p[2])}, S)
<1>1. \A a \in S : o[a].id \in Nat /\ o[a].finish \in Nat
  BY RegisteredHas
<1>2. \A a, b \in S : o[a].id = o[b].id => a = b
  BY DEF RaceOK
<1>3. \A a, b \in S : a # b => FinishesBefore(o, a, b) \/ FinishesBefore(o, b, a)
  BY <1>1, <1>2, SMTT(60) DEF FinishesBefore
<1>4. \A a, b, c \in S : FinishesBefore(o, a, b) /\ FinishesBefore(o, b, c)
                            => FinishesBefore(o, a, c)
  BY <1>1, SMTT(60) DEF FinishesBefore
<1> QED BY <1>3, <1>4 DEF Orders

\* The index of the POW queue: no two accounts have the same number.
LEMMA PowOrder ==
    ASSUME NEW queue, NEW total, QueueOK(queue, total), NEW S, S \subseteq Queued(queue)
    PROVE  Orders({p \in S \X S : queue[p[1]] < queue[p[2]]}, S)
<1>1. \A a \in S : queue[a] \in Nat
  BY QueuedHas
<1>2. \A a, b \in S : queue[a] = queue[b] => a = b
  BY DEF QueueOK
<1>3. \A a, b \in S : a # b => queue[a] < queue[b] \/ queue[b] < queue[a]
  BY <1>1, <1>2, SMTT(60)
<1>4. \A a, b, c \in S : queue[a] < queue[b] /\ queue[b] < queue[c] => queue[a] < queue[c]
  BY <1>1, SMTT(60)
<1> QED BY <1>3, <1>4 DEF Orders

\* The workers of S in the order of the queue.
LEMMA PowLists ==
    ASSUME NEW queue, NEW total, QueueOK(queue, total), NEW S, S \subseteq Queued(queue)
    PROVE  Lists(by_pow(queue, S), S) /\ Len(by_pow(queue, S)) = Cardinality(S)
<1>1. IsFiniteSet(S)
  BY SomeAccounts DEF Queued
<1> QED BY <1>1, PowOrder, OrderedLists DEF by_pow

-----------------------------------------------------------------------------
(* The seats of a round.                                                   *)

\* The DPOS seats of a round, the runners-up last.
Runners(o, deals) == IF deals THEN RunnersUp(o) ELSE <<>>
Dpos(o, deals) == IF deals THEN TopVoted(o) \o RunnersUp(o) ELSE <<>>

\* The most voted producers: registered, different, at least one if there is one.
LEMMA TopVotedLists ==
    ASSUME NEW o, NEW n, NEW t, RaceOK(o, n, t)
    PROVE  /\ Lists(TopVoted(o), Registered(o))
           /\ Len(TopVoted(o)) <= DPOSVotedProducersPerRound
           /\ Registered(o) # {} => Len(TopVoted(o)) > 0
<1> DEFINE all == byVotes(o)
<1>1. IsFiniteSet(Registered(o)) /\ Cardinality(Registered(o)) \in Nat
  BY SomeAccounts DEF Registered
<1>2. Lists(all, Registered(o)) /\ Len(all) = Cardinality(Registered(o))
  BY <1>1, VotesOrder, OrderedLists DEF byVotes
<1>3. Registered(o) # {} => Cardinality(Registered(o)) > 0
  BY <1>1, FS_EmptySet, SMTT(60)
<1> HIDE DEF all
<1>4. DPOSVotedProducersPerRound \in Nat /\ DPOSVotedProducersPerRound > 0
  BY SeatsAssumption, SMTT(60)
<1>5. TopVoted(o) = First(all, DPOSVotedProducersPerRound)
  BY DEF TopVoted, all
<1>6. PICK top : top = TopVoted(o)
  OBVIOUS
<1>7. Lists(top, Registered(o))
      /\ Len(top) = IF DPOSVotedProducersPerRound < Len(all) THEN DPOSVotedProducersPerRound
                    ELSE Len(all)
  BY <1>2, <1>4, <1>5, <1>6, FirstLists, SMTT(60)
<1> QED BY <1>1, <1>2, <1>3, <1>4, <1>6, <1>7, SMTT(60)

\* The runners-up are other registered producers.
LEMMA RunnersUpLists ==
    ASSUME NEW o, NEW n, NEW t, RaceOK(o, n, t)
    PROVE  /\ Lists(RunnersUp(o), Registered(o) \ Range(TopVoted(o)))
           /\ Len(RunnersUp(o)) <= DPOSRunnerupProducersPerRound
<1> DEFINE S == Registered(o) \ Range(TopVoted(o))
           all == byProjectedRaceFinishTime(o, S)
<1>1. S \subseteq Registered(o) /\ IsFiniteSet(S)
  BY SomeAccounts DEF Registered
<1> HIDE DEF S
<1>2. Lists(all, S)
  BY <1>1, FinishOrder, OrderedLists DEF byProjectedRaceFinishTime
<1> HIDE DEF all
<1>3. DPOSRunnerupProducersPerRound \in Nat
  BY SeatsAssumption
<1>4. RunnersUp(o) = First(all, DPOSRunnerupProducersPerRound)
  BY DEF RunnersUp, all, S
<1>5. PICK runners : runners = RunnersUp(o)
  OBVIOUS
<1>6. Lists(runners, S) /\ Len(runners) <= DPOSRunnerupProducersPerRound
  <2>1. Lists(runners, S)
    BY <1>2, <1>3, <1>4, <1>5, FirstLists
  <2>2. Len(runners) = IF DPOSRunnerupProducersPerRound < Len(all)
                       THEN DPOSRunnerupProducersPerRound ELSE Len(all)
    BY <1>2, <1>3, <1>4, <1>5, FirstLists, SMTT(60)
  <2>3. Len(all) \in Nat
    BY <1>2, SMTT(60) DEF Lists
  <2> QED BY <2>1, <2>2, <2>3, <1>3, SMTT(60)
<1> QED BY <1>5, <1>6 DEF S

\* No producer has two DPOS seats.
LEMMA DposLists ==
    ASSUME NEW o, NEW n, NEW t, RaceOK(o, n, t), NEW deals \in BOOLEAN
    PROVE  /\ Lists(Dpos(o, deals), Registered(o))
           /\ Len(Dpos(o, deals)) + POWProducersPerRound <= TotalProducersPerRound
           /\ deals /\ Registered(o) # {} => Len(Dpos(o, deals)) > 0
<1>1. CASE ~deals
  BY <1>1, SeatsAssumption, SMTT(60) DEF Dpos, Lists
<1>2. CASE deals
  <2>1. PICK top : top = TopVoted(o)
    OBVIOUS
  <2>2. PICK runners : runners = RunnersUp(o)
    OBVIOUS
  <2>3. /\ Lists(top, Registered(o)) /\ Len(top) <= DPOSVotedProducersPerRound
        /\ Registered(o) # {} => Len(top) > 0
    BY <2>1, TopVotedLists
  <2>4. /\ Lists(runners, Registered(o) \ Range(top))
        /\ Len(runners) <= DPOSRunnerupProducersPerRound
    BY <2>1, <2>2, RunnersUpLists
  <2>5. \A i \in 1..Len(top) : top[i] \in Range(top)
    BY <2>3, SMTT(60) DEF Lists, Range
  <2>6. \A j \in 1..Len(runners) : runners[j] \notin Range(top)
    BY <2>4, SMTT(60) DEF Lists
  <2>7. Lists(top \o runners, Registered(o) \cup (Registered(o) \ Range(top)))
        /\ Len(top \o runners) = Len(top) + Len(runners)
    BY <2>3, <2>4, <2>5, <2>6, CatLists, SMTT(60)
  <2>8. Registered(o) \cup (Registered(o) \ Range(top)) = Registered(o)
    OBVIOUS
  <2>9. Len(top) \in Nat /\ Len(runners) \in Nat
    BY <2>3, <2>4, SMTT(60) DEF Lists
  <2>10. Dpos(o, deals) = top \o runners
    BY <1>2, <2>1, <2>2 DEF Dpos
  <2>11. Lists(top \o runners, Registered(o))
    BY <2>7, <2>8
  <2> QED BY <2>3, <2>4, <2>7, <2>9, <2>10, <2>11, SeatsAssumption, SMTT(60)
<1> QED BY <1>1, <1>2

\* popped: a queue that is too long has lost its first worker.
LEMMA PoppedIs ==
    ASSUME NEW queue, NEW total, QueueOK(queue, total), NEW witnesses,
           witnesses = Cardinality(Queued(queue)),
           NEW popped, popped = QueueAfterPop(queue, witnesses)
    PROVE  /\ QueueOK(popped, total) /\ Queued(popped) \subseteq Queued(queue)
           /\ \A a \in Accounts : popped[a] = queue[a] \/ (a \in Queued(queue) /\ popped[a] = 0)
           /\ Cardinality(Queued(popped)) = witnesses - (IF popped = queue THEN 0 ELSE 1)
           /\ witnesses # 0 => Queued(popped) # {}
<1>1. IsFiniteSet(Queued(queue)) /\ witnesses \in Nat
  BY SomeAccounts DEF Queued
<1>2. CASE ~Overfull(witnesses) \/ Queued(queue) = {}
  <2>1. popped = queue
    BY <1>2 DEF QueueAfterPop
  <2> QED BY <1>1, <2>1, FS_EmptySet, SMTT(60)
<1>3. CASE Overfull(witnesses) /\ Queued(queue) # {}
  <2>1. PICK s : s = by_pow(queue, Queued(queue))
    OBVIOUS
  <2>2. Lists(s, Queued(queue)) /\ Len(s) = witnesses
    BY <2>1, PowLists
  <2>3. witnesses > 1
    BY <1>1, <1>3, SeatsAssumption, SMTT(60) DEF Overfull
  <2>4. Head(s) \in Queued(queue)
    BY <2>2, <2>3, SMTT(60) DEF Lists
  <2>5. PICK h : h = Head(s)
    OBVIOUS
  <2>6. popped = [queue EXCEPT ![h] = 0]
    BY <1>3, <2>1, <2>5 DEF QueueAfterPop
  <2>7. queue \in [Accounts -> Nat \cup {None}] /\ h \in Accounts /\ queue[h] # 0
    BY <2>4, <2>5, QueuedHas DEF QueueOK
  <2>8. /\ popped \in [Accounts -> Nat \cup {None}] /\ popped[h] = 0
        /\ \A a \in Accounts : a # h => popped[a] = queue[a]
    BY <2>6, <2>7, SMTT(60)
  <2>9. Queued(popped) = Queued(queue) \ {h}
    BY <2>8 DEF Queued
  <2>10. Cardinality(Queued(popped)) = witnesses - 1
    BY <1>1, <2>4, <2>5, <2>9, FS_RemoveElement
  <2>11. popped # queue
    BY <2>7, <2>8
  <2>12. QueueOK(popped, total)
    <3>1. \A a \in Queued(popped) : a \in Queued(queue) /\ popped[a] = queue[a]
      BY <2>8, <2>9 DEF Queued
    <3> QED BY <2>8, <3>1, SMTT(60) DEF QueueOK
  <2>13. Queued(popped) # {}
    BY <1>1, <2>3, <2>10, FS_EmptySet, SMTT(60)
  <2>14. \A a \in Accounts : popped[a] = queue[a] \/ (a \in Queued(queue) /\ popped[a] = 0)
    BY <2>4, <2>5, <2>8
  <2> QED BY <2>9, <2>10, <2>11, <2>12, <2>13, <2>14
<1> QED BY <1>2, <1>3

\* With nobody registered in the queue, the loop takes the first workers, as many
\* as there are seats.
LEMMA VisitedIs ==
    ASSUME NEW S, NEW o, NEW waiting, Lists(waiting, S), \A a \in S : o[a] = None,
           NEW seats, seats \in Nat
    PROVE  /\ Lists(Visited(o, waiting, seats), S)
           /\ Len(Visited(o, waiting, seats)) <= seats
           /\ seats > 0 /\ Len(waiting) > 0 => Len(Visited(o, waiting, seats)) > 0
<1> DEFINE miners(n) == {i \in 1..n : o[waiting[i]] = None}
           ends == {n \in 0..Len(waiting) : n = 0 \/ Cardinality(miners(n - 1)) < seats}
<1>1. waiting \in Seq(S) /\ Len(waiting) \in Nat
  BY SMTT(60) DEF Lists
<1>2. ASSUME NEW n \in 1..Len(waiting) PROVE Cardinality(miners(n - 1)) = n - 1
  <2>1. miners(n - 1) = 1..(n - 1)
    BY <1>1, SMTT(60)
  <2>2. Cardinality(1..(n - 1)) = n - 1
    BY <1>1, FS_Interval, SMTT(60)
  <2> QED BY <2>1, <2>2
<1> HIDE DEF miners
<1>3. \A n \in 1..Len(waiting) : n \in ends <=> n - 1 < seats
  BY <1>1, <1>2, SMTT(60)
<1>4. ends \subseteq Nat /\ 0 \in ends /\ (\A n \in ends : n <= Len(waiting))
      /\ \A n \in ends : n # 0 => n \in 1..Len(waiting)
  BY <1>1, SMTT(60)
<1>5. Visited(o, waiting, seats) = First(waiting, Max(ends))
  BY DEF Visited, ends, miners
<1> HIDE DEF ends
<1>6. Max(ends) \in ends /\ \A n \in ends : n <= Max(ends)
  BY <1>1, <1>4, MaxIs
<1>7. PICK e : e = Max(ends)
  OBVIOUS
<1>8. e \in Nat /\ e <= Len(waiting) /\ (e # 0 => e - 1 < seats)
  BY <1>3, <1>4, <1>6, <1>7
<1>9. seats > 0 /\ Len(waiting) > 0 => e > 0
  <2>1. ASSUME seats > 0, Len(waiting) > 0 PROVE 1 \in ends
    <3>1. 1 \in 1..Len(waiting) /\ 1 - 1 < seats
      BY <1>1, <2>1, SMTT(60)
    <3> QED BY <3>1, <1>3
  <2> QED BY <2>1, <1>6, <1>7, <1>8, SMTT(60)
<1>10. PICK v : v = Visited(o, waiting, seats)
  OBVIOUS
<1>11. v = First(waiting, e)
  BY <1>5, <1>7, <1>10
<1>12. Lists(v, S)
  BY <1>8, <1>11, FirstLists
<1>13. Len(v) = IF e < Len(waiting) THEN e ELSE Len(waiting)
  BY <1>8, <1>11, FirstLists
<1> QED BY <1>1, <1>8, <1>9, <1>10, <1>12, <1>13, SMTT(60)

-----------------------------------------------------------------------------
(* The race.                                                               *)

\* A whole lap takes no longer than the race.
LEMMA TimeToFinishIs ==
    ASSUME NEW speed \in Int, NEW position \in Nat, position <= RaceLapLength
    PROVE  TimeToFinish(speed, position) \in 0..RaceLapLength
<1>1. RaceLapLength \in Nat /\ RaceLapLength - position \in Nat
  BY AccountsAssumption, SMTT(60)
<1>2. ASSUME NEW x \in Nat, NEW v \in Nat, v > 0 PROVE x \div v \in 0..x
  BY <1>2, SMTT(60)
<1>3. CASE speed > 0
  <2>1. (RaceLapLength - position) \div speed \in 0..(RaceLapLength - position)
    BY <1>1, <1>2, <1>3, SMTT(60)
  <2> QED BY <1>1, <1>3, <2>1, SMTT(60) DEF TimeToFinish
<1>4. CASE ~(speed > 0)
  BY <1>1, <1>4, SMTT(60) DEF TimeToFinish
<1> QED BY <1>3, <1>4

\* update: what a producer is given when the race time does not overflow.
LEMMA RacedIs ==
    ASSUME NEW id \in Nat, NEW speed \in Int, NEW position \in Nat, position <= RaceLapLength,
           NEW time \in Nat, ~Overflows(speed, position, time)
    PROVE  LET r == Raced(id, speed, position, time)
           IN  /\ r \in ProducerVotes /\ r # None
               /\ r.id = id /\ r.speed = speed /\ r.position = position /\ r.time = time
               /\ r.finish = time + TimeToFinish(speed, position)
               /\ time <= r.finish /\ r.finish <= RaceLapLength
<1>1. PICK ttf : ttf = TimeToFinish(speed, position)
  OBVIOUS
<1>2. ttf \in Nat /\ RaceLapLength \in Nat /\ time + ttf \in Nat
      /\ time <= time + ttf /\ time + ttf <= RaceLapLength
  <2>1. ttf \in 0..RaceLapLength
    BY <1>1, TimeToFinishIs
  <2>2. RaceLapLength \in Nat /\ ~(time > RaceLapLength - ttf)
    BY <1>1, AccountsAssumption DEF Overflows
  <2> QED BY <2>1, <2>2, SMTT(60)
<1>3. PICK r : r = Raced(id, speed, position, time)
  OBVIOUS
<1>4. r = [id |-> id, speed |-> speed, position |-> position, time |-> time, finish |-> time + ttf]
  BY <1>1, <1>3 DEF Raced
<1>5. r \in ProducerVotes
  BY <1>2, <1>4 DEF ProducerVotes
<1>6. r # None
  BY <1>5, AccountsAssumption
<1> QED BY <1>1, <1>2, <1>3, <1>4, <1>5, <1>6, SMTT(60)

\* The race after a round: everyone keeps their object, and those who did not
\* start a new lap have not passed the line.
LEMMA RaceAfterIs ==
    ASSUME NEW o, NEW n, NEW t, t \in Nat, RaceOK(o, n, t),
           NEW runners, Lists(runners, Registered(o)), Len(runners) > 0,
           NEW race, race = RaceAfter(o, runners)
    PROVE  /\ RaceOK(race.pvo, n, race.time) /\ race.time \in 0..RaceLapLength
           /\ Registered(race.pvo) = Registered(o)
<1> DEFINE last == runners[Len(runners)]
           final == o[last].finish
           completers == {a \in Registered(o) : a = last \/ FinishesBefore(o, a, last)}
           laps == /\ completers # Registered(o)
                   /\ final < RaceLapLength
                   /\ \A a \in completers : ~Overflows(o[a].speed, 0, final)
           time == IF laps THEN final ELSE 0
           restarted == IF laps THEN completers ELSE Registered(o)
           after == [a \in Accounts |->
                       IF a \in restarted THEN startNewRaceLap(o[a], time) ELSE o[a]]
<1>1. race.pvo = after /\ race.time = time
  BY DEF RaceAfter
<1>2. last \in Registered(o)
  BY SMTT(60) DEF Lists
<1>3. \A a \in Registered(o) :
          /\ a \in Accounts /\ o[a] \in ProducerVotes /\ o[a] # None
          /\ o[a].id \in Nat /\ o[a].speed \in Int /\ o[a].position \in Nat
          /\ o[a].time \in Nat /\ o[a].finish \in Nat
  <2>1. \A a \in Registered(o) : o[a] # None
    BY DEF Registered
  <2> QED BY <2>1, RegisteredHas
<1>4. final \in Nat /\ final <= RaceLapLength /\ t <= final
  BY <1>2, <1>3 DEF RaceOK
<1>5. RaceLapLength \in Nat
  BY AccountsAssumption
<1>6. restarted \subseteq Registered(o) /\ time \in Nat /\ time <= RaceLapLength
  BY <1>4, <1>5, SMTT(60)
<1>7. ASSUME NEW a \in restarted PROVE ~Overflows(o[a].speed, 0, time)
  <2>1. CASE laps
    BY <1>7, <2>1
  <2>2. CASE ~laps
    <3>1. TimeToFinish(o[a].speed, 0) \in 0..RaceLapLength
      <4>1. o[a].speed \in Int
        BY <1>3, <1>6
      <4>2. 0 \in Nat /\ 0 <= RaceLapLength
        BY <1>5, SMTT(60)
      <4> HIDE DEF restarted
      <4> QED BY <4>1, <4>2, TimeToFinishIs
    <3>2. time = 0
      BY <2>2
    <3> HIDE DEF time
    <3> QED BY <1>5, <3>1, <3>2, SMTT(60) DEF Overflows
  <2> QED BY <2>1, <2>2
<1>8. ASSUME NEW a \in Registered(o), a \notin restarted
      PROVE  o[a].time <= time /\ time <= o[a].finish
  <2>1. laps /\ a # last /\ ~FinishesBefore(o, a, last)
    BY <1>8
  <2>2. time = final
    BY <2>1
  <2>3. final <= o[a].finish
    BY <1>2, <1>3, <2>1, SMTT(60) DEF FinishesBefore
  <2>4. o[a].time <= t
    BY DEF RaceOK
  <2> HIDE DEF time
  <2> QED BY <1>3, <1>4, <2>2, <2>3, <2>4, SMTT(60)
<1>9. \A a \in Accounts : after[a] = IF a \in restarted
                                     THEN Raced(o[a].id, o[a].speed, 0, time) ELSE o[a]
  BY DEF startNewRaceLap
<1>10. DOMAIN after = Accounts /\ after = [a \in Accounts |-> after[a]]
  OBVIOUS
<1> HIDE DEF after, time, restarted, laps, completers, final, last
<1>11. ASSUME NEW a \in restarted
       PROVE  /\ after[a] \in ProducerVotes /\ after[a] # None
              /\ after[a].id = o[a].id /\ after[a].position <= RaceLapLength
              /\ after[a].time <= time /\ time <= after[a].finish
              /\ after[a].finish <= RaceLapLength
              /\ after[a].finish = after[a].time + TimeToFinish(after[a].speed, after[a].position)
  <2>1. a \in Registered(o) /\ after[a] = Raced(o[a].id, o[a].speed, 0, time)
    BY <1>3, <1>6, <1>9
  <2>2. PICK r : r = after[a]
    OBVIOUS
  <2>3. /\ r \in ProducerVotes /\ r # None /\ r.id = o[a].id /\ r.position = 0 /\ r.time = time
        /\ r.speed = o[a].speed
        /\ r.finish = time + TimeToFinish(o[a].speed, 0)
        /\ time <= r.finish /\ r.finish <= RaceLapLength
    BY <1>3, <1>5, <1>6, <1>7, <2>1, <2>2, RacedIs, SMTT(60)
  <2> QED BY <1>5, <1>6, <2>2, <2>3, SMTT(60)
<1>12. ASSUME NEW a \in Accounts, a \notin restarted PROVE after[a] = o[a]
  BY <1>9, <1>12
<1>13. after \in [Accounts -> ProducerVotes \cup {None}]
  <2>1. \A a \in Accounts : after[a] \in ProducerVotes \cup {None}
    BY <1>11, <1>12 DEF RaceOK
  <2> QED BY <1>10, <2>1
<1>14. Registered(after) = Registered(o)
  BY <1>3, <1>6, <1>11, <1>12 DEF Registered
<1>15. \A a \in Registered(o) : after[a].id = o[a].id
  BY <1>3, <1>11, <1>12
<1>16. ASSUME NEW a \in Registered(o)
       PROVE  /\ after[a].id < n /\ after[a].position <= RaceLapLength
              /\ after[a].time <= time /\ time <= after[a].finish
              /\ after[a].finish <= RaceLapLength
              /\ after[a].finish = after[a].time + TimeToFinish(after[a].speed, after[a].position)
  <2>1. CASE a \in restarted
    BY <1>11, <1>15, <2>1 DEF RaceOK
  <2>2. CASE a \notin restarted
    BY <1>3, <1>8, <1>12, <2>2 DEF RaceOK
  <2> QED BY <2>1, <2>2
<1>17. RaceOK(after, n, time)
  <2>1. \A a, b \in Registered(o) : after[a].id = after[b].id => a = b
    BY <1>15 DEF RaceOK
  <2> QED BY <1>13, <1>14, <1>16, <2>1 DEF RaceOK
<1> QED BY <1>1, <1>5, <1>6, <1>14, <1>17, SMTT(60)

-----------------------------------------------------------------------------
(* calculateNextRound.                                                     *)

\* A round with empty seats behind those that were dealt.
LEMMA WithEmptyIs ==
    ASSUME NEW s, Lists(s, Accounts), 0 < Len(s), Len(s) <= TotalProducersPerRound,
           NEW queue, \A i \in 1..Len(s) : queue[s[i]] # None
    PROVE  RoundOK(WithEmpty(s), queue)
<1> DEFINE k == TotalProducersPerRound - Len(s)
           e == [i \in 1..k |-> Empty]
<1>1. s \in Seq(Accounts) /\ Len(s) \in Nat /\ TotalProducersPerRound \in Nat /\ k \in Nat
  BY SeatsAssumption, SMTT(60) DEF Lists
<1>2. e \in Seq(Accounts \cup {Empty}) /\ Len(e) = k /\ \A i \in 1..k : e[i] = Empty
  BY <1>1, SMTT(60)
<1>3. s \in Seq(Accounts \cup {Empty})
  BY <1>1, SMTT(60)
<1>4. WithEmpty(s) = s \o e
  BY DEF WithEmpty
<1>5. PICK r : r = s \o e
  OBVIOUS
<1> HIDE DEF e
<1>6. /\ r \in Seq(Accounts \cup {Empty}) /\ Len(r) = Len(s) + k
      /\ \A i \in 1..Len(r) : r[i] = IF i <= Len(s) THEN s[i] ELSE e[i - Len(s)]
  BY <1>1, <1>2, <1>3, <1>5, SMTT(60)
<1>7. Len(r) = TotalProducersPerRound
  BY <1>1, <1>6, SMTT(60)
<1>8. \A i \in 1..Len(s) : i \in 1..TotalProducersPerRound /\ r[i] = s[i] /\ s[i] # Empty
  <2>1. \A i \in 1..Len(s) : s[i] \in Accounts
    BY <1>1, SMTT(60)
  <2> QED BY <1>1, <1>6, <1>7, <2>1, AccountsAssumption, SMTT(60) DEF Empty
<1>9. ASSUME NEW i \in 1..TotalProducersPerRound, i \notin 1..Len(s) PROVE r[i] = Empty
  <2>1. i - Len(s) \in 1..k /\ ~(i <= Len(s)) /\ i \in 1..Len(r)
    BY <1>1, <1>7, <1>9, SMTT(60)
  <2> QED BY <1>2, <1>6, <2>1
<1>10. ASSUME NEW i \in 1..TotalProducersPerRound, NEW j \in 1..TotalProducersPerRound,
              i # j, r[i] # Empty
       PROVE  r[i] # r[j]
  <2>1. i \in 1..Len(s) /\ r[i] = s[i]
    BY <1>8, <1>9, <1>10
  <2>2. CASE j \in 1..Len(s)
    BY <1>8, <1>10, <2>1, <2>2 DEF Lists
  <2>3. CASE j \notin 1..Len(s)
    BY <1>9, <1>10, <2>3
  <2> QED BY <2>2, <2>3
<1>11. 1 \in 1..TotalProducersPerRound /\ r[1] # Empty
  BY <1>1, <1>8, SMTT(60)
<1>12. \A i \in 1..TotalProducersPerRound : r[i] # Empty => queue[r[i]] # None
  BY <1>8, <1>9
<1>13. RoundOK(r, queue)
  BY <1>6, <1>7, <1>10, <1>11, <1>12 DEF RoundOK
<1> QED BY <1>4, <1>5, <1>13

\* The workers who got a seat have left the queue.
LEMMA LeftIs ==
    ASSUME NEW queue, NEW total, QueueOK(queue, total),
           NEW visited, Lists(visited, Queued(queue)),
           NEW left, left = [a \in Accounts |-> IF a \in Range(visited) THEN 0 ELSE queue[a]]
    PROVE  /\ QueueOK(left, total)
           /\ Cardinality(Queued(left)) = Cardinality(Queued(queue)) - Len(visited)
           /\ \A a \in Accounts : left[a] = queue[a] \/ (a \in Queued(queue) /\ left[a] = 0)
<1>1. /\ Range(visited) \subseteq Queued(queue) /\ IsFiniteSet(Range(visited))
      /\ Cardinality(Range(visited)) = Len(visited)
  BY ListCounts
<1>2. IsFiniteSet(Queued(queue))
  BY SomeAccounts DEF Queued
<1>3. \A a \in Accounts : left[a] = IF a \in Range(visited) THEN 0 ELSE queue[a]
  OBVIOUS
<1>4. queue \in [Accounts -> Nat \cup {None}]
  BY DEF QueueOK
<1>5. left \in [Accounts -> Nat \cup {None}]
  BY <1>4
<1>6. Queued(left) = Queued(queue) \ Range(visited)
  BY <1>3 DEF Queued
<1>7. Queued(queue) \cap Range(visited) = Range(visited)
  BY <1>1
<1>8. Cardinality(Queued(left)) = Cardinality(Queued(queue)) - Len(visited)
  <2>1. Cardinality(Queued(queue) \ Range(visited))
            = Cardinality(Queued(queue)) - Cardinality(Queued(queue) \cap Range(visited))
    BY <1>2, FS_Difference
  <2> QED BY <1>1, <1>6, <1>7, <2>1
<1>9. \A a \in Queued(left) : a \in Queued(queue) /\ left[a] = queue[a]
  BY <1>3, <1>6 DEF Queued
<1>10. QueueOK(left, total)
  BY <1>5, <1>9, SMTT(60) DEF QueueOK
<1> QED BY <1>1, <1>3, <1>8, <1>10

\* Everything calculateNextRound leaves behind is in order again.
LEMMA RoundIs ==
    ASSUME NEW o, NEW n, NEW queue, NEW total, NEW witnesses, NEW number,
           Sound(o, n, currentRaceTime, queue, total, witnesses), Registered(o) # {},
           NEW r, r = calculateNextRound(o, queue, witnesses, number)
    PROVE  /\ Sound(r.pvo, n, r.time, r.queue, total, r.witnesses)
           /\ RoundOK(r.round, r.queue)
           /\ Registered(r.pvo) = Registered(o)
           /\ \A a \in Accounts : queue[a] # None => r.queue[a] # None
<1> DEFINE deals == DealsDpos(number, witnesses)
           runners == Runners(o, deals)
           dpos == Dpos(o, deals)
           popped == QueueAfterPop(queue, witnesses)
           waiting == by_pow(popped, Queued(popped) \ Range(dpos))
           seats == PowSeats(number, Len(dpos))
           visited == Visited(o, waiting, seats)
           miners == by_pow(popped, {a \in Range(visited) : o[a] = None})
           left == [a \in Accounts |-> IF a \in Range(visited) THEN 0 ELSE popped[a]]
           race == IF runners = <<>> THEN [pvo |-> o, time |-> currentRaceTime]
                   ELSE RaceAfter(o, runners)
<1>1. /\ r.round = WithEmpty(dpos \o miners) /\ r.queue = left
      /\ r.pvo = race.pvo /\ r.time = race.time
      /\ r.witnesses = witnesses - Len(visited) - (IF popped = queue THEN 0 ELSE 1)
  BY DEF calculateNextRound, Runners, Dpos
<1>2. /\ RaceOK(o, n, currentRaceTime) /\ QueueOK(queue, total)
      /\ \A a \in Registered(o) : queue[a] = 0
      /\ witnesses = Cardinality(Queued(queue)) /\ witnesses <= total
      /\ n \in Nat /\ total \in Nat /\ currentRaceTime \in 0..RaceLapLength
      /\ RaceLapLength \in Nat
  BY AccountsAssumption DEF Sound
<1>3. witnesses \in Nat
  BY <1>2, SomeAccounts DEF Queued
<1>4. deals \in BOOLEAN /\ (~deals => witnesses # 0 /\ ~(number > StartMinerVotingBlock))
  BY DEF DealsDpos
<1> HIDE DEF deals
<1>5. /\ Lists(dpos, Registered(o)) /\ Len(dpos) + POWProducersPerRound <= TotalProducersPerRound
      /\ deals => Len(dpos) > 0
      /\ ~deals => Len(dpos) = 0
  <2>1. Lists(dpos, Registered(o))
    BY <1>2, <1>4, DposLists
  <2>2. Len(dpos) + POWProducersPerRound <= TotalProducersPerRound
    BY <1>2, <1>4, DposLists
  <2>3. deals => Len(dpos) > 0
    BY <1>2, <1>4, DposLists
  <2>4. ~deals => Len(dpos) = 0
    BY DEF Dpos
  <2> QED BY <2>1, <2>2, <2>3, <2>4
<1>6. /\ QueueOK(popped, total) /\ Queued(popped) \subseteq Queued(queue)
      /\ \A a \in Accounts : popped[a] = queue[a] \/ (a \in Queued(queue) /\ popped[a] = 0)
      /\ Cardinality(Queued(popped)) = witnesses - (IF popped = queue THEN 0 ELSE 1)
      /\ witnesses # 0 => Queued(popped) # {}
  <2> HIDE DEF popped
  <2>1. popped = QueueAfterPop(queue, witnesses)
    BY DEF popped
  <2> QED BY <1>2, <2>1, PoppedIs, SMTT(60)
<1> HIDE DEF dpos, popped
<1>7. \A a \in Queued(popped) : a \in Accounts /\ a \notin Registered(o) /\ o[a] = None
                                /\ popped[a] # None
  BY <1>2, <1>6 DEF Queued, Registered
<1>8. Queued(popped) \ Range(dpos) = Queued(popped)
  <2>1. Range(dpos) \subseteq Registered(o)
    BY <1>5, ListCounts
  <2> QED BY <1>7, <2>1
<1>9. Lists(waiting, Queued(popped)) /\ Len(waiting) = Cardinality(Queued(popped))
  BY <1>6, <1>8, PowLists
<1>10. Len(dpos) \in Nat /\ TotalProducersPerRound \in Nat /\ POWProducersPerRound \in Nat
  BY <1>5, SeatsAssumption, SMTT(60) DEF Lists
<1>11. seats \in Nat /\ Len(dpos) + seats <= TotalProducersPerRound
  BY <1>5, <1>10, SMTT(60) DEF PowSeats
<1>12. ~deals => seats > 0 /\ Len(waiting) > 0
  <2>1. ASSUME ~deals PROVE seats > 0
    <3>1. seats = TotalProducersPerRound - Len(dpos) /\ Len(dpos) = 0
      BY <1>4, <1>5, <2>1 DEF PowSeats
    <3> HIDE DEF seats
    <3> QED BY <3>1, SeatsAssumption, SMTT(60)
  <2>2. ASSUME ~deals PROVE Len(waiting) > 0
    <3>1. Queued(popped) # {} /\ IsFiniteSet(Queued(popped)) /\ Cardinality(Queued(popped)) \in Nat
      BY <1>4, <1>6, <2>2, SomeAccounts DEF Queued
    <3> HIDE DEF waiting
    <3> QED BY <1>9, <3>1, FS_EmptySet, SMTT(60)
  <2> QED BY <2>1, <2>2
<1> HIDE DEF waiting, seats
<1>13. /\ Lists(visited, Queued(popped)) /\ Len(visited) <= seats
       /\ ~deals => Len(visited) > 0
  BY <1>7, <1>9, <1>11, <1>12, VisitedIs
<1> HIDE DEF visited
<1>14. /\ Range(visited) \subseteq Queued(popped) /\ Len(visited) \in Nat
       /\ Cardinality(Range(visited)) = Len(visited)
  BY <1>13, ListCounts, SMTT(60) DEF Lists
<1>15. {a \in Range(visited) : o[a] = None} = Range(visited)
  BY <1>7, <1>14
<1>16. Lists(miners, Range(visited)) /\ Len(miners) = Len(visited)
  BY <1>6, <1>14, <1>15, PowLists
<1> HIDE DEF miners
<1>17. Lists(miners, Queued(popped))
  BY <1>14, <1>16, SMTT(60) DEF Lists
<1>18. Lists(dpos \o miners, Registered(o) \cup Queued(popped))
       /\ Len(dpos \o miners) = Len(dpos) + Len(miners)
  <2>1. \A i \in 1..Len(dpos) : dpos[i] \in Registered(o)
    BY <1>5, SMTT(60) DEF Lists
  <2>2. \A j \in 1..Len(miners) : miners[j] \in Queued(popped)
    BY <1>17, SMTT(60) DEF Lists
  <2>3. \A i \in 1..Len(dpos), j \in 1..Len(miners) : dpos[i] # miners[j]
    BY <1>7, <2>1, <2>2
  <2> QED BY <1>5, <1>17, <2>3, CatLists, SMTT(60)
<1>19. PICK s : s = dpos \o miners
  OBVIOUS
<1>20. Lists(s, Registered(o) \cup Queued(popped)) /\ Len(s) = Len(dpos) + Len(visited)
  BY <1>16, <1>18, <1>19
<1>21. /\ QueueOK(left, total)
       /\ Cardinality(Queued(left)) = Cardinality(Queued(popped)) - Len(visited)
       /\ \A a \in Accounts : left[a] = popped[a] \/ (a \in Queued(popped) /\ left[a] = 0)
  <2>1. PICK l : l = left
    OBVIOUS
  <2>2. l = [a \in Accounts |-> IF a \in Range(visited) THEN 0 ELSE popped[a]]
    BY <2>1
  <2> HIDE DEF left
  <2>3. /\ QueueOK(l, total)
        /\ Cardinality(Queued(l)) = Cardinality(Queued(popped)) - Len(visited)
        /\ \A a \in Accounts : l[a] = popped[a] \/ (a \in Queued(popped) /\ l[a] = 0)
    BY <1>6, <1>13, <2>2, LeftIs
  <2> QED BY <2>1, <2>3
<1> HIDE DEF left
<1>22. None # 0
  BY AccountsAssumption, SMTT(60)
<1>23. \A a \in Accounts : queue[a] # None => left[a] # None
  BY <1>6, <1>21, <1>22
<1>24. RoundOK(WithEmpty(s), left)
  <2>1. Registered(o) \cup Queued(popped) \subseteq Accounts
    BY DEF Registered, Queued
  <2>2. Lists(s, Accounts)
    BY <1>20, <2>1, SMTT(60) DEF Lists
  <2>3. \A a \in Registered(o) \cup Queued(popped) : a \in Accounts /\ queue[a] # None
    BY <1>2, <1>6, <1>22, <2>1 DEF Queued
  <2>4. \A i \in 1..Len(s) : left[s[i]] # None
    BY <1>20, <1>23, <2>3, SMTT(60) DEF Lists
  <2>5. 0 < Len(s) /\ Len(s) <= TotalProducersPerRound
    BY <1>5, <1>10, <1>11, <1>13, <1>14, <1>20, SMTT(60)
  <2> QED BY <2>2, <2>4, <2>5, WithEmptyIs
<1>25. /\ RaceOK(race.pvo, n, race.time) /\ race.time \in 0..RaceLapLength
       /\ Registered(race.pvo) = Registered(o)
  <2>1. CASE runners = <<>>
    BY <1>2, <2>1
  <2>2. CASE runners # <<>>
    <3>1. runners = RunnersUp(o)
      BY <2>2 DEF Runners
    <3>2. Lists(runners, Registered(o) \ Range(TopVoted(o)))
      BY <1>2, <3>1, RunnersUpLists
    <3>3. Lists(runners, Registered(o)) /\ Len(runners) > 0
      BY <2>2, <3>2, SMTT(60) DEF Lists
    <3>4. race = RaceAfter(o, runners)
      BY <2>2
    <3> HIDE DEF race, runners
    <3>5. currentRaceTime \in Nat
      BY <1>2, SMTT(60)
    <3> QED BY <1>2, <3>3, <3>4, <3>5, RaceAfterIs
  <2> QED BY <2>1, <2>2
<1> HIDE DEF race
<1>26. r.witnesses = Cardinality(Queued(left)) /\ r.witnesses <= total
  BY <1>1, <1>2, <1>3, <1>6, <1>14, <1>21, SMTT(60)
<1>27. \A a \in Registered(o) : left[a] = 0
  BY <1>2, <1>6, <1>21 DEF Registered
<1>28. Sound(r.pvo, n, r.time, r.queue, total, r.witnesses)
  BY <1>1, <1>2, <1>21, <1>25, <1>26, <1>27 DEF Sound
<1> QED BY <1>1, <1>19, <1>23, <1>24, <1>25, <1>28

-----------------------------------------------------------------------------
(* update_pow and update_pvomi_perblock.                                   *)

VotesTyped ==
    /\ info \in [Accounts -> VoteInfo \cup {None}]
    /\ counted \in [Accounts -> VoteInfo \cup {None}]
    /\ all_votes \in [Accounts -> 0..MaxVotes \cup {None}]

\* The record of an account has a number of votes.
LEMMA RecordHas ==
    ASSUME NEW a, NEW f \in [Accounts -> VoteInfo \cup {None}], a \in Accounts, f[a] # None
    PROVE  f[a].votes \in 0..MaxVotes /\ f[a].votes \in Nat
<1>1. MaxVotes \in Nat
  BY AccountsAssumption
<1>2. f[a] \in VoteInfo
  OBVIOUS
<1>3. CASE f[a] \in [candidate : {TRUE}, votes : 0..MaxVotes]
  BY <1>1, <1>3, SMTT(60)
<1>4. CASE f[a] \in [candidate : {FALSE}, votes : {0}]
  BY <1>1, <1>4, SMTT(60)
<1> QED BY <1>2, <1>3, <1>4 DEF VoteInfo

\* updateVotes: a producer's new speed, and a position on the lap.
LEMMA UpdatedHas ==
    ASSUME VotesTyped, RaceOK(pvo, next_id, currentRaceTime), currentRaceTime \in Nat,
           NEW a \in Updated, pvo[a] # None
    PROVE  /\ a \in Registered(pvo) /\ NewSpeed(a) \in Int
           /\ Position(pvo[a]) \in Nat /\ Position(pvo[a]) <= RaceLapLength
<1>1. a \in Accounts /\ info[a] # None /\ all_votes[a] # None
  BY DEF Updated, Candidates
<1>2. a \in Registered(pvo)
  BY <1>1 DEF Registered
<1>3. pvo[a].speed \in Int /\ pvo[a].position \in Nat /\ pvo[a].time \in Nat
  BY <1>2, RegisteredHas
<1>4. info[a].votes \in Nat
  BY <1>1, RecordHas DEF VotesTyped
<1>5. all_votes[a] \in Nat
  BY <1>1, AccountsAssumption, SMTT(60) DEF VotesTyped
<1>6. PICK x : x = pvo[a].position + pvo[a].speed * (currentRaceTime - pvo[a].time)
  OBVIOUS
<1>7. x \in Int /\ RaceLapLength + 1 \in Nat /\ RaceLapLength + 1 > 0 /\ RaceLapLength \in Nat
  BY <1>3, <1>6, AccountsAssumption, SMTT(60)
<1>8. x % (RaceLapLength + 1) \in 0..RaceLapLength
  BY <1>7, SMTT(60)
<1>9. Position(pvo[a]) = x % (RaceLapLength + 1)
  BY <1>6 DEF Position
<1>10. NewSpeed(a) \in Int
  BY <1>3, <1>4, <1>5, SMTT(60) DEF NewSpeed
<1> QED BY <1>2, <1>7, <1>8, <1>9, <1>10, SMTT(60)

\* Who has an object once the votes are carried over.
LEMMA RegisteredAfterVotes ==
    ASSUME VotesTyped, RaceOK(pvo, next_id, currentRaceTime), currentRaceTime \in Nat,
           next_id \in Nat, VotesApply
    PROVE  /\ RaceOK(PvoAfterVotes, next_id + Cardinality(Created), currentRaceTime)
           /\ Registered(PvoAfterVotes) = (Registered(pvo) \ Inactive) \cup Created
           /\ next_id + Cardinality(Created) \in Nat
<1> DEFINE after == PvoAfterVotes
           number(a) == next_id + Place(a, Created) - 1
<1>1. /\ Created \subseteq Accounts /\ Updated \subseteq Accounts
      /\ Created \cap Updated = {} /\ Created \cap Inactive = {} /\ Updated \cap Inactive = {}
  BY DEF Created, Updated, Inactive, Candidates
<1>2. IsFiniteSet(Created) /\ Cardinality(Created) \in Nat /\ Created \subseteq Nat
  BY <1>1, SomeAccounts, AccountsAssumption
<1>3. RaceLapLength \in Nat
  BY AccountsAssumption
<1>4. ASSUME NEW a \in Created
      PROVE  number(a) \in Nat /\ number(a) >= next_id /\ number(a) < next_id + Cardinality(Created)
  <2>1. PICK p : p = Place(a, Created)
    OBVIOUS
  <2>2. p \in Nat \ {0} /\ p <= Cardinality(Created)
    BY <1>2, <2>1, PlaceIs
  <2> QED BY <1>2, <2>1, <2>2, SMTT(60)
<1>5. ASSUME NEW a \in Created, NEW b \in Created, number(a) = number(b) PROVE a = b
  <2>1. PICK p, q : p = Place(a, Created) /\ q = Place(b, Created)
    OBVIOUS
  <2>2. p \in Nat /\ q \in Nat
    BY <1>2, <2>1, PlaceIs
  <2>3. p = q
    BY <1>5, <2>1, <2>2, SMTT(60)
  <2> QED BY <1>2, <2>1, <2>3, PlaceIs
<1>6. ASSUME NEW a \in Created
      PROVE  /\ after[a] \in ProducerVotes /\ after[a] # None /\ after[a].id = number(a)
             /\ after[a].position <= RaceLapLength
             /\ after[a].time <= currentRaceTime /\ currentRaceTime <= after[a].finish
             /\ after[a].finish <= RaceLapLength
             /\ after[a].finish = after[a].time + TimeToFinish(after[a].speed, after[a].position)
  <2>1. after[a] = Raced(number(a), 0, 0, currentRaceTime)
    BY <1>1 DEF PvoAfterVotes
  <2>2. ~Overflows(0, 0, currentRaceTime)
    BY DEF VotesApply
  <2>3. PICK i : i = number(a)
    OBVIOUS
  <2>4. PICK r : r = after[a]
    OBVIOUS
  <2>5. 0 \in Int /\ 0 \in Nat /\ 0 <= RaceLapLength /\ i \in Nat
    BY <1>3, <1>4, <2>3, SMTT(60)
  <2>6. r = Raced(i, 0, 0, currentRaceTime)
    BY <2>1, <2>3, <2>4
  <2>7. /\ r \in ProducerVotes /\ r # None /\ r.id = i
        /\ r.position = 0 /\ r.time = currentRaceTime /\ r.speed = 0
        /\ r.finish = currentRaceTime + TimeToFinish(0, 0)
        /\ currentRaceTime <= r.finish /\ r.finish <= RaceLapLength
    BY <2>2, <2>5, <2>6, RacedIs, SMTT(60)
  <2>8. r.position <= RaceLapLength /\ r.time <= currentRaceTime
        /\ r.finish = r.time + TimeToFinish(r.speed, r.position)
    BY <1>3, <2>7, SMTT(60)
  <2> QED BY <2>3, <2>4, <2>7, <2>8
<1>7. ASSUME NEW a \in Updated
      PROVE  /\ a \in Registered(pvo)
             /\ after[a] \in ProducerVotes /\ after[a] # None /\ after[a].id = pvo[a].id
             /\ after[a].position <= RaceLapLength
             /\ after[a].time <= currentRaceTime /\ currentRaceTime <= after[a].finish
             /\ after[a].finish <= RaceLapLength
             /\ after[a].finish = after[a].time + TimeToFinish(after[a].speed, after[a].position)
  <2>1. after[a] = Raced(pvo[a].id, NewSpeed(a), Position(pvo[a]), currentRaceTime)
    BY <1>1 DEF PvoAfterVotes
  <2>2. pvo[a] # None /\ ~Overflows(NewSpeed(a), Position(pvo[a]), currentRaceTime)
    BY DEF VotesApply
  <2>3. PICK i, v, x, r : i = pvo[a].id /\ v = NewSpeed(a) /\ x = Position(pvo[a]) /\ r = after[a]
    OBVIOUS
  <2>4. a \in Registered(pvo) /\ v \in Int /\ x \in Nat /\ x <= RaceLapLength
    BY <2>2, <2>3, UpdatedHas
  <2>5. i \in Nat
    BY <2>3, <2>4, RegisteredHas
  <2>6. r = Raced(i, v, x, currentRaceTime) /\ ~Overflows(v, x, currentRaceTime)
    BY <2>1, <2>2, <2>3
  <2>7. /\ r \in ProducerVotes /\ r # None /\ r.id = i
        /\ r.position = x /\ r.time = currentRaceTime /\ r.speed = v
        /\ r.finish = currentRaceTime + TimeToFinish(v, x)
        /\ currentRaceTime <= r.finish /\ r.finish <= RaceLapLength
    BY <2>4, <2>5, <2>6, RacedIs, SMTT(60)
  <2>8. r.position <= RaceLapLength /\ r.time <= currentRaceTime
        /\ r.finish = r.time + TimeToFinish(r.speed, r.position)
    BY <2>4, <2>7, SMTT(60)
  <2> QED BY <2>3, <2>4, <2>7, <2>8
<1>8. ASSUME NEW a \in Accounts, a \notin Created, a \notin Updated
      PROVE  after[a] = IF a \in Inactive THEN None ELSE pvo[a]
  BY <1>8 DEF PvoAfterVotes
<1>9. \A a \in Registered(pvo) : a \in Accounts /\ a \notin Created
  BY DEF VotesApply, Registered
<1>10. after \in [Accounts -> ProducerVotes \cup {None}]
  <2>1. \A a \in Accounts : after[a] \in ProducerVotes \cup {None}
    BY <1>6, <1>7, <1>8 DEF RaceOK
  <2> QED BY <2>1 DEF PvoAfterVotes
<1> HIDE DEF after, number
<1>11. Registered(after) = (Registered(pvo) \ Inactive) \cup Created
  BY <1>1, <1>6, <1>7, <1>8 DEF Registered
<1>12. ASSUME NEW a \in Registered(after), a \notin Created
       PROVE  /\ a \in Registered(pvo) /\ after[a].id = pvo[a].id /\ pvo[a].id < next_id
              /\ pvo[a].id \in Nat
              /\ after[a].position <= RaceLapLength
              /\ after[a].time <= currentRaceTime /\ currentRaceTime <= after[a].finish
              /\ after[a].finish <= RaceLapLength
              /\ after[a].finish = after[a].time + TimeToFinish(after[a].speed, after[a].position)
  <2>1. a \in Registered(pvo) /\ a \notin Inactive /\ a \in Accounts
    BY <1>9, <1>11, <1>12
  <2>2. pvo[a].id < next_id /\ pvo[a].id \in Nat
    <3>1. pvo[a].id < next_id
      BY <2>1 DEF RaceOK
    <3> QED BY <2>1, <3>1, RegisteredHas
  <2>3. CASE a \in Updated
    BY <1>7, <2>1, <2>2, <2>3
  <2>4. CASE a \notin Updated
    <3>1. after[a] = pvo[a]
      BY <1>8, <1>12, <2>1, <2>4
    <3> QED BY <2>1, <2>2, <3>1 DEF RaceOK
  <2> QED BY <2>3, <2>4
<1>13. ASSUME NEW a \in Registered(after)
       PROVE  /\ after[a].id < next_id + Cardinality(Created)
              /\ after[a].position <= RaceLapLength
              /\ after[a].time <= currentRaceTime /\ currentRaceTime <= after[a].finish
              /\ after[a].finish <= RaceLapLength
              /\ after[a].finish = after[a].time + TimeToFinish(after[a].speed, after[a].position)
  <2>1. CASE a \in Created
    BY <1>4, <1>6, <2>1
  <2>2. CASE a \notin Created
    <3>1. after[a].id < next_id + Cardinality(Created)
      BY <1>2, <1>12, <2>2, SMTT(60)
    <3> QED BY <1>12, <2>2, <3>1
  <2> QED BY <2>1, <2>2
<1>14. ASSUME NEW a \in Registered(after), NEW b \in Registered(after), after[a].id = after[b].id
       PROVE  a = b
  <2>1. CASE a \in Created /\ b \in Created
    BY <1>5, <1>6, <1>14, <2>1, SMTT(60)
  <2>2. CASE a \in Created /\ b \notin Created
    BY <1>4, <1>6, <1>12, <1>14, <2>2, SMTT(60)
  <2>3. CASE a \notin Created /\ b \in Created
    BY <1>4, <1>6, <1>12, <1>14, <2>3, SMTT(60)
  <2>4. CASE a \notin Created /\ b \notin Created
    BY <1>12, <1>14, <2>4 DEF RaceOK
  <2> QED BY <2>1, <2>2, <2>3, <2>4
<1>15. RaceOK(after, next_id + Cardinality(Created), currentRaceTime)
  BY <1>10, <1>13, <1>14 DEF RaceOK
<1> QED BY <1>2, <1>11, <1>15, SMTT(60) DEF after


\* update_pow and the registrations keep the queue, its numbers and its count.
LEMMA QueueAfterIs ==
    ASSUME Sound(pvo, next_id, currentRaceTime, pow_worker, total_pow, num_pow_witnesses),
           NEW ops \in SUBSET Accounts, NEW joined, joined = QueueAfterPow(ops),
           NEW queue, queue = QueueAfterVotes(joined), NEW total,
           total = total_pow + Cardinality(NewWorkers(ops)), NEW witnesses,
           witnesses = num_pow_witnesses + Cardinality(NewWorkers(ops))
                           - Cardinality(Created \cap Queued(joined))
    PROVE  /\ QueueOK(queue, total) /\ total \in Nat
           /\ witnesses = Cardinality(Queued(queue)) /\ witnesses <= total
           /\ \A a \in Created : queue[a] = 0
           /\ \A a \in Registered(pvo) : queue[a] = 0
           /\ \A a \in Accounts : pow_worker[a] # None => queue[a] # None
<1> DEFINE New == NewWorkers(ops)
           number(a) == total_pow + Place(a, New)
<1>1. /\ New \subseteq Accounts /\ Created \subseteq Accounts
      /\ \A a \in New : pvo[a] = None /\ pow_worker[a] \in {None, 0}
  BY DEF NewWorkers, Created, Candidates
<1>2. joined = [a \in Accounts |-> IF a \in New THEN number(a) ELSE pow_worker[a]]
  BY DEF QueueAfterPow
<1>3. queue = [a \in Accounts |-> IF a \in Created THEN 0 ELSE joined[a]]
  BY DEF QueueAfterVotes
<1> HIDE DEF New
<1>4. /\ QueueOK(pow_worker, total_pow) /\ total_pow \in Nat
      /\ pow_worker \in [Accounts -> Nat \cup {None}]
      /\ \A a \in Registered(pvo) : pow_worker[a] = 0
      /\ num_pow_witnesses = Cardinality(Queued(pow_worker)) /\ num_pow_witnesses <= total_pow
  BY DEF Sound, QueueOK
<1>5. /\ IsFiniteSet(New) /\ Cardinality(New) \in Nat /\ New \subseteq Nat
      /\ IsFiniteSet(Queued(pow_worker)) /\ num_pow_witnesses \in Nat
  BY <1>1, <1>4, SomeAccounts, AccountsAssumption DEF Queued
<1>6. ASSUME NEW a \in New
      PROVE  number(a) \in Nat /\ number(a) > total_pow /\ number(a) <= total_pow + Cardinality(New)
  <2>1. PICK p : p = Place(a, New)
    OBVIOUS
  <2>2. p \in Nat \ {0} /\ p <= Cardinality(New)
    BY <1>5, <2>1, PlaceIs
  <2> QED BY <1>4, <1>5, <2>1, <2>2, SMTT(60)
<1>7. ASSUME NEW a \in New, NEW b \in New, number(a) = number(b) PROVE a = b
  <2>1. PICK p, q : p = Place(a, New) /\ q = Place(b, New)
    OBVIOUS
  <2>2. p \in Nat /\ q \in Nat
    BY <1>5, <2>1, PlaceIs
  <2>3. p = q
    BY <1>4, <1>7, <2>1, <2>2, SMTT(60)
  <2> QED BY <1>5, <2>1, <2>3, PlaceIs
<1> HIDE DEF number
<1>8. total = total_pow + Cardinality(New) /\ total \in Nat
  BY <1>4, <1>5, SMTT(60) DEF New
<1>9. None # 0 /\ None \notin Nat
  BY AccountsAssumption, SMTT(60)
<1>10. /\ joined \in [Accounts -> Nat \cup {None}]
       /\ \A a \in New : joined[a] = number(a)
       /\ \A a \in Accounts \ New : joined[a] = pow_worker[a]
  BY <1>1, <1>2, <1>4, <1>6
<1>11. New \cap Queued(pow_worker) = {}
  BY <1>1 DEF Queued
<1>12. Queued(joined) = Queued(pow_worker) \cup New
  <2>1. \A a \in New : joined[a] \notin {None, 0}
    BY <1>4, <1>6, <1>9, <1>10, SMTT(60)
  <2> QED BY <1>1, <1>10, <1>11, <2>1 DEF Queued
<1>13. Cardinality(Queued(joined)) = num_pow_witnesses + Cardinality(New)
  <2>1. Cardinality(Queued(pow_worker) \cap New) = 0
    BY <1>11, FS_EmptySet
  <2>2. Cardinality(Queued(pow_worker) \cup New) = Cardinality(Queued(pow_worker))
            + Cardinality(New) - Cardinality(Queued(pow_worker) \cap New)
    BY <1>5, FS_Union
  <2> QED BY <1>4, <1>5, <1>12, <2>1, <2>2, SMTT(60)
<1>14. \A a \in Queued(joined) : joined[a] \in Nat /\ joined[a] <= total
  <2>1. \A a \in Queued(pow_worker) : a \notin New /\ a \in Accounts
                                      /\ pow_worker[a] \in Nat /\ pow_worker[a] <= total_pow
    BY <1>4, <1>11, QueuedHas DEF QueueOK, Queued
  <2>2. ASSUME NEW a \in New PROVE joined[a] \in Nat /\ joined[a] <= total
    BY <1>6, <1>8, <1>10
  <2>3. ASSUME NEW a \in Queued(pow_worker) PROVE joined[a] \in Nat /\ joined[a] <= total
    <3>1. joined[a] = pow_worker[a]
      BY <1>10, <2>1
    <3> QED BY <1>4, <1>5, <1>8, <2>1, <3>1, SMTT(60)
  <2> QED BY <1>12, <2>2, <2>3
<1>15. ASSUME NEW a \in Queued(joined), NEW b \in Queued(joined), joined[a] = joined[b] PROVE a = b
  <2>1. \A c \in Queued(pow_worker) : joined[c] = pow_worker[c]
                                      /\ joined[c] \in Nat /\ joined[c] <= total_pow
    <3>1. \A c \in Queued(pow_worker) : c \in Accounts \ New /\ pow_worker[c] <= total_pow
      BY <1>4, <1>11 DEF QueueOK, Queued
    <3> QED BY <1>4, <1>10, <3>1, QueuedHas
  <2>2. CASE a \in New /\ b \in New
    BY <1>7, <1>10, <1>15, <2>2, SMTT(60)
  <2>3. CASE a \in New /\ b \notin New
    BY <1>4, <1>6, <1>10, <1>12, <1>15, <2>1, <2>3, SMTT(60)
  <2>4. CASE a \notin New /\ b \in New
    BY <1>4, <1>6, <1>10, <1>12, <1>15, <2>1, <2>4, SMTT(60)
  <2>5. CASE a \notin New /\ b \notin New
    BY <1>4, <1>12, <1>15, <2>1, <2>5 DEF QueueOK
  <2> QED BY <2>2, <2>3, <2>4, <2>5
<1>16. Queued(queue) = Queued(joined) \ Created
  BY <1>3 DEF Queued
<1>17. IsFiniteSet(Queued(joined)) /\ Cardinality(Queued(joined)) \in Nat
  BY SomeAccounts DEF Queued
<1>18. witnesses = Cardinality(Queued(queue))
  <2>1. Cardinality(Queued(joined) \ Created)
            = Cardinality(Queued(joined)) - Cardinality(Queued(joined) \cap Created)
    BY <1>17, FS_Difference
  <2>2. Queued(joined) \cap Created = Created \cap Queued(joined)
    OBVIOUS
  <2>3. Cardinality(Queued(queue))
            = Cardinality(Queued(joined)) - Cardinality(Created \cap Queued(joined))
    BY <1>16, <2>1, <2>2
  <2>4. Cardinality(Queued(queue)) = num_pow_witnesses + Cardinality(New)
                                         - Cardinality(Created \cap Queued(joined))
    <3>1. PICK c : c = Cardinality(Created \cap Queued(joined))
      OBVIOUS
    <3>2. PICK n : n = Cardinality(New)
      OBVIOUS
    <3>3. c \in Nat /\ n \in Nat /\ num_pow_witnesses \in Nat
      BY <1>1, <1>5, <3>1, <3>2, SomeAccounts
    <3>4. (num_pow_witnesses + n) - c = num_pow_witnesses + n - c
      BY <3>3, SMTT(60)
    <3> QED BY <1>13, <2>3, <3>1, <3>2, <3>4
  <2>5. witnesses = num_pow_witnesses + Cardinality(New)
                        - Cardinality(Created \cap Queued(joined))
    BY DEF New
  <2> QED BY <2>4, <2>5
<1>19. witnesses <= total
  <2>1. IsFiniteSet(Queued(queue)) /\ Cardinality(Queued(queue)) \in Nat
        /\ Cardinality(Queued(queue)) <= Cardinality(Queued(joined))
    BY <1>16, <1>17, FS_Subset, FS_CardinalityType
  <2> QED BY <1>4, <1>5, <1>8, <1>13, <1>18, <2>1, SMTT(60)
<1>20. QueueOK(queue, total)
  <2>1. queue \in [Accounts -> Nat \cup {None}]
    BY <1>3, <1>10, SMTT(60)
  <2>2. \A a \in Queued(queue) : a \in Queued(joined) /\ queue[a] = joined[a]
    BY <1>3, <1>16 DEF Queued
  <2> QED BY <1>14, <1>15, <2>1, <2>2, SMTT(60) DEF QueueOK
<1>21. \A a \in Created : queue[a] = 0
  BY <1>1, <1>3
<1>22. \A a \in Registered(pvo) : queue[a] = 0
  <2>1. \A a \in Registered(pvo) : a \in Accounts \ New
    BY <1>1 DEF Registered
  <2> QED BY <1>3, <1>4, <1>10, <2>1
<1>23. \A a \in Accounts : pow_worker[a] # None => queue[a] # None
  BY <1>3, <1>6, <1>9, <1>10, SMTT(60)
<1> QED BY <1>8, <1>18, <1>19, <1>20, <1>21, <1>22, <1>23

-----------------------------------------------------------------------------
(* The inductive invariant.                                                *)

\* Between blocks: the race, the queue and the round are in order, and every
\* account that _all_votes knows, other than a stray, has its object.
Inv ==
    /\ VotesTyped /\ strays \subseteq Accounts /\ head_block_number \in Nat
    /\ head_block_number = 0 => counted = NoInfo
    /\ Sound(pvo, next_id, currentRaceTime, pow_worker, total_pow, num_pow_witnesses)
    /\ RoundOK(active_producers, pow_worker)
    /\ TrackedUnlessReloaded
    /\ \A a \in Accounts \ strays : all_votes[a] # None => pvo[a] # None

\* It holds after initialize_chain: the initial producers have the seats and the objects.
LEMMA InitInv ==
    ASSUME Init
    PROVE  Inv
<1> DEFINE I == InitialProducers
           order == {p \in Accounts \X Accounts : p[1] < p[2]}
<1>1. I \subseteq Accounts /\ I # {} /\ Accounts \subseteq Nat \ {0} /\ RaceLapLength \in Nat
      /\ None # 0 /\ None \notin Nat /\ None \notin ProducerVotes
  BY AccountsAssumption, SMTT(60)
<1>2. IsFiniteSet(I) /\ Cardinality(I) \in Nat /\ Cardinality(I) > 0
      /\ Cardinality(I) <= TotalProducersPerRound
  <2>1. IsFiniteSet(I) /\ Cardinality(I) \in Nat
    BY <1>1, SomeAccounts
  <2> QED BY <1>1, <2>1, FS_EmptySet, SeatsAssumption, SMTT(60)
<1>3. /\ info = NoInfo /\ counted = NoInfo /\ all_votes = NoInfo /\ next_id = Cardinality(I)
      /\ pvo = [a \in Accounts |-> IF a \notin I THEN None
                  ELSE [id |-> Place(a, I) - 1, speed |-> 0, position |-> 0,
                        time |-> 0, finish |-> RaceLapLength]]
      /\ pow_worker = [a \in Accounts |-> IF a \in I THEN 0 ELSE None]
      /\ currentRaceTime = 0 /\ total_pow = 0 /\ num_pow_witnesses = 0 /\ head_block_number = 0
      /\ active_producers = WithEmpty(Ordered(I, order)) /\ strays = {}
  BY DEF Init
<1>4. VotesTyped
  BY <1>3 DEF VotesTyped, NoInfo
<1>5. Queued(pow_worker) = {} /\ QueueOK(pow_worker, 0)
  <2>1. Queued(pow_worker) = {}
    BY <1>3 DEF Queued
  <2>2. pow_worker \in [Accounts -> Nat \cup {None}]
    BY <1>3
  <2> QED BY <2>1, <2>2 DEF QueueOK
<1>6. ASSUME NEW a \in I
      PROVE  /\ pvo[a] \in ProducerVotes /\ pvo[a].id = Place(a, I) - 1
             /\ pvo[a].id < Cardinality(I)
             /\ Place(a, I) \in Nat \ {0}
             /\ pvo[a].speed = 0 /\ pvo[a].position = 0 /\ pvo[a].time = 0
             /\ pvo[a].finish = RaceLapLength
  <2>1. PICK p : p = Place(a, I)
    OBVIOUS
  <2>2. p \in Nat \ {0} /\ p <= Cardinality(I)
    <3>1. I \subseteq Nat
      BY <1>1
    <3> QED BY <1>2, <2>1, <3>1, PlaceIs
  <2>3. pvo[a] = [id |-> p - 1, speed |-> 0, position |-> 0, time |-> 0, finish |-> RaceLapLength]
    BY <1>1, <1>3, <2>1
  <2>4. pvo[a] \in ProducerVotes
    BY <1>1, <2>2, <2>3, SMTT(60) DEF ProducerVotes
  <2> QED BY <1>2, <2>1, <2>2, <2>3, <2>4, SMTT(60)
<1>7. Registered(pvo) = I
  <2>1. \A a \in Accounts : a \notin I => pvo[a] = None
    BY <1>3
  <2> QED BY <1>1, <1>6, <2>1 DEF Registered
<1>8. RaceOK(pvo, next_id, 0)
  <2>1. pvo \in [Accounts -> ProducerVotes \cup {None}]
    <3>1. \A a \in Accounts : pvo[a] \in ProducerVotes \cup {None}
      BY <1>3, <1>6
    <3> QED BY <1>3, <3>1
  <2>2. TimeToFinish(0, 0) = RaceLapLength
    BY SMTT(60) DEF TimeToFinish
  <2>3. \A a, b \in I : pvo[a].id = pvo[b].id => a = b
    <3>1. \A a, b \in I : pvo[a].id = pvo[b].id => Place(a, I) = Place(b, I)
      BY <1>6, SMTT(60)
    <3>2. I \subseteq Nat
      BY <1>1
    <3> QED BY <1>2, <3>1, <3>2, PlaceIs
  <2>4. ASSUME NEW a \in I
        PROVE  /\ pvo[a].id < next_id /\ pvo[a].position <= RaceLapLength
               /\ pvo[a].time <= 0 /\ 0 <= pvo[a].finish /\ pvo[a].finish <= RaceLapLength
               /\ pvo[a].finish = pvo[a].time + TimeToFinish(pvo[a].speed, pvo[a].position)
    <3>1. next_id = Cardinality(I)
      BY <1>3
    <3> QED BY <1>1, <1>6, <2>2, <3>1, SMTT(60)
  <2> QED BY <1>7, <2>1, <2>3, <2>4 DEF RaceOK
<1>9. Sound(pvo, next_id, currentRaceTime, pow_worker, total_pow, num_pow_witnesses)
  <2>1. Cardinality(Queued(pow_worker)) = 0
    BY <1>5, FS_EmptySet
  <2>2. \A a \in Registered(pvo) : pow_worker[a] = 0
    BY <1>1, <1>3, <1>7
  <2> QED BY <1>1, <1>2, <1>3, <1>5, <1>8, <2>1, <2>2, SMTT(60) DEF Sound
<1>10. Lists(Ordered(I, order), I) /\ Len(Ordered(I, order)) = Cardinality(I)
  <2>1. Orders(order, I)
    <3>1. \A a \in I : a \in Accounts /\ a \in Nat
      BY <1>1
    <3> QED BY <3>1, SMTT(60) DEF Orders
  <2> HIDE DEF order
  <2> QED BY <1>2, <2>1, OrderedLists
<1>11. RoundOK(active_producers, pow_worker)
  <2>1. PICK s : s = Ordered(I, order)
    OBVIOUS
  <2>2. Lists(s, I) /\ Len(s) = Cardinality(I)
    BY <1>10, <2>1
  <2>3. \A a \in I : a \in Accounts /\ pow_worker[a] # None
    BY <1>1, <1>3
  <2>4. Lists(s, Accounts)
    <3>1. I \subseteq Accounts
      BY <1>1
    <3> HIDE DEF I
    <3> QED BY <2>2, <3>1, SMTT(60) DEF Lists
  <2>5. \A i \in 1..Len(s) : pow_worker[s[i]] # None
    <3>1. \A i \in 1..Len(s) : s[i] \in I
      BY <2>2, SMTT(60) DEF Lists
    <3> QED BY <2>3, <3>1
  <2> QED BY <1>2, <1>3, <2>1, <2>2, <2>4, <2>5, WithEmptyIs
<1>12. \A a \in Accounts : counted[a] = None /\ all_votes[a] = None
  BY <1>3 DEF NoInfo
<1> QED BY <1>3, <1>4, <1>9, <1>11, <1>12 DEF Inv, TrackedUnlessReloaded


\* A block whose votes apply, with or without a new round, keeps the invariant.
LEMMA BlockInv ==
    ASSUME Inv, NEW ops \in SUBSET Accounts, Block(ops)
    PROVE  Inv'
<1> DEFINE number == head_block_number + 1
           joined == QueueAfterPow(ops)
           queue == QueueAfterVotes(joined)
           total == total_pow + Cardinality(NewWorkers(ops))
           witnesses == num_pow_witnesses + Cardinality(NewWorkers(ops))
                            - Cardinality(Created \cap Queued(joined))
           o == PvoAfterVotes
           n == next_id + Cardinality(Created)
           unchanged == [round |-> active_producers, queue |-> queue, pvo |-> o,
                         time |-> currentRaceTime, witnesses |-> witnesses]
           dealt == IF number % TotalProducersPerRound = 0 /\ Registered(o) # {}
                    THEN calculateNextRound(o, queue, witnesses, number)
                    ELSE unchanged
<1>1. /\ VotesApply /\ head_block_number' = number /\ total_pow' = total /\ next_id' = n
      /\ all_votes' = AllVotesAfter /\ strays' = strays \ Inactive
      /\ active_producers' = dealt.round /\ pow_worker' = dealt.queue
      /\ num_pow_witnesses' = dealt.witnesses /\ pvo' = dealt.pvo
      /\ currentRaceTime' = dealt.time /\ counted' = info
  BY DEF Block, ApplyBlock
<1>2. PICK a \in Voters, record \in VoteInfo \cup {None} : info' = [info EXCEPT ![a] = record]
  BY DEF Block
<1>3. /\ VotesTyped /\ strays \subseteq Accounts /\ head_block_number \in Nat
      /\ Sound(pvo, next_id, currentRaceTime, pow_worker, total_pow, num_pow_witnesses)
      /\ RoundOK(active_producers, pow_worker)
      /\ \A b \in Accounts \ strays : all_votes[b] # None => pvo[b] # None
  BY DEF Inv
<1>4. /\ RaceOK(pvo, next_id, currentRaceTime) /\ next_id \in Nat
      /\ currentRaceTime \in Nat /\ currentRaceTime \in 0..RaceLapLength
  BY <1>3, AccountsAssumption, SMTT(60) DEF Sound
<1>5. RaceOK(o, n, currentRaceTime) /\ n \in Nat
      /\ Registered(o) = (Registered(pvo) \ Inactive) \cup Created
  BY <1>1, <1>3, <1>4, RegisteredAfterVotes
<1>6. /\ QueueOK(queue, total) /\ total \in Nat
      /\ witnesses = Cardinality(Queued(queue)) /\ witnesses <= total
      /\ \A b \in Created : queue[b] = 0
      /\ \A b \in Registered(pvo) : queue[b] = 0
      /\ \A b \in Accounts : pow_worker[b] # None => queue[b] # None
  <2>1. PICK j, q, t, w : j = joined /\ q = queue /\ t = total /\ w = witnesses
    OBVIOUS
  <2>2. /\ j = QueueAfterPow(ops) /\ q = QueueAfterVotes(j)
        /\ t = total_pow + Cardinality(NewWorkers(ops))
        /\ w = num_pow_witnesses + Cardinality(NewWorkers(ops))
                   - Cardinality(Created \cap Queued(j))
    BY <2>1
  <2> HIDE DEF joined, queue, total, witnesses
  <2>3. /\ QueueOK(q, t) /\ t \in Nat /\ w = Cardinality(Queued(q)) /\ w <= t
        /\ \A b \in Created : q[b] = 0
        /\ \A b \in Registered(pvo) : q[b] = 0
        /\ \A b \in Accounts : pow_worker[b] # None => q[b] # None
    BY <1>3, <2>2, QueueAfterIs
  <2> QED BY <2>1, <2>3
<1> HIDE DEF o, queue, total, witnesses, n, number
<1>7. Sound(o, n, currentRaceTime, queue, total, witnesses)
  BY <1>4, <1>5, <1>6 DEF Sound
<1>8. RoundOK(active_producers, queue)
  <2>1. \A i \in 1..TotalProducersPerRound :
            active_producers[i] # Empty => active_producers[i] \in Accounts
    BY <1>3, SMTT(60) DEF RoundOK
  <2> QED BY <1>3, <1>6, <2>1 DEF RoundOK
<1>9. /\ Sound(dealt.pvo, n, dealt.time, dealt.queue, total, dealt.witnesses)
      /\ RoundOK(dealt.round, dealt.queue) /\ Registered(dealt.pvo) = Registered(o)
  <2>1. CASE number % TotalProducersPerRound = 0 /\ Registered(o) # {}
    <3>1. dealt = calculateNextRound(o, queue, witnesses, number)
      BY <2>1
    <3> HIDE DEF dealt
    <3> QED BY <1>7, <2>1, <3>1, RoundIs, SMTT(60)
  <2>2. CASE ~(number % TotalProducersPerRound = 0 /\ Registered(o) # {})
    <3>1. /\ dealt.pvo = o /\ dealt.time = currentRaceTime /\ dealt.queue = queue
          /\ dealt.witnesses = witnesses /\ dealt.round = active_producers
      BY <2>2
    <3> HIDE DEF dealt
    <3> QED BY <1>7, <1>8, <3>1
  <2> QED BY <2>1, <2>2
<1> HIDE DEF dealt
<1>10. /\ Sound(pvo', next_id', currentRaceTime', pow_worker', total_pow', num_pow_witnesses')
       /\ RoundOK(active_producers', pow_worker') /\ Registered(pvo') = Registered(o)
  BY <1>1, <1>9
<1>11. VotesTyped'
  <2>1. info' \in [Accounts -> VoteInfo \cup {None}]
    BY <1>2, <1>3 DEF VotesTyped
  <2>2. AllVotesAfter \in [Accounts -> 0..MaxVotes \cup {None}]
    <3>1. \A b \in Candidates : b \in Accounts /\ info[b].votes \in 0..MaxVotes
      BY <1>3, RecordHas DEF Candidates, VotesTyped
    <3> QED BY <1>3, <3>1 DEF AllVotesAfter, VotesTyped
  <2> QED BY <1>1, <1>3, <2>1, <2>2 DEF VotesTyped
<1>12. \A b \in Accounts : b \in Registered(pvo') <=> pvo'[b] # None
  BY DEF Registered
<1>13. \A b \in Registered(pvo) \ Inactive : b \in Registered(pvo')
  BY <1>5, <1>10
<1>14. \A b \in Created : b \in Registered(pvo')
  BY <1>5, <1>10
<1>15. ASSUME NEW b \in Accounts, b \notin strays', b \in Candidates PROVE pvo'[b] # None
  <2>1. b \notin Inactive /\ b \notin strays
    BY <1>1, <1>15 DEF Candidates, Inactive
  <2>2. CASE all_votes[b] = None
    BY <1>12, <1>14, <1>15, <2>2 DEF Created
  <2>3. CASE all_votes[b] # None
    BY <1>3, <1>12, <1>13, <2>1, <2>3 DEF Registered
  <2> QED BY <2>2, <2>3
<1>16. TrackedUnlessReloaded'
  BY <1>1, <1>15 DEF TrackedUnlessReloaded, Candidates
<1>17. ASSUME NEW b \in Accounts, b \notin strays', all_votes'[b] # None PROVE pvo'[b] # None
  <2>1. b \notin Inactive
    BY <1>1, <1>17 DEF AllVotesAfter
  <2>2. CASE b \in Candidates
    BY <1>15, <1>17, <2>2
  <2>3. CASE b \notin Candidates
    <3>1. all_votes[b] # None /\ b \notin strays
      BY <1>1, <1>17, <2>1, <2>3 DEF AllVotesAfter
    <3> QED BY <1>3, <1>12, <1>13, <2>1, <3>1 DEF Registered
  <2> QED BY <2>2, <2>3
<1>18. head_block_number' \in Nat /\ head_block_number' # 0
  BY <1>1, <1>3, SMTT(60) DEF number
<1>19. strays' \subseteq Accounts
  BY <1>1, <1>3
<1> QED BY <1>10, <1>11, <1>16, <1>17, <1>18, <1>19 DEF Inv

\* Rebuilding _all_votes keeps it: the accounts it enters without need are strays.
LEMMA ReloadInv ==
    ASSUME Inv, ReloadVotes
    PROVE  Inv'
<1>1. /\ info' = info /\ counted' = counted /\ pvo' = pvo /\ next_id' = next_id
      /\ currentRaceTime' = currentRaceTime /\ pow_worker' = pow_worker
      /\ total_pow' = total_pow /\ num_pow_witnesses' = num_pow_witnesses
      /\ head_block_number' = head_block_number /\ active_producers' = active_producers
  BY DEF ReloadVotes
<1>2. \A a \in Accounts : all_votes'[a] =
          IF head_block_number = 0 \/ counted[a] = None THEN None ELSE counted[a].votes
  BY DEF ReloadVotes, NoInfo
<1>3. all_votes' \in [Accounts -> 0..MaxVotes \cup {None}]
  <2>1. \A a \in Accounts : counted[a] # None => counted[a].votes \in 0..MaxVotes
    BY RecordHas DEF Inv, VotesTyped
  <2> QED BY <2>1 DEF ReloadVotes, NoInfo
<1>4. strays' = {a \in Accounts : all_votes'[a] # None /\ pvo[a] = None}
  BY DEF ReloadVotes
<1>5. VotesTyped'
  BY <1>1, <1>3 DEF Inv, VotesTyped
<1>6. /\ Sound(pvo', next_id', currentRaceTime', pow_worker', total_pow', num_pow_witnesses')
      /\ RoundOK(active_producers', pow_worker')
  BY <1>1 DEF Inv
<1>7. \A a \in Accounts \ strays' : all_votes'[a] # None => pvo'[a] # None
  BY <1>1, <1>4
<1>8. ASSUME NEW a \in Accounts, a \notin strays', counted[a] # None PROVE pvo[a] # None
  <2>1. head_block_number # 0
    BY <1>8 DEF Inv, NoInfo
  <2>2. all_votes'[a] = counted[a].votes
    BY <1>2, <1>8, <2>1
  <2>3. counted[a].votes \in Nat
    BY <1>8, RecordHas DEF Inv, VotesTyped
  <2>4. all_votes'[a] # None
    BY <2>2, <2>3, AccountsAssumption
  <2> QED BY <1>4, <1>8, <2>4
<1>9. TrackedUnlessReloaded'
  BY <1>1, <1>8 DEF TrackedUnlessReloaded
<1>10. strays' \subseteq Accounts /\ head_block_number' \in Nat
       /\ (head_block_number' = 0 => counted' = NoInfo)
  BY <1>1, <1>4 DEF Inv
<1> QED BY <1>5, <1>6, <1>7, <1>9, <1>10 DEF Inv

\* Every step keeps it: a block, or a reload of the votes.
LEMMA NextInv ==
    ASSUME Inv, [Next]_vars
    PROVE  Inv'
<1>1. CASE \E ops \in SUBSET Accounts : Block(ops)
  BY <1>1, BlockInv
<1>2. CASE ReloadVotes
  BY <1>2, ReloadInv
<1>3. CASE UNCHANGED vars
  BY <1>3 DEF vars, Inv, VotesTyped, TrackedUnlessReloaded
<1> QED BY <1>1, <1>2, <1>3 DEF Next

-----------------------------------------------------------------------------
(* What the invariant says.                                                *)

\* In the time it takes a producer to finish it goes no further than the line.
LEMMA WithinTheLap ==
    ASSUME NEW v, v \in Nat, v > 0, NEW x, x \in Nat, NEW d, d \in Nat, d <= x \div v
    PROVE  v * d <= x
<1>1. PICK q : q = x \div v
  OBVIOUS
<1>2. q \in Nat /\ v * q <= x /\ d <= q
  BY <1>1, SMTT(60)
<1>3. PICK e \in Nat : q = d + e
  <2>1. q - d \in Nat /\ q = d + (q - d)
    BY <1>2, SMTT(60)
  <2> QED BY <2>1
<1>4. v * q = v * d + v * e
  BY <1>3, SMTT(60)
<1>5. v * e \in Nat /\ v * d \in Nat
  BY <1>3, SMTT(60)
<1>6. v * q \in Nat
  BY <1>2, SMTT(60)
<1> QED BY <1>2, <1>4, <1>5, <1>6, SMTT(60)

\* Nobody's position is past the end of the lap at the current race time.
LEMMA InvLine ==
    ASSUME Inv
    PROVE  NobodyPassesTheLine
<1>1. RaceOK(pvo, next_id, currentRaceTime) /\ currentRaceTime \in Nat /\ RaceLapLength \in Nat
  BY AccountsAssumption, SMTT(60) DEF Inv, Sound
<1>2. SUFFICES ASSUME NEW a \in Registered(pvo)
      PROVE  /\ currentRaceTime <= pvo[a].finish
             /\ pvo[a].speed > 0 =>
                  pvo[a].position + pvo[a].speed * (currentRaceTime - pvo[a].time) <= RaceLapLength
  BY DEF NobodyPassesTheLine
<1>3. PICK v, p, s, f : v = pvo[a].speed /\ p = pvo[a].position /\ s = pvo[a].time
                         /\ f = pvo[a].finish
  OBVIOUS
<1>4. v \in Int /\ p \in Nat /\ s \in Nat /\ f \in Nat
  BY <1>1, <1>3, RegisteredHas
<1>5. /\ p <= RaceLapLength /\ s <= currentRaceTime /\ currentRaceTime <= f
      /\ f = s + TimeToFinish(v, p)
  BY <1>1, <1>3 DEF RaceOK
<1>6. ASSUME v > 0 PROVE p + v * (currentRaceTime - s) <= RaceLapLength
  <2>1. PICK d, x, q : d = currentRaceTime - s /\ x = RaceLapLength - p /\ q = x \div v
    OBVIOUS
  <2>2. d \in Nat /\ x \in Nat /\ v \in Nat
    BY <1>1, <1>4, <1>5, <1>6, <2>1, SMTT(60)
  <2>3. q \in Int
    BY <1>6, <2>1, <2>2, SMTT(60)
  <2>4. f = s + q
    BY <1>5, <1>6, <2>1 DEF TimeToFinish
  <2>5. d <= x \div v
    BY <1>1, <1>4, <1>5, <2>1, <2>3, <2>4, SMTT(60)
  <2>6. v * d <= x
    BY <1>6, <2>2, <2>5, WithinTheLap
  <2>7. PICK y : y = v * d
    OBVIOUS
  <2>8. y \in Nat /\ y <= x
    BY <2>2, <2>6, <2>7, SMTT(60)
  <2>9. p + y <= RaceLapLength
    BY <1>1, <1>4, <2>1, <2>8, SMTT(60)
  <2> QED BY <2>1, <2>7, <2>9
<1> QED BY <1>3, <1>5, <1>6


\* The invariant gives the types and the counts the runs check.
LEMMA InvTypes ==
    ASSUME Inv
    PROVE  TypeOK /\ PowCountAgrees /\ NotBoth
<1>1. /\ VotesTyped /\ strays \subseteq Accounts
      /\ next_id \in Nat /\ currentRaceTime \in 0..RaceLapLength /\ total_pow \in Nat
      /\ RaceOK(pvo, next_id, currentRaceTime) /\ QueueOK(pow_worker, total_pow)
      /\ \A a \in Registered(pvo) : pow_worker[a] = 0
      /\ num_pow_witnesses = Cardinality(Queued(pow_worker)) /\ num_pow_witnesses <= total_pow
  BY DEF Inv, Sound
<1>2. ASSUME NEW a \in Registered(pvo)
      PROVE  /\ pvo[a].id \in 0..(next_id - 1) /\ pvo[a].speed \in Int
             /\ pvo[a].position \in 0..RaceLapLength /\ pvo[a].finish \in 0..RaceLapLength
  <2>1. pvo[a].id \in Nat /\ pvo[a].speed \in Int /\ pvo[a].position \in Nat
        /\ pvo[a].finish \in Nat
    BY <1>1, RegisteredHas
  <2>2. /\ pvo[a].id < next_id /\ pvo[a].position <= RaceLapLength
        /\ pvo[a].finish <= RaceLapLength
    BY <1>1 DEF RaceOK
  <2>3. RaceLapLength \in Nat
    BY AccountsAssumption
  <2> QED BY <1>1, <2>1, <2>2, <2>3, SMTT(60)
<1>3. pow_worker \in [Accounts -> 0..total_pow \cup {None}]
  <2>1. pow_worker \in [Accounts -> Nat \cup {None}]
    BY <1>1 DEF QueueOK
  <2>2. ASSUME NEW a \in Accounts PROVE pow_worker[a] \in 0..total_pow \cup {None}
    <3>1. CASE pow_worker[a] \in {None, 0}
      BY <1>1, <3>1, SMTT(60)
    <3>2. CASE pow_worker[a] \notin {None, 0}
      <4>1. a \in Queued(pow_worker)
        BY <3>2 DEF Queued
      <4>2. pow_worker[a] \in Nat /\ pow_worker[a] <= total_pow
        BY <1>1, <2>1, <3>2, <4>1 DEF QueueOK
      <4> QED BY <1>1, <4>2, SMTT(60)
    <3> QED BY <3>1, <3>2
  <2> QED BY <2>1, <2>2
<1>4. num_pow_witnesses \in 0..total_pow
  BY <1>1, SomeAccounts, SMTT(60) DEF Queued
<1>5. TypeOK
  BY <1>1, <1>2, <1>3, <1>4 DEF TypeOK, VotesTyped
<1>6. NotBoth
  BY <1>1 DEF NotBoth, Queued
<1> QED BY <1>1, <1>5, <1>6 DEF PowCountAgrees

\* It gives what the runs say of the round in force.
LEMMA InvRound ==
    ASSUME Inv
    PROVE  RoundIsPlayable /\ SeatsAreDistinct
<1>1. RoundOK(active_producers, pow_worker)
  BY DEF Inv
<1>2. /\ active_producers \in Seq(Accounts \cup {Empty})
      /\ Len(active_producers) = TotalProducersPerRound
  BY <1>1 DEF RoundOK
<1>3. DOMAIN active_producers = 1..TotalProducersPerRound
  BY <1>2, SMTT(60)
<1>4. \A a \in Seated : \E i \in 1..TotalProducersPerRound : a = active_producers[i] /\ a # Empty
  BY <1>3 DEF Seated, Range
<1>5. \A i \in 1..TotalProducersPerRound :
          active_producers[i] # Empty => active_producers[i] \in Seated
  BY <1>3 DEF Seated, Range
<1>6. RoundIsPlayable
  <2>1. Seated # {}
    BY <1>1, <1>5 DEF RoundOK
  <2>2. \A a \in Seated : pow_worker[a] # None
    BY <1>1, <1>4, SMTT(60) DEF RoundOK
  <2> QED BY <2>1, <2>2 DEF RoundIsPlayable
<1>7. SeatsAreDistinct
  BY <1>1 DEF RoundOK, SeatsAreDistinct
<1> QED BY <1>6, <1>7

\* The invariant holds in every state of every behaviour.
LEMMA InvAlways == Spec => []Inv
<1>1. Init => Inv
  BY InitInv
<1>2. Inv /\ [Next]_vars => Inv'
  BY NextInv
<1>3. QED
  BY <1>1, <1>2, PTL DEF Spec

-----------------------------------------------------------------------------
(* The theorems.                                                           *)

\* Every variable keeps its type: in particular no position or projected finish
\* leaves the lap, and no number of the queue exceeds total_pow.
THEOREM TypesAlways == Spec => []TypeOK
<1>1. Inv => TypeOK
  BY InvTypes
<1>2. QED
  BY <1>1, InvAlways, PTL

\* num_pow_witnesses is the length of the POW queue after every block.
THEOREM PowCountAlwaysAgrees == Spec => []PowCountAgrees
<1>1. Inv => PowCountAgrees
  BY InvTypes
<1>2. QED
  BY <1>1, InvAlways, PTL

\* No account is ever both a registered producer and a queued POW worker.
THEOREM NeverBoth == Spec => []NotBoth
<1>1. Inv => NotBoth
  BY InvTypes
<1>2. QED
  BY <1>1, InvAlways, PTL

\* Every round that calculateNextRound deals has somebody in it, and everybody in it
\* has a producer object.
THEOREM RoundAlwaysPlayable == Spec => []RoundIsPlayable
<1>1. Inv => RoundIsPlayable
  BY InvRound
<1>2. QED
  BY <1>1, InvAlways, PTL

\* Every round fills active_producers exactly, and nobody holds two seats.
THEOREM SeatsAlwaysDistinct == Spec => []SeatsAreDistinct
<1>1. Inv => SeatsAreDistinct
  BY InvRound
<1>2. QED
  BY <1>1, InvAlways, PTL

\* The race time never passes a producer's finish, whatever the votes do.
THEOREM NobodyEverPassesTheLine == Spec => []NobodyPassesTheLine
<1>1. Inv => NobodyPassesTheLine
  BY InvLine
<1>2. QED
  BY <1>1, InvAlways, PTL

\* A candidate the last block counted has its object, unless init_allvotes entered
\* it before it was one.
THEOREM AlwaysTrackedUnlessReloaded == Spec => []TrackedUnlessReloaded
<1>1. Inv => TrackedUnlessReloaded
  BY DEF Inv
<1>2. QED
  BY <1>1, InvAlways, PTL

=============================================================================
