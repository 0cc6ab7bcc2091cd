-------------------------- MODULE ForkChainProofs --------------------------
(***************************************************************************)
(* Proofs about fork switching, for any blocks, seats, producers and       *)
(* threshold and for branches of any length.                               *)
(*                                                                         *)
(* The invariant Inv says what the phases of insertBlockAndExtras leave    *)
(* alone or restore: the stored blocks and the number index (ChainOK), the *)
(* ledger (LedgerOK), the undo history as replays of prefixes of one       *)
(* branch (HistoryOK), and where the database stands between the two tips  *)
(* while a switch is under way (PositionOK).  It is needed because none of *)
(* the properties is inductive alone: that the head agrees after a         *)
(* rollback depends on what the history still holds, and that rests on     *)
(* what was committed when earlier blocks became irreversible.             *)
(***************************************************************************)
EXTENDS ForkChain, SequenceTheorems, FiniteSetTheorems, WellFoundedInduction, TLAPS

\* Leaves are for Zenon, those with arithmetic, functions or sequences cite SMT.
USE ZenonT(60)

\* A block is the sequence of headers from genesis to it.
Branch == Seq(Headers)

\* The ancestor of b at a number is the prefix of that length.
LEMMA AncestorIs ==
    ASSUME NEW b \in Branch, NEW n \in 0..Len(b)
    PROVE  /\ Ancestor(b, n) \in Branch
           /\ Len(Ancestor(b, n)) = n
           /\ \A i \in 1..n : Ancestor(b, n)[i] = b[i]
BY SMTT(60) DEF Ancestor, Branch

\* Branches with the same headers are the same.
LEMMA SameBranch ==
    ASSUME NEW a \in Branch, NEW b \in Branch, Len(a) = Len(b),
           \A i \in 1..Len(a) : a[i] = b[i]
    PROVE  a = b
BY SeqEqual DEF Branch

\* A block is its own ancestor at its number.
LEMMA WholeAncestor ==
    ASSUME NEW b \in Branch
    PROVE  Ancestor(b, Len(b)) = b
<1>1. Len(b) \in 0..Len(b)
  BY SMTT(60) DEF Branch
<1>2. QED
  BY <1>1, AncestorIs, SameBranch

\* Ancestors of ancestors are ancestors.
LEMMA AncestorOfAncestor ==
    ASSUME NEW b \in Branch, NEW n \in 0..Len(b), NEW m \in 0..n
    PROVE  Ancestor(Ancestor(b, n), m) = Ancestor(b, m)
<1>1. n \in Nat /\ m \in Nat /\ Len(b) \in Nat /\ m \in 0..Len(b)
  BY SMTT(60) DEF Branch
<1>2. m \in 0..Len(Ancestor(b, n)) /\ Ancestor(b, n) \in Branch
  BY <1>1, AncestorIs
<1>3. \A i \in 1..m : Ancestor(Ancestor(b, n), m)[i] = Ancestor(b, m)[i]
  BY <1>1, <1>2, AncestorIs, SMTT(60)
<1>4. QED
  BY <1>1, <1>2, <1>3, AncestorIs, SameBranch, SMTT(60)

\* The parent is the ancestor one number below.
LEMMA FrontIs ==
    ASSUME NEW b \in Branch, b # Genesis
    PROVE  /\ Len(b) \in Nat \ {0}
           /\ Len(b) - 1 \in 0..Len(b)
           /\ Front(b) = Ancestor(b, Len(b) - 1)
           /\ Front(b) \in Branch /\ Len(Front(b)) = Len(b) - 1
<1>1. Len(b) \in Nat \ {0}
  BY SMTT(60) DEF Branch, Genesis
<1>2. Len(b) - 1 \in 0..Len(b)
  BY <1>1, SMTT(60)
<1>3. Front(b) = Ancestor(b, Len(b) - 1)
  BY DEF Front, Ancestor
<1>4. QED
  BY <1>1, <1>2, <1>3, AncestorIs

\* A new block's parent is the block it extends.
LEMMA FrontOfAppend ==
    ASSUME NEW b \in Branch, NEW h \in Headers
    PROVE  /\ Append(b, h) \in Branch /\ Append(b, h) # Genesis
           /\ Len(Append(b, h)) = Len(b) + 1
           /\ Front(Append(b, h)) = b
<1> DEFINE e == Append(b, h)
<1>1. /\ e \in Branch /\ Len(e) = Len(b) + 1 /\ Len(b) \in Nat
      /\ \A i \in 1..Len(b) : e[i] = b[i]
  BY AppendProperties, SMTT(60) DEF Branch
<1>2. e # Genesis
  BY <1>1, SMTT(60) DEF Genesis
<1> HIDE DEF e
<1>3. Front(e) \in Branch /\ Len(Front(e)) = Len(b) /\ Front(e) = Ancestor(e, Len(b))
  BY <1>1, <1>2, FrontIs, SMTT(60)
<1>4. \A i \in 1..Len(b) : Front(e)[i] = b[i]
  BY <1>1, <1>3, AncestorIs, SMTT(60)
<1>5. Front(e) = b
  BY <1>3, <1>4, SameBranch
<1>6. QED
  BY <1>1, <1>2, <1>5 DEF e

\* The ancestors of a block are each other's parents.
LEMMA FrontOfAncestor ==
    ASSUME NEW b \in Branch, NEW n \in 1..Len(b)
    PROVE  /\ Ancestor(b, n) # Genesis
           /\ Front(Ancestor(b, n)) = Ancestor(b, n - 1)
<1>1. Len(b) \in Nat /\ n \in 0..Len(b) /\ n - 1 \in 0..n
  BY SMTT(60) DEF Branch
<1>2. Ancestor(b, n) \in Branch /\ Len(Ancestor(b, n)) = n
  BY <1>1, AncestorIs
<1>3. Ancestor(b, n) # Genesis
  BY <1>2, SMTT(60) DEF Genesis
<1>4. QED
  BY <1>1, <1>2, <1>3, FrontIs, AncestorOfAncestor, SMTT(60)

\* Every set of numbers has a least one.
LEMMA LeastExists ==
    ASSUME NEW T, T \subseteq Nat, T # {}
    PROVE  \E x \in T : \A y \in T : x <= y
<1>1. \E x \in T : \A y \in T : ~(<<y, x>> \in OpToRel(<, Nat))
  BY NatLessThanWellFounded, WFMin
<1>2. \A x, y \in T : <<y, x>> \in OpToRel(<, Nat) <=> y < x
  BY DEF OpToRel
<1>3. \A x, y \in T : ~(y < x) => x <= y
  BY SMTT(60)
<1>4. QED
  BY <1>1, <1>2, <1>3

\* Min picks the least number.
LEMMA MinIs ==
    ASSUME NEW T, T \subseteq Nat, T # {}
    PROVE  Min(T) \in T /\ \A y \in T : Min(T) <= y
BY LeastExists DEF Min

\* Every bounded set of numbers has a greatest one.
LEMMA GreatestExists ==
    ASSUME NEW T, T \subseteq Nat, T # {}, NEW m \in Nat, \A x \in T : x <= m
    PROVE  \E x \in T : \A y \in T : y <= x
<1> DEFINE U == {u \in Nat : \A x \in T : x <= u}
<1>1. PICK u \in U : \A v \in U : u <= v
  <2>1. U \subseteq Nat /\ U # {}
    OBVIOUS
  <2>2. QED
    BY <2>1, LeastExists
<1>2. PICK t \in T : TRUE
  OBVIOUS
<1>3. ASSUME u \notin T PROVE FALSE
  <2>1. \A x \in T : x \in Nat /\ x <= u /\ x # u
    BY <1>3
  <2>2. u - 1 \in Nat /\ \A x \in T : x <= u - 1
    BY <2>1, <1>2, SMTT(60)
  <2>3. QED
    BY <1>1, <2>2, SMTT(60)
<1>4. QED
  BY <1>3

\* Max picks the greatest number.
LEMMA MaxIs ==
    ASSUME NEW T, T \subseteq Nat, T # {}, NEW m \in Nat, \A x \in T : x <= m
    PROVE  Max(T) \in T /\ \A y \in T : y <= Max(T)
<1>1. PICK x \in T : \A y \in T : y <= x
  BY GreatestExists
<1>2. \A y \in T : x >= y
  BY <1>1
<1>3. Max(T) \in T /\ \A y \in T : Max(T) >= y
  BY <1>2 DEF Max
<1>4. QED
  BY <1>3

\* The common ancestor of two blocks lies on both branches.
LEMMA CommonIs ==
    ASSUME NEW a \in Branch, NEW b \in Branch
    PROVE  LET c == CommonAncestor(a, b)
           IN  /\ c \in Branch
               /\ Len(c) \in 0..Len(a) /\ Len(c) \in 0..Len(b)
               /\ c = Ancestor(a, Len(c)) /\ c = Ancestor(b, Len(c))
<1>1. Len(a) \in Nat /\ Len(b) \in Nat
  BY SMTT(60) DEF Branch
<1> DEFINE T == {n \in 0..Len(a) : n <= Len(b) /\ Ancestor(a, n) = Ancestor(b, n)}
<1>2. 0 \in T
  <2>1. 0 \in 0..Len(a) /\ 0 \in 0..Len(b)
    BY <1>1, SMTT(60)
  <2>2. /\ Len(Ancestor(a, 0)) = 0 /\ Len(Ancestor(b, 0)) = 0
        /\ Ancestor(a, 0) \in Branch /\ Ancestor(b, 0) \in Branch
    BY <2>1, AncestorIs
  <2>3. Ancestor(a, 0) = Ancestor(b, 0)
    BY <2>2, SameBranch, SMTT(60)
  <2>4. QED
    BY <1>1, <2>1, <2>3, SMTT(60)
<1>3. PICK n \in T : n = Max(T)
  <2>1. T \subseteq Nat /\ T # {} /\ \A x \in T : x <= Len(a)
    BY <1>1, <1>2, SMTT(60)
  <2> HIDE DEF T
  <2>2. Max(T) \in T
    BY <1>1, <2>1, MaxIs
  <2>3. QED
    BY <2>2
<1>4. CommonAncestor(a, b) = Ancestor(a, n)
  BY <1>3 DEF CommonAncestor
<1>5. n \in 0..Len(a) /\ n \in 0..Len(b) /\ Ancestor(a, n) = Ancestor(b, n)
  BY <1>1, <1>3, SMTT(60)
<1>6. Ancestor(a, n) \in Branch /\ Len(Ancestor(a, n)) = n
  BY <1>5, AncestorIs
<1>7. QED
  BY <1>4, <1>5, <1>6

-----------------------------------------------------------------------------

Dbs == [head : Branch, aslot : Nat, active : [1..Seats -> Producers \cup {Empty}],
        confirmed : [Producers -> Nat], lib : Nat]

Sessions == [revision : Nat, db : Dbs]

\* What apply_block needs of the database it is run on and keeps up.
Sound(d) ==
    /\ \A x \in Producers : d.confirmed[x] <= Len(d.head)
    /\ \E i \in 1..Seats : d.active[i] # Empty
    /\ d.lib <= Len(d.head)

\* A round has a seat.
LEMMA SeatsPositive == Seats \in Nat \ {0}
BY RoundAssumption, SMTT(60) DEF Seats

\* The database starts well: some seat is held and nothing is irreversible.
LEMMA GenesisSound == GenesisDb \in Dbs /\ Sound(GenesisDb)
<1>1. Genesis \in Branch /\ Len(Genesis) = 0
  BY SMTT(60) DEF Genesis, Branch
<1>2. InitialRound \in [1..Seats -> Producers \cup {Empty}]
  BY RoundAssumption, LenProperties DEF Seats
<1>3. GenesisDb \in Dbs
  BY <1>1, <1>2 DEF GenesisDb, Dbs
<1>4. Sound(GenesisDb)
  BY <1>1, RoundAssumption, SMTT(60) DEF GenesisDb, Sound
<1>5. QED
  BY <1>3, <1>4

\* A block has a time.
LEMMA TimeIsNat ==
    ASSUME NEW b \in Branch
    PROVE  Time(b) \in Nat
<1>1. CASE b = Genesis
  BY <1>1 DEF Time
<1>2. CASE b # Genesis
  <2>1. Len(b) \in 1..Len(b)
    BY <1>2, FrontIs, SMTT(60)
  <2>2. b[Len(b)] \in Headers
    BY <2>1, SMTT(60) DEF Branch
  <2>3. QED
    BY <1>2, <2>2, HeadersAssumption DEF Time, Last
<1>3. QED
  BY <1>1, <1>2

\* Seats whose producers confirmed up to n, as nth_element counts them.
Held(active) == {i \in 1..Seats : active[i] # Empty}
Offset(active) == (Cardinality(Held(active)) * (10000 - Threshold)) \div 10000
Share(some, all) == Cardinality(some) * 10000 >= Threshold * Cardinality(all)
UpTo(active, confirmed, n) == {i \in Held(active) : confirmed[active[i]] <= n}

\* The arithmetic of the threshold, the product named: of c seats, those left
\* when y div 10000 are taken away are still enough.
LEMMA ShareOfProduct ==
    ASSUME NEW c \in Nat, NEW x \in Nat, NEW y \in Nat, x >= 1, y = 10000 * c - x
    PROVE  /\ y \div 10000 \in Nat /\ y \div 10000 < c
           /\ \A u \in 0..(y \div 10000) : (c - u) * 10000 >= x
BY SMTT(60)

\* Leaving out as many seats as the offset allows leaves the threshold's share.
LEMMA ShareOfSeats ==
    ASSUME NEW c \in Nat, c >= 1, NEW t \in Nat, t >= 1, t <= 10000
    PROVE  LET o == (c * (10000 - t)) \div 10000
           IN  /\ o \in Nat /\ o < c
               /\ \A u \in 0..o : (c - u) * 10000 >= t * c
<1>1. c * t \in Nat /\ c * t >= 1 /\ c * t = t * c
  BY SMTT(60)
<1>2. c * (10000 - t) = 10000 * c - c * t
  BY SMTT(60)
<1>3. c * (10000 - t) \in Nat
  <2>1. 10000 - t \in Nat
    BY SMTT(60)
  <2>2. \A m, n \in Nat : m * n \in Nat
    BY SMTT(60)
  <2>3. QED
    BY <2>1, <2>2, SMTT(60)
<1>4. QED
  BY <1>1, <1>2, <1>3, ShareOfProduct, SMTT(60)

\* update_last_irreversible_block picks a number that was reached, and the seats
\* that confirmed it or a later one are the threshold's share of the seats held.
LEMMA NewIrreversibleIs ==
    ASSUME NEW active \in [1..Seats -> Producers \cup {Empty}],
           NEW confirmed \in [Producers -> Nat],
           NEW top \in Nat, \A x \in Producers : confirmed[x] <= top,
           \E i \in 1..Seats : active[i] # Empty
    PROVE  LET new == NewIrreversible(active, confirmed)
               above == {i \in Held(active) : confirmed[active[i]] >= new}
           IN  /\ new \in 0..top
               /\ Share(above, Held(active))
<1> DEFINE held == Held(active)
           Below(n) == UpTo(active, confirmed, n)
           c == Cardinality(held)
           offset == Offset(active)
           Cs == {n \in Range(confirmed) : Cardinality(Below(n)) > offset}
           new == NewIrreversible(active, confirmed)
<1>1. new = Min(Cs)
  BY SMTT(60) DEF NewIrreversible, Held, Offset, UpTo
<1>2. IsFiniteSet(held) /\ held # {} /\ c \in Nat \ {0}
  <2>1. IsFiniteSet(1..Seats) /\ held \in SUBSET (1..Seats)
    BY SeatsPositive, FS_Interval, SMTT(60) DEF Held
  <2>2. held # {}
    BY DEF Held
  <2>3. QED
    BY <2>1, <2>2, FS_Subset, FS_EmptySet, FS_CardinalityType
<1>3. \A i \in held : active[i] \in Producers /\ confirmed[active[i]] \in Range(confirmed)
                      /\ confirmed[active[i]] \in 0..top
  BY SMTT(60) DEF Held, Range
<1>4. Range(confirmed) \subseteq Nat
  BY DEF Range
<1>5. /\ offset \in Nat /\ offset < c
      /\ \A u \in 0..offset : (c - u) * 10000 >= Threshold * c
  <2>1. offset = (c * (10000 - Threshold)) \div 10000
    BY SMTT(60) DEF Offset
  <2>2. c \in Nat /\ c >= 1 /\ Threshold \in Nat /\ Threshold >= 1 /\ Threshold <= 10000
    <3> HIDE DEF c
    <3>1. c \in Nat /\ c >= 1
      BY <1>2, SMTT(60)
    <3>2. QED
      BY <3>1, ThresholdAssumption, SMTT(60)
  <2> HIDE DEF c, offset
  <2>3. QED
    BY <2>1, <2>2, ShareOfSeats, SMTT(60)
<1>6. \A n : Below(n) \subseteq held
  BY DEF UpTo
<1> HIDE DEF c, offset
<1>7. ASSUME NEW S \in SUBSET held, S # {}
      PROVE  \E m \in Range(confirmed) :
                 /\ m \in 0..top
                 /\ \E i \in S : m = confirmed[active[i]]
                 /\ \A i \in S : confirmed[active[i]] <= m
  <2> DEFINE T == {confirmed[active[i]] : i \in S}
  <2>1. T \subseteq Nat /\ T # {} /\ \A m \in T : m <= top
    BY <1>3, <1>7, SMTT(60)
  <2>2. \E m \in T : \A y \in T : y <= m
    <3> HIDE DEF T
    <3>1. QED
      BY <2>1, GreatestExists
  <2>3. QED
    BY <2>2, <1>3
<1>8. PICK m \in Range(confirmed) : m \in 0..top /\ \A i \in held : confirmed[active[i]] <= m
  BY <1>2, <1>7
<1>9. m \in Cs
  <2>1. Below(m) = held
    BY <1>8 DEF UpTo
  <2>2. QED
    BY <2>1, <1>5, SMTT(60) DEF c
<1>10. new \in Cs /\ \A n \in Cs : new <= n
  <2>1. Cs \subseteq Nat /\ Cs # {}
    BY <1>4, <1>9
  <2> HIDE DEF Cs, new
  <2>2. QED
    BY <1>1, <2>1, MinIs
<1>11. new \in 0..top
  BY <1>10, <1>9, <1>8, <1>4, SMTT(60)
<1> DEFINE above == {i \in held : confirmed[active[i]] >= new}
           under == {i \in held : confirmed[active[i]] < new}
<1>12. Cardinality(under) \in Nat /\ Cardinality(under) <= offset
  <2>1. CASE under = {}
    <3> HIDE DEF under
    <3>1. QED
      BY <2>1, FS_EmptySet, <1>5, SMTT(60)
  <2>2. CASE under # {}
    <3>1. PICK k \in Range(confirmed) :
              /\ k \in 0..top
              /\ \E i \in under : k = confirmed[active[i]]
              /\ \A i \in under : confirmed[active[i]] <= k
      BY <2>2, <1>7
    <3>2. k < new /\ new \in Nat /\ k \in Nat
      BY <3>1, <1>11, SMTT(60)
    <3>3. under = Below(k)
      <4>1. \A i \in held : confirmed[active[i]] < new <=> confirmed[active[i]] <= k
        <5> HIDE DEF held, new
        <5>1. \A i \in held : confirmed[active[i]] < new => confirmed[active[i]] <= k
          BY <3>1
        <5>2. \A i \in held : confirmed[active[i]] \in Nat
          BY <1>3
        <5>3. ASSUME NEW i \in held, confirmed[active[i]] <= k PROVE confirmed[active[i]] < new
          <6>1. confirmed[active[i]] \in Nat
            BY <5>2
          <6>2. QED
            BY <3>2, <5>3, <6>1, SMTT(60)
        <5>4. QED
          BY <5>1, <5>3
      <4> HIDE DEF new
      <4>2. QED
        BY <4>1 DEF UpTo
    <3>4. k \notin Cs
      BY <3>2, <1>10, SMTT(60)
    <3>5. Cardinality(Below(k)) \in Nat
      BY <1>2, <1>6, FS_Subset, FS_CardinalityType
    <3>6. QED
      <4>1. ~(Cardinality(Below(k)) > offset)
        BY <3>1, <3>4
      <4> HIDE DEF under, Below
      <4>2. QED
        BY <4>1, <3>3, <3>5, <1>5, SMTT(60)
  <2>3. QED
    BY <2>1, <2>2
<1>13. Cardinality(above) = c - Cardinality(under)
  <2>1. above = held \ under /\ held \cap under = under
    BY <1>3, <1>11, SMTT(60)
  <2> HIDE DEF held, above, under
  <2>2. QED
    BY <2>1, <1>2, FS_Difference DEF c
<1>14. Cardinality(above) * 10000 >= Threshold * c
  <2> HIDE DEF above, under
  <2>1. QED
    BY <1>5, <1>12, <1>13, SMTT(60)
<1>15. QED
  BY <1>11, <1>14, SMTT(60) DEF c, Share

\* apply_block on a sound database: the new head is the block, and
\* last_irreversible_block_num grows only to a number with the threshold's share.
LEMMA ApplyIs ==
    ASSUME NEW d \in Dbs, Sound(d),
           NEW b \in Branch, Len(b) = Len(d.head) + 1, Len(b) <= MaxNumber
    PROVE  LET a == apply_block(d, b)
           IN  /\ a.db \in Dbs /\ Sound(a.db)
               /\ a.db.head = b
               /\ a.new \in 0..Len(b)
               /\ a.db.lib = IF a.new > d.lib THEN a.new ELSE d.lib
               /\ a.db.lib > d.lib => Share(ConfirmingSeats(a.db), HeldSeats(a.db))
<1> DEFINE active == update_global_properties(d, b)
           confirmed == [d.confirmed EXCEPT ![OnTurn(d, b)] = Len(b)]
           new == NewIrreversible(active, confirmed)
           aslot == update_global_dynamic_data(d, b)
           lib == IF new > d.lib THEN new ELSE d.lib
           result == [head |-> b, aslot |-> aslot, active |-> active, confirmed |-> confirmed,
                      lib |-> lib]
<1>1. apply_block(d, b) = [db |-> result, new |-> new]
  BY DEF apply_block
<1>2. /\ d.head \in Branch /\ d.aslot \in Nat /\ d.lib \in Nat /\ Len(d.head) \in Nat
      /\ d.active \in [1..Seats -> Producers \cup {Empty}] /\ d.confirmed \in [Producers -> Nat]
      /\ Len(b) \in Nat
  BY SMTT(60) DEF Dbs, Branch
<1>3. active \in [1..Seats -> Producers \cup {Empty}] /\ \E i \in 1..Seats : active[i] # Empty
  <2>1. CASE Len(b) % Seats = 0
    <3>1. Len(b) \in {m \in 1..MaxNumber : m % Seats = 0}
      BY <1>2, <2>1, NextRoundAssumption, SMTT(60)
    <3>2. b \in [1..Len(b) -> Headers]
      BY LenProperties DEF Branch
    <3>3. QED
      BY <2>1, <3>1, <3>2, NextRoundAssumption DEF update_global_properties
  <2>2. CASE Len(b) % Seats # 0
    BY <1>2, <2>2 DEF update_global_properties, Sound
  <2>3. QED
    BY <2>1, <2>2
<1>4. confirmed \in [Producers -> Nat] /\ \A x \in Producers : confirmed[x] <= Len(b)
  <2>1. \A x \in Producers : d.confirmed[x] \in Nat /\ d.confirmed[x] <= Len(d.head)
    BY <1>2 DEF Sound
  <2>2. confirmed \in [Producers -> Nat]
    BY <1>2
  <2>3. \A x \in Producers : confirmed[x] = Len(b) \/ confirmed[x] = d.confirmed[x]
    BY <1>2
  <2>4. QED
    <3> HIDE DEF confirmed
    <3>1. QED
      BY <1>2, <2>1, <2>2, <2>3, SMTT(60)
<1>5. aslot \in Nat
  BY <1>2, TimeIsNat, SMTT(60) DEF update_global_dynamic_data, get_slot_at_time
<1> HIDE DEF active, confirmed, aslot
<1>6. /\ new \in 0..Len(b)
      /\ Share({i \in Held(active) : confirmed[active[i]] >= new}, Held(active))
  BY <1>2, <1>3, <1>4, NewIrreversibleIs
<1> HIDE DEF new
<1>7. lib \in Nat /\ lib <= Len(b)
  BY <1>2, <1>6, SMTT(60) DEF Sound
<1>8. result \in Dbs
  BY <1>3, <1>4, <1>5, <1>7 DEF Dbs
<1>9. Sound(result)
  BY <1>3, <1>4, <1>7 DEF Sound
<1>10. ASSUME lib > d.lib
       PROVE  Share(ConfirmingSeats(result), HeldSeats(result))
  <2>1. lib = new
    BY <1>2, <1>10, SMTT(60)
  <2>2. HeldSeats(result) = Held(active)
    BY DEF HeldSeats, Held
  <2>3. ConfirmingSeats(result) = {i \in Held(active) : confirmed[active[i]] >= new}
    BY <2>1, <2>2 DEF ConfirmingSeats
  <2>4. QED
    BY <1>6, <2>2, <2>3
<1>11. QED
  <2> HIDE DEF result
  <2>1. apply_block(d, b).db = result /\ apply_block(d, b).new = new
    BY <1>1, SMTT(60)
  <2>2. result.head = b /\ result.lib = lib
    BY DEF result
  <2>3. QED
    BY <1>6, <1>8, <1>9, <1>10, <2>1, <2>2

\* What commit leaves of a history whose sessions have consecutive revisions.
LEMMA CommittedIs ==
    ASSUME NEW s \in Seq(Sessions), NEW n \in Nat, NEW floor \in Nat,
           \A i \in 1..Len(s) : s[i].revision = floor + i
    PROVE  \E k \in 0..Len(s) :
               /\ Committed(s, n) \in Seq(Sessions)
               /\ Len(Committed(s, n)) = Len(s) - k
               /\ \A i \in 1..(Len(s) - k) : Committed(s, n)[i] = s[k + i]
               /\ k < Len(s) => n <= floor + k
<1> DEFINE T == {k \in 0..Len(s) : \A i \in 1..k : s[i].revision <= n}
<1>1. Len(s) \in Nat
  BY SMTT(60)
<1>2. T \subseteq Nat /\ 0 \in T /\ \A k \in T : k <= Len(s)
  BY <1>1, SMTT(60)
<1>3. Max(T) \in T /\ \A k \in T : k <= Max(T)
  <2> HIDE DEF T
  <2>1. QED
    BY <1>1, <1>2, MaxIs
<1>4. PICK k \in 0..Len(s) : k = Max(T)
  BY <1>3
<1>5. Committed(s, n) = SubSeq(s, k + 1, Len(s))
  BY <1>4 DEF Committed
<1>6. /\ Committed(s, n) \in Seq(Sessions)
      /\ Len(Committed(s, n)) = Len(s) - k
      /\ \A i \in 1..(Len(s) - k) : Committed(s, n)[i] = s[k + i]
  BY <1>1, <1>5, SMTT(60)
<1>7. ASSUME k < Len(s) PROVE n <= floor + k
  <2>1. k + 1 \notin T
    <3> HIDE DEF T
    <3> QED BY <1>3, <1>4, SMTT(60)
  <2>2. \A i \in 1..k : s[i].revision <= n
    BY <1>3, <1>4
  <2>3. k + 1 \in 0..Len(s) /\ s[k + 1].revision = floor + (k + 1)
    BY <1>1, <1>7, SMTT(60)
  <2>4. ~(s[k + 1].revision <= n)
    <3>1. \A i \in 1..(k + 1) : i \in 1..k \/ i = k + 1
      BY SMTT(60)
    <3>2. QED
      BY <2>1, <2>2, <2>3, <3>1
  <2>5. QED
    BY <2>3, <2>4, SMTT(60)
<1>8. QED
  BY <1>6, <1>7

-----------------------------------------------------------------------------

\* The stored blocks are branches of stored blocks, none longer than the best
\* chain, and the number index lists the best chain, also during a switch.
ChainOK ==
    /\ known \subseteq Branch /\ Genesis \in known
    /\ \A b \in known : Len(b) <= MaxNumber /\ \A n \in 0..Len(b) : Ancestor(b, n) \in known
    /\ last \in known
    /\ \A b \in known : Len(b) <= Len(last)
    /\ numHash = [n \in 1..Len(last) |-> Ancestor(last, n)]

\* The ledger holds what applying a block to its parent's database gives.
LedgerOK ==
    /\ ledger \in [known -> Dbs]
    /\ ledger[Genesis] = GenesisDb
    /\ \A b \in known : Sound(ledger[b]) /\ ledger[b].head = b
    /\ \A b \in known \ {Genesis} : ledger[b] = apply_block(ledger[Front(b)], b).db

\* A stored block or a child of one.
Able(b) == b \in Branch /\ Len(b) <= MaxNumber /\ (b = Genesis \/ Front(b) \in known)

\* A stored block's parent is stored.
LEMMA AbleKnown ==
    ASSUME ChainOK, NEW b \in known
    PROVE  Able(b)
<1>1. b \in Branch /\ Len(b) <= MaxNumber
  BY DEF ChainOK
<1>2. CASE b = Genesis
  BY <1>1, <1>2 DEF Able
<1>3. CASE b # Genesis
  <2>1. Front(b) = Ancestor(b, Len(b) - 1) /\ Len(b) - 1 \in 0..Len(b)
    BY <1>1, <1>3, FrontIs
  <2>2. QED
    BY <1>1, <2>1 DEF Able, ChainOK
<1>4. QED
  BY <1>2, <1>3

\* So are all its ancestors.
LEMMA AbleAncestor ==
    ASSUME ChainOK, NEW b, Able(b), NEW n \in 0..Len(b)
    PROVE  /\ Able(Ancestor(b, n))
           /\ n < Len(b) => Ancestor(b, n) \in known
<1>1. b \in Branch /\ Len(b) \in Nat
  BY SMTT(60) DEF Able, Branch
<1>2. CASE n = Len(b)
  BY <1>1, <1>2, WholeAncestor, SMTT(60)
<1>3. CASE n < Len(b)
  <2>1. b # Genesis
    BY <1>1, <1>3, SMTT(60) DEF Genesis
  <2>2. Front(b) \in known /\ Front(b) = Ancestor(b, Len(b) - 1) /\ Len(Front(b)) = Len(b) - 1
    BY <1>1, <2>1, FrontIs DEF Able
  <2>3. n \in 0..(Len(b) - 1) /\ Len(b) - 1 \in 0..Len(b)
    BY <1>1, <1>3, SMTT(60)
  <2>4. Ancestor(Front(b), n) = Ancestor(b, n)
    BY <1>1, <2>2, <2>3, AncestorOfAncestor
  <2>5. Ancestor(b, n) \in known
    BY <2>2, <2>3, <2>4 DEF ChainOK
  <2>6. QED
    BY <2>5, AbleKnown
<1>4. QED
  BY <1>1, <1>2, <1>3, SMTT(60)

\* The ledger of a stored block is what applying its branch from genesis gives.
LEMMA ReplayIs ==
    ASSUME ChainOK, LedgerOK, NEW b, Able(b)
    PROVE  /\ Replay(b) \in Dbs /\ Sound(Replay(b)) /\ Replay(b).head = b
           /\ b # Genesis => Replay(b) = apply_block(Replay(Front(b)), b).db
<1>1. \A x \in known : Replay(x) = ledger[x]
  BY DEF Replay
<1>2. ASSUME NEW x \in known
      PROVE  Replay(x) \in Dbs /\ Sound(Replay(x)) /\ Replay(x).head = x
  BY <1>1 DEF LedgerOK
<1>3. CASE b = Genesis
  BY <1>2, <1>3 DEF ChainOK
<1>4. CASE b # Genesis
  <2>1. b \in Branch /\ Len(b) <= MaxNumber /\ Front(b) \in known
    BY <1>4 DEF Able
  <2>2. Replay(b) = apply_block(Replay(Front(b)), b).db
    <3>1. Replay(Front(b)) = ledger[Front(b)]
      BY <1>1, <2>1
    <3>2. CASE b \in known
      BY <1>1, <1>4, <3>1, <3>2 DEF LedgerOK
    <3>3. CASE b \notin known
      BY <3>1, <3>3 DEF Replay
    <3>4. QED
      BY <3>2, <3>3
  <2>3. Len(b) = Len(Front(b)) + 1
    BY <1>4, <2>1, FrontIs, SMTT(60)
  <2> DEFINE d == Replay(Front(b))
  <2>4. d \in Dbs /\ Sound(d) /\ Len(b) = Len(d.head) + 1
    BY <1>2, <2>1, <2>3
  <2> HIDE DEF d
  <2>5. LET a == apply_block(d, b) IN a.db \in Dbs /\ Sound(a.db) /\ a.db.head = b
    BY <2>1, <2>4, ApplyIs
  <2>6. QED
    BY <2>2, <2>5 DEF d
<1>5. QED
  BY <1>3, <1>4

\* Storing one more block leaves what the others stand for as it was.
LEMMA StoreKeepsReplay ==
    ASSUME ChainOK, LedgerOK, NEW b, Able(b),
           known' = known \cup {b}, ledger' = [x \in known' |-> Replay(x)]
    PROVE  /\ LedgerOK'
           /\ \A x : Able(x) => Able(x)' /\ Replay(x)' = Replay(x)
<1>1. \A x \in known' : Able(x)
  BY AbleKnown
<1>2. \A x \in known' : /\ ledger'[x] = Replay(x)
                        /\ Replay(x) \in Dbs /\ Sound(Replay(x)) /\ Replay(x).head = x
  BY <1>1, ReplayIs
<1>3. ASSUME NEW x, Able(x)
      PROVE  Able(x)' /\ Replay(x)' = Replay(x)
  <2>1. Able(x)'
    BY <1>3 DEF Able
  <2>2. CASE x \in known'
    BY <1>2, <2>1, <2>2 DEF Replay
  <2>3. CASE x \notin known'
    <3>1. x \notin known /\ x # Genesis
      BY <2>3 DEF ChainOK
    <3>2. Front(x) \in known
      BY <1>3, <3>1 DEF Able
    <3>3. ledger'[Front(x)] = ledger[Front(x)]
      BY <1>2, <3>2 DEF Replay
    <3>4. QED
      BY <2>1, <2>3, <3>1, <3>3, SMTT(60) DEF Replay
  <2>4. QED
    BY <2>1, <2>2, <2>3
<1>4. LedgerOK'
  <2>1. ledger' \in [known' -> Dbs]
    BY <1>2
  <2>2. ledger'[Genesis] = GenesisDb
    BY <1>2 DEF ChainOK, LedgerOK, Replay
  <2>3. \A x \in known' : Sound(ledger'[x]) /\ ledger'[x].head = x
    BY <1>2
  <2>4. ASSUME NEW x \in known' \ {Genesis}
        PROVE  ledger'[x] = apply_block(ledger'[Front(x)], x).db
    <3>1. Front(x) \in known
      BY <1>1, <2>4 DEF Able
    <3>2. ledger'[Front(x)] = Replay(Front(x))
      BY <1>2, <3>1
    <3>3. QED
      BY <1>1, <1>2, <2>4, <3>2, ReplayIs
  <2>5. QED
    BY <2>1, <2>2, <2>3, <2>4 DEF LedgerOK, Sound
<1>5. QED
  BY <1>3, <1>4

-----------------------------------------------------------------------------

\* The database d with the undo history s at revision r: each is the replay of a
\* prefix of one branch, and nothing that was committed, m included, can be undone.
History(d, s, r, m) ==
    /\ d \in Dbs /\ Able(d.head) /\ d = Replay(d.head)
    /\ s \in Seq(Sessions) /\ r \in Nat /\ r = Len(d.head) /\ Len(s) <= r
    /\ \A i \in 1..Len(s) :
           /\ s[i].revision = (r - Len(s)) + i
           /\ s[i].db = Replay(Ancestor(d.head, (r - Len(s)) + i - 1))
           /\ s[i].db.lib <= r - Len(s)
    /\ d.lib <= r - Len(s)
    /\ m \in Nat /\ m <= r - Len(s)

HistoryOK == History(db, stack, revision, mlib)

\* An undo history without its last session.
LEMMA ShorterHistory ==
    ASSUME NEW s \in Seq(Sessions), s # <<>>
    PROVE  /\ Len(s) \in Nat \ {0}
           /\ Front(s) \in Seq(Sessions) /\ Len(Front(s)) = Len(s) - 1
           /\ \A i \in 1..(Len(s) - 1) : Front(s)[i] = s[i]
<1>1. Len(s) \in Nat \ {0}
  BY SMTT(60)
<1>2. Front(s) = SubSeq(s, 1, Len(s) - 1)
  BY DEF Front
<1>3. Len(s) - 1 \in Nat /\ \A i \in 1..(Len(s) - 1) : s[i] \in Sessions
  BY <1>1, SMTT(60)
<1>4. Front(s) \in Seq(Sessions) /\ Len(Front(s)) = Len(s) - 1
  <2> DEFINE n == Len(s) - 1
  <2>1. n \in Nat /\ \A i \in 1..n : s[i] \in Sessions
    BY <1>3
  <2> HIDE DEF n
  <2>2. SubSeq(s, 1, n) \in Seq(Sessions)
    BY <2>1, SubSeqProperties, SMTT(60)
  <2>3. Len(SubSeq(s, 1, n)) = n
    BY <2>1, SMTT(60)
  <2>4. QED
    BY <1>2, <2>2, <2>3 DEF n
<1>5. \A i \in 1..(Len(s) - 1) : Front(s)[i] = s[i]
  BY <1>1, <1>2, SMTT(60)
<1>6. QED
  BY <1>1, <1>4, <1>5

\* The history once apply_block has run and committed n.
LEMMA AppliedStackIs ==
    ASSUME HistoryOK, NEW n \in Nat, n <= revision + 1
    PROVE  LET left == AppliedStack(n)
               floor == revision + 1 - Len(left)
           IN  /\ left \in Seq(Sessions)
               /\ Len(left) <= revision + 1
               /\ Floor <= floor /\ n <= floor
               /\ \A i \in 1..Len(left) :
                      /\ left[i].revision = floor + i
                      /\ left[i].db = Replay(Ancestor(db.head, floor + i - 1))
                      /\ left[i].db.lib <= floor
<1> DEFINE session == [revision |-> revision + 1, db |-> db]
           s == Append(stack, session)
           left == AppliedStack(n)
<1>1. /\ stack \in Seq(Sessions) /\ Len(stack) \in Nat /\ revision \in Nat /\ Len(stack) <= revision
      /\ db \in Dbs /\ db.lib \in Nat /\ Floor \in Nat /\ db.lib <= Floor
      /\ Floor = revision - Len(stack) /\ revision = Floor + Len(stack)
  BY SMTT(60) DEF HistoryOK, History, Floor, Dbs
<1>2. ASSUME NEW i \in 1..Len(stack)
      PROVE  /\ stack[i].revision = Floor + i
             /\ stack[i].db = Replay(Ancestor(db.head, Floor + i - 1))
             /\ stack[i].db.lib <= Floor
  BY DEF HistoryOK, History, Floor
<1>3. session \in Sessions
  BY <1>1, SMTT(60) DEF Sessions
<1>4. db = Replay(Ancestor(db.head, revision))
  BY WholeAncestor DEF HistoryOK, History, Able
<1> HIDE DEF session
<1>5. /\ s \in Seq(Sessions) /\ Len(s) = Len(stack) + 1
      /\ \A i \in 1..Len(stack) : s[i] = stack[i]
      /\ s[Len(stack) + 1] = session
  BY <1>1, <1>3, AppendProperties, SMTT(60)
<1>6. left = Committed(s, n)
  BY DEF AppliedStack, session
<1> HIDE DEF s, left
<1>7. ASSUME NEW i \in 1..Len(s)
      PROVE  /\ s[i].revision = Floor + i
             /\ s[i].db = Replay(Ancestor(db.head, Floor + i - 1))
             /\ s[i].db.lib <= Floor
  <2>1. CASE i \in 1..Len(stack)
    BY <1>2, <1>5, <2>1
  <2>2. CASE i = Len(stack) + 1
    <3>1. s[i].revision = revision + 1 /\ s[i].db = db
      BY <1>5, <2>2, SMTT(60) DEF session
    <3>2. Floor + i = revision + 1 /\ Floor + i - 1 = revision
      BY <1>1, <2>2, SMTT(60)
    <3>3. QED
      BY <1>1, <1>4, <3>1, <3>2
  <2>3. QED
    BY <1>1, <1>5, <2>1, <2>2, SMTT(60)
<1>8. PICK k \in 0..Len(s) :
          /\ left \in Seq(Sessions)
          /\ Len(left) = Len(s) - k
          /\ \A i \in 1..(Len(s) - k) : left[i] = s[k + i]
          /\ k < Len(s) => n <= Floor + k
  <2>1. \A i \in 1..Len(s) : s[i].revision = Floor + i
    BY <1>7
  <2>2. s \in Seq(Sessions) /\ Floor \in Nat
    BY <1>1, <1>5
  <2>3. \E k \in 0..Len(s) :
            /\ Committed(s, n) \in Seq(Sessions)
            /\ Len(Committed(s, n)) = Len(s) - k
            /\ \A i \in 1..(Len(s) - k) : Committed(s, n)[i] = s[k + i]
            /\ k < Len(s) => n <= Floor + k
    BY <2>1, <2>2, CommittedIs
  <2>4. QED
    BY <1>6, <2>3
<1>9. k \in Nat /\ Len(s) \in Nat /\ Len(left) \in Nat
  BY <1>1, <1>5, <1>8, SMTT(60)
<1>10. revision + 1 - Len(left) = Floor + k
  BY <1>1, <1>5, <1>8, <1>9, SMTT(60)
<1>11. n <= Floor + k
  <2>1. CASE k < Len(s)
    BY <1>8, <2>1
  <2>2. CASE k = Len(s)
    BY <1>1, <1>5, <2>2, SMTT(60)
  <2>3. QED
    BY <1>9, <2>1, <2>2, SMTT(60)
<1>12. ASSUME NEW i \in 1..Len(left)
       PROVE  /\ left[i].revision = (Floor + k) + i
              /\ left[i].db = Replay(Ancestor(db.head, (Floor + k) + i - 1))
              /\ left[i].db.lib <= Floor + k
  <2>1. k + i \in 1..Len(s) /\ left[i] = s[k + i]
    BY <1>8, <1>9, SMTT(60)
  <2>2. (Floor + k) + i = Floor + (k + i) /\ (Floor + k) + i - 1 = Floor + (k + i) - 1
    BY <1>1, <1>9, SMTT(60)
  <2>3. left[i].db.lib \in Nat
    <3>1. left[i] \in Sessions
      BY <1>8, SMTT(60)
    <3>2. left[i].db \in Dbs
      BY <3>1 DEF Sessions
    <3>3. QED
      BY <3>2 DEF Dbs
  <2>4. left[i].revision = Floor + (k + i) /\ left[i].db.lib <= Floor
    BY <1>7, <2>1
  <2>5. left[i].db = Replay(Ancestor(db.head, Floor + (k + i) - 1))
    BY <1>7, <2>1
  <2>6. left[i].db.lib <= Floor + k
    BY <1>1, <1>9, <2>3, <2>4, SMTT(60)
  <2>7. QED
    BY <2>2, <2>4, <2>5, <2>6
<1>13. Len(left) <= revision + 1 /\ Floor <= Floor + k
  BY <1>1, <1>9, <1>10, SMTT(60)
<1>14. QED
  BY <1>8, <1>10, <1>11, <1>12, <1>13 DEF left
\* b can be applied to the database.
NextOnBranch(b) == Able(b) /\ b # Genesis /\ Front(b) = db.head

\* Applying the next block of a branch, and committing what it made irreversible,
\* keeps the history one of replays; so does dropping its session again.
LEMMA AppliedIs ==
    ASSUME ChainOK, LedgerOK, HistoryOK, NEW b, NextOnBranch(b),
           NEW m, m \in {mlib, apply_block(db, b).new}
    PROVE  LET a == apply_block(db, b)
               left == AppliedStack(a.new)
           IN  /\ a.db.head = b
               /\ a.db.lib > db.lib => Share(ConfirmingSeats(a.db), HeldSeats(a.db))
               /\ History(a.db, left, revision + 1, m)
               /\ left # <<>> => History(db, Front(left), revision, m)
<1> DEFINE a == apply_block(db, b)
           left == AppliedStack(a.new)
           floor == revision + 1 - Len(left)
<1>1. /\ b \in Branch /\ Len(b) <= MaxNumber /\ Len(b) = revision + 1 /\ Front(b) = db.head
      /\ db.head = Ancestor(b, revision) /\ revision \in 0..Len(b)
  <2>1. b \in Branch /\ Len(b) <= MaxNumber /\ b # Genesis /\ Front(b) = db.head
    BY DEF NextOnBranch, Able
  <2>2. Len(b) \in Nat \ {0} /\ Len(b) - 1 = Len(db.head) /\ db.head = Ancestor(b, Len(b) - 1)
    BY <2>1, FrontIs
  <2>3. revision = Len(db.head) /\ revision \in Nat
    BY DEF HistoryOK, History
  <2>4. QED
    BY <2>1, <2>2, <2>3, SMTT(60)
<1>2. /\ db \in Dbs /\ db.lib \in Nat /\ db.head \in Branch /\ revision \in Nat
      /\ Len(stack) <= revision /\ revision = Len(db.head)
      /\ Len(stack) \in Nat /\ Floor \in Nat /\ Floor <= revision
      /\ mlib \in Nat /\ mlib <= Floor /\ db.lib <= Floor
  BY SMTT(60) DEF HistoryOK, History, Dbs, Floor
<1>3. db = Replay(db.head) /\ Sound(db) /\ Able(db.head)
  BY ReplayIs DEF HistoryOK, History
<1>4. /\ a.db \in Dbs /\ a.db.head = b /\ a.new \in 0..Len(b)
      /\ a.db.lib = (IF a.new > db.lib THEN a.new ELSE db.lib)
      /\ a.db.lib > db.lib => Share(ConfirmingSeats(a.db), HeldSeats(a.db))
  <2>1. Len(b) = Len(db.head) + 1
    BY <1>1, <1>2
  <2>2. QED
    BY <1>1, <1>2, <1>3, <2>1, ApplyIs
<1>5. a.db = Replay(b)
  BY <1>1, <1>3, ReplayIs DEF NextOnBranch
<1>6. a.new \in Nat /\ a.new <= revision + 1
  BY <1>1, <1>2, <1>4, SMTT(60)
<1>7. m \in {mlib, a.new}
  OBVIOUS
<1> HIDE DEF a
<1>8. /\ left \in Seq(Sessions) /\ Len(left) <= revision + 1
      /\ Floor <= floor /\ a.new <= floor
      /\ \A i \in 1..Len(left) :
             /\ left[i].revision = floor + i
             /\ left[i].db = Replay(Ancestor(db.head, floor + i - 1))
             /\ left[i].db.lib <= floor
  BY <1>6, AppliedStackIs
<1> HIDE DEF left
<1>9. Len(left) \in Nat /\ floor \in Nat
  BY <1>2, <1>8, SMTT(60)
<1>10. a.db.lib <= floor /\ m \in Nat /\ m <= floor /\ db.lib <= floor
  BY <1>2, <1>4, <1>6, <1>7, <1>8, <1>9, SMTT(60)
<1>11. ASSUME NEW i \in 1..Len(left)
       PROVE  Ancestor(db.head, floor + i - 1) = Ancestor(b, floor + i - 1)
  <2>1. floor + i - 1 \in 0..revision
    BY <1>2, <1>8, <1>9, SMTT(60)
  <2>2. QED
    BY <1>1, <2>1, AncestorOfAncestor
<1>12. History(a.db, left, revision + 1, m)
  <2>1. a.db \in Dbs /\ Able(a.db.head) /\ a.db = Replay(a.db.head)
    BY <1>4, <1>5 DEF NextOnBranch
  <2>2. /\ left \in Seq(Sessions) /\ revision + 1 \in Nat /\ revision + 1 = Len(a.db.head)
        /\ Len(left) <= revision + 1
    BY <1>1, <1>2, <1>4, <1>8, SMTT(60)
  <2>3. \A i \in 1..Len(left) :
            /\ left[i].revision = floor + i
            /\ left[i].db = Replay(Ancestor(a.db.head, floor + i - 1))
            /\ left[i].db.lib <= floor
    BY <1>4, <1>8, <1>11
  <2>4. (revision + 1) - Len(left) = floor
    BY <1>2, <1>9, SMTT(60)
  <2> HIDE DEF floor
  <2>5. QED
    BY <1>10, <2>1, <2>2, <2>3, <2>4 DEF History
<1>13. ASSUME left # <<>>
       PROVE  History(db, Front(left), revision, m)
  <2>1. Len(left) - 1 \in Nat
    BY <1>8, <1>9, <1>13, SMTT(60)
  <2>2. /\ Front(left) \in Seq(Sessions) /\ Len(Front(left)) = Len(left) - 1
        /\ \A i \in 1..(Len(left) - 1) : Front(left)[i] = left[i]
    BY <1>8, <1>13, ShorterHistory
  <2>3. revision - Len(Front(left)) = floor
    BY <1>2, <1>9, <2>2, SMTT(60)
  <2>4. \A i \in 1..Len(Front(left)) : i \in 1..Len(left) /\ Front(left)[i] = left[i]
    BY <1>9, <2>2, SMTT(60)
  <2>5. \A i \in 1..Len(Front(left)) :
            /\ Front(left)[i].revision = floor + i
            /\ Front(left)[i].db = Replay(Ancestor(db.head, floor + i - 1))
            /\ Front(left)[i].db.lib <= floor
    BY <1>8, <2>4
  <2>6. Len(Front(left)) <= revision
    BY <1>2, <1>8, <1>9, <2>2, SMTT(60)
  <2> HIDE DEF floor
  <2>7. QED
    BY <1>2, <1>3, <1>10, <2>2, <2>3, <2>5, <2>6 DEF History
<1>14. QED
  BY <1>4, <1>12, <1>13 DEF a, left

\* push_block that succeeds.
LEMMA PushIs ==
    ASSUME ChainOK, LedgerOK, HistoryOK, NEW b, NextOnBranch(b), PushSucceeds(b)
    PROVE  /\ History(db', stack', revision', mlib')
           /\ db'.head = b
           /\ db'.lib > db.lib => Share(ConfirmingSeats(db'), HeldSeats(db'))
<1>1. /\ db' = apply_block(db, b).db /\ stack' = AppliedStack(apply_block(db, b).new)
      /\ revision' = revision + 1 /\ RaiseIrreversible(apply_block(db, b).new)
  BY DEF PushSucceeds
<1>2. mlib' \in {mlib, apply_block(db, b).new}
  BY <1>1 DEF RaiseIrreversible, libVars
<1>3. QED
  BY <1>1, <1>2, AppliedIs

\* push_block that throws, before or after the sessions were committed.
LEMMA ThrowIs ==
    ASSUME ChainOK, LedgerOK, HistoryOK, NEW b, NextOnBranch(b), FailsEarly(b) \/ FailsLate(b)
    PROVE  /\ History(db', stack', revision', mlib')
           /\ db'.head \in {db.head, b}
           /\ db'.lib > db.lib => Share(ConfirmingSeats(db'), HeldSeats(db'))
<1>1. db.lib \in Nat
  BY DEF HistoryOK, History, Dbs
<1>2. CASE FailsEarly(b)
  BY <1>1, <1>2, SMTT(60) DEF FailsEarly, dbVars, libVars, HistoryOK
<1>3. CASE FailsLate(b)
  <2> DEFINE a == apply_block(db, b)
             left == AppliedStack(a.new)
  <2>1. RaiseIrreversible(a.new)
    BY <1>3 DEF FailsLate
  <2>2. mlib' \in {mlib, a.new}
    BY <2>1 DEF RaiseIrreversible, libVars
  <2>3. /\ a.db.head = b
        /\ a.db.lib > db.lib => Share(ConfirmingSeats(a.db), HeldSeats(a.db))
        /\ History(a.db, left, revision + 1, mlib')
        /\ left # <<>> => History(db, Front(left), revision, mlib')
    BY <2>2, AppliedIs
  <2>4. \/ db' = a.db /\ stack' = left /\ revision' = revision + 1
        \/ left # <<>> /\ db' = db /\ stack' = Front(left) /\ revision' = revision
    BY <1>3 DEF FailsLate
  <2> HIDE DEF a, left
  <2>5. QED
    BY <1>1, <2>3, <2>4, SMTT(60)
<1>4. QED
  BY <1>2, <1>3

\* undo takes the head back by at most one block, never below the irreversible one.
LEMMA UndoIs ==
    ASSUME ChainOK, LedgerOK, HistoryOK, undo, mlib' = mlib
    PROVE  /\ History(db', stack', revision', mlib')
           /\ \/ db'.head = db.head
              \/ /\ Len(db.head) - 1 \in 0..Len(db.head) /\ mlib <= Len(db.head) - 1
                 /\ db'.head = Ancestor(db.head, Len(db.head) - 1)
           /\ ~(db'.lib > db.lib)
<1>1. /\ db \in Dbs /\ db.lib \in Nat /\ Able(db.head) /\ db.head \in Branch /\ db = Replay(db.head)
      /\ stack \in Seq(Sessions) /\ Len(stack) \in Nat /\ revision \in Nat
      /\ revision = Len(db.head) /\ Len(stack) <= revision
      /\ Floor = revision - Len(stack) /\ Floor \in Nat /\ mlib \in Nat /\ mlib <= Floor
  BY SMTT(60) DEF HistoryOK, History, Dbs, Able, Floor
<1>2. ASSUME NEW i \in 1..Len(stack)
      PROVE  /\ stack[i].revision = Floor + i
             /\ stack[i].db = Replay(Ancestor(db.head, Floor + i - 1))
             /\ stack[i].db.lib <= Floor
             /\ stack[i].db \in Dbs
  <2>1. stack[i] \in Sessions
    BY <1>1, SMTT(60)
  <2>2. stack[i].db \in Dbs
    BY <2>1 DEF Sessions
  <2>3. QED
    BY <2>2 DEF HistoryOK, History, Floor
<1>3. CASE stack = <<>>
  BY <1>1, <1>3, SMTT(60) DEF undo, dbVars, HistoryOK
<1>4. CASE stack # <<>>
  <2> DEFINE n == Len(stack)
             parent == Ancestor(db.head, revision - 1)
  <2>1. n \in 1..Len(stack) /\ n - 1 \in Nat /\ Floor + n - 1 = revision - 1
    BY <1>1, <1>4, SMTT(60)
  <2>2. db' = stack[n].db /\ stack' = Front(stack) /\ revision' = revision - 1
    BY <1>4 DEF undo, Last
  <2>3. db' = Replay(parent) /\ db' \in Dbs /\ db'.lib <= Floor /\ db'.lib \in Nat
    <3>1. stack[n].db = Replay(Ancestor(db.head, Floor + n - 1)) /\ stack[n].db.lib <= Floor
          /\ stack[n].db \in Dbs
      BY <1>2, <2>1
    <3>2. stack[n].db.lib \in Nat
      BY <3>1 DEF Dbs
    <3>3. QED
      BY <2>1, <2>2, <3>1, <3>2
  <2>4. revision - 1 \in 0..Len(db.head) /\ revision - 1 \in Nat /\ revision - 1 < Len(db.head)
    BY <1>1, <2>1, SMTT(60)
  <2>5. parent \in known /\ parent \in Branch /\ Len(parent) = revision - 1
    BY <1>1, <2>4, AbleAncestor, AncestorIs
  <2>6. db'.head = parent /\ Able(parent)
    BY <2>3, <2>5, AbleKnown, ReplayIs
  <2>7. db.head # Genesis /\ parent = Front(db.head)
    <3>1. db.head # Genesis
      BY <1>1, <2>4, SMTT(60) DEF Genesis
    <3>2. QED
      BY <1>1, <3>1, FrontIs
  <2>8. ~(db'.lib > db.lib)
    <3>1. db = apply_block(db', db.head).db
      BY <1>1, <2>3, <2>7, ReplayIs
    <3>2. Sound(db')
      BY <2>3, <2>6, ReplayIs
    <3>3. Len(db.head) = Len(db'.head) + 1 /\ Len(db.head) <= MaxNumber
      BY <1>1, <2>4, <2>5, <2>6, SMTT(60) DEF Able
    <3>4. LET a == apply_block(db', db.head)
          IN  /\ a.new \in 0..Len(db.head)
              /\ a.db.lib = IF a.new > db'.lib THEN a.new ELSE db'.lib
      BY <1>1, <2>3, <3>2, <3>3, ApplyIs
    <3>5. QED
      BY <1>1, <2>3, <3>1, <3>4, SMTT(60)
  <2>9. History(db', stack', revision', mlib')
    <3>1. /\ Front(stack) \in Seq(Sessions) /\ Len(Front(stack)) = n - 1
          /\ \A i \in 1..(n - 1) : Front(stack)[i] = stack[i]
      BY <1>1, <1>4, ShorterHistory
    <3>2. (revision - 1) - (n - 1) = Floor
      BY <1>1, <2>1, SMTT(60)
    <3>3. ASSUME NEW i \in 1..(n - 1)
          PROVE  /\ Front(stack)[i].revision = Floor + i
                 /\ Front(stack)[i].db = Replay(Ancestor(parent, Floor + i - 1))
                 /\ Front(stack)[i].db.lib <= Floor
      <4>1. i \in 1..Len(stack) /\ Front(stack)[i] = stack[i]
        BY <1>1, <3>1, SMTT(60)
      <4>2. Floor + i - 1 \in 0..(revision - 1)
        BY <1>1, <2>1, SMTT(60)
      <4>3. Ancestor(parent, Floor + i - 1) = Ancestor(db.head, Floor + i - 1)
        BY <1>1, <2>4, <4>2, AncestorOfAncestor
      <4>4. QED
        BY <1>2, <4>1, <4>3
    <3>4. Len(Front(stack)) <= revision - 1
      BY <1>1, <2>1, <3>1, SMTT(60)
    <3> HIDE DEF n, parent
    <3>5. QED
      BY <1>1, <2>2, <2>3, <2>4, <2>5, <2>6, <3>1, <3>2, <3>3, <3>4 DEF History
  <2>10. mlib <= Len(db.head) - 1
    BY <1>1, <2>1, SMTT(60)
  <2>11. QED
    BY <1>1, <2>4, <2>6, <2>8, <2>9, <2>10
<1>5. QED
  BY <1>3, <1>4

-----------------------------------------------------------------------------

\* h lies on b, not below c.
On(b, h, c) == Len(c) <= Len(h) /\ Len(h) <= Len(b) /\ h = Ancestor(b, Len(h))

\* A switch is to a longer branch whose blocks, but the tip, are stored.
TargetOK ==
    /\ pc \in {"idle", "revert", "push", "rollback", "repush"}
    /\ pc # "idle" => Able(target) /\ target # Genesis /\ Len(last) < Len(target)

\* Where the database is in each phase of insertBlockAndExtras.
PositionOK ==
    /\ pc = "idle" => db.head = last
    /\ pc = "revert" => On(last, db.head, common)
    /\ pc = "push" => On(target, db.head, common) /\ Len(db.head) < Len(target)
    /\ pc = "rollback" => On(target, db.head, common)
    /\ pc = "repush" => On(last, db.head, common) /\ Len(db.head) < Len(last)

Inv == ChainOK /\ LedgerOK /\ HistoryOK /\ TargetOK /\ PositionOK

\* What a step may do to the head and the irreversible number.
StepOK ==
    /\ mlib <= Len(db.head) /\ IsPrefix(Ancestor(db.head, mlib), db'.head)
    /\ db'.lib > db.lib => Share(ConfirmingSeats(db'), HeldSeats(db'))

\* Where two branches agree up to n, the ancestor at n is a prefix of both.
LEMMA PrefixIs ==
    ASSUME NEW a \in Branch, NEW b \in Branch, NEW n \in 0..Len(a), n <= Len(b),
           Ancestor(a, n) = Ancestor(b, n)
    PROVE  IsPrefix(Ancestor(a, n), b)
<1>1. Len(Ancestor(a, n)) = n /\ Ancestor(a, n) \in Branch
  BY AncestorIs
<1>2. Ancestor(Ancestor(a, n), n) = Ancestor(a, n)
  BY <1>1, WholeAncestor
<1>3. QED
  BY <1>1, <1>2 DEF IsPrefix, Ancestor

\* What the history says of the head, and where mlib is.
LEMMA HistoryFacts ==
    ASSUME HistoryOK
    PROVE  /\ db \in Dbs /\ db.head \in Branch /\ Len(db.head) \in Nat /\ Able(db.head)
           /\ db.lib \in Nat /\ mlib \in Nat /\ mlib \in 0..Len(db.head)
<1>1. /\ db \in Dbs /\ Able(db.head) /\ mlib \in Nat /\ revision \in Nat /\ stack \in Seq(Sessions)
      /\ mlib <= revision - Len(stack) /\ revision = Len(db.head)
  BY DEF HistoryOK, History
<1>2. Len(stack) \in Nat
  BY <1>1, SMTT(60)
<1>3. db.lib \in Nat /\ db.head \in Branch
  BY <1>1 DEF Dbs
<1>4. QED
  BY <1>1, <1>2, <1>3, SMTT(60)

\* A step that leaves the head alone.
LEMMA StayOK ==
    ASSUME HistoryOK, db'.head = db.head, ~(db'.lib > db.lib)
    PROVE  StepOK
BY HistoryFacts, PrefixIs, SMTT(60) DEF StepOK

\* A step to the next block of a branch.
LEMMA ForwardOK ==
    ASSUME HistoryOK, NEW b, NextOnBranch(b), db'.head = b,
           db'.lib > db.lib => Share(ConfirmingSeats(db'), HeldSeats(db'))
    PROVE  StepOK
<1>1. b \in Branch /\ b # Genesis /\ Front(b) = db.head
  BY DEF NextOnBranch, Able
<1>2. Len(db.head) = Len(b) - 1 /\ db.head = Ancestor(b, Len(b) - 1) /\ Len(b) - 1 \in 0..Len(b)
      /\ Len(b) \in Nat
  BY <1>1, FrontIs
<1>3. mlib \in 0..(Len(b) - 1) /\ mlib \in 0..Len(db.head) /\ mlib <= Len(b) /\ db.head \in Branch
      /\ mlib <= Len(db.head)
  BY <1>2, HistoryFacts, SMTT(60)
<1>4. Ancestor(db.head, mlib) = Ancestor(b, mlib)
  BY <1>1, <1>2, <1>3, AncestorOfAncestor
<1>5. QED
  BY <1>1, <1>3, <1>4, PrefixIs DEF StepOK

\* A step back to the parent, not below mlib.
LEMMA BackOK ==
    ASSUME HistoryOK, ~(db'.lib > db.lib),
           Len(db.head) - 1 \in 0..Len(db.head), mlib <= Len(db.head) - 1,
           db'.head = Ancestor(db.head, Len(db.head) - 1)
    PROVE  StepOK
<1> DEFINE n == Len(db.head) - 1
<1>1. n \in 0..Len(db.head) /\ mlib \in 0..n /\ mlib \in 0..Len(db.head) /\ db.head \in Branch
  BY HistoryFacts, SMTT(60)
<1>2. db'.head \in Branch /\ Len(db'.head) = n
  BY <1>1, AncestorIs
<1>3. Ancestor(db'.head, mlib) = Ancestor(db.head, mlib)
  BY <1>1, AncestorOfAncestor
<1>4. mlib <= Len(db'.head) /\ mlib <= Len(db.head)
  BY <1>1, <1>2, SMTT(60)
<1>5. QED
  BY <1>1, <1>2, <1>3, <1>4, PrefixIs DEF StepOK

\* The history stays good when what the blocks stand for stays the same.
LEMMA HistoryKept ==
    ASSUME ChainOK, History(db', stack', revision', mlib'),
           \A x : Able(x) => Able(x)' /\ Replay(x)' = Replay(x)
    PROVE  HistoryOK'
<1>1. PICK h, f, d, s, r, m :
          h = db'.head /\ f = r - Len(s) /\ d = db' /\ s = stack' /\ r = revision' /\ m = mlib'
  OBVIOUS
<1>2. /\ d \in Dbs /\ h = d.head /\ Able(h) /\ d = Replay(h)
      /\ s \in Seq(Sessions) /\ r \in Nat /\ r = Len(h)
      /\ Len(s) <= r /\ d.lib <= f /\ m \in Nat /\ m <= f
  BY <1>1 DEF History
<1>3. \A i \in 1..Len(s) :
          /\ s[i].revision = f + i
          /\ s[i].db = Replay(Ancestor(h, f + i - 1))
          /\ s[i].db.lib <= f
  BY <1>1 DEF History
<1>4. Able(h)' /\ d = Replay(h)'
  BY <1>2
<1>5. ASSUME NEW i \in 1..Len(s)
      PROVE  s[i].db = Replay(Ancestor(h, f + i - 1))'
  <2>1. Len(s) \in Nat
    BY <1>2, SMTT(60)
  <2>2. f + i - 1 \in 0..Len(h)
    BY <1>1, <1>2, <2>1, SMTT(60)
  <2>3. Able(Ancestor(h, f + i - 1))
    BY <1>2, <2>2, AbleAncestor
  <2>4. Replay(Ancestor(h, f + i - 1))' = Replay(Ancestor(h, f + i - 1))
    BY <2>3
  <2>5. QED
    BY <1>3, <2>4
<1>6. History(d, s, r, m)'
  BY <1>1, <1>2, <1>3, <1>4, <1>5 DEF History
<1>7. QED
  BY <1>1, <1>6, SMTT(60) DEF HistoryOK, History, Able, Replay

\* Steps that store nothing leave the ledger alone.
LEMMA SameChain ==
    ASSUME ChainOK, LedgerOK, UNCHANGED chainVars
    PROVE  /\ ChainOK' /\ LedgerOK'
           /\ \A x : Able(x)' = Able(x) /\ Replay(x)' = Replay(x)
<1>1. known' = known /\ ledger' = ledger /\ last' = last /\ numHash' = numHash
  BY DEF chainVars
<1>2. ChainOK'
  BY <1>1 DEF ChainOK
<1>3. LedgerOK'
  BY <1>1 DEF LedgerOK
<1>4. QED
  BY <1>1, <1>2, <1>3 DEF Able, Replay
\* The best chain, the target of a switch and where they part.
LEMMA ChainFacts ==
    ASSUME Inv
    PROVE  /\ last \in Branch /\ Len(last) \in Nat /\ Able(last)
           /\ pc # "idle" => /\ target \in Branch /\ Len(target) \in Nat /\ Able(target)
                             /\ target # Genesis /\ Len(last) < Len(target)
                             /\ common \in Branch /\ Len(common) \in Nat
                             /\ Len(common) \in 0..Len(last) /\ Len(common) \in 0..Len(target)
                             /\ common = Ancestor(last, Len(common))
                             /\ common = Ancestor(target, Len(common))
<1>1. last \in Branch /\ Len(last) \in Nat /\ Able(last)
  BY AbleKnown, SMTT(60) DEF Inv, ChainOK, Branch
<1>2. ASSUME pc # "idle"
      PROVE  /\ target \in Branch /\ Len(target) \in Nat /\ Able(target)
             /\ target # Genesis /\ Len(last) < Len(target)
  BY <1>2, SMTT(60) DEF Inv, TargetOK, Able, Branch
<1>3. ASSUME pc # "idle"
      PROVE  /\ common \in Branch /\ Len(common) \in Nat
             /\ Len(common) \in 0..Len(last) /\ Len(common) \in 0..Len(target)
             /\ common = Ancestor(last, Len(common))
             /\ common = Ancestor(target, Len(common))
  <2>1. /\ common \in Branch
        /\ Len(common) \in 0..Len(last) /\ Len(common) \in 0..Len(target)
        /\ common = Ancestor(last, Len(common)) /\ common = Ancestor(target, Len(common))
    BY <1>1, <1>2, <1>3, CommonIs DEF common
  <2>2. Len(common) \in Nat
    BY <2>1, SMTT(60) DEF Branch
  <2>3. QED
    BY <2>1, <2>2
<1>4. QED
  BY <1>1, <1>2, <1>3

\* Storing one more block.
LEMMA StoreKeepsChain ==
    ASSUME ChainOK, NEW b, Able(b), known' = known \cup {b}
    PROVE  /\ known' \subseteq Branch /\ Genesis \in known'
           /\ \A x \in known' : /\ Len(x) <= MaxNumber
                                /\ \A n \in 0..Len(x) : Ancestor(x, n) \in known'
<1>1. b \in Branch /\ Len(b) <= MaxNumber
  BY DEF Able
<1>2. \A n \in 0..Len(b) : Ancestor(b, n) \in known'
  <2>1. TAKE n \in 0..Len(b)
  <2>2. CASE n < Len(b)
    BY <2>2, AbleAncestor
  <2>3. CASE n = Len(b)
    BY <1>1, <2>3, WholeAncestor
  <2>4. QED
    BY <1>1, <2>2, <2>3, SMTT(60) DEF Branch
<1>3. QED
  BY <1>1, <1>2 DEF ChainOK

\* import of a block that is not the best.
LEMMA NotBestStep ==
    ASSUME Inv, NEW p \in known, NEW h \in Headers, ImportNotBest(Append(p, h))
    PROVE  Inv' /\ StepOK
<1>1. PICK b : b = Append(p, h)
  OBVIOUS
<1>2. /\ Offered(b) /\ ~(Len(last) < Len(b)) /\ known' = known \cup {b}
      /\ ledger' = [x \in known' |-> Replay(x)] /\ pc = "idle"
      /\ UNCHANGED <<last, numHash, pc, target>> /\ UNCHANGED dbVars /\ UNCHANGED libVars
  BY <1>1 DEF ImportNotBest, Offered
<1>3. Able(b) /\ b \in Branch
  <2>1. p \in Branch
    BY DEF Inv, ChainOK
  <2>2. b \in Branch /\ Front(b) = p
    BY <1>1, <2>1, FrontOfAppend
  <2>3. QED
    BY <1>2, <2>2 DEF Able, Offered
<1>4. LedgerOK' /\ \A x : Able(x) => Able(x)' /\ Replay(x)' = Replay(x)
  BY <1>2, <1>3, StoreKeepsReplay DEF Inv
<1>5. ChainOK'
  <2>1. Len(b) <= Len(last)
    BY <1>2, <1>3, ChainFacts, SMTT(60) DEF Branch
  <2>2. QED
    BY <1>2, <1>3, <2>1, StoreKeepsChain DEF Inv, ChainOK
<1>6. HistoryOK'
  BY <1>2, <1>4, HistoryKept DEF Inv, HistoryOK, dbVars, libVars
<1>7. TargetOK' /\ PositionOK'
  BY <1>2 DEF Inv, TargetOK, PositionOK, dbVars
<1>8. StepOK
  BY <1>2, StayOK, HistoryFacts, SMTT(60) DEF Inv, dbVars
<1>9. QED
  BY <1>4, <1>5, <1>6, <1>7, <1>8 DEF Inv

\* import of a block that becomes the best, by extension or by a switch.
LEMMA BestStep ==
    ASSUME Inv, NEW p \in known, NEW h \in Headers, ImportBest(Append(p, h))
    PROVE  Inv' /\ StepOK
<1>1. PICK b : b = Append(p, h)
  OBVIOUS
<1>2. /\ Offered(b) /\ Len(last) < Len(b) /\ pc = "idle" /\ target' = b
      /\ pc' = IF CommonAncestor(last, b) = last THEN "push" ELSE "revert"
      /\ UNCHANGED chainVars /\ UNCHANGED dbVars /\ UNCHANGED libVars
  BY <1>1 DEF ImportBest, Offered
<1>3. Able(b) /\ b \in Branch /\ b # Genesis
  <2>1. p \in Branch
    BY DEF Inv, ChainOK
  <2>2. b \in Branch /\ Front(b) = p /\ b # Genesis
    BY <1>1, <2>1, FrontOfAppend
  <2>3. QED
    BY <1>2, <2>2 DEF Able, Offered
<1>4. ChainOK' /\ LedgerOK' /\ \A x : Able(x)' = Able(x) /\ Replay(x)' = Replay(x)
  BY <1>2, SameChain DEF Inv
<1>5. HistoryOK'
  BY <1>2, <1>4, HistoryKept DEF Inv, HistoryOK, dbVars, libVars
<1>6. last' = last /\ db' = db /\ db.head = last
  BY <1>2 DEF chainVars, dbVars, Inv, PositionOK
<1>7. TargetOK'
  <2>1. pc' \in {"push", "revert"}
    BY <1>2
  <2>2. Able(b)'
    BY <1>3, <1>4
  <2>3. Able(target)'
    BY <1>2, <2>2 DEF Able
  <2>4. QED
    BY <1>2, <1>3, <1>6, <2>1, <2>3 DEF TargetOK
<1>8. PICK c : c = CommonAncestor(last, b)
  OBVIOUS
<1>9. common' = c
  BY <1>2, <1>6, <1>8 DEF common
<1>10. /\ last \in Branch /\ Len(last) \in Nat /\ Len(b) \in Nat
       /\ Len(c) \in 0..Len(last) /\ c = Ancestor(b, Len(c))
  BY <1>3, <1>8, ChainFacts, CommonIs, SMTT(60) DEF Branch
<1>11. PositionOK'
  <2>1. CASE c = last
    <3>1. On(b, last, c)
      BY <1>2, <1>10, <2>1, SMTT(60) DEF On
    <3>2. pc' = "push"
      BY <1>2, <1>8, <2>1
    <3>3. QED
      BY <1>2, <1>6, <1>9, <3>1, <3>2 DEF PositionOK
  <2>2. CASE c # last
    <3>1. On(last, last, c)
      BY <1>10, WholeAncestor, SMTT(60) DEF On
    <3>2. pc' = "revert"
      BY <1>2, <1>8, <2>2
    <3>3. QED
      BY <1>2, <1>6, <1>9, <3>1, <3>2 DEF PositionOK
  <2>3. QED
    BY <2>1, <2>2
<1>12. StepOK
  BY <1>6, StayOK, HistoryFacts, SMTT(60) DEF Inv
<1>13. QED
  BY <1>4, <1>5, <1>7, <1>11, <1>12 DEF Inv
\* A step of the import that stores nothing.
LEMMA DatabaseStep ==
    ASSUME Inv, UNCHANGED chainVars, History(db', stack', revision', mlib')
    PROVE  /\ ChainOK' /\ LedgerOK' /\ HistoryOK'
           /\ last' = last
           /\ target' = target /\ pc # "idle" /\ pc' \in {"revert", "push", "rollback", "repush"}
                  => TargetOK' /\ common' = common
<1>1. ChainOK' /\ LedgerOK' /\ \A x : Able(x)' = Able(x) /\ Replay(x)' = Replay(x)
  BY SameChain DEF Inv
<1>2. HistoryOK'
  BY <1>1, HistoryKept DEF Inv
<1>3. last' = last
  BY DEF chainVars
<1>4. ASSUME target' = target, pc # "idle", pc' \in {"revert", "push", "rollback", "repush"}
      PROVE  TargetOK' /\ common' = common
  <2>1. Able(target) /\ target # Genesis /\ Len(last) < Len(target) /\ known' = known
    BY <1>4 DEF Inv, TargetOK, chainVars
  <2>2. Able(target)'
    BY <1>4, <2>1 DEF Able
  <2>3. QED
    BY <1>3, <1>4, <2>1, <2>2 DEF TargetOK, common
<1>5. QED
  BY <1>1, <1>2, <1>3, <1>4

\* One undo on the way down to the common ancestor stays on the branch.
LEMMA DownTheBranch ==
    ASSUME Inv, pc # "idle", NEW b \in {last, target}, On(b, db.head, common),
           Len(db.head) # Len(common), undo, mlib' = mlib
    PROVE  /\ History(db', stack', revision', mlib')
           /\ On(b, db'.head, common)
           /\ StepOK
<1>1. b \in Branch /\ Len(b) \in Nat /\ Len(common) \in Nat /\ Len(db.head) \in Nat
  BY ChainFacts, HistoryFacts DEF Inv
<1>2. /\ History(db', stack', revision', mlib')
      /\ \/ db'.head = db.head
         \/ /\ Len(db.head) - 1 \in 0..Len(db.head) /\ mlib <= Len(db.head) - 1
            /\ db'.head = Ancestor(db.head, Len(db.head) - 1)
      /\ ~(db'.lib > db.lib)
  BY UndoIs DEF Inv
<1>3. CASE db'.head = db.head
  BY <1>2, <1>3, StayOK DEF Inv
<1>4. CASE /\ Len(db.head) - 1 \in 0..Len(db.head) /\ mlib <= Len(db.head) - 1
           /\ db'.head = Ancestor(db.head, Len(db.head) - 1)
  <2>1. /\ Len(db.head) \in 0..Len(b) /\ db.head = Ancestor(b, Len(db.head))
        /\ Len(common) <= Len(db.head) - 1 /\ Len(db.head) - 1 <= Len(b)
        /\ Len(db.head) - 1 \in 0..Len(b)
    BY <1>1, <1>4, SMTT(60) DEF On
  <2>2. db'.head = Ancestor(b, Len(db.head) - 1)
    BY <1>1, <1>4, <2>1, AncestorOfAncestor
  <2>3. Len(db'.head) = Len(db.head) - 1
    BY <1>1, <2>1, <2>2, AncestorIs, SMTT(60)
  <2>4. On(b, db'.head, common)
    BY <2>1, <2>2, <2>3 DEF On
  <2>5. QED
    BY <1>2, <1>4, <2>4, BackOK DEF Inv
<1>5. QED
  BY <1>2, <1>3, <1>4

\* At the length of the common ancestor the database is at the common ancestor.
LEMMA AtCommon ==
    ASSUME Inv, pc # "idle", NEW b \in {last, target}, On(b, db.head, common),
           Len(db.head) = Len(common)
    PROVE  /\ db.head = common
           /\ On(target, db.head, common) /\ On(last, db.head, common)
           /\ Len(db.head) < Len(target)
           /\ common # last => Len(db.head) < Len(last)
<1>1. db.head = common
  BY ChainFacts DEF On
<1>2. /\ last \in Branch /\ Len(last) \in Nat /\ Len(target) \in Nat /\ Len(last) < Len(target)
      /\ Len(common) \in Nat /\ Len(common) \in 0..Len(last) /\ Len(common) \in 0..Len(target)
      /\ common = Ancestor(last, Len(common)) /\ common = Ancestor(target, Len(common))
  BY ChainFacts
<1>3. On(target, common, common) /\ On(last, common, common)
  BY <1>2, SMTT(60) DEF On
<1>4. common # last => Len(common) # Len(last)
  BY <1>2, WholeAncestor
<1>5. QED
  BY <1>1, <1>2, <1>3, <1>4, SMTT(60)

\* reverting blocks of the old branch.
LEMMA RevertStep ==
    ASSUME Inv, Revert
    PROVE  Inv' /\ StepOK
<1>1. /\ pc = "revert" /\ On(last, db.head, common)
      /\ UNCHANGED chainVars /\ target' = target /\ UNCHANGED libVars /\ mlib' = mlib
  BY DEF Revert, Inv, PositionOK, libVars
<1>2. CASE Len(db.head) # Len(common)
  <2>1. undo /\ pc' = pc
    BY <1>2 DEF Revert
  <2>2. History(db', stack', revision', mlib') /\ On(last, db'.head, common) /\ StepOK
    BY <1>1, <1>2, <2>1, DownTheBranch
  <2>3. ChainOK' /\ LedgerOK' /\ HistoryOK' /\ last' = last /\ TargetOK' /\ common' = common
    BY <1>1, <2>1, <2>2, DatabaseStep
  <2>4. PositionOK'
    BY <1>1, <2>1, <2>2, <2>3 DEF PositionOK
  <2>5. QED
    BY <2>2, <2>3, <2>4 DEF Inv
<1>3. CASE Len(db.head) = Len(common)
  <2>1. pc' = "push" /\ UNCHANGED dbVars /\ db' = db
    BY <1>3 DEF Revert, dbVars
  <2>2. On(target, db.head, common) /\ Len(db.head) < Len(target)
    BY <1>1, <1>3, AtCommon
  <2>3. History(db', stack', revision', mlib')
    BY <1>1, <2>1 DEF Inv, HistoryOK, dbVars
  <2>4. ChainOK' /\ LedgerOK' /\ HistoryOK' /\ last' = last /\ TargetOK' /\ common' = common
    BY <1>1, <2>1, <2>3, DatabaseStep
  <2>5. PositionOK'
    BY <1>1, <2>1, <2>2, <2>4 DEF PositionOK
  <2>6. StepOK
    BY <2>1, StayOK, HistoryFacts, SMTT(60) DEF Inv
  <2>7. QED
    BY <2>4, <2>5, <2>6 DEF Inv
<1>4. QED
  BY <1>2, <1>3

\* rolling back a switch that failed.
LEMMA RollbackStep ==
    ASSUME Inv, Rollback
    PROVE  Inv' /\ StepOK
<1>1. /\ pc = "rollback" /\ On(target, db.head, common)
      /\ UNCHANGED chainVars /\ UNCHANGED libVars /\ mlib' = mlib
  BY DEF Rollback, Inv, PositionOK, libVars
<1>2. CASE Len(db.head) # Len(common)
  <2>1. undo /\ pc' = pc /\ target' = target
    BY <1>2 DEF Rollback
  <2>2. History(db', stack', revision', mlib') /\ On(target, db'.head, common) /\ StepOK
    BY <1>1, <1>2, <2>1, DownTheBranch
  <2>3. ChainOK' /\ LedgerOK' /\ HistoryOK' /\ last' = last /\ TargetOK' /\ common' = common
    BY <1>1, <2>1, <2>2, DatabaseStep
  <2>4. PositionOK'
    BY <1>1, <2>1, <2>2, <2>3 DEF PositionOK
  <2>5. QED
    BY <2>2, <2>3, <2>4 DEF Inv
<1>3. CASE Len(db.head) = Len(common)
  <2>1. /\ UNCHANGED dbVars /\ db' = db
        /\ IF common = last THEN pc' = "idle" /\ target' = Genesis
                            ELSE pc' = "repush" /\ target' = target
    BY <1>3 DEF Rollback, dbVars
  <2>2. /\ db.head = common /\ On(last, db.head, common)
        /\ common # last => Len(db.head) < Len(last)
    BY <1>1, <1>3, AtCommon
  <2>3. History(db', stack', revision', mlib')
    BY <1>1, <2>1 DEF Inv, HistoryOK, dbVars
  <2>4. ChainOK' /\ LedgerOK' /\ HistoryOK' /\ last' = last
    BY <1>1, <2>3, DatabaseStep
  <2>5. ASSUME common = last PROVE TargetOK' /\ PositionOK'
    BY <2>1, <2>2, <2>4, <2>5 DEF TargetOK, PositionOK
  <2>6. ASSUME common # last PROVE TargetOK' /\ PositionOK'
    <3>1. TargetOK' /\ common' = common
      BY <1>1, <2>1, <2>3, <2>6, DatabaseStep
    <3>2. PositionOK'
      BY <2>1, <2>2, <2>4, <2>6, <3>1 DEF PositionOK
    <3>3. QED
      BY <3>1, <3>2
  <2>7. TargetOK' /\ PositionOK'
    BY <2>5, <2>6
  <2>8. StepOK
    BY <2>1, StayOK, HistoryFacts, SMTT(60) DEF Inv
  <2>9. QED
    BY <2>4, <2>7, <2>8 DEF Inv
<1>4. QED
  BY <1>2, <1>3
\* The block above the database on the branch being pushed.
LEMMA NextIs ==
    ASSUME Inv, NEW b, b \in Branch, Able(b), On(b, db.head, common), Len(db.head) < Len(b),
           Len(common) \in Nat
    PROVE  LET next == Ancestor(b, Len(db.head) + 1)
           IN  /\ NextOnBranch(next)
               /\ On(b, next, common)
               /\ next # b => Len(next) < Len(b)
<1> DEFINE n == Len(db.head) + 1
           next == Ancestor(b, n)
<1>1. Len(db.head) \in Nat /\ Len(b) \in Nat
  BY HistoryFacts, SMTT(60) DEF Inv, Branch
<1>2. n \in 1..Len(b) /\ n \in 0..Len(b) /\ n - 1 = Len(db.head) /\ n <= Len(b) /\ Len(common) <= n
  BY <1>1, SMTT(60) DEF On
<1>3. db.head = Ancestor(b, n - 1)
  BY <1>2 DEF On
<1> HIDE DEF n
<1>4. next # Genesis /\ Front(next) = db.head /\ Able(next) /\ Len(next) = n
  BY <1>2, <1>3, FrontOfAncestor, AbleAncestor, AncestorIs DEF Inv
<1>5. On(b, next, common)
  BY <1>2, <1>4 DEF On
<1>6. next # b => n # Len(b)
  BY WholeAncestor
<1>7. NextOnBranch(next)
  BY <1>4 DEF NextOnBranch
<1>8. QED
  BY <1>1, <1>2, <1>4, <1>5, <1>6, <1>7, SMTT(60) DEF n

\* pushing a block of the new branch.
LEMMA PushStep ==
    ASSUME Inv, Push
    PROVE  Inv' /\ StepOK
<1>1. /\ pc = "push" /\ On(target, db.head, common) /\ Len(db.head) < Len(target)
      /\ PushSucceeds(NextTarget)
  BY DEF Push, Inv, PositionOK
<1>2. /\ target \in Branch /\ Able(target) /\ target # Genesis /\ Len(last) < Len(target)
      /\ Len(target) \in Nat /\ Len(last) \in Nat /\ last \in Branch
      /\ Len(common) \in Nat /\ Len(common) \in 0..Len(last) /\ Len(common) \in 0..Len(target)
      /\ common = Ancestor(last, Len(common)) /\ common = Ancestor(target, Len(common))
  BY <1>1, ChainFacts
<1>3. /\ NextOnBranch(NextTarget) /\ On(target, NextTarget, common)
      /\ NextTarget # target => Len(NextTarget) < Len(target)
  BY <1>1, <1>2, NextIs DEF NextTarget
<1>4. /\ History(db', stack', revision', mlib') /\ db'.head = NextTarget
      /\ db'.lib > db.lib => Share(ConfirmingSeats(db'), HeldSeats(db'))
  BY <1>1, <1>3, PushIs DEF Inv
<1>5. StepOK
  BY <1>3, <1>4, ForwardOK DEF Inv
<1>6. ASSUME NextTarget # target PROVE Inv'
  <2>1. UNCHANGED chainVars /\ pc' = pc /\ target' = target
    BY <1>6 DEF Push
  <2>2. ChainOK' /\ LedgerOK' /\ HistoryOK' /\ last' = last /\ TargetOK' /\ common' = common
    BY <1>1, <1>4, <2>1, DatabaseStep
  <2>3. PositionOK'
    BY <1>1, <1>3, <1>4, <1>6, <2>1, <2>2 DEF PositionOK
  <2>4. QED
    BY <2>2, <2>3 DEF Inv
<1>7. ASSUME NextTarget = target PROVE Inv'
  <2>1. PICK b : b = target
    OBVIOUS
  <2>2. /\ known' = known \cup {b} /\ ledger' = [x \in known' |-> Replay(x)]
        /\ last' = b /\ numHash' = IndexedBranch /\ pc' = "idle" /\ target' = Genesis
    BY <1>7, <2>1 DEF Push
  <2>3. LedgerOK' /\ \A x : Able(x) => Able(x)' /\ Replay(x)' = Replay(x)
    BY <1>2, <2>1, <2>2, StoreKeepsReplay DEF Inv
  <2>4. HistoryOK'
    BY <1>4, <2>3, HistoryKept DEF Inv
  <2>5. /\ known' \subseteq Branch /\ Genesis \in known'
        /\ \A x \in known' : /\ Len(x) <= MaxNumber
                             /\ \A n \in 0..Len(x) : Ancestor(x, n) \in known'
    BY <1>2, <2>1, <2>2, StoreKeepsChain DEF Inv
  <2>6. \A x \in known' : Len(x) <= Len(b)
    <3>1. \A x \in known : Len(x) \in Nat /\ Len(x) <= Len(last)
      BY SMTT(60) DEF Inv, ChainOK, Branch
    <3>2. QED
      BY <1>2, <2>1, <2>2, <3>1, SMTT(60)
  <2>7. numHash' = [n \in 1..Len(b) |-> Ancestor(b, n)]
    <3>1. ASSUME NEW n \in 1..Len(b), ~(n > Len(common))
          PROVE  numHash[n] = Ancestor(b, n)
      <4>1. n \in 0..Len(common) /\ n \in 1..Len(last)
        BY <1>2, <2>1, <3>1, SMTT(60)
      <4>2. numHash[n] = Ancestor(last, n)
        BY <4>1 DEF Inv, ChainOK
      <4>3. Ancestor(last, n) = Ancestor(common, n) /\ Ancestor(target, n) = Ancestor(common, n)
        BY <1>2, <4>1, AncestorOfAncestor
      <4>4. QED
        BY <2>1, <4>2, <4>3
    <3>2. numHash' = [n \in 1..Len(b) |-> IF n > Len(common) THEN Ancestor(b, n) ELSE numHash[n]]
      BY <2>1, <2>2 DEF IndexedBranch
    <3>3. QED
      BY <3>1, <3>2
  <2>8. ChainOK'
    BY <2>2, <2>5, <2>6, <2>7 DEF ChainOK
  <2>9. TargetOK' /\ PositionOK'
    BY <1>4, <1>7, <2>1, <2>2 DEF TargetOK, PositionOK
  <2>10. QED
    BY <2>3, <2>4, <2>8, <2>9 DEF Inv
<1>8. QED
  BY <1>5, <1>6, <1>7

\* pushing one that throws.
LEMMA PushThrowsStep ==
    ASSUME Inv, PushThrows
    PROVE  Inv' /\ StepOK
<1>1. /\ pc = "push" /\ On(target, db.head, common) /\ Len(db.head) < Len(target)
      /\ FailsEarly(NextTarget) \/ FailsLate(NextTarget)
      /\ pc' = "rollback" /\ UNCHANGED chainVars /\ target' = target
  BY DEF PushThrows, Inv, PositionOK
<1>2. target \in Branch /\ Able(target) /\ Len(common) \in Nat
  BY <1>1, ChainFacts
<1>3. NextOnBranch(NextTarget) /\ On(target, NextTarget, common)
  BY <1>1, <1>2, NextIs DEF NextTarget
<1>4. /\ History(db', stack', revision', mlib') /\ db'.head \in {db.head, NextTarget}
      /\ db'.lib > db.lib => Share(ConfirmingSeats(db'), HeldSeats(db'))
  BY <1>1, <1>3, ThrowIs DEF Inv
<1>5. ChainOK' /\ LedgerOK' /\ HistoryOK' /\ last' = last /\ TargetOK' /\ common' = common
  BY <1>1, <1>4, DatabaseStep
<1>6. PositionOK'
  BY <1>1, <1>3, <1>4, <1>5 DEF PositionOK
<1>7. StepOK
  <2>1. CASE db'.head = NextTarget
    <3>1. HistoryOK /\ NextOnBranch(NextTarget) /\ db'.head = NextTarget
      BY <1>3, <2>1 DEF Inv
    <3>2. QED
      BY <1>4, <3>1, ForwardOK
  <2>2. CASE db'.head = db.head
    <3>1. mlib <= Len(db.head) /\ IsPrefix(Ancestor(db.head, mlib), db.head)
      BY HistoryFacts, PrefixIs, SMTT(60) DEF Inv
    <3>2. QED
      BY <1>4, <2>2, <3>1 DEF StepOK
  <2>3. QED
    BY <1>4, <2>1, <2>2
<1>8. QED
  BY <1>5, <1>6, <1>7 DEF Inv

\* pushing the old branch again.
LEMMA RepushStep ==
    ASSUME Inv, Repush
    PROVE  Inv' /\ StepOK
<1>1. /\ pc = "repush" /\ On(last, db.head, common) /\ Len(db.head) < Len(last)
      /\ PushSucceeds(NextOld) /\ UNCHANGED chainVars
  BY DEF Repush, Inv, PositionOK
<1>2. last \in Branch /\ Able(last) /\ Len(common) \in Nat
  BY <1>1, ChainFacts
<1>3. /\ NextOnBranch(NextOld) /\ On(last, NextOld, common)
      /\ NextOld # last => Len(NextOld) < Len(last)
  BY <1>1, <1>2, NextIs DEF NextOld
<1>4. /\ History(db', stack', revision', mlib') /\ db'.head = NextOld
      /\ db'.lib > db.lib => Share(ConfirmingSeats(db'), HeldSeats(db'))
  BY <1>1, <1>3, PushIs DEF Inv
<1>5. StepOK
  BY <1>3, <1>4, ForwardOK DEF Inv
<1>6. ChainOK' /\ LedgerOK' /\ HistoryOK' /\ last' = last
  BY <1>1, <1>4, DatabaseStep
<1>7. ASSUME NextOld = last PROVE TargetOK' /\ PositionOK'
  <2>1. pc' = "idle"
    BY <1>7 DEF Repush
  <2>2. QED
    BY <1>4, <1>6, <1>7, <2>1 DEF TargetOK, PositionOK
<1>8. ASSUME NextOld # last PROVE TargetOK' /\ PositionOK'
  <2>1. pc' = pc /\ target' = target
    BY <1>8 DEF Repush
  <2>2. TargetOK' /\ common' = common
    BY <1>1, <1>4, <2>1, DatabaseStep
  <2>3. PositionOK'
    BY <1>1, <1>3, <1>4, <1>6, <1>8, <2>1, <2>2 DEF PositionOK
  <2>4. QED
    BY <2>2, <2>3
<1>9. QED
  BY <1>5, <1>6, <1>7, <1>8 DEF Inv

\* a restart of the node.
LEMMA RestartStep ==
    ASSUME Inv, Restart
    PROVE  Inv' /\ StepOK
<1>1. /\ pc = "idle" /\ mlib' = db.lib /\ pc' = pc /\ target' = target
      /\ UNCHANGED chainVars /\ UNCHANGED dbVars /\ db' = db
  BY DEF Restart, dbVars
<1>2. History(db', stack', revision', mlib')
  <2>1. History(db, stack, revision, mlib) /\ stack' = stack /\ revision' = revision
    BY <1>1 DEF Inv, HistoryOK, dbVars
  <2>2. db.lib \in Nat
    BY HistoryFacts DEF Inv
  <2>3. db.lib <= revision - Len(stack)
    BY <2>1 DEF History
  <2>4. QED
    BY <1>1, <2>1, <2>2, <2>3 DEF History
<1>3. ChainOK' /\ LedgerOK' /\ HistoryOK' /\ last' = last
  BY <1>1, <1>2, DatabaseStep
<1>4. TargetOK' /\ PositionOK'
  BY <1>1, <1>3 DEF Inv, TargetOK, PositionOK
<1>5. StepOK
  BY <1>1, StayOK, HistoryFacts, SMTT(60) DEF Inv
<1>6. QED
  BY <1>3, <1>4, <1>5 DEF Inv

-----------------------------------------------------------------------------

\* The invariant holds at the start.
LEMMA InitInv ==
    ASSUME Init
    PROVE  Inv
<1>1. Genesis \in Branch /\ Len(Genesis) = 0 /\ 0 <= MaxNumber
  BY NextRoundAssumption, SMTT(60) DEF Genesis, Branch
<1>2. Ancestor(Genesis, 0) = Genesis
  BY <1>1, WholeAncestor
<1>3. ChainOK
  <2>1. numHash = [n \in 1..Len(last) |-> Ancestor(last, n)]
    <3>1. 1..Len(last) = {}
      BY <1>1, SMTT(60) DEF Init
    <3>2. QED
      BY <3>1, SMTT(60) DEF Init
  <2>2. \A n \in 0..Len(Genesis) : Ancestor(Genesis, n) = Genesis
    BY <1>1, <1>2, SMTT(60)
  <2>3. QED
    BY <1>1, <2>1, <2>2, SMTT(60) DEF Init, ChainOK
<1>4. LedgerOK
  <2>1. GenesisDb.head = Genesis
    BY DEF GenesisDb
  <2>2. QED
    BY <2>1, GenesisSound DEF Init, LedgerOK
<1>5. HistoryOK
  <2>1. db = GenesisDb /\ db.head = Genesis /\ db.lib = 0
    BY DEF Init, GenesisDb
  <2>2. Replay(Genesis) = GenesisDb /\ Able(Genesis)
    BY <1>1 DEF Init, Replay, Able
  <2>3. stack = <<>> /\ stack \in Seq(Sessions) /\ Len(stack) = 0 /\ revision = 0 /\ mlib = 0
    BY SMTT(60) DEF Init
  <2>4. QED
    BY <1>1, <2>1, <2>2, <2>3, GenesisSound, SMTT(60) DEF HistoryOK, History
<1>6. TargetOK /\ PositionOK
  BY DEF Init, TargetOK, PositionOK, GenesisDb
<1>7. QED
  BY <1>3, <1>4, <1>5, <1>6 DEF Inv

\* Every step keeps the invariant, and keeps to what a step may do.
LEMMA NextInv ==
    ASSUME Inv, [Next]_vars
    PROVE  Inv' /\ (UNCHANGED vars \/ StepOK)
<1>1. CASE UNCHANGED vars
  <2>1. /\ UNCHANGED chainVars /\ UNCHANGED dbVars /\ UNCHANGED libVars
        /\ pc' = pc /\ target' = target /\ db' = db
    BY <1>1 DEF vars, dbVars
  <2>2. History(db', stack', revision', mlib')
    BY <2>1 DEF Inv, HistoryOK, dbVars, libVars
  <2>3. ChainOK' /\ LedgerOK' /\ HistoryOK' /\ last' = last
    BY <2>1, <2>2, DatabaseStep
  <2>4. TargetOK' /\ common' = common
    BY <2>1, <2>3 DEF Inv, TargetOK, Able, chainVars, common
  <2>5. PositionOK'
    BY <2>1, <2>3, <2>4 DEF Inv, PositionOK
  <2>6. QED
    BY <1>1, <2>3, <2>4, <2>5 DEF Inv
<1>2. ASSUME NEW b \in known, NEW h \in Headers, ImportNotBest(Append(b, h))
      PROVE  Inv' /\ StepOK
  BY <1>2, NotBestStep
<1>3. ASSUME NEW b \in known, NEW h \in Headers, ImportBest(Append(b, h))
      PROVE  Inv' /\ StepOK
  BY <1>3, BestStep
<1>4. CASE Revert
  BY <1>4, RevertStep
<1>5. CASE Push
  BY <1>5, PushStep, SMTT(60)
<1>6. CASE PushThrows
  BY <1>6, PushThrowsStep
<1>7. CASE Rollback
  BY <1>7, RollbackStep
<1>8. CASE Repush
  BY <1>8, RepushStep
<1>9. CASE Restart
  BY <1>9, RestartStep
<1>10. QED
  BY <1>1, <1>2, <1>3, <1>4, <1>5, <1>6, <1>7, <1>8, <1>9 DEF Next, Importing

\* What the invariant says of head, database and index.
LEMMA InvIs ==
    ASSUME Inv
    PROVE  HeadAgrees /\ DatabaseIsReplay /\ IndexIsCanonical
<1>1. HeadAgrees
  BY DEF Inv, PositionOK, HeadAgrees
<1>2. IndexIsCanonical
  BY DEF Inv, ChainOK, IndexIsCanonical
<1>3. /\ db = Replay(db.head) /\ revision = Len(db.head)
      /\ stack \in Seq(Sessions) /\ revision - Len(stack) = Floor
  BY DEF Inv, HistoryOK, History, Floor
<1>4. \A i \in DOMAIN stack :
          /\ stack[i].revision = Floor + i
          /\ stack[i].db = Replay(Ancestor(db.head, Floor + i - 1))
  <2>1. DOMAIN stack = 1..Len(stack)
    BY <1>3, SMTT(60)
  <2>2. QED
    BY <1>3, <2>1 DEF Inv, HistoryOK, History
<1>5. db.head \in known \cup {target}
  <2>1. Len(db.head) \in Nat
    BY HistoryFacts DEF Inv
  <2>2. CASE pc = "idle"
    BY <2>2 DEF Inv, PositionOK, ChainOK
  <2>3. CASE On(last, db.head, common)
    <3>1. Len(db.head) \in 0..Len(last) /\ db.head = Ancestor(last, Len(db.head))
      BY <2>1, <2>3, ChainFacts, SMTT(60) DEF On
    <3>2. QED
      BY <3>1 DEF Inv, ChainOK
  <2>4. CASE pc # "idle" /\ On(target, db.head, common)
    <3>1. /\ Len(db.head) \in 0..Len(target) /\ db.head = Ancestor(target, Len(db.head))
          /\ target \in Branch /\ Able(target) /\ Len(target) \in Nat
      BY <2>1, <2>4, ChainFacts, SMTT(60) DEF On
    <3>2. CASE Len(db.head) = Len(target)
      BY <3>1, <3>2, WholeAncestor
    <3>3. CASE Len(db.head) < Len(target)
      BY <3>1, <3>3, AbleAncestor DEF Inv
    <3>4. QED
      BY <2>1, <3>1, <3>2, <3>3, SMTT(60)
  <2>5. QED
    BY <2>2, <2>3, <2>4 DEF Inv, TargetOK, PositionOK
<1>6. DatabaseIsReplay
  BY <1>3, <1>4, <1>5 DEF DatabaseIsReplay
<1>7. QED
  BY <1>1, <1>2, <1>6

\* BlockChain and the producer database agree on the head whenever no switch is
\* under way, whatever was imported, reverted, thrown or restarted before.
THEOREM HeadAlwaysAgrees == Spec => []HeadAgrees
<1>1. Init => Inv
  BY InitInv
<1>2. Inv /\ [Next]_vars => Inv'
  BY NextInv
<1>3. Inv => HeadAgrees
  BY InvIs
<1>4. QED
  BY <1>1, <1>2, <1>3, PTL DEF Spec

\* The producer database is always what applying the branch of its head from
\* genesis gives: undo sessions and commits never leave it in between.
THEOREM DatabaseAlwaysReplay == Spec => []DatabaseIsReplay
<1>1. Init => Inv
  BY InitInv
<1>2. Inv /\ [Next]_vars => Inv'
  BY NextInv
<1>3. Inv => DatabaseIsReplay
  BY InvIs
<1>4. QED
  BY <1>1, <1>2, <1>3, PTL DEF Spec

\* The number index of BlockChain always lists the ancestors of the best block.
THEOREM IndexAlwaysCanonical == Spec => []IndexIsCanonical
<1>1. Init => Inv
  BY InitInv
<1>2. Inv /\ [Next]_vars => Inv'
  BY NextInv
<1>3. Inv => IndexIsCanonical
  BY InvIs
<1>4. QED
  BY <1>1, <1>2, <1>3, PTL DEF Spec

\* No step takes the producer database off a block that was reported irreversible,
\* not even while a switch is tried or taken back: what is committed stays.
THEOREM IrreversibleBlocksStay == Spec => IrreversibleStays
<1>1. Init => Inv
  BY InitInv
<1>2. Inv /\ [Next]_vars => Inv'
  BY NextInv
<1>3. Inv /\ [Next]_vars =>
          [mlib <= Len(db.head) /\ IsPrefix(Ancestor(db.head, mlib), db'.head)]_vars
  BY NextInv DEF StepOK
<1>4. QED
  BY <1>1, <1>2, <1>3, PTL DEF Spec, IrreversibleStays

\* last_irreversible_block_num grows only to a number that the threshold's share of
\* the seats held has confirmed.
THEOREM ThresholdIsMet == Spec => ThresholdMet
<1>1. Init => Inv
  BY InitInv
<1>2. Inv /\ [Next]_vars => Inv'
  BY NextInv
<1>3. Inv /\ [Next]_vars =>
          [db'.lib > db.lib =>
              Cardinality(ConfirmingSeats(db')) * 10000
                  >= Threshold * Cardinality(HeldSeats(db'))]_vars
  BY NextInv, SMTT(60) DEF StepOK, Share
<1>4. QED
  BY <1>1, <1>2, <1>3, PTL DEF Spec, ThresholdMet
=============================================================================
