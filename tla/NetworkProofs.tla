--------------------------- MODULE NetworkProofs ---------------------------
(***************************************************************************)
(* Proofs about what nodes ask of each other: HeaderCache, which headers   *)
(* are answered from, for every number of readers, block numbers and       *)
(* imports, and ChainSync, for every block tree, every set of peers and    *)
(* all limits.                                                             *)
(*                                                                         *)
(* The invariants of ChainSync are not inductive: that the start block is  *)
(* known when the download begins rests on what FindingCommonBlock has     *)
(* gathered, and that a body has its header on what m_headerIdToNumber     *)
(* still lists.  IInv says what holds in every state (Core), in Idle and   *)
(* Waiting (Clean), in FindingCommonBlock (Finding) and in SyncBlocks      *)
(* (Loading).                                                              *)
(***************************************************************************)
EXTENDS HeaderCache, ChainSync, FiniteSetTheorems, WellFoundedInduction, TLAPS

-----------------------------------------------------------------------------
(* The cache of block hashes.  The two clears keep it fresh as long as no  *)
(* read holds an old entry across the database write.                      *)

\* A number whose cached hash the running import has yet to clear again.
Awaited(n) == pc = "written" /\ fork < n /\ n <= last

\* Nothing is indexed above the head (but the block just written), a read under
\* way holds what is on disk, and only awaited numbers can be stale.
CacheInv ==
    /\ CacheTypeOK
    /\ fork <= last
    /\ pc # "idle" => last < MaxCached
    /\ pc = "push" => version < MaxVersion
    /\ \A n \in Cached :
          n > last + (IF pc = "written" THEN 1 ELSE 0) => disk[n] = NoHash
    /\ ~spanned =>
          /\ \A r \in Readers :
                reader[r].at = "insert" => reader[r].got = disk[reader[r].number]
          /\ \A n \in Cached : Fresh(n) \/ Awaited(n)

\* It holds of the empty caches.
LEMMA InitCacheInv ==
    ASSUME CacheInit PROVE CacheInv
  <1>. USE BoundsAssumption, NoHashAssumption
  <1>1. CacheTypeOK
    <2>1. 1 \in Cached /\ NoHash \in Hashes /\ 0 \in 0..MaxCached /\ 0 \in 0..MaxVersion
      BY DEF Cached, Hashes
    <2>2. Nobody \in [at : {"out", "get", "insert"}, number : Cached, got : Hashes]
      BY <2>1 DEF Nobody
    <2>. QED
      BY <2>1, <2>2 DEF CacheInit, CacheTypeOK
  <1>. QED
    BY <1>1 DEF CacheInit, CacheInv, Fresh, Awaited, Nobody, Cached

\* A reader step leaves disk and importer alone: it has to keep the types, what
\* reads hold and the freshness of the cache.
LEMMA ReaderStep ==
    ASSUME CacheInv, UNCHANGED <<importVars, spanned>>, CacheTypeOK',
           ~spanned =>
              /\ \A r \in Readers :
                    reader'[r].at = "insert" => reader'[r].got = disk[reader'[r].number]
              /\ \A n \in Cached : cache'[n] # cache[n] => cache'[n] = disk[n]
    PROVE  CacheInv'
  <1>. USE BoundsAssumption, NoHashAssumption
  <1>1. \A n \in Cached : ~spanned /\ cache'[n] = cache[n] =>
            (Fresh(n) \/ Awaited(n))'
    BY DEF CacheInv, Fresh, Awaited, importVars
  <1>2. \A n \in Cached : ~spanned /\ cache'[n] # cache[n] => Fresh(n)'
    BY DEF Fresh, importVars
  <1>. QED
    BY <1>1, <1>2 DEF CacheInv, importVars

\* find keeps it.
LEMMA FindStep ==
    ASSUME CacheInv, NEW r \in Readers, NEW n \in Cached, Find(r, n) PROVE CacheInv'
  <1>. USE BoundsAssumption, NoHashAssumption
  <1>1. CacheTypeOK'
    BY DEF CacheInv, CacheTypeOK, Find, importVars, Hashes
  <1>2. \A x \in Readers :
            reader'[x] = reader[x] \/ reader'[x] = [at |-> "get", number |-> n, got |-> NoHash]
    BY DEF CacheInv, CacheTypeOK, Find
  <1>3. UNCHANGED <<importVars, cache, spanned>>
    BY DEF Find
  <1>4. ~spanned => \A x \in Readers :
            reader'[x].at = "insert" => reader'[x].got = disk[reader'[x].number]
    BY <1>2 DEF CacheInv
  <1>. QED
    BY <1>1, <1>3, <1>4, ReaderStep

\* get keeps it.
LEMMA GetStep ==
    ASSUME CacheInv, NEW r \in Readers, Get(r) PROVE CacheInv'
  <1>. USE BoundsAssumption, NoHashAssumption
  <1>. DEFINE m == reader[r].number
  <1>0. m \in Cached /\ disk[m] \in Hashes
    BY DEF CacheInv, CacheTypeOK
  <1>1. CacheTypeOK'
    BY <1>0 DEF CacheInv, CacheTypeOK, Get, importVars, Nobody, Cached, Hashes
  <1>2. \A x \in Readers :
            \/ reader'[x] = reader[x]
            \/ reader'[x] = Nobody
            \/ reader'[x] = [at |-> "insert", number |-> m, got |-> disk[m]]
    BY DEF CacheInv, CacheTypeOK, Get
  <1>3. UNCHANGED <<importVars, cache, spanned>>
    BY DEF Get
  <1>4. ~spanned => \A x \in Readers :
            reader'[x].at = "insert" => reader'[x].got = disk[reader'[x].number]
    BY <1>2 DEF CacheInv, Nobody
  <1>. QED
    BY <1>1, <1>3, <1>4, ReaderStep

\* insert keeps it.
LEMMA InsertStep ==
    ASSUME CacheInv, NEW r \in Readers, Insert(r) PROVE CacheInv'
  <1>. USE BoundsAssumption, NoHashAssumption
  <1>. DEFINE m == reader[r].number
  <1>0. m \in Cached /\ reader[r].got \in Hashes
    BY DEF CacheInv, CacheTypeOK
  <1>1. CacheTypeOK'
    BY <1>0 DEF CacheInv, CacheTypeOK, Insert, importVars, Nobody, Cached, Hashes
  <1>2. \A x \in Readers : reader'[x] = reader[x] \/ reader'[x] = Nobody
    BY DEF CacheInv, CacheTypeOK, Insert
  <1>3. UNCHANGED <<importVars, spanned>>
    BY DEF Insert
  <1>4. ~spanned => \A x \in Readers :
            reader'[x].at = "insert" => reader'[x].got = disk[reader'[x].number]
    BY <1>2 DEF CacheInv, Nobody
  <1>5. ~spanned => reader[r].got = disk[m]
    BY DEF CacheInv, Insert
  <1>6. \A n \in Cached : cache'[n] = cache[n] \/ (n = m /\ cache'[n] = reader[r].got)
    BY <1>0 DEF CacheInv, CacheTypeOK, Insert
  <1>7. ~spanned => \A n \in Cached : cache'[n] # cache[n] => cache'[n] = disk[n]
    BY <1>5, <1>6
  <1>. QED
    BY <1>1, <1>3, <1>4, <1>7, ReaderStep

\* Clearing keeps fresh what is fresh.
LEMMA ClearStep ==
    ASSUME CacheInv, NEW n \in Nat, NEW i \in Cached
    PROVE  /\ ClearedFrom(n) \in [Cached -> Hashes]
           /\ ClearedFrom(n)[i] \in {NoHash, cache[i]}
           /\ n <= i /\ i <= last => ClearedFrom(n)[i] = NoHash
  <1>. USE BoundsAssumption, NoHashAssumption
  <1>1. last \in Nat /\ i \in Nat
    BY DEF CacheInv, CacheTypeOK, Cached
  <1>. QED
    BY <1>1 DEF CacheInv, CacheTypeOK, ClearedFrom, Hashes

\* The start of an import keeps it.
LEMMA StartImportStep ==
    ASSUME CacheInv, NEW common \in 0..MaxCached, StartImport(common) PROVE CacheInv'
  <1>. USE BoundsAssumption, NoHashAssumption
  <1>0. last \in Nat /\ common \in Nat /\ common + 1 \in Nat /\ pc = "idle" /\ common <= last
    BY DEF CacheInv, CacheTypeOK, StartImport
  <1>1. cache' \in [Cached -> Hashes] /\ \A n \in Cached : cache'[n] \in {NoHash, cache[n]}
    <2>1. CASE common # last
      <3>1. cache' = ClearedFrom(common + 1)
        BY <2>1 DEF StartImport
      <3>2. ClearedFrom(common + 1) \in [Cached -> Hashes]
        BY DEF ClearedFrom, CacheInv, CacheTypeOK, Hashes
      <3>. QED
        BY <3>1, <3>2, <1>0, ClearStep
    <2>2. CASE common = last
      BY <2>2 DEF StartImport, CacheInv, CacheTypeOK
    <2>. QED
      BY <2>1, <2>2
  <1>2. CacheTypeOK'
    BY <1>1 DEF CacheInv, CacheTypeOK, StartImport
  <1>3. UNCHANGED <<disk, last, version, reader, spanned>> /\ pc' = "push" /\ fork' = common
        /\ last < MaxCached /\ version < MaxVersion
    BY DEF StartImport
  <1>4. ~spanned => \A n \in Cached : Fresh(n)'
    BY <1>0, <1>1, <1>3 DEF CacheInv, Fresh, Awaited
  <1>5. \A n \in Cached : n > last => disk[n] = NoHash
    BY <1>0 DEF CacheInv, Cached
  <1>6. \A n \in Cached : n > last + 0 => n > last
    BY <1>0 DEF Cached
  <1>. QED
    BY <1>0, <1>2, <1>3, <1>4, <1>5, <1>6 DEF CacheInv

\* An import given up keeps it.
LEMMA AbandonStep ==
    ASSUME CacheInv, Abandon PROVE CacheInv'
  <1>. USE BoundsAssumption, NoHashAssumption
  <1>0. last \in Nat /\ fork + 1 \in Nat /\ pc = "push"
    BY DEF CacheInv, CacheTypeOK, Abandon
  <1>1. /\ cache' = ClearedFrom(fork + 1) /\ pc' = "idle"
        /\ UNCHANGED <<disk, last, version, fork, reader, spanned>>
    BY DEF Abandon
  <1>2. cache' \in [Cached -> Hashes]
    BY <1>1 DEF ClearedFrom, CacheInv, CacheTypeOK, Hashes
  <1>3. \A n \in Cached : cache'[n] \in {NoHash, cache[n]}
    BY <1>0, <1>1, ClearStep
  <1>4. CacheTypeOK'
    BY <1>1, <1>2 DEF CacheInv, CacheTypeOK
  <1>5. ~spanned => \A n \in Cached : Fresh(n)'
    BY <1>0, <1>1, <1>3 DEF CacheInv, Fresh, Awaited
  <1>. QED
    BY <1>0, <1>1, <1>4, <1>5 DEF CacheInv

\* The write to the database keeps it.
LEMMA WriteBatchStep ==
    ASSUME CacheInv, Write PROVE CacheInv'
  <1>. USE BoundsAssumption, NoHashAssumption
  <1>0. /\ last \in Nat /\ fork \in Nat /\ version \in Nat /\ pc = "push"
        /\ last < MaxCached /\ version < MaxVersion
    BY DEF CacheInv, CacheTypeOK, Write
  <1>1. /\ pc' = "written" /\ version' = version + 1
        /\ UNCHANGED <<cache, last, fork, reader>>
        /\ disk' = [n \in Cached |-> IF n > fork /\ n <= last + 1 THEN version' ELSE disk[n]]
    BY DEF Write
  <1>2. CacheTypeOK'
    <2>1. version' \in Hashes /\ version' \in 0..MaxVersion
      BY <1>0, <1>1 DEF Hashes
    <2>2. disk' \in [Cached -> Hashes]
      BY <1>1, <2>1 DEF CacheInv, CacheTypeOK
    <2>. QED
      BY <1>1, <2>1, <2>2 DEF CacheInv, CacheTypeOK, Write
  <1>3. ~spanned' => ~spanned /\ \A r \in Readers : reader[r].at # "insert"
    BY DEF Write
  <1>4. \A n \in Cached : n > last + 1 => disk'[n] = NoHash
    BY <1>0, <1>1 DEF CacheInv, Cached
  <1>5. ASSUME ~spanned', NEW n \in Cached PROVE (Fresh(n) \/ Awaited(n))'
    <2>1. Fresh(n) /\ n \in Nat
      BY <1>0, <1>3, <1>5 DEF CacheInv, Awaited, Cached
    <2>2. CASE n > fork /\ n <= last
      BY <2>2, <1>1 DEF Awaited
    <2>3. CASE n = last + 1
      BY <2>1, <2>3, <1>0, <1>1 DEF CacheInv, Fresh
    <2>4. CASE n <= fork \/ n > last + 1
      BY <2>1, <2>4, <1>0, <1>1 DEF Fresh
    <2>. QED
      BY <2>1, <2>2, <2>3, <2>4, <1>0
  <1>. QED
    BY <1>0, <1>1, <1>2, <1>3, <1>4, <1>5 DEF CacheInv

\* The end of an import keeps it.
LEMMA FinishStep ==
    ASSUME CacheInv, Finish PROVE CacheInv'
  <1>. USE BoundsAssumption, NoHashAssumption
  <1>0. /\ last \in Nat /\ fork \in Nat /\ fork + 1 \in Nat /\ pc = "written"
        /\ last < MaxCached /\ fork <= last
    BY DEF CacheInv, CacheTypeOK, Finish
  <1>1. /\ pc' = "idle" /\ last' = last + 1
        /\ UNCHANGED <<disk, version, fork, reader, spanned>>
    BY DEF Finish
  <1>2. /\ cache' \in [Cached -> Hashes]
        /\ \A n \in Cached : cache'[n] \in {NoHash, cache[n]}
        /\ \A n \in Cached : fork < n /\ n <= last => cache'[n] = NoHash
    <2>1. CASE fork # last
      <3>1. cache' = ClearedFrom(fork + 1)
        BY <2>1 DEF Finish
      <3>2. ClearedFrom(fork + 1) \in [Cached -> Hashes]
        BY DEF ClearedFrom, CacheInv, CacheTypeOK, Hashes
      <3>3. \A n \in Cached : n \in Nat
        BY DEF Cached
      <3>. QED
        BY <3>1, <3>2, <3>3, <1>0, ClearStep
    <2>2. CASE fork = last
      <3>1. cache' = cache /\ \A n \in Cached : ~(fork < n /\ n <= last)
        BY <2>2, <1>0 DEF Finish, Cached
      <3>. QED
        BY <3>1 DEF CacheInv, CacheTypeOK
    <2>. QED
      BY <2>1, <2>2
  <1>3. CacheTypeOK'
    BY <1>0, <1>1, <1>2 DEF CacheInv, CacheTypeOK
  <1>4. ~spanned => \A n \in Cached : Fresh(n)'
    BY <1>1, <1>2 DEF CacheInv, Fresh, Awaited
  <1>5. \A n \in Cached : n > last' => disk'[n] = NoHash
    BY <1>0, <1>1 DEF CacheInv
  <1>6. \A n \in Cached : n > last' + 0 => n > last'
    BY <1>0, <1>1 DEF Cached
  <1>. QED
    BY <1>0, <1>1, <1>3, <1>4, <1>5, <1>6 DEF CacheInv

\* Every step keeps it.
LEMMA NextCacheInv ==
    ASSUME CacheInv, [CacheNext]_cacheVars PROVE CacheInv'
  <1>1. CASE UNCHANGED cacheVars
    BY <1>1 DEF CacheInv, CacheTypeOK, Fresh, Awaited, cacheVars
  <1>. QED
    BY <1>1, FindStep, GetStep, InsertStep, StartImportStep, AbandonStep, WriteBatchStep,
       FinishStep DEF CacheNext

\* So it always holds.
LEMMA CacheInvariance == CacheSpec => []CacheInv
  BY InitCacheInv, NextCacheInv, PTL DEF CacheSpec

\* The variables keep their types.
THEOREM CacheTypeCorrect == CacheSpec => []CacheTypeOK
  <1>1. CacheInv => CacheTypeOK
    BY DEF CacheInv
  <1>. QED
    BY <1>1, CacheInvariance, PTL

\* Between imports the cache agrees with the database, unless a read spanned a
\* write.
THEOREM CacheStaysFresh == CacheSpec => []CacheIsFresh
  <1>1. CacheInv => CacheIsFresh
    BY DEF CacheInv, CacheIsFresh, Awaited
  <1>. QED
    BY <1>1, CacheInvariance, PTL

-----------------------------------------------------------------------------
(* Chain synchronisation.  First numbers.                                  *)

USE ZenonT(60)

\* Every set of numbers has a least one.
LEMMA LeastExists ==
    ASSUME NEW T, T \subseteq Nat, T # {}
    PROVE  \E x \in T : \A y \in T : x <= y
  <1>1. \E x \in T : \A y \in T : ~(<<y, x>> \in OpToRel(<, Nat))
    BY NatLessThanWellFounded, WFMin
  <1>2. \A x, y \in T : <<y, x>> \in OpToRel(<, Nat) <=> y < x
    BY DEF OpToRel
  <1>3. \A x, y \in T : ~(y < x) => x <= y
    BY SMTT(60)
  <1>. QED
    BY <1>1, <1>2, <1>3

\* Induction up to n, over the set of the numbers for which a claim holds.
LEMMA UpTo ==
    ASSUME NEW n \in Nat, NEW P, 0 \in P, \A k \in 0..n : k + 1 \in 0..n /\ k \in P => k + 1 \in P
    PROVE  \A k \in 0..n : k \in P
  <1>. SUFFICES ASSUME (0..n) \ P # {} PROVE FALSE
    OBVIOUS
  <1>. DEFINE T == (0..n) \ P
  <1>0. T \subseteq Nat /\ T # {}
    BY SMTT(60)
  <1>1. PICK k \in T : \A m \in T : k <= m
    <2>. HIDE DEF T
    <2>. QED
      BY <1>0, LeastExists
  <1>2. k # 0
    BY <1>1
  <1>3. k - 1 \in 0..n /\ (k - 1) + 1 = k /\ ~(k <= k - 1)
    BY <1>1, <1>2, SMTT(60)
  <1>4. k - 1 \in P
    BY <1>1, <1>3
  <1>. QED
    BY <1>1, <1>3, <1>4

\* The least number of a set is one of it.
LEMMA MinIs ==
    ASSUME NEW T, T \subseteq Nat, T # {}
    PROVE  Min(T) \in T /\ \A y \in T : Min(T) <= y
  BY LeastExists DEF Min

\* So is the greatest of a set that is bounded.
LEMMA MaxIs ==
    ASSUME NEW n \in Nat, NEW T, T \subseteq 0..n, T # {}
    PROVE  Max(T) \in T /\ \A y \in T : y <= Max(T)
  <1>. DEFINE D == {n - x : x \in T}
  <1>1. \A x \in T : x \in 0..n
    OBVIOUS
  <1>2. \A x \in 0..n : n - x \in Nat
    BY SMTT(60)
  <1>3. D \subseteq Nat /\ D # {}
    BY <1>1, <1>2
  <1>4. PICK d \in D : \A e \in D : d <= e
    <2>. HIDE DEF D
    <2>. QED
      BY <1>3, LeastExists
  <1>5. PICK x \in T : d = n - x
    BY <1>4
  <1>6. \A y \in T : x >= y
    <2>. TAKE y \in T
    <2>1. n - x <= n - y
      BY <1>4, <1>5
    <2>2. x \in 0..n /\ y \in 0..n
      BY <1>1
    <2>. QED
      BY <2>1, <2>2, SMTT(60)
  <1>7. Max(T) \in T /\ \A y \in T : Max(T) >= y
    BY <1>6 DEF Max
  <1>8. \A a, b \in 0..n : a >= b => b <= a
    BY SMTT(60)
  <1>. QED
    BY <1>1, <1>7, <1>8

\* The greater and the lesser of two.
LEMMA OfTwo ==
    ASSUME NEW a \in Int, NEW b \in Int
    PROVE  /\ Max({a, b}) = (IF a >= b THEN a ELSE b)
           /\ Min({a, b}) = (IF a <= b THEN a ELSE b)
  BY SMTT(60) DEF Max, Min

-----------------------------------------------------------------------------
(* The block tree.                                                         *)

\* A block's parent has a smaller index.
LEMMA ParentIs ==
    ASSUME NEW b \in Blocks, b # 0
    PROVE  b \in 1..NumBlocks /\ Parent[b] \in Blocks /\ Parent[b] < b
  <1>1. b \in 1..NumBlocks
    BY TreeAssumption, SMTT(60) DEF Blocks
  <1>. QED
    BY <1>1, TreeAssumption

\* The numbers of the blocks up to k.
Numbered(f, k) == f = [b \in 0..k |-> IF b = 0 THEN 0 ELSE f[Parent[b]] + 1]

\* The recursion over the tree that gives the numbers has a solution.
LEMMA NumbersExist == \E f : Numbered(f, NumBlocks)
  <1>. DEFINE P == {k \in 0..NumBlocks : \E f : Numbered(f, k)}
  <1>0. NumBlocks \in Nat
    BY TreeAssumption
  <1>1. 0 \in P
    <2>1. PICK f : f = [b \in 0..0 |-> 0]
      OBVIOUS
    <2>2. Numbered(f, 0)
      BY <2>1, SMTT(60) DEF Numbered
    <2>. QED
      BY <2>2, <1>0, SMTT(60)
  <1>2. ASSUME NEW k \in 0..NumBlocks, k + 1 \in 0..NumBlocks, k \in P PROVE k + 1 \in P
    <2>1. PICK f : Numbered(f, k)
      BY <1>2
    <2>2. PICK h : h = [b \in 0..k + 1 |-> IF b = k + 1 THEN f[Parent[b]] + 1 ELSE f[b]]
      OBVIOUS
    <2>3. ASSUME NEW b \in 0..k + 1 PROVE h[b] = IF b = 0 THEN 0 ELSE h[Parent[b]] + 1
      <3>1. CASE b = 0
        <4>1. 0 \in 0..k /\ b # k + 1
          BY <3>1, SMTT(60)
        <4>. QED
          BY <4>1, <3>1, <2>1, <2>2 DEF Numbered
      <3>2. CASE b # 0
        <4>1. b \in Blocks
          BY <1>2, <1>0, SMTT(60) DEF Blocks
        <4>2. Parent[b] \in 0..k /\ Parent[b] \in 0..k + 1 /\ Parent[b] # k + 1
          BY <4>1, <3>2, ParentIs, <1>0, SMTT(60) DEF Blocks
        <4>3. h[Parent[b]] = f[Parent[b]]
          BY <4>2, <2>2
        <4>4. CASE b = k + 1
          BY <4>4, <4>3, <3>2, <2>2
        <4>5. CASE b # k + 1
          <5>1. b \in 0..k
            BY <4>5, SMTT(60)
          <5>2. f[b] = f[Parent[b]] + 1
            BY <5>1, <3>2, <2>1 DEF Numbered
          <5>. QED
            BY <5>2, <4>5, <4>3, <3>2, <2>2
        <4>. QED
          BY <4>4, <4>5
      <3>. QED
        BY <3>1, <3>2
    <2>4. h = [b \in 0..k + 1 |-> h[b]]
      BY <2>2
    <2>5. Numbered(h, k + 1)
      BY <2>3, <2>4 DEF Numbered
    <2>. QED
      BY <1>2, <2>5
  <1>. HIDE DEF P
  <1>3. \A k \in 0..NumBlocks : k \in P
    BY <1>0, <1>1, <1>2, UpTo
  <1>4. NumBlocks \in P
    BY <1>0, <1>3, SMTT(60)
  <1>. QED
    BY <1>4 DEF P

\* What the recursion says.
LEMMA NumberIs ==
    /\ Number[0] = 0 /\ 0 \in Blocks
    /\ \A b \in Blocks : b # 0 => Number[b] = Number[Parent[b]] + 1
  <1>1. \E f : f = [b \in Blocks |-> IF b = 0 THEN 0 ELSE f[Parent[b]] + 1]
    BY NumbersExist DEF Numbered, Blocks
  <1>2. Number = [b \in Blocks |-> IF b = 0 THEN 0 ELSE Number[Parent[b]] + 1]
    BY <1>1 DEF Number
  <1>3. 0 \in Blocks
    BY TreeAssumption, SMTT(60) DEF Blocks
  <1>. QED
    BY <1>2, <1>3

\* Only genesis has number 0.
LEMMA NumberNat ==
    \A b \in Blocks : Number[b] \in Nat /\ Number[b] <= b /\ (Number[b] = 0 => b = 0)
  <1>. DEFINE good(b) == Number[b] \in Nat /\ Number[b] <= b /\ (Number[b] = 0 => b = 0)
              T == {b \in Blocks : ~good(b)}
  <1>. SUFFICES ASSUME T # {} PROVE FALSE
    OBVIOUS
  <1>1. T \subseteq Nat
    BY TreeAssumption, SMTT(60) DEF Blocks
  <1>2. PICK b \in T : \A c \in T : b <= c
    <2>. HIDE DEF T
    <2>. QED
      BY <1>1, LeastExists
  <1>3. b \in Blocks /\ ~good(b)
    BY <1>2
  <1>4. b # 0
    BY <1>3, NumberIs, SMTT(60)
  <1>5. Parent[b] \in Blocks /\ Parent[b] < b
    BY <1>3, <1>4, ParentIs
  <1>6. ~(b <= Parent[b])
    BY <1>3, <1>5, TreeAssumption, SMTT(60) DEF Blocks
  <1>7. good(Parent[b])
    BY <1>2, <1>5, <1>6
  <1>8. Number[b] = Number[Parent[b]] + 1
    BY <1>3, <1>4, NumberIs
  <1>. QED
    BY <1>3, <1>5, <1>7, <1>8, TreeAssumption, SMTT(60) DEF Blocks

\* Numbers go up to MaxNumber, and there is a block above genesis.
LEMMA NumberRange ==
    /\ MaxNumber \in Nat /\ 1 \in Numbers
    /\ \A b \in Blocks : Number[b] \in 0..MaxNumber /\ (b # 0 => Number[b] \in Numbers)
  <1>. DEFINE T == {Number[b] : b \in Blocks}
  <1>1. NumBlocks \in Nat /\ \A b \in Blocks : Number[b] \in 0..NumBlocks
    BY NumberNat, TreeAssumption, SMTT(60) DEF Blocks
  <1>2. T \subseteq 0..NumBlocks /\ T # {}
    BY <1>1, NumberIs
  <1>3. Max(T) \in T /\ \A y \in T : y <= Max(T)
    <2>. HIDE DEF T
    <2>. QED
      BY <1>1, <1>2, MaxIs
  <1>4. MaxNumber \in 0..NumBlocks /\ \A b \in Blocks : Number[b] <= MaxNumber
    BY <1>2, <1>3 DEF MaxNumber
  <1>5. 1 \in Blocks /\ 1 # 0
    BY TreeAssumption, SMTT(60) DEF Blocks
  <1>6. Number[1] # 0 /\ Number[1] \in Nat /\ Number[1] <= 1
    BY <1>5, NumberNat
  <1>7. Number[1] <= MaxNumber
    BY <1>4, <1>5
  <1>8. ASSUME NEW b \in Blocks PROVE Number[b] \in 0..MaxNumber /\ (b # 0 => Number[b] \in Numbers)
    <2>1. Number[b] \in Nat /\ (Number[b] = 0 => b = 0) /\ Number[b] <= MaxNumber
      BY <1>4, NumberNat
    <2>. QED
      BY <2>1, <1>1, <1>4, SMTT(60) DEF Numbers
  <1>9. MaxNumber \in Nat /\ 1 \in Numbers
    BY <1>1, <1>4, <1>6, <1>7, SMTT(60) DEF Numbers
  <1>. QED
    BY <1>8, <1>9

\* The ancestors of b, given those of its parent.
Ancestors(b, f) ==
    [n \in 0..MaxNumber |->
        IF n > Number[b] THEN None ELSE IF n = Number[b] THEN b ELSE f[Parent[b]][n]]

\* Genesis has none but itself.
LEMMA AncestorsOfGenesis ==
    ASSUME NEW f, NEW h
    PROVE  Ancestors(0, f) = Ancestors(0, h)
  <1>1. \A n \in 0..MaxNumber : n > Number[0] \/ n = Number[0]
    BY NumberIs, NumberRange, SMTT(60)
  <1>. QED
    BY <1>1 DEF Ancestors

\* The recursion over the tree that gives the ancestors has a solution.
LEMMA AncestorsExist == \E f : f = [b \in Blocks |-> Ancestors(b, f)]
  <1>. DEFINE P == {k \in 0..NumBlocks : \E f : f = [b \in 0..k |-> Ancestors(b, f)]}
  <1>0. NumBlocks \in Nat
    BY TreeAssumption
  <1>1. 0 \in P
    <2>1. PICK f : f = [b \in 0..0 |-> Ancestors(b, 0)]
      OBVIOUS
    <2>2. \A b \in 0..0 : b = 0
      BY SMTT(60)
    <2>3. \A b \in 0..0 : Ancestors(b, 0) = Ancestors(b, f)
      BY <2>2, AncestorsOfGenesis
    <2>4. f = [b \in 0..0 |-> Ancestors(b, f)]
      BY <2>1, <2>3
    <2>5. 0 \in 0..NumBlocks
      BY <1>0, SMTT(60)
    <2>. QED
      BY <2>4, <2>5
  <1>2. ASSUME NEW k \in 0..NumBlocks, k + 1 \in 0..NumBlocks, k \in P PROVE k + 1 \in P
    <2>1. PICK f : f = [b \in 0..k |-> Ancestors(b, f)]
      BY <1>2
    <2>2. PICK h : h = [b \in 0..k + 1 |-> IF b = k + 1 THEN Ancestors(b, f) ELSE f[b]]
      OBVIOUS
    <2>3. ASSUME NEW b \in 0..k + 1 PROVE h[b] = Ancestors(b, h)
      <3>0. h[b] = Ancestors(b, f)
        <4>1. CASE b = k + 1
          BY <4>1, <2>2
        <4>2. CASE b # k + 1
          <5>1. b \in 0..k
            BY <4>2, <1>2, SMTT(60)
          <5>. QED
            BY <5>1, <4>2, <2>1, <2>2
        <4>. QED
          BY <4>1, <4>2
      <3>1. CASE b = 0
        BY <3>0, <3>1, AncestorsOfGenesis
      <3>2. CASE b # 0
        <4>1. b \in Blocks
          BY <1>2, <1>0, SMTT(60) DEF Blocks
        <4>2. Parent[b] \in 0..k + 1 /\ Parent[b] # k + 1
          BY <4>1, <3>2, ParentIs, <1>0, SMTT(60) DEF Blocks
        <4>3. h[Parent[b]] = f[Parent[b]]
          BY <4>2, <2>2
        <4>. QED
          BY <4>3, <3>0 DEF Ancestors
      <3>. QED
        BY <3>1, <3>2
    <2>4. h = [b \in 0..k + 1 |-> h[b]]
      BY <2>2
    <2>5. h = [b \in 0..k + 1 |-> Ancestors(b, h)]
      BY <2>3, <2>4
    <2>. QED
      BY <1>2, <2>5
  <1>. HIDE DEF P
  <1>3. \A k \in 0..NumBlocks : k \in P
    BY <1>0, <1>1, <1>2, UpTo
  <1>4. NumBlocks \in P
    BY <1>0, <1>3, SMTT(60)
  <1>. QED
    BY <1>4 DEF P, Blocks

\* What the recursion says.
LEMMA AtIs ==
    ASSUME NEW b \in Blocks, NEW n \in 0..MaxNumber
    PROVE  At[b][n] = IF n > Number[b] THEN None ELSE IF n = Number[b] THEN b ELSE At[Parent[b]][n]
  <1>1. At = [c \in Blocks |-> [m \in 0..MaxNumber |->
                 IF m > Number[c] THEN None ELSE IF m = Number[c] THEN c ELSE At[Parent[c]][m]]]
    BY AncestorsExist DEF At, Ancestors
  <1>2. At[b] = [m \in 0..MaxNumber |->
                 IF m > Number[b] THEN None ELSE IF m = Number[b] THEN b ELSE At[Parent[b]][m]]
    BY <1>1
  <1>. QED
    BY <1>2

\* A block is its own ancestor; the others are its parent's.
LEMMA AtSteps ==
    ASSUME NEW b \in Blocks
    PROVE  /\ At[b][Number[b]] = b
           /\ b # 0 => \A n \in 0..Number[b] : n # Number[b] =>
                          At[b][n] = At[Parent[b]][n] /\ n \in 0..Number[Parent[b]]
  <1>1. Number[b] \in 0..MaxNumber /\ ~(Number[b] > Number[b])
    BY NumberRange, SMTT(60)
  <1>2. At[b][Number[b]] = b
    BY <1>1, AtIs
  <1>3. ASSUME b # 0, NEW n \in 0..Number[b], n # Number[b]
        PROVE  At[b][n] = At[Parent[b]][n] /\ n \in 0..Number[Parent[b]]
    <2>1. Number[b] = Number[Parent[b]] + 1 /\ Number[Parent[b]] \in Nat
      BY <1>3, NumberIs, NumberNat, ParentIs
    <2>2. n \in 0..MaxNumber /\ ~(n > Number[b]) /\ n \in 0..Number[Parent[b]]
      BY <1>1, <1>3, <2>1, NumberRange, SMTT(60)
    <2>. QED
      BY <1>3, <2>2, AtIs
  <1>. QED
    BY <1>2, <1>3

\* The ancestor with number n has number n.
LEMMA AtBlock ==
    ASSUME NEW b \in Blocks, NEW n \in 0..Number[b]
    PROVE  At[b][n] \in Blocks /\ Number[At[b][n]] = n
  <1>. DEFINE good(c) == \A m \in 0..Number[c] : At[c][m] \in Blocks /\ Number[At[c][m]] = m
              T == {c \in Blocks : ~good(c)}
  <1>. SUFFICES ASSUME T # {} PROVE FALSE
    OBVIOUS
  <1>1. T \subseteq Nat
    BY TreeAssumption, SMTT(60) DEF Blocks
  <1>2. PICK c \in T : \A d \in T : c <= d
    <2>. HIDE DEF T
    <2>. QED
      BY <1>1, LeastExists
  <1>3. c \in Blocks /\ ~good(c)
    BY <1>2
  <1>4. PICK m \in 0..Number[c] : ~(At[c][m] \in Blocks /\ Number[At[c][m]] = m)
    BY <1>3
  <1>5. m # Number[c]
    BY <1>3, <1>4, AtSteps
  <1>6. c # 0
    <2>. SUFFICES ASSUME c = 0 PROVE FALSE
      OBVIOUS
    <2>1. m \in 0..0 /\ m # 0
      BY <1>4, <1>5, NumberIs
    <2>. QED
      BY <2>1, SMTT(60)
  <1>7. Parent[c] \in Blocks /\ Parent[c] < c
    BY <1>3, <1>6, ParentIs
  <1>8. ~(c <= Parent[c])
    BY <1>3, <1>7, TreeAssumption, SMTT(60) DEF Blocks
  <1>9. good(Parent[c])
    BY <1>2, <1>7, <1>8
  <1>10. At[c][m] = At[Parent[c]][m] /\ m \in 0..Number[Parent[c]]
    BY <1>3, <1>4, <1>5, <1>6, AtSteps
  <1>. QED
    BY <1>4, <1>9, <1>10

-----------------------------------------------------------------------------
(* The state, and what holds of its parts.                                 *)

Names == {"cur", "lock", "boot", "impN", "impH", "irr", "startN", "startH", "startIrr", "expN",
          "expH", "headers", "bodies", "ids", "dlH", "dlB", "hp", "bp", "cut", "mixed",
          "unexpected", "quiet", "silentF", "silentS", "wait", "ready", "unknown", "req"}
State(u) == u = [f \in Names |-> u[f]]

\* The fields that say where the synchronisation is.
Alike(u, w) ==
    /\ w.cur = u.cur /\ w.lock = u.lock /\ w.impN = u.impN /\ w.irr = u.irr
    /\ w.startN = u.startN /\ w.startH = u.startH /\ w.expN = u.expN /\ w.expH = u.expH
    /\ w.headers = u.headers /\ w.bodies = u.bodies /\ w.ids = u.ids
    /\ w.cut = u.cut /\ w.mixed = u.mixed

\* The queue: what is ready and what waits, and only for a parent that is neither
\* ready nor in the chain.
QueueOK(ready, unknown, ch) ==
    /\ 0 \in ch /\ ch \subseteq Blocks
    /\ ready \cup unknown \subseteq Blocks \ ch /\ ready \cap unknown = {}
    /\ \A c \in unknown : Parent[c] \notin ready \cup ch

\* Headers are kept under their numbers.
HeadersOK(h) == \A n \in DOMAIN h : n \in Numbers /\ h[n] \in Blocks /\ Number[h[n]] = n

\* Bodies have headers, and empty bodies are there at once.
BodiesOK(h, bd, cut) ==
    /\ \A n \in DOMAIN bd : n \in DOMAIN h /\ (bd[n] = h[n] \/ bd[n] \in cut)
    /\ \A n \in DOMAIN h : h[n] \in Empty => n \in DOMAIN bd

IdsOK(ids) == \A b \in DOMAIN ids : b \in Blocks /\ ids[b] = Number[b]

\* An id is that of a header, of one that was cut off, or left from a block up to low.
Listed(h, ids, cut, low) ==
    \A b \in DOMAIN ids : b \in cut \/ (Number[b] \in DOMAIN h /\ h[Number[b]] = b) \/ Number[b] <= low

Above(h, n) == \A m \in DOMAIN h : m > n

\* Neighbours among the headers are of one branch, and so is the start block.
Linked(h) == \A n \in DOMAIN h : n - 1 \in DOMAIN h => h[n - 1] = Parent[h[n]]
Attached(h, n, b) == n + 1 \in DOMAIN h => Parent[h[n + 1]] = b

RequestsOK(req) == req = [p \in Peers |-> req[p]] /\ \A p \in Peers : WellFormed(req[p])

\* What holds in every state.
Core(u, ch) ==
    /\ State(u) /\ QueueOK(u.ready, u.unknown, ch)
    /\ HeadersOK(u.headers) /\ BodiesOK(u.headers, u.bodies, u.cut) /\ IdsOK(u.ids)
    /\ u.dlH \cup u.dlB \subseteq Numbers /\ RequestsOK(u.req)
    /\ u.startN \in 0..MaxNumber /\ u.impN \in 0..MaxNumber /\ u.irr \in 0..MaxNumber
    /\ u.expH \in Blocks \cup {None}

\* In Idle and in Waiting.
Clean(u) ==
    /\ DOMAIN u.headers = {} /\ DOMAIN u.bodies = {} /\ DOMAIN u.ids = {}
    /\ u.dlH = {} /\ u.dlB = {} /\ u.cut = {}

\* In FindingCommonBlock.
Finding(u) ==
    /\ u.cut = {} /\ Listed(u.headers, u.ids, {}, 0) /\ (u.mixed \/ Linked(u.headers))
    /\ \/ DOMAIN u.headers = {} /\ u.expH \in Blocks /\ u.expN = 0
       \/ u.expH = None /\ u.expN = u.startN /\ Above(u.headers, u.startN)

\* In SyncBlocks.
Loading(u, ch) ==
    /\ Listed(u.headers, u.ids, u.cut, u.startN) /\ Above(u.headers, u.startN)
    /\ u.startH \in Blocks /\ Number[u.startH] = u.startN
    /\ u.startH \in u.ready \cup ch \cup u.unknown
    /\ \/ u.mixed
       \/ u.startH \in u.ready \cup ch /\ Linked(u.headers)
          /\ Attached(u.headers, u.startN, u.startH)

InvOf(u, ch) ==
    /\ Core(u, ch)
    /\ u.cur \in {"Idle", "Waiting", "FindingCommonBlock", "SyncBlocks"}
    /\ u.cur \in {"Idle", "Waiting"} => Clean(u)
    /\ u.cur = "Idle" => ~u.lock
    /\ u.cur = "FindingCommonBlock" => Finding(u)
    /\ u.cur = "SyncBlocks" => Loading(u, ch)

\* A peer's blocks do not go beyond its head.
PNames == {"on", "legal", "told", "latest", "head", "has"}
PeerOK(q) ==
    /\ q = [f \in PNames |-> q[f]] /\ q.head \in Blocks
    /\ \A c \in q.has : c \in Blocks /\ Number[c] <= Number[q.head]
PeersOK(P) == P = [p \in Peers |-> P[p]] /\ \A p \in Peers : PeerOK(P[p])

IInv == InvOf(s, chain) /\ best \in chain /\ PeersOK(peer)

\* A step that leaves the synchronisation where it is may add blocks to the queue,
\* free some that wait, drop marks and change requests and timers.
LEMMA Keeps ==
    ASSUME NEW u, NEW w, NEW ch, InvOf(u, ch), State(w), Alike(u, w),
           QueueOK(w.ready, w.unknown, ch), u.ready \subseteq w.ready,
           u.unknown \subseteq w.ready \cup w.unknown,
           w.dlH \subseteq u.dlH, w.dlB \subseteq u.dlB, RequestsOK(w.req)
    PROVE  InvOf(w, ch)
  <1>1. Core(w, ch)
    BY DEF InvOf, Core, Alike
  <1>2. u.cur \in {"Idle", "Waiting"} => Clean(w)
    BY DEF InvOf, Clean, Alike
  <1>3. u.cur = "FindingCommonBlock" => Finding(w)
    BY DEF InvOf, Finding, Alike
  <1>4. u.cur = "SyncBlocks" => Loading(w, ch)
    BY DEF InvOf, Loading, Alike
  <1>. QED
    BY <1>1, <1>2, <1>3, <1>4 DEF InvOf, Alike

\* The fields of the queue, the marks and the requests.
Beside(u, w) ==
    w.ready = u.ready /\ w.unknown = u.unknown /\ w.dlH = u.dlH /\ w.dlB = u.dlB /\ w.req = u.req

\* A step that only sets timers.
LEMMA Ticks ==
    ASSUME NEW u, NEW w, NEW ch, InvOf(u, ch), State(w), Alike(u, w), Beside(u, w)
    PROVE  InvOf(w, ch)
  <1>1. QueueOK(w.ready, w.unknown, ch) /\ RequestsOK(w.req)
    BY DEF InvOf, Core, Beside
  <1>. QED
    BY <1>1, Keeps DEF Beside

\* The same for what holds in every state.
LEMMA CoreTicks ==
    ASSUME NEW u, NEW w, NEW ch, Core(u, ch), State(w), Alike(u, w), Beside(u, w)
    PROVE  Core(w, ch)
  BY DEF Core, Alike, Beside

\* Resetting the data of a download.
LEMMA ResetTempIs ==
    ASSUME NEW u, NEW ch, Core(u, ch)
    PROVE  /\ Core(ResetTemp(u), ch) /\ Clean(ResetTemp(u))
           /\ ResetTemp(u).cur = u.cur /\ ResetTemp(u).lock = u.lock
  <1>. DEFINE w == ResetTemp(u)
  <1>1. State(u)
    BY DEF Core
  <1>2. State(w)
    BY <1>1 DEF State, ResetTemp
  <1>3. /\ w.headers = Empties /\ w.bodies = Empties /\ w.ids = Empties
        /\ w.dlH = {} /\ w.dlB = {} /\ w.cut = {}
    BY <1>1 DEF State, ResetTemp, Names
  <1>4. /\ w.cur = u.cur /\ w.lock = u.lock /\ w.ready = u.ready /\ w.unknown = u.unknown
        /\ w.req = u.req /\ w.startN = u.startN /\ w.impN = u.impN /\ w.irr = u.irr /\ w.expH = u.expH
    BY <1>1 DEF State, ResetTemp, Names
  <1>5. DOMAIN Empties = {}
    BY DEF Empties
  <1>6. HeadersOK(Empties) /\ BodiesOK(Empties, Empties, {}) /\ IdsOK(Empties)
    BY <1>5 DEF HeadersOK, BodiesOK, IdsOK
  <1>. HIDE DEF w
  <1>7. Core(w, ch)
    BY <1>2, <1>3, <1>4, <1>6 DEF Core
  <1>8. Clean(w)
    BY <1>3, <1>5 DEF Clean
  <1>. QED
    BY <1>4, <1>7, <1>8 DEF w

\* Resetting the queue as well.
LEMMA ResetAllIs ==
    ASSUME NEW u, NEW ch, Core(u, ch)
    PROVE  /\ Core(ResetAll(u), ch) /\ Clean(ResetAll(u))
           /\ ResetAll(u).cur = u.cur /\ ResetAll(u).lock = u.lock
  <1>. DEFINE v == ResetTemp(u)
              w == ResetAll(u)
  <1>1. Core(v, ch) /\ Clean(v) /\ v.cur = u.cur /\ v.lock = u.lock
    BY ResetTempIs
  <1>2. w = [v EXCEPT !.ready = {}, !.unknown = {}]
    BY DEF ResetAll
  <1>. HIDE DEF v, w
  <1>3. State(v)
    BY <1>1 DEF Core
  <1>4. State(w)
    BY <1>2, <1>3 DEF State
  <1>5. w.ready = {} /\ w.unknown = {} /\ Alike(v, w) /\ w.dlH = v.dlH /\ w.dlB = v.dlB /\ w.req = v.req
    BY <1>2, <1>3 DEF State, Names, Alike
  <1>6. QueueOK({}, {}, ch)
    BY <1>1 DEF Core, QueueOK
  <1>7. Core(w, ch)
    BY <1>1, <1>4, <1>5, <1>6 DEF Core, Alike
  <1>8. Clean(w) /\ w.cur = u.cur /\ w.lock = u.lock
    BY <1>1, <1>5 DEF Clean, Alike
  <1>. QED
    BY <1>7, <1>8 DEF w

\* A clean state is a possible one of Idle.
LEMMA CleanIdle ==
    ASSUME NEW u, NEW ch, Core(u, ch), Clean(u), u.cur = "Idle", ~u.lock
    PROVE  InvOf(u, ch)
  BY DEF InvOf

\* Leaving for Idle needs no more than what holds in every state.
LEMMA ToIdleIs ==
    ASSUME NEW u, NEW ch, Core(u, ch), u.cur = "Idle" => Clean(u) /\ ~u.lock
    PROVE  InvOf(ToIdle(u), ch)
  <1>1. CASE u.cur = "Idle"
    BY <1>1, CleanIdle DEF ToIdle
  <1>2. CASE u.cur # "Idle"
    <2>. DEFINE v == ResetTemp(u)
                w == ToIdle(u)
    <2>1. Core(v, ch) /\ Clean(v)
      BY ResetTempIs
    <2>2. w = [v EXCEPT !.cur = "Idle", !.lock = FALSE, !.quiet = 0]
      BY <1>2 DEF ToIdle
    <2>. HIDE DEF v, w
    <2>3. State(v)
      BY <2>1 DEF Core
    <2>4. State(w) /\ w.cur = "Idle" /\ ~w.lock
      BY <2>2, <2>3 DEF State, Names
    <2>5. /\ w.impN = v.impN /\ w.irr = v.irr /\ w.startN = v.startN /\ w.expH = v.expH
          /\ w.headers = v.headers /\ w.bodies = v.bodies /\ w.ids = v.ids /\ w.cut = v.cut
          /\ Beside(v, w)
      BY <2>2, <2>3 DEF State, Names, Beside
    <2>6. Core(w, ch)
      BY <2>1, <2>4, <2>5 DEF Core, Beside
    <2>7. Clean(w)
      BY <2>1, <2>5 DEF Clean, Beside
    <2>8. InvOf(w, ch)
      BY <2>4, <2>6, <2>7, CleanIdle
    <2>. QED
      BY <2>8 DEF w
  <1>. QED
    BY <1>1, <1>2

\* In particular from a state the machine can be in.
LEMMA ToIdleOf ==
    ASSUME NEW u, NEW ch, InvOf(u, ch)
    PROVE  InvOf(ToIdle(u), ch)
  BY ToIdleIs DEF InvOf

\* updateTimeout.
LEMMA UpdateTimeoutIs ==
    ASSUME NEW u, NEW ch, InvOf(u, ch)
    PROVE  InvOf(UpdateTimeout(u), ch)
  <1>. DEFINE w == [u EXCEPT !.quiet = 0]
  <1>1. State(u)
    BY DEF InvOf, Core
  <1>2. State(w) /\ Alike(u, w) /\ Beside(u, w)
    BY <1>1 DEF State, Names, Alike, Beside
  <1>. HIDE DEF w
  <1>3. InvOf(w, ch)
    BY <1>2, Ticks
  <1>. QED
    BY <1>3, ToIdleOf DEF UpdateTimeout, w

\* The marks of a peer are dropped.
LEMMA ClearMarksIs ==
    ASSUME NEW u, NEW ch, NEW p, InvOf(u, ch)
    PROVE  /\ InvOf(ClearMarks(u, p), ch) /\ Alike(u, ClearMarks(u, p))
           /\ ClearMarks(u, p).req = u.req /\ ClearMarks(u, p).ready = u.ready
  <1>. DEFINE w == ClearMarks(u, p)
  <1>1. State(u) /\ QueueOK(u.ready, u.unknown, ch) /\ RequestsOK(u.req)
    BY DEF InvOf, Core
  <1>2. State(w) /\ Alike(u, w)
    BY <1>1 DEF State, Names, Alike, ClearMarks
  <1>3. /\ w.dlH \subseteq u.dlH /\ w.dlB \subseteq u.dlB
        /\ w.ready = u.ready /\ w.unknown = u.unknown /\ w.req = u.req
    BY <1>1 DEF State, Names, ClearMarks
  <1>. HIDE DEF w
  <1>4. InvOf(w, ch)
    BY <1>1, <1>2, <1>3, Keeps
  <1>. QED
    BY <1>2, <1>3, <1>4 DEF w

\* A request replaces one.
LEMMA OneRequest ==
    ASSUME NEW req, RequestsOK(req), NEW p \in Peers, NEW r, WellFormed(r)
    PROVE  RequestsOK([req EXCEPT ![p] = r])
  BY DEF RequestsOK

\* The next state is that before with another request of a peer.
LEMMA AskIs ==
    ASSUME NEW u, NEW ch, InvOf(u, ch), NEW p \in Peers, NEW r, WellFormed(r)
    PROVE  /\ InvOf([u EXCEPT !.req[p] = r], ch) /\ Alike(u, [u EXCEPT !.req[p] = r])
           /\ [u EXCEPT !.req[p] = r].ready = u.ready
  <1>. DEFINE w == [u EXCEPT !.req[p] = r]
  <1>1. State(u) /\ QueueOK(u.ready, u.unknown, ch) /\ RequestsOK(u.req)
    BY DEF InvOf, Core
  <1>2. State(w) /\ Alike(u, w)
    BY <1>1 DEF State, Names, Alike
  <1>3. /\ w.dlH = u.dlH /\ w.dlB = u.dlB
        /\ w.ready = u.ready /\ w.unknown = u.unknown /\ w.req = [u.req EXCEPT ![p] = r]
    BY <1>1 DEF State, Names
  <1>. HIDE DEF w
  <1>4. RequestsOK([u.req EXCEPT ![p] = r])
    BY <1>1, OneRequest
  <1>5. InvOf(w, ch)
    BY <1>1, <1>2, <1>3, <1>4, Keeps
  <1>. QED
    BY <1>2, <1>3, <1>5 DEF w

-----------------------------------------------------------------------------
(* The queue.                                                              *)

\* What waits for b, directly or not.
Freed(unknown, b) ==
    {c \in unknown : At[c][Number[b]] = b /\
        \A n \in Number[b] + 1..Number[c] : At[c][n] \in unknown}

\* A child of b that waits is freed with it.
LEMMA ChildIsFreed ==
    ASSUME NEW unknown, unknown \subseteq Blocks, NEW b \in Blocks,
           NEW c \in unknown, c # 0, Parent[c] = b
    PROVE  c \in Freed(unknown, b)
  <1>1. c \in Blocks /\ Number[c] = Number[b] + 1 /\ Number[b] \in Nat
    BY NumberIs, NumberNat
  <1>2. Number[b] \in 0..Number[c] /\ Number[b] # Number[c]
    BY <1>1, SMTT(60)
  <1>3. At[c][Number[b]] = b
    BY <1>1, <1>2, AtSteps
  <1>4. ASSUME NEW n \in Number[b] + 1..Number[c] PROVE n = Number[c]
    BY <1>1, SMTT(60)
  <1>5. At[c][Number[c]] = c
    BY <1>1, AtSteps
  <1>. QED
    BY <1>3, <1>4, <1>5 DEF Freed

\* So is a child of one that is.
LEMMA ChildOfFreed ==
    ASSUME NEW unknown, unknown \subseteq Blocks, NEW b \in Blocks,
           NEW c \in unknown, c # 0, Parent[c] \in Freed(unknown, b)
    PROVE  c \in Freed(unknown, b)
  <1>. DEFINE d == Parent[c]
  <1>0. /\ d \in unknown /\ At[d][Number[b]] = b
        /\ \A n \in Number[b] + 1..Number[d] : At[d][n] \in unknown
    BY DEF Freed
  <1>1. /\ c \in Blocks /\ d \in Blocks /\ Number[c] = Number[d] + 1
        /\ Number[d] \in Nat /\ Number[b] \in 0..MaxNumber
    BY <1>0, NumberIs, NumberNat, NumberRange
  <1>2. b # None
    BY TreeAssumption, SMTT(60) DEF Blocks, None
  <1>3. ~(Number[b] > Number[d])
    BY <1>0, <1>1, <1>2, AtIs
  <1>. HIDE DEF d
  <1>4. Number[b] \in 0..Number[c] /\ Number[b] # Number[c]
    BY <1>1, <1>3, NumberRange, SMTT(60)
  <1>5. At[c][Number[b]] = b
    BY <1>0, <1>1, <1>4, AtSteps DEF d
  <1>6. ASSUME NEW n \in Number[b] + 1..Number[c] PROVE At[c][n] \in unknown
    <2>1. CASE n = Number[c]
      BY <2>1, <1>1, AtSteps
    <2>2. CASE n # Number[c]
      <3>1. n \in 0..Number[c] /\ n \in Number[b] + 1..Number[d]
        BY <2>2, <1>1, <1>6, NumberRange, SMTT(60)
      <3>2. At[c][n] = At[d][n]
        BY <3>1, <2>2, <1>1, AtSteps DEF d
      <3>. QED
        BY <3>1, <3>2, <1>0
    <2>. QED
      BY <2>1, <2>2
  <1>. QED
    BY <1>5, <1>6 DEF Freed

\* A block is noted as ready, with what waits for it.
LEMMA ReadyOK ==
    ASSUME NEW ready, NEW unknown, NEW ch, QueueOK(ready, unknown, ch),
           NEW b \in Blocks, b \notin ready \cup unknown \cup ch
    PROVE  QueueOK(ready \cup {b} \cup Freed(unknown, b), unknown \ Freed(unknown, b), ch)
  <1>. DEFINE F == Freed(unknown, b)
  <1>1. F \subseteq unknown
    BY DEF Freed
  <1>2. ASSUME NEW c \in unknown, c \notin F PROVE Parent[c] \notin F /\ Parent[c] # b
    <2>1. c # 0 /\ unknown \subseteq Blocks
      BY DEF QueueOK
    <2>. QED
      BY <2>1, <1>2, ChildIsFreed, ChildOfFreed
  <1>. HIDE DEF F
  <1>3. QueueOK(ready \cup {b} \cup F, unknown \ F, ch)
    BY <1>1, <1>2 DEF QueueOK
  <1>. QED
    BY <1>3 DEF F

\* A block that waits for its parent.
LEMMA UnknownOK ==
    ASSUME NEW ready, NEW unknown, NEW ch, QueueOK(ready, unknown, ch),
           NEW b \in Blocks, b \notin ready \cup unknown \cup ch, Parent[b] \notin ready \cup ch
    PROVE  QueueOK(ready, unknown \cup {b}, ch)
  BY DEF QueueOK

\* BlockQueue::import: nothing leaves the queue, and what is let in is in it.
LEMMA QueueImportIs ==
    ASSUME NEW u, State(u), QueueOK(u.ready, u.unknown, chain), NEW b \in Blocks
    PROVE  LET w == QueueImport(u, b) IN
           /\ State(w) /\ Alike(u, w) /\ w.dlH = u.dlH /\ w.dlB = u.dlB /\ w.req = u.req
           /\ QueueOK(w.ready, w.unknown, chain)
           /\ u.ready \subseteq w.ready /\ u.unknown \subseteq w.ready \cup w.unknown
           /\ QueueResult(u, b) \in {"AlreadyKnown", "AlreadyInChain", "Success"} =>
                 /\ b \in w.ready \cup chain \cup w.unknown
                 /\ Parent[b] \in u.ready \cup chain => b \in w.ready \cup chain
  <1>. DEFINE w == QueueImport(u, b)
              r == QueueResult(u, b)
              F == Freed(u.unknown, b)
  <1>1. CASE r = "UnknownParent"
    <2>1. w = [u EXCEPT !.unknown = @ \cup {b}]
      BY <1>1 DEF QueueImport
    <2>2. b \notin u.ready \cup u.unknown \cup chain /\ Parent[b] \notin u.ready \cup chain
      BY <1>1 DEF QueueResult
    <2>. HIDE DEF w, r
    <2>3. State(w) /\ Alike(u, w) /\ w.dlH = u.dlH /\ w.dlB = u.dlB /\ w.req = u.req
      BY <2>1 DEF State, Names, Alike
    <2>4. w.ready = u.ready /\ w.unknown = u.unknown \cup {b}
      BY <2>1 DEF State, Names
    <2>5. QueueOK(u.ready, u.unknown \cup {b}, chain)
      BY <2>2, UnknownOK
    <2>. QED
      BY <1>1, <2>3, <2>4, <2>5 DEF w, r
  <1>2. CASE r = "Success"
    <2>1. w = [u EXCEPT !.ready = @ \cup {b} \cup F, !.unknown = @ \ F]
      BY <1>2 DEF QueueImport, Freed
    <2>2. b \notin u.ready \cup u.unknown \cup chain
      BY <1>2 DEF QueueResult
    <2>. HIDE DEF w, r, F
    <2>3. State(w) /\ Alike(u, w) /\ w.dlH = u.dlH /\ w.dlB = u.dlB /\ w.req = u.req
      BY <2>1 DEF State, Names, Alike
    <2>4. w.ready = u.ready \cup {b} \cup F /\ w.unknown = u.unknown \ F
      BY <2>1 DEF State, Names
    <2>5. QueueOK(u.ready \cup {b} \cup F, u.unknown \ F, chain)
      BY <2>2, ReadyOK DEF F
    <2>. QED
      BY <1>2, <2>3, <2>4, <2>5 DEF w, r
  <1>3. CASE r \notin {"UnknownParent", "Success"}
    <2>1. w = u
      BY <1>3 DEF QueueImport
    <2>2. r \in {"AlreadyKnown", "AlreadyInChain"} => b \in u.ready \cup chain \cup u.unknown
      BY DEF QueueResult
    <2>. HIDE DEF w, r
    <2>3. Parent[b] \in u.ready \cup chain => b \notin u.unknown
      BY DEF QueueOK
    <2>4. Alike(u, u)
      BY DEF Alike
    <2>. QED
      BY <1>3, <2>1, <2>2, <2>3, <2>4 DEF w, r
  <1>. QED
    BY <1>1, <1>2, <1>3

\* So the synchronisation may go on.
LEMMA QueueImportKeeps ==
    ASSUME NEW u, InvOf(u, chain), NEW b \in Blocks
    PROVE  InvOf(QueueImport(u, b), chain) /\ Alike(u, QueueImport(u, b))
  <1>. DEFINE w == QueueImport(u, b)
  <1>1. State(u) /\ QueueOK(u.ready, u.unknown, chain) /\ RequestsOK(u.req)
    BY DEF InvOf, Core
  <1>2. /\ State(w) /\ Alike(u, w) /\ w.dlH = u.dlH /\ w.dlB = u.dlB /\ w.req = u.req
        /\ QueueOK(w.ready, w.unknown, chain)
        /\ u.ready \subseteq w.ready /\ u.unknown \subseteq w.ready \cup w.unknown
    BY <1>1, QueueImportIs
  <1>. HIDE DEF w
  <1>3. InvOf(w, chain)
    BY <1>1, <1>2, Keeps
  <1>. QED
    BY <1>2, <1>3 DEF w

-----------------------------------------------------------------------------
(* Requests.                                                               *)

\* The requests that are sent.
LEMMA WellFormedIs ==
    /\ WellFormed(NoRequest)
    /\ \A b \in Blocks : WellFormed(ByHash(b))
    /\ \A n \in 0..MaxNumber, c \in Numbers : WellFormed(ByNumber(n, c))
    /\ \A S : S \subseteq Blocks \ Empty => WellFormed(Bodies(S))
  BY DEF WellFormed, NoRequest, ByHash, ByNumber, Bodies

\* There are at most MaxNumber numbers.
LEMMA HowMany ==
    ASSUME NEW T, T \subseteq Numbers, T # {}
    PROVE  Cardinality(T) \in Numbers
  <1>1. IsFiniteSet(1..MaxNumber) /\ Cardinality(1..MaxNumber) = MaxNumber
    <2>1. MaxNumber \in Nat /\ 1 \in Int /\ MaxNumber \in Int
      BY NumberRange, SMTT(60)
    <2>2. Cardinality(1..MaxNumber) = (IF 1 > MaxNumber THEN 0 ELSE (MaxNumber - 1) + 1)
      BY <2>1, FS_Interval, SMTT(60)
    <2>. QED
      BY <2>1, <2>2, FS_Interval, SMTT(60)
  <1>2. IsFiniteSet(T) /\ Cardinality(T) <= MaxNumber
    BY <1>1, FS_Subset DEF Numbers
  <1>3. Cardinality(T) \in Nat /\ Cardinality(T) # 0
    BY <1>2, FS_CardinalityType, FS_EmptySet
  <1>. QED
    BY <1>2, <1>3, NumberRange, SMTT(60) DEF Numbers

\* The first header has a number.
LEMMA FirstIs ==
    ASSUME NEW h, HeadersOK(h), DOMAIN h # {}
    PROVE  First(h) \in DOMAIN h /\ First(h) \in Numbers /\ \A n \in DOMAIN h : First(h) <= n
  <1>1. DOMAIN h \subseteq Numbers
    BY DEF HeadersOK
  <1>2. DOMAIN h \subseteq Nat
    BY <1>1, NumberRange, SMTT(60) DEF Numbers
  <1>. QED
    BY <1>1, <1>2, MinIs DEF First

\* The chunk that begins with the first header has it.
LEMMA ChunkIs ==
    ASSUME NEW h, HeadersOK(h), DOMAIN h # {}
    PROVE  /\ First(h) \in Chunk(h, First(h)) /\ Chunk(h, First(h)) \subseteq DOMAIN h
           /\ Max(Chunk(h, First(h))) \in Numbers /\ Max(DOMAIN h) \in Numbers
  <1>. DEFINE first == First(h)
              chunk == Chunk(h, first)
  <1>1. first \in DOMAIN h /\ first \in Numbers
    BY FirstIs
  <1>2. first..first = {first} /\ first <= first
    BY <1>1, NumberRange, SMTT(60) DEF Numbers
  <1>3. first \in chunk /\ chunk \subseteq DOMAIN h
    BY <1>1, <1>2 DEF Chunk
  <1>. HIDE DEF first, chunk
  <1>4. DOMAIN h \subseteq Numbers
    BY DEF HeadersOK
  <1>5. MaxNumber \in Nat /\ Numbers \subseteq 0..MaxNumber
    BY NumberRange, SMTT(60) DEF Numbers
  <1>6. Max(chunk) \in chunk /\ Max(DOMAIN h) \in DOMAIN h
    BY <1>3, <1>4, <1>5, MaxIs
  <1>. QED
    BY <1>3, <1>4, <1>6 DEF first, chunk

\* The numbers the header request of syncHeadersAndBodies is about.
Low(u) == IF First(u.headers) <= u.startN + 1
          THEN Max(Chunk(u.headers, First(u.headers))) + 1 ELSE u.startN + 1
Missing(u) == {n \in Low(u)..Max(DOMAIN u.headers) : n \notin u.dlH \cup DOMAIN u.headers}
Gap(u) == {n \in Missing(u) : \A m \in Min(Missing(u))..n : m \notin DOMAIN u.headers}

\* They are numbers of headers that may exist.
LEMMA GapIs ==
    ASSUME NEW u, HeadersOK(u.headers), DOMAIN u.headers # {}, u.startN \in 0..MaxNumber, Missing(u) # {}
    PROVE  Gap(u) \subseteq Numbers /\ WellFormed(ByNumber(Min(Gap(u)), Cardinality(Gap(u))))
  <1>1. Low(u) \in Nat /\ Low(u) >= 1
    <2>1. Max(Chunk(u.headers, First(u.headers))) \in Numbers
      BY ChunkIs
    <2>2. Max(Chunk(u.headers, First(u.headers))) + 1 \in Nat /\ u.startN + 1 \in Nat
          /\ Max(Chunk(u.headers, First(u.headers))) + 1 >= 1 /\ u.startN + 1 >= 1
      BY <2>1, NumberRange, SMTT(60) DEF Numbers
    <2>. QED
      BY <2>2 DEF Low
  <1>2. Max(DOMAIN u.headers) \in Numbers
    BY ChunkIs
  <1>3. Low(u)..Max(DOMAIN u.headers) \subseteq Numbers
    BY <1>1, <1>2, NumberRange, SMTT(60) DEF Numbers
  <1>4. Missing(u) \subseteq Numbers
    BY <1>3 DEF Missing
  <1>5. Numbers \subseteq Nat /\ Numbers \subseteq 0..MaxNumber
    BY NumberRange, SMTT(60) DEF Numbers
  <1>6. Min(Missing(u)) \in Missing(u)
    BY <1>4, <1>5, MinIs
  <1>7. Min(Missing(u))..Min(Missing(u)) = {Min(Missing(u))}
    BY <1>4, <1>5, <1>6, SMTT(60)
  <1>8. Min(Missing(u)) \in Gap(u)
    BY <1>6, <1>7 DEF Gap, Missing
  <1>9. Gap(u) \subseteq Numbers /\ Gap(u) # {}
    BY <1>4, <1>8 DEF Gap
  <1>10. Min(Gap(u)) \in Gap(u)
    BY <1>5, <1>9, MinIs
  <1>11. Min(Gap(u)) \in 0..MaxNumber /\ Cardinality(Gap(u)) \in Numbers
    BY <1>5, <1>9, <1>10, HowMany
  <1>. QED
    BY <1>9, <1>11, WellFormedIs

\* The numbers the request for bodies is about.
Needed(u) == IF First(u.headers) # u.startN + 1 THEN {}
             ELSE {n \in Chunk(u.headers, First(u.headers)) : n \notin u.dlB \cup DOMAIN u.bodies}

\* Their headers have no empty body.
LEMMA NeededIs ==
    ASSUME NEW u, HeadersOK(u.headers), BodiesOK(u.headers, u.bodies, u.cut), DOMAIN u.headers # {}
    PROVE  /\ Needed(u) \subseteq DOMAIN u.headers /\ Needed(u) \subseteq Numbers
           /\ WellFormed(Bodies({u.headers[n] : n \in Needed(u)}))
  <1>1. Needed(u) \subseteq DOMAIN u.headers /\ Needed(u) \cap DOMAIN u.bodies = {}
    BY ChunkIs DEF Needed
  <1>2. Needed(u) \subseteq Numbers
    BY <1>1 DEF HeadersOK
  <1>3. {u.headers[n] : n \in Needed(u)} \subseteq Blocks \ Empty
    BY <1>1 DEF HeadersOK, BodiesOK
  <1>. QED
    BY <1>1, <1>2, <1>3, WellFormedIs

\* Ids are added for headers that are there.
WithIds(u) ==
    [b \in DOMAIN u.ids \cup {u.headers[n] : n \in {m \in Needed(u) : u.headers[m] \notin DOMAIN u.ids}} |->
        IF b \in DOMAIN u.ids THEN u.ids[b] ELSE Number[b]]

\* They are what an id is.
LEMMA WithIdsIs ==
    ASSUME NEW u, HeadersOK(u.headers), IdsOK(u.ids), Needed(u) \subseteq DOMAIN u.headers,
           NEW low, Listed(u.headers, u.ids, u.cut, low)
    PROVE  IdsOK(WithIds(u)) /\ Listed(u.headers, WithIds(u), u.cut, low)
  <1>1. ASSUME NEW b \in DOMAIN WithIds(u)
        PROVE  b \in DOMAIN u.ids \/ \E n \in DOMAIN u.headers : b = u.headers[n]
    BY DEF WithIds
  <1>2. \A b \in DOMAIN WithIds(u) : WithIds(u)[b] = IF b \in DOMAIN u.ids THEN u.ids[b] ELSE Number[b]
    BY DEF WithIds
  <1>3. IdsOK(WithIds(u))
    BY <1>1, <1>2 DEF IdsOK, HeadersOK
  <1>4. Listed(u.headers, WithIds(u), u.cut, low)
    BY <1>1 DEF Listed, HeadersOK
  <1>. QED
    BY <1>3, <1>4

\* syncHeadersAndBodies(_peer) asks for what is missing.
LEMMA RequestIs ==
    ASSUME NEW u, NEW ch, InvOf(u, ch), u.cur # "FindingCommonBlock", NEW p \in Peers
    PROVE  InvOf(Request(u, p), ch)
  <1>. DEFINE D == DOMAIN u.headers
              w == Request(u, p)
  <1>0. Core(u, ch) /\ State(u)
    BY DEF InvOf, Core
  <1>1. CASE D = {}
    BY <1>1 DEF Request
  <1>. SUFFICES ASSUME D # {} PROVE InvOf(w, ch)
    BY <1>1
  <1>2. u.cur = "SyncBlocks" /\ Loading(u, ch)
    BY DEF InvOf, Clean
  <1>3. /\ Needed(u) \subseteq DOMAIN u.headers /\ Needed(u) \subseteq Numbers
        /\ WellFormed(Bodies({u.headers[n] : n \in Needed(u)}))
    BY <1>0, NeededIs DEF Core
  <1>4. CASE Needed(u) # {}
    <2>. DEFINE r == Bodies({u.headers[n] : n \in Needed(u)})
    <2>1. w = [u EXCEPT !.dlB = @ \cup Needed(u), !.bp[p] = Needed(u), !.ids = WithIds(u), !.req[p] = r]
      BY <1>4 DEF Request, Needed, WithIds
    <2>. HIDE DEF w, r
    <2>2. /\ State(w) /\ w.cur = u.cur /\ w.ready = u.ready /\ w.unknown = u.unknown
          /\ w.dlH = u.dlH /\ w.startN = u.startN /\ w.startH = u.startH
          /\ w.impN = u.impN /\ w.irr = u.irr /\ w.expH = u.expH
      BY <2>1, <1>0 DEF State, Names
    <2>3. /\ w.headers = u.headers /\ w.bodies = u.bodies /\ w.cut = u.cut /\ w.mixed = u.mixed
          /\ w.ids = WithIds(u) /\ w.dlB = u.dlB \cup Needed(u) /\ w.req = [u.req EXCEPT ![p] = r]
      BY <2>1, <1>0 DEF State, Names
    <2>4. IdsOK(WithIds(u)) /\ Listed(u.headers, WithIds(u), u.cut, u.startN)
      BY <1>0, <1>2, <1>3, WithIdsIs DEF Core, Loading
    <2>5. RequestsOK([u.req EXCEPT ![p] = r])
      <3>1. RequestsOK(u.req) /\ WellFormed(r)
        BY <1>0, <1>3 DEF Core, r
      <3>. QED
        BY <3>1, OneRequest
    <2>6. Core(w, ch)
      BY <1>0, <1>3, <2>2, <2>3, <2>4, <2>5 DEF Core
    <2>7. Loading(w, ch)
      BY <1>2, <2>2, <2>3, <2>4 DEF Loading
    <2>. QED
      BY <1>2, <2>2, <2>6, <2>7 DEF InvOf
  <1>5. CASE Needed(u) = {} /\ Missing(u) # {}
    <2>. DEFINE r == ByNumber(Min(Gap(u)), Cardinality(Gap(u)))
    <2>1. w = [u EXCEPT !.dlH = @ \cup Gap(u), !.hp[p] = Gap(u), !.req[p] = r]
      BY <1>5 DEF Request, Needed, Missing, Gap, Low
    <2>0. Gap(u) \subseteq Numbers /\ WellFormed(r)
      BY <1>0, <1>5, GapIs DEF Core
    <2>. HIDE DEF w, r
    <2>2. State(w) /\ Alike(u, w) /\ w.ready = u.ready /\ w.unknown = u.unknown
      BY <2>1, <1>0 DEF State, Names, Alike
    <2>3. w.dlH = u.dlH \cup Gap(u) /\ w.dlB = u.dlB /\ w.req = [u.req EXCEPT ![p] = r]
      BY <2>1, <1>0 DEF State, Names
    <2>4. RequestsOK([u.req EXCEPT ![p] = r])
      <3>1. RequestsOK(u.req)
        BY <1>0 DEF Core
      <3>. QED
        BY <2>0, <3>1, OneRequest
    <2>5. Core(w, ch)
      BY <1>0, <2>0, <2>2, <2>3, <2>4 DEF Core, Alike
    <2>6. Loading(w, ch) /\ w.cur = "SyncBlocks"
      BY <1>2, <2>2 DEF Loading, Alike
    <2>. QED
      BY <2>5, <2>6 DEF InvOf
  <1>6. CASE Needed(u) = {} /\ Missing(u) = {}
    <2>1. w = u
      BY <1>6 DEF Request, Needed, Missing, Low
    <2>. HIDE DEF w
    <2>. QED
      BY <2>1
  <1>. QED
    BY <1>4, <1>5, <1>6

\* syncHeadersAndBodies, and its repetition after a timeout.
LEMMA ContinueSyncIs ==
    ASSUME NEW u, NEW ch, InvOf(u, ch), u.cur # "FindingCommonBlock", NEW P, NEW w \in ContinueSync(u, P)
    PROVE  InvOf(w, ch)
  <1>0. Core(u, ch)
    BY DEF InvOf
  <1>1. CASE Cardinality(u.ready) > QueueGap
    <2>1. w = ToIdle(ResetTemp(u))
      BY <1>1 DEF ContinueSync
    <2>. DEFINE v == ResetTemp(u)
    <2>2. Core(v, ch) /\ Clean(v) /\ v.cur = u.cur /\ v.lock = u.lock
      BY <1>0, ResetTempIs
    <2>3. u.cur = "Idle" => ~u.lock
      BY DEF InvOf
    <2>. HIDE DEF v
    <2>4. InvOf(ToIdle(v), ch)
      BY <2>2, <2>3, ToIdleIs
    <2>. QED
      BY <2>1, <2>4 DEF v
  <1>2. CASE w = u
    BY <1>2
  <1>3. ASSUME NEW p \in Candidates(u, P), w = Request(ClearMarks(u, p), p) PROVE InvOf(w, ch)
    <2>. DEFINE v == ClearMarks(u, p)
    <2>1. p \in Peers
      BY <1>3 DEF Candidates
    <2>2. InvOf(v, ch) /\ Alike(u, v)
      BY ClearMarksIs
    <2>3. v.cur # "FindingCommonBlock"
      BY <2>2 DEF Alike
    <2>. HIDE DEF v
    <2>4. InvOf(Request(v, p), ch)
      BY <2>1, <2>2, <2>3, RequestIs
    <2>. QED
      BY <1>3, <2>4 DEF v
  <1>. QED
    BY <1>1, <1>2, <1>3 DEF ContinueSync

\* The number that is asked for next lies below the headers.
LEMMA NextTryIs ==
    ASSUME NEW u, HeadersOK(u.headers), u.startN \in 0..MaxNumber
    PROVE  /\ NextTry(u) \in 0..MaxNumber /\ NextTry(u) <= u.startN
           /\ \A m \in DOMAIN u.headers : m > NextTry(u)
  <1>1. CASE DOMAIN u.headers = {}
    <2>1. u.startN <= u.startN
      BY NumberRange, SMTT(60)
    <2>. QED
      BY <1>1, <2>1 DEF NextTry
  <1>2. CASE DOMAIN u.headers # {}
    <2>1. First(u.headers) \in Numbers /\ \A m \in DOMAIN u.headers : First(u.headers) <= m /\ m \in Numbers
      BY <1>2, FirstIs DEF HeadersOK
    <2>2. First(u.headers) - 1 \in Int /\ u.startN \in Int
      BY <2>1, NumberRange, SMTT(60) DEF Numbers
    <2>3. NextTry(u) = IF u.startN <= First(u.headers) - 1 THEN u.startN ELSE First(u.headers) - 1
      BY <1>2, <2>2, OfTwo DEF NextTry
    <2>. QED
      BY <2>1, <2>3, NumberRange, SMTT(60) DEF Numbers
  <1>. QED
    BY <1>1, <1>2

\* continueFindingCommonBlock, and its repetition.
LEMMA ContinueFindingIs ==
    ASSUME NEW u, NEW ch, InvOf(u, ch), NEW P, NEW w \in ContinueFinding(u, P)
    PROVE  InvOf(w, ch)
  <1>. DEFINE what == IF u.expH # None THEN ByHash(u.expH) ELSE ByNumber(NextTry(u), 1)
  <1>1. WellFormed(what)
    <2>1. HeadersOK(u.headers) /\ u.startN \in 0..MaxNumber /\ u.expH \in Blocks \cup {None}
      BY DEF InvOf, Core
    <2>2. NextTry(u) \in 0..MaxNumber /\ 1 \in Numbers
      BY <2>1, NextTryIs, NumberRange
    <2>. QED
      BY <2>1, <2>2, WellFormedIs
  <1>2. ASSUME NEW p \in Candidates(u, P), w = [ClearMarks(u, p) EXCEPT !.req[p] = what]
        PROVE  InvOf(w, ch)
    <2>. DEFINE v == ClearMarks(u, p)
    <2>1. p \in Peers
      BY <1>2 DEF Candidates
    <2>2. InvOf(v, ch)
      BY ClearMarksIs
    <2>. HIDE DEF v, what
    <2>3. InvOf([v EXCEPT !.req[p] = what], ch)
      BY <1>1, <2>1, <2>2, AskIs
    <2>. QED
      BY <1>2, <2>3 DEF v
  <1>3. w = u \/ \E p \in Candidates(u, P) : w = [ClearMarks(u, p) EXCEPT !.req[p] = what]
    BY DEF ContinueFinding
  <1>. HIDE DEF what
  <1>. QED
    BY <1>2, <1>3

-----------------------------------------------------------------------------
(* A header joins those that are there.                                    *)

\* The header, its body if that is empty, and its id otherwise.
LEMMA PutHeader ==
    ASSUME NEW h, HeadersOK(h), NEW b \in Blocks, b # 0, Number[b] \notin DOMAIN h,
           NEW bd, NEW cut, BodiesOK(h, bd, cut), NEW ids, IdsOK(ids)
    PROVE  LET n == Number[b] g == Put(h, Number[b], b) IN
           /\ HeadersOK(g)
           /\ b \in Empty => BodiesOK(g, Put(bd, n, b), cut)
           /\ b \notin Empty => BodiesOK(g, bd, cut) /\ IdsOK(Put(ids, b, n))
           /\ \A low : Listed(h, ids, cut, low) =>
                 Listed(g, ids, cut, low) /\ Listed(g, Put(ids, b, n), cut, low)
  <1>. DEFINE n == Number[b]
              g == Put(h, n, b)
  <1>0. /\ DOMAIN g = DOMAIN h \cup {n} /\ g[n] = b
        /\ \A m \in DOMAIN h : m # n => g[m] = h[m]
    BY DEF Put
  <1>1. n \in Numbers
    BY NumberRange
  <1>2. \A m \in DOMAIN h : g[m] = h[m]
    BY <1>0
  <1>3. HeadersOK(g)
    <2>. HIDE DEF g
    <2>. QED
      BY <1>0, <1>1, <1>2 DEF HeadersOK
  <1>4. n \notin DOMAIN bd
    BY DEF BodiesOK
  <1>5. ASSUME b \in Empty PROVE BodiesOK(g, Put(bd, n, b), cut)
    <2>. DEFINE e == Put(bd, n, b)
    <2>1. DOMAIN e = DOMAIN bd \cup {n} /\ e[n] = b /\ \A m \in DOMAIN bd : m # n => e[m] = bd[m]
      BY DEF Put
    <2>. HIDE DEF g, e
    <2>2. ASSUME NEW m \in DOMAIN e PROVE m \in DOMAIN g /\ (e[m] = g[m] \/ e[m] \in cut)
      BY <2>1, <1>0, <1>2, <1>4 DEF BodiesOK
    <2>3. ASSUME NEW m \in DOMAIN g, g[m] \in Empty PROVE m \in DOMAIN e
      BY <2>1, <2>3, <1>0, <1>2 DEF BodiesOK
    <2>4. BodiesOK(g, e, cut)
      BY <2>2, <2>3 DEF BodiesOK
    <2>. QED
      BY <2>4 DEF e
  <1>6. ASSUME b \notin Empty PROVE BodiesOK(g, bd, cut)
    <2>. HIDE DEF g
    <2>. QED
      BY <1>0, <1>2, <1>4, <1>6 DEF BodiesOK
  <1>7. DOMAIN Put(ids, b, n) = DOMAIN ids \cup {b} /\ Put(ids, b, n)[b] = n
        /\ \A c \in DOMAIN ids : c # b => Put(ids, b, n)[c] = ids[c]
    BY DEF Put
  <1>8. IdsOK(Put(ids, b, n))
    <2>. DEFINE e == Put(ids, b, n)
    <2>. HIDE DEF e
    <2>1. ASSUME NEW c \in DOMAIN e PROVE c \in Blocks /\ e[c] = Number[c]
      BY <1>7 DEF IdsOK, e
    <2>2. IdsOK(e)
      BY <2>1 DEF IdsOK
    <2>. QED
      BY <2>2 DEF e
  <1>9. ASSUME NEW low, Listed(h, ids, cut, low)
        PROVE  Listed(g, ids, cut, low) /\ Listed(g, Put(ids, b, n), cut, low)
    <2>. HIDE DEF g
    <2>. QED
      BY <1>0, <1>2, <1>7, <1>9 DEF Listed
  <1>. QED
    BY <1>3, <1>5, <1>6, <1>8, <1>9

\* A header that fits its neighbours leaves the headers linked.
LEMMA PutLinked ==
    ASSUME NEW h, HeadersOK(h), NEW b \in Blocks, b # 0, Linked(h),
           Number[b] - 1 \in DOMAIN h => h[Number[b] - 1] = Parent[b],
           Number[b] + 1 \in DOMAIN h => Parent[h[Number[b] + 1]] = b
    PROVE  Linked(Put(h, Number[b], b))
  <1>. DEFINE n == Number[b]
              g == Put(h, n, b)
  <1>0. /\ DOMAIN g = DOMAIN h \cup {n} /\ g[n] = b
        /\ \A m \in DOMAIN h : m # n => g[m] = h[m]
    BY DEF Put
  <1>1. n \in Numbers /\ DOMAIN h \subseteq Numbers
    BY NumberRange DEF HeadersOK
  <1>2. \A m \in Numbers : m - 1 # m /\ (m - 1 = n => m = n + 1)
    BY <1>1, NumberRange, SMTT(60) DEF Numbers
  <1>. HIDE DEF g
  <1>3. ASSUME NEW m \in DOMAIN g, m - 1 \in DOMAIN g PROVE g[m - 1] = Parent[g[m]]
    <2>1. CASE m = n
      <3>1. m - 1 # n /\ m - 1 \in DOMAIN h
        BY <2>1, <1>0, <1>1, <1>2, <1>3
      <3>. QED
        BY <2>1, <3>1, <1>0
    <2>2. CASE m # n /\ m - 1 = n
      <3>1. m \in DOMAIN h /\ m = n + 1 /\ g[m] = h[m]
        BY <2>2, <1>0, <1>1, <1>2, <1>3
      <3>. QED
        BY <2>2, <3>1, <1>0
    <2>3. CASE m # n /\ m - 1 # n
      <3>1. m \in DOMAIN h /\ m - 1 \in DOMAIN h
        BY <2>3, <1>0, <1>3
      <3>. QED
        BY <2>3, <3>1, <1>0 DEF Linked
    <2>. QED
      BY <2>1, <2>2, <2>3
  <1>. QED
    BY <1>3 DEF Linked, g

\* And attached.
LEMMA PutAttached ==
    ASSUME NEW h, NEW n, NEW b, NEW low, NEW start, Attached(h, low, start),
           n = low + 1 => start = Parent[b]
    PROVE  Attached(Put(h, n, b), low, start)
  <1>0. /\ DOMAIN Put(h, n, b) = DOMAIN h \cup {n} /\ Put(h, n, b)[n] = b
        /\ \A m \in DOMAIN h : m # n => Put(h, n, b)[m] = h[m]
    BY DEF Put
  <1>. QED
    BY <1>0 DEF Attached

\* And above.
LEMMA PutAbove ==
    ASSUME NEW h, NEW n, NEW b, NEW low, Above(h, low), n > low
    PROVE  Above(Put(h, n, b), low)
  BY DEF Above, Put

\* The fields that a new header changes.
Besides(u, w) ==
    /\ w.cur = u.cur /\ w.lock = u.lock /\ w.impN = u.impN /\ w.irr = u.irr
    /\ w.startN = u.startN /\ w.startH = u.startH /\ w.expN = u.expN /\ w.expH = u.expH
    /\ w.mixed = u.mixed /\ w.ready = u.ready /\ w.unknown = u.unknown /\ w.req = u.req

\* A header joins m_headers.
LEMMA AddHeaderIs ==
    ASSUME NEW u, NEW ch, Core(u, ch), NEW b \in Blocks, b # 0, Number[b] \notin DOMAIN u.headers
    PROVE  LET w == AddHeader(u, b) IN
           /\ Core(w, ch) /\ Besides(u, w) /\ w.cut = u.cut
           /\ w.headers = Put(u.headers, Number[b], b)
           /\ \A low : Listed(u.headers, u.ids, u.cut, low) => Listed(w.headers, w.ids, w.cut, low)
  <1>. DEFINE n == Number[b]
              g == Put(u.headers, n, b)
              v == [u EXCEPT !.headers = Put(@, n, b)]
              w == AddHeader(u, b)
  <1>0. State(u)
    BY DEF Core
  <1>1. /\ HeadersOK(g)
        /\ b \in Empty => BodiesOK(g, Put(u.bodies, n, b), u.cut)
        /\ b \notin Empty => BodiesOK(g, u.bodies, u.cut) /\ IdsOK(Put(u.ids, b, n))
        /\ \A low : Listed(u.headers, u.ids, u.cut, low) =>
              Listed(g, u.ids, u.cut, low) /\ Listed(g, Put(u.ids, b, n), u.cut, low)
    BY PutHeader DEF Core
  <1>2. w = IF b \in Empty THEN [v EXCEPT !.bodies = Put(@, n, b)] ELSE [v EXCEPT !.ids = Put(@, b, n)]
    BY DEF AddHeader
  <1>3. /\ State(v) /\ v.headers = g /\ v.bodies = u.bodies /\ v.ids = u.ids /\ Besides(u, v)
        /\ v.dlH = u.dlH /\ v.dlB = u.dlB /\ v.cut = u.cut
    BY <1>0 DEF State, Names, Besides
  <1>. HIDE DEF v, w, g
  <1>4. CASE b \in Empty
    <2>1. w = [v EXCEPT !.bodies = Put(@, n, b)]
      BY <1>2, <1>4
    <2>2. /\ State(w) /\ w.headers = g /\ w.bodies = Put(u.bodies, n, b) /\ w.ids = u.ids
          /\ w.dlH = u.dlH /\ w.dlB = u.dlB /\ w.cut = u.cut
      BY <1>3, <2>1 DEF State, Names
    <2>3. Besides(u, w)
      BY <1>3, <2>1 DEF State, Names, Besides
    <2>4. Core(w, ch)
      BY <1>1, <1>4, <2>2, <2>3 DEF Core, Besides
    <2>. QED
      BY <1>1, <2>2, <2>3, <2>4 DEF w, g
  <1>5. CASE b \notin Empty
    <2>1. w = [v EXCEPT !.ids = Put(@, b, n)]
      BY <1>2, <1>5
    <2>2. /\ State(w) /\ w.headers = g /\ w.bodies = u.bodies /\ w.ids = Put(u.ids, b, n)
          /\ w.dlH = u.dlH /\ w.dlB = u.dlB /\ w.cut = u.cut
      BY <1>3, <2>1 DEF State, Names
    <2>3. Besides(u, w)
      BY <1>3, <2>1 DEF State, Names, Besides
    <2>4. Core(w, ch)
      BY <1>1, <1>5, <2>2, <2>3 DEF Core, Besides
    <2>. QED
      BY <1>1, <2>2, <2>3, <2>4 DEF w, g
  <1>. QED
    BY <1>4, <1>5

\* The headers above n go, with their bodies.
LEMMA KeepToIs ==
    ASSUME NEW h, HeadersOK(h), NEW n \in Nat, NEW bd, NEW cut, BodiesOK(h, bd, cut), NEW ids, IdsOK(ids), NEW b
    PROVE  LET more == cut \cup {h[m] : m \in DOMAIN h \ 0..n} IN
           /\ HeadersOK(KeepTo(h, n)) /\ BodiesOK(KeepTo(h, n), KeepTo(bd, n), more)
           /\ IdsOK(Cut(ids, {b}))
           /\ \A low : Listed(h, ids, cut, low) => Listed(KeepTo(h, n), Cut(ids, {b}), more, low)
           /\ Linked(h) => Linked(KeepTo(h, n))
           /\ \A low : Above(h, low) => Above(KeepTo(h, n), low)
           /\ \A low, start : Attached(h, low, start) => Attached(KeepTo(h, n), low, start)
  <1>. DEFINE more == cut \cup {h[m] : m \in DOMAIN h \ 0..n}
              g == KeepTo(h, n)
              e == KeepTo(bd, n)
              i == Cut(ids, {b})
  <1>1. DOMAIN g = {m \in DOMAIN h : ~(m > n)} /\ \A m \in DOMAIN g : g[m] = h[m]
    BY DEF KeepTo, Cut
  <1>2. DOMAIN e = {m \in DOMAIN bd : ~(m > n)} /\ \A m \in DOMAIN e : e[m] = bd[m]
    BY DEF KeepTo, Cut
  <1>3. DOMAIN i \subseteq DOMAIN ids /\ \A c \in DOMAIN i : i[c] = ids[c]
    BY DEF Cut
  <1>4. \A m \in DOMAIN h : m > n => h[m] \in more
    <2>1. \A m \in 0..n : ~(m > n)
      BY SMTT(60)
    <2>. QED
      BY <2>1
  <1>5. cut \subseteq more
    OBVIOUS
  <1>. HIDE DEF more, g, e, i
  <1>6. HeadersOK(g)
    BY <1>1 DEF HeadersOK
  <1>7. BodiesOK(g, e, more)
    BY <1>1, <1>2, <1>5 DEF BodiesOK
  <1>8. IdsOK(i)
    BY <1>3 DEF IdsOK
  <1>9. ASSUME NEW low, Listed(h, ids, cut, low) PROVE Listed(g, i, more, low)
    BY <1>1, <1>3, <1>4, <1>5, <1>9 DEF Listed
  <1>10. Linked(h) => Linked(g)
    BY <1>1 DEF Linked
  <1>11. \A low : Above(h, low) => Above(g, low)
    BY <1>1 DEF Above
  <1>12. \A low, start : Attached(h, low, start) => Attached(g, low, start)
    BY <1>1 DEF Attached
  <1>. QED
    BY <1>6, <1>7, <1>8, <1>9, <1>10, <1>11, <1>12 DEF more, g, e, i

\* checkHeader cuts off what does not continue b, which afterwards fits above.
LEMMA CutAboveIs ==
    ASSUME NEW u, NEW ch, Core(u, ch), u.cur = "SyncBlocks", Loading(u, ch), NEW b \in Blocks,
           Number[b] \notin DOMAIN u.headers
    PROVE  LET w == CutAbove(u, b) IN
           /\ Core(w, ch) /\ w.cur = "SyncBlocks" /\ Loading(w, ch) /\ Besides(u, w)
           /\ \A m \in DOMAIN w.headers : m \in DOMAIN u.headers /\ w.headers[m] = u.headers[m]
           /\ Number[b] + 1 \in DOMAIN w.headers => Parent[w.headers[Number[b] + 1]] = b
  <1>. DEFINE n == Number[b]
              w == CutAbove(u, b)
              chunk == Chunk(u.headers, n + 1)
              more == u.cut \cup {u.headers[m] : m \in DOMAIN u.headers \ 0..n}
  <1>1. CASE ~(n + 1 \in DOMAIN u.headers /\ Parent[u.headers[n + 1]] # b)
    <2>1. w = u
      BY <1>1 DEF CutAbove
    <2>2. Besides(u, u)
      BY DEF Besides
    <2>. HIDE DEF w
    <2>. QED
      BY <1>1, <2>1, <2>2 DEF w
  <1>2. CASE n + 1 \in DOMAIN u.headers /\ Parent[u.headers[n + 1]] # b
    <2>0. n \in Nat /\ n + 1 > n /\ State(u)
      <3>1. n \in Nat
        BY NumberNat
      <3>2. n + 1 > n
        BY <3>1, SMTT(60)
      <3>. QED
        BY <3>1, <3>2 DEF Core
    <2>1. w = [u EXCEPT !.headers = KeepTo(@, n), !.bodies = KeepTo(@, n), !.ids = Cut(@, {b}),
                        !.dlH = @ \ chunk, !.dlB = @ \ chunk, !.cut = more]
      BY <1>2 DEF CutAbove
    <2>2. /\ HeadersOK(KeepTo(u.headers, n)) /\ BodiesOK(KeepTo(u.headers, n), KeepTo(u.bodies, n), more)
          /\ IdsOK(Cut(u.ids, {b}))
          /\ Listed(KeepTo(u.headers, n), Cut(u.ids, {b}), more, u.startN)
          /\ Linked(u.headers) => Linked(KeepTo(u.headers, n))
          /\ Above(KeepTo(u.headers, n), u.startN)
          /\ Attached(u.headers, u.startN, u.startH) => Attached(KeepTo(u.headers, n), u.startN, u.startH)
      <3>1. HeadersOK(u.headers) /\ BodiesOK(u.headers, u.bodies, u.cut) /\ IdsOK(u.ids)
        BY DEF Core
      <3>2. Listed(u.headers, u.ids, u.cut, u.startN) /\ Above(u.headers, u.startN)
        BY DEF Loading
      <3>. QED
        BY <2>0, <3>1, <3>2, KeepToIs
    <2>. HIDE DEF w, chunk, more
    <2>3. /\ State(w) /\ w.headers = KeepTo(u.headers, n) /\ w.bodies = KeepTo(u.bodies, n)
          /\ w.ids = Cut(u.ids, {b}) /\ w.dlH = u.dlH \ chunk /\ w.dlB = u.dlB \ chunk /\ w.cut = more
      BY <2>0, <2>1 DEF State, Names
    <2>4. Besides(u, w)
      BY <2>0, <2>1 DEF State, Names, Besides
    <2>5. Core(w, ch)
      BY <2>2, <2>3, <2>4 DEF Core, Besides
    <2>6. Loading(w, ch)
      BY <2>2, <2>3, <2>4 DEF Loading, Besides
    <2>7. /\ \A m \in DOMAIN w.headers : m \in DOMAIN u.headers /\ w.headers[m] = u.headers[m]
          /\ n + 1 \notin DOMAIN w.headers
      BY <2>0, <2>3 DEF KeepTo, Cut
    <2>. QED
      BY <2>4, <2>5, <2>6, <2>7 DEF w, Besides
  <1>. QED
    BY <1>1, <1>2

\* What the loop over the headers has at every turn.
Taken(r, ch) == Core(r.u, ch) /\ r.u.cur = "SyncBlocks" /\ (r.ok => Loading(r.u, ch))

\* It ends early or goes on.
LEMMA TakenEither ==
    ASSUME NEW w, NEW ch, Core(w, ch), w.cur = "SyncBlocks"
    PROVE  /\ Taken([u |-> w, ok |-> FALSE], ch)
           /\ Loading(w, ch) => Taken([u |-> w, ok |-> TRUE], ch)
  BY DEF Taken

\* One turn.
LEMMA TakeHeaderIs ==
    ASSUME NEW r, NEW ch, Taken(r, ch), NEW b \in Blocks
    PROVE  Taken(TakeHeader(r, b), ch)
  <1>. DEFINE n == Number[b]
              u == r.u
              skip == n <= u.startN \/ n < u.startIrr \/ n \in DOMAIN u.headers
              v == CutAbove(u, b)
              w == AddHeader(v, b)
  <1>1. CASE ~r.ok \/ skip
    BY <1>1 DEF TakeHeader
  <1>2. CASE r.ok /\ ~skip /\ Mismatch(u, b)
    <2>1. TakeHeader(r, b) = [u |-> ResetAll(u), ok |-> FALSE]
      BY <1>2 DEF TakeHeader
    <2>2. Core(ResetAll(u), ch) /\ ResetAll(u).cur = "SyncBlocks"
      BY ResetAllIs DEF Taken
    <2>3. Taken([u |-> ResetAll(u), ok |-> FALSE], ch)
      BY <2>2, TakenEither
    <2>. QED
      BY <2>1, <2>3
  <1>3. CASE r.ok /\ ~skip /\ ~Mismatch(u, b)
    <2>1. TakeHeader(r, b) = [u |-> w, ok |-> TRUE]
      BY <1>3 DEF TakeHeader
    <2>2. Core(u, ch) /\ u.cur = "SyncBlocks" /\ Loading(u, ch) /\ n \notin DOMAIN u.headers
      BY <1>3 DEF Taken
    <2>3. n > u.startN /\ b # 0
      <3>1. u.startN \in 0..MaxNumber /\ n \in Nat /\ ~(n <= u.startN)
        BY <1>3, <2>2, NumberNat DEF Core
      <3>2. n > u.startN /\ n # 0
        BY <3>1, NumberRange, SMTT(60)
      <3>. QED
        BY <3>2, NumberIs
    <2>4. /\ n - 1 \in DOMAIN u.headers => u.headers[n - 1] = Parent[b]
          /\ n = u.startN + 1 => u.startH = Parent[b]
      BY <1>3 DEF Mismatch
    <2>. HIDE DEF u
    <2>5. /\ Core(v, ch) /\ v.cur = "SyncBlocks" /\ Loading(v, ch) /\ Besides(u, v)
          /\ \A m \in DOMAIN v.headers : m \in DOMAIN u.headers /\ v.headers[m] = u.headers[m]
          /\ n + 1 \in DOMAIN v.headers => Parent[v.headers[n + 1]] = b
      BY <2>2, CutAboveIs
    <2>. HIDE DEF v
    <2>6. n \notin DOMAIN v.headers /\ v.startN = u.startN /\ v.startH = u.startH
      BY <2>2, <2>5 DEF Besides
    <2>7. n - 1 \in DOMAIN v.headers => v.headers[n - 1] = Parent[b]
      BY <2>4, <2>5
    <2>8. /\ Core(w, ch) /\ Besides(v, w) /\ w.cut = v.cut /\ w.headers = Put(v.headers, n, b)
          /\ \A low : Listed(v.headers, v.ids, v.cut, low) => Listed(w.headers, w.ids, w.cut, low)
      BY <2>3, <2>5, <2>6, AddHeaderIs
    <2>. HIDE DEF w
    <2>9. Above(Put(v.headers, n, b), v.startN)
      <3>1. Above(v.headers, v.startN) /\ n > v.startN
        BY <2>3, <2>5, <2>6 DEF Loading
      <3>. QED
        BY <3>1, PutAbove
    <2>10. Linked(v.headers) => Linked(Put(v.headers, n, b))
      <3>1. HeadersOK(v.headers)
        BY <2>5 DEF Core
      <3>. QED
        BY <2>3, <2>5, <2>7, <3>1, PutLinked
    <2>11. Attached(v.headers, v.startN, v.startH) => Attached(Put(v.headers, n, b), v.startN, v.startH)
      <3>1. n = v.startN + 1 => v.startH = Parent[b]
        BY <2>4, <2>6
      <3>. QED
        BY <3>1, PutAttached
    <2>12. Loading(w, ch) /\ w.cur = "SyncBlocks"
      BY <2>5, <2>8, <2>9, <2>10, <2>11 DEF Loading, Besides
    <2>13. Taken([u |-> w, ok |-> TRUE], ch)
      BY <2>8, <2>12, TakenEither
    <2>. QED
      BY <2>1, <2>13
  <1>. QED
    BY <1>1, <1>2, <1>3

\* The turns of onPeerBlockHeaders over the first n headers.
HeadersLoop(f, u, reply, n) ==
    f = [i \in 0..n |-> IF i = 0 THEN [u |-> u, ok |-> TRUE] ELSE TakeHeader(f[i - 1], reply[i])]

\* They can be taken.
LEMMA HeadersLoopExists ==
    ASSUME NEW u, NEW reply, NEW n \in Nat
    PROVE  \E f : HeadersLoop(f, u, reply, n)
  <1>. DEFINE P == {m \in 0..n : \E f : HeadersLoop(f, u, reply, m)}
  <1>1. 0 \in P
    <2>1. PICK f : f = [i \in 0..0 |-> [u |-> u, ok |-> TRUE]]
      OBVIOUS
    <2>2. \A i \in 0..0 : i = 0
      BY SMTT(60)
    <2>3. HeadersLoop(f, u, reply, 0)
      BY <2>1, <2>2 DEF HeadersLoop
    <2>4. 0 \in 0..n
      BY SMTT(60)
    <2>. QED
      BY <2>3, <2>4
  <1>2. ASSUME NEW m \in 0..n, m + 1 \in 0..n, m \in P PROVE m + 1 \in P
    <2>1. PICK f : HeadersLoop(f, u, reply, m)
      BY <1>2
    <2>2. PICK h : h = [i \in 0..m + 1 |-> IF i = m + 1 THEN TakeHeader(f[m], reply[i]) ELSE f[i]]
      OBVIOUS
    <2>3. ASSUME NEW i \in 0..m + 1 PROVE h[i] = IF i = 0 THEN [u |-> u, ok |-> TRUE] ELSE TakeHeader(h[i - 1], reply[i])
      <3>1. CASE i = 0
        <4>1. i \in 0..m /\ i # m + 1
          BY <3>1, <1>2, SMTT(60)
        <4>. QED
          BY <4>1, <3>1, <2>1, <2>2 DEF HeadersLoop
      <3>2. CASE i # 0 /\ i # m + 1
        <4>1. i \in 0..m /\ i - 1 \in 0..m + 1 /\ i - 1 # m + 1
          BY <3>2, <1>2, SMTT(60)
        <4>2. h[i] = f[i] /\ h[i - 1] = f[i - 1]
          BY <4>1, <3>2, <2>2
        <4>3. f[i] = TakeHeader(f[i - 1], reply[i])
          BY <4>1, <3>2, <2>1 DEF HeadersLoop
        <4>. QED
          BY <4>2, <4>3, <3>2
      <3>3. CASE i = m + 1
        <4>1. i - 1 = m /\ m \in 0..m + 1 /\ m # m + 1 /\ i # 0
          BY <3>3, <1>2, SMTT(60)
        <4>2. h[m] = f[m] /\ h[i] = TakeHeader(f[m], reply[i])
          BY <4>1, <3>3, <2>2
        <4>. QED
          BY <4>1, <4>2
      <3>. QED
        BY <3>1, <3>2, <3>3
    <2>4. h = [i \in 0..m + 1 |-> h[i]]
      BY <2>2
    <2>5. HeadersLoop(h, u, reply, m + 1)
      BY <2>3, <2>4 DEF HeadersLoop
    <2>. QED
      BY <1>2, <2>5
  <1>. HIDE DEF P
  <1>3. n \in 0..n /\ \A m \in 0..n : m \in P
    <2>1. n \in 0..n
      BY SMTT(60)
    <2>. QED
      BY <2>1, <1>1, <1>2, UpTo
  <1>. QED
    BY <1>3 DEF P

\* The loop of onPeerBlockHeaders.
LEMMA TakeHeadersIs ==
    ASSUME NEW u, NEW ch, Core(u, ch), u.cur = "SyncBlocks", Loading(u, ch), NEW reply \in Seq(Blocks)
    PROVE  Taken(TakeHeaders(u, reply), ch)
  <1>. DEFINE n == Len(reply)
  <1>0. n \in Nat /\ \A i \in 1..n : reply[i] \in Blocks
    BY SMTT(60)
  <1>1. PICK taken : taken = CHOOSE f : HeadersLoop(f, u, reply, n)
    OBVIOUS
  <1>2. TakeHeaders(u, reply) = taken[n]
    BY <1>1 DEF TakeHeaders, HeadersLoop
  <1>. HIDE DEF n
  <1>3. HeadersLoop(taken, u, reply, n)
    BY <1>0, <1>1, HeadersLoopExists
  <1>. DEFINE P == {m \in 0..n : Taken(taken[m], ch)}
  <1>4. 0 \in P
    <2>1. 0 \in 0..n
      BY <1>0, SMTT(60)
    <2>2. taken[0] = [u |-> u, ok |-> TRUE]
      BY <1>3, <2>1 DEF HeadersLoop
    <2>3. Taken([u |-> u, ok |-> TRUE], ch)
      BY TakenEither
    <2>. QED
      BY <2>1, <2>2, <2>3
  <1>5. ASSUME NEW m \in 0..n, m + 1 \in 0..n, m \in P PROVE m + 1 \in P
    <2>1. m + 1 # 0 /\ (m + 1) - 1 = m /\ m + 1 \in 1..n
      BY <1>0, <1>5, SMTT(60)
    <2>2. taken[m + 1] = TakeHeader(taken[m], reply[m + 1])
      BY <1>3, <1>5, <2>1 DEF HeadersLoop
    <2>3. Taken(TakeHeader(taken[m], reply[m + 1]), ch)
      BY <1>0, <1>5, <2>1, TakeHeaderIs
    <2>. QED
      BY <1>5, <2>2, <2>3
  <1>. HIDE DEF P
  <1>6. \A m \in 0..n : m \in P
    BY <1>0, <1>4, <1>5, UpTo
  <1>7. n \in 0..n
    BY <1>0, SMTT(60)
  <1>. QED
    BY <1>2, <1>6, <1>7 DEF P

\* The loop of onPeerBlockBodies.
LEMMA TakeBodiesIs ==
    ASSUME NEW u, NEW ch, Core(u, ch), u.cur = "SyncBlocks", Loading(u, ch), NEW reply
    PROVE  LET w == TakeBodies(u, reply) IN
           Core(w, ch) /\ w.cur = "SyncBlocks" /\ Loading(w, ch)
  <1>. DEFINE taken == {b \in reply \cap DOMAIN u.ids : u.ids[b] \in DOMAIN u.headers \ DOMAIN u.bodies}
              numbers == {u.ids[b] : b \in taken}
              i == Cut(u.ids, taken)
              e == [n \in DOMAIN u.bodies \cup numbers |->
                      IF n \in DOMAIN u.bodies THEN u.bodies[n] ELSE CHOOSE b \in taken : u.ids[b] = n]
              w == TakeBodies(u, reply)
  <1>0. State(u)
    BY DEF Core
  <1>1. w = [u EXCEPT !.ids = i, !.bodies = e]
    BY DEF TakeBodies
  <1>2. DOMAIN i \subseteq DOMAIN u.ids /\ \A b \in DOMAIN i : i[b] = u.ids[b]
    BY DEF Cut
  <1>3. ASSUME NEW b \in taken PROVE b \in u.cut \/ u.headers[u.ids[b]] = b
    <2>1. b \in DOMAIN u.ids /\ u.ids[b] = Number[b] /\ Number[b] \in DOMAIN u.headers
      BY <1>3 DEF Core, IdsOK
    <2>2. Number[b] \in Numbers /\ u.startN \in 0..MaxNumber /\ Number[b] > u.startN
      BY <2>1 DEF Core, HeadersOK, Loading, Above
    <2>3. ~(Number[b] <= u.startN)
      BY <2>2, NumberRange, SMTT(60) DEF Numbers
    <2>. QED
      BY <2>1, <2>3 DEF Loading, Listed
  <1>4. ASSUME NEW n \in DOMAIN e PROVE n \in DOMAIN u.headers /\ (e[n] = u.headers[n] \/ e[n] \in u.cut)
    <2>1. CASE n \in DOMAIN u.bodies
      BY <2>1 DEF Core, BodiesOK
    <2>2. CASE n \notin DOMAIN u.bodies
      <3>1. \E b \in taken : u.ids[b] = n
        BY <2>2, <1>4
      <3>2. PICK b : b = CHOOSE c \in taken : u.ids[c] = n
        OBVIOUS
      <3>3. b \in taken /\ u.ids[b] = n
        BY <3>1, <3>2
      <3>4. e[n] = b
        BY <2>2, <1>4, <3>2
      <3>5. n \in DOMAIN u.headers
        BY <3>3
      <3>. HIDE DEF e, taken
      <3>. QED
        BY <1>3, <3>3, <3>4, <3>5
    <2>. QED
      BY <2>1, <2>2
  <1>5. DOMAIN u.bodies \subseteq DOMAIN e
    OBVIOUS
  <1>. HIDE DEF taken, numbers, e, i, w
  <1>6. BodiesOK(u.headers, e, u.cut)
    BY <1>4, <1>5 DEF Core, BodiesOK
  <1>7. IdsOK(i) /\ Listed(u.headers, i, u.cut, u.startN)
    BY <1>2 DEF Core, IdsOK, Loading, Listed
  <1>8. State(w) /\ w.ids = i /\ w.bodies = e /\ Besides(u, w)
    BY <1>0, <1>1 DEF State, Names, Besides
  <1>9. w.headers = u.headers /\ w.cut = u.cut /\ w.dlH = u.dlH /\ w.dlB = u.dlB
    BY <1>0, <1>1 DEF State, Names
  <1>10. Core(w, ch)
    BY <1>6, <1>7, <1>8, <1>9 DEF Core, Besides
  <1>11. Loading(w, ch)
    BY <1>7, <1>8, <1>9 DEF Loading, Besides
  <1>. QED
    BY <1>8, <1>10, <1>11 DEF w, Besides

-----------------------------------------------------------------------------
(* Blocks that are complete go to the queue.                               *)

\* What the loop of collectBlocks has after i turns that began with u.
Collecting(r, u, i, ch) ==
    /\ Core(r.u, ch) /\ r.u.cur = "SyncBlocks"
    /\ r.ok =>
          /\ r.u.headers = u.headers /\ r.u.bodies = u.bodies /\ r.u.ids = u.ids
          /\ r.u.cut = u.cut /\ r.u.mixed = u.mixed /\ r.u.startN = u.startN + i
          /\ r.u.startH \in Blocks /\ Number[r.u.startH] = r.u.startN
          /\ r.u.startH \in r.u.ready \cup ch \cup r.u.unknown
          /\ \/ r.u.mixed
             \/ r.u.startH \in r.u.ready \cup ch /\ Linked(r.u.headers)
                /\ Attached(r.u.headers, r.u.startN, r.u.startH)

\* It ends early.
LEMMA CollectingFails ==
    ASSUME NEW w, NEW u, NEW i, NEW ch, Core(w, ch), w.cur = "SyncBlocks"
    PROVE  Collecting([u |-> w, ok |-> FALSE], u, i, ch)
  BY DEF Collecting

\* What the queue may answer.
LEMMA QueueResults ==
    ASSUME NEW u, NEW b
    PROVE  QueueResult(u, b) \in {"AlreadyKnown", "AlreadyInChain", "Irreversible", "UnknownParent", "Success"}
  BY DEF QueueResult

\* One turn: the block follows the one before, which the node has.
LEMMA CollectedIs ==
    ASSUME NEW r, NEW u, NEW i \in Nat, Core(u, chain), Collecting(r, u, i, chain),
           u.startN + i + 1 \in DOMAIN u.headers
    PROVE  Collecting(Collected(r, u.startN + i + 1), u, i + 1, chain)
  <1>. DEFINE n == u.startN + i + 1
              x == r.u
              b == x.headers[n]
              v == QueueImport(x, b)
              bad == \/ x.bodies[n] # b /\ ~Queued(x, b)
                     \/ QueueResult(x, b) \in {"UnknownParent", "Irreversible"}
  <1>1. CASE ~r.ok
    <2>1. Collected(r, n) = r
      BY <1>1 DEF Collected
    <2>. QED
      BY <1>1, <2>1 DEF Collecting
  <1>. SUFFICES ASSUME r.ok PROVE Collecting(Collected(r, n), u, i + 1, chain)
    BY <1>1
  <1>2. /\ Core(x, chain) /\ x.cur = "SyncBlocks" /\ x.headers = u.headers /\ x.bodies = u.bodies
        /\ x.ids = u.ids /\ x.cut = u.cut /\ x.mixed = u.mixed /\ x.startN = u.startN + i
        /\ \/ x.mixed
           \/ x.startH \in x.ready \cup chain /\ Linked(x.headers)
              /\ Attached(x.headers, x.startN, x.startH)
    BY DEF Collecting
  <1>3. b \in Blocks /\ Number[b] = n /\ n \in Numbers /\ b = u.headers[n]
    BY <1>2 DEF Core, HeadersOK
  <1>4. /\ State(v) /\ Alike(x, v) /\ v.dlH = x.dlH /\ v.dlB = x.dlB /\ v.req = x.req
        /\ QueueOK(v.ready, v.unknown, chain)
        /\ x.ready \subseteq v.ready
        /\ QueueResult(x, b) \in {"AlreadyKnown", "AlreadyInChain", "Success"} =>
              /\ b \in v.ready \cup chain \cup v.unknown
              /\ Parent[b] \in x.ready \cup chain => b \in v.ready \cup chain
    <2>1. State(x) /\ QueueOK(x.ready, x.unknown, chain)
      BY <1>2 DEF Core
    <2>. HIDE DEF x, b
    <2>. QED
      BY <1>3, <2>1, QueueImportIs
  <1>5. Core(v, chain) /\ v.cur = "SyncBlocks"
    <2>. HIDE DEF v, x
    <2>. QED
      BY <1>2, <1>4 DEF Core, Alike
  <1>6. CASE bad
    <2>1. Collected(r, n) = [u |-> ResetAll(v), ok |-> FALSE]
      BY <1>6 DEF Collected
    <2>. HIDE DEF v
    <2>2. Core(ResetAll(v), chain) /\ ResetAll(v).cur = "SyncBlocks"
      BY <1>5, ResetAllIs
    <2>3. Collecting([u |-> ResetAll(v), ok |-> FALSE], u, i + 1, chain)
      BY <2>2, CollectingFails
    <2>. QED
      BY <2>1, <2>3
  <1>7. CASE ~bad
    <2>. DEFINE w == [v EXCEPT !.startN = n, !.startH = b]
    <2>1. Collected(r, n) = [u |-> w, ok |-> TRUE]
      BY <1>7 DEF Collected
    <2>2. QueueResult(x, b) \in {"AlreadyKnown", "AlreadyInChain", "Success"}
      BY <1>7, QueueResults
    <2>. HIDE DEF v, x, b, n
    <2>3. State(w) /\ w.startN = n /\ w.startH = b /\ Beside(v, w)
      BY <1>4 DEF State, Names, Beside
    <2>4. /\ w.cur = v.cur /\ w.headers = v.headers /\ w.bodies = v.bodies /\ w.ids = v.ids
          /\ w.cut = v.cut /\ w.mixed = v.mixed
          /\ w.impN = v.impN /\ w.irr = v.irr /\ w.expH = v.expH
      BY <1>4 DEF State, Names
    <2>. HIDE DEF w
    <2>5. n \in 0..MaxNumber
      BY <1>3, NumberRange, SMTT(60) DEF Numbers
    <2>6. Core(w, chain)
      BY <1>5, <2>3, <2>4, <2>5 DEF Core, Beside
    <2>7. w.startN = u.startN + (i + 1) /\ n = x.startN + 1
      <3>1. u.startN \in Nat /\ x.startN = u.startN + i
        BY <1>2, NumberRange, SMTT(60) DEF Core
      <3>. QED
        BY <2>3, <3>1, SMTT(60) DEF n
    <2>8. b \in w.ready \cup chain \cup w.unknown
      BY <1>4, <2>2, <2>3 DEF Beside
    <2>9. w.mixed \/ (b \in w.ready \cup chain /\ Linked(w.headers) /\ Attached(w.headers, n, b))
      <3>. SUFFICES ASSUME ~w.mixed
                    PROVE  b \in w.ready \cup chain /\ Linked(w.headers) /\ Attached(w.headers, n, b)
        OBVIOUS
      <3>1. /\ x.startH \in x.ready \cup chain /\ Linked(x.headers)
            /\ Attached(x.headers, x.startN, x.startH) /\ w.headers = x.headers
        BY <1>2, <1>4, <2>4 DEF Alike
      <3>2. Parent[b] = x.startH
        <4>1. n \in DOMAIN x.headers /\ x.headers[n] = b
          BY <1>2 DEF n, b
        <4>. QED
          BY <2>7, <3>1, <4>1 DEF Attached
      <3>3. b \in w.ready \cup chain
        BY <1>4, <2>2, <2>3, <3>1, <3>2 DEF Beside
      <3>4. (n + 1) - 1 = n
        BY <2>5, NumberRange, SMTT(60)
      <3>5. Attached(x.headers, n, b)
        BY <3>1, <3>4, <1>2 DEF Attached, Linked, b, n
      <3>. QED
        BY <3>1, <3>3, <3>5
    <2>10. ASSUME NEW y, y = [u |-> w, ok |-> TRUE] PROVE Collecting(y, u, i + 1, chain)
      <3>1. y.u = w
        BY <2>10
      <3>2. /\ w.headers = u.headers /\ w.bodies = u.bodies /\ w.ids = u.ids
            /\ w.cut = u.cut /\ w.mixed = u.mixed /\ w.cur = "SyncBlocks"
        BY <1>2, <1>4, <2>4 DEF Alike
      <3>. QED
        BY <3>1, <3>2, <2>3, <2>6, <2>7, <2>8, <2>9, <1>3 DEF Collecting
    <2>. QED
      BY <2>1, <2>10
  <1>. QED
    BY <1>6, <1>7

\* The turns of collectBlocks over the first n blocks.
CollectLoop(f, u, n) ==
    f = [i \in 0..n |-> IF i = 0 THEN [u |-> u, ok |-> TRUE] ELSE Collected(f[i - 1], u.startN + i)]

\* They can be taken.
LEMMA CollectLoopExists ==
    ASSUME NEW u, NEW n \in Nat
    PROVE  \E f : CollectLoop(f, u, n)
  <1>. DEFINE P == {m \in 0..n : \E f : CollectLoop(f, u, m)}
  <1>1. 0 \in P
    <2>1. PICK f : f = [i \in 0..0 |-> [u |-> u, ok |-> TRUE]]
      OBVIOUS
    <2>2. \A i \in 0..0 : i = 0
      BY SMTT(60)
    <2>3. CollectLoop(f, u, 0)
      BY <2>1, <2>2 DEF CollectLoop
    <2>4. 0 \in 0..n
      BY SMTT(60)
    <2>. QED
      BY <2>3, <2>4
  <1>2. ASSUME NEW m \in 0..n, m + 1 \in 0..n, m \in P PROVE m + 1 \in P
    <2>1. PICK f : CollectLoop(f, u, m)
      BY <1>2
    <2>2. PICK h : h = [i \in 0..m + 1 |-> IF i = m + 1 THEN Collected(f[m], u.startN + i) ELSE f[i]]
      OBVIOUS
    <2>3. ASSUME NEW i \in 0..m + 1 PROVE h[i] = IF i = 0 THEN [u |-> u, ok |-> TRUE] ELSE Collected(h[i - 1], u.startN + i)
      <3>1. CASE i = 0
        <4>1. i \in 0..m /\ i # m + 1
          BY <3>1, <1>2, SMTT(60)
        <4>. QED
          BY <4>1, <3>1, <2>1, <2>2 DEF CollectLoop
      <3>2. CASE i # 0 /\ i # m + 1
        <4>1. i \in 0..m /\ i - 1 \in 0..m + 1 /\ i - 1 # m + 1
          BY <3>2, <1>2, SMTT(60)
        <4>2. h[i] = f[i] /\ h[i - 1] = f[i - 1]
          BY <4>1, <3>2, <2>2
        <4>3. f[i] = Collected(f[i - 1], u.startN + i)
          BY <4>1, <3>2, <2>1 DEF CollectLoop
        <4>. QED
          BY <4>2, <4>3, <3>2
      <3>3. CASE i = m + 1
        <4>1. i - 1 = m /\ m \in 0..m + 1 /\ m # m + 1 /\ i # 0
          BY <3>3, <1>2, SMTT(60)
        <4>2. h[m] = f[m] /\ h[i] = Collected(f[m], u.startN + i)
          BY <4>1, <3>3, <2>2
        <4>. QED
          BY <4>1, <4>2
      <3>. QED
        BY <3>1, <3>2, <3>3
    <2>4. h = [i \in 0..m + 1 |-> h[i]]
      BY <2>2
    <2>5. CollectLoop(h, u, m + 1)
      BY <2>3, <2>4 DEF CollectLoop
    <2>. QED
      BY <1>2, <2>5
  <1>. HIDE DEF P
  <1>3. n \in 0..n /\ \A m \in 0..n : m \in P
    <2>1. n \in 0..n
      BY SMTT(60)
    <2>. QED
      BY <2>1, <1>1, <1>2, UpTo
  <1>. QED
    BY <1>3 DEF P

\* The blocks that are complete, counted from the first header.
Both(u) == Chunk(u.headers, First(u.headers)) \cap Chunk(u.bodies, First(u.headers))

\* They follow each other.
LEMMA BothIs ==
    ASSUME NEW u, HeadersOK(u.headers), DOMAIN u.headers # {}
    PROVE  LET first == First(u.headers) k == Cardinality(Both(u)) IN
           /\ Both(u) \subseteq DOMAIN u.headers /\ k \in Nat
           /\ \A m \in Both(u) : m < first + k
           /\ \A m \in Int : first <= m /\ m < first + k => m \in Both(u)
  <1>. DEFINE first == First(u.headers)
              S == Both(u)
              k == Cardinality(S)
  <1>1. first \in Numbers /\ DOMAIN u.headers \subseteq Numbers
    BY FirstIs DEF HeadersOK
  <1>2. Numbers \subseteq Int /\ MaxNumber \in Nat
    BY NumberRange, SMTT(60) DEF Numbers
  <1>3. S \subseteq DOMAIN u.headers /\ \A m \in S : first <= m
    BY DEF Both, Chunk
  <1>4. ASSUME NEW m \in S, NEW j \in first..m PROVE j \in S
    <2>1. first..m \subseteq DOMAIN u.headers /\ first..m \subseteq DOMAIN u.bodies
      BY DEF Both, Chunk
    <2>2. m \in Int /\ first \in Int
      BY <1>1, <1>2, <1>3
    <2>. HIDE DEF first, S
    <2>3. first <= j /\ first..j \subseteq first..m
      BY <2>2, SMTT(60)
    <2>4. first..j \subseteq DOMAIN u.headers /\ first..j \subseteq DOMAIN u.bodies
      BY <2>1, <2>3
    <2>5. j \in DOMAIN u.headers /\ j \in DOMAIN u.bodies
      BY <2>1
    <2>. QED
      BY <2>3, <2>4, <2>5 DEF Both, Chunk, first, S
  <1>. HIDE DEF S, first
  <1>5. CASE S = {}
    <2>1. k = 0
      BY <1>5, FS_EmptySet
    <2>2. 0 \in Nat /\ \A m \in Int : ~(first <= m /\ m < first + 0)
      BY <1>1, <1>2, SMTT(60)
    <2>. QED
      BY <2>1, <2>2, <1>5 DEF first, S
  <1>6. CASE S # {}
    <2>1. S \subseteq 0..MaxNumber
      BY <1>1, <1>3, NumberRange, SMTT(60) DEF Numbers
    <2>2. PICK M \in S : \A y \in S : y <= M
      <3>1. Max(S) \in S /\ \A y \in S : y <= Max(S)
        BY <1>2, <1>6, <2>1, MaxIs
      <3>. QED
        BY <3>1
    <2>3. M \in Numbers /\ M \in Int /\ first \in Int /\ first <= M
      BY <1>1, <1>2, <1>3
    <2>4. S = first..M
      <3>1. ASSUME NEW y \in S PROVE y \in first..M
        <4>1. y \in Int /\ first <= y /\ y <= M
          BY <1>1, <1>2, <1>3, <2>2
        <4>. QED
          BY <4>1, <2>3, SMTT(60)
      <3>. QED
        BY <3>1, <1>4
    <2>5. Cardinality(first..M) = IF first > M THEN 0 ELSE (M - first) + 1
      BY <2>3, FS_Interval, SMTT(60)
    <2>6. k = (M - first) + 1
      BY <2>3, <2>4, <2>5, SMTT(60)
    <2>. HIDE DEF k
    <2>7. k \in Nat /\ first + k = M + 1
      BY <2>3, <2>6, SMTT(60)
    <2>8. ASSUME NEW m \in S PROVE m < first + k
      <3>1. m \in Int /\ m <= M
        BY <1>1, <1>2, <1>3, <2>2
      <3>. QED
        BY <3>1, <2>3, <2>7, SMTT(60)
    <2>9. ASSUME NEW m \in Int, first <= m, m < first + k PROVE m \in S
      <3>1. m \in first..M
        BY <2>3, <2>7, <2>9, SMTT(60)
      <3>. QED
        BY <3>1, <2>4
    <2>. QED
      BY <1>3, <2>7, <2>8, <2>9 DEF first, S, k
  <1>. QED
    BY <1>5, <1>6

\* The headers and bodies of the blocks collected are erased.
LEMMA CutBoth ==
    ASSUME NEW h, HeadersOK(h), NEW bd, NEW cut, BodiesOK(h, bd, cut), NEW S
    PROVE  /\ HeadersOK(Cut(h, S)) /\ BodiesOK(Cut(h, S), Cut(bd, S), cut)
           /\ Linked(h) => Linked(Cut(h, S))
           /\ \A n, b : Attached(h, n, b) => Attached(Cut(h, S), n, b)
  <1>1. DOMAIN Cut(h, S) = DOMAIN h \ S /\ \A n \in DOMAIN Cut(h, S) : Cut(h, S)[n] = h[n]
    BY DEF Cut
  <1>2. DOMAIN Cut(bd, S) = DOMAIN bd \ S /\ \A n \in DOMAIN Cut(bd, S) : Cut(bd, S)[n] = bd[n]
    BY DEF Cut
  <1>. QED
    BY <1>1, <1>2 DEF HeadersOK, BodiesOK, Linked, Attached

\* What is left lies above the new start block.
LEMMA CutAboveStart ==
    ASSUME NEW u, Core(u, chain), Loading(u, chain), DOMAIN u.headers # {},
           First(u.headers) = u.startN + 1
    PROVE  LET k == Cardinality(Both(u)) h == Cut(u.headers, Both(u)) IN
           Above(h, u.startN + k) /\ Listed(h, u.ids, u.cut, u.startN + k)
  <1>. DEFINE S == Both(u)
              k == Cardinality(S)
              h == Cut(u.headers, S)
              first == First(u.headers)
  <1>1. /\ S \subseteq DOMAIN u.headers /\ k \in Nat /\ \A m \in S : m < first + k
        /\ \A m \in Int : first <= m /\ m < first + k => m \in S
    BY BothIs DEF Core
  <1>2. DOMAIN u.headers \subseteq Numbers /\ \A m \in DOMAIN u.headers : first <= m
    BY FirstIs DEF Core, HeadersOK
  <1>3. DOMAIN h = DOMAIN u.headers \ S /\ \A m \in DOMAIN h : h[m] = u.headers[m]
    BY DEF Cut
  <1>4. u.startN \in Nat /\ first = u.startN + 1 /\ Numbers \subseteq Int
    BY NumberRange, SMTT(60) DEF Core, Numbers
  <1>. HIDE DEF S, k, h, first
  <1>5. Above(h, u.startN + k)
    <2>. SUFFICES ASSUME NEW m \in DOMAIN h PROVE m > u.startN + k
      BY DEF Above
    <2>1. m \in Int /\ ~(m < first + k)
      BY <1>1, <1>2, <1>3, <1>4
    <2>. QED
      BY <2>1, <1>1, <1>4, SMTT(60)
  <1>6. Listed(h, u.ids, u.cut, u.startN + k)
    <2>. SUFFICES ASSUME NEW b \in DOMAIN u.ids
                  PROVE  b \in u.cut \/ (Number[b] \in DOMAIN h /\ h[Number[b]] = b) \/ Number[b] <= u.startN + k
      BY DEF Listed
    <2>1. b \in Blocks /\ Number[b] \in Nat
      BY NumberNat DEF Core, IdsOK
    <2>2. b \in u.cut \/ (Number[b] \in DOMAIN u.headers /\ u.headers[Number[b]] = b) \/ Number[b] <= u.startN
      BY DEF Loading, Listed
    <2>3. CASE Number[b] <= u.startN \/ Number[b] \in S
      <3>1. Number[b] <= u.startN \/ Number[b] < first + k
        BY <2>3, <1>1
      <3>. QED
        BY <3>1, <2>1, <1>1, <1>4, SMTT(60)
    <2>. QED
      BY <2>2, <2>3, <1>3
  <1>. QED
    BY <1>5, <1>6 DEF S, k, h

\* collectBlocks.
LEMMA CollectBlocksIs ==
    ASSUME NEW u, Core(u, chain), u.cur = "SyncBlocks", Loading(u, chain), DOMAIN u.headers # {}
    PROVE  Taken(CollectBlocks(u), chain)
  <1>. DEFINE first == First(u.headers)
              both == Both(u)
              k == Cardinality(both)
              complete == DOMAIN u.bodies # {} /\ First(u.bodies) = first /\ first = u.startN + 1
  <1>1. CASE ~complete
    <2>1. CollectBlocks(u) = [u |-> u, ok |-> TRUE]
      BY <1>1 DEF CollectBlocks
    <2>. QED
      BY <2>1, TakenEither
  <1>. SUFFICES ASSUME complete PROVE Taken(CollectBlocks(u), chain)
    BY <1>1
  <1>2. PICK run : run = CHOOSE f : CollectLoop(f, u, k)
    OBVIOUS
  <1>0. CollectFirst(u, k) = run[k]
    <2>. HIDE DEF k
    <2>. QED
      BY <1>2 DEF CollectFirst, CollectLoop
  <1>3. CollectBlocks(u) =
          IF ~CollectFirst(u, k).ok THEN CollectFirst(u, k)
          ELSE [u |-> [CollectFirst(u, k).u EXCEPT !.headers = Cut(@, both), !.bodies = Cut(@, both)], ok |-> TRUE]
    BY DEF CollectBlocks, Both
  <1>4. /\ both \subseteq DOMAIN u.headers /\ k \in Nat /\ first \in Numbers
        /\ \A m \in Int : first <= m /\ m < first + k => m \in both
        /\ first = u.startN + 1 /\ u.startN \in Nat
    <2>1. HeadersOK(u.headers) /\ u.startN \in Nat
      BY NumberRange, SMTT(60) DEF Core
    <2>. QED
      BY <2>1, BothIs, FirstIs
  <1>5. Above(Cut(u.headers, both), u.startN + k) /\ Listed(Cut(u.headers, both), u.ids, u.cut, u.startN + k)
    BY CutAboveStart
  <1>. HIDE DEF first, both, k, complete
  <1>6. CollectLoop(run, u, k)
    BY <1>2, <1>4, CollectLoopExists
  <1>. DEFINE P == {m \in 0..k : Collecting(run[m], u, m, chain)}
  <1>7. 0 \in P
    <2>1. 0 \in 0..k /\ u.startN + 0 = u.startN
      BY <1>4, SMTT(60)
    <2>2. run[0] = [u |-> u, ok |-> TRUE]
      BY <1>6, <2>1 DEF CollectLoop
    <2>3. ASSUME NEW y, y = [u |-> u, ok |-> TRUE] PROVE Collecting(y, u, 0, chain)
      <3>1. y.u = u
        BY <2>3
      <3>. QED
        BY <3>1, <2>1 DEF Collecting, Loading
    <2>. QED
      BY <2>1, <2>2, <2>3
  <1>8. ASSUME NEW m \in 0..k, m + 1 \in 0..k, m \in P PROVE m + 1 \in P
    <2>1. /\ m + 1 # 0 /\ (m + 1) - 1 = m /\ m \in Nat
          /\ u.startN + (m + 1) = u.startN + m + 1
      BY <1>4, <1>8, SMTT(60)
    <2>2. run[m + 1] = Collected(run[m], u.startN + m + 1)
      BY <1>6, <1>8, <2>1 DEF CollectLoop
    <2>3. u.startN + m + 1 \in DOMAIN u.headers
      <3>1. first <= u.startN + m + 1 /\ u.startN + m + 1 < first + k /\ u.startN + m + 1 \in Int
        BY <1>4, <1>8, SMTT(60)
      <3>. QED
        BY <3>1, <1>4
    <2>4. Collecting(Collected(run[m], u.startN + m + 1), u, m + 1, chain)
      BY <1>8, <2>1, <2>3, CollectedIs
    <2>. QED
      BY <1>8, <2>2, <2>4
  <1>. HIDE DEF P
  <1>9. k \in 0..k /\ \A m \in 0..k : m \in P
    <2>1. k \in 0..k
      BY <1>4, SMTT(60)
    <2>. QED
      BY <2>1, <1>4, <1>7, <1>8, UpTo
  <1>10. Collecting(run[k], u, k, chain)
    BY <1>9 DEF P
  <1>11. CASE ~run[k].ok
    BY <1>0, <1>3, <1>10, <1>11 DEF Collecting, Taken
  <1>12. CASE run[k].ok
    <2>. DEFINE x == run[k].u
                w == [x EXCEPT !.headers = Cut(@, both), !.bodies = Cut(@, both)]
    <2>1. /\ Core(x, chain) /\ x.cur = "SyncBlocks" /\ State(x)
          /\ x.headers = u.headers /\ x.bodies = u.bodies /\ x.ids = u.ids
          /\ x.cut = u.cut /\ x.mixed = u.mixed /\ x.startN = u.startN + k
          /\ x.startH \in Blocks /\ Number[x.startH] = x.startN
          /\ x.startH \in x.ready \cup chain \cup x.unknown
          /\ \/ x.mixed
             \/ x.startH \in x.ready \cup chain /\ Linked(x.headers)
                /\ Attached(x.headers, x.startN, x.startH)
      BY <1>10, <1>12 DEF Collecting, Core
    <2>2. CollectBlocks(u) = [u |-> w, ok |-> TRUE]
      BY <1>0, <1>3, <1>12
    <2>. HIDE DEF x
    <2>3. /\ HeadersOK(Cut(x.headers, both)) /\ BodiesOK(Cut(x.headers, both), Cut(x.bodies, both), x.cut)
          /\ Linked(x.headers) => Linked(Cut(x.headers, both))
          /\ Attached(x.headers, x.startN, x.startH) => Attached(Cut(x.headers, both), x.startN, x.startH)
      <3>1. HeadersOK(x.headers) /\ BodiesOK(x.headers, x.bodies, x.cut)
        BY <2>1 DEF Core
      <3>. QED
        BY <3>1, CutBoth
    <2>4. State(w) /\ w.headers = Cut(x.headers, both) /\ w.bodies = Cut(x.bodies, both) /\ Besides(x, w)
      BY <2>1 DEF State, Names, Besides
    <2>5. w.ids = x.ids /\ w.cut = x.cut /\ w.dlH = x.dlH /\ w.dlB = x.dlB
      BY <2>1 DEF State, Names
    <2>. HIDE DEF w
    <2>6. Core(w, chain)
      BY <2>1, <2>3, <2>4, <2>5 DEF Core, Besides
    <2>7. Loading(w, chain)
      BY <1>5, <2>1, <2>3, <2>4, <2>5 DEF Loading, Besides
    <2>8. w.cur = "SyncBlocks"
      BY <2>1, <2>4 DEF Besides
    <2>9. Taken([u |-> w, ok |-> TRUE], chain)
      BY <2>6, <2>7, <2>8, TakenEither
    <2>. QED
      BY <2>2, <2>9
  <1>. QED
    BY <1>11, <1>12

-----------------------------------------------------------------------------
(* The handlers.                                                           *)

\* Where SyncBlocks may be.
LEMMA LoadingInv ==
    ASSUME NEW u, NEW ch, Core(u, ch), u.cur = "SyncBlocks", Loading(u, ch)
    PROVE  InvOf(u, ch)
  BY DEF InvOf

\* From any other state than Idle the machine may go there.
LEMMA ToIdleFrom ==
    ASSUME NEW u, NEW ch, Core(u, ch), u.cur # "Idle"
    PROVE  InvOf(ToIdle(u), ch)
  BY ToIdleIs

\* The common end of the two handlers of SyncBlocks.
LEMMA AfterDownloadIs ==
    ASSUME NEW u, Core(u, chain), u.cur = "SyncBlocks", Loading(u, chain),
           NEW P, NEW w \in AfterDownload(u, P)
    PROVE  InvOf(w, chain)
  <1>. DEFINE r == CollectBlocks(u)
  <1>1. CASE DOMAIN u.headers = {}
    <2>1. w = ToIdle(u)
      BY <1>1 DEF AfterDownload
    <2>. QED
      BY <2>1, ToIdleFrom
  <1>2. CASE DOMAIN u.headers # {}
    <2>1. Taken(r, chain)
      BY <1>2, CollectBlocksIs
    <2>2. w \in IF ~r.ok \/ DOMAIN r.u.headers = {} THEN {ToIdle(r.u)} ELSE ContinueSync(r.u, P)
      BY <1>2 DEF AfterDownload
    <2>. HIDE DEF r
    <2>3. PICK x : x = r.u
      OBVIOUS
    <2>4. Core(x, chain) /\ x.cur = "SyncBlocks" /\ (r.ok => Loading(x, chain))
      BY <2>1, <2>3 DEF Taken
    <2>5. CASE ~r.ok \/ DOMAIN x.headers = {}
      <3>1. w = ToIdle(x)
        BY <2>2, <2>3, <2>5
      <3>. QED
        BY <2>4, <3>1, ToIdleFrom
    <2>6. CASE r.ok /\ DOMAIN x.headers # {}
      <3>1. w \in ContinueSync(x, P)
        BY <2>2, <2>3, <2>6
      <3>2. InvOf(x, chain) /\ x.cur # "FindingCommonBlock"
        BY <2>4, <2>6, LoadingInv
      <3>. QED
        BY <3>1, <3>2, ContinueSyncIs
    <2>. QED
      BY <2>5, <2>6
  <1>. QED
    BY <1>1, <1>2

\* Idle and Waiting switch to FindingCommonBlock.
LEMMA StartFindingIs ==
    ASSUME NEW u, NEW ch, Core(u, ch), Clean(u), NEW P, NEW p \in Peers, P[p].latest \in Blocks,
           NEW n \in 0..MaxNumber, NEW h
    PROVE  InvOf(StartFinding(u, P, p, n, h), ch) /\ StartFinding(u, P, p, n, h).cur = "FindingCommonBlock"
  <1>. DEFINE l == P[p].latest
              v == [u EXCEPT !.startN = n, !.startH = h, !.startIrr = u.irr,
                             !.expH = l, !.expN = 0, !.mixed = FALSE,
                             !.cur = "FindingCommonBlock",
                             !.unexpected = 0, !.quiet = 0, !.silentF = 0]
  <1>1. State(u)
    BY DEF Core
  <1>. HIDE DEF l
  <1>2. /\ State(v) /\ v.startN = n /\ v.expH = l /\ v.expN = 0 /\ v.cur = "FindingCommonBlock"
        /\ v.impN = u.impN /\ v.irr = u.irr
    BY <1>1 DEF State, Names
  <1>3. /\ Beside(u, v) /\ v.headers = u.headers /\ v.bodies = u.bodies /\ v.ids = u.ids /\ v.cut = u.cut
    BY <1>1 DEF State, Names, Beside
  <1>. HIDE DEF v
  <1>4. l \in Blocks
    BY DEF l
  <1>5. Core(v, ch)
    BY <1>2, <1>3, <1>4 DEF Core, Beside
  <1>6. Finding(v)
    <2>1. DOMAIN v.headers = {} /\ DOMAIN v.ids = {} /\ v.cut = {}
      BY <1>3 DEF Clean
    <2>2. Listed(v.headers, v.ids, {}, 0) /\ Linked(v.headers)
      BY <2>1 DEF Listed, Linked
    <2>. QED
      BY <1>2, <1>4, <2>1, <2>2 DEF Finding
  <1>7. InvOf(v, ch)
    BY <1>2, <1>5, <1>6 DEF InvOf
  <1>8. InvOf([v EXCEPT !.req[p] = ByHash(l)], ch) /\ Alike(v, [v EXCEPT !.req[p] = ByHash(l)])
    <2>1. WellFormed(ByHash(l))
      BY <1>4, WellFormedIs
    <2>. QED
      BY <1>7, <2>1, AskIs
  <1>9. StartFinding(u, P, p, n, h) = v \/ StartFinding(u, P, p, n, h) = [v EXCEPT !.req[p] = ByHash(l)]
    BY DEF StartFinding, v, l
  <1>10. [v EXCEPT !.req[p] = ByHash(l)].cur = "FindingCommonBlock"
    BY <1>2, <1>8 DEF Alike
  <1>. QED
    BY <1>2, <1>7, <1>8, <1>9, <1>10

\* A header that is neither ready nor in the chain joins the others.
LEMMA AddedIs ==
    ASSUME NEW u, NEW ch, InvOf(u, ch), u.cur = "FindingCommonBlock", NEW b \in Blocks,
           u.expH = b \/ u.expN = Number[b], Number[b] \notin DOMAIN u.headers, b \notin u.ready \cup ch
    PROVE  LET w == AddHeader([u EXCEPT !.mixed = @ \/ Apart(u, b)], b) IN
           /\ Core(w, ch) /\ w.cur = "FindingCommonBlock" /\ w.cut = {}
           /\ Listed(w.headers, w.ids, {}, 0) /\ (w.mixed \/ Linked(w.headers))
  <1>1. Core(u, ch) /\ Finding(u) /\ State(u) /\ b # 0
    BY DEF InvOf, Core, QueueOK
  <1>2. PICK m : m = (u.mixed \/ Apart(u, b))
    OBVIOUS
  <1>. DEFINE x == [u EXCEPT !.mixed = m]
              w == AddHeader(x, b)
              n == Number[b]
  <1>3. State(x) /\ Beside(u, x) /\ x.mixed = m /\ x.cur = u.cur
        /\ x.startN = u.startN /\ x.impN = u.impN /\ x.irr = u.irr /\ x.expH = u.expH
    BY <1>1 DEF State, Names, Beside
  <1>4. x.headers = u.headers /\ x.bodies = u.bodies /\ x.ids = u.ids /\ x.cut = u.cut
    BY <1>1 DEF State, Names
  <1>. HIDE DEF x
  <1>5. Core(x, ch)
    BY <1>1, <1>3, <1>4 DEF Core, Beside
  <1>6. /\ Core(w, ch) /\ Besides(x, w) /\ w.cut = x.cut /\ w.headers = Put(x.headers, n, b)
        /\ Listed(x.headers, x.ids, x.cut, 0) => Listed(w.headers, w.ids, w.cut, 0)
    BY <1>1, <1>4, <1>5, AddHeaderIs
  <1>. HIDE DEF w
  <1>7. w.cut = {} /\ Listed(w.headers, w.ids, {}, 0) /\ w.cur = "FindingCommonBlock"
    BY <1>1, <1>3, <1>4, <1>6 DEF Finding, Besides
  <1>8. n - 1 \notin DOMAIN u.headers
    <2>1. CASE DOMAIN u.headers = {}
      BY <2>1
    <2>2. CASE DOMAIN u.headers # {}
      <3>1. u.expH = None /\ u.expN = u.startN /\ Above(u.headers, u.startN)
        BY <1>1, <2>2 DEF Finding
      <3>2. b # None
        BY TreeAssumption, SMTT(60) DEF Blocks, None
      <3>3. n = u.startN
        BY <3>1, <3>2
      <3>4. n \in Nat
        BY NumberNat
      <3>5. ~(n - 1 > n)
        BY <3>4, SMTT(60)
      <3>. QED
        BY <3>1, <3>3, <3>5 DEF Above
    <2>. QED
      BY <2>1, <2>2
  <1>9. ASSUME ~w.mixed PROVE Linked(w.headers)
    <2>1. ~m
      BY <1>3, <1>6, <1>9 DEF Besides
    <2>2. ~u.mixed /\ ~Apart(u, b)
      BY <1>2, <2>1
    <2>3. Linked(u.headers) /\ HeadersOK(u.headers)
      BY <1>1, <2>2 DEF Finding, Core
    <2>4. n + 1 \in DOMAIN u.headers => Parent[u.headers[n + 1]] = b
      BY <2>2 DEF Apart
    <2>5. Linked(Put(u.headers, n, b))
      BY <1>1, <1>8, <2>3, <2>4, PutLinked
    <2>. QED
      BY <1>4, <1>6, <2>5
  <1>10. /\ Core(w, ch) /\ w.cur = "FindingCommonBlock" /\ w.cut = {}
         /\ Listed(w.headers, w.ids, {}, 0) /\ (w.mixed \/ Linked(w.headers))
    BY <1>6, <1>7, <1>9
  <1>. QED
    BY <1>2, <1>10 DEF w, x

\* A header that is: without any other the sync is over, else the download begins.
LEMMA FoundIs ==
    ASSUME NEW u, InvOf(u, chain), u.cur = "FindingCommonBlock", NEW b \in Blocks,
           u.expH = b \/ u.expN = Number[b], b \in u.ready \cup chain,
           NEW P, NEW w \in IF DOMAIN u.headers = {} THEN {ToIdle(CommonFound(u, b))}
                            ELSE ToSyncBlocks(CommonFound(u, b), P)
    PROVE  InvOf(w, chain)
  <1>1. Core(u, chain) /\ Finding(u) /\ State(u)
    BY DEF InvOf, Core
  <1>2. PICK m : m = (u.mixed \/ Apart(u, b))
    OBVIOUS
  <1>. DEFINE x == [u EXCEPT !.startN = Number[b], !.startH = b, !.mixed = m]
              y == [x EXCEPT !.cur = "SyncBlocks", !.quiet = 0]
  <1>3. State(x) /\ Beside(u, x) /\ x.mixed = m /\ x.cur = u.cur
        /\ x.startN = Number[b] /\ x.startH = b /\ x.impN = u.impN /\ x.irr = u.irr /\ x.expH = u.expH
    BY <1>1 DEF State, Names, Beside
  <1>4. x.headers = u.headers /\ x.bodies = u.bodies /\ x.ids = u.ids /\ x.cut = u.cut
    BY <1>1 DEF State, Names
  <1>5. CommonFound(u, b) = x
    BY <1>2 DEF CommonFound
  <1>. HIDE DEF x
  <1>6. Number[b] \in 0..MaxNumber
    BY NumberRange
  <1>7. Core(x, chain)
    BY <1>1, <1>3, <1>4, <1>6 DEF Core, Beside
  <1>8. CASE DOMAIN u.headers = {}
    <2>1. w = ToIdle(x)
      BY <1>5, <1>8
    <2>2. x.cur # "Idle"
      BY <1>3
    <2>. QED
      BY <1>7, <2>1, <2>2, ToIdleFrom
  <1>9. CASE DOMAIN u.headers # {}
    <2>1. w \in ContinueSync(y, P)
      BY <1>5, <1>9 DEF ToSyncBlocks
    <2>2. State(y) /\ Beside(x, y) /\ y.cur = "SyncBlocks" /\ y.mixed = x.mixed
          /\ y.startN = x.startN /\ y.startH = x.startH /\ y.impN = x.impN /\ y.irr = x.irr /\ y.expH = x.expH
      BY <1>3 DEF State, Names, Beside
    <2>3. y.headers = x.headers /\ y.bodies = x.bodies /\ y.ids = x.ids /\ y.cut = x.cut
      BY <1>3 DEF State, Names
    <2>. HIDE DEF y
    <2>4. Core(y, chain)
      BY <1>7, <2>2, <2>3 DEF Core, Beside
    <2>5. u.expH = None /\ u.expN = u.startN /\ Above(u.headers, u.startN)
      BY <1>1, <1>9 DEF Finding
    <2>6. b # None
      BY TreeAssumption, SMTT(60) DEF Blocks, None
    <2>7. Number[b] = u.startN
      BY <2>5, <2>6
    <2>8. Above(y.headers, y.startN) /\ Number[y.startH] = y.startN /\ y.startH \in Blocks
      BY <1>3, <1>4, <2>2, <2>3, <2>5, <2>7
    <2>9. Listed(y.headers, y.ids, y.cut, y.startN)
      <3>1. y.cut = {} /\ Listed(y.headers, y.ids, {}, 0) /\ IdsOK(y.ids) /\ y.startN \in 0..MaxNumber
        BY <1>1, <1>4, <2>3, <2>4 DEF Finding, Core
      <3>2. ASSUME NEW c \in Blocks, Number[c] <= 0 PROVE Number[c] <= y.startN
        BY <3>1, <3>2, NumberNat, SMTT(60)
      <3>. QED
        BY <3>1, <3>2 DEF Listed, IdsOK
    <2>10. y.startH \in y.ready \cup chain
      BY <1>3, <2>2 DEF Beside
    <2>11. y.mixed \/ (Linked(y.headers) /\ Attached(y.headers, y.startN, y.startH))
      <3>1. ASSUME ~y.mixed PROVE Linked(y.headers) /\ Attached(y.headers, y.startN, y.startH)
        <4>1. ~m
          BY <1>3, <2>2, <3>1
        <4>2. ~u.mixed /\ ~Apart(u, b)
          BY <1>2, <4>1
        <4>3. Linked(u.headers)
          BY <1>1, <4>2 DEF Finding
        <4>4. Attached(u.headers, Number[b], b)
          BY <4>2 DEF Apart, Attached
        <4>. QED
          BY <1>3, <1>4, <2>2, <2>3, <4>3, <4>4
      <3>. QED
        BY <3>1
    <2>12. Loading(y, chain)
      BY <2>8, <2>9, <2>10, <2>11 DEF Loading
    <2>13. InvOf(y, chain) /\ y.cur # "FindingCommonBlock"
      BY <2>2, <2>4, <2>12, LoadingInv
    <2>. QED
      BY <2>1, <2>13, ContinueSyncIs
  <1>. QED
    BY <1>8, <1>9

\* The next number to ask for lies below every header.
LEMMA MoveToNextIs ==
    ASSUME NEW u, NEW ch, Core(u, ch), u.cur = "FindingCommonBlock", u.cut = {},
           Listed(u.headers, u.ids, {}, 0), u.mixed \/ Linked(u.headers)
    PROVE  InvOf(MoveToNext(u), ch)
  <1>. DEFINE n == NextTry(u)
              h == At[best][n]
              w == MoveToNext(u)
  <1>1. State(u)
    BY DEF Core
  <1>2. n \in 0..MaxNumber /\ Above(u.headers, n)
    BY NextTryIs DEF Core, Above
  <1>3. w = [u EXCEPT !.startN = n, !.startH = h, !.expN = n, !.expH = None]
    BY DEF MoveToNext
  <1>. HIDE DEF n, h, w
  <1>4. State(w) /\ Beside(u, w) /\ w.mixed = u.mixed /\ w.cur = u.cur
        /\ w.startN = n /\ w.expN = n /\ w.expH = None /\ w.impN = u.impN /\ w.irr = u.irr
    BY <1>1, <1>3 DEF State, Names, Beside
  <1>5. w.headers = u.headers /\ w.bodies = u.bodies /\ w.ids = u.ids /\ w.cut = u.cut
    BY <1>1, <1>3 DEF State, Names
  <1>6. Core(w, ch)
    BY <1>2, <1>4, <1>5 DEF Core, Beside
  <1>7. Finding(w)
    BY <1>2, <1>4, <1>5 DEF Finding
  <1>. QED
    BY <1>4, <1>6, <1>7 DEF InvOf, w

\* One header while the common block is looked for.
LEMMA FindingHeaderIs ==
    ASSUME NEW u, InvOf(u, chain), u.cur = "FindingCommonBlock", NEW b \in Blocks,
           NEW P, NEW w \in FindingHeader(u, P, b)
    PROVE  InvOf(w, chain)
  <1>. DEFINE n == Number[b]
              expected == u.expH = b \/ u.expN = n
              common == b \in u.ready \cup chain
              found == CommonFound(u, b)
              added == AddHeader([u EXCEPT !.mixed = @ \/ Apart(u, b)], b)
  <1>1. CASE ~expected
    <2>. DEFINE x == [u EXCEPT !.unexpected = 0]
                y == [u EXCEPT !.unexpected = @ + 1]
    <2>1. w = ToIdle(x) \/ w \in ContinueFinding(y, P)
      BY <1>1 DEF FindingHeader
    <2>2. State(u)
      BY DEF InvOf, Core
    <2>3. State(x) /\ Alike(u, x) /\ Beside(u, x)
      BY <2>2 DEF State, Names, Alike, Beside
    <2>4. State(y) /\ Alike(u, y) /\ Beside(u, y)
      BY <2>2 DEF State, Names, Alike, Beside
    <2>. HIDE DEF x, y
    <2>5. InvOf(x, chain)
      BY <2>3, Ticks
    <2>6. InvOf(y, chain)
      BY <2>4, Ticks
    <2>7. InvOf(ToIdle(x), chain)
      BY <2>5, ToIdleOf
    <2>. QED
      BY <2>1, <2>6, <2>7, ContinueFindingIs
  <1>2. CASE expected /\ n < u.startIrr
    <2>1. w = ToIdle(u)
      BY <1>2 DEF FindingHeader
    <2>. QED
      BY <2>1, ToIdleOf
  <1>3. CASE expected /\ ~(n < u.startIrr) /\ n \in DOMAIN u.headers
    <2>1. w \in ContinueFinding(u, P)
      BY <1>3 DEF FindingHeader
    <2>. QED
      BY <2>1, ContinueFindingIs
  <1>4. CASE expected /\ ~(n < u.startIrr) /\ n \notin DOMAIN u.headers /\ common
    <2>1. w \in IF DOMAIN u.headers = {} THEN {ToIdle(found)} ELSE ToSyncBlocks(found, P)
      BY <1>4 DEF FindingHeader
    <2>. QED
      BY <1>4, <2>1, FoundIs
  <1>5. CASE expected /\ ~(n < u.startIrr) /\ n \notin DOMAIN u.headers /\ ~common
    <2>1. w = ToIdle(added) \/ w \in ContinueFinding(MoveToNext(added), P)
      BY <1>5 DEF FindingHeader
    <2>2. /\ Core(added, chain) /\ added.cur = "FindingCommonBlock" /\ added.cut = {}
          /\ Listed(added.headers, added.ids, {}, 0) /\ (added.mixed \/ Linked(added.headers))
      BY <1>5, AddedIs
    <2>. HIDE DEF added
    <2>3. InvOf(ToIdle(added), chain)
      BY <2>2, ToIdleFrom
    <2>4. InvOf(MoveToNext(added), chain)
      BY <2>2, MoveToNextIs
    <2>. QED
      BY <2>1, <2>3, <2>4, ContinueFindingIs
  <1>. QED
    BY <1>1, <1>2, <1>3, <1>4, <1>5

\* A timer is set.
LEMMA TimerIs ==
    ASSUME NEW u, NEW ch, InvOf(u, ch)
    PROVE  /\ InvOf([u EXCEPT !.silentF = 0], ch) /\ Alike(u, [u EXCEPT !.silentF = 0])
           /\ InvOf([u EXCEPT !.silentS = 0], ch) /\ Alike(u, [u EXCEPT !.silentS = 0])
           /\ InvOf([u EXCEPT !.quiet = 0], ch) /\ Alike(u, [u EXCEPT !.quiet = 0])
  <1>. DEFINE f == [u EXCEPT !.silentF = 0]
              g == [u EXCEPT !.silentS = 0]
              q == [u EXCEPT !.quiet = 0]
  <1>1. State(u)
    BY DEF InvOf, Core
  <1>2. State(f) /\ Alike(u, f) /\ Beside(u, f)
    BY <1>1 DEF State, Names, Alike, Beside
  <1>3. State(g) /\ Alike(u, g) /\ Beside(u, g)
    BY <1>1 DEF State, Names, Alike, Beside
  <1>4. State(q) /\ Alike(u, q) /\ Beside(u, q)
    BY <1>1 DEF State, Names, Alike, Beside
  <1>. HIDE DEF f, g, q
  <1>5. InvOf(f, ch) /\ Alike(u, f)
    BY <1>2, Ticks
  <1>6. InvOf(g, ch) /\ Alike(u, g)
    BY <1>3, Ticks
  <1>7. InvOf(q, ch) /\ Alike(u, q)
    BY <1>4, Ticks
  <1>. QED
    BY <1>5, <1>6, <1>7 DEF f, g, q

\* updateTimeout changes the state only to Idle, and only after the time.
LEMMA StaysOrIdle ==
    ASSUME NEW u, NEW ch, InvOf(u, ch)
    PROVE  /\ UpdateTimeout(u).cur \in {u.cur, "Idle"}
           /\ ~TimedOut(u) => UpdateTimeout(u).cur = u.cur
  <1>1. CASE TimedOut(u)
    <2>1. UpdateTimeout(u) = ToIdle(u) /\ u.cur # "Idle"
      BY <1>1 DEF UpdateTimeout, TimedOut
    <2>. DEFINE v == ResetTemp(u)
    <2>2. State(v)
      BY ResetTempIs DEF InvOf, Core
    <2>3. ToIdle(u) = [v EXCEPT !.cur = "Idle", !.lock = FALSE, !.quiet = 0]
      BY <2>1 DEF ToIdle
    <2>. HIDE DEF v
    <2>4. ToIdle(u).cur = "Idle"
      BY <2>2, <2>3 DEF State, Names
    <2>. QED
      BY <1>1, <2>1, <2>4
  <1>2. CASE ~TimedOut(u)
    <2>1. UpdateTimeout(u) = [u EXCEPT !.quiet = 0]
      BY <1>2 DEF UpdateTimeout
    <2>. QED
      BY <2>1, TimerIs DEF Alike
  <1>. QED
    BY <1>1, <1>2

\* keepAlive, run by the object of the state that was current when the message came.
LEMMA KeepAliveIs ==
    ASSUME NEW u, NEW ch, InvOf(u, ch), NEW P, NEW cur, NEW w \in KeepAlive(u, P, cur),
           u.cur # "Idle" => u.cur = cur
    PROVE  InvOf(w, ch)
  <1>1. CASE cur = "FindingCommonBlock" /\ u.silentF >= 1
    <2>1. w \in {[v EXCEPT !.silentF = 0] : v \in ContinueFinding(u, P)}
      BY <1>1 DEF KeepAlive
    <2>2. PICK v \in ContinueFinding(u, P) : w = [v EXCEPT !.silentF = 0]
      BY <2>1
    <2>3. InvOf(v, ch)
      BY ContinueFindingIs
    <2>. QED
      BY <2>2, <2>3, TimerIs
  <1>2. CASE cur = "SyncBlocks" /\ u.silentS >= 1
    <2>1. w \in {[v EXCEPT !.silentS = 0] : v \in ContinueSync(u, P)}
      BY <1>2 DEF KeepAlive
    <2>2. PICK v \in ContinueSync(u, P) : w = [v EXCEPT !.silentS = 0]
      BY <2>1
    <2>3. u.cur # "FindingCommonBlock"
      BY <1>2
    <2>4. InvOf(v, ch)
      BY <2>3, ContinueSyncIs
    <2>. QED
      BY <2>2, <2>4, TimerIs
  <1>3. CASE /\ ~(cur = "FindingCommonBlock" /\ u.silentF >= 1)
             /\ ~(cur = "SyncBlocks" /\ u.silentS >= 1)
    <2>1. w = u
      BY <1>3 DEF KeepAlive
    <2>. QED
      BY <2>1
  <1>. QED
    BY <1>1, <1>2, <1>3

\* Headers.
LEMMA OnHeadersIs ==
    ASSUME NEW u, InvOf(u, chain), NEW P, NEW p, NEW reply \in Seq(Blocks),
           NEW w \in OnHeaders(u, P, p, reply)
    PROVE  InvOf(w, chain)
  <1>1. CASE u.cur \in {"Idle", "Waiting"}
    <2>1. w = ToIdle(u) \/ w = UpdateTimeout(u)
      BY <1>1 DEF OnHeaders
    <2>. QED
      BY <2>1, ToIdleOf, UpdateTimeoutIs
  <1>2. CASE u.cur = "FindingCommonBlock"
    <2>. DEFINE f == [u EXCEPT !.silentF = 0]
                t == UpdateTimeout(f)
                v == ClearMarks(t, p)
    <2>1. CASE TimedOut(u)
      <3>1. w = t
        BY <1>2, <2>1 DEF OnHeaders
      <3>2. InvOf(f, chain)
        BY TimerIs
      <3>. HIDE DEF f
      <3>. QED
        BY <3>1, <3>2, UpdateTimeoutIs
    <2>2. CASE ~TimedOut(u)
      <3>1. w \in IF reply = <<>> THEN {v}
                  ELSE IF Len(reply) = 1 THEN FindingHeader(v, P, reply[1])
                  ELSE ContinueFinding(v, P)
        BY <1>2, <2>2 DEF OnHeaders
      <3>2. InvOf(f, chain) /\ f.cur = "FindingCommonBlock" /\ f.quiet = u.quiet
        <4>1. State(u)
          BY DEF InvOf, Core
        <4>2. f.quiet = u.quiet
          BY <4>1 DEF State, Names
        <4>. QED
          BY <1>2, <4>2, TimerIs DEF Alike
      <3>. HIDE DEF f
      <3>3. ~TimedOut(f)
        BY <1>2, <2>2, <3>2 DEF TimedOut
      <3>4. InvOf(t, chain) /\ t.cur = "FindingCommonBlock"
        BY <3>2, <3>3, UpdateTimeoutIs, StaysOrIdle
      <3>. HIDE DEF t
      <3>5. InvOf(v, chain) /\ v.cur = "FindingCommonBlock"
        <4>1. InvOf(v, chain) /\ Alike(t, v)
          BY <3>4, ClearMarksIs
        <4>. QED
          BY <3>4, <4>1 DEF Alike
      <3>. HIDE DEF v
      <3>6. Len(reply) = 1 => reply[1] \in Blocks
        BY SMTT(60)
      <3>7. CASE reply = <<>>
        BY <3>1, <3>5, <3>7
      <3>8. CASE reply # <<>> /\ Len(reply) = 1
        BY <3>1, <3>5, <3>6, <3>8, FindingHeaderIs
      <3>9. CASE reply # <<>> /\ Len(reply) # 1
        BY <3>1, <3>5, <3>9, ContinueFindingIs
      <3>. QED
        BY <3>7, <3>8, <3>9
    <2>. QED
      BY <2>1, <2>2
  <1>3. CASE u.cur = "SyncBlocks"
    <2>. DEFINE f == [u EXCEPT !.silentS = 0]
                t == UpdateTimeout(f)
                v == ClearMarks(t, p)
                r == TakeHeaders(v, reply)
    <2>1. CASE TimedOut(u)
      <3>1. w = t
        BY <1>3, <2>1 DEF OnHeaders
      <3>2. InvOf(f, chain)
        BY TimerIs
      <3>. HIDE DEF f
      <3>. QED
        BY <3>1, <3>2, UpdateTimeoutIs
    <2>2. CASE ~TimedOut(u)
      <3>1. w \in IF r.ok THEN AfterDownload(r.u, P) ELSE {ToIdle(r.u)}
        BY <1>3, <2>2 DEF OnHeaders
      <3>2. InvOf(f, chain) /\ f.cur = "SyncBlocks" /\ f.quiet = u.quiet
        <4>1. State(u)
          BY DEF InvOf, Core
        <4>2. f.quiet = u.quiet
          BY <4>1 DEF State, Names
        <4>. QED
          BY <1>3, <4>2, TimerIs DEF Alike
      <3>. HIDE DEF f
      <3>3. ~TimedOut(f)
        BY <1>3, <2>2, <3>2 DEF TimedOut
      <3>4. InvOf(t, chain) /\ t.cur = "SyncBlocks"
        BY <3>2, <3>3, UpdateTimeoutIs, StaysOrIdle
      <3>. HIDE DEF t
      <3>5. InvOf(v, chain) /\ v.cur = "SyncBlocks"
        <4>1. InvOf(v, chain) /\ Alike(t, v)
          BY <3>4, ClearMarksIs
        <4>. QED
          BY <3>4, <4>1 DEF Alike
      <3>. HIDE DEF v
      <3>6. Core(v, chain) /\ Loading(v, chain)
        BY <3>5 DEF InvOf
      <3>7. Taken(r, chain)
        BY <3>5, <3>6, TakeHeadersIs
      <3>. HIDE DEF r
      <3>8. PICK x : x = r.u
        OBVIOUS
      <3>9. Core(x, chain) /\ x.cur = "SyncBlocks" /\ (r.ok => Loading(x, chain))
        BY <3>7, <3>8 DEF Taken
      <3>10. CASE r.ok
        <4>1. w \in AfterDownload(x, P)
          BY <3>1, <3>8, <3>10
        <4>. QED
          BY <3>9, <3>10, <4>1, AfterDownloadIs
      <3>11. CASE ~r.ok
        <4>1. w = ToIdle(x)
          BY <3>1, <3>8, <3>11
        <4>. QED
          BY <3>9, <4>1, ToIdleFrom
      <3>. QED
        BY <3>10, <3>11
    <2>. QED
      BY <2>1, <2>2
  <1>. QED
    BY <1>1, <1>2, <1>3 DEF InvOf

\* Bodies.
LEMMA OnBodiesIs ==
    ASSUME NEW u, InvOf(u, chain), NEW P, NEW p, NEW reply, NEW w \in OnBodies(u, P, p, reply)
    PROVE  InvOf(w, chain)
  <1>1. CASE u.cur \in {"Idle", "Waiting"}
    <2>1. w = ToIdle(u) \/ w = UpdateTimeout(u)
      BY <1>1 DEF OnBodies
    <2>. QED
      BY <2>1, ToIdleOf, UpdateTimeoutIs
  <1>2. CASE u.cur = "FindingCommonBlock"
    <2>. DEFINE t == UpdateTimeout(u)
    <2>1. w \in KeepAlive(t, P, u.cur)
      BY <1>2 DEF OnBodies
    <2>2. InvOf(t, chain) /\ t.cur \in {u.cur, "Idle"}
      BY UpdateTimeoutIs, StaysOrIdle
    <2>. HIDE DEF t
    <2>3. t.cur # "Idle" => t.cur = u.cur
      BY <2>2
    <2>. QED
      BY <2>1, <2>2, <2>3, KeepAliveIs
  <1>3. CASE u.cur = "SyncBlocks"
    <2>. DEFINE f == [u EXCEPT !.silentS = 0]
                t == UpdateTimeout(f)
                v == ClearMarks(t, p)
                x == TakeBodies(v, reply)
    <2>1. CASE TimedOut(u)
      <3>1. w = t
        BY <1>3, <2>1 DEF OnBodies
      <3>2. InvOf(f, chain)
        BY TimerIs
      <3>. HIDE DEF f
      <3>. QED
        BY <3>1, <3>2, UpdateTimeoutIs
    <2>2. CASE ~TimedOut(u)
      <3>1. w \in AfterDownload(x, P)
        BY <1>3, <2>2 DEF OnBodies
      <3>2. InvOf(f, chain) /\ f.cur = "SyncBlocks" /\ f.quiet = u.quiet
        <4>1. State(u)
          BY DEF InvOf, Core
        <4>2. f.quiet = u.quiet
          BY <4>1 DEF State, Names
        <4>. QED
          BY <1>3, <4>2, TimerIs DEF Alike
      <3>. HIDE DEF f
      <3>3. ~TimedOut(f)
        BY <1>3, <2>2, <3>2 DEF TimedOut
      <3>4. InvOf(t, chain) /\ t.cur = "SyncBlocks"
        BY <3>2, <3>3, UpdateTimeoutIs, StaysOrIdle
      <3>. HIDE DEF t
      <3>5. InvOf(v, chain) /\ v.cur = "SyncBlocks"
        <4>1. InvOf(v, chain) /\ Alike(t, v)
          BY <3>4, ClearMarksIs
        <4>. QED
          BY <3>4, <4>1 DEF Alike
      <3>. HIDE DEF v
      <3>6. Core(v, chain) /\ Loading(v, chain)
        BY <3>5 DEF InvOf
      <3>7. Core(x, chain) /\ x.cur = "SyncBlocks" /\ Loading(x, chain)
        BY <3>5, <3>6, TakeBodiesIs
      <3>. HIDE DEF x
      <3>. QED
        BY <3>1, <3>7, AfterDownloadIs
    <2>. QED
      BY <2>1, <2>2
  <1>. QED
    BY <1>1, <1>2, <1>3 DEF InvOf

\* A message that leaves the state where it is ends with keepAlive.
LEMMA OtherwiseIs ==
    ASSUME NEW u, NEW ch, InvOf(u, ch), NEW P, NEW w \in KeepAlive(UpdateTimeout(u), P, u.cur)
    PROVE  InvOf(w, ch)
  <1>. DEFINE t == UpdateTimeout(u)
  <1>1. InvOf(t, ch) /\ t.cur \in {u.cur, "Idle"}
    BY UpdateTimeoutIs, StaysOrIdle
  <1>2. w \in KeepAlive(t, P, u.cur)
    OBVIOUS
  <1>. HIDE DEF t
  <1>3. t.cur # "Idle" => t.cur = u.cur
    BY <1>1
  <1>. QED
    BY <1>1, <1>2, <1>3, KeepAliveIs

\* A status.
LEMMA OnStatusIs ==
    ASSUME NEW u, NEW ch, InvOf(u, ch), NEW P, NEW p \in Peers, P[p].latest \in Blocks,
           NEW w \in OnStatus(u, P, p)
    PROVE  InvOf(w, ch)
  <1>. DEFINE slow == u.irr < P[p].told /\ u.boot
              v == UpdateTimeout(u)
              x == [v EXCEPT !.boot = @ /\ ~slow, !.lock = @ \/ slow]
  <1>1. CASE u.cur = "Waiting" /\ u.wait = 0
    <2>1. w = ToIdle(u)
      BY <1>1 DEF OnStatus
    <2>. QED
      BY <2>1, ToIdleOf
  <1>2. CASE u.cur = "Idle"
    <2>1. w = v \/ w = StartFinding(x, P, p, u.impN, u.impH)
      BY <1>2 DEF OnStatus
    <2>2. InvOf(v, ch) /\ v.cur = "Idle"
      BY <1>2, UpdateTimeoutIs, StaysOrIdle
    <2>. HIDE DEF v
    <2>3. State(v) /\ Core(v, ch) /\ Clean(v)
      BY <2>2 DEF InvOf, Core
    <2>4. PICK a, l : a = (v.boot /\ ~slow) /\ l = (v.lock \/ slow)
      OBVIOUS
    <2>5. x = [v EXCEPT !.boot = a, !.lock = l]
      BY <2>4
    <2>. HIDE DEF x, slow
    <2>6. /\ State(x) /\ Beside(v, x) /\ x.headers = v.headers /\ x.bodies = v.bodies /\ x.ids = v.ids
          /\ x.cut = v.cut /\ x.startN = v.startN /\ x.impN = v.impN /\ x.irr = v.irr /\ x.expH = v.expH
      BY <2>3, <2>5 DEF State, Names, Beside
    <2>7. Core(x, ch) /\ Clean(x)
      BY <2>3, <2>6 DEF Core, Clean, Beside
    <2>8. u.impN \in 0..MaxNumber
      BY DEF InvOf, Core
    <2>9. InvOf(StartFinding(x, P, p, u.impN, u.impH), ch)
      BY <2>7, <2>8, StartFindingIs
    <2>. QED
      BY <2>1, <2>2, <2>9
  <1>3. CASE u.cur # "Idle" /\ ~(u.cur = "Waiting" /\ u.wait = 0)
    <2>1. w \in KeepAlive(v, P, u.cur)
      BY <1>3 DEF OnStatus
    <2>. QED
      BY <2>1, OtherwiseIs
  <1>. QED
    BY <1>1, <1>2, <1>3

\* A new block in Idle.
LEMMA IdleNewBlockIs ==
    ASSUME NEW u, InvOf(u, chain), u.cur = "Idle", NEW P, NEW p \in Peers, P[p].latest \in Blocks,
           NEW b \in Blocks
    PROVE  InvOf(IdleNewBlock(u, P, p, b), chain)
  <1>. DEFINE n == Number[b]
              v == [u EXCEPT !.quiet = 0]
              i == QueueImport(v, b)
              w == IdleNewBlock(u, P, p, b)
  <1>1. InvOf(v, chain) /\ v.cur = "Idle"
    BY TimerIs DEF Alike
  <1>2. u.impN \in 0..MaxNumber /\ n \in 0..MaxNumber
    BY NumberRange DEF InvOf, Core
  <1>. DEFINE far == n > u.impN + 1
              slow == n < u.impN /\ P[p].told > u.irr
              old == P[p].told < u.irr \/ Queued(u, b)
              few == Cardinality(u.ready) < FewKnown
              result == QueueResult(u, b)
              fv == StartFinding(v, P, p, u.impN, u.impH)
              fi == StartFinding(i, P, p, u.impN, u.impH)
              wait == [ResetTemp(v) EXCEPT !.cur = "Waiting", !.lock = TRUE, !.wait = 1]
              im == [i EXCEPT !.impN = n, !.impH = b]
              all == ResetAll(v)
  <1>0. w = IF old THEN v
            ELSE IF far THEN IF few THEN fv ELSE v
            ELSE IF slow THEN wait
            ELSE IF result = "Success" THEN IF n > u.impN THEN im ELSE i
            ELSE IF result = "UnknownParent" THEN fi
            ELSE IF result = "Irreversible" THEN all
            ELSE v
    BY DEF IdleNewBlock
  <1>. HIDE DEF v, n, w, far, slow, old, few, result, fv, fi, wait, im, all
  <1>3. w = v \/ w = fv \/ w = wait \/ w = im \/ w = i \/ w = fi \/ w = all
    BY <1>0
  <1>. USE DEF fv, fi, wait, im, all
  <1>4. Core(v, chain) /\ Clean(v) /\ ~v.lock
    BY <1>1 DEF InvOf
  <1>5. InvOf(i, chain) /\ i.cur = "Idle"
    <2>1. InvOf(i, chain) /\ Alike(v, i)
      BY <1>1, QueueImportKeeps
    <2>. QED
      BY <1>1, <2>1 DEF Alike
  <1>. HIDE DEF i
  <1>6. Core(i, chain) /\ Clean(i) /\ ~i.lock
    BY <1>5 DEF InvOf
  <1>7. InvOf(StartFinding(v, P, p, u.impN, u.impH), chain)
    BY <1>2, <1>4, StartFindingIs
  <1>8. InvOf(StartFinding(i, P, p, u.impN, u.impH), chain)
    BY <1>2, <1>6, StartFindingIs
  <1>9. InvOf([ResetTemp(v) EXCEPT !.cur = "Waiting", !.lock = TRUE, !.wait = 1], chain)
    <2>. DEFINE t == ResetTemp(v)
                x == [t EXCEPT !.cur = "Waiting", !.lock = TRUE, !.wait = 1]
    <2>1. Core(t, chain) /\ Clean(t)
      BY <1>4, ResetTempIs
    <2>. HIDE DEF t
    <2>2. State(t)
      BY <2>1 DEF Core
    <2>3. /\ State(x) /\ Beside(t, x) /\ x.headers = t.headers /\ x.bodies = t.bodies /\ x.ids = t.ids
          /\ x.cut = t.cut /\ x.startN = t.startN /\ x.impN = t.impN /\ x.irr = t.irr /\ x.expH = t.expH
          /\ x.cur = "Waiting"
      BY <2>2 DEF State, Names, Beside
    <2>. HIDE DEF x
    <2>4. Core(x, chain) /\ Clean(x)
      BY <2>1, <2>3 DEF Core, Clean, Beside
    <2>5. InvOf(x, chain)
      BY <2>3, <2>4 DEF InvOf
    <2>. QED
      BY <2>5 DEF x, t
  <1>10. InvOf([i EXCEPT !.impN = n, !.impH = b], chain)
    <2>. DEFINE x == [i EXCEPT !.impN = n, !.impH = b]
    <2>1. State(i)
      BY <1>6 DEF Core
    <2>2. /\ State(x) /\ Beside(i, x) /\ x.headers = i.headers /\ x.bodies = i.bodies /\ x.ids = i.ids
          /\ x.cut = i.cut /\ x.startN = i.startN /\ x.impN = n /\ x.irr = i.irr /\ x.expH = i.expH
          /\ x.cur = i.cur /\ x.lock = i.lock
      BY <2>1 DEF State, Names, Beside
    <2>. HIDE DEF x
    <2>3. Core(x, chain) /\ Clean(x)
      BY <1>2, <1>6, <2>2 DEF Core, Clean, Beside
    <2>4. InvOf(x, chain)
      BY <1>5, <1>6, <2>2, <2>3, CleanIdle
    <2>. QED
      BY <2>4 DEF x
  <1>11. InvOf(ResetAll(v), chain)
    BY <1>1, <1>4, ResetAllIs, CleanIdle
  <1>12. InvOf(w, chain)
    BY <1>1, <1>3, <1>5, <1>7, <1>8, <1>9, <1>10, <1>11
  <1>. QED
    BY <1>12 DEF w

\* A new block when the waiting is over.
LEMMA WaitedNewBlockIs ==
    ASSUME NEW u, NEW ch, InvOf(u, ch), u.cur = "Waiting", NEW P, NEW p \in Peers,
           P[p].latest \in Blocks, NEW b
    PROVE  InvOf(WaitedNewBlock(u, P, p, b), ch)
  <1>. DEFINE h == At[best][u.irr]
              f == StartFinding(u, P, p, u.irr, h)
              w == [f EXCEPT !.lock = TRUE]
  <1>1. WaitedNewBlock(u, P, p, b) = u \/ WaitedNewBlock(u, P, p, b) = w
    BY DEF WaitedNewBlock
  <1>2. Core(u, ch) /\ Clean(u) /\ u.irr \in 0..MaxNumber
    BY DEF InvOf, Core
  <1>3. InvOf(f, ch) /\ f.cur = "FindingCommonBlock"
    BY <1>2, StartFindingIs
  <1>. HIDE DEF f
  <1>4. State(f) /\ Core(f, ch) /\ Finding(f)
    BY <1>3 DEF InvOf, Core
  <1>5. /\ State(w) /\ Beside(f, w) /\ w.headers = f.headers /\ w.bodies = f.bodies /\ w.ids = f.ids
        /\ w.cut = f.cut /\ w.startN = f.startN /\ w.impN = f.impN /\ w.irr = f.irr /\ w.expH = f.expH
        /\ w.cur = f.cur /\ w.mixed = f.mixed /\ w.expN = f.expN
    BY <1>4 DEF State, Names, Beside
  <1>. HIDE DEF w
  <1>6. Core(w, ch) /\ Finding(w)
    BY <1>4, <1>5 DEF Core, Finding, Beside
  <1>7. InvOf(w, ch)
    BY <1>3, <1>5, <1>6 DEF InvOf
  <1>. QED
    BY <1>1, <1>7

\* A new block.
LEMMA OnNewBlockIs ==
    ASSUME NEW u, InvOf(u, chain), NEW P, NEW p \in Peers, P[p].latest \in Blocks,
           NEW b \in Blocks, NEW w \in OnNewBlock(u, P, p, b)
    PROVE  InvOf(w, chain)
  <1>1. CASE u.cur = "Idle"
    <2>1. w = IdleNewBlock(u, P, p, b)
      BY <1>1 DEF OnNewBlock
    <2>. QED
      BY <1>1, <2>1, IdleNewBlockIs
  <1>2. CASE u.cur = "Waiting" /\ u.wait = 0
    <2>1. w = WaitedNewBlock(u, P, p, b)
      BY <1>2 DEF OnNewBlock
    <2>. QED
      BY <1>2, <2>1, WaitedNewBlockIs
  <1>3. CASE u.cur # "Idle" /\ ~(u.cur = "Waiting" /\ u.wait = 0)
    <2>. DEFINE t == UpdateTimeout(u)
                d == DefaultNewBlock(u, P[p].told, b)
    <2>1. w \in KeepAlive(d, P, u.cur)
      BY <1>3 DEF OnNewBlock
    <2>2. d = t \/ d = QueueImport(t, b)
      BY DEF DefaultNewBlock
    <2>3. InvOf(t, chain) /\ t.cur \in {u.cur, "Idle"}
      BY UpdateTimeoutIs, StaysOrIdle
    <2>. HIDE DEF t, d
    <2>4. InvOf(QueueImport(t, b), chain) /\ Alike(t, QueueImport(t, b))
      BY <2>3, QueueImportKeeps
    <2>5. QueueImport(t, b).cur = t.cur
      BY <2>4 DEF Alike
    <2>6. InvOf(d, chain) /\ d.cur = t.cur
      BY <2>2, <2>3, <2>4, <2>5
    <2>7. d.cur # "Idle" => d.cur = u.cur
      BY <2>3, <2>6
    <2>. QED
      BY <2>1, <2>6, <2>7, KeepAliveIs
  <1>. QED
    BY <1>1, <1>2, <1>3

-----------------------------------------------------------------------------
(* The actions.                                                            *)

\* A session and its request are gone.
LEMMA GoneIs ==
    ASSUME NEW u, NEW ch, InvOf(u, ch), NEW p \in Peers
    PROVE  InvOf(Gone(u, p), ch)
  <1>. DEFINE w == Gone(u, p)
  <1>1. State(u) /\ QueueOK(u.ready, u.unknown, ch) /\ RequestsOK(u.req)
    BY DEF InvOf, Core
  <1>2. State(w) /\ Alike(u, w)
    BY <1>1 DEF State, Names, Alike, Gone
  <1>3. /\ w.dlH = u.dlH /\ w.dlB = u.dlB
        /\ w.ready = u.ready /\ w.unknown = u.unknown /\ w.req = [u.req EXCEPT ![p] = NoRequest]
    BY <1>1 DEF State, Names, Gone
  <1>. HIDE DEF w
  <1>4. RequestsOK([u.req EXCEPT ![p] = NoRequest])
    BY <1>1, OneRequest, WellFormedIs
  <1>5. InvOf(w, ch)
    BY <1>1, <1>2, <1>3, <1>4, Keeps
  <1>. QED
    BY <1>5 DEF w

\* One peer changes.
LEMMA OnePeer ==
    ASSUME NEW P, PeersOK(P), NEW p \in Peers, NEW Q, Q = [r \in Peers |-> Q[r]],
           \A r \in Peers : r # p => Q[r] = P[r], PeerOK(Q[p])
    PROVE  PeersOK(Q)
  BY DEF PeersOK

\* The blocks of a chain.
LEMMA PathIs ==
    ASSUME NEW b \in Blocks, NEW c \in Path(b)
    PROVE  c \in Blocks /\ Number[c] <= Number[b]
  <1>1. PICK n \in 0..Number[b] : c = At[b][n]
    BY DEF Path
  <1>2. c \in Blocks /\ Number[c] = n
    BY <1>1, AtBlock
  <1>3. n <= Number[b]
    BY NumberNat, SMTT(60)
  <1>. QED
    BY <1>2, <1>3

\* The headers a peer answers with are blocks.
LEMMA HeadersAre ==
    ASSUME NEW q, PeerOK(q), NEW r, WellFormed(r), r # NoRequest, r.kind # "bodies"
    PROVE  Headers(q, r) \in Seq(Blocks)
  <1>1. q.head \in Blocks /\ \A c \in q.has : c \in Blocks /\ Number[c] <= Number[q.head]
    BY DEF PeerOK
  <1>2. Number[q.head] \in Nat
    BY <1>1, NumberNat
  <1>3. CASE r.kind = "hash"
    <2>1. Headers(q, r) = IF r.block \in q.has THEN <<At[q.head][Number[r.block]]>> ELSE <<>>
      BY <1>3 DEF Headers
    <2>2. ASSUME r.block \in q.has PROVE At[q.head][Number[r.block]] \in Blocks
      <3>1. Number[r.block] <= Number[q.head] /\ Number[r.block] \in Nat
        BY <1>1, <2>2, NumberNat
      <3>2. Number[r.block] \in 0..Number[q.head]
        BY <1>2, <3>1, SMTT(60)
      <3>. QED
        BY <1>1, <3>2, AtBlock
    <2>3. CASE r.block \in q.has
      <3>. DEFINE c == At[q.head][Number[r.block]]
      <3>1. Headers(q, r) = <<c>> /\ c \in Blocks
        BY <2>1, <2>2, <2>3
      <3>. HIDE DEF c
      <3>. QED
        BY <3>1, SMTT(60)
    <2>4. CASE r.block \notin q.has
      <3>1. Headers(q, r) = <<>>
        BY <2>1, <2>4
      <3>. QED
        BY <3>1, SMTT(60)
    <2>. QED
      BY <2>3, <2>4
  <1>4. CASE r.kind = "number"
    <2>. DEFINE top == Number[q.head] - r.from + 1
                k == Max({0, Min({r.count, top})})
    <2>1. Headers(q, r) = [i \in 1..k |-> At[q.head][r.from + i - 1]]
      BY <1>4 DEF Headers
    <2>2. r.from \in 0..MaxNumber /\ r.count \in Numbers
      BY <1>4 DEF WellFormed
    <2>3. r.from \in Nat /\ r.count \in Int /\ top \in Int
      BY <1>2, <2>2, NumberRange, SMTT(60) DEF Numbers
    <2>4. Min({r.count, top}) = IF r.count <= top THEN r.count ELSE top
      BY <2>3, OfTwo
    <2>5. Min({r.count, top}) \in Int /\ Min({r.count, top}) <= top
      BY <2>3, <2>4, SMTT(60)
    <2>. DEFINE m == Min({r.count, top})
    <2>. HIDE DEF m
    <2>6. 0 \in Int /\ m \in Int /\ m <= top
      BY <2>5, SMTT(60) DEF m
    <2>7. Max({0, m}) = IF 0 >= m THEN 0 ELSE m
      BY <2>6, OfTwo
    <2>8. k = IF 0 >= m THEN 0 ELSE m
      BY <2>7 DEF m
    <2>. HIDE DEF k
    <2>9. k \in Nat /\ \A i \in 1..k : r.from + i - 1 \in 0..Number[q.head]
      BY <1>2, <2>3, <2>6, <2>8, SMTT(60)
    <2>10. \A i \in 1..k : At[q.head][r.from + i - 1] \in Blocks
      BY <1>1, <2>9, AtBlock
    <2>. DEFINE f(i) == At[q.head][r.from + i - 1]
    <2>11. Headers(q, r) = [i \in 1..k |-> f(i)] /\ k \in Nat /\ \A i \in 1..k : f(i) \in Blocks
      BY <2>1, <2>9, <2>10
    <2>. HIDE DEF f, top
    <2>12. [i \in 1..k |-> f(i)] \in [1..k -> Blocks]
      BY <2>11
    <2>13. \A h \in [1..k -> Blocks] : h \in Seq(Blocks)
      BY <2>11, SMTT(60)
    <2>. QED
      BY <2>11, <2>12, <2>13
  <1>. QED
    BY <1>3, <1>4 DEF WellFormed

\* A session is lost.
LEMMA DisconnectInv ==
    ASSUME IInv, NEW p \in Peers, Disconnect(p)
    PROVE  IInv'
  <1>1. /\ s' = Gone(s, p) /\ chain' = chain /\ best' = best
        /\ peer' = [peer EXCEPT ![p] = Off(@)]
    BY DEF Disconnect
  <1>2. InvOf(s', chain')
    BY <1>1, GoneIs DEF IInv
  <1>3. PeersOK(peer) /\ PeerOK(peer[p])
    BY DEF IInv, PeersOK
  <1>4. PeerOK(Off(peer[p]))
    BY <1>3 DEF PeerOK, PNames, Off
  <1>5. peer' = [r \in Peers |-> peer'[r]] /\ peer'[p] = Off(peer[p])
        /\ \A r \in Peers : r # p => peer'[r] = peer[r]
    BY <1>1, <1>3 DEF PeersOK
  <1>6. PeersOK(peer')
    BY <1>3, <1>4, <1>5, OnePeer
  <1>. QED
    BY <1>1, <1>2, <1>6 DEF IInv

\* A session begins with a status.
LEMMA ConnectInv ==
    ASSUME IInv, NEW p \in Peers, Connect(p)
    PROVE  IInv'
  <1>1. InvOf(s, chain) /\ best \in chain /\ PeersOK(peer) /\ PeerOK(peer[p])
    BY DEF IInv, PeersOK
  <1>. DEFINE skipped == s.cur = "Waiting" /\ s.wait = 0
              legal == ~skipped /\ LegalPeer(s, Status(p), p)
              P == [Status(p) EXCEPT ![p].legal = legal, ![p].on = skipped \/ legal]
  <1>2. /\ peer' = P /\ s' \in OnStatus(s, P, p) /\ chain' = chain /\ best' = best
    BY DEF Connect
  <1>3. PICK l, on : l = legal /\ on = (skipped \/ legal)
    OBVIOUS
  <1>. DEFINE told == Irreversible(peer[p].head)
              q == [peer[p] EXCEPT !.on = TRUE, !.told = told, !.latest = peer[p].head]
              r == [q EXCEPT !.legal = l, !.on = on]
  <1>4. P = [Status(p) EXCEPT ![p].legal = l, ![p].on = on]
    BY <1>3
  <1>. HIDE DEF P, legal, skipped
  <1>5. /\ Status(p) = [c \in Peers |-> Status(p)[c]] /\ Status(p)[p] = q
        /\ \A c \in Peers : c # p => Status(p)[c] = peer[c]
    BY <1>1 DEF Status, PeersOK
  <1>6. /\ P = [c \in Peers |-> P[c]] /\ P[p] = r
        /\ \A c \in Peers : c # p => P[c] = peer[c]
    <2>. DEFINE S == Status(p)
    <2>. HIDE DEF S
    <2>1. S = [c \in Peers |-> S[c]] /\ S[p] = q /\ \A c \in Peers : c # p => S[c] = peer[c]
      BY <1>5 DEF S
    <2>2. P = [S EXCEPT ![p].legal = l, ![p].on = on]
      BY <1>4 DEF S
    <2>. HIDE DEF q
    <2>. QED
      BY <2>1, <2>2
  <1>. HIDE DEF told
  <1>7. PeerOK(r) /\ r.latest = peer[p].head /\ peer[p].head \in Blocks
    BY <1>1 DEF PeerOK, PNames
  <1>. HIDE DEF r
  <1>8. PeersOK(P)
    BY <1>1, <1>6, <1>7, OnePeer
  <1>9. P[p].latest \in Blocks
    BY <1>6, <1>7
  <1>10. InvOf(s', chain)
    BY <1>1, <1>2, <1>9, OnStatusIs
  <1>. QED
    BY <1>1, <1>2, <1>8, <1>10 DEF IInv

\* A peer answers.
LEMMA ReplyInv ==
    ASSUME IInv, NEW p \in Peers, Reply(p)
    PROVE  IInv'
  <1>1. InvOf(s, chain) /\ best \in chain /\ PeersOK(peer) /\ PeerOK(peer[p])
    BY DEF IInv, PeersOK
  <1>. DEFINE u == [s EXCEPT !.req[p] = NoRequest]
              r == s.req[p]
  <1>2. /\ r # NoRequest /\ chain' = chain /\ best' = best /\ peer' = peer
        /\ s' \in IF r.kind = "bodies" THEN OnBodies(u, peer, p, r.blocks \cap peer[p].has)
                  ELSE OnHeaders(u, peer, p, Headers(peer[p], r))
    BY DEF Reply
  <1>3. InvOf(u, chain)
    BY <1>1, AskIs, WellFormedIs
  <1>4. WellFormed(r)
    BY <1>1 DEF InvOf, Core, RequestsOK
  <1>. HIDE DEF u, r
  <1>5. CASE r.kind = "bodies"
    <2>1. s' \in OnBodies(u, peer, p, r.blocks \cap peer[p].has)
      BY <1>2, <1>5
    <2>2. InvOf(s', chain)
      BY <1>3, <2>1, OnBodiesIs
    <2>. QED
      BY <1>1, <1>2, <2>2 DEF IInv
  <1>6. CASE r.kind # "bodies"
    <2>1. s' \in OnHeaders(u, peer, p, Headers(peer[p], r))
      BY <1>2, <1>6
    <2>2. Headers(peer[p], r) \in Seq(Blocks)
      BY <1>1, <1>2, <1>4, <1>6, HeadersAre
    <2>3. InvOf(s', chain)
      BY <1>3, <2>1, <2>2, OnHeadersIs
    <2>. QED
      BY <1>1, <1>2, <2>3 DEF IInv
  <1>. QED
    BY <1>5, <1>6

\* A peer announces a block.
LEMMA NewBlockInv ==
    ASSUME IInv, NEW p \in Peers, NEW b \in Blocks, NewBlock(p, b)
    PROVE  IInv'
  <1>1. InvOf(s, chain) /\ best \in chain /\ PeersOK(peer) /\ PeerOK(peer[p])
    BY DEF IInv, PeersOK
  <1>. DEFINE irr == Irreversible(b)
              path == Path(b)
              P == [peer EXCEPT ![p].head = b, ![p].has = @ \cup Path(b), ![p].latest = b,
                                ![p].told = Irreversible(b)]
              gone == Disabled(s, P, p, b)
              q == [peer[p] EXCEPT !.head = b, !.has = @ \cup path, !.latest = b, !.told = irr]
  <1>2. /\ b = peer[p].head \/ Number[b] > Number[peer[p].head]
        /\ peer' = IF gone THEN [P EXCEPT ![p] = Off(@)] ELSE P
        /\ \E u \in OnNewBlock(s, P, p, b) : s' = IF gone THEN Gone(u, p) ELSE u
        /\ chain' = chain /\ best' = best
    BY DEF NewBlock
  <1>3. P = [peer EXCEPT ![p].head = b, ![p].has = @ \cup path, ![p].latest = b, ![p].told = irr]
    OBVIOUS
  <1>4. \A c \in path : c \in Blocks /\ Number[c] <= Number[b]
    BY PathIs
  <1>. HIDE DEF gone, P, irr, path
  <1>5. /\ P = [c \in Peers |-> P[c]] /\ P[p] = q
        /\ \A c \in Peers : c # p => P[c] = peer[c]
    BY <1>1, <1>3 DEF PeersOK
  <1>6. ASSUME NEW c \in peer[p].has PROVE c \in Blocks /\ Number[c] <= Number[b]
    <2>1. c \in Blocks /\ Number[c] <= Number[peer[p].head] /\ peer[p].head \in Blocks
      BY <1>1 DEF PeerOK
    <2>2. Number[c] \in Nat /\ Number[peer[p].head] \in Nat /\ Number[b] \in Nat
      BY <2>1, NumberNat
    <2>3. Number[b] >= Number[peer[p].head]
      BY <1>2, <2>2, SMTT(60)
    <2>4. Number[c] <= Number[b]
      BY <2>1, <2>2, <2>3, SMTT(60)
    <2>. QED
      BY <2>1, <2>4
  <1>7. q = [f \in PNames |-> q[f]] /\ q.head = b /\ q.latest = b /\ q.has = peer[p].has \cup path
    BY <1>1 DEF PeerOK, PNames
  <1>. HIDE DEF q
  <1>8. PeerOK(q) /\ PeerOK(Off(q))
    <2>1. PeerOK(q)
      BY <1>4, <1>6, <1>7 DEF PeerOK
    <2>2. PeerOK(Off(q))
      BY <2>1 DEF PeerOK, PNames, Off
    <2>. QED
      BY <2>1, <2>2
  <1>9. PeersOK(P)
    BY <1>1, <1>5, <1>8, OnePeer
  <1>10. PeersOK([P EXCEPT ![p] = Off(@)])
    <2>. DEFINE Q == [P EXCEPT ![p] = Off(@)]
    <2>1. Q = [c \in Peers |-> Q[c]] /\ Q[p] = Off(q) /\ \A c \in Peers : c # p => Q[c] = P[c]
      BY <1>5
    <2>. HIDE DEF Q
    <2>2. PeersOK(Q)
      BY <1>8, <1>9, <2>1, OnePeer
    <2>. QED
      BY <2>2 DEF Q
  <1>11. P[p].latest \in Blocks
    BY <1>5, <1>7
  <1>12. PICK u \in OnNewBlock(s, P, p, b) : s' = IF gone THEN Gone(u, p) ELSE u
    BY <1>2
  <1>13. InvOf(u, chain)
    BY <1>1, <1>11, OnNewBlockIs
  <1>14. InvOf(Gone(u, p), chain)
    BY <1>13, GoneIs
  <1>15. InvOf(s', chain) /\ PeersOK(peer')
    BY <1>2, <1>9, <1>10, <1>12, <1>13, <1>14
  <1>. QED
    BY <1>1, <1>2, <1>15 DEF IInv

\* The irreversible block is in range.
LEMMA IrreversibleIs ==
    ASSUME NEW b \in Blocks
    PROVE  Irreversible(b) \in 0..MaxNumber
  <1>. DEFINE d == Number[b] - Behind
  <1>1. Number[b] \in 0..MaxNumber /\ Behind \in Nat /\ MaxNumber \in Nat
    BY NumberRange, LimitsAssumption
  <1>2. 0 \in Int /\ d \in Int
    BY <1>1, SMTT(60)
  <1>3. Max({0, d}) = IF 0 >= d THEN 0 ELSE d
    BY <1>2, OfTwo
  <1>4. Irreversible(b) = IF 0 >= d THEN 0 ELSE d
    BY <1>3 DEF Irreversible
  <1>. QED
    BY <1>1, <1>2, <1>4, SMTT(60)

\* A ready block moves to the chain.
LEMMA ImportBlockInv ==
    ASSUME IInv, NEW b \in Blocks, ImportBlock(b)
    PROVE  IInv'
  <1>1. InvOf(s, chain) /\ best \in chain /\ PeersOK(peer)
    BY DEF IInv
  <1>2. State(s) /\ Core(s, chain) /\ QueueOK(s.ready, s.unknown, chain)
    BY <1>1 DEF InvOf, Core
  <1>. DEFINE n == Number[b]
              irr == Irreversible(best')
              h == At[best'][irr]
              new == IF n > s.impN THEN [s EXCEPT !.impN = n, !.impH = b] ELSE s
              told == IF irr > s.irr THEN [new EXCEPT !.irr = irr, !.impH = h] ELSE new
  <1>3. /\ b \in s.ready /\ chain' = chain \cup {b} /\ peer' = peer
        /\ best' = (IF Number[b] > Number[best] THEN b ELSE best)
        /\ s' = [told EXCEPT !.ready = @ \ {b}]
    BY DEF ImportBlock
  <1>4. best' \in chain' /\ best' \in Blocks
    BY <1>1, <1>2, <1>3 DEF QueueOK
  <1>5. irr \in 0..MaxNumber /\ n \in 0..MaxNumber
    BY <1>4, IrreversibleIs, NumberRange
  <1>. HIDE DEF irr, h, n
  <1>6. /\ State(new) /\ Beside(s, new) /\ new.impN \in {s.impN, n} /\ new.irr = s.irr
        /\ new.cur = s.cur /\ new.lock = s.lock /\ new.mixed = s.mixed
        /\ new.startN = s.startN /\ new.startH = s.startH /\ new.expN = s.expN /\ new.expH = s.expH
    BY <1>2 DEF State, Names, Beside
  <1>7. /\ new.headers = s.headers /\ new.bodies = s.bodies /\ new.ids = s.ids /\ new.cut = s.cut
    BY <1>2 DEF State, Names
  <1>. HIDE DEF new
  <1>8. /\ State(told) /\ Beside(new, told) /\ told.impN = new.impN /\ told.irr \in {new.irr, irr}
        /\ told.cur = new.cur /\ told.lock = new.lock /\ told.mixed = new.mixed
        /\ told.startN = new.startN /\ told.startH = new.startH /\ told.expN = new.expN
        /\ told.expH = new.expH
    BY <1>6 DEF State, Names, Beside
  <1>9. /\ told.headers = new.headers /\ told.bodies = new.bodies /\ told.ids = new.ids
        /\ told.cut = new.cut
    BY <1>6 DEF State, Names
  <1>. HIDE DEF told
  <1>. DEFINE w == [told EXCEPT !.ready = @ \ {b}]
  <1>10. /\ State(w) /\ w.impN = told.impN /\ w.irr = told.irr
         /\ w.ready = told.ready \ {b} /\ w.unknown = told.unknown
         /\ w.dlH = told.dlH /\ w.dlB = told.dlB /\ w.req = told.req
         /\ w.cur = told.cur /\ w.lock = told.lock /\ w.mixed = told.mixed
         /\ w.startN = told.startN /\ w.startH = told.startH /\ w.expN = told.expN
         /\ w.expH = told.expH
    BY <1>8 DEF State, Names
  <1>11. /\ w.headers = told.headers /\ w.bodies = told.bodies /\ w.ids = told.ids
         /\ w.cut = told.cut
    BY <1>8 DEF State, Names
  <1>. HIDE DEF w
  <1>12. w.ready = s.ready \ {b} /\ w.unknown = s.unknown /\ w.dlH = s.dlH /\ w.dlB = s.dlB
         /\ w.req = s.req
    BY <1>6, <1>8, <1>10 DEF Beside
  <1>13. w.impN \in 0..MaxNumber /\ w.irr \in 0..MaxNumber
    BY <1>2, <1>5, <1>6, <1>8, <1>10 DEF Core
  <1>14. /\ w.cur = s.cur /\ w.lock = s.lock /\ w.mixed = s.mixed
         /\ w.startN = s.startN /\ w.startH = s.startH /\ w.expN = s.expN /\ w.expH = s.expH
         /\ w.headers = s.headers /\ w.bodies = s.bodies /\ w.ids = s.ids /\ w.cut = s.cut
    BY <1>6, <1>7, <1>8, <1>9, <1>10, <1>11
  <1>. DEFINE ch == chain \cup {b}
  <1>15. QueueOK(s.ready \ {b}, s.unknown, ch)
    BY <1>2, <1>3 DEF QueueOK
  <1>16. w.ready \cup ch = s.ready \cup chain
    BY <1>3, <1>12
  <1>. HIDE DEF ch
  <1>17. Core(w, ch)
    BY <1>2, <1>10, <1>12, <1>13, <1>14, <1>15 DEF Core
  <1>18. s.cur \in {"Idle", "Waiting"} => Clean(w)
    BY <1>1, <1>12, <1>14 DEF InvOf, Clean
  <1>19. s.cur = "FindingCommonBlock" => Finding(w)
    BY <1>1, <1>14 DEF InvOf, Finding
  <1>20. s.cur = "SyncBlocks" => Loading(w, ch)
    BY <1>1, <1>12, <1>14, <1>16 DEF InvOf, Loading
  <1>21. InvOf(w, ch)
    BY <1>1, <1>14, <1>17, <1>18, <1>19, <1>20 DEF InvOf
  <1>22. InvOf(s', chain')
    BY <1>3, <1>21 DEF w, ch
  <1>. QED
    BY <1>1, <1>3, <1>4, <1>22 DEF IInv

\* Time passes.
LEMMA ElapseInv ==
    ASSUME IInv, Elapse
    PROVE  IInv'
  <1>1. InvOf(s, chain) /\ State(s)
    BY DEF IInv, InvOf, Core
  <1>2. PICK a, c, d : s' = [s EXCEPT !.quiet = a, !.silentF = c, !.silentS = 1, !.wait = d]
    BY DEF Elapse
  <1>3. State(s') /\ Alike(s, s') /\ Beside(s, s')
    BY <1>1, <1>2 DEF State, Names, Alike, Beside
  <1>4. InvOf(s', chain)
    BY <1>1, <1>3, Ticks
  <1>. QED
    BY <1>4 DEF IInv, Elapse

\* At the start.
LEMMA InitInv == Init => IInv
  <1>. SUFFICES ASSUME Init PROVE IInv
    OBVIOUS
  <1>1. State(s) /\ s.cur = "Idle" /\ ~s.lock /\ s.impN = 0 /\ s.irr = 0 /\ s.startN = 0 /\ s.expH = None
    BY DEF Init, State, Names
  <1>2. s.headers = Empties /\ s.bodies = Empties /\ s.ids = Empties /\ s.dlH = {} /\ s.dlB = {}
        /\ s.cut = {} /\ s.ready = {} /\ s.unknown = {} /\ s.req = [p \in Peers |-> NoRequest]
    BY DEF Init
  <1>3. 0 \in Blocks /\ 0 \in 0..MaxNumber
    BY TreeAssumption, NumberRange, SMTT(60) DEF Blocks
  <1>4. DOMAIN Empties = {}
    BY DEF Empties
  <1>5. Clean(s)
    BY <1>2, <1>4 DEF Clean
  <1>6. QueueOK({}, {}, {0})
    BY <1>3 DEF QueueOK
  <1>7. RequestsOK(s.req)
    BY <1>2, WellFormedIs DEF RequestsOK
  <1>8. HeadersOK(Empties) /\ BodiesOK(Empties, Empties, {}) /\ IdsOK(Empties)
    BY <1>4 DEF HeadersOK, BodiesOK, IdsOK
  <1>9. chain = {0} /\ best = 0 /\ peer = [p \in Peers |-> NewPeer(Heads[p])]
    BY DEF Init
  <1>10. Core(s, chain)
    BY <1>1, <1>2, <1>3, <1>6, <1>7, <1>8, <1>9 DEF Core
  <1>11. InvOf(s, chain)
    BY <1>1, <1>5, <1>10, CleanIdle
  <1>12. ASSUME NEW p \in Peers PROVE PeerOK(peer[p])
    <2>1. Heads[p] \in Blocks
      BY TreeAssumption
    <2>2. \A c \in Path(Heads[p]) : c \in Blocks /\ Number[c] <= Number[Heads[p]]
      BY <2>1, PathIs
    <2>. DEFINE q == NewPeer(Heads[p])
    <2>3. q = [f \in PNames |-> q[f]] /\ q.head = Heads[p] /\ q.has = Path(Heads[p])
      BY DEF NewPeer, PNames
    <2>4. peer[p] = q
      BY <1>9
    <2>. HIDE DEF q
    <2>. QED
      BY <2>1, <2>2, <2>3, <2>4 DEF PeerOK
  <1>13. PeersOK(peer)
    BY <1>9, <1>12 DEF PeersOK
  <1>. QED
    BY <1>9, <1>11, <1>13 DEF IInv

\* Every step keeps the invariant.
LEMMA NextInv == IInv /\ [Next]_vars => IInv'
  <1>. SUFFICES ASSUME IInv, [Next]_vars PROVE IInv'
    OBVIOUS
  <1>1. ASSUME NEW p \in Peers, Connect(p) PROVE IInv'
    BY <1>1, ConnectInv
  <1>2. ASSUME NEW p \in Peers, Disconnect(p) PROVE IInv'
    BY <1>2, DisconnectInv
  <1>3. ASSUME NEW p \in Peers, Reply(p) PROVE IInv'
    BY <1>3, ReplyInv
  <1>4. ASSUME NEW p \in Peers, NEW b \in Blocks, NewBlock(p, b) PROVE IInv'
    BY <1>4, NewBlockInv
  <1>5. ASSUME NEW b \in Blocks, ImportBlock(b) PROVE IInv'
    BY <1>5, ImportBlockInv
  <1>6. CASE Elapse
    BY <1>6, ElapseInv
  <1>7. CASE UNCHANGED vars
    BY <1>7 DEF IInv, vars
  <1>. QED
    BY <1>1, <1>2, <1>3, <1>4, <1>5, <1>6, <1>7 DEF Next

\* The invariant holds in every state of every behaviour.
LEMMA Invariance == Spec => []IInv
  BY InitInv, NextInv, PTL DEF Spec

-----------------------------------------------------------------------------
(* The theorems.                                                           *)

\* For every tree, every number of peers and all limits, the state of the
\* synchronisation and its requests have their types.
THEOREM SyncTypeCorrect == Spec => []TypeOK
  <1>1. IInv => TypeOK
    <2>. SUFFICES ASSUME IInv PROVE TypeOK
      OBVIOUS
    <2>1. InvOf(s, chain) /\ Core(s, chain) /\ best \in chain
      BY DEF IInv, InvOf
    <2>2. DOMAIN s.headers \cup DOMAIN s.bodies \cup s.dlH \cup s.dlB \subseteq Numbers
      BY <2>1 DEF Core, HeadersOK, BodiesOK
    <2>3. s.ready \cup s.unknown \subseteq Blocks \ chain /\ s.ready \cap s.unknown = {}
      BY <2>1 DEF Core, QueueOK
    <2>4. \A p \in Peers : WellFormed(s.req[p])
      BY <2>1 DEF Core, RequestsOK
    <2>5. s.startN \in 0..MaxNumber /\ s.cur \in {"Idle", "Waiting", "FindingCommonBlock", "SyncBlocks"}
      BY <2>1 DEF Core, InvOf
    <2>. QED
      BY <2>1, <2>2, <2>3, <2>4, <2>5 DEF TypeOK
  <1>. QED
    BY <1>1, Invariance, PTL

\* switchState and resetSync leave nothing of a download behind: in Idle and in
\* Waiting there are no headers, bodies, ids or marks, and in Idle production is not
\* locked.
THEOREM SyncIdleIsClean == Spec => []IdleIsClean
  <1>1. IInv => IdleIsClean
    BY DEF IInv, InvOf, Clean, IdleIsClean
  <1>. QED
    BY <1>1, Invariance, PTL

\* While blocks are downloaded, the start block is one the node has, at its number.
THEOREM SyncStartIsKnown == Spec => []StartIsKnown
  <1>1. IInv => StartIsKnown
    BY DEF IInv, InvOf, Loading, StartIsKnown
  <1>. QED
    BY <1>1, Invariance, PTL

\* A body is kept under the number of its header, unless its own header was cut off.
THEOREM SyncBodyOfItsHeader == Spec => []BodyOfItsHeader
  <1>1. IInv => BodyOfItsHeader
    BY DEF IInv, InvOf, Core, BodiesOK, BodyOfItsHeader
  <1>. QED
    BY <1>1, Invariance, PTL

\* While blocks are downloaded, the headers kept are above the start block.
THEOREM SyncHeadersAboveStart == Spec => []HeadersAboveStart
  <1>1. IInv => HeadersAboveStart
    BY DEF IInv, InvOf, Loading, Above, HeadersAboveStart
  <1>. QED
    BY <1>1, Invariance, PTL
=============================================================================
