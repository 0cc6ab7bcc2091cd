---------------------------- MODULE HeaderCache ----------------------------
(***************************************************************************)
(* The cache of block hashes by number, m_blockHashes, read by any thread  *)
(* through queryExtras while the client thread switches forks.  A reader   *)
(* looks in the cache under a read lock, then reads the database under no  *)
(* lock, then inserts what it read under a write lock.  The importer       *)
(* clears the numbers of the abandoned branch before it pushes the new one *)
(* and again after it has written it.                                      *)
(*                                                                         *)
(* A hash is its number and the version of the branch it was written with. *)
(***************************************************************************)
EXTENDS Integers, FiniteSets

CONSTANTS Readers,     \* threads that call numberHash
          NoHash,      \* no entry
          MaxCached,   \* bound: block number
          MaxVersion   \* bound: imports

ASSUME BoundsAssumption == MaxCached \in Nat \ {0} /\ MaxVersion \in Nat
ASSUME NoHashAssumption == NoHash \notin Nat

VARIABLES disk,      \* ExtraBlockHash entries in m_extrasDB
          cache,     \* m_blockHashes
          last,      \* m_lastBlockNumber
          version,   \* the newest branch
          pc,        \* where insertBlockAndExtras is
          fork,      \* number of the common block of the switch under way
          reader,    \* per thread: where queryExtras is
          spanned    \* history: a read was under way across a database write

cacheVars == <<disk, cache, last, version, pc, fork, reader, spanned>>
importVars == <<disk, last, version, pc, fork>>

Cached == 1..MaxCached
Hashes == (0..MaxVersion) \cup {NoHash}
Nobody == [at |-> "out", number |-> 1, got |-> NoHash]

CacheInit ==
    /\ disk = [n \in Cached |-> NoHash]
    /\ cache = [n \in Cached |-> NoHash]
    /\ last = 0
    /\ version = 0
    /\ pc = "idle"
    /\ fork = 0
    /\ reader = [r \in Readers |-> Nobody]
    /\ spanned = FALSE
-----------------------------------------------------------------------------
(* queryExtras.                                                            *)

\* The lookup: a hit ends the call, a miss goes on to the database.
Find(r, n) ==
    /\ reader[r].at = "out"
    /\ reader' = IF cache[n] # NoHash THEN reader
                 ELSE [reader EXCEPT ![r] = [at |-> "get", number |-> n, got |-> NoHash]]
    /\ UNCHANGED <<importVars, cache, spanned>>

\* m_extrasDB->Get; what is not found is not cached.
Get(r) ==
    /\ reader[r].at = "get"
    /\ LET n == reader[r].number
       IN  reader' = [reader EXCEPT ![r] =
               IF disk[n] = NoHash THEN Nobody
               ELSE [at |-> "insert", number |-> n, got |-> disk[n]]]
    /\ UNCHANGED <<importVars, cache, spanned>>

\* _m.insert, which keeps an entry that is already there.
Insert(r) ==
    /\ reader[r].at = "insert"
    /\ cache' = [cache EXCEPT ![reader[r].number] =
           IF @ = NoHash THEN reader[r].got ELSE @]
    /\ reader' = [reader EXCEPT ![r] = Nobody]
    /\ UNCHANGED <<importVars, spanned>>
-----------------------------------------------------------------------------
(* insertBlockAndExtras.                                                   *)

\* clearCachesDuringChainReversion.
ClearedFrom(n) == [i \in Cached |-> IF i >= n /\ i < last + 1 THEN NoHash ELSE cache[i]]

\* A block on the best chain, or on a branch that leaves it at common and is
\* now longer.
StartImport(common) ==
    /\ pc = "idle"
    /\ last < MaxCached /\ version < MaxVersion
    /\ common \in 0..last
    /\ fork' = common
    /\ pc' = "push"
    /\ cache' = IF common # last THEN ClearedFrom(common + 1) ELSE cache
    /\ UNCHANGED <<disk, last, version, reader, spanned>>

\* The pushes fail: the caches are cleared once more and nothing is written.
Abandon ==
    /\ pc = "push"
    /\ cache' = ClearedFrom(fork + 1)
    /\ pc' = "idle"
    /\ UNCHANGED <<disk, last, version, fork, reader, spanned>>

\* m_extrasDB->Write of the whole batch.
Write ==
    /\ pc = "push"
    /\ version' = version + 1
    /\ disk' = [n \in Cached |->
           IF n > fork /\ n <= last + 1 THEN version' ELSE disk[n]]
    /\ spanned' = (spanned \/ \E r \in Readers : reader[r].at = "insert")
    /\ pc' = "written"
    /\ UNCHANGED <<cache, last, fork, reader>>

\* Variant: the caches are not cleared a second time.
Finish_no_clear ==
    /\ pc = "written"
    /\ last' = last + 1
    /\ pc' = "idle"
    /\ UNCHANGED <<cache, disk, version, fork, reader, spanned>>

\* The second clear, if the block was on another branch, and the new head.
Finish ==
    /\ pc = "written"
    /\ cache' = IF fork # last THEN ClearedFrom(fork + 1) ELSE cache
    /\ last' = last + 1
    /\ pc' = "idle"
    /\ UNCHANGED <<disk, version, fork, reader, spanned>>

CacheNext ==
    \/ \E r \in Readers : (\E n \in Cached : Find(r, n)) \/ Get(r) \/ Insert(r)
    \/ \E common \in 0..MaxCached : StartImport(common)
    \/ Abandon \/ Write \/ Finish

CacheSpec == CacheInit /\ [][CacheNext]_cacheVars
-----------------------------------------------------------------------------
(* Properties.                                                             *)

\* The variables have their types.
CacheTypeOK ==
    /\ disk \in [Cached -> Hashes] /\ cache \in [Cached -> Hashes]
    /\ last \in 0..MaxCached /\ version \in 0..MaxVersion
    /\ pc \in {"idle", "push", "written"} /\ fork \in 0..MaxCached
    /\ reader \in [Readers -> [at : {"out", "get", "insert"},
                               number : Cached, got : Hashes]]
    /\ spanned \in BOOLEAN

Fresh(n) == cache[n] \in {NoHash, disk[n]}

\* Reads that do not have a database write between their Get and their insert
\* never leave a hash of the abandoned branch in the cache, however they fall
\* between the two clears.
CacheIsFresh == pc = "idle" /\ ~spanned => \A n \in Cached : Fresh(n)

\* The second clear is there because "during the switch outside nodes still get
\* headers, which pollutes the cache data just erased" (BlockChain.cpp:1209): once
\* the import is over the cache holds nothing of the abandoned branch.
PollutionIsCleared == pc = "idle" => \A n \in Cached : Fresh(n)
=============================================================================
