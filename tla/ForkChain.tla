----------------------------- MODULE ForkChain -----------------------------
(***************************************************************************)
(* Importing blocks: BlockChain::insertBlockAndExtras drives the producer  *)
(* database of chain_controller along the best chain, reverting it to the  *)
(* common ancestor and pushing the other branch when a longer one arrives, *)
(* and going back when a block of that branch fails.                       *)
(*                                                                         *)
(* A hash names a block and all its ancestors, so a block is the sequence  *)
(* of headers from the genesis block's child down to itself: the genesis   *)
(* block is <<>>, the number is the length and the parent is the front.    *)
(* A header is its slot time and the way push_block fails on it:           *)
(*   "none"  it does not;                                                  *)
(*   "early" before update_last_irreversible_block (a bad version or vote  *)
(*           record);                                                      *)
(*   "late"  after it, in process_hardforks (UnknownHardfork).             *)
(* The producer is the one whose turn it is on the block's own branch.     *)
(*                                                                         *)
(* The tables of the producer database are one value `db' here, and their  *)
(* undo histories one stack of full copies: ProducerDatabaseProofs shows   *)
(* that each table's history behaves so.                                   *)
(***************************************************************************)
EXTENDS Integers, Sequences, FiniteSets, FiniteSetsExt

\* As in SequencesExt, which would put all of its context into every proof.
Last(s) == s[Len(s)]
Front(s) == SubSeq(s, 1, Len(s) - 1)
IsPrefix(s, t) == Len(s) <= Len(t) /\ SubSeq(s, 1, Len(s)) = SubSeq(t, 1, Len(s))

CONSTANTS Producers,        \* accounts that have a producer_object
          Empty,            \* AccountName(): a seat nobody holds
          InitialRound,     \* chainParams().initialProducers, by seat
          NextRound(_),     \* the seats calculate_next_round(b) deals
          Threshold,        \* IrreversibleThresholdPercent, out of 10000
          Headers,          \* headers offered to the node
          NoHash,           \* h256()
          MaxNumber,        \* bound: block number
          MaxGap,           \* bound: slots between a block and its parent
          MaxBlocks         \* bound: blocks stored

Seats == Len(InitialRound)  \* config::TotalProducersPerRound

ASSUME ProducersAssumption == Producers # {} /\ Empty \notin Producers
ASSUME RoundAssumption ==
    /\ InitialRound \in Seq(Producers \cup {Empty})
    /\ \E i \in 1..Seats : InitialRound[i] # Empty
ASSUME ThresholdAssumption == Threshold \in Nat /\ 1 <= Threshold /\ Threshold <= 10000
ASSUME HeadersAssumption ==
    Headers \subseteq [time : Nat \ {0}, fault : {"none", "early", "late"}]

\* calculate_next_round leaves somebody in office (RoundIsPlayable of ProducerRounds).
ASSUME NextRoundAssumption ==
    /\ MaxNumber \in Nat
    /\ \A n \in {m \in 1..MaxNumber : m % Seats = 0} : \A b \in [1..n -> Headers] :
           /\ NextRound(b) \in [1..Seats -> Producers \cup {Empty}]
           /\ \E i \in 1..Seats : NextRound(b)[i] # Empty

Genesis == <<>>
Ancestor(b, n) == SubSeq(b, 1, n)
Time(b) == IF b = Genesis THEN 0 ELSE Last(b).time
Fault(b) == Last(b).fault
-----------------------------------------------------------------------------
(* The part of the producer database that decides forks: the dynamic and   *)
(* global property objects and each producer's last_confirmed_block_num.   *)

GenesisDb == [head |-> Genesis, aslot |-> 0, active |-> InitialRound,
              confirmed |-> [x \in Producers |-> 0], lib |-> 0]

get_slot_at_time(d, t) == IF t < Time(d.head) + 1 THEN 0 ELSE t - Time(d.head)

get_scheduled_producer(d, slot) == d.active[((d.aslot + slot) % Seats) + 1]

\* Who is on turn in b's slot.
OnTurn(d, b) == get_scheduled_producer(d, get_slot_at_time(d, Time(b)))

update_global_dynamic_data(d, b) ==
    d.aslot + IF d.head = Genesis THEN 1 ELSE get_slot_at_time(d, Time(b))

update_global_properties(d, b) ==
    IF Len(b) % Seats = 0 THEN NextRound(b) ELSE d.active

\* Variant: the offset is taken from the threshold, not from its complement.
NewIrreversible_from_top(active, confirmed) ==
    LET held == {i \in 1..Seats : active[i] # Empty}
        offset == (Cardinality(held) * Threshold) \div 10000
        UpTo(n) == {i \in held : confirmed[active[i]] <= n}
    IN  Min({n \in Range(confirmed) : Cardinality(UpTo(n)) > offset})

\* std::nth_element over the last confirmed numbers of the held seats.
NewIrreversible(active, confirmed) ==
    LET held == {i \in 1..Seats : active[i] # Empty}
        offset == (Cardinality(held) * (10000 - Threshold)) \div 10000
        UpTo(n) == {i \in held : confirmed[active[i]] <= n}
    IN  Min({n \in Range(confirmed) : Cardinality(UpTo(n)) > offset})

\* The producer database after apply_block(b), and the number it commits.
apply_block(d, b) ==
    LET active == update_global_properties(d, b)
        confirmed == [d.confirmed EXCEPT ![OnTurn(d, b)] = Len(b)]
        new == NewIrreversible(active, confirmed)
    IN  [db |-> [head |-> b, aslot |-> update_global_dynamic_data(d, b),
                 active |-> active, confirmed |-> confirmed,
                 lib |-> IF new > d.lib THEN new ELSE d.lib],
         new |-> new]
-----------------------------------------------------------------------------
VARIABLES known,      \* blocks stored, with their details
          last,       \* m_lastBlockHash, "best"
          numHash,    \* ExtraBlockHash: number -> hash
          pc,         \* where insertBlockAndExtras is
          target,     \* the block being imported
          db, stack, revision,
          mlib, mhash,\* _last_irreversible_block_num, _last_irreversible_block_hash
          qlib,       \* the lowest mlib the block queue has seen since the start
          ledger      \* history: the database each stored block stands for

chainVars == <<known, last, numHash, ledger>>
dbVars == <<db, stack, revision>>
libVars == <<mlib, mhash, qlib>>
vars == <<chainVars, pc, target, dbVars, libVars>>

CommonAncestor(a, b) ==
    Ancestor(a, Max({n \in 0..Len(a) : n <= Len(b) /\ Ancestor(a, n) = Ancestor(b, n)}))
common == CommonAncestor(last, target)

numberHash(n) ==
    IF n = 0 THEN Genesis ELSE IF n \in DOMAIN numHash THEN numHash[n] ELSE NoHash

Init ==
    /\ known = {Genesis}
    /\ last = Genesis
    /\ numHash = <<>>
    /\ pc = "idle"
    /\ target = Genesis
    /\ db = GenesisDb
    /\ stack = <<>>
    /\ revision = 0
    /\ mlib = 0 /\ qlib = 0
    /\ mhash = Genesis
    /\ ledger = [b \in {Genesis} |-> GenesisDb]
-----------------------------------------------------------------------------
(* The database after b and its ancestors, and nothing else, were applied,  *)
(* for a stored block or a child of one.                                   *)

Replay(b) ==
    IF b \in known THEN ledger[b] ELSE apply_block(ledger[Front(b)], b).db

\* The account that signs b is the one on turn on b's own branch.
Producer(b) == OnTurn(ledger[Front(b)], b)

\* validate_block_header and get_producer find that account on turn.
validate_block_header(b) ==
    /\ OnTurn(db, b) = Producer(b)
    /\ Producer(b) \in Producers
-----------------------------------------------------------------------------
(* push_block.  A session that ends without push(), and databaseReversion, *)
(* call undo, which does nothing on an empty stack.                        *)

\* Variant: commit is never called.
Committed_never(s, n) == s

\* commit pops sessions from the front while their revision is not above n.
Committed(s, n) ==
    LET popped == Max({k \in 0..Len(s) : \A i \in 1..k : s[i].revision <= n})
    IN  SubSeq(s, popped + 1, Len(s))

\* The undo history once update_last_irreversible_block has run.
AppliedStack(new) ==
    Committed(Append(stack, [revision |-> revision + 1, db |-> db]), new)

RaiseIrreversible(new) ==
    IF new > db.lib
    THEN mlib' = new /\ mhash' = numberHash(new) /\ qlib' = Min({qlib, new})
    ELSE UNCHANGED libVars

PushSucceeds(b) ==
    /\ validate_block_header(b) /\ Fault(b) = "none"
    /\ LET applied == apply_block(db, b)
       IN  /\ db' = applied.db
           /\ stack' = AppliedStack(applied.new)
           /\ revision' = revision + 1
           /\ RaiseIrreversible(applied.new)

\* push_block throws before anything is committed: the session is undone.
FailsEarly(b) ==
    /\ ~validate_block_header(b) \/ Fault(b) = "early"
    /\ UNCHANGED <<dbVars, libVars>>

\* push_block throws after the commit: the session's own undo_state may be
\* gone, and then undo leaves the block applied.
FailsLate(b) ==
    /\ validate_block_header(b) /\ Fault(b) = "late"
    /\ LET applied == apply_block(db, b)
           left == AppliedStack(applied.new)
       IN  /\ IF left = <<>>
              THEN /\ db' = applied.db
                   /\ stack' = left
                   /\ revision' = revision + 1
              ELSE stack' = Front(left) /\ UNCHANGED <<db, revision>>
           /\ RaiseIrreversible(applied.new)

\* Variant: undo leaves the session on the stack.
undo_keeps_session ==
    IF stack = <<>> THEN UNCHANGED dbVars
    ELSE /\ db' = Last(stack).db
         /\ UNCHANGED <<stack, revision>>

\* Variant: undo does not restore last_irreversible_block_num.
undo_keeps_lib ==
    IF stack = <<>> THEN UNCHANGED dbVars
    ELSE /\ db' = [Last(stack).db EXCEPT !.lib = db.lib]
         /\ stack' = Front(stack)
         /\ revision' = revision - 1

undo ==
    IF stack = <<>> THEN UNCHANGED dbVars
    ELSE /\ db' = Last(stack).db
         /\ stack' = Front(stack)
         /\ revision' = revision - 1
-----------------------------------------------------------------------------
(* insertBlockAndExtras.                                                   *)

\* A block reaches the import when its parent is known.  The queue compared its
\* number with mlib when the block was queued and nobody does so again: any
\* block above the lowest mlib of this process may still be waiting there.
Offered(b) ==
    /\ pc = "idle"
    /\ b \notin known /\ Front(b) \in known
    /\ ~(Len(b) <= qlib)
    /\ Len(b) <= MaxNumber
    /\ Time(Front(b)) < Time(b) /\ Time(b) <= Time(Front(b)) + MaxGap
    /\ Cardinality(known) < MaxBlocks

\* Not longer than the best chain: stored and nothing else.
ImportNotBest(b) ==
    /\ Offered(b)
    /\ ~(Len(last) < Len(b))
    /\ known' = known \cup {b}
    /\ ledger' = [x \in known' |-> Replay(x)]
    /\ UNCHANGED <<last, numHash, pc, target, dbVars, libVars>>

\* Longer: treeRoute finds the common ancestor, or throws
\* ExceedIrreversibleBlock, which drops the block.
ImportBest(b) ==
    /\ Offered(b)
    /\ Len(last) < Len(b)
    /\ target' = b
    /\ Len(CommonAncestor(last, b)) >= db.lib
    /\ pc' = IF CommonAncestor(last, b) = last THEN "push" ELSE "revert"
    /\ UNCHANGED <<chainVars, dbVars, libVars>>

\* One round of databaseReversion's loop on the way to the new branch.
Revert ==
    /\ pc = "revert"
    /\ IF Len(db.head) # Len(common)
       THEN undo /\ pc' = pc
       ELSE pc' = "push" /\ UNCHANGED dbVars
    /\ UNCHANGED <<chainVars, target, libVars>>

NextTarget == Ancestor(target, Len(db.head) + 1)

\* Variant: only the new head's number is indexed.
IndexedBranch_tip ==
    [n \in 1..Len(target) |-> IF n = Len(target) THEN target ELSE numHash[n]]

\* ExtraBlockHash after the batch: every block pushed is indexed.
IndexedBranch ==
    [n \in 1..Len(target) |->
        IF n > Len(common) THEN Ancestor(target, n) ELSE numHash[n]]

\* The push loop, and after its last block the database writes and "best".
Push ==
    /\ pc = "push"
    /\ PushSucceeds(NextTarget)
    /\ IF NextTarget = target
       THEN /\ known' = known \cup {target}
            /\ ledger' = [x \in known' |-> Replay(x)]
            /\ last' = target
            /\ numHash' = IndexedBranch
            /\ pc' = "idle"
            /\ target' = Genesis
       ELSE UNCHANGED <<chainVars, pc, target>>

PushThrows ==
    /\ pc = "push"
    /\ FailsEarly(NextTarget) \/ FailsLate(NextTarget)
    /\ pc' = "rollback"
    /\ UNCHANGED <<chainVars, target>>

\* Variant: the catch block does not push the old branch again.
Rollback_no_repush ==
    /\ pc = "rollback"
    /\ IF Len(db.head) # Len(common)
       THEN undo /\ UNCHANGED <<pc, target>>
       ELSE pc' = "idle" /\ target' = Genesis /\ UNCHANGED dbVars
    /\ UNCHANGED <<chainVars, libVars>>

\* The catch block: databaseReversion to the common ancestor ...
Rollback ==
    /\ pc = "rollback"
    /\ IF Len(db.head) # Len(common)
       THEN undo /\ UNCHANGED <<pc, target>>
       ELSE /\ IF common = last
               THEN pc' = "idle" /\ target' = Genesis
               ELSE pc' = "repush" /\ UNCHANGED target
            /\ UNCHANGED dbVars
    /\ UNCHANGED <<chainVars, libVars>>

NextOld == Ancestor(last, Len(db.head) + 1)

\* ... then the old branch is pushed again, and the import returns an empty
\* route: the block is not stored.
Repush ==
    /\ pc = "repush"
    /\ PushSucceeds(NextOld)
    /\ IF NextOld = last
       THEN pc' = "idle" /\ target' = Genesis
       ELSE UNCHANGED <<pc, target>>
    /\ UNCHANGED chainVars

\* A restart between imports: initialize_chain reads the number from the
\* database and looks its hash up.
Restart ==
    /\ pc = "idle"
    /\ mlib' = db.lib
    /\ mhash' = numberHash(db.lib)
    /\ qlib' = db.lib
    /\ UNCHANGED <<chainVars, pc, target, dbVars>>

Importing == Revert \/ Push \/ PushThrows \/ Rollback \/ Repush

Next ==
    \/ \E b \in known, h \in Headers :
          ImportNotBest(Append(b, h)) \/ ImportBest(Append(b, h))
    \/ Importing
    \/ Restart

\* The client thread runs an import to its end.
Spec == Init /\ [][Next]_vars /\ WF_vars(Importing)
-----------------------------------------------------------------------------
(* Properties.                                                             *)

Floor == revision - Len(stack)     \* blocks up to here cannot be undone

\* The variables of BlockChain and chain_controller have their types.
TypeOK ==
    /\ \A b \in known : b \in Seq(Headers) /\ Len(b) <= MaxNumber
    /\ last \in known
    /\ \A n \in DOMAIN numHash : numHash[n] \in known
    /\ pc \in {"idle", "revert", "push", "rollback", "repush"}
    /\ target = Genesis \/ Front(target) \in known
    /\ revision \in 0..MaxNumber /\ Len(stack) <= revision
    /\ mlib \in 0..MaxNumber /\ qlib \in 0..MaxNumber /\ mhash \in known \cup {NoHash}

\* After any mix of switches, failed switches and rollbacks the producer
\* database is where the block chain is (insertBlockAndExtras keeps the two in
\* step although neither checks the other).
HeadAgrees == pc = "idle" => db.head = last

\* The producer database, and every state undo can return to, is exactly what
\* applying one branch from the genesis block gives: nothing of an abandoned or
\* failed branch stays behind.
DatabaseIsReplay ==
    /\ db.head \in known \cup {target} /\ db = Replay(db.head)
    /\ revision = Len(db.head)
    /\ \A i \in DOMAIN stack :
          /\ stack[i].revision = Floor + i
          /\ stack[i].db = Replay(Ancestor(db.head, Floor + i - 1))

\* Between imports the number index lists the best chain and nothing else, and
\* no stored block is longer than the best chain.
IndexIsCanonical ==
    pc = "idle" =>
        /\ numHash = [n \in 1..Len(last) |-> Ancestor(last, n)]
        /\ \A b \in known : Len(b) <= Len(last)

\* A block that was reported irreversible never leaves the branch the producer
\* database is on, even while a switch is being tried or taken back.
IrreversibleStays ==
    [][mlib <= Len(db.head) /\ IsPrefix(Ancestor(db.head, mlib), db'.head)]_vars

HeldSeats(d) == {i \in 1..Seats : d.active[i] # Empty}
ConfirmingSeats(d) == {i \in HeldSeats(d) : d.confirmed[d.active[i]] >= d.lib}

\* A block becomes irreversible only when at least the threshold's share of the
\* held seats belongs to producers that signed that number or a later one on
\* the same branch (update_last_irreversible_block).
ThresholdMet ==
    [][db'.lib > db.lib =>
          Cardinality(ConfirmingSeats(db')) * 10000
              >= Threshold * Cardinality(HeldSeats(db'))]_vars

\* databaseReversion ends when the history down to the common ancestor is still
\* there.
ReversionEnds ==
    \A phase \in {"revert", "rollback"} :
        (pc = phase /\ Floor <= Len(common)) ~> (pc # phase)

\* "Only a common block after the current irreversible block counts as a valid
\* common block for rolling back" (BlockChain.cpp:1474): a switch treeRoute lets
\* through can be reverted to its common ancestor.
SwitchIsPossible == pc = "revert" => Floor <= Len(common)

\* "When a block of the fork fails while switching, switch back to the previous
\* fork" (BlockChain.cpp:1087): the catch block can go back.
RollbackIsPossible == pc = "rollback" => Floor <= Len(common)
=============================================================================
