----------------------------- MODULE BlockQueue -----------------------------
(***************************************************************************)
(* The block queue between the network and the chain.  Network threads and *)
(* the producer offer blocks with import; verifier threads check them, in  *)
(* any order, and release them in the order they were taken; the client    *)
(* thread drains what is verified, imports it into the chain and reports   *)
(* what was bad.  Each step is one critical section of the code.           *)
(*                                                                         *)
(* A block is a number that also stands for its hash.  What checking a     *)
(* block would say is fixed in the initial state and unknown to the queue. *)
(* The chain appears only as the set of blocks it knows and its            *)
(* irreversible number.  m_difficulty, sizes in bytes and logging are left *)
(* out, and so is the limit of one tick per second.                        *)
(***************************************************************************)
EXTENDS Integers, Sequences, FiniteSets, Functions

CONSTANTS NumBlocks,      \* the blocks are 1..NumBlocks, the genesis block is 0
          Parent,         \* the parent of each block
          Time,           \* its timestamp
          Own,            \* the blocks this node produces
          Verdicts,       \* what checking the blocks may say, see Verdict
          Threads,        \* m_verifiers
          SyncAmount,     \* m_syncAmount: blocks per drain
          MaxTime,        \* bound: the clock
          MaxTransient,   \* bound: imports that fail with BadRoot
          MaxClears,      \* bound: calls of clear
          MaxRetries,     \* bound: calls of retryAllUnknown
          MaxCopies,      \* bound: copies of a block in m_future
          MaxIrreversible \* bound: the irreversible number

Blocks == 1..NumBlocks
Genesis == 0
NoUncles == NumBlocks + 1   \* EmptyListSHA3, the uncles hash of every block
NoBlock == NumBlocks + 2
Verdict == {"good", "seal", "state"}

\* Height of a block: one more than its parent's.
Number ==
    LET height[n \in 0..NumBlocks] ==
            [b \in 0..NumBlocks |->
                IF b = Genesis \/ n = 0 THEN 0 ELSE 1 + height[n - 1][Parent[b]]]
    IN  height[NumBlocks]

ASSUME BlocksAssumption ==
    /\ NumBlocks \in Nat \ {0}
    /\ Parent \in [Blocks -> 0..NumBlocks]
    /\ \A b \in Blocks : Number[b] = Number[Parent[b]] + 1
    /\ Time \in [Blocks -> 0..MaxTime]
    /\ Own \subseteq Blocks
    /\ Verdicts \subseteq [Blocks -> Verdict]
ASSUME BoundsAssumption ==
    /\ SyncAmount \in Nat \ {0}
    /\ MaxTime \in Nat /\ MaxTransient \in Nat /\ MaxClears \in Nat /\ MaxRetries \in Nat
    /\ MaxCopies \in Nat /\ MaxIrreversible \in Nat

VARIABLES
    q,            \* the queue, see Queue
    future,       \* m_future, in the order of insertion
    work,         \* per verifier: the block it is checking, or NoBlock
    pc,           \* where the client thread is in doWork
    blocks,       \* drained blocks still to import
    badBlocks,    \* drained blocks found bad
    todo,         \* blocks tick() took from m_future and has still to import
    more,         \* what doneDrain returned
    syncFlag,     \* Client::m_syncBlockQueue
    chain,        \* blocks the chain knows
    irreversible, \* the chain's irreversible number
    now,          \* utcTime()
    verdict,      \* what checking each block says
    transients,   \* transient failures so far
    clears,       \* calls of clear so far
    retries,      \* calls of retryAllUnknown so far
    displaced     \* history: blocks dropped by a transient failure or queued by retryAllUnknown

clientVars == <<pc, blocks, badBlocks, todo, more>>
chainVars == <<chain, irreversible>>
worldVars == <<now, verdict, transients, clears, retries, displaced>>
vars == <<q, future, work, clientVars, syncFlag, chainVars, worldVars>>

Entries == [block : Blocks, done : BOOLEAN]

\* The sets and queues that m_lock and m_verification guard.  An entry of
\* m_verifying is done when its data has been put back.  m_unknownSet always
\* holds the blocks of m_unknown.
Queue == [ready : SUBSET Blocks, draining : SUBSET Blocks, bad : SUBSET (Blocks \cup {NoUncles}),
          unknown : Seq(Blocks), unverified : Seq(Blocks), verified : Seq(Blocks),
          verifying : Seq(Entries)]

EmptyQueue == [ready |-> {}, draining |-> {}, bad |-> {}, unknown |-> <<>>,
               unverified |-> <<>>, verified |-> <<>>, verifying |-> <<>>]

Init ==
    /\ q = EmptyQueue
    /\ future = <<>>
    /\ work = [t \in Threads |-> NoBlock]
    /\ pc = "sync" /\ blocks = <<>> /\ badBlocks = <<>> /\ todo = <<>> /\ more = FALSE
    /\ syncFlag = FALSE
    /\ chain = {Genesis}
    /\ irreversible = 0
    /\ now = 0
    /\ verdict \in Verdicts
    /\ transients = 0 /\ clears = 0 /\ retries = 0
    /\ displaced = {}
-----------------------------------------------------------------------------
(* The containers.                                                         *)

\* The members of seq that are in S, in their order.
Keep(seq, S) ==
    LET kept[i \in 0..Len(seq)] ==
            IF i = 0 THEN <<>>
            ELSE IF seq[i] \in S THEN Append(kept[i - 1], seq[i]) ELSE kept[i - 1]
    IN  kept[Len(seq)]

\* SizedBlockMap: what is kept under the keys up to n, by rising key and under
\* one key in the order of insertion.
ByKey(seq, key, n) ==
    LET upTo[k \in 0..n + 1] ==
            IF k = 0 THEN <<>> ELSE upTo[k - 1] \o Keep(seq, {b \in Blocks : key[b] = k - 1})
    IN  upTo[n + 1]

\* m_unknown.removeByKeyEqual with the n-th hash of the roots and what they woke.
Wake(r, roots, n) ==
    LET list == roots \o r.woken
        children == {b \in Blocks : Parent[b] = list[n]}
    IN  IF n > Len(list) THEN r
        ELSE [woken |-> r.woken \o Keep(r.unknown, children),
              unknown |-> Keep(r.unknown, Blocks \ children)]

\* The loop of noteReady and collectUnknownBad: the waiting descendants of the
\* roots, first in first out, and what goes on waiting.
WakeAll(unknown, roots) ==
    LET loop[n \in 0..Len(roots) + Len(unknown)] ==
            IF n = 0 THEN [woken |-> <<>>, unknown |-> unknown] ELSE Wake(loop[n - 1], roots, n)
    IN  loop[Len(roots) + Len(unknown)]

\* SizedBlockQueue::removeIf: remove_if moves what it keeps to the front, and
\* what is returned as removed is the tail left behind it.
Removed(seq, kept) == SubSeq(seq, Len(kept) + 1, Len(seq))
-----------------------------------------------------------------------------
(* Bad blocks.                                                             *)

\* collectUnknownBad_WITH_BOTH_LOCKS for each of the hashes.
CollectUnknownBad(u, hashes) ==
    LET r == WakeAll(u.unknown, hashes)
    IN  [u EXCEPT !.unknown = r.unknown, !.bad = @ \cup Range(r.woken)]

\* The loop body that follows each removeIf of updateBad_WITH_LOCK.
NoteRemoved(u, hashes) ==
    CollectUnknownBad([u EXCEPT !.bad = @ \cup Range(hashes), !.ready = @ \ Range(hashes)], hashes)

\* Neither the block nor its parent is known to be bad.
Sound(u) == {b \in Blocks : b \notin u.bad /\ Parent[b] \notin u.bad}

PurgeVerified(u) ==
    LET kept == Keep(u.verified, Sound(u))
    IN  NoteRemoved([u EXCEPT !.verified = kept], Removed(u.verified, kept))

PurgeUnverified(u) ==
    LET kept == Keep(u.unverified, Sound(u))
    IN  NoteRemoved([u EXCEPT !.unverified = kept], Removed(u.unverified, kept))

\* An unfinished entry holds its own hash where a finished one holds the hash
\* of its uncles.  An entry that was moved away has lost its data, so it is
\* read like an unfinished one.
Uncles(e) == IF e.done THEN NoUncles ELSE e.block
PurgeVerifying(u) ==
    LET kept == Keep(u.verifying, {e \in Entries : Parent[e.block] \notin u.bad /\ Uncles(e) \notin u.bad})
        removed == Removed(u.verifying, kept)
        isBad(e) == Parent[e.block] \in u.bad \/ Uncles(e) \in u.bad
        hash(e) == IF e.done /\ isBad(e) THEN e.block ELSE Uncles(e)
    IN  NoteRemoved([u EXCEPT !.verifying = kept], [i \in DOMAIN removed |-> hash(removed[i])])

\* updateBad_WITH_LOCK: every round that finds something shortens a queue.
UpdateBad(u, b) ==
    LET rounds == Len(u.verified) + Len(u.unverified) + Len(u.verifying)
        round[n \in 0..rounds] ==
            IF n = 0 THEN CollectUnknownBad(u, <<b>>)
            ELSE PurgeVerifying(PurgeUnverified(PurgeVerified(round[n - 1])))
    IN  round[rounds]
-----------------------------------------------------------------------------
(* import.                                                                 *)

\* Variant: children that wait for the block are not woken.
NoteReadyAlone(u, b) == u

\* noteReady_WITH_LOCK.
NoteReady(u, b) ==
    LET r == WakeAll(u.unknown, <<b>>)
    IN  [u EXCEPT !.unverified = @ \o r.woken, !.unknown = r.unknown,
                  !.ready = @ \cup Range(r.woken)]

\* The end of import, for a block that is not held back for its timestamp.
Accept(b) ==
    IF Parent[b] \in q.bad
    THEN UpdateBad([q EXCEPT !.bad = @ \cup {b}], b)
    ELSE IF Parent[b] \notin q.ready \cup q.draining \cup chain
    THEN [q EXCEPT !.unknown = Append(@, b)]
    ELSE NoteReady([q EXCEPT !.unverified = Append(@, b), !.ready = @ \cup {b}], b)

\* Variant: the ready set is not looked up.
OfferedTwice(b) ==
    /\ b \notin q.draining \cup q.bad \cup Range(q.unknown) \cup chain
    /\ Number[b] > irreversible

\* The early returns: already known, in the chain, or irreversible.
Offered(b) ==
    /\ b \notin q.ready \cup q.draining \cup q.bad \cup Range(q.unknown)
    /\ b \notin chain
    /\ Number[b] > irreversible

\* BlockQueue::import, as an effect on q and future.
Import(b, isOurs) ==
    IF ~Offered(b) THEN UNCHANGED <<q, future>>
    ELSE IF Time[b] > now /\ ~isOurs
    THEN future' = Append(future, b) /\ UNCHANGED q
    ELSE q' = Accept(b) /\ UNCHANGED future

\* A network thread offers a block it received.  One that waits in m_future is
\* not refused when it is offered again.
ImportFromPeer(b) ==
    /\ Offered(b)
    /\ Cardinality({i \in DOMAIN future : future[i] = b}) < MaxCopies \/ Time[b] <= now
    /\ Import(b, FALSE)
    /\ UNCHANGED <<work, clientVars, syncFlag, chainVars, worldVars>>

\* clear, by the synchronisation: everything but m_knownBad.
Clear ==
    /\ clears < MaxClears
    /\ clears' = clears + 1
    /\ q' = [EmptyQueue EXCEPT !.bad = q.bad]
    /\ future' = <<>>
    /\ UNCHANGED <<work, clientVars, syncFlag, chainVars, now, verdict, transients, retries,
                   displaced>>

\* retryAllUnknown, by the administrator: the map is walked in the order of
\* the parents' hashes.
RetryAllUnknown ==
    /\ q.unknown # <<>>
    /\ retries < MaxRetries
    /\ retries' = retries + 1
    /\ LET all == ByKey(q.unknown, Parent, NumBlocks)
       IN  q' = [q EXCEPT !.unverified = @ \o all, !.unknown = <<>>, !.ready = @ \cup Range(all)]
    /\ displaced' = displaced \cup Range(q.unknown)
    /\ UNCHANGED <<future, work, clientVars, syncFlag, chainVars, now, verdict, transients, clears>>
-----------------------------------------------------------------------------
(* verifierBody.                                                           *)

\* Take the oldest unverified block.
Take(t) ==
    /\ work[t] = NoBlock
    /\ q.unverified # <<>>
    /\ LET b == Head(q.unverified)
       IN  /\ work' = [work EXCEPT ![t] = b]
           /\ q' = [q EXCEPT !.unverified = Tail(@),
                             !.verifying = Append(@, [block |-> b, done |-> FALSE])]
    /\ UNCHANGED <<future, clientVars, syncFlag, chainVars, worldVars>>

\* A finished entry at the front is released, or found bad with its parent.
ReleaseFront(u) ==
    LET b == Head(u.verifying).block
    IN  IF u.verifying = <<>> \/ ~Head(u.verifying).done THEN u
        ELSE IF Parent[b] \in u.bad
        THEN [u EXCEPT !.verifying = Tail(@), !.bad = @ \cup {b}, !.ready = @ \ {b}]
        ELSE [u EXCEPT !.verifying = Tail(@), !.verified = Append(@, b)]

\* drainVerified_WITH_BOTH_LOCKS.
DrainVerified(u) ==
    LET released[n \in 0..Len(u.verifying)] ==
            IF n = 0 THEN u ELSE ReleaseFront(released[n - 1])
    IN  released[Len(u.verifying)]

\* The check failed: the block is bad, what waited for it is released.
VerifyFails(t) ==
    /\ work[t] # NoBlock
    /\ verdict[work[t]] = "seal"
    /\ LET b == work[t]
       IN  q' = DrainVerified(
               [q EXCEPT !.ready = @ \ {b}, !.bad = @ \cup {b},
                         !.verifying = Keep(@, Entries \ {[block |-> b, done |-> FALSE]})])
    /\ work' = [work EXCEPT ![t] = NoBlock]
    /\ UNCHANGED <<future, clientVars, syncFlag, chainVars, worldVars>>

\* Variant: a checked block is released without waiting for its turn.
VerifySucceedsAtOnce(t) ==
    /\ work[t] # NoBlock
    /\ verdict[work[t]] # "seal"
    /\ LET mine == [block |-> work[t], done |-> FALSE]
       IN  /\ mine \in Range(q.verifying)
           /\ q' = [q EXCEPT !.verifying = Keep(@, Entries \ {mine}),
                             !.verified = Append(@, work[t])]
    /\ syncFlag' = TRUE
    /\ work' = [work EXCEPT ![t] = NoBlock]
    /\ UNCHANGED <<future, clientVars, chainVars, worldVars>>

\* The check passed.  The block at the front goes out with the finished ones
\* behind it and m_onReady tells the client; any other is put back as done.
\* Nothing happens when the entry has gone.
VerifySucceeds(t) ==
    /\ work[t] # NoBlock
    /\ verdict[work[t]] # "seal"
    /\ LET mine == {i \in DOMAIN q.verifying :
                       q.verifying[i] = [block |-> work[t], done |-> FALSE]}
           first == CHOOSE i \in mine : \A j \in mine : i <= j
           put == [q EXCEPT !.verifying[first].done = TRUE]
       IN  /\ q' = IF mine = {} THEN q ELSE IF 1 \in mine THEN DrainVerified(put) ELSE put
           /\ syncFlag' = (syncFlag \/ 1 \in mine)
    /\ work' = [work EXCEPT ![t] = NoBlock]
    /\ UNCHANGED <<future, clientVars, chainVars, worldVars>>
-----------------------------------------------------------------------------
(* The client thread: doWork, syncBlockQueue and BlockChain::sync.         *)

\* No block is signalled: go on to tick.
SkipSync ==
    /\ pc = "sync" /\ ~syncFlag
    /\ pc' = "tick"
    /\ UNCHANGED <<q, future, work, blocks, badBlocks, todo, more, syncFlag, chainVars, worldVars>>

\* Variant: drained blocks are not erased from the ready set.
DrainKeepsReady ==
    /\ pc = "sync" /\ syncFlag
    /\ pc' = "import"
    /\ syncFlag' = FALSE
    /\ LET n == IF q.draining # {} THEN 0
                ELSE IF SyncAmount < Len(q.verified) THEN SyncAmount ELSE Len(q.verified)
           out == SubSeq(q.verified, 1, n)
       IN  /\ blocks' = out
           /\ q' = [q EXCEPT !.verified = SubSeq(@, n + 1, Len(@)),
                             !.draining = @ \cup Range(out)]
    /\ UNCHANGED <<future, work, badBlocks, todo, more, chainVars, worldVars>>

\* drain.
Drain ==
    /\ pc = "sync" /\ syncFlag
    /\ pc' = "import"
    /\ syncFlag' = FALSE
    /\ LET n == IF q.draining # {} THEN 0
                ELSE IF SyncAmount < Len(q.verified) THEN SyncAmount ELSE Len(q.verified)
           out == SubSeq(q.verified, 1, n)
       IN  /\ blocks' = out
           /\ q' = [q EXCEPT !.verified = SubSeq(@, n + 1, Len(@)),
                             !.draining = @ \cup Range(out), !.ready = @ \ Range(out)]
    /\ UNCHANGED <<future, work, badBlocks, todo, more, chainVars, worldVars>>

\* BlockChain::import of the next drained block.  The chain may raise its
\* irreversible number with a block it takes.
ImportNext ==
    /\ pc = "import" /\ blocks # <<>>
    /\ blocks' = Tail(blocks)
    /\ LET b == Head(blocks)
       IN  \/ /\ b \in chain
              /\ UNCHANGED <<badBlocks, chainVars, transients, displaced>>
           \/ /\ b \notin chain
              /\ Parent[b] \notin chain \/ verdict[b] = "state"
              /\ badBlocks' = Append(badBlocks, b)
              /\ UNCHANGED <<chainVars, transients, displaced>>
           \/ /\ b \notin chain /\ Parent[b] \in chain /\ verdict[b] = "good"
              /\ chain' = chain \cup {b}
              /\ irreversible' \in {irreversible} \cup
                    {n \in irreversible..MaxIrreversible : n <= Number[b]}
              /\ UNCHANGED <<badBlocks, transients, displaced>>
           \/ /\ b \notin chain /\ Parent[b] \in chain
              /\ transients < MaxTransient      \* BadRoot, then `continue'
              /\ transients' = transients + 1
              /\ displaced' = displaced \cup {b}
              /\ UNCHANGED <<badBlocks, chainVars>>
    /\ UNCHANGED <<q, future, work, pc, todo, more, syncFlag, now, verdict, clears, retries>>

\* updateBad_WITH_LOCK for each of the blocks.
UpdateAllBad(u, bad) ==
    LET updated[n \in 0..Len(bad)] == IF n = 0 THEN u ELSE UpdateBad(updated[n - 1], bad[n])
    IN  updated[Len(bad)]

\* doneDrain.
DoneDrain ==
    /\ pc = "import" /\ blocks = <<>>
    /\ q' = UpdateAllBad([q EXCEPT !.draining = {}, !.bad = @ \cup Range(badBlocks)], badBlocks)
    /\ more' = (q'.ready # {})
    /\ badBlocks' = <<>>
    /\ pc' = "assign"
    /\ UNCHANGED <<future, work, blocks, todo, syncFlag, chainVars, worldVars>>

\* tie(ir, m_syncBlockQueue, count) = bc().sync(...).
AssignFlag ==
    /\ pc = "assign"
    /\ syncFlag' = more
    /\ more' = FALSE
    /\ pc' = "tick"
    /\ UNCHANGED <<q, future, work, blocks, badBlocks, todo, chainVars, worldVars>>

\* Variant: blocks due this very second are removed and not imported.
TickLosesDue ==
    /\ pc = "tick"
    /\ todo' = Keep(future, {b \in Blocks : Time[b] < now})
    /\ future' = Keep(future, {b \in Blocks : Time[b] > now})
    /\ pc' = IF todo' = <<>> THEN "seal" ELSE "retry"
    /\ UNCHANGED <<q, work, blocks, badBlocks, more, syncFlag, chainVars, worldVars>>

\* BlockQueue::tick takes the blocks that are due, by timestamp.
Tick ==
    /\ pc = "tick"
    /\ todo' = ByKey(future, Time, now)
    /\ future' = Keep(future, {b \in Blocks : Time[b] > now})
    /\ pc' = IF todo' = <<>> THEN "seal" ELSE "retry"
    /\ UNCHANGED <<q, work, blocks, badBlocks, more, syncFlag, chainVars, worldVars>>

\* ... and imports them one by one.
TickImport ==
    /\ pc = "retry"
    /\ Import(Head(todo), FALSE)
    /\ todo' = Tail(todo)
    /\ pc' = IF todo' = <<>> THEN "seal" ELSE "retry"
    /\ UNCHANGED <<work, blocks, badBlocks, more, syncFlag, chainVars, worldVars>>

\* rejigSealing: nothing to produce, or submitSealed of a new block on top of
\* one the chain has.
Seal ==
    /\ pc = "seal"
    /\ pc' = "sync"
    /\ \/ UNCHANGED <<q, future>>
       \/ \E b \in Own : /\ Parent[b] \in chain
                         /\ Offered(b)
                         /\ Import(b, TRUE)
    /\ UNCHANGED <<work, blocks, badBlocks, todo, more, syncFlag, chainVars, worldVars>>

Elapse ==
    /\ now < MaxTime
    /\ now' = now + 1
    /\ UNCHANGED <<q, future, work, clientVars, syncFlag, chainVars, verdict, transients, clears,
                   retries, displaced>>
-----------------------------------------------------------------------------
Verifier(t) == Take(t) \/ VerifyFails(t) \/ VerifySucceeds(t)
Client == SkipSync \/ Drain \/ ImportNext \/ DoneDrain \/ AssignFlag \/ Tick \/ TickImport \/ Seal
Network == (\E b \in Blocks \ Own : ImportFromPeer(b)) \/ Clear \/ RetryAllUnknown

Next ==
    \/ \E t \in Threads : Verifier(t)
    \/ Client
    \/ Network
    \/ Elapse

\* The threads of the node run; peers and the administrator may do nothing.
Fairness ==
    /\ \A t \in Threads : WF_vars(Verifier(t))
    /\ WF_vars(Client)
    /\ WF_vars(Elapse)

Spec == Init /\ [][Next]_vars
FairSpec == Spec /\ Fairness
-----------------------------------------------------------------------------
(* Properties.                                                             *)

TypeOK ==
    /\ q \in Queue
    /\ future \in Seq(Blocks) /\ blocks \in Seq(Blocks)
    /\ badBlocks \in Seq(Blocks) /\ todo \in Seq(Blocks)
    /\ work \in [Threads -> Blocks \cup {NoBlock}]
    /\ pc \in {"sync", "import", "assign", "tick", "retry", "seal"}
    /\ more \in BOOLEAN /\ syncFlag \in BOOLEAN
    /\ chain \subseteq Blocks \cup {Genesis}
    /\ irreversible \in 0..MaxIrreversible /\ now \in 0..MaxTime
    /\ transients \in 0..MaxTransient /\ clears \in 0..MaxClears /\ retries \in 0..MaxRetries
    /\ displaced \subseteq Blocks

\* The blocks on their way to the chain, oldest first.
Pipeline == q.verified \o [i \in DOMAIN q.verifying |-> q.verifying[i].block] \o q.unverified

\* A block or one of its ancestors is in S.
Stems(b, S) == \E n \in 0..NumBlocks :
    LET up[k \in 0..NumBlocks] == IF k = 0 THEN b ELSE
            IF up[k - 1] = Genesis THEN Genesis ELSE Parent[up[k - 1]]
    IN  up[n] \in S

\* m_verified is "in correct order": however the verifiers interleave, no block
\* is queued, checked or handed to the chain before its parent, unless one of the
\* two was displaced.  Once the hash that stands for no uncles is taken for a bad
\* block, finished blocks are purged with no trace, and a parent may come again.
ParentsFirst ==
    LET order == blocks \o Pipeline
    IN  \A i, j \in DOMAIN order : i < j /\ Parent[order[i]] = order[j] =>
            \/ order[j] \in Range(badBlocks \o SubSeq(order, 1, i - 1)) \cup chain
            \/ displaced \cap {order[i], order[j]} # {}
            \/ NoUncles \in q.bad

\* No block is in the pipeline twice, even when clear emptied it under the
\* verifiers and the block was offered again; and every block in it is known,
\* so that import refuses a second copy.
OncePerBlock ==
    /\ \A i, j \in DOMAIN Pipeline : Pipeline[i] = Pipeline[j] => i = j
    /\ Range(Pipeline) \subseteq q.ready \cup q.bad

\* A block waits in m_unknown only while its parent is neither ready nor being
\* imported: whoever makes the parent ready also wakes the children.
UnknownWaits ==
    \A b \in Range(q.unknown) : Parent[b] \notin q.ready \cup q.draining

\* With valid blocks only, nothing is ever marked bad and the ready set is the
\* pipeline, unless a block was displaced.
SoundWhenValid ==
    (\A b \in Blocks : verdict[b] = "good") /\ displaced = {} =>
        q.bad = {} /\ q.ready = Range(Pipeline)

\* The blocks the queue or the client answers for.
Held == q.ready \cup q.draining \cup Range(q.unknown \o future \o todo \o blocks \o badBlocks)

\* A block is not forgotten between two threads: it leaves the queue when it is
\* in the chain, known bad, too old, dropped on a transient failure or cleared.
NothingForgotten ==
    [][\A b \in Held \ Held' :
          \/ b \in chain' \cup q'.bad \cup displaced'
          \/ Number[b] <= irreversible'
          \/ clears' # clears]_vars

\* m_knownBad, "blocks that we know will never be valid": a bad block is
\* invalid or descends from an invalid one.
OnlyInvalidIsBad ==
    \A b \in q.bad \cap Blocks : Stems(b, {c \in Blocks : verdict[c] # "good"})

\* A verified block is handed over or dropped: m_onReady tells the client
\* whenever there is something to import.
VerifiedIsImported ==
    \A b \in Blocks : b \in Range(q.verified) ~> b \notin Range(q.verified)
=============================================================================
