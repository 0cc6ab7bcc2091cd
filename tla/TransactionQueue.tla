-------------------------- MODULE TransactionQueue --------------------------
(***************************************************************************)
(* The transaction queue and the client thread that executes from it.      *)
(* Peers and RPC calls import transactions at any time; the client takes   *)
(* the top ones, executes them one by one into the block it is working on, *)
(* and drops or sets back the ones that do not execute; when the chain     *)
(* changes it returns the transactions of dead blocks to the queue, drops  *)
(* the mined ones and starts the working block again.                      *)
(*                                                                         *)
(* A transaction is its sender, nonce and gas price.  m_currentByHash and  *)
(* m_currentByAddressAndNonce index m_current and are derived from it.     *)
(* The queue of unverified transactions only delays import and is left     *)
(* out.  A block mines at most one transaction.                            *)
(***************************************************************************)
EXTENDS Integers, Sequences, FiniteSets, FiniteSetsExt

\* As in SequencesExt, which would put all of its context into every proof.
Last(s) == s[Len(s)]
Front(s) == SubSeq(s, 1, Len(s) - 1)
InsertAt(s, p, e) ==
    [i \in 1..Len(s) + 1 |-> IF i < p THEN s[i] ELSE IF i = p THEN e ELSE s[i - 1]]

\* The members of seq that are not in S, in their order.
Drops(seq, S) ==
    LET kept[i \in 0..Len(seq)] ==
            IF i = 0 THEN <<>>
            ELSE IF seq[i] \in S THEN kept[i - 1] ELSE Append(kept[i - 1], seq[i])
    IN  kept[Len(seq)]

CONSTANTS Txs,         \* the transactions, records of from, nonce and price
          Limit,       \* m_limit
          FutureLimit, \* m_futureLimit
          BlockLimit,  \* c_maxBlockTransaction
          Ask,         \* the price the gas pricer asks
          MaxSwitches  \* bound: blocks that replace the last one

ASSUME TxsAssumption ==
    IsFiniteSet(Txs) /\ \A t \in Txs : t.nonce \in Nat /\ t.price \in Nat
ASSUME LimitsAssumption ==
    Limit \in Nat \ {0} /\ FutureLimit \in Nat /\ BlockLimit \in Nat \ {0} /\ Ask \in Nat
    /\ MaxSwitches \in Nat

VARIABLES
    q,        \* the queue, see Queue
    mined,    \* the transactions of the best chain, oldest first
    switches, \* blocks replaced so far
    pending,  \* m_working's transactions, in order
    post,     \* m_postSeal's transactions
    pc,       \* "idle", or "execute" inside Block::sync
    ts,       \* top transactions still to execute
    failed,   \* one of them was not executed
    full,     \* topTransactions returned as many as it was asked for
    receipts, \* one of them was executed
    sealed,   \* m_working is sealed and on its way through the block queue
    stale     \* the chain changed during a major sync and m_working did not follow

clientVars == <<pending, post, pc, ts, failed, full, receipts, sealed, stale>>
chainVars == <<mined, switches>>
vars == <<q, chainVars, clientVars>>

Accounts == {t.from : t \in Txs}

\* m_current in the order of the tree, m_future, m_futureSize, m_known, m_dropped,
\* and Client::m_syncTransactionQueue, which m_onReady raises.
Queue == [current : Seq(Txs), future : SUBSET Txs, futureSize : Nat,
          known : SUBSET Txs, dropped : SUBSET Txs, flag : BOOLEAN]
EmptyQueue == [current |-> <<>>, future |-> {}, futureSize |-> 0,
               known |-> {}, dropped |-> {}, flag |-> FALSE]

Init ==
    /\ q = EmptyQueue
    /\ mined = <<>> /\ switches = 0
    /\ pending = <<>> /\ post = <<>>
    /\ pc = "idle" /\ ts = <<>> /\ failed = FALSE /\ full = FALSE
    /\ receipts = FALSE /\ sealed = FALSE /\ stale = FALSE

SameSlot(t, u) == t.from = u.from /\ t.nonce = u.nonce
-----------------------------------------------------------------------------
(* The priority queue.  An update of the queue is the set of queues it may *)
(* leave behind.                                                           *)

\* PriorityCompare: by distance from the account's lowest current nonce, then
\* by falling gas price.
Before(current, t, u) ==
    LET lowest(a) == Min({c.nonce : c \in {d \in Range(current) : d.from = a}})
        height1 == t.nonce - lowest(t.from)
        height2 == u.nonce - lowest(u.from)
    IN  height1 < height2 \/ (height1 = height2 /\ t.price > u.price)

\* multiset::emplace: the search ends between two neighbours that are both on
\* its path.  When the heights have changed under the tree there may be several
\* such places and the shape of the tree decides.
Places(current, t) ==
    LET c == Append(current, t)
    IN  {p \in 1..Len(c) : /\ p > 1 => ~Before(c, t, c[p - 1])
                           /\ p < Len(c) => Before(c, t, c[p])}

Emplace(u, t) == {[u EXCEPT !.current = InsertAt(@, p, t)] : p \in Places(u.current, t)}
EmplaceAll(u, seq) ==
    LET placed[n \in 0..Len(seq)] ==
            IF n = 0 THEN {u} ELSE UNION {Emplace(v, seq[n]) : v \in placed[n - 1]}
    IN  placed[Len(seq)]

\* Some account loses its last future transaction.
LastCut(u) ==
    {[u EXCEPT !.future = @ \ {t}, !.futureSize = @ - 1] :
         t \in {f \in u.future : \A g \in u.future : g.from = f.from => g.nonce <= f.nonce}}

\* The tail of makeCurrent_WITH_LOCK: while there are too many future
\* transactions, one is cut off.
TrimFuture(u) ==
    LET trimmed[n \in 0..u.futureSize] ==
            IF n = 0 THEN {u} ELSE UNION {LastCut(v) : v \in trimmed[n - 1]}
    IN  IF u.futureSize <= FutureLimit THEN {u} ELSE trimmed[u.futureSize - FutureLimit]

\* The future transactions that follow t without a gap.
Followers(future, t) ==
    LET next(n) == {f \in future : f.from = t.from /\ f.nonce = t.nonce + n}
        gaps == {n \in 1..Cardinality(future) + 1 : next(n) = {}}
    IN  [n \in 1..Min(gaps) - 1 |-> CHOOSE f \in next(n) : TRUE]

\* They become current.
Follow(u, t) ==
    LET run == Followers(u.future, t)
    IN  EmplaceAll([u EXCEPT !.future = @ \ Range(run), !.futureSize = @ - Len(run),
                             !.flag = @ \/ run # <<>>], run)

\* Variant: no trimming.
MakeCurrentUntrimmed(u, t) == Follow(u, t)

\* makeCurrent_WITH_LOCK.
MakeCurrent(u, t) == UNION {TrimFuture(v) : v \in Follow(u, t)}

\* insertCurrent_WITH_LOCK.
InsertCurrent(u, t) ==
    LET known(v) == [v EXCEPT !.known = @ \cup {t}]
    IN  {known(w) : w \in UNION {MakeCurrent(v, t) : v \in Emplace(u, t)}}

\* remove_WITH_LOCK.
Removed(u, t) ==
    IF t \in Range(u.current) THEN [u EXCEPT !.current = Drops(@, {t}), !.known = @ \ {t}] ELSE u

\* The end of manageImport_WITH_LOCK: the last ones go while there are too many.
TrimCurrent(u) ==
    IF Len(u.current) <= Limit THEN u
    ELSE [u EXCEPT !.current = SubSeq(@, 1, Limit),
                   !.known = @ \ Range(SubSeq(u.current, Limit + 1, Len(u.current)))]

\* Variant: only the future transactions are compared.
RefusedByFuture(u, t) == \E f \in u.future : SameSlot(f, t) /\ t.price < f.price

\* manageImport_WITH_LOCK refuses a transaction whose nonce is current, or is
\* future at a higher price.
Refused(u, t) ==
    \/ \E c \in Range(u.current) : SameSlot(c, t)
    \/ \E f \in u.future : SameSlot(f, t) /\ t.price < f.price

\* Variant: m_futureSize is not decremented for the one that is replaced.
ManageImportUncounted(u, t) ==
    LET rest == [u EXCEPT !.future = {f \in @ : ~SameSlot(f, t)}, !.flag = TRUE]
    IN  {TrimCurrent(v) : v \in InsertCurrent(rest, t)}

ManageImport(u, t) ==
    LET same == {f \in u.future : SameSlot(f, t)}
        rest == [u EXCEPT !.future = @ \ same, !.futureSize = @ - Cardinality(same),
                          !.flag = TRUE]
    IN  {TrimCurrent(v) : v \in InsertCurrent(rest, t)}

\* import after check_WITH_LOCK; a Retry takes back what was dropped.
Imported(u, t, retry) ==
    /\ t \notin u.known
    /\ t \notin u.dropped \/ retry
    /\ ~Refused(u, t)
Import(u, t, retry) == IF Imported(u, t, retry) THEN ManageImport(u, t) ELSE {u}
ImportAll(S, seq) ==
    LET imported[n \in 0..Len(seq)] ==
            IF n = 0 THEN S ELSE UNION {Import(u, seq[n], TRUE) : u \in imported[n - 1]}
    IN  imported[Len(seq)]
-----------------------------------------------------------------------------
(* What the client does to a transaction.                                  *)

Drop(u, t) == IF t \notin u.known THEN u ELSE Removed([u EXCEPT !.dropped = @ \cup {t}], t)

DropGood(u, t) == {Removed(v, t) : v \in MakeCurrent(u, t)}
DropAllGood(S, seq) ==
    LET left[n \in 0..Len(seq)] ==
            IF n = 0 THEN S ELSE UNION {DropGood(u, seq[n]) : u \in left[n - 1]}
    IN  left[Len(seq)]

\* Variant: the account's whole queue is erased.
SetFutureErasesAll(u, t) ==
    LET moved == {c \in Range(u.current) : c.from = t.from /\ c.nonce >= t.nonce}
    IN  IF t \notin moved THEN u
        ELSE [u EXCEPT !.current = Drops(@, {c \in Txs : c.from = t.from}),
                       !.future = @ \cup moved, !.futureSize = @ + Cardinality(moved)]

\* setFuture: t and the later ones of its account; emplace keeps a future
\* transaction that is already there.
SetFuture(u, t) ==
    LET moved == IF t \notin Range(u.current) THEN {}
                 ELSE {c \in Range(u.current) : c.from = t.from /\ c.nonce >= t.nonce}
        fresh == {m \in moved : ~\E f \in u.future : SameSlot(m, f)}
    IN  [u EXCEPT !.current = Drops(@, moved), !.future = @ \cup fresh,
                  !.futureSize = @ + Cardinality(moved)]

Waiting(u, a) == Cardinality({t \in Range(u.current) \cup u.future : t.from = a})
-----------------------------------------------------------------------------
(* Peers and users.                                                        *)

\* A transaction arrives.
ImportTransaction(t) ==
    /\ Imported(q, t, FALSE)
    /\ q' \in ManageImport(q, t)
    /\ UNCHANGED <<chainVars, clientVars>>

\* Client::clearPending, which leaves m_working alone.
ClearPending ==
    /\ post # <<>>
    /\ q' = [EmptyQueue EXCEPT !.dropped = q.dropped, !.flag = q.flag]
    /\ post' = <<>>
    /\ UNCHANGED <<chainVars, pending, pc, ts, failed, full, receipts, sealed, stale>>
-----------------------------------------------------------------------------
(* The client thread.                                                      *)

OfAccount(seq, a) == Cardinality({i \in DOMAIN seq : seq[i].from = a})
WorkingNonce(a) == OfAccount(mined, a) + OfAccount(pending, a)

Raised(u) == [u EXCEPT !.flag = TRUE]

\* Variant: the flag is left to the queue.
ResyncQuietly(S, own) == IF own THEN S ELSE ImportAll(S, post)

\* resyncStateFromChain: m_working starts again on the best block.  The
\* transactions of m_postSeal return to the queue, unless that is the block
\* this node made and the chain took.
Resync(S, own) ==
    {Raised(u) : u \in IF own THEN S ELSE ImportAll(S, post)}

\* syncTransactionQueue up to topTransactions.
StartSync ==
    /\ pc = "idle" /\ q.flag /\ ~sealed
    /\ LET lowered == [q EXCEPT !.flag = FALSE]
       IN  q' \in IF stale THEN Resync({lowered}, FALSE) ELSE {lowered}
    /\ stale' = FALSE
    /\ pending' = IF stale THEN <<>> ELSE pending
    /\ post' = IF stale THEN <<>> ELSE post
    /\ LET fresh == Drops(q'.current, Range(pending'))
           n == BlockLimit - Len(pending')
       IN  /\ ts' = SubSeq(fresh, 1, IF n < Len(fresh) THEN n ELSE Len(fresh))
           /\ full' = (Len(ts') = n)
    /\ failed' = FALSE /\ receipts' = FALSE
    /\ pc' = "execute"
    /\ UNCHANGED <<chainVars, sealed>>

\* One transaction of Block::sync.  Gas, funds or an exception may stop it
\* whatever its nonce: it is dropped, or left alone when only this block has
\* no gas for it.
Execute ==
    /\ pc = "execute" /\ ts # <<>>
    /\ ts' = Tail(ts)
    /\ LET t == Head(ts)
           required == WorkingNonce(t.from)
           cheap == (Ask * 9) \div 10
       IN  \/ /\ t.price >= Ask /\ t.nonce = required
              /\ pending' = Append(pending, t)
              /\ receipts' = TRUE
              /\ UNCHANGED <<q, failed>>
           \/ /\ t.price < cheap \/ t.price >= Ask
              /\ q' = Drop(q, t)
              /\ failed' = TRUE
              /\ UNCHANGED <<pending, receipts>>
           \/ /\ t.price >= Ask
              /\ t.nonce > required
              /\ t.nonce <= required + Waiting(q, t.from)
              /\ q' = SetFuture(q, t)
              /\ failed' = TRUE
              /\ UNCHANGED <<pending, receipts>>
           \/ /\ t.price >= cheap
              /\ failed' = TRUE
              /\ UNCHANGED <<q, pending, receipts>>
    /\ UNCHANGED <<chainVars, post, pc, full, sealed, stale>>

\* The end of Block::sync, at the end of its list or at the deadline.  The flag
\* is overwritten with whether there is more to do.
EndSync ==
    /\ pc = "execute"
    /\ pc' = "idle"
    /\ q' = [q EXCEPT !.flag = failed \/ full \/ ts # <<>>]
    /\ ts' = <<>> /\ failed' = FALSE /\ full' = FALSE /\ receipts' = FALSE
    /\ post' = IF receipts THEN pending ELSE post
    /\ UNCHANGED <<chainVars, pending, sealed, stale>>

\* generate_block and submitSealed.
Seal ==
    /\ pc = "idle" /\ ~sealed /\ ~stale
    /\ sealed' = TRUE
    /\ post' = pending
    /\ UNCHANGED <<q, chainVars, pending, pc, ts, failed, full, receipts, stale>>

\* onChainChanged: the transactions of dead blocks return to the queue and those
\* of live blocks leave it; m_working follows unless a major sync is going on.
ChainChanged(dead, live, own, major) ==
    /\ pc = "idle"
    /\ mined' = SubSeq(mined, 1, Len(mined) - Len(dead)) \o live
    /\ LET good == DropAllGood(ImportAll({q}, dead), live)
       IN  q' \in IF major THEN good ELSE Resync(good, own)
    /\ stale' = major
    /\ sealed' = (sealed /\ major)
    /\ pending' = IF major THEN pending ELSE <<>>
    /\ post' = IF major THEN post ELSE <<>>
    /\ UNCHANGED <<pc, ts, failed, full, receipts>>

Follows(t, chain) == t.nonce = OfAccount(chain, t.from)

\* A block of another producer on the best chain, with or without a transaction.
NewBlock(major) ==
    /\ \/ ChainChanged(<<>>, <<>>, FALSE, major)
       \/ \E t \in Txs : Follows(t, mined) /\ ChainChanged(<<>>, <<t>>, FALSE, major)
    /\ UNCHANGED switches

\* The block this node made becomes the best one.
OwnBlock ==
    /\ sealed /\ ~stale
    /\ ChainChanged(<<>>, pending, TRUE, FALSE)
    /\ UNCHANGED switches

\* The last block is replaced by a branch that mines another transaction or none.
Switch(major) ==
    /\ switches < MaxSwitches
    /\ switches' = switches + 1
    /\ mined # <<>>
    /\ LET dead == SubSeq(mined, Len(mined), Len(mined))
       IN  \/ ChainChanged(dead, <<>>, FALSE, major)
           \/ \E t \in Txs : /\ Follows(t, Front(mined))
                             /\ t # Last(mined)
                             /\ ChainChanged(dead, <<t>>, FALSE, major)
-----------------------------------------------------------------------------
Next ==
    \/ \E t \in Txs : ImportTransaction(t)
    \/ ClearPending
    \/ StartSync \/ Execute \/ EndSync
    \/ Seal \/ OwnBlock
    \/ \E major \in BOOLEAN : NewBlock(major) \/ Switch(major)

Spec == Init /\ [][Next]_vars

\* Other producers' blocks keep coming.  doWork looks at the block queue, then at
\* the flag, and only then at sealing, so neither is passed over for ever by a
\* loop that keeps doing something else; major syncs end.
Fairness ==
    /\ WF_vars(Execute \/ EndSync)
    /\ SF_vars(StartSync)
    /\ SF_vars(NewBlock(FALSE))
FairSpec == Spec /\ Fairness
-----------------------------------------------------------------------------
(* Properties.                                                             *)

TypeOK ==
    /\ q \in Queue
    /\ mined \in Seq(Txs) /\ pending \in Seq(Txs) /\ post \in Seq(Txs) /\ ts \in Seq(Txs)
    /\ pc \in {"idle", "execute"}
    /\ {failed, full, receipts, sealed, stale} \subseteq BOOLEAN
    /\ switches \in 0..MaxSwitches

Held == Range(q.current) \cup q.future

\* An account has one transaction per nonce, in one of the two sets.
NonceOnce ==
    /\ \A i, j \in DOMAIN q.current : SameSlot(q.current[i], q.current[j]) => i = j
    /\ \A t, u \in Held : SameSlot(t, u) => t = u
    /\ Range(q.current) \cap q.future = {}

\* m_futureSize, "Current number of future transactions", is exact, so it never
\* wraps below zero and the trimming never meets an empty map.
FutureSizeExact == q.futureSize = Cardinality(q.future)

\* Everything in the two sets is known, so a second copy is refused.
QueuedIsKnown == Held \subseteq q.known

\* The two limits bound the queue as a whole: setFuture fills m_future past its
\* limit and dropGood fills m_current past its limit, but never both.
HeldBounded == Cardinality(Held) <= Limit + FutureLimit

\* m_working and what is still to be executed into it stay within
\* c_maxBlockTransaction, so the unsigned difference that Block::sync asks
\* topTransactions for does not wrap.
BlockBounded == Len(pending) + Len(ts) <= BlockLimit

\* m_current is at its limit in this step, before mined transactions leave it.
Crowded == Len(q'.current) + Cardinality(Held \cap Range(mined')) >= Limit

\* A transaction leaves the queue because it was mined, was dropped after an
\* execution, gave its nonce to a better paid one, fell off a full m_current, or
\* was future when setFuture had filled m_future past its limit; or because the
\* user cleared the queue.
Accounted ==
    \A t \in Held \ Held' :
       \/ t \in Range(mined') \/ t \in q'.dropped
       \/ \E u \in Held' : SameSlot(t, u)
       \/ Crowded
       \/ t \in q.future /\ Cardinality(q.future) > FutureLimit
       \/ ClearPending
NothingLost == [][Accounted]_vars

\* onDeadBlocks: the transactions of a dead block are in the queue again, unless
\* their nonce is used or the queue is full.
DeadReturn ==
    [][\A t \in Range(mined) \ Range(mined') :
          \/ \E u \in Held' \cup Range(mined') : SameSlot(t, u)
          \/ Crowded]_vars

\* Waiting transactions are looked at again and again: the flag that EndSync
\* overwrites does not leave them behind for ever.
Waits == ~(Range(q.current) \subseteq Range(pending))
QueueServed == Waits ~> (ts # <<>> \/ ~Waits)
=============================================================================
