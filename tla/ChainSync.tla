----------------------------- MODULE ChainSync -----------------------------
(***************************************************************************)
(* Chain synchronisation of one node with its peers: the state machine of  *)
(* BlockChainSync (Idle, FindingCommonBlock, SyncBlocks, Waiting), the one *)
(* outstanding request a peer may have, and the peers' answers.            *)
(*                                                                         *)
(* A peer announces a block the node cannot attach.  The node asks for     *)
(* headers one by one, downwards, until it meets one it has; then it       *)
(* downloads the missing headers and bodies upwards and hands the blocks   *)
(* to the block queue.  Time passes in units of five seconds: requests are *)
(* repeated after one (keepAlive), a state is left after two without any   *)
(* message.                                                                *)
(*                                                                         *)
(* Block 0 is genesis, Parent gives the tree.  A block stands for its      *)
(* hash, its header and its body.  The block queue is reduced to the       *)
(* blocks that are ready and those that wait for their parent.  Blocks are *)
(* valid, not from the future and, if they have transactions, differ in    *)
(* them; the queue is never full, so m_state is the state's name.  Ratings *)
(* are left out, so of two peers with one irreversible number either may   *)
(* come first.                                                             *)
(***************************************************************************)
EXTENDS Integers, Sequences, FiniteSets, FiniteSetsExt

CONSTANTS Peers,
          NumBlocks, Parent, \* the block tree
          Empty,             \* blocks without transactions
          Heads,             \* best block of each peer at the start
          Behind,            \* a chain's irreversible block is this far behind its head
          FewKnown,          \* 10: a sync starts only below this many queued blocks
          QueueGap,          \* c_blockQueueGap
          MaxUnexpected,     \* 20: unexpected headers that are put up with
          MaxDisconnects     \* bound: connections lost

Blocks == 0..NumBlocks
None == -1   \* h256()

ASSUME TreeAssumption ==
    /\ NumBlocks \in Nat \ {0}
    /\ Parent \in [1..NumBlocks -> Blocks] /\ \A b \in 1..NumBlocks : Parent[b] < b
    /\ Empty \subseteq Blocks /\ Heads \in [Peers -> Blocks]
ASSUME LimitsAssumption ==
    {Behind, FewKnown, QueueGap, MaxUnexpected, MaxDisconnects} \subseteq Nat

VARIABLES
    s,      \* BlockChainSync, its state objects, the block queue; see Sync
    chain,  \* blocks the node's chain knows
    best,   \* its best block
    peer,   \* what the node holds of each peer, and the peer's chain; see Peer
    lost    \* connections lost so far

vars == <<s, chain, best, peer, lost>>

Number[b \in Blocks] == IF b = 0 THEN 0 ELSE Number[Parent[b]] + 1
MaxNumber == Max({Number[b] : b \in Blocks})

\* The ancestor of b with number n: numberHash on the chain that ends in b.
At[b \in Blocks] ==
    [n \in 0..MaxNumber |->
        IF n > Number[b] THEN None ELSE IF n = Number[b] THEN b ELSE At[Parent[b]][n]]

Path(b) == {At[b][n] : n \in 0..Number[b]}
Irreversible(b) == Max({0, Number[b] - Behind})

\* A request in flight: headers by hash, headers by number, or bodies.
NoRequest == [kind |-> "none"]
ByHash(b) == [kind |-> "hash", block |-> b]
ByNumber(n, c) == [kind |-> "number", from |-> n, count |-> c]
Bodies(S) == [kind |-> "bodies", blocks |-> S]

\* m_lastIrrBlock, m_latestHash, isLlegal of EthereumPeer; the request stands
\* for m_asking.  head and has are the peer's own best block and blocks.
NewPeer(h) == [on |-> FALSE, legal |-> FALSE, told |-> 0, latest |-> None,
               head |-> h, has |-> Path(h)]

Empties == [n \in {} |-> None]
NoMarks == [p \in Peers |-> {}]

\* m_pCurrState (and m_state), m_lockBlockGen, m_bootFlag; m_lastImportedBlock and its
\* hash, m_lastIrreversibleBlock; m_syncStartBlock and its hash,
\* m_syncLastIrrBlock; m_expectBlock...; m_headers, m_bodies, m_headerIdToNumber;
\* m_downloadingHeaders/Bodies and m_header/bodySyncPeers; m_unexpectTimes; the
\* timers; the queue's ready and unknown sets; the requests.  Two fields are
\* history: cut has the blocks whose headers were cut off in this sync, mixed says
\* that the headers it began with are not of one branch.
Init ==
    /\ s = [cur |-> "Idle", lock |-> FALSE, boot |-> TRUE,
            impN |-> 0, impH |-> 0, irr |-> 0,
            startN |-> 0, startH |-> None, startIrr |-> 0, expN |-> 0, expH |-> None,
            headers |-> Empties, bodies |-> Empties, ids |-> Empties,
            dlH |-> {}, dlB |-> {}, hp |-> NoMarks, bp |-> NoMarks,
            cut |-> {}, mixed |-> FALSE,
            unexpected |-> 0, quiet |-> 0, silentF |-> 0, silentS |-> 0, wait |-> 0,
            ready |-> {}, unknown |-> {}, req |-> [p \in Peers |-> NoRequest]]
    /\ chain = {0} /\ best = 0
    /\ peer = [p \in Peers |-> NewPeer(Heads[p])]
    /\ lost = 0
-----------------------------------------------------------------------------
(* Helpers.                                                                *)

Put(f, n, b) == [m \in DOMAIN f \cup {n} |-> IF m = n THEN b ELSE f[m]]
Cut(f, S) == [m \in DOMAIN f \ S |-> f[m]]
KeepTo(f, n) == Cut(f, {m \in DOMAIN f : m > n})
First(f) == Min(DOMAIN f)

\* A chunk of m_headers: the numbers from n on without a gap.
Chunk(f, n) == {m \in DOMAIN f : n <= m /\ n..m \subseteq DOMAIN f}

ResetTemp(u) == [u EXCEPT !.headers = Empties, !.bodies = Empties, !.ids = Empties,
                          !.dlH = {}, !.dlB = {}, !.hp = NoMarks, !.bp = NoMarks,
                          !.cut = {}]
ResetAll(u) == [ResetTemp(u) EXCEPT !.ready = {}, !.unknown = {}]

\* Variant: the data of the download is kept for the next sync.
ToIdleKeeps(u) ==
    IF u.cur = "Idle" THEN u ELSE [u EXCEPT !.cur = "Idle", !.lock = FALSE, !.quiet = 0]

\* switchState(Idle) and IdleSyncState::onEnter.
ToIdle(u) ==
    IF u.cur = "Idle" THEN u
    ELSE [ResetTemp(u) EXCEPT !.cur = "Idle", !.lock = FALSE, !.quiet = 0]

\* updateTimeout: only a state with a timeout is left.
TimedOut(u) == u.cur \in {"FindingCommonBlock", "SyncBlocks"} /\ u.quiet >= 2
UpdateTimeout(u) == IF TimedOut(u) THEN ToIdle(u) ELSE [u EXCEPT !.quiet = 0]

ClearMarks(u, p) ==
    [u EXCEPT !.dlH = @ \ u.hp[p], !.dlB = @ \ u.bp[p], !.hp[p] = {}, !.bp[p] = {}]

\* foreachPeerByLastIrr with the two tests its callers make: legal peers without
\* a request, the highest irreversible number first.
Candidates(u, P) ==
    LET free == {p \in Peers : P[p].legal /\ u.req[p] = NoRequest}
    IN  {p \in free : \A r \in free : P[r].told <= P[p].told}

\* BlockQueue::import and noteReady.
QueueResult(u, b) ==
    IF b \in u.ready \cup u.unknown THEN "AlreadyKnown"
    ELSE IF b \in chain THEN "AlreadyInChain"
    ELSE IF Number[b] <= Irreversible(best) THEN "Irreversible"
    ELSE IF Parent[b] \notin u.ready \cup chain THEN "UnknownParent"
    ELSE "Success"
QueueImport(u, b) ==
    LET result == QueueResult(u, b)
        freed == {c \in u.unknown : At[c][Number[b]] = b /\
                     \A n \in Number[b] + 1..Number[c] : At[c][n] \in u.unknown}
    IN  CASE result = "UnknownParent" -> [u EXCEPT !.unknown = @ \cup {b}]
          [] result = "Success" -> [u EXCEPT !.ready = @ \cup {b} \cup freed, !.unknown = @ \ freed]
          [] OTHER -> u
Queued(u, b) == b \in u.ready \cup u.unknown
-----------------------------------------------------------------------------
(* SyncBlocks: what to ask for next, and what to do with the answer.       *)

\* syncHeadersAndBodies(_peer): bodies of the first chunk when it follows the
\* start block, else the first gap in the headers.
Request(u, p) ==
    LET first == First(u.headers)
        chunk == Chunk(u.headers, first)
        needed == IF first # u.startN + 1 THEN {}
                  ELSE {n \in chunk : n \notin u.dlB \cup DOMAIN u.bodies}
        low == IF first <= u.startN + 1 THEN Max(chunk) + 1 ELSE u.startN + 1
        missing == {n \in low..Max(DOMAIN u.headers) : n \notin u.dlH \cup DOMAIN u.headers}
        gap == {n \in missing : \A m \in Min(missing)..n : m \notin DOMAIN u.headers}
        unlisted == {n \in needed : u.headers[n] \notin DOMAIN u.ids}
    IN  CASE DOMAIN u.headers = {} -> u
          [] DOMAIN u.headers # {} /\ needed # {} ->
                [u EXCEPT !.dlB = @ \cup needed, !.bp[p] = needed,
                          !.ids = [b \in DOMAIN @ \cup {u.headers[n] : n \in unlisted} |->
                                      IF b \in DOMAIN @ THEN @[b] ELSE Number[b]],
                          !.req[p] = Bodies({u.headers[n] : n \in needed})]
          [] DOMAIN u.headers # {} /\ needed = {} /\ missing # {} ->
                [u EXCEPT !.dlH = @ \cup gap, !.hp[p] = gap,
                          !.req[p] = ByNumber(Min(gap), Cardinality(gap))]
          [] OTHER -> u

\* syncHeadersAndBodies: only the first peer that is free.
ContinueSync(u, P) ==
    IF Cardinality(u.ready) > QueueGap THEN {ToIdle(ResetTemp(u))}
    ELSE IF Candidates(u, P) = {} THEN {u}
    ELSE {Request(ClearMarks(u, p), p) : p \in Candidates(u, P)}

\* A header joins m_headers; an empty body is made up at once.
AddHeader(u, b) ==
    LET v == [u EXCEPT !.headers = Put(@, Number[b], b)]
    IN  IF b \in Empty THEN [v EXCEPT !.bodies = Put(@, Number[b], b)]
        ELSE [v EXCEPT !.ids = Put(@, b, Number[b])]

\* checkHeader against the neighbours below and above.
Mismatch(u, b) ==
    LET n == Number[b]
    IN  \/ n - 1 \in DOMAIN u.headers /\ u.headers[n - 1] # Parent[b]
        \/ n = u.startN + 1 /\ u.startH # Parent[b]
\* Variant: the bodies above stay.
CutAboveHeaders(u, b) ==
    LET n == Number[b]
        chunk == Chunk(u.headers, n + 1)
    IN  IF n + 1 \in DOMAIN u.headers /\ Parent[u.headers[n + 1]] # b
        THEN [u EXCEPT !.headers = KeepTo(@, n), !.ids = Cut(@, {b}),
                       !.dlH = @ \ chunk, !.dlB = @ \ chunk]
        ELSE u

CutAbove(u, b) ==
    LET n == Number[b]
        chunk == Chunk(u.headers, n + 1)
    IN  IF n + 1 \in DOMAIN u.headers /\ Parent[u.headers[n + 1]] # b
        THEN [u EXCEPT !.headers = KeepTo(@, n), !.bodies = KeepTo(@, n), !.ids = Cut(@, {b}),
                       !.dlH = @ \ chunk, !.dlB = @ \ chunk,
                       !.cut = @ \cup {u.headers[m] : m \in DOMAIN u.headers \ 0..n}]
        ELSE u

\* Variant: the test against the irreversible block alone, as in
\* FindingCommonBlock.
TakeHeaderAnyNew(r, b) ==
    LET skip == Number[b] < r.u.startIrr \/ Number[b] \in DOMAIN r.u.headers
    IN  CASE ~r.ok \/ skip -> r
          [] r.ok /\ ~skip /\ Mismatch(r.u, b) -> [u |-> ResetAll(r.u), ok |-> FALSE]
          [] OTHER -> [u |-> AddHeader(CutAbove(r.u, b), b), ok |-> TRUE]

\* The loop of onPeerBlockHeaders; ok turns FALSE when a header does not fit.
TakeHeader(r, b) ==
    LET skip == Number[b] <= r.u.startN \/ Number[b] < r.u.startIrr
                \/ Number[b] \in DOMAIN r.u.headers
    IN  CASE ~r.ok \/ skip -> r
          [] r.ok /\ ~skip /\ Mismatch(r.u, b) -> [u |-> ResetAll(r.u), ok |-> FALSE]
          [] OTHER -> [u |-> AddHeader(CutAbove(r.u, b), b), ok |-> TRUE]

TakeHeaders(u, reply) ==
    LET taken[i \in 0..Len(reply)] ==
            IF i = 0 THEN [u |-> u, ok |-> TRUE] ELSE TakeHeader(taken[i - 1], reply[i])
    IN  taken[Len(reply)]

\* The loop of onPeerBlockBodies, which takes the bodies of headers that have none.
TakeBodies(u, reply) ==
    LET taken == {b \in reply \cap DOMAIN u.ids : u.ids[b] \in DOMAIN u.headers \ DOMAIN u.bodies}
        numbers == {u.ids[b] : b \in taken}
    IN  [u EXCEPT !.ids = Cut(@, taken),
                  !.bodies = [n \in DOMAIN @ \cup numbers |->
                                 IF n \in DOMAIN @ THEN @[n] ELSE CHOOSE b \in taken : u.ids[b] = n]]

\* collectBlocks: the blocks that follow the start block and are complete go to
\* the queue, one after the other; the start block follows them.
Collected(r, n) ==
    LET b == r.u.headers[n]
        v == QueueImport(r.u, b)
    IN  CASE ~r.ok -> r
          [] r.ok /\ (\/ r.u.bodies[n] # b /\ ~Queued(r.u, b)
                      \/ QueueResult(r.u, b) \in {"UnknownParent", "Irreversible"}) ->
                [u |-> ResetAll(v), ok |-> FALSE]
          [] OTHER -> [u |-> [v EXCEPT !.startN = n, !.startH = b], ok |-> TRUE]
CollectFirst(u, k) ==
    LET run[i \in 0..k] ==
            IF i = 0 THEN [u |-> u, ok |-> TRUE] ELSE Collected(run[i - 1], u.startN + i)
    IN  run[k]
CollectBlocks(u) ==
    LET first == First(u.headers)
        both == Chunk(u.headers, first) \cap Chunk(u.bodies, first)
        complete == DOMAIN u.bodies # {} /\ First(u.bodies) = first /\ first = u.startN + 1
        done == CollectFirst(u, Cardinality(both))
    IN  IF ~complete THEN [u |-> u, ok |-> TRUE]
        ELSE IF ~done.ok THEN done
        ELSE [u |-> [done.u EXCEPT !.headers = Cut(@, both), !.bodies = Cut(@, both)], ok |-> TRUE]

\* The common end of the two handlers.
AfterDownload(u, P) ==
    LET r == CollectBlocks(u)
    IN  IF DOMAIN u.headers = {} THEN {ToIdle(u)}
        ELSE IF ~r.ok \/ DOMAIN r.u.headers = {} THEN {ToIdle(r.u)}
        ELSE ContinueSync(r.u, P)

ToSyncBlocks(u, P) ==
    ContinueSync([u EXCEPT !.cur = "SyncBlocks", !.quiet = 0], P)
-----------------------------------------------------------------------------
(* FindingCommonBlock: one header at a time, downwards.                    *)

\* What Idle and Waiting set before they switch to FindingCommonBlock, with the
\* request for the peer's latest header; requestPeerLatestBlockHeader asks only
\* a legal peer without a request.
StartFinding(u, P, p, n, h) ==
    LET v == [u EXCEPT !.startN = n, !.startH = h, !.startIrr = u.irr,
                       !.expH = P[p].latest, !.expN = 0, !.mixed = FALSE,
                       !.cur = "FindingCommonBlock",
                       !.unexpected = 0, !.quiet = 0, !.silentF = 0]
    IN  IF P[p].legal /\ u.req[p] = NoRequest
        THEN [v EXCEPT !.req[p] = ByHash(P[p].latest)] ELSE v

NextTry(u) == IF DOMAIN u.headers = {} THEN u.startN ELSE Min({u.startN, First(u.headers) - 1})

MoveToNext(u) ==
    [u EXCEPT !.startN = NextTry(u), !.startH = At[best][NextTry(u)],
              !.expN = NextTry(u), !.expH = None]

ContinueFinding(u, P) ==
    LET what == IF u.expH # None THEN ByHash(u.expH) ELSE ByNumber(NextTry(u), 1)
        free == Candidates(u, P)
    IN  IF free = {} THEN {u} ELSE {[ClearMarks(u, p) EXCEPT !.req[p] = what] : p \in free}

\* Variant: only the number is noted.
CommonFoundNumber(u, b) == [u EXCEPT !.startN = Number[b]]

\* Nothing compares b with the header above it.
Apart(u, b) == Number[b] + 1 \in DOMAIN u.headers /\ Parent[u.headers[Number[b] + 1]] # b

\* importBlockHeader with a block that is being imported, ready, or in the chain.
CommonFound(u, b) ==
    [u EXCEPT !.startN = Number[b], !.startH = b, !.mixed = @ \/ Apart(u, b)]

\* onPeerBlockHeaders with one header.
FindingHeader(u, P, b) ==
    LET n == Number[b]
        expected == u.expH = b \/ u.expN = n
        common == b \in u.ready \cup chain
        found == CommonFound(u, b)
        added == AddHeader([u EXCEPT !.mixed = @ \/ Apart(u, b)], b)
    IN  IF ~expected
        THEN IF u.unexpected >= MaxUnexpected THEN {ToIdle([u EXCEPT !.unexpected = 0])}
             ELSE ContinueFinding([u EXCEPT !.unexpected = @ + 1], P)
        ELSE IF n < u.startIrr THEN {ToIdle(u)}
        ELSE IF n \in DOMAIN u.headers THEN ContinueFinding(u, P)
        ELSE IF common
        THEN IF DOMAIN u.headers = {} THEN {ToIdle(found)} ELSE ToSyncBlocks(found, P)
        ELSE IF n = u.startIrr THEN {ToIdle(added)}
        ELSE ContinueFinding(MoveToNext(added), P)

\* keepAlive of the state object that handles the message.
KeepAlive(u, P, cur) ==
    CASE cur = "FindingCommonBlock" /\ u.silentF >= 1 ->
            {[v EXCEPT !.silentF = 0] : v \in ContinueFinding(u, P)}
      [] cur = "SyncBlocks" /\ u.silentS >= 1 ->
            {[v EXCEPT !.silentS = 0] : v \in ContinueSync(u, P)}
      [] OTHER -> {u}
-----------------------------------------------------------------------------
(* Messages from peers.  A handler yields the states it may leave; the     *)
(* peers it disconnects are handled by the actions.                        *)

\* Headers, in ascending order.
OnHeaders(u, P, p, reply) ==
    LET cur == u.cur
        fresh == CASE cur = "FindingCommonBlock" -> [u EXCEPT !.silentF = 0]
                   [] cur = "SyncBlocks" -> [u EXCEPT !.silentS = 0]
                   [] OTHER -> u
        v == ClearMarks(UpdateTimeout(fresh), p)
        r == TakeHeaders(v, reply)
    IN  CASE cur = "Waiting" /\ u.wait = 0 -> {ToIdle(u)}
          [] cur = "Idle" \/ (cur = "Waiting" /\ u.wait # 0) -> {UpdateTimeout(u)}
          [] cur \in {"FindingCommonBlock", "SyncBlocks"} /\ TimedOut(u) -> {UpdateTimeout(fresh)}
          [] cur = "FindingCommonBlock" /\ ~TimedOut(u) ->
                IF reply = <<>> THEN {v}
                ELSE IF Len(reply) = 1 THEN FindingHeader(v, P, reply[1])
                ELSE ContinueFinding(v, P)
          [] cur = "SyncBlocks" /\ ~TimedOut(u) ->
                IF r.ok THEN AfterDownload(r.u, P) ELSE {ToIdle(r.u)}

OnBodies(u, P, p, reply) ==
    LET cur == u.cur
        fresh == IF cur = "SyncBlocks" THEN [u EXCEPT !.silentS = 0] ELSE u
        v == ClearMarks(UpdateTimeout(fresh), p)
    IN  CASE cur = "Waiting" /\ u.wait = 0 -> {ToIdle(u)}
          [] cur = "Idle" \/ (cur = "Waiting" /\ u.wait # 0) -> {UpdateTimeout(u)}
          [] cur = "FindingCommonBlock" -> KeepAlive(UpdateTimeout(u), P, cur)
          [] cur = "SyncBlocks" ->
                IF TimedOut(u) THEN {UpdateTimeout(fresh)}
                ELSE AfterDownload(TakeBodies(v, reply), P)

\* peerLegalCheck: the peer's irreversible block is on the node's chain, or ahead.
LegalPeer(u, P, p) == P[p].told <= u.irr => At[P[p].head][P[p].told] = At[best][P[p].told]

\* onPeerStatus after the legality check has been noted in P.
OnStatus(u, P, p) ==
    LET v == UpdateTimeout(u)
        slow == u.irr < P[p].told /\ u.boot
    IN  CASE u.cur = "Waiting" /\ u.wait = 0 -> {ToIdle(u)}
          [] u.cur = "Idle" ->
                IF ~P[p].legal \/ P[p].told < u.irr \/ Cardinality(u.ready) > FewKnown
                   \/ Queued(u, P[p].latest)
                THEN {v}
                ELSE {StartFinding([v EXCEPT !.boot = @ /\ ~slow, !.lock = @ \/ slow], P, p,
                                   u.impN, u.impH)}
          [] OTHER -> KeepAlive(v, P, u.cur)

\* onPeerNewBlock outside Idle: the block goes to the queue if it is above the
\* irreversible block of the sync.
Ignored(u, told, b) == told < u.startIrr \/ Queued(u, b) \/ Number[b] <= u.startIrr
DefaultNewBlock(u, told, b) ==
    LET v == UpdateTimeout(u) IN IF Ignored(u, told, b) THEN v ELSE QueueImport(v, b)

\* IdleSyncState::onPeerNewBlock.
IdleNewBlock(u, P, p, b) ==
    LET n == Number[b]
        v == [u EXCEPT !.quiet = 0]
        far == n > u.impN + 1
        slow == n < u.impN /\ P[p].told > u.irr
        result == QueueResult(u, b)
    IN  IF P[p].told < u.irr \/ Queued(u, b) THEN v
        ELSE IF far
        THEN IF Cardinality(u.ready) < FewKnown THEN StartFinding(v, P, p, u.impN, u.impH) ELSE v
        ELSE IF slow THEN [ResetTemp(v) EXCEPT !.cur = "Waiting", !.lock = TRUE, !.wait = 1]
        ELSE IF result = "Success"
        THEN IF n > u.impN THEN [QueueImport(v, b) EXCEPT !.impN = n, !.impH = b]
             ELSE QueueImport(v, b)
        ELSE IF result = "UnknownParent" THEN StartFinding(QueueImport(v, b), P, p, u.impN, u.impH)
        ELSE IF result = "Irreversible" THEN ResetAll(v)
        ELSE v

\* WaitingSyncState::onPeerNewBlock when the time is over.
WaitedNewBlock(u, P, p, b) ==
    IF P[p].told < u.irr \/ Queued(u, b) THEN u
    ELSE [StartFinding(u, P, p, u.irr, At[best][u.irr]) EXCEPT !.lock = TRUE]

OnNewBlock(u, P, p, b) ==
    CASE u.cur = "Idle" -> {IdleNewBlock(u, P, p, b)}
      [] u.cur = "Waiting" /\ u.wait = 0 -> {WaitedNewBlock(u, P, p, b)}
      [] OTHER -> KeepAlive(DefaultNewBlock(u, P[p].told, b), P, u.cur)

\* A block below the irreversible one that the node does not know ends the
\* connection.
Disabled(u, P, p, b) ==
    /\ QueueResult(u, b) = "Irreversible"
    /\ \/ u.cur = "Idle" /\ P[p].told >= u.irr /\ ~(Number[b] < u.impN /\ P[p].told > u.irr)
       \/ u.cur \notin {"Idle", "Waiting"} /\ ~Ignored(u, P[p].told, b)
       \/ u.cur = "Waiting" /\ u.wait # 0 /\ ~Ignored(u, P[p].told, b)
-----------------------------------------------------------------------------
(* Actions.                                                                *)

\* The session is gone with its request; onPeerAborting leaves the download
\* marks, and a new session is another key of the maps that would clear them.
Gone(u, p) == [u EXCEPT !.req[p] = NoRequest, !.hp[p] = {}, !.bp[p] = {}]
Off(q) == [q EXCEPT !.on = FALSE, !.legal = FALSE]

Disconnect(p) ==
    /\ peer[p].on
    /\ lost < MaxDisconnects
    /\ lost' = lost + 1
    /\ peer' = [peer EXCEPT ![p] = Off(@)]
    /\ s' = Gone(s, p)
    /\ UNCHANGED <<chain, best>>

\* The status packet of a new session.
Status(p) == [peer EXCEPT ![p].on = TRUE, ![p].told = Irreversible(peer[p].head),
                          ![p].latest = peer[p].head]
Connect(p) ==
    /\ ~peer[p].on
    /\ LET skipped == s.cur = "Waiting" /\ s.wait = 0
           legal == ~skipped /\ LegalPeer(s, Status(p), p)
           P == [Status(p) EXCEPT ![p].legal = legal, ![p].on = skipped \/ legal]
       IN  /\ peer' = P
           /\ s' \in OnStatus(s, P, p)
    /\ UNCHANGED <<chain, best, lost>>

\* The peer answers from the chain it has now: EthereumHostData::blockHeaders
\* gives the block of its best chain with the number of the hash, if it knows it.
Headers(q, r) ==
    CASE r.kind = "hash" -> IF r.block \in q.has THEN <<At[q.head][Number[r.block]]>> ELSE <<>>
      [] r.kind = "number" ->
            [i \in 1..Max({0, Min({r.count, Number[q.head] - r.from + 1})}) |-> At[q.head][r.from + i - 1]]

Reply(p) ==
    /\ s.req[p] # NoRequest
    /\ LET u == [s EXCEPT !.req[p] = NoRequest]
       IN  s' \in IF s.req[p].kind = "bodies"
                  THEN OnBodies(u, peer, p, s.req[p].blocks \cap peer[p].has)
                  ELSE OnHeaders(u, peer, p, Headers(peer[p], s.req[p]))
    /\ UNCHANGED <<chain, best, peer, lost>>

\* The peer's best block, an old one again or a new one, arrives.
NewBlock(p, b) ==
    /\ peer[p].legal
    /\ b = peer[p].head \/ Number[b] > Number[peer[p].head]
    /\ LET P == [peer EXCEPT ![p].head = b, ![p].has = @ \cup Path(b), ![p].latest = b,
                             ![p].told = Irreversible(b)]
           gone == Disabled(s, P, p, b)
       IN  /\ peer' = IF gone THEN [P EXCEPT ![p] = Off(@)] ELSE P
           /\ \E u \in OnNewBlock(s, P, p, b) : s' = IF gone THEN Gone(u, p) ELSE u
    /\ UNCHANGED <<chain, best, lost>>

\* The client imports a block of the queue; onBlockImported.
ImportBlock(b) ==
    /\ b \in s.ready /\ Parent[b] \in chain
    /\ chain' = chain \cup {b}
    /\ best' = IF Number[b] > Number[best] THEN b ELSE best
    /\ LET n == Number[b]
           irr == Irreversible(best')
           new == IF n > s.impN THEN [s EXCEPT !.impN = n, !.impH = b] ELSE s
           told == IF irr > s.irr THEN [new EXCEPT !.irr = irr, !.impH = At[best'][irr]] ELSE new
       IN  s' = [told EXCEPT !.ready = @ \ {b}]
    /\ UNCHANGED <<peer, lost>>

\* Five seconds.  The timers of a state that is entered anew start from zero, so
\* they are kept only while it lasts; m_lastBlockMsgTimePoint is not reset.
Elapse ==
    /\ s' = [s EXCEPT !.quiet = IF s.cur \in {"Idle", "Waiting"} THEN 0 ELSE Min({2, @ + 1}),
                      !.silentF = IF s.cur = "FindingCommonBlock" THEN 1 ELSE 0,
                      !.silentS = 1,
                      !.wait = Max({0, @ - 1})]
    /\ UNCHANGED <<chain, best, peer, lost>>

Next ==
    \/ \E p \in Peers : Connect(p) \/ Disconnect(p) \/ Reply(p) \/ \E b \in Blocks : NewBlock(p, b)
    \/ \E b \in Blocks : ImportBlock(b)
    \/ Elapse

Spec == Init /\ [][Next]_vars
-----------------------------------------------------------------------------
(* Fairness.  A peer answers its request, legal peers stay connected or    *)
(* come back and go on announcing blocks, the client empties the queue,    *)
(* time passes.  The first two lines are weak fairness of Reply and of     *)
(* NewBlock with the condition that enables a step written out.            *)

Fairness ==
    /\ \A p \in Peers :
          /\ []<>(s.req[p] = NoRequest) \/ []<><<Reply(p)>>_vars
          /\ []<>(~peer[p].legal \/ s.quiet = 0) \/ []<><<NewBlock(p, peer[p].head)>>_vars
          /\ []<>(peer[p].on \/ ~LegalPeer(s, Status(p), p))
    /\ []<>(s.ready = {})
    /\ WF_vars(Elapse)

FairSpec == Spec /\ Fairness
-----------------------------------------------------------------------------
(* Properties.                                                             *)

Numbers == 1..MaxNumber
WellFormed(r) ==
    \/ r = NoRequest
    \/ r.kind = "hash" /\ r.block \in Blocks
    \/ r.kind = "number" /\ r.from \in 0..MaxNumber /\ r.count \in Numbers
    \/ r.kind = "bodies" /\ r.blocks \subseteq Blocks \ Empty

\* The state of the synchronisation and the requests it sends have their types; in
\* particular no body is asked for that an empty one stands for, and no header
\* beyond those that were announced (syncHeadersAndBodies).
TypeOK ==
    /\ s.cur \in {"Idle", "Waiting", "FindingCommonBlock", "SyncBlocks"}
    /\ DOMAIN s.headers \cup DOMAIN s.bodies \cup s.dlH \cup s.dlB \subseteq Numbers
    /\ s.ready \cup s.unknown \subseteq Blocks \ chain /\ s.ready \cap s.unknown = {}
    /\ best \in chain /\ s.startN \in 0..MaxNumber
    /\ \A p \in Peers : WellFormed(s.req[p])

\* "Got headers while not syncing", "Got bodies while not syncing"
\* (BlockChainSync::invariants): once the machine is back in Idle, nothing of the
\* last download is left to be mixed into the next, and production is unlocked.
IdleIsClean ==
    /\ s.cur \in {"Idle", "Waiting"} =>
          DOMAIN s.headers \cup DOMAIN s.bodies \cup DOMAIN s.ids \cup s.dlH \cup s.dlB = {}
    /\ s.cur = "Idle" => ~s.lock

\* While blocks are downloaded, the block they are to be attached to is one the
\* node has, in its chain or ready in the queue, at the number noted for it; so
\* collectBlocks attaches the first block it completes.  The pair comes from
\* m_lastImportedBlock and its hash, which need not belong together.  It may wait
\* in the queue for its own parent only after peers on different branches have
\* answered while the common block was looked for.
StartIsKnown ==
    s.cur = "SyncBlocks" =>
       /\ s.startH \in s.ready \cup chain \cup IF s.mixed THEN s.unknown ELSE {}
       /\ Number[s.startH] = s.startN

\* Every body is kept under the number of its own header ("assert(m_bodies.empty())"
\* without headers): late answers, a fork met on the way and a restarted sync pair it
\* with another block's header only if its own was cut off at a fork, where checkHeader
\* leaves the ids of the headers it deletes.
BodyOfItsHeader ==
    \A n \in DOMAIN s.bodies :
       n \in DOMAIN s.headers /\ (s.bodies[n] = s.headers[n] \/ s.bodies[n] \in s.cut)

\* Without that exception: the start block is attached to the chain.
StartIsAttached == s.cur = "SyncBlocks" => s.startH \in s.ready \cup chain

\* While blocks are downloaded, the headers kept are above the start block ("Header
\* is too old"), so the first of them is what collectBlocks waits for.
HeadersAboveStart == s.cur = "SyncBlocks" => \A n \in DOMAIN s.headers : n > s.startN

\* A sync comes to an end: an empty block needs no more than the body made up for it
\* ("just make an empty body", BlockChainSyncState.cpp:1394) and a state that gets
\* nowhere is left after ten seconds.
SyncEnds == []<>(s.cur \in {"Idle", "Waiting"})
=============================================================================
