-------------------------------- MODULE Votes --------------------------------
(***************************************************************************)
(* The vote contracts: candidateRegister, candidateDeregister, mortgage,   *)
(* redeem, send, vote and removeVote, run one at a time as transactions,   *)
(* each loading the records it needs from the storage of VoteInfoAddress   *)
(* and saving them back.                                                   *)
(*                                                                         *)
(* A stored record is the header (candidate flag, votes held and received) *)
(* and the vote entries it counts.  The words of a longer record that lie  *)
(* behind the last one written stay in storage, but load stops at the      *)
(* count, so they are left out; so are names, URLs, gas and payments.      *)
(***************************************************************************)
EXTENDS Integers, FiniteSets, Totals

CONSTANTS Accounts,       \* addresses
          MaxRecords,     \* 15
          VotesPreEth,    \* VOTES_PRE_ETH: money per vote
          Word,           \* 2^64: how many values a uint64_t has
          InitialBalance  \* account -> money at the start

Supply == Total(InitialBalance)

\* The votes all the money buys fit a uint64_t, so only the product of votes
\* and VOTES_PRE_ETH can wrap.
ASSUME VotesAssumption ==
    /\ IsFiniteSet(Accounts) /\ MaxRecords \in Nat \ {0}
    /\ VotesPreEth \in Nat \ {0} /\ Word \in Nat \ {0}
    /\ InitialBalance \in [Accounts -> Nat]
    /\ Supply \div VotesPreEth < Word

VARIABLES balance, \* account -> money
          storage  \* account -> its stored record

vars == <<balance, storage>>

Blank == [isCandidate |-> FALSE, holdVotes |-> 0, receivedVote |-> 0, voteRecord |-> <<>>]

Init ==
    /\ balance = InitialBalance
    /\ storage = [a \in Accounts |-> Blank]

Load(st, a) == st[a]

\* save: removeZeroVote, then every entry that is left.
Save(st, a, info) ==
    LET kept == {to \in DOMAIN info.voteRecord : info.voteRecord[to] # 0}
    IN  [st EXCEPT ![a] = [info EXCEPT !.voteRecord = [to \in kept |-> @[to]]]]

\* A record's votes for an account, 0 if it has no entry.
VotesFor(info, to) == IF to \in DOMAIN info.voteRecord THEN info.voteRecord[to] ELSE 0

\* operator[] of the map: the entry is made if it is missing.
SetVotes(info, to, n) ==
    [info EXCEPT !.voteRecord = [x \in DOMAIN @ \cup {to} |-> IF x = to THEN n ELSE @[x]]]

\* Variant: the records of candidates only.
Stored_candidates(st) == {a \in Accounts : st[a].isCandidate}

\* The accounts whose first storage word is not zero: those getVoteInfoMap finds.
Stored(st) ==
    {a \in Accounts : st[a].voteRecord # <<>> \/ st[a].isCandidate \/ st[a].holdVotes # 0
                      \/ st[a].receivedVote # 0}

\* getProducerMap: what the producer election reads.
ProducerMap(st) == [c \in {a \in Stored(st) : st[a].isCandidate} |-> st[c].receivedVote]

CandidateRegister(sender) ==
    /\ ~Load(storage, sender).isCandidate
    /\ storage' = Save(storage, sender, [Load(storage, sender) EXCEPT !.isCandidate = TRUE])
    /\ UNCHANGED balance

\* Every stored account gets the votes it gave the candidate back.
Returned(st, cand) ==
    [a \in Accounts |->
        IF a \in Stored(st)
        THEN LET info == Load(st, a)
                 n == VotesFor(info, cand)
             IN  Save(st, a, SetVotes([info EXCEPT !.holdVotes = @ + n], cand, 0))[a]
        ELSE st[a]]

\* Variant: the candidate leaves and the votes stay where they are.
CandidateDeregister_keeps(sender) ==
    LET info == Load(storage, sender)
    IN  /\ info.isCandidate
        /\ storage' = Save(storage, sender,
                           [info EXCEPT !.isCandidate = FALSE, !.receivedVote = 0])
        /\ UNCHANGED balance

\* Variant: the record loaded at the start is saved at the end.
CandidateDeregister_stale(sender) ==
    LET info == Load(storage, sender)
    IN  /\ info.isCandidate
        /\ storage' = Save(Returned(storage, sender), sender,
                           [info EXCEPT !.isCandidate = FALSE, !.receivedVote = 0])
        /\ UNCHANGED balance

\* The sender's record is loaded again after the loop, which may have changed it.
CandidateDeregister(sender) ==
    LET after == Returned(storage, sender)
    IN  /\ Load(storage, sender).isCandidate
        /\ storage' = Save(after, sender, [Load(after, sender) EXCEPT !.isCandidate = FALSE,
                                                                       !.receivedVote = 0])
        /\ UNCHANGED balance

\* Money is taken for whole votes only.
Mortgage(sender, money) ==
    LET votes == money \div VotesPreEth
        info == Load(storage, sender)
    IN  /\ balance[sender] >= money
        /\ balance' = [balance EXCEPT ![sender] = @ - votes * VotesPreEth]
        /\ storage' = Save(storage, sender, [info EXCEPT !.holdVotes = @ + votes])

\* The money is computed as a uint64_t.
Redeem(sender, votes) ==
    LET info == Load(storage, sender)
    IN  /\ info.holdVotes >= votes
        /\ balance' = [balance EXCEPT ![sender] = @ + ((votes * VotesPreEth) % Word)]
        /\ storage' = Save(storage, sender, [info EXCEPT !.holdVotes = @ - votes])

\* Both records are loaded before either is saved.
Transfer(sender, to, votes) ==
    LET from == Load(storage, sender)
        dest == Load(storage, to)
    IN  /\ from.holdVotes >= votes
        /\ storage' = Save(Save(storage, sender, [from EXCEPT !.holdVotes = @ - votes]),
                           to, [dest EXCEPT !.holdVotes = @ + votes])
        /\ UNCHANGED balance

\* Variant: no test for a transfer to oneself.
Send_self(sender, to, votes) == Transfer(sender, to, votes)

Send(sender, to, votes) == sender # to /\ Transfer(sender, to, votes)

\* The other candidate's record is saved with the votes it has received from now on.
Tally(st, to, votes) ==
    LET info == Load(st, to)
    IN  Save(st, to, [info EXCEPT !.receivedVote = @ + votes])

\* vote and removeVote once the call is allowed: a self-vote changes one record.
Move(sender, to, votes) ==
    LET info == Load(storage, sender)
        self == IF to = sender THEN votes ELSE 0
        st == IF to = sender THEN storage ELSE Tally(storage, to, votes)
    IN  storage' = Save(st, sender,
                        SetVotes([info EXCEPT !.holdVotes = @ - votes, !.receivedVote = @ + self],
                                 to, VotesFor(info, to) + votes))

\* Variant: no limit on the entries of a record.
Vote_unbounded(sender, to, votes) ==
    /\ Load(storage, sender).holdVotes >= votes
    /\ Load(storage, to).isCandidate
    /\ Move(sender, to, votes)
    /\ UNCHANGED balance

Vote(sender, to, votes) ==
    LET info == Load(storage, sender)
    IN  /\ info.holdVotes >= votes
        /\ Cardinality(DOMAIN info.voteRecord) < MaxRecords \/ to \in DOMAIN info.voteRecord
        /\ Load(storage, to).isCandidate
        /\ Move(sender, to, votes)
        /\ UNCHANGED balance

RemoveVote(sender, to, votes) ==
    LET info == Load(storage, sender)
    IN  /\ to \in DOMAIN info.voteRecord /\ info.voteRecord[to] >= votes
        /\ Load(storage, to).isCandidate
        /\ Move(sender, to, -votes)
        /\ UNCHANGED balance

\* A call that is refused changes nothing; the arguments are uint64_t.
Next ==
    \E sender \in Accounts :
        \/ CandidateRegister(sender)
        \/ CandidateDeregister(sender)
        \/ \E n \in 0..(Word - 1) : Mortgage(sender, n) \/ Redeem(sender, n)
        \/ \E to \in Accounts, n \in 0..(Word - 1) :
               Send(sender, to, n) \/ Vote(sender, to, n) \/ RemoveVote(sender, to, n)

Spec == Init /\ [][Next]_vars

------------------------------------------------------------------------------

TypeOK ==
    /\ balance \in [Accounts -> Nat]
    /\ \A a \in Accounts :
           /\ storage[a].isCandidate \in BOOLEAN
           /\ storage[a].holdVotes \in 0..(Word - 1)
           /\ storage[a].receivedVote \in 0..(Word - 1)
           /\ DOMAIN storage[a].voteRecord \subseteq Accounts
           /\ \A to \in DOMAIN storage[a].voteRecord : storage[a].voteRecord[to] \in 1..(Word - 1)

Given(v, c) == VotesFor(Load(storage, v), c)

Book == INSTANCE VoteBook
    WITH candidate <- [a \in Accounts |-> storage[a].isCandidate],
         hold <- [a \in Accounts |-> storage[a].holdVotes],
         given <- [v \in Accounts |-> [c \in Accounts |-> Given(v, c)]],
         Amounts <- 1..(Word - 1)

\* Loading and saving one or two records at a time, and the loop over all of
\* them when a candidate leaves, come out as one change of the plain book of
\* held and given votes.
ImplementsBook == Book!Spec

\* candidateDeregister leaves no vote with an account that is no candidate, a
\* vote for itself included.
GivenToCandidates == Book!GivenToCandidates

\* vote never makes an entry past the limit, whatever was removed before.
RecordsBounded == Book!RecordsBounded

\* What the election reads is the sum of what the voters' records say, kept in
\* step by vote, removeVote and candidateDeregister in different records.
ReceivedIsGiven ==
    /\ \A c \in DOMAIN ProducerMap(storage) :
           ProducerMap(storage)[c] = Total([v \in Accounts |-> Given(v, c)])
    /\ \A a \in Accounts \ DOMAIN ProducerMap(storage) : storage[a].receivedVote = 0

Wealth ==
    Total([a \in Accounts |-> balance[a] + VotesPreEth *
               (storage[a].holdVotes + Total([c \in Accounts |-> Given(a, c)]))])

\* No sequence of calls makes money or votes out of nothing.
NothingMinted == Wealth <= Supply

\* "Redeem 50 votes with 0.5 eth" (test/tools/jsontests/DposTests.cpp): votes can
\* always be turned back into the money that bought them.
MoneyKept == Wealth = Supply

=============================================================================
