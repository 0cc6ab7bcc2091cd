--------------------------- MODULE ProducerRounds ---------------------------
(***************************************************************************)
(* The election of producers, block by block: the votes of the parent      *)
(* block's state are carried into the ProducerVotesObjects, POW workers    *)
(* are queued, and at the end of a round calculateNextRound deals the      *)
(* seats and moves the virtual race on.                                    *)
(*                                                                         *)
(* One branch is enough: reverting to a block restores these tables        *)
(* (ProducerDatabaseProofs) and rebuilds _all_votes, which is what         *)
(* ReloadVotes does at that block.  An account is its address, a number,   *)
(* because maps are walked in address order.                               *)
(***************************************************************************)
EXTENDS Integers, Sequences, FiniteSets, FiniteSetsExt

CONSTANTS Accounts,               \* addresses, numbers above 0
          InitialProducers,       \* chainParams().initialProducers
          None,                   \* no object, no entry
          DPOSVotedProducersPerRound, DPOSRunnerupProducersPerRound,
          POWProducersPerRound, TotalProducersPerRound,
          StartMinerVotingBlock,
          RaceLapLength,          \* 2^128 - 1: lap length and last race time
          MaxVotes,               \* bound: votes of an account
          Voters,                 \* bound: accounts whose vote records change
          MaxPowOps,              \* bound: accepted works in a block
          MaxNumber               \* bound: block number

Empty == 0                        \* AccountName()

\* A ProducerVotesObject: its id, its votes, and where it is in the race.
ProducerVotes == [id : Nat, speed : Int, position : Nat, time : Nat, finish : Nat]

ASSUME AccountsAssumption ==
    /\ IsFiniteSet(Accounts) /\ Accounts \subseteq Nat \ {0}
    /\ None \notin Nat \cup ProducerVotes
    /\ Voters \subseteq Accounts
    /\ InitialProducers \subseteq Accounts /\ InitialProducers # {}
    /\ MaxVotes \in Nat /\ RaceLapLength \in Nat
ASSUME SeatsAssumption ==
    /\ DPOSVotedProducersPerRound \in Nat \ {0} /\ DPOSRunnerupProducersPerRound \in Nat
    /\ POWProducersPerRound \in Nat /\ TotalProducersPerRound \in Nat
    /\ DPOSVotedProducersPerRound + DPOSRunnerupProducersPerRound
           + POWProducersPerRound <= TotalProducersPerRound
    /\ Cardinality(InitialProducers) <= TotalProducersPerRound

VARIABLES info,               \* VoteInfo records in the head block's state
          counted,            \* the same in its parent's state
          all_votes,          \* _all_votes
          pvo,                \* ProducerVotesObject by owner
          next_id,            \* the next ProducerVotesObject id
          currentRaceTime,
          pow_worker,         \* producer_object.pow_worker by owner
          total_pow, num_pow_witnesses,
          head_block_number,
          active_producers,
          strays              \* history: accounts init_allvotes entered that have no pvo

vars == <<info, counted, all_votes, pvo, next_id, currentRaceTime, pow_worker,
          total_pow, num_pow_witnesses, head_block_number, active_producers, strays>>

VoteInfo == [candidate : {TRUE}, votes : 0..MaxVotes]
                \cup [candidate : {FALSE}, votes : {0}]
NoInfo == [a \in Accounts |-> None]

\* a's place, from 1, among the accounts of S in address order.
Place(a, S) == Cardinality({b \in S : b <= a})

\* S as a sequence in the order of an index, given as the pairs it puts in order.
Ordered(S, order) ==
    CHOOSE s \in Injection(1..Cardinality(S), S) :
        \A i, j \in DOMAIN s : i < j => <<s[i], s[j]>> \in order

WithEmpty(s) == s \o [i \in 1..(TotalProducersPerRound - Len(s)) |-> Empty]
-----------------------------------------------------------------------------
(* The virtual race.                                                       *)

\* Distance left over speed; a producer with no votes never finishes.
TimeToFinish(speed, position) ==
    IF speed > 0 THEN (RaceLapLength - position) \div speed ELSE RaceLapLength

\* race.update throws overflow_error.
Overflows(speed, position, time) == time > RaceLapLength - TimeToFinish(speed, position)

Raced(id, speed, position, time) ==
    [id |-> id, speed |-> speed, position |-> position, time |-> time,
     finish |-> time + TimeToFinish(speed, position)]

startNewRaceLap(o, time) == Raced(o.id, o.speed, 0, time)

\* The position updateVotes gives a producer at the current race time.
Position(o) == (o.position + o.speed * (currentRaceTime - o.time)) % (RaceLapLength + 1)

Init ==
    /\ info = NoInfo /\ counted = NoInfo /\ all_votes = NoInfo
    /\ pvo = [a \in Accounts |-> IF a \notin InitialProducers THEN None
                ELSE [id |-> Place(a, InitialProducers) - 1, speed |-> 0, position |-> 0,
                      time |-> 0, finish |-> RaceLapLength]]
    /\ next_id = Cardinality(InitialProducers)
    /\ currentRaceTime = 0
    /\ pow_worker = [a \in Accounts |-> IF a \in InitialProducers THEN 0 ELSE None]
    /\ total_pow = 0 /\ num_pow_witnesses = 0 /\ head_block_number = 0
    /\ active_producers = WithEmpty(Ordered(InitialProducers,
           {p \in Accounts \X Accounts : p[1] < p[2]}))
    /\ strays = {}
-----------------------------------------------------------------------------
(* update_pow: the owners of accepted works that are neither registered    *)
(* nor queued join the queue in address order.                             *)

\* Variant: registered accounts may queue.
NewWorkers_any(ops) == {a \in ops : pow_worker[a] \in {None, 0}}

NewWorkers(ops) == {a \in ops : pvo[a] = None /\ pow_worker[a] \in {None, 0}}

\* Variant: a worker gets the number total_pow had before it.
QueueAfterPow_before(ops) ==
    [a \in Accounts |->
        IF a \in NewWorkers(ops) THEN total_pow + Place(a, NewWorkers(ops)) - 1
        ELSE pow_worker[a]]

QueueAfterPow(ops) ==
    [a \in Accounts |->
        IF a \in NewWorkers(ops) THEN total_pow + Place(a, NewWorkers(ops))
        ELSE pow_worker[a]]
-----------------------------------------------------------------------------
(* update_pvomi_perblock.                                                  *)

Candidates == {a \in Accounts : info[a] # None /\ info[a].candidate}
Created == {a \in Candidates : all_votes[a] = None}
Updated == {a \in Candidates : all_votes[a] \notin {None, info[a].votes}}
Inactive == {a \in Accounts : all_votes[a] # None /\ info[a] = None}

NewSpeed(a) == pvo[a].speed + info[a].votes - all_votes[a]

\* Nothing is created twice, looked up in vain, or out of race time.
VotesApply ==
    /\ \A a \in Updated :
          pvo[a] # None /\ ~Overflows(NewSpeed(a), Position(pvo[a]), currentRaceTime)
    /\ \A a \in Created : pvo[a] = None /\ ~Overflows(0, 0, currentRaceTime)
    /\ \A a \in Inactive : pvo[a] # None

PvoAfterVotes ==
    [a \in Accounts |->
        IF a \in Inactive THEN None
        ELSE IF a \in Created
             THEN Raced(next_id + Place(a, Created) - 1, 0, 0, currentRaceTime)
        ELSE IF a \in Updated
             THEN Raced(pvo[a].id, NewSpeed(a), Position(pvo[a]), currentRaceTime)
        ELSE pvo[a]]

\* Variant: a registered account stays queued.
QueueAfterVotes_stays(queue) ==
    [a \in Accounts |-> IF a \in Created /\ queue[a] = None THEN 0 ELSE queue[a]]

\* A registered account leaves the POW queue.
QueueAfterVotes(queue) == [a \in Accounts |-> IF a \in Created THEN 0 ELSE queue[a]]

\* Variant: every record is entered, as init_allvotes does.
AllVotesAfter_records ==
    [a \in Accounts |-> IF info[a] = None THEN None ELSE info[a].votes]

AllVotesAfter ==
    [a \in Accounts |-> IF a \in Inactive THEN None
                        ELSE IF a \in Candidates THEN info[a].votes ELSE all_votes[a]]
-----------------------------------------------------------------------------
(* calculateNextRound.                                                     *)

Registered(o) == {a \in Accounts : o[a] # None}
Queued(queue) == {a \in Accounts : queue[a] \notin {None, 0}}

MoreVotes(o, a, b) ==
    o[a].speed > o[b].speed \/ (o[a].speed = o[b].speed /\ o[a].id > o[b].id)
byVotes(o) ==
    Ordered(Registered(o), {p \in Registered(o) \X Registered(o) : MoreVotes(o, p[1], p[2])})

FinishesBefore(o, a, b) ==
    o[a].finish < o[b].finish \/ (o[a].finish = o[b].finish /\ o[a].id < o[b].id)
byProjectedRaceFinishTime(o, S) ==
    Ordered(S, {p \in S \X S : FinishesBefore(o, p[1], p[2])})

by_pow(queue, S) == Ordered(S, {p \in S \X S : queue[p[1]] < queue[p[2]]})

First(s, n) == SubSeq(s, 1, IF n < Len(s) THEN n ELSE Len(s))

TopVoted(o) == First(byVotes(o), DPOSVotedProducersPerRound)

\* Variant: a top-voted producer can also be the runner-up.
RunnersUp_any(o) ==
    First(byProjectedRaceFinishTime(o, Registered(o)), DPOSRunnerupProducersPerRound)

RunnersUp(o) ==
    First(byProjectedRaceFinishTime(o, Registered(o) \ Range(TopVoted(o))),
          DPOSRunnerupProducersPerRound)

\* Variant: no DPOS seats in the opening phase, found POW or not.
DealsDpos_late(number, witnesses) == number > StartMinerVotingBlock

\* The DPOS seats are dealt once the opening phase is over, or while nobody
\* has found a POW.
DealsDpos(number, witnesses) == witnesses = 0 \/ number > StartMinerVotingBlock

\* A queue longer than a round loses its first worker.
Overfull(witnesses) == witnesses > TotalProducersPerRound
QueueAfterPop(queue, witnesses) ==
    IF Overfull(witnesses) /\ Queued(queue) # {}
    THEN [queue EXCEPT ![Head(by_pow(queue, Queued(queue)))] = 0] ELSE queue

PowSeats(number, taken) ==
    IF number > StartMinerVotingBlock THEN POWProducersPerRound
    ELSE TotalProducersPerRound - taken

\* The workers the loop over the queue takes out: all up to the one that fills
\* the last seat; registered ones get none.
Visited(o, waiting, seats) ==
    LET miners(n) == {i \in 1..n : o[waiting[i]] = None}
        ends == {n \in 0..Len(waiting) : n = 0 \/ Cardinality(miners(n - 1)) < seats}
    IN  First(waiting, Max(ends))

\* Variant: only the winner of the race starts a new lap.
RaceAfter_winner(o, runners) ==
    LET last == runners[Len(runners)]
        final == o[last].finish
        laps == /\ {last} # Registered(o)
                /\ final < RaceLapLength
                /\ ~Overflows(o[last].speed, 0, final)
        time == IF laps THEN final ELSE 0
        restarted == IF laps THEN {last} ELSE Registered(o)
    IN  [pvo |-> [a \in Accounts |->
                    IF a \in restarted THEN startNewRaceLap(o[a], time) ELSE o[a]],
         time |-> time]

\* Lap completers start again at the time the last runner-up finishes; with no
\* one left behind, or no time left, the race starts over.
RaceAfter(o, runners) ==
    LET last == runners[Len(runners)]
        final == o[last].finish
        completers == {a \in Registered(o) : a = last \/ FinishesBefore(o, a, last)}
        laps == /\ completers # Registered(o)
                /\ final < RaceLapLength
                /\ \A a \in completers : ~Overflows(o[a].speed, 0, final)
        time == IF laps THEN final ELSE 0
        restarted == IF laps THEN completers ELSE Registered(o)
    IN  [pvo |-> [a \in Accounts |->
                    IF a \in restarted THEN startNewRaceLap(o[a], time) ELSE o[a]],
         time |-> time]

\* The seats dealt, in the order before the shuffle, which nothing here reads.
calculateNextRound(o, queue, witnesses, number) ==
    LET deals == DealsDpos(number, witnesses)
        runners == IF deals THEN RunnersUp(o) ELSE <<>>
        dpos == IF deals THEN TopVoted(o) \o runners ELSE <<>>
        popped == QueueAfterPop(queue, witnesses)
        waiting == by_pow(popped, Queued(popped) \ Range(dpos))
        visited == Visited(o, waiting, PowSeats(number, Len(dpos)))
        miners == by_pow(popped, {a \in Range(visited) : o[a] = None})
        left == [a \in Accounts |-> IF a \in Range(visited) THEN 0 ELSE popped[a]]
        race == IF runners = <<>> THEN [pvo |-> o, time |-> currentRaceTime]
                ELSE RaceAfter(o, runners)
    IN  [round |-> WithEmpty(dpos \o miners), queue |-> left, pvo |-> race.pvo,
         time |-> race.time,
         witnesses |-> witnesses - Len(visited) - (IF popped = queue THEN 0 ELSE 1)]
-----------------------------------------------------------------------------
(* apply_block, with the votes its transactions leave in the new state.    *)

\* update_global_properties: a new round at the end of a round, if there is a
\* registered producer at all.
ApplyBlock(ops) ==
    LET number == head_block_number + 1
        joined == QueueAfterPow(ops)
        queue == QueueAfterVotes(joined)
        witnesses == num_pow_witnesses + Cardinality(NewWorkers(ops))
                         - Cardinality(Created \cap Queued(joined))
        o == PvoAfterVotes
        unchanged == [round |-> active_producers, queue |-> queue, pvo |-> o,
                      time |-> currentRaceTime, witnesses |-> witnesses]
        dealt == IF number % TotalProducersPerRound = 0 /\ Registered(o) # {}
                 THEN calculateNextRound(o, queue, witnesses, number)
                 ELSE unchanged
    IN  /\ VotesApply
        /\ head_block_number' = number
        /\ total_pow' = total_pow + Cardinality(NewWorkers(ops))
        /\ next_id' = next_id + Cardinality(Created)
        /\ all_votes' = AllVotesAfter
        /\ strays' = strays \ Inactive
        /\ active_producers' = dealt.round
        /\ pow_worker' = dealt.queue
        /\ num_pow_witnesses' = dealt.witnesses
        /\ pvo' = dealt.pvo
        /\ currentRaceTime' = dealt.time
        /\ counted' = info

\* The next block is applied; its transactions change the record of at most
\* one account.
Block(ops) ==
    /\ head_block_number < MaxNumber
    /\ Cardinality(ops) <= MaxPowOps
    /\ ApplyBlock(ops)
    /\ \E a \in Voters, record \in VoteInfo \cup {None} : info' = [info EXCEPT ![a] = record]

\* init_allvotes, at a start of the node, after a fork switch and after a block
\* that failed: every record counts, candidate or not.
ReloadVotes ==
    /\ all_votes' = IF head_block_number = 0 THEN NoInfo
                    ELSE [a \in Accounts |-> IF counted[a] = None THEN None ELSE counted[a].votes]
    /\ strays' = {a \in Accounts : all_votes'[a] # None /\ pvo[a] = None}
    /\ UNCHANGED <<info, counted, pvo, next_id, currentRaceTime, pow_worker,
                   total_pow, num_pow_witnesses, head_block_number, active_producers>>

Next ==
    \/ \E ops \in SUBSET Accounts : Block(ops)
    \/ ReloadVotes

Spec == Init /\ [][Next]_vars
-----------------------------------------------------------------------------
(* Properties.                                                             *)

Seated == Range(active_producers) \ {Empty}

\* The variables have their types; the numbers of the POW queue do not wrap.
TypeOK ==
    /\ info \in [Accounts -> VoteInfo \cup {None}]
    /\ counted \in [Accounts -> VoteInfo \cup {None}]
    /\ all_votes \in [Accounts -> 0..MaxVotes \cup {None}]
    /\ \A a \in Registered(pvo) :
          /\ pvo[a].id \in 0..(next_id - 1) /\ pvo[a].speed \in Int
          /\ pvo[a].position \in 0..RaceLapLength /\ pvo[a].finish \in 0..RaceLapLength
    /\ pow_worker \in [Accounts -> 0..total_pow \cup {None}]
    /\ num_pow_witnesses \in 0..total_pow
    /\ currentRaceTime \in 0..RaceLapLength
    /\ strays \subseteq Accounts

\* num_pow_witnesses, which sets the POW difficulty and the mode of the election,
\* is the length of the queue, although four places count it up and down beside
\* the queue.
PowCountAgrees == num_pow_witnesses = Cardinality(Queued(pow_worker))

\* No account is a DPOS candidate and a queued POW worker, whichever it became
\* first (update_pow, update_pvomi_perblock).
NotBoth == Registered(pvo) \cap Queued(pow_worker) = {}

\* Every round can be played: some seat is held, so update_last_irreversible_block
\* has an element to pick, and every holder has a producer_object, so
\* get_producer does not throw.
RoundIsPlayable ==
    /\ Seated # {}
    /\ \A a \in Seated : pow_worker[a] # None

\* A round fills active_producers exactly and no account has two seats, whichever
\* of the three ways it was elected.
SeatsAreDistinct ==
    /\ Len(active_producers) = TotalProducersPerRound
    /\ \A i, j \in 1..TotalProducersPerRound :
          i # j /\ active_producers[i] # Empty => active_producers[i] # active_producers[j]

\* "All producers which crossed the finish line ahead of the winner ... are
\* effectively held at the finish line" (producer_objects.hpp:72-73): race time
\* never passes a producer's projected finish, and a position stays on the lap.
NobodyPassesTheLine ==
    \A a \in Registered(pvo) :
        /\ currentRaceTime <= pvo[a].finish
        /\ pvo[a].speed > 0 =>
              pvo[a].position + pvo[a].speed * (currentRaceTime - pvo[a].time) <= RaceLapLength

\* "Virtual race time has overflown. Reset race for everyone."
\* (producer_objects.cpp:215): running out of race time is handled inside, so
\* it never makes update_pvomi_perblock throw and the next block fail.
OverflowIsHandled ==
    /\ \A a \in Updated : pvo[a] # None =>
          ~Overflows(NewSpeed(a), Position(pvo[a]), currentRaceTime)
    /\ Created # {} => ~Overflows(0, 0, currentRaceTime)

\* update_pvomi_perblock gives every candidate it counts a ProducerVotesObject,
\* however records and registrations come and go, unless init_allvotes had entered
\* the account before it was a candidate.
TrackedUnlessReloaded ==
    \A a \in Accounts \ strays : counted[a] # None /\ counted[a].candidate => pvo[a] # None

\* "The ProducerVotesObject class tracks all votes for and by the block
\* producers" (producer_objects.hpp:32): every candidate that the last block
\* counted has such an object.
CandidatesAreTracked ==
    \A a \in Accounts : counted[a] # None /\ counted[a].candidate => pvo[a] # None
=============================================================================
