------------------------------ MODULE VoteBook ------------------------------
(***************************************************************************)
(* What the vote contracts promise, without the storage they keep it in:   *)
(* votes are held by accounts or given to candidates, nobody else touches  *)
(* an account's votes except the candidate who leaves, and what a          *)
(* candidate has is what the voters gave.                                  *)
(***************************************************************************)
EXTENDS Integers, FiniteSets

CONSTANTS Accounts,
          MaxRecords, \* candidates an account may vote for at once
          Amounts     \* the numbers of votes a call may name

VARIABLES candidate, \* account -> it is a candidate
          hold,      \* account -> the votes it holds
          given      \* voter -> candidate -> the votes given

bookVars == <<candidate, hold, given>>

Init ==
    /\ candidate = [a \in Accounts |-> FALSE]
    /\ hold = [a \in Accounts |-> 0]
    /\ given = [v \in Accounts |-> [c \in Accounts |-> 0]]

VotedFor(v) == {c \in Accounts : given[v][c] > 0}

Register(c) ==
    /\ ~candidate[c]
    /\ candidate' = [candidate EXCEPT ![c] = TRUE]
    /\ UNCHANGED <<hold, given>>

\* Everybody who voted for the candidate has the votes back.
Deregister(c) ==
    /\ candidate[c]
    /\ candidate' = [candidate EXCEPT ![c] = FALSE]
    /\ hold' = [v \in Accounts |-> hold[v] + given[v][c]]
    /\ given' = [v \in Accounts |-> [given[v] EXCEPT ![c] = 0]]

Mortgage(a, n) ==
    /\ hold' = [hold EXCEPT ![a] = @ + n]
    /\ UNCHANGED <<candidate, given>>

Redeem(a, n) ==
    /\ hold[a] >= n
    /\ hold' = [hold EXCEPT ![a] = @ - n]
    /\ UNCHANGED <<candidate, given>>

Send(from, to, n) ==
    /\ from # to /\ hold[from] >= n
    /\ hold' = [hold EXCEPT ![from] = @ - n, ![to] = @ + n]
    /\ UNCHANGED <<candidate, given>>

Vote(v, c, n) ==
    /\ hold[v] >= n /\ candidate[c]
    /\ given[v][c] > 0 \/ Cardinality(VotedFor(v)) < MaxRecords
    /\ hold' = [hold EXCEPT ![v] = @ - n]
    /\ given' = [given EXCEPT ![v][c] = @ + n]
    /\ UNCHANGED candidate

RemoveVote(v, c, n) ==
    /\ given[v][c] >= n
    /\ hold' = [hold EXCEPT ![v] = @ + n]
    /\ given' = [given EXCEPT ![v][c] = @ - n]
    /\ UNCHANGED candidate

Next ==
    \/ \E c \in Accounts : Register(c) \/ Deregister(c)
    \/ \E a \in Accounts, n \in Amounts : Mortgage(a, n) \/ Redeem(a, n)
    \/ \E a, b \in Accounts, n \in Amounts : Send(a, b, n) \/ Vote(a, b, n) \/ RemoveVote(a, b, n)

Spec == Init /\ [][Next]_bookVars

------------------------------------------------------------------------------

BookTypeOK ==
    /\ candidate \in [Accounts -> BOOLEAN]
    /\ hold \in [Accounts -> Nat]
    /\ given \in [Accounts -> [Accounts -> Nat]]

\* Votes are given to candidates only, also after the candidate has left:
\* candidateDeregister returns every vote, its own included.
GivenToCandidates == \A v, c \in Accounts : given[v][c] > 0 => candidate[c]

\* No account votes for more candidates than a stored record may name.
RecordsBounded == \A v \in Accounts : Cardinality(VotedFor(v)) <= MaxRecords

=============================================================================
