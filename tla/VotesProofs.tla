---------------------------- MODULE VotesProofs ----------------------------
(***************************************************************************)
(* The vote contracts implement the plain book of votes, make no money and *)
(* keep the counters the election reads, for any accounts, any limit on    *)
(* entries, any initial balances and any width of the counters.            *)
(***************************************************************************)
EXTENDS Votes, TotalsProofs, TLAPS

\* Leaves are for Zenon, those with arithmetic or functions cite SMT.
USE ZenonT(60)

\* Vote entries, as they are saved and as they may be before.
Entries == UNION {[D -> Nat \ {0}] : D \in SUBSET Accounts}
LooseEntries == UNION {[D -> Nat] : D \in SUBSET Accounts}

Record == [isCandidate : BOOLEAN, holdVotes : Nat, receivedVote : Int, voteRecord : Entries]
LooseRecord ==
    [isCandidate : BOOLEAN, holdVotes : Nat, receivedVote : Int, voteRecord : LooseEntries]

\* Every stored record is complete and has no entry of zero votes.
StorageType == storage \in [Accounts -> Record]

\* A record that was saved is one that may be saved.
LEMMA RecordIsLoose == Record \subseteq LooseRecord
  <1>1. Entries \subseteq LooseEntries
    BY SMTT(60) DEF Entries, LooseEntries
  <1>. QED
    BY <1>1 DEF Record, LooseRecord

\* A record's votes for an account are a number.
LEMMA VotesForNat ==
    ASSUME NEW info \in LooseRecord, NEW c \in Accounts
    PROVE  VotesFor(info, c) \in Nat
  <1>1. PICK D \in SUBSET Accounts : info.voteRecord \in [D -> Nat]
    BY DEF LooseRecord, LooseEntries
  <1>. QED
    BY <1>1 DEF VotesFor

\* recordVoteTo and the assignments to an entry change that entry only.
LEMMA SetVotesView ==
    ASSUME NEW info \in LooseRecord, NEW to \in Accounts, NEW n, n \in Nat
    PROVE  /\ SetVotes(info, to, n) \in LooseRecord
           /\ SetVotes(info, to, n).isCandidate = info.isCandidate
           /\ SetVotes(info, to, n).holdVotes = info.holdVotes
           /\ SetVotes(info, to, n).receivedVote = info.receivedVote
           /\ \A c \in Accounts :
                 VotesFor(SetVotes(info, to, n), c) = IF c = to THEN n ELSE VotesFor(info, c)
  <1>1. PICK D \in SUBSET Accounts : info.voteRecord \in [D -> Nat]
    BY DEF LooseRecord, LooseEntries
  <1>. DEFINE new == [x \in D \cup {to} |-> IF x = to THEN n ELSE info.voteRecord[x]]
  <1>2. new \in [D \cup {to} -> Nat] /\ D \cup {to} \in SUBSET Accounts
    BY <1>1
  <1>3. new \in LooseEntries
    BY <1>2 DEF LooseEntries
  <1>4. SetVotes(info, to, n) = [info EXCEPT !.voteRecord = new]
    BY <1>1 DEF SetVotes
  <1>5. /\ SetVotes(info, to, n) \in LooseRecord
        /\ SetVotes(info, to, n).isCandidate = info.isCandidate
        /\ SetVotes(info, to, n).holdVotes = info.holdVotes
        /\ SetVotes(info, to, n).receivedVote = info.receivedVote
        /\ SetVotes(info, to, n).voteRecord = new
    BY <1>3, <1>4 DEF LooseRecord
  <1>6. ASSUME NEW c \in Accounts
        PROVE  VotesFor(SetVotes(info, to, n), c) = IF c = to THEN n ELSE VotesFor(info, c)
    BY <1>1, <1>5 DEF VotesFor
  <1>. QED
    BY <1>5, <1>6

\* save drops the entries of zero votes, which no reader can tell from none.
LEMMA SaveView ==
    ASSUME NEW st \in [Accounts -> Record], NEW a \in Accounts, NEW info \in LooseRecord
    PROVE  /\ Save(st, a, info) \in [Accounts -> Record]
           /\ \A b \in Accounts : b # a => Save(st, a, info)[b] = st[b]
           /\ Save(st, a, info)[a].isCandidate = info.isCandidate
           /\ Save(st, a, info)[a].holdVotes = info.holdVotes
           /\ Save(st, a, info)[a].receivedVote = info.receivedVote
           /\ \A c \in Accounts : VotesFor(Save(st, a, info)[a], c) = VotesFor(info, c)
  <1>1. PICK D \in SUBSET Accounts : info.voteRecord \in [D -> Nat]
    BY DEF LooseRecord, LooseEntries
  <1>. DEFINE kept == {to \in D : info.voteRecord[to] # 0}
              new == [to \in kept |-> info.voteRecord[to]]
              rec == [info EXCEPT !.voteRecord = new]
  <1>2. new \in [kept -> Nat \ {0}] /\ kept \in SUBSET Accounts
    BY <1>1
  <1>3. new \in Entries
    BY <1>2 DEF Entries
  <1>4. rec \in Record /\ rec.isCandidate = info.isCandidate /\ rec.holdVotes = info.holdVotes
        /\ rec.receivedVote = info.receivedVote /\ rec.voteRecord = new
    BY <1>3 DEF Record, LooseRecord
  <1>5. Save(st, a, info) = [st EXCEPT ![a] = rec]
    BY <1>1 DEF Save
  <1>6. ASSUME NEW c \in Accounts PROVE VotesFor(rec, c) = VotesFor(info, c)
    BY <1>1, <1>4 DEF VotesFor
  <1>. HIDE DEF rec
  <1>7. [st EXCEPT ![a] = rec][a] = rec
    OBVIOUS
  <1>. QED
    BY <1>4, <1>5, <1>6, <1>7

(***************************************************************************)
(* What a change of storage means for the book: the three functions the    *)
(* refinement mapping reads off the records, and the votes received, which *)
(* the book does not keep.                                                 *)
(***************************************************************************)
Flag(st, a) == st[a].isCandidate
Hold(st, a) == st[a].holdVotes
Gives(st, v, c) == VotesFor(st[v], c)
Recv(st, a) == st[a].receivedVote

\* One record saved.
LEMMA OneSaved ==
    ASSUME NEW st \in [Accounts -> Record], NEW s \in Accounts, NEW info \in LooseRecord
    PROVE  /\ Save(st, s, info) \in [Accounts -> Record]
           /\ \A a \in Accounts :
                 /\ Flag(Save(st, s, info), a) = IF a = s THEN info.isCandidate ELSE Flag(st, a)
                 /\ Hold(Save(st, s, info), a) = IF a = s THEN info.holdVotes ELSE Hold(st, a)
                 /\ Recv(Save(st, s, info), a) = IF a = s THEN info.receivedVote ELSE Recv(st, a)
                 /\ \A c \in Accounts : Gives(Save(st, s, info), a, c) =
                                            IF a = s THEN VotesFor(info, c) ELSE Gives(st, a, c)
  BY SaveView, SMTT(60) DEF Flag, Hold, Gives, Recv

\* One record saved with its entries as they were: only the header changes.
LEMMA HeaderSaved ==
    ASSUME NEW st \in [Accounts -> Record], NEW s \in Accounts, NEW info \in LooseRecord,
           info.voteRecord = st[s].voteRecord
    PROVE  /\ Save(st, s, info) \in [Accounts -> Record]
           /\ \A a \in Accounts :
                 /\ Flag(Save(st, s, info), a) = IF a = s THEN info.isCandidate ELSE Flag(st, a)
                 /\ Hold(Save(st, s, info), a) = IF a = s THEN info.holdVotes ELSE Hold(st, a)
                 /\ Recv(Save(st, s, info), a) = IF a = s THEN info.receivedVote ELSE Recv(st, a)
                 /\ \A c \in Accounts : Gives(Save(st, s, info), a, c) = Gives(st, a, c)
  <1>1. \A c \in Accounts : VotesFor(info, c) = Gives(st, s, c)
    BY DEF VotesFor, Gives
  <1>. QED
    BY <1>1, OneSaved, SMTT(60)

\* vote and removeVote: the sender's hold and its entry change by the same
\* number, and nothing else the book knows of.
LEMMA Moved ==
    ASSUME StorageType, NEW s \in Accounts, NEW to \in Accounts, NEW n \in Int,
           Hold(storage, s) - n \in Nat, Gives(storage, s, to) + n \in Nat,
           Move(s, to, n)
    PROVE  /\ StorageType'
           /\ \A a \in Accounts :
                 /\ Flag(storage', a) = Flag(storage, a)
                 /\ Hold(storage', a) = IF a = s THEN Hold(storage, a) - n ELSE Hold(storage, a)
                 /\ Recv(storage', a) = IF a = to THEN Recv(storage, a) + n ELSE Recv(storage, a)
                 /\ \A c \in Accounts : Gives(storage', a, c) =
                        IF a = s /\ c = to THEN Gives(storage, a, c) + n ELSE Gives(storage, a, c)
  <1>. DEFINE info == storage[s]
              self == IF to = s THEN n ELSE 0
              dest == [storage[to] EXCEPT !.receivedVote = @ + n]
              st == IF to = s THEN storage ELSE Save(storage, to, dest)
              head == [info EXCEPT !.holdVotes = @ - n, !.receivedVote = @ + self]
              new == SetVotes(head, to, VotesFor(info, to) + n)
  <1>1. storage' = Save(st, s, new)
    BY DEF Move, Tally, Load
  <1>2. info \in Record /\ storage[to] \in Record /\ storage \in [Accounts -> Record]
    BY DEF StorageType
  <1>3. /\ dest \in LooseRecord
        /\ dest.isCandidate = Flag(storage, to) /\ dest.holdVotes = Hold(storage, to)
        /\ dest.receivedVote = Recv(storage, to) + n
        /\ \A c \in Accounts : VotesFor(dest, c) = Gives(storage, to, c)
    <2>1. storage[to] \in LooseRecord
      BY <1>2, RecordIsLoose
    <2>. QED
      BY <2>1, SMTT(60) DEF LooseRecord, VotesFor, Flag, Hold, Gives, Recv
  <1>4. /\ head \in LooseRecord
        /\ head.isCandidate = Flag(storage, s) /\ head.holdVotes = Hold(storage, s) - n
        /\ head.receivedVote = Recv(storage, s) + self
        /\ \A c \in Accounts : VotesFor(head, c) = Gives(storage, s, c)
    <2>. DEFINE h == info.holdVotes - n
                r == info.receivedVote + self
    <2>1. info \in LooseRecord
      BY <1>2, RecordIsLoose
    <2>2. h \in Nat /\ h = Hold(storage, s) - n
      BY DEF Hold
    <2>3. r \in Int /\ r = Recv(storage, s) + self
      BY <2>1, SMTT(60) DEF LooseRecord, Recv
    <2>4. head = [info EXCEPT !.holdVotes = h, !.receivedVote = r]
      OBVIOUS
    <2>. HIDE DEF h, r, head, self
    <2>5. /\ head \in LooseRecord
          /\ head.isCandidate = info.isCandidate /\ head.holdVotes = h
          /\ head.receivedVote = r /\ head.voteRecord = info.voteRecord
      BY <2>1, <2>2, <2>3, <2>4 DEF LooseRecord
    <2>6. ASSUME NEW c \in Accounts PROVE VotesFor(head, c) = Gives(storage, s, c)
      BY <2>5 DEF VotesFor, Gives
    <2>. QED
      BY <2>2, <2>3, <2>5, <2>6 DEF Flag
  <1>5. /\ st \in [Accounts -> Record]
        /\ \A a \in Accounts : /\ Flag(st, a) = Flag(storage, a) /\ Hold(st, a) = Hold(storage, a)
                               /\ Recv(st, a) = IF a = to /\ to # s THEN Recv(storage, a) + n
                                                ELSE Recv(storage, a)
                               /\ \A c \in Accounts : Gives(st, a, c) = Gives(storage, a, c)
    <2>. HIDE DEF dest
    <2>1. CASE to = s
      BY <1>2, <2>1
    <2>2. CASE to # s
      <3>1. st = Save(storage, to, dest)
        BY <2>2
      <3>. HIDE DEF st
      <3>. QED
        BY <1>2, <1>3, <2>2, <3>1, OneSaved, SMTT(60)
    <2>. QED
      BY <2>1, <2>2
  <1>6. /\ new \in LooseRecord
        /\ new.isCandidate = Flag(storage, s) /\ new.holdVotes = Hold(storage, s) - n
        /\ new.receivedVote = Recv(storage, s) + self
        /\ \A c \in Accounts :
              VotesFor(new, c) = IF c = to THEN Gives(storage, s, to) + n ELSE Gives(storage, s, c)
    <2>. DEFINE k == VotesFor(info, to) + n
    <2>1. k \in Nat /\ k = Gives(storage, s, to) + n
      BY DEF Gives
    <2>2. new = SetVotes(head, to, k)
      OBVIOUS
    <2>. HIDE DEF head, k, new, self
    <2>3. head \in LooseRecord /\ k \in Nat
      BY <1>4, <2>1
    <2>4. new \in LooseRecord
      BY <2>2, <2>3, SetVotesView
    <2>5. new.isCandidate = head.isCandidate
      BY <2>2, <2>3, SetVotesView
    <2>6. new.holdVotes = head.holdVotes
      BY <2>2, <2>3, SetVotesView
    <2>7. new.receivedVote = head.receivedVote
      BY <2>2, <2>3, SetVotesView, SMTT(60)
    <2>8. \A c \in Accounts : VotesFor(new, c) = IF c = to THEN k ELSE VotesFor(head, c)
      BY <2>2, <2>3, SetVotesView, SMTT(60)
    <2>. QED
      BY <1>4, <2>1, <2>4, <2>5, <2>6, <2>7, <2>8
  <1>. HIDE DEF new, st
  <1>7. /\ storage' \in [Accounts -> Record]
        /\ \A a \in Accounts :
              /\ Flag(storage', a) = IF a = s THEN new.isCandidate ELSE Flag(st, a)
              /\ Hold(storage', a) = IF a = s THEN new.holdVotes ELSE Hold(st, a)
              /\ Recv(storage', a) = IF a = s THEN new.receivedVote ELSE Recv(st, a)
              /\ \A c \in Accounts : Gives(storage', a, c) =
                                         IF a = s THEN VotesFor(new, c) ELSE Gives(st, a, c)
    BY <1>1, <1>5, <1>6, OneSaved, SMTT(60)
  <1>8. \A a \in Accounts :
            Recv(storage', a) = IF a = to THEN Recv(storage, a) + n ELSE Recv(storage, a)
    <2>1. Recv(storage, s) \in Int
      BY <1>2 DEF Record, Recv
    <2>. QED
      BY <1>5, <1>6, <1>7, <2>1, SMTT(60)
  <1>. QED
    BY <1>5, <1>6, <1>7, <1>8, SMTT(60) DEF StorageType

(***************************************************************************)
(* One lemma per contract call: the step keeps the records well formed and *)
(* is a step of the book, or leaves the book as it is.                     *)
(***************************************************************************)
BookStep == [Book!Next]_(Book!bookVars)

\* candidateRegister: a whole record is loaded and saved, one flag changes.
LEMMA RegisterView ==
    ASSUME StorageType, NEW s \in Accounts, CandidateRegister(s)
    PROVE  /\ StorageType' /\ ~Flag(storage, s)
           /\ \A a \in Accounts : Flag(storage', a) = IF a = s THEN TRUE ELSE Flag(storage, a)
           /\ \A a \in Accounts : Hold(storage', a) = Hold(storage, a)
           /\ \A a, c \in Accounts : Gives(storage', a, c) = Gives(storage, a, c)
           /\ \A a \in Accounts : Recv(storage', a) = Recv(storage, a)
  <1>. DEFINE new == [storage[s] EXCEPT !.isCandidate = TRUE]
  <1>1. storage[s] \in LooseRecord /\ storage \in [Accounts -> Record]
    BY RecordIsLoose DEF StorageType
  <1>2. /\ new \in LooseRecord /\ new.isCandidate = TRUE
        /\ new.holdVotes = Hold(storage, s) /\ new.receivedVote = Recv(storage, s)
        /\ new.voteRecord = storage[s].voteRecord
    BY <1>1 DEF LooseRecord, Hold, Recv
  <1>3. storage' = Save(storage, s, new) /\ ~Flag(storage, s)
    BY DEF CandidateRegister, Load, Flag
  <1>. HIDE DEF new
  <1>4. storage' \in [Accounts -> Record]
    BY <1>1, <1>2, <1>3, HeaderSaved
  <1>5. \A a \in Accounts : Flag(storage', a) = IF a = s THEN TRUE ELSE Flag(storage, a)
    <2>1. \A a \in Accounts : Flag(storage', a) =
              IF a = s THEN new.isCandidate ELSE Flag(storage, a)
      BY <1>1, <1>2, <1>3, HeaderSaved, SMTT(60)
    <2>. QED
      BY <1>2, <2>1
  <1>6. \A a \in Accounts : Hold(storage', a) = Hold(storage, a)
    BY <1>1, <1>2, <1>3, HeaderSaved, SMTT(60)
  <1>7. \A a, c \in Accounts : Gives(storage', a, c) = Gives(storage, a, c)
    BY <1>1, <1>2, <1>3, HeaderSaved, SMTT(60)
  <1>8. \A a \in Accounts : Recv(storage', a) = Recv(storage, a)
    BY <1>1, <1>2, <1>3, HeaderSaved, SMTT(60)
  <1>. QED
    BY <1>3, <1>4, <1>5, <1>6, <1>7, <1>8 DEF StorageType

\* So it is the book's step.
LEMMA RegisterStep ==
    ASSUME StorageType, NEW s \in Accounts, CandidateRegister(s)
    PROVE  StorageType' /\ Book!Register(s)
  <1>1. /\ StorageType' /\ ~Flag(storage, s)
        /\ \A a \in Accounts : Flag(storage', a) = IF a = s THEN TRUE ELSE Flag(storage, a)
        /\ \A a \in Accounts : Hold(storage', a) = Hold(storage, a)
        /\ \A a, c \in Accounts : Gives(storage', a, c) = Gives(storage, a, c)
    BY RegisterView
  <1>. QED
    BY <1>1 DEF Book!Register, Flag, Hold, Gives, Given, Load

\* The votes the money buys fit the argument's type.
LEMMA WholeVotes ==
    ASSUME NEW m \in 0..(Word - 1)
    PROVE  m \div VotesPreEth \in 0..(Word - 1)
  <1>1. \A d \in Nat \ {0} : m \div d \in Nat /\ m \div d <= m
    BY SMTT(60)
  <1>. QED
    BY <1>1, VotesAssumption, SMTT(60)

\* One account holds another number of votes.
HoldsNow(s, n) == [storage[s] EXCEPT !.holdVotes = n]

\* mortgage, redeem: the record saved with another hold changes that hold only.
LEMMA HoldSaved ==
    ASSUME StorageType, NEW s \in Accounts, NEW n, n \in Nat,
           storage' = Save(storage, s, HoldsNow(s, n))
    PROVE  /\ StorageType'
           /\ \A a \in Accounts : Flag(storage', a) = Flag(storage, a)
           /\ \A a \in Accounts : Hold(storage', a) = IF a = s THEN n ELSE Hold(storage, a)
           /\ \A a, c \in Accounts : Gives(storage', a, c) = Gives(storage, a, c)
           /\ \A a \in Accounts : Recv(storage', a) = Recv(storage, a)
  <1>. DEFINE new == HoldsNow(s, n)
  <1>1. storage[s] \in LooseRecord /\ storage \in [Accounts -> Record]
    BY RecordIsLoose DEF StorageType
  <1>2. /\ new \in LooseRecord /\ new.isCandidate = Flag(storage, s)
        /\ new.holdVotes = n /\ new.receivedVote = Recv(storage, s)
        /\ new.voteRecord = storage[s].voteRecord
    BY <1>1 DEF LooseRecord, HoldsNow, Flag, Recv
  <1>3. storage' = Save(storage, s, new)
    OBVIOUS
  <1>. HIDE DEF new
  <1>4. StorageType'
    BY <1>1, <1>2, <1>3, HeaderSaved, SMTT(60) DEF StorageType
  <1>5. \A a \in Accounts : Flag(storage', a) = Flag(storage, a)
    <2>1. \A a \in Accounts : Flag(storage', a) =
              IF a = s THEN new.isCandidate ELSE Flag(storage, a)
      BY <1>1, <1>2, <1>3, HeaderSaved, SMTT(60)
    <2>. QED
      BY <1>2, <2>1
  <1>6. \A a \in Accounts : Hold(storage', a) = IF a = s THEN n ELSE Hold(storage, a)
    <2>1. \A a \in Accounts : Hold(storage', a) = IF a = s THEN new.holdVotes ELSE Hold(storage, a)
      BY <1>1, <1>2, <1>3, HeaderSaved, SMTT(60)
    <2>. QED
      BY <1>2, <2>1
  <1>7. \A a, c \in Accounts : Gives(storage', a, c) = Gives(storage, a, c)
    BY <1>1, <1>2, <1>3, HeaderSaved, SMTT(60)
  <1>8. \A a \in Accounts : Recv(storage', a) = Recv(storage, a)
    BY <1>1, <1>2, <1>3, HeaderSaved, SMTT(60)
  <1>. QED
    BY <1>4, <1>5, <1>6, <1>7, <1>8

\* No stored hold is negative.
LEMMA HoldIsNat == ASSUME StorageType, NEW a \in Accounts PROVE Hold(storage, a) \in Nat
  BY DEF StorageType, Record, Hold

\* mortgage: money for less than a vote leaves the book as it is.
LEMMA MortgageStep ==
    ASSUME StorageType, NEW s \in Accounts, NEW m \in 0..(Word - 1), Mortgage(s, m)
    PROVE  StorageType' /\ BookStep
  <1>. DEFINE n == m \div VotesPreEth
  <1>1. n \in 0..(Word - 1)
    BY WholeVotes
  <1>2. storage' = Save(storage, s, HoldsNow(s, Hold(storage, s) + n))
    BY DEF Mortgage, Load, HoldsNow, Hold
  <1>. HIDE DEF n
  <1>3. Hold(storage, s) + n \in Nat /\ Hold(storage, s) \in Nat
    BY <1>1, HoldIsNat, VotesAssumption, SMTT(60)
  <1>4. /\ StorageType'
        /\ \A a \in Accounts : Flag(storage', a) = Flag(storage, a)
        /\ \A a \in Accounts : Hold(storage', a) =
                                   IF a = s THEN Hold(storage, s) + n ELSE Hold(storage, a)
        /\ \A a, c \in Accounts : Gives(storage', a, c) = Gives(storage, a, c)
    BY <1>2, <1>3, HoldSaved
  <1>5. CASE n = 0
    BY <1>3, <1>4, <1>5, SMTT(60) DEF BookStep, Book!bookVars, Flag, Hold, Gives, Given, Load
  <1>6. CASE n # 0
    <2>1. n \in 1..(Word - 1)
      BY <1>1, <1>6, VotesAssumption, SMTT(60)
    <2>2. Book!Mortgage(s, n)
      BY <1>4 DEF Book!Mortgage, Flag, Hold, Gives, Given, Load
    <2>. QED
      BY <1>4, <2>1, <2>2 DEF BookStep, Book!Next
  <1>. QED
    BY <1>5, <1>6

\* redeem: the hold goes down, whatever the product with VOTES_PRE_ETH is.
LEMMA RedeemStep ==
    ASSUME StorageType, NEW s \in Accounts, NEW n \in 0..(Word - 1), Redeem(s, n)
    PROVE  StorageType' /\ BookStep
  <1>1. storage' = Save(storage, s, HoldsNow(s, Hold(storage, s) - n)) /\ Hold(storage, s) >= n
    BY DEF Redeem, Load, HoldsNow, Hold
  <1>2. Hold(storage, s) - n \in Nat /\ Hold(storage, s) \in Nat
    BY <1>1, HoldIsNat, VotesAssumption, SMTT(60)
  <1>3. /\ StorageType'
        /\ \A a \in Accounts : Flag(storage', a) = Flag(storage, a)
        /\ \A a \in Accounts : Hold(storage', a) =
                                   IF a = s THEN Hold(storage, s) - n ELSE Hold(storage, a)
        /\ \A a, c \in Accounts : Gives(storage', a, c) = Gives(storage, a, c)
    BY <1>1, <1>2, HoldSaved
  <1>4. CASE n = 0
    BY <1>2, <1>3, <1>4, SMTT(60) DEF BookStep, Book!bookVars, Flag, Hold, Gives, Given, Load
  <1>5. CASE n # 0
    <2>1. n \in 1..(Word - 1)
      BY <1>5, VotesAssumption, SMTT(60)
    <2>2. Book!Redeem(s, n)
      BY <1>1, <1>3 DEF Book!Redeem, Flag, Hold, Gives, Given, Load
    <2>. QED
      BY <1>3, <2>1, <2>2 DEF BookStep, Book!Next
  <1>. QED
    BY <1>4, <1>5

\* send: both records are loaded before either is saved, and they are two records.
LEMMA SendView ==
    ASSUME StorageType, NEW s \in Accounts, NEW to \in Accounts, NEW n \in 0..(Word - 1),
           Send(s, to, n)
    PROVE  /\ StorageType' /\ s # to /\ Hold(storage, s) >= n
           /\ \A a \in Accounts : Flag(storage', a) = Flag(storage, a)
           /\ \A a \in Accounts : Hold(storage', a) = IF a = s THEN Hold(storage, s) - n
                  ELSE IF a = to THEN Hold(storage, to) + n ELSE Hold(storage, a)
           /\ \A a, c \in Accounts : Gives(storage', a, c) = Gives(storage, a, c)
           /\ \A a \in Accounts : Recv(storage', a) = Recv(storage, a)
  <1>. DEFINE from == HoldsNow(s, Hold(storage, s) - n)
              dest == HoldsNow(to, Hold(storage, to) + n)
              mid == Save(storage, s, from)
  <1>1. /\ storage' = Save(mid, to, dest) /\ s # to /\ Hold(storage, s) >= n
        /\ storage \in [Accounts -> Record]
    BY DEF Send, Transfer, Load, HoldsNow, Hold, StorageType
  <1>2. /\ Hold(storage, s) - n \in Nat /\ Hold(storage, to) + n \in Nat
        /\ Hold(storage, s) \in Nat /\ Hold(storage, to) \in Nat
    BY <1>1, HoldIsNat, VotesAssumption, SMTT(60)
  <1>3. /\ from \in LooseRecord /\ from.isCandidate = Flag(storage, s)
        /\ from.holdVotes = Hold(storage, s) - n
        /\ from.receivedVote = Recv(storage, s) /\ from.voteRecord = storage[s].voteRecord
    <2>1. storage[s] \in LooseRecord
      BY RecordIsLoose DEF StorageType
    <2>. QED
      BY <1>2, <2>1 DEF LooseRecord, HoldsNow, Flag, Recv
  <1>4. /\ dest \in LooseRecord /\ dest.isCandidate = Flag(storage, to)
        /\ dest.holdVotes = Hold(storage, to) + n
        /\ dest.receivedVote = Recv(storage, to) /\ dest.voteRecord = storage[to].voteRecord
    <2>1. storage[to] \in LooseRecord
      BY RecordIsLoose DEF StorageType
    <2>. QED
      BY <1>2, <2>1 DEF LooseRecord, HoldsNow, Flag, Recv
  <1>5. mid \in [Accounts -> Record] /\ mid[to] = storage[to]
    <2>. HIDE DEF from
    <2>. QED
      BY <1>1, <1>3, SaveView
  <1>. HIDE DEF from, dest
  <1>6. /\ \A a \in Accounts : Flag(mid, a) = IF a = s THEN from.isCandidate ELSE Flag(storage, a)
        /\ \A a \in Accounts : Hold(mid, a) = IF a = s THEN from.holdVotes ELSE Hold(storage, a)
        /\ \A a, c \in Accounts : Gives(mid, a, c) = Gives(storage, a, c)
        /\ \A a \in Accounts : Recv(mid, a) = IF a = s THEN from.receivedVote ELSE Recv(storage, a)
    BY <1>1, <1>3, HeaderSaved, SMTT(60)
  <1>. HIDE DEF mid
  <1>7. dest.voteRecord = mid[to].voteRecord
    BY <1>4, <1>5
  <1>8. /\ storage' \in [Accounts -> Record]
        /\ \A a \in Accounts : Flag(storage', a) = IF a = to THEN dest.isCandidate ELSE Flag(mid, a)
        /\ \A a \in Accounts : Hold(storage', a) = IF a = to THEN dest.holdVotes ELSE Hold(mid, a)
        /\ \A a, c \in Accounts : Gives(storage', a, c) = Gives(mid, a, c)
        /\ \A a \in Accounts : Recv(storage', a) =
                  IF a = to THEN dest.receivedVote ELSE Recv(mid, a)
    BY <1>1, <1>4, <1>5, <1>7, HeaderSaved, SMTT(60)
  <1>9. \A a \in Accounts : Flag(storage', a) = Flag(storage, a)
    BY <1>3, <1>4, <1>6, <1>8
  <1>10. \A a \in Accounts : Hold(storage', a) = IF a = s THEN Hold(storage, s) - n
                                ELSE IF a = to THEN Hold(storage, to) + n ELSE Hold(storage, a)
    BY <1>1, <1>3, <1>4, <1>6, <1>8
  <1>11. \A a, c \in Accounts : Gives(storage', a, c) = Gives(storage, a, c)
    BY <1>6, <1>8
  <1>12. \A a \in Accounts : Recv(storage', a) = Recv(storage, a)
    BY <1>3, <1>4, <1>6, <1>8
  <1>. QED
    BY <1>1, <1>8, <1>9, <1>10, <1>11, <1>12 DEF StorageType

\* So it is the book's step, or none when no votes are sent.
LEMMA SendStep ==
    ASSUME StorageType, NEW s \in Accounts, NEW to \in Accounts, NEW n \in 0..(Word - 1),
           Send(s, to, n)
    PROVE  StorageType' /\ BookStep
  <1>1. /\ StorageType' /\ s # to /\ Hold(storage, s) >= n
        /\ \A a \in Accounts : Flag(storage', a) = Flag(storage, a)
        /\ \A a \in Accounts : Hold(storage', a) = IF a = s THEN Hold(storage, s) - n
               ELSE IF a = to THEN Hold(storage, to) + n ELSE Hold(storage, a)
        /\ \A a, c \in Accounts : Gives(storage', a, c) = Gives(storage, a, c)
    BY SendView, SMTT(60)
  <1>2. Hold(storage, s) \in Nat /\ Hold(storage, to) \in Nat
    BY HoldIsNat
  <1>3. CASE n = 0
    BY <1>1, <1>2, <1>3, SMTT(60) DEF BookStep, Book!bookVars, Flag, Hold, Gives, Given, Load
  <1>4. CASE n # 0
    <2>1. n \in 1..(Word - 1)
      BY <1>4, VotesAssumption, SMTT(60)
    <2>2. Book!Send(s, to, n)
      BY <1>1 DEF Book!Send, Flag, Hold, Gives, Given, Load
    <2>. QED
      BY <1>1, <2>1, <2>2 DEF BookStep, Book!Next
  <1>. QED
    BY <1>3, <1>4

\* No stored entry is negative.
LEMMA GivesIsNat ==
    ASSUME StorageType, NEW v \in Accounts, NEW c \in Accounts PROVE Gives(storage, v, c) \in Nat
  <1>1. storage[v] \in LooseRecord
    BY RecordIsLoose DEF StorageType
  <1>. QED
    BY <1>1, VotesForNat DEF Gives

\* The entries of a saved record are the accounts it gives votes to.
LEMMA EntriesAreGiven ==
    ASSUME StorageType, NEW v \in Accounts
    PROVE  /\ \A c \in Accounts : /\ Gives(storage, v, c) \in Nat
                                  /\ (Gives(storage, v, c) > 0) <=>
                                            c \in DOMAIN storage[v].voteRecord
           /\ Book!VotedFor(v) = DOMAIN storage[v].voteRecord
  <1>. DEFINE record == storage[v].voteRecord
  <1>0. record \in Entries
    BY DEF StorageType, Record
  <1>. HIDE DEF record
  <1>1. PICK D \in SUBSET Accounts : record \in [D -> Nat \ {0}]
    BY <1>0 DEF Entries
  <1>2. ASSUME NEW c \in Accounts
        PROVE  Gives(storage, v, c) \in Nat /\ ((Gives(storage, v, c) > 0) <=> c \in D)
    BY <1>1, SMTT(60) DEF Gives, VotesFor, record
  <1>3. Book!VotedFor(v) = {c \in Accounts : Gives(storage, v, c) > 0}
    BY DEF Book!VotedFor, Given, Load, Gives
  <1>4. DOMAIN storage[v].voteRecord = D
    BY <1>1 DEF record
  <1>. QED
    BY <1>2, <1>3, <1>4

\* The book counts with its own copy of the operator.
LEMMA SameCardinality == \A S : Book!Cardinality(S) = Cardinality(S)
  BY DEF Book!Cardinality, Cardinality

\* vote: the limit on stored entries is the limit on candidates voted for.
LEMMA VoteStep ==
    ASSUME StorageType, NEW s \in Accounts, NEW to \in Accounts, NEW n \in 0..(Word - 1),
           Vote(s, to, n)
    PROVE  StorageType' /\ BookStep
  <1>1. /\ Hold(storage, s) >= n /\ Flag(storage, to) /\ Move(s, to, n)
        /\ \/ Cardinality(DOMAIN storage[s].voteRecord) < MaxRecords
           \/ to \in DOMAIN storage[s].voteRecord
    BY DEF Vote, Load, Hold, Flag
  <1>2. /\ Hold(storage, s) \in Nat /\ Gives(storage, s, to) \in Nat /\ n \in Int
        /\ Hold(storage, s) - n \in Nat /\ Gives(storage, s, to) + n \in Nat
    <2>1. Hold(storage, s) \in Nat
      BY HoldIsNat
    <2>2. Gives(storage, s, to) \in Nat
      BY GivesIsNat
    <2>. QED
      BY <1>1, <2>1, <2>2, VotesAssumption, SMTT(60)
  <1>3. /\ StorageType'
        /\ \A a \in Accounts : Flag(storage', a) = Flag(storage, a)
        /\ \A a \in Accounts : Hold(storage', a) =
                                   IF a = s THEN Hold(storage, a) - n ELSE Hold(storage, a)
        /\ \A a, c \in Accounts : Gives(storage', a, c) =
               IF a = s /\ c = to THEN Gives(storage, a, c) + n ELSE Gives(storage, a, c)
    BY <1>1, <1>2, Moved, SMTT(60)
  <1>4. CASE n = 0
    BY <1>2, <1>3, <1>4, SMTT(60) DEF BookStep, Book!bookVars, Flag, Hold, Gives, Given, Load
  <1>5. CASE n # 0
    <2>1. n \in 1..(Word - 1)
      BY <1>5, VotesAssumption, SMTT(60)
    <2>2. Gives(storage, s, to) > 0 \/ Cardinality(Book!VotedFor(s)) < MaxRecords
      BY <1>1, EntriesAreGiven
    <2>3. [v \in Accounts |-> [c \in Accounts |-> Gives(storage', v, c)]] =
              [[v \in Accounts |-> [c \in Accounts |-> Gives(storage, v, c)]]
                   EXCEPT ![s][to] = @ + n]
      BY <1>3
    <2>4. Book!Vote(s, to, n)
      <3>. DEFINE candidate == [a \in Accounts |-> storage[a].isCandidate]
                  hold == [a \in Accounts |-> storage[a].holdVotes]
                  given == [v \in Accounts |-> [c \in Accounts |-> Given(v, c)]]
      <3>1. hold[s] >= n /\ candidate[to]
        BY <1>1 DEF Flag, Hold
      <3>2. given[s][to] > 0 \/ Cardinality(Book!VotedFor(s)) < MaxRecords
        BY <2>2 DEF Gives, Given, Load
      <3>3. candidate' = candidate /\ hold' = [hold EXCEPT ![s] = @ - n]
        BY <1>3 DEF Flag, Hold
      <3>4. given' = [given EXCEPT ![s][to] = @ + n]
        BY <2>3 DEF Gives, Given, Load
      <3>. QED
        BY <3>1, <3>2, <3>3, <3>4, SameCardinality DEF Book!Vote
    <2>. QED
      BY <1>3, <2>1, <2>4 DEF BookStep, Book!Next
  <1>. QED
    BY <1>4, <1>5

\* removeVote: the entry's votes go back to the hold.
LEMMA RemoveVoteStep ==
    ASSUME StorageType, NEW s \in Accounts, NEW to \in Accounts, NEW n \in 0..(Word - 1),
           RemoveVote(s, to, n)
    PROVE  StorageType' /\ BookStep
  <1>1. Move(s, to, -n) /\ Gives(storage, s, to) >= n
    BY DEF RemoveVote, Load, Gives, VotesFor
  <1>2. /\ Hold(storage, s) \in Nat /\ Gives(storage, s, to) \in Nat /\ n \in Int /\ -n \in Int
        /\ Hold(storage, s) - (-n) \in Nat /\ Gives(storage, s, to) + (-n) \in Nat
    <2>1. Hold(storage, s) \in Nat
      BY HoldIsNat
    <2>2. Gives(storage, s, to) \in Nat
      BY GivesIsNat
    <2>. QED
      BY <1>1, <2>1, <2>2, VotesAssumption, SMTT(60)
  <1>. DEFINE k == -n
  <1>3. /\ StorageType'
        /\ \A a \in Accounts : Flag(storage', a) = Flag(storage, a)
        /\ \A a \in Accounts : Hold(storage', a) =
                                   IF a = s THEN Hold(storage, a) - k ELSE Hold(storage, a)
        /\ \A a, c \in Accounts : Gives(storage', a, c) =
               IF a = s /\ c = to THEN Gives(storage, a, c) + k ELSE Gives(storage, a, c)
    <2>1. k \in Int /\ Hold(storage, s) - k \in Nat /\ Gives(storage, s, to) + k \in Nat
          /\ Move(s, to, k)
      BY <1>1, <1>2
    <2>. HIDE DEF k
    <2>. QED
      BY <2>1, Moved, SMTT(60)
  <1>4. /\ \A a \in Accounts : Hold(storage', a) =
                                   IF a = s THEN Hold(storage, s) + n ELSE Hold(storage, a)
        /\ \A a, c \in Accounts : Gives(storage', a, c) =
               IF a = s /\ c = to THEN Gives(storage, s, to) - n ELSE Gives(storage, a, c)
    BY <1>2, <1>3, SMTT(60)
  <1>5. CASE n = 0
    BY <1>2, <1>3, <1>4, <1>5, SMTT(60) DEF BookStep, Book!bookVars, Flag, Hold, Gives, Given, Load
  <1>6. CASE n # 0
    <2>1. n \in 1..(Word - 1)
      BY <1>6, VotesAssumption, SMTT(60)
    <2>2. [v \in Accounts |-> [c \in Accounts |-> Gives(storage', v, c)]] =
              [[v \in Accounts |-> [c \in Accounts |-> Gives(storage, v, c)]]
                   EXCEPT ![s][to] = @ - n]
      BY <1>4
    <2>3. Book!RemoveVote(s, to, n)
      BY <1>1, <1>3, <1>4, <2>2 DEF Book!RemoveVote, Flag, Hold, Gives, Given, Load
    <2>. QED
      BY <1>3, <2>1, <2>3 DEF BookStep, Book!Next
  <1>. QED
    BY <1>5, <1>6

\* The loop of candidateDeregister, one record: the votes for the candidate go
\* from the entry to the hold.  A record the loop does not see gave none.
LEMMA ReturnedRecord ==
    ASSUME StorageType, NEW s \in Accounts, NEW a \in Accounts
    PROVE  /\ Returned(storage, s)[a] \in Record
           /\ Returned(storage, s)[a].isCandidate = Flag(storage, a)
           /\ Returned(storage, s)[a].holdVotes = Hold(storage, a) + Gives(storage, a, s)
           /\ Returned(storage, s)[a].receivedVote = Recv(storage, a)
           /\ \A c \in Accounts : VotesFor(Returned(storage, s)[a], c) =
                                      IF c = s THEN 0 ELSE Gives(storage, a, c)
  <1>. DEFINE info == storage[a]
              k == Hold(storage, a) + Gives(storage, a, s)
              head == [info EXCEPT !.holdVotes = k]
              new == SetVotes(head, s, 0)
  <1>1. info \in Record /\ info \in LooseRecord /\ storage \in [Accounts -> Record]
    BY RecordIsLoose DEF StorageType
  <1>2. Hold(storage, a) \in Nat /\ Gives(storage, a, s) \in Nat
    BY HoldIsNat, GivesIsNat
  <1>3. k \in Nat
    BY <1>2, SMTT(60)
  <1>4. CASE a \in Stored(storage)
    <2>1. Returned(storage, s)[a] = Save(storage, a, new)[a]
      BY <1>4 DEF Returned, Load, Hold, Gives
    <2>2. /\ head \in LooseRecord /\ head.isCandidate = Flag(storage, a)
          /\ head.holdVotes = k /\ head.receivedVote = Recv(storage, a)
          /\ head.voteRecord = info.voteRecord
      <3>. HIDE DEF k
      <3>. QED
        BY <1>1, <1>3 DEF LooseRecord, Flag, Recv
    <2>3. \A c \in Accounts : VotesFor(head, c) = Gives(storage, a, c)
      BY <2>2, SMTT(60) DEF VotesFor, Gives
    <2>. HIDE DEF head, k
    <2>4. new \in LooseRecord
      BY <2>2, SetVotesView
    <2>5. new.isCandidate = head.isCandidate
      BY <2>2, SetVotesView
    <2>6. new.holdVotes = head.holdVotes /\ new.receivedVote = head.receivedVote
      BY <2>2, SetVotesView, SMTT(60)
    <2>7. \A c \in Accounts : VotesFor(new, c) = IF c = s THEN 0 ELSE VotesFor(head, c)
      BY <2>2, SetVotesView, SMTT(60)
    <2>. HIDE DEF new
    <2>8. Save(storage, a, new)[a] \in Record
      BY <1>1, <2>4, SaveView, SMTT(60)
    <2>9. /\ Save(storage, a, new)[a].isCandidate = new.isCandidate
          /\ Save(storage, a, new)[a].holdVotes = new.holdVotes
          /\ Save(storage, a, new)[a].receivedVote = new.receivedVote
      BY <1>1, <2>4, SaveView, SMTT(60)
    <2>10. \A c \in Accounts : VotesFor(Save(storage, a, new)[a], c) = VotesFor(new, c)
      BY <1>1, <2>4, SaveView, SMTT(60)
    <2>11. Returned(storage, s)[a] \in Record
      BY <2>1, <2>8
    <2>12. /\ Returned(storage, s)[a].isCandidate = Flag(storage, a)
           /\ Returned(storage, s)[a].holdVotes = k
           /\ Returned(storage, s)[a].receivedVote = Recv(storage, a)
      BY <2>1, <2>2, <2>5, <2>6, <2>9
    <2>13. \A c \in Accounts : VotesFor(Returned(storage, s)[a], c) =
                                   IF c = s THEN 0 ELSE Gives(storage, a, c)
      BY <2>1, <2>3, <2>7, <2>10
    <2>. QED
      BY <2>11, <2>12, <2>13 DEF k
  <1>5. CASE a \notin Stored(storage)
    <2>1. Returned(storage, s)[a] = storage[a]
      BY <1>5 DEF Returned
    <2>2. storage[a].voteRecord = <<>>
      BY <1>5 DEF Stored
    <2>3. \A c \in Accounts : Gives(storage, a, c) = 0
      BY <2>2, SMTT(60) DEF Gives, VotesFor
    <2>. QED
      BY <1>1, <1>2, <2>1, <2>3, SMTT(60) DEF Flag, Hold, Gives, Recv
  <1>. QED
    BY <1>4, <1>5

\* candidateDeregister: the loop and the record loaded again after it come out as
\* one change, the candidate's vote for itself included.
LEMMA DeregisterView ==
    ASSUME StorageType, NEW s \in Accounts, CandidateDeregister(s)
    PROVE  /\ StorageType' /\ Flag(storage, s)
           /\ \A a \in Accounts : Flag(storage', a) = IF a = s THEN FALSE ELSE Flag(storage, a)
           /\ \A a \in Accounts : Hold(storage', a) = Hold(storage, a) + Gives(storage, a, s)
           /\ \A a, c \in Accounts : Gives(storage', a, c) =
                     IF c = s THEN 0 ELSE Gives(storage, a, c)
           /\ \A a \in Accounts : Recv(storage', a) = IF a = s THEN 0 ELSE Recv(storage, a)
  <1>. DEFINE after == Returned(storage, s)
              new == [after[s] EXCEPT !.isCandidate = FALSE, !.receivedVote = 0]
  <1>1. storage' = Save(after, s, new) /\ Flag(storage, s)
    BY DEF CandidateDeregister, Load, Flag
  <1>2. after \in [Accounts -> Record]
    <2>1. after = [a \in Accounts |-> after[a]]
      BY DEF Returned
    <2>2. \A a \in Accounts : after[a] \in Record
      BY ReturnedRecord
    <2>. HIDE DEF after
    <2>. QED
      BY <2>1, <2>2
  <1>3. \A a \in Accounts : Flag(after, a) = Flag(storage, a)
    BY ReturnedRecord DEF Flag
  <1>4. \A a \in Accounts : Hold(after, a) = Hold(storage, a) + Gives(storage, a, s)
    BY ReturnedRecord DEF Hold
  <1>5. \A a, c \in Accounts : Gives(after, a, c) = IF c = s THEN 0 ELSE Gives(storage, a, c)
    BY ReturnedRecord DEF Gives
  <1>6. \A a \in Accounts : Recv(after, a) = Recv(storage, a)
    BY ReturnedRecord DEF Recv
  <1>. HIDE DEF after
  <1>7. after[s] \in LooseRecord
    BY <1>2, RecordIsLoose
  <1>8. /\ new \in LooseRecord /\ new.isCandidate = FALSE
        /\ new.receivedVote = 0
        /\ new.holdVotes = Hold(after, s) /\ new.voteRecord = after[s].voteRecord
    <2>. DEFINE old == after[s]
                left == [old EXCEPT !.isCandidate = FALSE]
    <2>1. old \in LooseRecord /\ old.holdVotes = Hold(after, s)
      BY <1>7 DEF Hold
    <2>2. new = [left EXCEPT !.receivedVote = 0]
      OBVIOUS
    <2>. HIDE DEF old, new
    <2>3. /\ left \in LooseRecord /\ left.isCandidate = FALSE
          /\ left.holdVotes = old.holdVotes /\ left.voteRecord = old.voteRecord
      BY <2>1 DEF LooseRecord
    <2>. HIDE DEF left
    <2>4. new \in LooseRecord
      BY <2>2, <2>3, SMTT(60) DEF LooseRecord
    <2>5. /\ new.isCandidate = left.isCandidate /\ new.receivedVote = 0
          /\ new.holdVotes = left.holdVotes /\ new.voteRecord = left.voteRecord
      BY <2>2, <2>3 DEF LooseRecord
    <2>. QED
      BY <2>1, <2>3, <2>4, <2>5 DEF old
  <1>. HIDE DEF new
  <1>9. storage' \in [Accounts -> Record]
    BY <1>1, <1>2, <1>8, HeaderSaved
  <1>10. \A a \in Accounts : Flag(storage', a) = IF a = s THEN FALSE ELSE Flag(storage, a)
    <2>1. \A a \in Accounts : Flag(storage', a) = IF a = s THEN new.isCandidate ELSE Flag(after, a)
      BY <1>1, <1>2, <1>8, HeaderSaved, SMTT(60)
    <2>. QED
      BY <1>3, <1>8, <2>1
  <1>11. \A a \in Accounts : Hold(storage', a) = Hold(storage, a) + Gives(storage, a, s)
    <2>1. \A a \in Accounts : Hold(storage', a) = IF a = s THEN new.holdVotes ELSE Hold(after, a)
      BY <1>1, <1>2, <1>8, HeaderSaved, SMTT(60)
    <2>. QED
      BY <1>4, <1>8, <2>1
  <1>12. \A a, c \in Accounts : Gives(storage', a, c) = IF c = s THEN 0 ELSE Gives(storage, a, c)
    <2>1. \A a, c \in Accounts : Gives(storage', a, c) = Gives(after, a, c)
      BY <1>1, <1>2, <1>8, HeaderSaved, SMTT(60)
    <2>. QED
      BY <1>5, <2>1
  <1>13. \A a \in Accounts : Recv(storage', a) = IF a = s THEN 0 ELSE Recv(storage, a)
    <2>1. \A a \in Accounts : Recv(storage', a) = IF a = s THEN new.receivedVote ELSE Recv(after, a)
      BY <1>1, <1>2, <1>8, HeaderSaved, SMTT(60)
    <2>. QED
      BY <1>6, <1>8, <2>1
  <1>. QED
    BY <1>1, <1>9, <1>10, <1>11, <1>12, <1>13 DEF StorageType

\* So it is the book's step.
LEMMA DeregisterStep ==
    ASSUME StorageType, NEW s \in Accounts, CandidateDeregister(s)
    PROVE  StorageType' /\ Book!Deregister(s)
  <1>1. /\ StorageType' /\ Flag(storage, s)
        /\ \A a \in Accounts : Flag(storage', a) = IF a = s THEN FALSE ELSE Flag(storage, a)
        /\ \A a \in Accounts : Hold(storage', a) = Hold(storage, a) + Gives(storage, a, s)
        /\ \A a, c \in Accounts : Gives(storage', a, c) = IF c = s THEN 0 ELSE Gives(storage, a, c)
    BY DeregisterView
  <1>2. [v \in Accounts |-> [c \in Accounts |-> Gives(storage', v, c)]] =
            [v \in Accounts |-> [[c \in Accounts |-> Gives(storage, v, c)] EXCEPT ![s] = 0]]
    BY <1>1
  <1>. QED
    BY <1>1, <1>2 DEF Book!Deregister, Flag, Hold, Gives, Given, Load

\* Every contract call, and every step that changes nothing here, is a step of
\* the book or leaves it alone.
LEMMA StepIsBookStep ==
    ASSUME StorageType, [Next]_vars
    PROVE  StorageType' /\ BookStep
  <1>1. CASE UNCHANGED vars
    BY <1>1 DEF vars, StorageType, BookStep, Book!bookVars, Given, Load
  <1>2. ASSUME NEW s \in Accounts, CandidateRegister(s) PROVE StorageType' /\ BookStep
    BY <1>2, RegisterStep DEF BookStep, Book!Next
  <1>3. ASSUME NEW s \in Accounts, CandidateDeregister(s) PROVE StorageType' /\ BookStep
    BY <1>3, DeregisterStep DEF BookStep, Book!Next
  <1>4. ASSUME NEW s \in Accounts, NEW n \in 0..(Word - 1), Mortgage(s, n)
        PROVE  StorageType' /\ BookStep
    BY <1>4, MortgageStep
  <1>5. ASSUME NEW s \in Accounts, NEW n \in 0..(Word - 1), Redeem(s, n)
        PROVE  StorageType' /\ BookStep
    BY <1>5, RedeemStep
  <1>6. ASSUME NEW s \in Accounts, NEW to \in Accounts, NEW n \in 0..(Word - 1), Send(s, to, n)
        PROVE  StorageType' /\ BookStep
    BY <1>6, SendStep
  <1>7. ASSUME NEW s \in Accounts, NEW to \in Accounts, NEW n \in 0..(Word - 1), Vote(s, to, n)
        PROVE  StorageType' /\ BookStep
    BY <1>7, VoteStep
  <1>8. ASSUME NEW s \in Accounts, NEW to \in Accounts, NEW n \in 0..(Word - 1),
               RemoveVote(s, to, n)
        PROVE  StorageType' /\ BookStep
    BY <1>8, RemoveVoteStep
  <1>. QED
    BY <1>1, <1>2, <1>3, <1>4, <1>5, <1>6, <1>7, <1>8 DEF Next

\* Empty storage is the empty book.
LEMMA InitIsBookInit == Init => StorageType /\ Book!Init
  <1>. SUFFICES ASSUME Init PROVE StorageType /\ Book!Init
    OBVIOUS
  <1>1. Blank.voteRecord \in Entries
    <2>1. <<>> \in [{} -> Nat \ {0}]
      BY SMTT(60)
    <2>. QED
      BY <2>1 DEF Blank, Entries
  <1>2. Blank \in Record /\ Blank.holdVotes = 0 /\ ~Blank.isCandidate
    BY <1>1, SMTT(60) DEF Blank, Record
  <1>3. StorageType
    BY <1>2 DEF Init, StorageType
  <1>4. \A a, c \in Accounts : Given(a, c) = 0
    BY SMTT(60) DEF Init, Given, Load, VotesFor, Blank
  <1>5. Book!Init
    BY <1>4 DEF Init, Book!Init, Blank
  <1>. QED
    BY <1>3, <1>5

\* The contracts, which load and save one or two whole records at a time and
\* walk over all of them when a candidate leaves, do to the held and given votes
\* exactly what the plain book does, for any accounts, limit and word size.
THEOREM ContractsImplementBook == Spec => ImplementsBook
  <1>1. Init => StorageType /\ Book!Init
    BY InitIsBookInit
  <1>2. StorageType /\ [Next]_vars => StorageType' /\ BookStep
    BY StepIsBookStep
  <1>. QED
    BY <1>1, <1>2, PTL DEF Spec, ImplementsBook, Book!Spec, BookStep

-----------------------------------------------------------------------------
(* Totals over all accounts.                                               *)

\* A total in which one account's share changes.
LEMMA TotalPoint ==
    ASSUME NEW f \in [Accounts -> Int], NEW k \in [Accounts -> Int], NEW x \in Accounts,
           \A a \in Accounts : a # x => f[a] = k[a]
    PROVE  Total(f) \in Int /\ Total(k) = Total(f) - f[x] + k[x]
  <1>1. IsFiniteSet(Accounts)
    BY VotesAssumption
  <1>2. Total(f) \in Int
    BY <1>1, SumPoint
  <1>3. Total(k) = Total(f) - f[x] + k[x]
    BY <1>1, SumPoint, SMTT(60)
  <1>. QED
    BY <1>2, <1>3

\* A total of numbers is a number, and no share is larger.
LEMMA TotalNat ==
    ASSUME NEW f \in [Accounts -> Nat]
    PROVE  /\ Total(f) \in Nat /\ \A x \in Accounts : f[x] <= Total(f)
           /\ (\A x \in Accounts : f[x] = 0) => Total(f) = 0
  BY VotesAssumption, SumNat

\* A total goes down when one account's share does.
LEMMA TotalDown ==
    ASSUME NEW f \in [Accounts -> Nat], NEW k \in [Accounts -> Nat], NEW x \in Accounts,
           \A a \in Accounts : a # x => f[a] = k[a], k[x] <= f[x]
    PROVE  Total(k) <= Total(f)
  BY VotesAssumption, SumDown

\* A total stays when one share gains what another loses.
LEMMA TotalMoved ==
    ASSUME NEW f \in [Accounts -> Nat], NEW k \in [Accounts -> Nat],
           NEW x \in Accounts, NEW y \in Accounts, x # y,
           \A a \in Accounts : a # x /\ a # y => f[a] = k[a], k[x] + k[y] = f[x] + f[y]
    PROVE  Total(k) = Total(f)
  <1>1. IsFiniteSet(Accounts)
    BY VotesAssumption
  <1>. QED
    BY <1>1, SumMoved, SMTT(60)

\* A total whose shares are p times as large, or larger, is p times as large.
LEMMA TotalScaled ==
    ASSUME NEW f \in [Accounts -> Nat], NEW k \in [Accounts -> Nat], NEW p \in Nat,
           \A a \in Accounts : p * f[a] <= k[a]
    PROVE  p * Total(f) <= Total(k)
  BY VotesAssumption, SumScaled

-----------------------------------------------------------------------------

\* The votes an account gave, the votes a candidate was given, and the money an
\* account's balance and votes are worth.
Row(st, a) == Total([c \in Accounts |-> Gives(st, a, c)])
Column(st, c) == Total([v \in Accounts |-> Gives(st, v, c)])
Worth(b, st, a) == b[a] + VotesPreEth * (Hold(st, a) + Row(st, a))
Worths(b, st) == [a \in Accounts |-> Worth(b, st, a)]

\* They are numbers.
LEMMA WorthTyped ==
    ASSUME NEW st \in [Accounts -> Record], NEW b \in [Accounts -> Nat]
    PROVE  /\ \A a, c \in Accounts : Gives(st, a, c) \in Nat
           /\ \A a \in Accounts : Hold(st, a) \in Nat
           /\ \A a \in Accounts : Row(st, a) \in Nat
           /\ \A a \in Accounts : Column(st, a) \in Nat
           /\ Worths(b, st) \in [Accounts -> Nat]
  <1>1. \A a, c \in Accounts : Gives(st, a, c) \in Nat
    BY RecordIsLoose, VotesForNat DEF Gives
  <1>2. \A a \in Accounts : Hold(st, a) \in Nat
    BY DEF Record, Hold
  <1>3. ASSUME NEW a \in Accounts PROVE Row(st, a) \in Nat /\ Column(st, a) \in Nat
    <2>1. PICK f : f = [c \in Accounts |-> Gives(st, a, c)]
      OBVIOUS
    <2>2. PICK g : g = [v \in Accounts |-> Gives(st, v, a)]
      OBVIOUS
    <2>3. f \in [Accounts -> Nat] /\ g \in [Accounts -> Nat]
      BY <1>1, <2>1, <2>2
    <2>4. Total(f) \in Nat
      BY <2>3, TotalNat
    <2>5. Total(g) \in Nat
      BY <2>3, TotalNat
    <2>. QED
      BY <2>1, <2>2, <2>4, <2>5 DEF Row, Column
  <1>4. ASSUME NEW a \in Accounts PROVE Worth(b, st, a) \in Nat
    <2>1. /\ Hold(st, a) \in Nat /\ Row(st, a) \in Nat /\ b[a] \in Nat /\ VotesPreEth \in Nat
      BY <1>2, <1>3, VotesAssumption
    <2>. QED
      BY <2>1, SMTT(60) DEF Worth
  <1>5. Worths(b, st) \in [Accounts -> Nat]
    BY <1>4 DEF Worths
  <1>. QED
    BY <1>1, <1>2, <1>3, <1>5

\* A row in which one entry changes.
LEMMA RowPoint ==
    ASSUME NEW st \in [Accounts -> Record], NEW su \in [Accounts -> Record],
           NEW a \in Accounts, NEW x \in Accounts,
           \A c \in Accounts : c # x => Gives(su, a, c) = Gives(st, a, c)
    PROVE  Row(su, a) = Row(st, a) - Gives(st, a, x) + Gives(su, a, x)
  <1>1. \A c \in Accounts : Gives(st, a, c) \in Nat /\ Gives(su, a, c) \in Nat
    BY RecordIsLoose, VotesForNat DEF Gives
  <1>2. PICK f : f = [c \in Accounts |-> Gives(st, a, c)]
    OBVIOUS
  <1>3. PICK k : k = [c \in Accounts |-> Gives(su, a, c)]
    OBVIOUS
  <1>4. f \in [Accounts -> Int] /\ k \in [Accounts -> Int]
    BY <1>1, <1>2, <1>3, SMTT(60)
  <1>5. \A c \in Accounts : c # x => f[c] = k[c]
    BY <1>2, <1>3
  <1>6. Total(k) = Total(f) - f[x] + k[x]
    BY <1>4, <1>5, TotalPoint
  <1>. QED
    BY <1>2, <1>3, <1>6 DEF Row

\* A column in which one entry changes.
LEMMA ColumnPoint ==
    ASSUME NEW st \in [Accounts -> Record], NEW su \in [Accounts -> Record],
           NEW c \in Accounts, NEW x \in Accounts,
           \A v \in Accounts : v # x => Gives(su, v, c) = Gives(st, v, c)
    PROVE  Column(su, c) = Column(st, c) - Gives(st, x, c) + Gives(su, x, c)
  <1>1. \A v \in Accounts : Gives(st, v, c) \in Nat /\ Gives(su, v, c) \in Nat
    BY RecordIsLoose, VotesForNat DEF Gives
  <1>2. PICK f : f = [v \in Accounts |-> Gives(st, v, c)]
    OBVIOUS
  <1>3. PICK k : k = [v \in Accounts |-> Gives(su, v, c)]
    OBVIOUS
  <1>4. f \in [Accounts -> Int] /\ k \in [Accounts -> Int]
    BY <1>1, <1>2, <1>3, SMTT(60)
  <1>5. \A v \in Accounts : v # x => f[v] = k[v]
    BY <1>2, <1>3
  <1>6. Total(k) = Total(f) - f[x] + k[x]
    BY <1>4, <1>5, TotalPoint
  <1>. QED
    BY <1>2, <1>3, <1>6 DEF Column

\* Rows and columns with the same entries have the same sum.
LEMMA SameRow ==
    ASSUME NEW st, NEW su, NEW a \in Accounts,
           \A c \in Accounts : Gives(su, a, c) = Gives(st, a, c)
    PROVE  Row(su, a) = Row(st, a)
  <1>1. [c \in Accounts |-> Gives(su, a, c)] = [c \in Accounts |-> Gives(st, a, c)]
    OBVIOUS
  <1>. QED
    BY <1>1 DEF Row

\* The same for a column.
LEMMA SameColumn ==
    ASSUME NEW st, NEW su, NEW c \in Accounts,
           \A v \in Accounts : Gives(su, v, c) = Gives(st, v, c)
    PROVE  Column(su, c) = Column(st, c)
  <1>1. [v \in Accounts |-> Gives(su, v, c)] = [v \in Accounts |-> Gives(st, v, c)]
    OBVIOUS
  <1>. QED
    BY <1>1 DEF Column

-----------------------------------------------------------------------------

\* What a step must keep for the money: the balances are numbers, and all that
\* there is does not become more.
BalanceType == balance \in [Accounts -> Nat]
NoGain == Total(Worths(balance', storage')) <= Total(Worths(balance, storage))

\* A step that touches the worth of one account, and does not raise it.
LEMMA OneWorth ==
    ASSUME StorageType, StorageType', BalanceType, BalanceType', NEW s \in Accounts,
           \A a \in Accounts : a # s => Worth(balance', storage', a) = Worth(balance, storage, a),
           Worth(balance', storage', s) <= Worth(balance, storage, s)
    PROVE  NoGain
  <1>1. PICK f : f = Worths(balance, storage)
    OBVIOUS
  <1>2. PICK k : k = Worths(balance', storage')
    OBVIOUS
  <1>3. f \in [Accounts -> Nat]
    BY <1>1, WorthTyped DEF StorageType, BalanceType
  <1>4. k \in [Accounts -> Nat]
    BY <1>2, WorthTyped DEF StorageType, BalanceType
  <1>5. /\ \A a \in Accounts : a # s => f[a] = k[a]
        /\ k[s] <= f[s]
    BY <1>1, <1>2 DEF Worths
  <1>6. Total(k) <= Total(f)
    BY <1>3, <1>4, <1>5, TotalDown
  <1>. QED
    BY <1>1, <1>2, <1>6 DEF NoGain

\* candidateRegister moves no votes.
LEMMA RegisterMoney ==
    ASSUME StorageType, BalanceType, NEW s \in Accounts, CandidateRegister(s)
    PROVE  BalanceType' /\ NoGain
  <1>1. /\ StorageType' /\ \A a \in Accounts : Hold(storage', a) = Hold(storage, a)
        /\ \A a, c \in Accounts : Gives(storage', a, c) = Gives(storage, a, c)
    BY RegisterView
  <1>2. balance' = balance /\ BalanceType'
    BY DEF CandidateRegister, BalanceType
  <1>3. \A a \in Accounts : Row(storage', a) = Row(storage, a)
    BY <1>1, SameRow
  <1>4. \A a \in Accounts : Worth(balance', storage', a) = Worth(balance, storage, a)
    BY <1>1, <1>2, <1>3 DEF Worth
  <1>5. Worth(balance, storage, s) \in Nat
    BY WorthTyped DEF StorageType, BalanceType, Worths
  <1>. QED
    BY <1>1, <1>2, <1>4, <1>5, OneWorth, SMTT(60)

\* candidateDeregister: what a voter's record gave the candidate is held again.
LEMMA DeregisterMoney ==
    ASSUME StorageType, BalanceType, NEW s \in Accounts, CandidateDeregister(s)
    PROVE  BalanceType' /\ NoGain
  <1>1. StorageType'
    BY DeregisterView
  <1>2. \A a \in Accounts : Hold(storage', a) = Hold(storage, a) + Gives(storage, a, s)
    BY DeregisterView
  <1>3. \A a, c \in Accounts : Gives(storage', a, c) = IF c = s THEN 0 ELSE Gives(storage, a, c)
    BY DeregisterView
  <1>4. balance' = balance /\ BalanceType'
    BY DEF CandidateDeregister, BalanceType
  <1>5. ASSUME NEW a \in Accounts
        PROVE  Worth(balance', storage', a) = Worth(balance, storage, a)
    <2>1. Row(storage', a) = Row(storage, a) - Gives(storage, a, s) + Gives(storage', a, s)
      BY <1>1, <1>3, RowPoint, SMTT(60) DEF StorageType
    <2>2. Gives(storage', a, s) = 0
      BY <1>3
    <2>3. Hold(storage, a) \in Nat /\ Row(storage, a) \in Nat /\ Gives(storage, a, s) \in Nat
      BY WorthTyped DEF StorageType, BalanceType
    <2>4. Hold(storage', a) + Row(storage', a) = Hold(storage, a) + Row(storage, a)
      BY <1>2, <2>1, <2>2, <2>3, SMTT(60)
    <2>. QED
      BY <1>4, <2>4 DEF Worth
  <1>6. Worth(balance, storage, s) \in Nat
    BY WorthTyped DEF StorageType, BalanceType, Worths
  <1>. QED
    BY <1>1, <1>4, <1>5, <1>6, OneWorth, SMTT(60)

\* mortgage, redeem: the hold of one account changes, and its balance.
LEMMA HoldMoney ==
    ASSUME StorageType, BalanceType, NEW s \in Accounts, NEW n, n \in Nat,
           storage' = Save(storage, s, HoldsNow(s, n)), NEW m \in Nat,
           balance' = [balance EXCEPT ![s] = m],
           m + VotesPreEth * n <= balance[s] + VotesPreEth * Hold(storage, s)
    PROVE  BalanceType' /\ NoGain
  <1>1. StorageType'
    BY HoldSaved
  <1>2. \A a \in Accounts : Hold(storage', a) = IF a = s THEN n ELSE Hold(storage, a)
    BY HoldSaved
  <1>3. \A a, c \in Accounts : Gives(storage', a, c) = Gives(storage, a, c)
    BY HoldSaved
  <1>4. BalanceType' /\ balance'[s] = m /\ \A a \in Accounts : a # s => balance'[a] = balance[a]
    BY DEF BalanceType
  <1>5. \A a \in Accounts : Row(storage', a) = Row(storage, a)
    BY <1>3, SameRow
  <1>6. \A a \in Accounts : a # s => Worth(balance', storage', a) = Worth(balance, storage, a)
    BY <1>2, <1>4, <1>5 DEF Worth
  <1>7. Worth(balance', storage', s) <= Worth(balance, storage, s)
    <2>1. PICK r : r = Row(storage, s)
      OBVIOUS
    <2>2. PICK h : h = Hold(storage, s)
      OBVIOUS
    <2>3. PICK p : p = VotesPreEth
      OBVIOUS
    <2>4. PICK b : b = balance[s]
      OBVIOUS
    <2>5. r \in Nat /\ h \in Nat /\ b \in Nat /\ p \in Nat
      BY <2>1, <2>2, <2>3, <2>4, WorthTyped, VotesAssumption DEF StorageType, BalanceType
    <2>6. Worth(balance', storage', s) = m + p * (n + r)
      BY <1>2, <1>4, <1>5, <2>1, <2>3 DEF Worth
    <2>7. Worth(balance, storage, s) = b + p * (h + r)
      BY <2>1, <2>2, <2>3, <2>4 DEF Worth
    <2>8. p * (n + r) = p * n + p * r /\ p * (h + r) = p * h + p * r
      BY <2>5, SMTT(60)
    <2>9. p * n \in Nat /\ p * h \in Nat /\ p * r \in Nat
      BY <2>5, SMTT(60)
    <2>10. m + p * n <= b + p * h
      BY <2>2, <2>3, <2>4
    <2>. QED
      BY <2>5, <2>6, <2>7, <2>8, <2>9, <2>10, SMTT(60)
  <1>. QED
    BY <1>1, <1>4, <1>6, <1>7, OneWorth

\* mortgage: the money taken is what the votes are worth.
LEMMA MortgageMoney ==
    ASSUME StorageType, BalanceType, NEW s \in Accounts, NEW m \in 0..(Word - 1), Mortgage(s, m)
    PROVE  BalanceType' /\ NoGain
  <1>. DEFINE n == m \div VotesPreEth
  <1>1. n \in 0..(Word - 1)
    BY WholeVotes
  <1>2. n * VotesPreEth <= m
    <2>1. \A d \in Nat \ {0} : (m \div d) * d <= m
      BY SMTT(60)
    <2>. QED
      BY <2>1, VotesAssumption
  <1>3. /\ storage' = Save(storage, s, HoldsNow(s, Hold(storage, s) + n))
        /\ balance' = [balance EXCEPT ![s] = balance[s] - n * VotesPreEth]
        /\ balance[s] >= m
    BY DEF Mortgage, Load, HoldsNow, Hold
  <1>. HIDE DEF n
  <1>4. Hold(storage, s) \in Nat /\ balance[s] \in Nat /\ VotesPreEth \in Nat /\ n \in Nat
    BY <1>1, HoldIsNat, VotesAssumption, SMTT(60) DEF BalanceType
  <1>5. PICK k : k = Hold(storage, s) + n
    OBVIOUS
  <1>6. PICK left : left = balance[s] - n * VotesPreEth
    OBVIOUS
  <1>7. k \in Nat /\ left \in Nat
    BY <1>2, <1>3, <1>4, <1>5, <1>6, SMTT(60)
  <1>8. VotesPreEth * k = VotesPreEth * Hold(storage, s) + n * VotesPreEth
    BY <1>4, <1>5, SMTT(60)
  <1>9. VotesPreEth * Hold(storage, s) \in Nat /\ n * VotesPreEth \in Nat
    BY <1>4, SMTT(60)
  <1>10. left + VotesPreEth * k <= balance[s] + VotesPreEth * Hold(storage, s)
    BY <1>4, <1>6, <1>8, <1>9, SMTT(60)
  <1>. QED
    BY <1>3, <1>5, <1>6, <1>7, <1>10, HoldMoney

\* redeem: the product of votes and VOTES_PRE_ETH may wrap, which pays less.
LEMMA RedeemMoney ==
    ASSUME StorageType, BalanceType, NEW s \in Accounts, NEW n \in 0..(Word - 1), Redeem(s, n)
    PROVE  BalanceType' /\ NoGain
  <1>. DEFINE paid == (n * VotesPreEth) % Word
  <1>1. n \in Nat /\ VotesPreEth \in Nat /\ n * VotesPreEth \in Nat /\ Word \in Nat \ {0}
    BY VotesAssumption, SMTT(60)
  <1>2. paid \in Nat /\ paid <= n * VotesPreEth
    <2>1. \A z \in Nat, w \in Nat \ {0} : z % w \in Nat /\ z % w <= z
      BY SMTT(60)
    <2>. QED
      BY <1>1, <2>1
  <1>3. /\ storage' = Save(storage, s, HoldsNow(s, Hold(storage, s) - n))
        /\ balance' = [balance EXCEPT ![s] = balance[s] + paid]
        /\ Hold(storage, s) >= n
    BY DEF Redeem, Load, HoldsNow, Hold
  <1>. HIDE DEF paid
  <1>4. Hold(storage, s) \in Nat /\ balance[s] \in Nat
    BY HoldIsNat DEF BalanceType
  <1>5. PICK k : k = Hold(storage, s) - n
    OBVIOUS
  <1>6. PICK now : now = balance[s] + paid
    OBVIOUS
  <1>7. k \in Nat /\ now \in Nat
    BY <1>1, <1>2, <1>3, <1>4, <1>5, <1>6, SMTT(60)
  <1>8. VotesPreEth * Hold(storage, s) = VotesPreEth * k + n * VotesPreEth
    <2>1. Hold(storage, s) = k + n
      BY <1>1, <1>4, <1>5, SMTT(60)
    <2>. QED
      BY <1>1, <1>7, <2>1, SMTT(60)
  <1>9. VotesPreEth * k \in Nat
    BY <1>1, <1>7, SMTT(60)
  <1>10. now + VotesPreEth * k <= balance[s] + VotesPreEth * Hold(storage, s)
    BY <1>1, <1>2, <1>4, <1>6, <1>8, <1>9, SMTT(60)
  <1>. QED
    BY <1>3, <1>5, <1>6, <1>7, <1>10, HoldMoney

\* send: what one account's votes lose, the other's gain.
LEMMA SendMoney ==
    ASSUME StorageType, BalanceType, NEW s \in Accounts, NEW to \in Accounts,
           NEW n \in 0..(Word - 1), Send(s, to, n)
    PROVE  BalanceType' /\ NoGain
  <1>1. StorageType' /\ s # to /\ Hold(storage, s) >= n
    BY SendView
  <1>2. \A a \in Accounts : Hold(storage', a) = IF a = s THEN Hold(storage, s) - n
            ELSE IF a = to THEN Hold(storage, to) + n ELSE Hold(storage, a)
    BY SendView, SMTT(60)
  <1>3. \A a, c \in Accounts : Gives(storage', a, c) = Gives(storage, a, c)
    BY SendView
  <1>4. balance' = balance /\ BalanceType'
    BY DEF Send, Transfer, BalanceType
  <1>5. \A a \in Accounts : Row(storage', a) = Row(storage, a)
    BY <1>3, SameRow
  <1>6. PICK f : f = Worths(balance, storage)
    OBVIOUS
  <1>7. PICK k : k = Worths(balance', storage')
    OBVIOUS
  <1>8. f \in [Accounts -> Nat]
    BY <1>6, WorthTyped DEF StorageType, BalanceType
  <1>9. k \in [Accounts -> Nat]
    BY <1>1, <1>4, <1>7, WorthTyped DEF StorageType, BalanceType
  <1>10. \A a \in Accounts : a # s /\ a # to => f[a] = k[a]
    BY <1>2, <1>4, <1>5, <1>6, <1>7 DEF Worths, Worth
  <1>11. k[s] + k[to] = f[s] + f[to]
    <2>1. PICK p : p = VotesPreEth
      OBVIOUS
    <2>2. PICK u : u = Hold(storage, s) + Row(storage, s)
      OBVIOUS
    <2>3. PICK v : v = Hold(storage, to) + Row(storage, to)
      OBVIOUS
    <2>4. /\ p \in Nat /\ n \in Nat /\ balance[s] \in Nat /\ balance[to] \in Nat
          /\ Hold(storage, s) \in Nat /\ Row(storage, s) \in Nat
          /\ Hold(storage, to) \in Nat /\ Row(storage, to) \in Nat
      BY <2>1, WorthTyped, VotesAssumption, SMTT(60) DEF StorageType, BalanceType
    <2>5. u \in Nat /\ v \in Nat
      BY <2>2, <2>3, <2>4, SMTT(60)
    <2>6. Hold(storage', s) + Row(storage', s) = u - n
      BY <1>2, <1>5, <2>2, <2>4, SMTT(60)
    <2>7. Hold(storage', to) + Row(storage', to) = v + n
      BY <1>1, <1>2, <1>5, <2>3, <2>4, SMTT(60)
    <2>8. k[s] = balance[s] + p * (u - n) /\ k[to] = balance[to] + p * (v + n)
      BY <1>4, <1>7, <2>1, <2>6, <2>7 DEF Worths, Worth
    <2>9. f[s] = balance[s] + p * u /\ f[to] = balance[to] + p * v
      BY <1>6, <2>1, <2>2, <2>3 DEF Worths, Worth
    <2>10. p * (u - n) = p * u - p * n /\ p * (v + n) = p * v + p * n
      BY <2>4, <2>5, SMTT(60)
    <2>11. p * u \in Int /\ p * v \in Int /\ p * n \in Int
      BY <2>4, <2>5, SMTT(60)
    <2>. QED
      BY <2>4, <2>8, <2>9, <2>10, <2>11, SMTT(60)
  <1>12. Total(k) = Total(f)
    BY <1>1, <1>8, <1>9, <1>10, <1>11, TotalMoved, SMTT(60)
  <1>13. Total(f) \in Nat
    BY <1>8, TotalNat
  <1>. QED
    BY <1>4, <1>6, <1>7, <1>12, <1>13, SMTT(60) DEF NoGain

\* vote, removeVote: an account's votes change place, from held to given or back.
LEMMA MoveMoney ==
    ASSUME StorageType, BalanceType, NEW s \in Accounts, NEW to \in Accounts, NEW n \in Int,
           Hold(storage, s) - n \in Nat, Gives(storage, s, to) + n \in Nat,
           Move(s, to, n), balance' = balance
    PROVE  BalanceType' /\ NoGain
  <1>1. StorageType'
    BY Moved
  <1>2. \A a \in Accounts : Hold(storage', a) =
            IF a = s THEN Hold(storage, a) - n ELSE Hold(storage, a)
    BY Moved, SMTT(60)
  <1>3. \A a, c \in Accounts : Gives(storage', a, c) =
            IF a = s /\ c = to THEN Gives(storage, a, c) + n ELSE Gives(storage, a, c)
    BY Moved, SMTT(60)
  <1>4. BalanceType'
    BY DEF BalanceType
  <1>5. \A a \in Accounts : a # s => Worth(balance', storage', a) = Worth(balance, storage, a)
    <2>1. \A a \in Accounts : a # s => Row(storage', a) = Row(storage, a)
      BY <1>3, SameRow
    <2>. QED
      BY <1>2, <2>1 DEF Worth
  <1>6. Worth(balance', storage', s) = Worth(balance, storage, s)
    <2>1. Row(storage', s) = Row(storage, s) - Gives(storage, s, to) + Gives(storage', s, to)
      BY <1>1, <1>3, RowPoint DEF StorageType
    <2>2. Hold(storage, s) \in Nat /\ Row(storage, s) \in Nat /\ Gives(storage, s, to) \in Nat
      BY WorthTyped DEF StorageType, BalanceType
    <2>3. Gives(storage', s, to) = Gives(storage, s, to) + n
      BY <1>3
    <2>4. Hold(storage', s) = Hold(storage, s) - n
      BY <1>2
    <2>5. Hold(storage', s) + Row(storage', s) = Hold(storage, s) + Row(storage, s)
      BY <2>1, <2>2, <2>3, <2>4, SMTT(60)
    <2>. QED
      BY <2>5 DEF Worth
  <1>7. Worth(balance, storage, s) \in Nat
    BY WorthTyped DEF StorageType, BalanceType, Worths
  <1>. QED
    BY <1>1, <1>4, <1>5, <1>6, <1>7, OneWorth, SMTT(60)

\* What a call of vote or removeVote moves: n votes, or back -n.
LEMMA MovesOf ==
    ASSUME StorageType, NEW s \in Accounts, NEW to \in Accounts, NEW n \in 0..(Word - 1),
           Vote(s, to, n) \/ RemoveVote(s, to, n)
    PROVE  /\ Flag(storage, to) /\ balance' = balance
           /\ \E k \in Int : /\ Hold(storage, s) - k \in Nat /\ Gives(storage, s, to) + k \in Nat
                             /\ Move(s, to, k)
  <1>1. Hold(storage, s) \in Nat /\ Gives(storage, s, to) \in Nat /\ n \in Nat
    BY HoldIsNat, GivesIsNat, VotesAssumption, SMTT(60)
  <1>2. CASE Vote(s, to, n)
    <2>1. /\ Hold(storage, s) >= n /\ Flag(storage, to) /\ Move(s, to, n) /\ balance' = balance
      BY <1>2 DEF Vote, Load, Hold, Flag
    <2>. QED
      BY <1>1, <2>1, SMTT(60)
  <1>3. CASE RemoveVote(s, to, n)
    <2>1. /\ Gives(storage, s, to) >= n /\ Flag(storage, to) /\ Move(s, to, -n)
          /\ balance' = balance
      BY <1>3 DEF RemoveVote, Load, Gives, VotesFor, Flag
    <2>2. -n \in Int /\ Hold(storage, s) - (-n) \in Nat /\ Gives(storage, s, to) + (-n) \in Nat
      BY <1>1, <2>1, SMTT(60)
    <2>. QED
      BY <2>1, <2>2
  <1>. QED
    BY <1>2, <1>3

\* No call makes money or votes.
LEMMA StepMoney ==
    ASSUME StorageType, BalanceType, [Next]_vars
    PROVE  BalanceType' /\ NoGain
  <1>1. CASE UNCHANGED vars
    <2>1. balance' = balance /\ storage' = storage
      BY <1>1 DEF vars
    <2>2. PICK f : f = Worths(balance, storage)
      OBVIOUS
    <2>3. f \in [Accounts -> Nat]
      BY <2>2, WorthTyped DEF StorageType, BalanceType
    <2>4. Total(f) \in Nat
      BY <2>3, TotalNat
    <2>. QED
      BY <2>1, <2>2, <2>4, SMTT(60) DEF BalanceType, NoGain
  <1>2. ASSUME NEW s \in Accounts, CandidateRegister(s) PROVE BalanceType' /\ NoGain
    BY <1>2, RegisterMoney
  <1>3. ASSUME NEW s \in Accounts, CandidateDeregister(s) PROVE BalanceType' /\ NoGain
    BY <1>3, DeregisterMoney
  <1>4. ASSUME NEW s \in Accounts, NEW n \in 0..(Word - 1), Mortgage(s, n)
        PROVE  BalanceType' /\ NoGain
    BY <1>4, MortgageMoney
  <1>5. ASSUME NEW s \in Accounts, NEW n \in 0..(Word - 1), Redeem(s, n)
        PROVE  BalanceType' /\ NoGain
    BY <1>5, RedeemMoney
  <1>6. ASSUME NEW s \in Accounts, NEW to \in Accounts, NEW n \in 0..(Word - 1), Send(s, to, n)
        PROVE  BalanceType' /\ NoGain
    BY <1>6, SendMoney
  <1>7. ASSUME NEW s \in Accounts, NEW to \in Accounts, NEW n \in 0..(Word - 1),
               Vote(s, to, n) \/ RemoveVote(s, to, n)
        PROVE  BalanceType' /\ NoGain
    BY <1>7, MovesOf, MoveMoney
  <1>. QED
    BY <1>1, <1>2, <1>3, <1>4, <1>5, <1>6, <1>7 DEF Next

-----------------------------------------------------------------------------

\* A candidate has received what the records give it, anybody else nothing.
Tallied == \A c \in Accounts : Recv(storage, c) = IF Flag(storage, c) THEN Column(storage, c) ELSE 0

\* The book's property in terms of the records.
OnlyToCandidates == \A v, c \in Accounts : Gives(storage, v, c) > 0 => Flag(storage, c)

\* candidateRegister: nobody has given the new candidate votes yet.
LEMMA RegisterTally ==
    ASSUME StorageType, OnlyToCandidates, Tallied, NEW s \in Accounts, CandidateRegister(s)
    PROVE  Tallied'
  <1>1. StorageType' /\ ~Flag(storage, s)
    BY RegisterView
  <1>2. \A a \in Accounts : Flag(storage', a) = IF a = s THEN TRUE ELSE Flag(storage, a)
    BY RegisterView
  <1>3. \A a, c \in Accounts : Gives(storage', a, c) = Gives(storage, a, c)
    BY RegisterView
  <1>4. \A a \in Accounts : Recv(storage', a) = Recv(storage, a)
    BY RegisterView
  <1>5. \A c \in Accounts : Column(storage', c) = Column(storage, c)
    BY <1>3, SameColumn
  <1>6. Column(storage, s) = 0
    <2>1. \A v \in Accounts : Gives(storage, v, s) \in Nat
      BY GivesIsNat
    <2>2. \A v \in Accounts : Gives(storage, v, s) = 0
      BY <1>1, <2>1, SMTT(60) DEF OnlyToCandidates
    <2>3. PICK f : f = [v \in Accounts |-> Gives(storage, v, s)]
      OBVIOUS
    <2>4. f \in [Accounts -> Nat] /\ \A v \in Accounts : f[v] = 0
      BY <2>2, <2>3, SMTT(60)
    <2>5. Total(f) = 0
      BY <2>4, TotalNat
    <2>. QED
      BY <2>3, <2>5 DEF Column
  <1>. QED
    BY <1>1, <1>2, <1>4, <1>5, <1>6 DEF Tallied

\* candidateDeregister clears what the leaving candidate received and no other.
LEMMA DeregisterTally ==
    ASSUME StorageType, Tallied, NEW s \in Accounts, CandidateDeregister(s)
    PROVE  Tallied'
  <1>1. \A a \in Accounts : Flag(storage', a) = IF a = s THEN FALSE ELSE Flag(storage, a)
    BY DeregisterView
  <1>2. \A a, c \in Accounts : Gives(storage', a, c) = IF c = s THEN 0 ELSE Gives(storage, a, c)
    BY DeregisterView
  <1>3. \A a \in Accounts : Recv(storage', a) = IF a = s THEN 0 ELSE Recv(storage, a)
    BY DeregisterView
  <1>4. \A c \in Accounts : c # s => Column(storage', c) = Column(storage, c)
    BY <1>2, SameColumn
  <1>. QED
    BY <1>1, <1>3, <1>4 DEF Tallied

\* A call that gives and receives nothing.
LEMMA QuietTally ==
    ASSUME Tallied,
           \A a \in Accounts : Flag(storage', a) = Flag(storage, a),
           \A a, c \in Accounts : Gives(storage', a, c) = Gives(storage, a, c),
           \A a \in Accounts : Recv(storage', a) = Recv(storage, a)
    PROVE  Tallied'
  <1>1. \A c \in Accounts : Column(storage', c) = Column(storage, c)
    BY SameColumn
  <1>. QED
    BY <1>1 DEF Tallied

\* mortgage, redeem: another hold is saved and nothing else.
LEMMA HoldTally ==
    ASSUME StorageType, Tallied, NEW s \in Accounts, NEW n, n \in Nat,
           storage' = Save(storage, s, HoldsNow(s, n))
    PROVE  Tallied'
  <1>1. \A a \in Accounts : Flag(storage', a) = Flag(storage, a)
    BY HoldSaved
  <1>2. \A a, c \in Accounts : Gives(storage', a, c) = Gives(storage, a, c)
    BY HoldSaved
  <1>3. \A a \in Accounts : Recv(storage', a) = Recv(storage, a)
    BY HoldSaved
  <1>. QED
    BY <1>1, <1>2, <1>3, QuietTally

\* vote, removeVote: the sender's entry and the candidate's count, in two records
\* or in one, change by the same number.
LEMMA MoveTally ==
    ASSUME StorageType, Tallied, NEW s \in Accounts, NEW to \in Accounts, NEW n \in Int,
           Hold(storage, s) - n \in Nat, Gives(storage, s, to) + n \in Nat,
           Move(s, to, n), Flag(storage, to)
    PROVE  Tallied'
  <1>1. StorageType'
    BY Moved
  <1>2. \A a \in Accounts : Flag(storage', a) = Flag(storage, a)
    BY Moved
  <1>3. \A a, c \in Accounts : Gives(storage', a, c) =
            IF a = s /\ c = to THEN Gives(storage, a, c) + n ELSE Gives(storage, a, c)
    BY Moved, SMTT(60)
  <1>4. \A a \in Accounts : Recv(storage', a) =
            IF a = to THEN Recv(storage, a) + n ELSE Recv(storage, a)
    BY Moved, SMTT(60)
  <1>5. \A c \in Accounts : c # to => Column(storage', c) = Column(storage, c)
    BY <1>3, SameColumn
  <1>6. Column(storage', to) = Column(storage, to) + n
    <2>1. Column(storage', to) =
              Column(storage, to) - Gives(storage, s, to) + Gives(storage', s, to)
      BY <1>1, <1>3, ColumnPoint, SMTT(60) DEF StorageType
    <2>2. Gives(storage, s, to) \in Nat
      BY GivesIsNat
    <2>3. Column(storage, to) \in Nat
      <3>1. [a \in Accounts |-> 0] \in [Accounts -> Nat]
        OBVIOUS
      <3>. QED
        BY <3>1, WorthTyped DEF StorageType
    <2>4. Gives(storage', s, to) = Gives(storage, s, to) + n
      BY <1>3
    <2>. QED
      BY <2>1, <2>2, <2>3, <2>4, SMTT(60)
  <1>. QED
    BY <1>2, <1>4, <1>5, <1>6 DEF Tallied

\* Every call keeps what the candidates have received in step with the records.
LEMMA StepTally ==
    ASSUME StorageType, OnlyToCandidates, Tallied, [Next]_vars
    PROVE  Tallied'
  <1>1. CASE UNCHANGED vars
    BY <1>1 DEF vars, Tallied
  <1>2. ASSUME NEW s \in Accounts, CandidateRegister(s) PROVE Tallied'
    BY <1>2, RegisterTally
  <1>3. ASSUME NEW s \in Accounts, CandidateDeregister(s) PROVE Tallied'
    BY <1>3, DeregisterTally
  <1>4. ASSUME NEW s \in Accounts, NEW m \in 0..(Word - 1), Mortgage(s, m) PROVE Tallied'
    <2>1. PICK n : n = Hold(storage, s) + (m \div VotesPreEth)
      OBVIOUS
    <2>2. storage' = Save(storage, s, HoldsNow(s, n))
      BY <1>4, <2>1 DEF Mortgage, Load, HoldsNow, Hold
    <2>3. n \in Nat
      BY <2>1, WholeVotes, HoldIsNat, VotesAssumption, SMTT(60)
    <2>. QED
      BY <2>2, <2>3, HoldTally
  <1>5. ASSUME NEW s \in Accounts, NEW m \in 0..(Word - 1), Redeem(s, m) PROVE Tallied'
    <2>1. PICK n : n = Hold(storage, s) - m
      OBVIOUS
    <2>2. storage' = Save(storage, s, HoldsNow(s, n)) /\ Hold(storage, s) >= m
      BY <1>5, <2>1 DEF Redeem, Load, HoldsNow, Hold
    <2>3. n \in Nat
      BY <2>1, <2>2, HoldIsNat, VotesAssumption, SMTT(60)
    <2>. QED
      BY <2>2, <2>3, HoldTally
  <1>6. ASSUME NEW s \in Accounts, NEW to \in Accounts, NEW n \in 0..(Word - 1), Send(s, to, n)
        PROVE  Tallied'
    <2>1. \A a \in Accounts : Flag(storage', a) = Flag(storage, a)
      BY <1>6, SendView
    <2>2. \A a, c \in Accounts : Gives(storage', a, c) = Gives(storage, a, c)
      BY <1>6, SendView
    <2>3. \A a \in Accounts : Recv(storage', a) = Recv(storage, a)
      BY <1>6, SendView
    <2>. QED
      BY <2>1, <2>2, <2>3, QuietTally
  <1>7. ASSUME NEW s \in Accounts, NEW to \in Accounts, NEW n \in 0..(Word - 1),
               Vote(s, to, n) \/ RemoveVote(s, to, n)
        PROVE  Tallied'
    BY <1>7, MovesOf, MoveTally
  <1>. QED
    BY <1>1, <1>2, <1>3, <1>4, <1>5, <1>6, <1>7 DEF Next

-----------------------------------------------------------------------------

\* The votes that money within the supply buys fit a uint64_t.
LEMMA VotesFit ==
    ASSUME NEW n \in Nat, VotesPreEth * n <= Supply, Supply \in Nat
    PROVE  n \in 0..(Word - 1)
  <1>1. PICK p \in Nat \ {0} : p = VotesPreEth
    BY VotesAssumption
  <1>2. PICK q : q = Supply \div p
    OBVIOUS
  <1>3. q \in Nat /\ Supply < p * q + p
    <2>1. \A z \in Nat, d \in Nat \ {0} : z \div d \in Nat /\ z < d * (z \div d) + d
      BY SMTT(60)
    <2>. QED
      BY <1>1, <1>2, <2>1
  <1>4. n <= q
    <2>1. SUFFICES ASSUME n >= q + 1 PROVE FALSE
      BY <1>3, SMTT(60)
    <2>2. p * n >= p * (q + 1)
      BY <1>1, <1>3, <2>1, SMTT(60)
    <2>3. p * (q + 1) = p * q + p /\ p * q \in Nat /\ p * n \in Nat
      BY <1>1, <1>3, SMTT(60)
    <2>. QED
      BY <1>1, <1>3, <2>2, <2>3, SMTT(60)
  <1>. QED
    BY <1>1, <1>2, <1>3, <1>4, VotesAssumption, SMTT(60)

-----------------------------------------------------------------------------

\* The candidates an account has given votes to.
Voted(st, v) == {c \in Accounts : Gives(st, v, c) > 0}

\* No account has given votes to more candidates than a record may name.
Bounded == \A v \in Accounts : Cardinality(Voted(storage, v)) <= MaxRecords

\* A call that leaves all given votes where they are, and all candidates.
Quiet ==
    /\ \A a \in Accounts : Flag(storage, a) => Flag(storage', a)
    /\ \A a, c \in Accounts : Gives(storage', a, c) = Gives(storage, a, c)

\* A candidate leaves and nobody has given it anything any more.
Leaves(s) ==
    /\ \A a \in Accounts : a # s /\ Flag(storage, a) => Flag(storage', a)
    /\ \A a, c \in Accounts : Gives(storage', a, c) = IF c = s THEN 0 ELSE Gives(storage, a, c)

\* One account's votes for one candidate change; a new entry is made below the limit.
Shifts(s, to) ==
    /\ Flag(storage, to)
    /\ \A a \in Accounts : Flag(storage', a) = Flag(storage, a)
    /\ \A a, c \in Accounts : ~(a = s /\ c = to) => Gives(storage', a, c) = Gives(storage, a, c)
    /\ \/ Gives(storage', s, to) <= Gives(storage, s, to)
       \/ Gives(storage, s, to) > 0
       \/ Cardinality(Voted(storage, s)) < MaxRecords

\* vote and removeVote change one entry.
LEMMA MoveShifts ==
    ASSUME StorageType, NEW s \in Accounts, NEW to \in Accounts, NEW n \in 0..(Word - 1),
           Vote(s, to, n) \/ RemoveVote(s, to, n)
    PROVE  Shifts(s, to)
  <1>0. Hold(storage, s) \in Nat /\ Gives(storage, s, to) \in Nat /\ n \in Nat
    BY HoldIsNat, GivesIsNat, VotesAssumption, SMTT(60)
  <1>1. CASE Vote(s, to, n)
    <2>1. /\ Hold(storage, s) >= n /\ Flag(storage, to) /\ Move(s, to, n)
          /\ \/ Cardinality(DOMAIN storage[s].voteRecord) < MaxRecords
             \/ to \in DOMAIN storage[s].voteRecord
      BY <1>1 DEF Vote, Load, Hold, Flag
    <2>2. n \in Int /\ Hold(storage, s) - n \in Nat /\ Gives(storage, s, to) + n \in Nat
      BY <1>0, <2>1, SMTT(60)
    <2>3. \A a \in Accounts : Flag(storage', a) = Flag(storage, a)
      BY <2>1, <2>2, Moved
    <2>4. \A a, c \in Accounts : ~(a = s /\ c = to) => Gives(storage', a, c) = Gives(storage, a, c)
      BY <2>1, <2>2, Moved, SMTT(60)
    <2>5. Voted(storage, s) = DOMAIN storage[s].voteRecord
      <3>1. \A c \in Accounts : (Gives(storage, s, c) > 0) <=> c \in DOMAIN storage[s].voteRecord
        BY EntriesAreGiven
      <3>2. Book!VotedFor(s) = DOMAIN storage[s].voteRecord
        BY EntriesAreGiven
      <3>3. Book!VotedFor(s) \subseteq Accounts
        BY DEF Book!VotedFor
      <3>. QED
        BY <3>1, <3>2, <3>3 DEF Voted
    <2>6. to \in DOMAIN storage[s].voteRecord => Gives(storage, s, to) > 0
      BY EntriesAreGiven
    <2>. QED
      BY <2>1, <2>3, <2>4, <2>5, <2>6 DEF Shifts
  <1>2. CASE RemoveVote(s, to, n)
    <2>1. Gives(storage, s, to) >= n /\ Flag(storage, to) /\ Move(s, to, -n)
      BY <1>2 DEF RemoveVote, Load, Gives, VotesFor, Flag
    <2>2. -n \in Int /\ Hold(storage, s) - (-n) \in Nat /\ Gives(storage, s, to) + (-n) \in Nat
      BY <1>0, <2>1, SMTT(60)
    <2>3. \A a \in Accounts : Flag(storage', a) = Flag(storage, a)
      BY <2>1, <2>2, Moved
    <2>4. \A a, c \in Accounts : Gives(storage', a, c) =
              IF a = s /\ c = to THEN Gives(storage, a, c) + (-n) ELSE Gives(storage, a, c)
      BY <2>1, <2>2, Moved, SMTT(60)
    <2>5. Gives(storage', s, to) <= Gives(storage, s, to)
      BY <1>0, <2>4, SMTT(60)
    <2>. QED
      BY <2>1, <2>3, <2>4, <2>5 DEF Shifts
  <1>. QED
    BY <1>1, <1>2

\* What a call may do to candidates and given votes.
LEMMA StepKinds ==
    ASSUME StorageType, [Next]_vars
    PROVE  \/ Quiet
           \/ \E s \in Accounts : Leaves(s)
           \/ \E s, to \in Accounts : Shifts(s, to)
  <1>1. CASE UNCHANGED vars
    BY <1>1 DEF vars, Quiet
  <1>2. ASSUME NEW s \in Accounts, CandidateRegister(s) PROVE Quiet
    <2>1. \A a \in Accounts : Flag(storage', a) = IF a = s THEN TRUE ELSE Flag(storage, a)
      BY <1>2, RegisterView
    <2>2. \A a, c \in Accounts : Gives(storage', a, c) = Gives(storage, a, c)
      BY <1>2, RegisterView
    <2>. QED
      BY <2>1, <2>2 DEF Quiet
  <1>3. ASSUME NEW s \in Accounts, CandidateDeregister(s) PROVE Leaves(s)
    <2>1. \A a \in Accounts : Flag(storage', a) = IF a = s THEN FALSE ELSE Flag(storage, a)
      BY <1>3, DeregisterView
    <2>2. \A a, c \in Accounts : Gives(storage', a, c) = IF c = s THEN 0 ELSE Gives(storage, a, c)
      BY <1>3, DeregisterView
    <2>. QED
      BY <2>1, <2>2 DEF Leaves
  <1>4. ASSUME NEW s \in Accounts, NEW n \in Nat, storage' = Save(storage, s, HoldsNow(s, n))
        PROVE  Quiet
    BY <1>4, HoldSaved DEF Quiet
  <1>5. ASSUME NEW s \in Accounts, NEW m \in 0..(Word - 1), Mortgage(s, m) PROVE Quiet
    <2>1. PICK n : n = Hold(storage, s) + (m \div VotesPreEth)
      OBVIOUS
    <2>2. storage' = Save(storage, s, HoldsNow(s, n))
      BY <1>5, <2>1 DEF Mortgage, Load, HoldsNow, Hold
    <2>3. n \in Nat
      BY <2>1, WholeVotes, HoldIsNat, VotesAssumption, SMTT(60)
    <2>. QED
      BY <1>4, <2>2, <2>3
  <1>6. ASSUME NEW s \in Accounts, NEW m \in 0..(Word - 1), Redeem(s, m) PROVE Quiet
    <2>1. PICK n : n = Hold(storage, s) - m
      OBVIOUS
    <2>2. storage' = Save(storage, s, HoldsNow(s, n)) /\ Hold(storage, s) >= m
      BY <1>6, <2>1 DEF Redeem, Load, HoldsNow, Hold
    <2>3. n \in Nat
      BY <2>1, <2>2, HoldIsNat, VotesAssumption, SMTT(60)
    <2>. QED
      BY <1>4, <2>2, <2>3
  <1>7. ASSUME NEW s \in Accounts, NEW to \in Accounts, NEW n \in 0..(Word - 1), Send(s, to, n)
        PROVE  Quiet
    <2>1. \A a \in Accounts : Flag(storage', a) = Flag(storage, a)
      BY <1>7, SendView
    <2>2. \A a, c \in Accounts : Gives(storage', a, c) = Gives(storage, a, c)
      BY <1>7, SendView
    <2>. QED
      BY <2>1, <2>2 DEF Quiet
  <1>8. ASSUME NEW s \in Accounts, NEW to \in Accounts, NEW n \in 0..(Word - 1),
               Vote(s, to, n) \/ RemoveVote(s, to, n)
        PROVE  Shifts(s, to)
    BY <1>8, MoveShifts
  <1>. QED
    BY <1>1, <1>2, <1>3, <1>5, <1>6, <1>7, <1>8 DEF Next

\* A voter's candidates are a finite set, so a smaller set of them counts less.
LEMMA FewerCandidates ==
    ASSUME NEW S \in SUBSET Accounts, NEW T \in SUBSET S
    PROVE  /\ Cardinality(S) \in Nat /\ Cardinality(T) \in Nat
           /\ Cardinality(T) <= Cardinality(S)
  <1>1. IsFiniteSet(S)
    BY FS_Subset, VotesAssumption
  <1>. QED
    BY <1>1, FS_Subset, FS_CardinalityType

\* One candidate more.
LEMMA OneMoreCandidate ==
    ASSUME NEW S \in SUBSET Accounts, NEW c \in Accounts,
           Cardinality(S) < MaxRecords
    PROVE  Cardinality(S \cup {c}) <= MaxRecords
  <1>1. IsFiniteSet(S)
    BY FS_Subset, VotesAssumption
  <1>2. Cardinality(S \cup {c}) = IF c \in S THEN Cardinality(S) ELSE Cardinality(S) + 1
    BY <1>1, FS_AddElement, SMTT(60)
  <1>3. Cardinality(S) \in Nat
    BY <1>1, FS_CardinalityType
  <1>. QED
    BY <1>2, <1>3, VotesAssumption, SMTT(60)

\* Only a vote for a new candidate makes an entry.
LEMMA NewEntry ==
    ASSUME StorageType, StorageType', [Next]_vars, NEW v \in Accounts
    PROVE  \/ Voted(storage', v) \subseteq Voted(storage, v)
           \/ \E c \in Accounts : /\ Voted(storage', v) \subseteq Voted(storage, v) \cup {c}
                                  /\ Cardinality(Voted(storage, v)) < MaxRecords
  <1>1. CASE Quiet
    BY <1>1 DEF Quiet, Voted
  <1>2. ASSUME NEW s \in Accounts, Leaves(s) PROVE Voted(storage', v) \subseteq Voted(storage, v)
    BY <1>2, SMTT(60) DEF Leaves, Voted
  <1>3. ASSUME NEW s \in Accounts, NEW to \in Accounts, Shifts(s, to), s # v
        PROVE  Voted(storage', v) \subseteq Voted(storage, v)
    BY <1>3 DEF Shifts, Voted
  <1>4. ASSUME NEW to \in Accounts, Shifts(v, to),
               \/ Gives(storage', v, to) <= Gives(storage, v, to)
               \/ Gives(storage, v, to) > 0
        PROVE  Voted(storage', v) \subseteq Voted(storage, v)
    <2>1. Gives(storage, v, to) \in Nat
      BY GivesIsNat
    <2>2. Gives(storage', v, to) \in Nat
      <3>1. storage'[v] \in LooseRecord
        BY RecordIsLoose DEF StorageType
      <3>. QED
        BY <3>1, VotesForNat DEF Gives
    <2>3. Gives(storage', v, to) > 0 => Gives(storage, v, to) > 0
      BY <1>4, <2>1, <2>2, SMTT(60)
    <2>4. \A c \in Accounts : c # to => Gives(storage', v, c) = Gives(storage, v, c)
      BY <1>4 DEF Shifts
    <2>. QED
      BY <2>3, <2>4 DEF Voted
  <1>5. ASSUME NEW to \in Accounts, Shifts(v, to)
        PROVE  Voted(storage', v) \subseteq Voted(storage, v) \cup {to}
    BY <1>5 DEF Shifts, Voted
  <1>6. ASSUME NEW to \in Accounts, Shifts(v, to)
        PROVE  \/ Gives(storage', v, to) <= Gives(storage, v, to)
               \/ Gives(storage, v, to) > 0
               \/ Cardinality(Voted(storage, v)) < MaxRecords
    BY <1>6 DEF Shifts
  <1>7. ASSUME NEW s \in Accounts, NEW to \in Accounts, Shifts(s, to)
        PROVE  \/ Voted(storage', v) \subseteq Voted(storage, v)
               \/ \E c \in Accounts : /\ Voted(storage', v) \subseteq Voted(storage, v) \cup {c}
                                      /\ Cardinality(Voted(storage, v)) < MaxRecords
    <2>1. CASE s # v
      BY <1>3, <1>7, <2>1
    <2>2. CASE s = v
      BY <1>4, <1>5, <1>6, <1>7, <2>2
    <2>. QED
      BY <2>1, <2>2
  <1>. QED
    BY <1>1, <1>2, <1>7, StepKinds

\* A step makes at most one entry, and only below the limit.
LEMMA NextBounded ==
    ASSUME StorageType, StorageType', Bounded, [Next]_vars
    PROVE  Bounded'
  <1>. SUFFICES ASSUME NEW v \in Accounts PROVE Cardinality(Voted(storage', v)) <= MaxRecords
    BY DEF Bounded
  <1>1. PICK S : S = Voted(storage, v)
    OBVIOUS
  <1>2. PICK T : T = Voted(storage', v)
    OBVIOUS
  <1>3. S \in SUBSET Accounts /\ T \in SUBSET Accounts /\ Cardinality(S) <= MaxRecords
    BY <1>1, <1>2 DEF Bounded, Voted
  <1>4. CASE T \subseteq S
    <2>1. Cardinality(S) \in Nat /\ Cardinality(T) \in Nat /\ Cardinality(T) <= Cardinality(S)
      BY <1>3, <1>4, FewerCandidates
    <2>. QED
      BY <1>2, <1>3, <2>1, VotesAssumption, SMTT(60)
  <1>5. ASSUME NEW c \in Accounts, T \subseteq S \cup {c}, Cardinality(S) < MaxRecords
        PROVE  Cardinality(T) <= MaxRecords
    <2>1. Cardinality(S \cup {c}) <= MaxRecords
      BY <1>3, <1>5, OneMoreCandidate
    <2>2. S \cup {c} \in SUBSET Accounts /\ T \in SUBSET (S \cup {c})
      BY <1>3, <1>5
    <2>3. /\ Cardinality(S \cup {c}) \in Nat /\ Cardinality(T) \in Nat
          /\ Cardinality(T) <= Cardinality(S \cup {c})
      BY <2>2, FewerCandidates
    <2>. QED
      BY <2>1, <2>3, VotesAssumption, SMTT(60)
  <1>. QED
    BY <1>1, <1>2, <1>4, <1>5, NewEntry

\* Votes stay with candidates: whoever leaves has none afterwards.
LEMMA NextOnlyTo ==
    ASSUME StorageType, OnlyToCandidates, [Next]_vars
    PROVE  OnlyToCandidates'
  <1>. SUFFICES ASSUME NEW v \in Accounts, NEW c \in Accounts, Gives(storage', v, c) > 0
                PROVE  Flag(storage', c)
    BY DEF OnlyToCandidates
  <1>1. CASE Quiet
    BY <1>1 DEF Quiet, OnlyToCandidates
  <1>2. ASSUME NEW s \in Accounts, Leaves(s) PROVE Flag(storage', c)
    <2>1. c # s
      BY <1>2, SMTT(60) DEF Leaves
    <2>. QED
      BY <1>2, <2>1 DEF Leaves, OnlyToCandidates
  <1>3. ASSUME NEW s \in Accounts, NEW to \in Accounts, Shifts(s, to) PROVE Flag(storage', c)
    BY <1>3 DEF Shifts, OnlyToCandidates
  <1>. QED
    BY <1>1, <1>2, <1>3, StepKinds

\* The inductive invariant: well-formed records that give votes to candidates
\* only, and to no more of them than they may.
Inv == StorageType /\ OnlyToCandidates /\ Bounded

\* It holds of empty storage.
LEMMA InitInv == ASSUME Init PROVE Inv
  <1>1. StorageType
    BY InitIsBookInit
  <1>2. \A a, c \in Accounts : Gives(storage, a, c) = 0
    BY SMTT(60) DEF Init, Blank, Gives, VotesFor
  <1>3. OnlyToCandidates
    BY <1>2, SMTT(60) DEF OnlyToCandidates
  <1>4. ASSUME NEW v \in Accounts PROVE Voted(storage, v) = {}
    BY <1>2, SMTT(60) DEF Voted
  <1>5. Bounded
    <2>1. Cardinality({}) = 0
      BY FS_EmptySet
    <2>. QED
      BY <1>4, <2>1, VotesAssumption, SMTT(60) DEF Bounded
  <1>. QED
    BY <1>1, <1>3, <1>5 DEF Inv

\* Every contract call keeps it.
LEMMA NextInv == ASSUME Inv, [Next]_vars PROVE Inv'
  <1>1. StorageType'
    BY StepIsBookStep DEF Inv
  <1>. QED
    BY <1>1, NextOnlyTo, NextBounded DEF Inv

\* No stored record gives votes to an account that is no candidate: every vote
\* comes back when candidateDeregister clears the flag.
THEOREM StoredVotesGoToCandidates == Spec => []GivenToCandidates
  <1>1. Inv => GivenToCandidates
    BY DEF Inv, OnlyToCandidates, GivenToCandidates, Book!GivenToCandidates, Gives, Flag, Given, Load
  <1>2. Init => Inv
    BY InitInv
  <1>3. Inv /\ [Next]_vars => Inv'
    BY NextInv, SMTT(60)
  <1>. QED
    BY <1>1, <1>2, <1>3, PTL DEF Spec

\* No stored record has more entries than vote allows.
THEOREM StoredRecordsStayBounded == Spec => []RecordsBounded
  <1>1. ASSUME NEW v \in Accounts PROVE Book!VotedFor(v) = Voted(storage, v)
    BY DEF Book!VotedFor, Voted, Gives, Given, Load
  <1>2. Inv => RecordsBounded
    BY <1>1, SameCardinality DEF Inv, Bounded, RecordsBounded, Book!RecordsBounded
  <1>3. Init => Inv
    BY InitInv
  <1>4. Inv /\ [Next]_vars => Inv'
    BY NextInv, SMTT(60)
  <1>. QED
    BY <1>2, <1>3, <1>4, PTL DEF Spec

\* The invariant for the money and the counters, on top of the book's.
MoneyInv ==
    /\ Inv
    /\ BalanceType
    /\ Total(Worths(balance, storage)) <= Supply
    /\ Tallied

\* At the start all that there is is the initial balances.
LEMMA InitMoney == ASSUME Init PROVE MoneyInv
  <1>1. Inv
    BY InitInv
  <1>2. BalanceType
    BY VotesAssumption DEF Init, BalanceType
  <1>3. /\ \A a \in Accounts : Hold(storage, a) = 0 /\ Recv(storage, a) = 0 /\ ~Flag(storage, a)
        /\ \A a, c \in Accounts : Gives(storage, a, c) = 0
    BY SMTT(60) DEF Init, Blank, Hold, Recv, Flag, Gives, VotesFor
  <1>4. ASSUME NEW a \in Accounts PROVE Row(storage, a) = 0
    <2>1. PICK f : f = [c \in Accounts |-> Gives(storage, a, c)]
      OBVIOUS
    <2>2. f \in [Accounts -> Nat] /\ \A c \in Accounts : f[c] = 0
      BY <1>3, <2>1, SMTT(60)
    <2>3. Total(f) = 0
      BY <2>2, TotalNat
    <2>. QED
      BY <2>1, <2>3, SMTT(60) DEF Row
  <1>5. \A a \in Accounts : Worth(balance, storage, a) = InitialBalance[a]
    <2>1. \A a \in Accounts : InitialBalance[a] \in Nat /\ balance[a] = InitialBalance[a]
      BY VotesAssumption DEF Init
    <2>2. VotesPreEth * (0 + 0) = 0
      BY VotesAssumption, SMTT(60)
    <2>. QED
      BY <1>3, <1>4, <2>1, <2>2, SMTT(60) DEF Worth
  <1>6. Worths(balance, storage) = InitialBalance
    <2>1. InitialBalance = [a \in Accounts |-> InitialBalance[a]]
      BY VotesAssumption
    <2>. QED
      BY <1>5, <2>1 DEF Worths
  <1>7. Total(InitialBalance) \in Nat
    BY VotesAssumption, TotalNat
  <1>8. Tallied
    BY <1>3 DEF Tallied
  <1>. QED
    BY <1>1, <1>2, <1>6, <1>7, <1>8, SMTT(60) DEF MoneyInv, Supply

\* The supply is a number.
LEMMA SupplyIsNat == Supply \in Nat
  BY VotesAssumption, TotalNat DEF Supply

\* Every call keeps the invariant.
LEMMA NextMoney == ASSUME MoneyInv, [Next]_vars PROVE MoneyInv'
  <1>1. Inv'
    BY NextInv DEF MoneyInv
  <1>2. StorageType /\ StorageType' /\ OnlyToCandidates
    BY <1>1 DEF MoneyInv, Inv
  <1>3. BalanceType' /\ NoGain
    BY <1>2, StepMoney DEF MoneyInv
  <1>4. Tallied'
    BY <1>2, StepTally DEF MoneyInv
  <1>5. PICK k : k = Worths(balance', storage')
    OBVIOUS
  <1>6. k \in [Accounts -> Nat]
    BY <1>2, <1>3, <1>5, WorthTyped DEF StorageType, BalanceType
  <1>7. PICK f : f = Worths(balance, storage)
    OBVIOUS
  <1>8. f \in [Accounts -> Nat]
    BY <1>2, <1>7, WorthTyped DEF StorageType, MoneyInv, BalanceType
  <1>9. Total(k) \in Nat /\ Total(f) \in Nat
    BY <1>6, <1>8, TotalNat
  <1>10. Total(k) <= Total(f) /\ Total(f) <= Supply
    BY <1>3, <1>5, <1>7 DEF NoGain, MoneyInv
  <1>11. Total(Worths(balance', storage')) <= Supply
    BY <1>5, <1>9, <1>10, SupplyIsNat, SMTT(60)
  <1>. QED
    BY <1>1, <1>3, <1>4, <1>11 DEF MoneyInv

\* MoneyInv holds in every state of every behaviour.
LEMMA MoneyAlways == Spec => []MoneyInv
  <1>1. Init => MoneyInv
    BY InitMoney
  <1>2. MoneyInv /\ [Next]_vars => MoneyInv'
    BY NextMoney
  <1>. QED
    BY <1>1, <1>2, PTL DEF Spec

\* Balances, held votes and given votes together are never worth more than the
\* money there was at the start: no sequence of contract calls, a redeem whose
\* product wraps included, makes money or votes.
THEOREM NothingEverMinted == Spec => []NothingMinted
  <1>1. MoneyInv => NothingMinted
    <2>1. Wealth = Total(Worths(balance, storage))
      BY DEF Wealth, Worths, Worth, Row, Hold, Gives, Given, Load
    <2>. QED
      BY <2>1 DEF MoneyInv, NothingMinted
  <1>. QED
    BY <1>1, MoneyAlways, PTL

\* What getProducerMap tells the election is the sum of the voters' records, for
\* every candidate, and nobody else has received a vote.
THEOREM ElectionReadsWhatWasGiven == Spec => []ReceivedIsGiven
  <1>1. ASSUME MoneyInv PROVE ReceivedIsGiven
    <2>1. Tallied
      BY <1>1 DEF MoneyInv
    <2>2. DOMAIN ProducerMap(storage) = {a \in Accounts : Flag(storage, a)}
      BY DEF ProducerMap, Stored, Flag
    <2>3. \A c \in Accounts : Flag(storage, c) => ProducerMap(storage)[c] = Recv(storage, c)
      BY DEF ProducerMap, Stored, Flag, Recv
    <2>4. \A c \in Accounts : Column(storage, c) = Total([v \in Accounts |-> Given(v, c)])
      BY DEF Column, Gives, Given, Load
    <2>. QED
      BY <2>1, <2>2, <2>3, <2>4 DEF ReceivedIsGiven, Tallied, Recv
  <1>. QED
    BY <1>1, MoneyAlways, PTL

\* No counter of a stored record wraps: held, given and received votes stay
\* below 2^64 as long as all the money buys fewer votes than that.
THEOREM CountersFit == Spec => []TypeOK
  <1>1. ASSUME MoneyInv PROVE TypeOK
    <2>1. StorageType /\ BalanceType /\ Tallied /\ Supply \in Nat
      BY <1>1, SupplyIsNat DEF MoneyInv, Inv
    <2>2. PICK w : w = Worths(balance, storage)
      OBVIOUS
    <2>3. w \in [Accounts -> Nat]
      BY <2>1, <2>2, WorthTyped DEF StorageType, BalanceType
    <2>4. Total(w) \in Nat /\ Total(w) <= Supply /\ \A a \in Accounts : w[a] <= Total(w)
      BY <1>1, <2>2, <2>3, TotalNat, SMTT(60) DEF MoneyInv
    <2>5. /\ \A a, c \in Accounts : Gives(storage, a, c) \in Nat
          /\ \A a \in Accounts : Hold(storage, a) \in Nat
          /\ \A a \in Accounts : Row(storage, a) \in Nat
          /\ \A a \in Accounts : Column(storage, a) \in Nat
      BY <2>1, WorthTyped DEF StorageType, BalanceType
    <2>6. ASSUME NEW a \in Accounts
          PROVE  /\ w[a] = balance[a] + VotesPreEth * (Hold(storage, a) + Row(storage, a))
                 /\ balance[a] \in Nat /\ VotesPreEth \in Nat
      BY <2>1, <2>2, VotesAssumption DEF Worths, Worth, BalanceType
    <2>7. ASSUME NEW a \in Accounts, NEW n \in Nat, n <= Hold(storage, a) + Row(storage, a)
          PROVE  VotesPreEth * n <= w[a] /\ n \in 0..(Word - 1)
      <3>1. PICK u \in Nat : u = Hold(storage, a) + Row(storage, a)
        BY <2>5, SMTT(60)
      <3>2. PICK p \in Nat : p = VotesPreEth
        BY <2>6
      <3>3. p * n <= p * u
        BY <2>7, <3>1, SMTT(60)
      <3>4. p * n \in Nat /\ p * u \in Nat
        BY SMTT(60)
      <3>5. p * n <= w[a] /\ w[a] \in Nat
        BY <2>3, <2>6, <3>1, <3>2, <3>3, <3>4, SMTT(60)
      <3>6. VotesPreEth * n <= Supply
        BY <2>1, <2>4, <3>2, <3>4, <3>5, SMTT(60)
      <3>. QED
        BY <2>1, <3>2, <3>5, <3>6, VotesFit, SMTT(60)
    <2>8. ASSUME NEW a \in Accounts, NEW c \in Accounts
          PROVE  Gives(storage, a, c) <= Row(storage, a)
      <3>1. PICK f : f = [x \in Accounts |-> Gives(storage, a, x)]
        OBVIOUS
      <3>2. f \in [Accounts -> Nat]
        BY <2>5, <3>1
      <3>3. f[c] <= Total(f)
        BY <3>2, TotalNat
      <3>. QED
        BY <3>1, <3>3 DEF Row
    <2>9. ASSUME NEW a \in Accounts, NEW c \in Accounts
          PROVE  /\ VotesPreEth * Gives(storage, a, c) <= w[a]
                 /\ Gives(storage, a, c) \in 0..(Word - 1)
      <3>1. PICK n \in Nat : n = Gives(storage, a, c)
        BY <2>5
      <3>2. n <= Hold(storage, a) + Row(storage, a)
        BY <2>5, <2>8, <3>1, SMTT(60)
      <3>. QED
        BY <2>7, <3>1, <3>2
    <2>10. ASSUME NEW c \in Accounts PROVE Column(storage, c) \in 0..(Word - 1)
      <3>1. PICK f : f = [v \in Accounts |-> Gives(storage, v, c)]
        OBVIOUS
      <3>2. f \in [Accounts -> Nat] /\ VotesPreEth \in Nat
        BY <2>5, <3>1, VotesAssumption
      <3>3. \A v \in Accounts : VotesPreEth * f[v] <= w[v]
        BY <2>9, <3>1
      <3>4. VotesPreEth * Total(f) <= Total(w)
        BY <2>3, <3>2, <3>3, TotalScaled, SMTT(60)
      <3>5. PICK n \in Nat : n = Total(f)
        BY <2>5, <3>1 DEF Column
      <3>6. VotesPreEth * n \in Nat
        BY <3>2, SMTT(60)
      <3>7. VotesPreEth * n <= Supply
        BY <2>1, <2>4, <3>4, <3>5, <3>6, SMTT(60)
      <3>8. n \in 0..(Word - 1)
        BY <2>1, <3>7, VotesFit
      <3>. QED
        BY <3>1, <3>5, <3>8 DEF Column
    <2>11. ASSUME NEW a \in Accounts
           PROVE  /\ storage[a].isCandidate \in BOOLEAN
                  /\ storage[a].holdVotes \in 0..(Word - 1)
                  /\ storage[a].receivedVote \in 0..(Word - 1)
      <3>1. storage[a].isCandidate \in BOOLEAN
        BY <2>1 DEF StorageType, Record
      <3>2. Hold(storage, a) \in 0..(Word - 1)
        <4>1. Hold(storage, a) \in Nat /\ Hold(storage, a) <= Hold(storage, a) + Row(storage, a)
          BY <2>5, SMTT(60)
        <4>. QED
          BY <2>7, <4>1
      <3>3. Recv(storage, a) \in 0..(Word - 1)
        <4>1. 0 \in 0..(Word - 1)
          BY VotesAssumption, SMTT(60)
        <4>. QED
          BY <2>1, <2>10, <4>1 DEF Tallied
      <3>. QED
        BY <3>1, <3>2, <3>3 DEF Hold, Recv
    <2>12. ASSUME NEW a \in Accounts
           PROVE  /\ DOMAIN storage[a].voteRecord \subseteq Accounts
                  /\ \A to \in DOMAIN storage[a].voteRecord :
                         storage[a].voteRecord[to] \in 1..(Word - 1)
      <3>1. PICK record : record = storage[a].voteRecord
        OBVIOUS
      <3>2. record \in Entries
        BY <2>1, <3>1 DEF StorageType, Record
      <3>3. PICK D \in SUBSET Accounts : record \in [D -> Nat \ {0}]
        BY <3>2 DEF Entries
      <3>4. ASSUME NEW to \in D PROVE record[to] \in 1..(Word - 1)
        <4>1. Gives(storage, a, to) = record[to] /\ record[to] \in Nat \ {0}
          BY <3>1, <3>3 DEF Gives, VotesFor
        <4>2. Gives(storage, a, to) \in 0..(Word - 1)
          BY <2>9
        <4>. QED
          BY <4>1, <4>2, VotesAssumption, SMTT(60)
      <3>. QED
        BY <3>1, <3>3, <3>4
    <2>. QED
      BY <2>1, <2>11, <2>12 DEF TypeOK, BalanceType
  <1>. QED
    BY <1>1, MoneyAlways, PTL

=============================================================================
