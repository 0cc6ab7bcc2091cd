--------------------------- MODULE SnapshotStack ---------------------------
(***************************************************************************)
(* What the undo history of a chainbase table promises to its users: a     *)
(* stack of full copies of the table.  Opening a session pushes a copy,    *)
(* undo returns to the newest copy, squash forgets the newest copy, commit *)
(* forgets the oldest ones, up to and including a revision number.         *)
(* GenericIndex keeps differences in place of copies and implements this.  *)
(***************************************************************************)
EXTENDS Integers, Sequences

VARIABLES data,      \* the table
          saved,     \* copies of the table, oldest first
          revision   \* number of the newest session

CONSTANTS InitialData,
          Revisions    \* the numbers commit() may be called with

vars == <<data, saved, revision>>

Init == data = InitialData /\ saved = <<>> /\ revision = 0

\* Any change of the table; the history is left alone.
Write == UNCHANGED <<saved, revision>>

Start ==
    /\ saved' = Append(saved, data)
    /\ revision' = revision + 1
    /\ UNCHANGED data

Undo ==
    /\ saved # <<>>
    /\ data' = saved[Len(saved)]
    /\ saved' = SubSeq(saved, 1, Len(saved) - 1)
    /\ revision' = revision - 1

\* Squashing the only session leaves the revision number as it was.
Squash ==
    /\ saved # <<>>
    /\ saved' = SubSeq(saved, 1, Len(saved) - 1)
    /\ revision' = IF Len(saved) = 1 THEN revision ELSE revision - 1
    /\ UNCHANGED data

\* Copy i was taken by the session numbered revision - Len(saved) + i; a
\* commit of r forgets the copies of every session numbered r or less.
Commit ==
    \E n \in 0..Len(saved), r \in Revisions :
        /\ \A i \in 1..Len(saved) :
               (i <= n) <=> (revision - Len(saved) + i <= r)
        /\ saved' = SubSeq(saved, n + 1, Len(saved))
        /\ UNCHANGED <<data, revision>>

SetRevision == saved = <<>> /\ UNCHANGED <<data, saved>>

Next == Write \/ Start \/ Undo \/ Squash \/ Commit \/ SetRevision

Spec == Init /\ [][Next]_vars
=============================================================================
