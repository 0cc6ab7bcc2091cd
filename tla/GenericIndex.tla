---------------------------- MODULE GenericIndex ----------------------------
(***************************************************************************)
(* chainbase::generic_index: one table of the producer database with its   *)
(* undo history.  The history is a stack of undo_state records, each       *)
(* holding only what one session changed: the old value of what it         *)
(* modified, what it removed, and the ids it created.                      *)
(*                                                                         *)
(* A map from ids is a total function on Ids that is NoObj where the map   *)
(* has no entry.  An object is its unique secondary key (owner, ownerName, *)
(* hardfork_timepoint) and the rest of its fields; no modifier in the      *)
(* program changes the key.  `saved' is a history variable: a full copy of *)
(* the table taken by each session that is still on the stack.             *)
(***************************************************************************)
EXTENDS Integers, Sequences

CONSTANTS Keys,         \* values of the unique secondary key
          Values,       \* values of the other fields
          NoObj,        \* "no entry"
          MaxId,        \* bound: ids handed out
          MaxDepth,     \* bound: sessions on the stack
          MaxRevision   \* bound: revision number

VARIABLES indices, next_id, stack, revision, saved

indexVars == <<indices, next_id, stack, revision, saved>>

Objects == [key : Keys, val : Values]

ASSUME NoObjAssumption == NoObj \notin Objects
ASSUME BoundsAssumption == MaxId \in Nat /\ MaxDepth \in Nat /\ MaxRevision \in Nat

Ids == 0..(MaxId - 1)
Map == [Ids -> Objects \cup {NoObj}]
NoEntries == [i \in Ids |-> NoObj]

UndoState == [old_values : Map, removed_values : Map, new_ids : SUBSET Ids,
              old_next_id : 0..MaxId, revision : Int]

Copy == [indices : Map, next_id : 0..MaxId]

Has(m, i) == m[i] # NoObj
enabled == stack # <<>>
Top == stack[Len(stack)]
Pop(s) == SubSeq(s, 1, Len(s) - 1)
SetTop(s) == [stack EXCEPT ![Len(stack)] = s]

IndexInit ==
    /\ indices = NoEntries
    /\ next_id = 0
    /\ stack = <<>>
    /\ revision = 0
    /\ saved = <<>>
-----------------------------------------------------------------------------
(* The three hooks that record a change in the newest undo_state.          *)

on_create(i) ==
    IF ~enabled THEN stack
    ELSE SetTop([Top EXCEPT !.new_ids = @ \cup {i}])

\* Variant: a second change of an object overwrites the value kept for undo.
on_modify_overwrites(i) ==
    IF ~enabled \/ i \in Top.new_ids THEN stack
    ELSE SetTop([Top EXCEPT !.old_values[i] = indices[i]])

on_modify(i) ==
    IF ~enabled \/ i \in Top.new_ids \/ Has(Top.old_values, i) THEN stack
    ELSE SetTop([Top EXCEPT !.old_values[i] = indices[i]])

\* Variant: the id of an object created in the session stays in new_ids.
on_remove_keeps_new_id(i) ==
    IF ~enabled \/ i \in Top.new_ids THEN stack
    ELSE SetTop([Top EXCEPT !.removed_values[i] = indices[i]])

on_remove(i) ==
    IF ~enabled THEN stack
    ELSE IF i \in Top.new_ids
         THEN SetTop([Top EXCEPT !.new_ids = @ \ {i}])
    ELSE IF Has(Top.old_values, i)
         THEN SetTop([Top EXCEPT !.removed_values[i] = Top.old_values[i],
                                 !.old_values[i] = NoObj])
    ELSE IF Has(Top.removed_values, i) THEN stack
    ELSE SetTop([Top EXCEPT !.removed_values[i] = indices[i]])

KeyFree(m, k) == \A j \in Ids : Has(m, j) => m[j].key # k

\* The insertion fails, and emplace throws before it changes anything, when
\* the id or the unique key is taken.
emplace(k, v) ==
    /\ next_id < MaxId
    /\ ~Has(indices, next_id)
    /\ KeyFree(indices, k)
    /\ indices' = [indices EXCEPT ![next_id] = [key |-> k, val |-> v]]
    /\ next_id' = next_id + 1
    /\ stack' = on_create(next_id)
    /\ UNCHANGED <<revision, saved>>

modify(i, v) ==
    /\ Has(indices, i)
    /\ stack' = on_modify(i)
    /\ indices' = [indices EXCEPT ![i] = [key |-> indices[i].key, val |-> v]]
    /\ UNCHANGED <<next_id, revision, saved>>

remove(i) ==
    /\ Has(indices, i)
    /\ stack' = on_remove(i)
    /\ indices' = [indices EXCEPT ![i] = NoObj]
    /\ UNCHANGED <<next_id, revision, saved>>
-----------------------------------------------------------------------------
start_undo_session ==
    /\ Len(stack) < MaxDepth
    /\ revision < MaxRevision
    /\ stack' = Append(stack, [old_values |-> NoEntries,
                               removed_values |-> NoEntries,
                               new_ids |-> {},
                               old_next_id |-> next_id,
                               revision |-> revision + 1])
    /\ revision' = revision + 1
    /\ saved' = Append(saved, [indices |-> indices, next_id |-> next_id])
    /\ UNCHANGED <<indices, next_id>>

(* The three loops of undo(), in their order.                              *)
OldValuesBack(s, m) ==
    [i \in Ids |-> IF Has(s.old_values, i) THEN s.old_values[i] ELSE m[i]]
NewIdsErased(s, m) ==
    [i \in Ids |-> IF i \in s.new_ids THEN NoObj ELSE m[i]]
RemovedBack(s, m) ==
    [i \in Ids |-> IF Has(s.removed_values, i) THEN s.removed_values[i] ELSE m[i]]

Restored(s, m) == RemovedBack(s, NewIdsErased(s, OldValuesBack(s, m)))

\* Variant: the ids handed out in the session are not handed out again.
undo_keeps_next_id ==
    /\ enabled
    /\ indices' = Restored(Top, indices)
    /\ stack' = Pop(stack)
    /\ revision' = revision - 1
    /\ saved' = Pop(saved)
    /\ UNCHANGED next_id

undo ==
    /\ enabled
    /\ indices' = Restored(Top, indices)
    /\ next_id' = Top.old_next_id
    /\ stack' = Pop(stack)
    /\ revision' = revision - 1
    /\ saved' = Pop(saved)

\* What squash leaves in the older state p when it merges the newer state s
\* into it: first the modified objects, then the created ids, then the
\* removed objects.
Merged(p, s) ==
    LET created == p.new_ids \cup s.new_ids
        older == [i \in Ids |->
            IF i \in p.new_ids \/ Has(p.old_values, i) THEN p.old_values[i]
            ELSE s.old_values[i]]
        gone(i) == Has(s.removed_values, i) /\ i \notin created
    IN  [old_values |-> [i \in Ids |-> IF gone(i) THEN NoObj ELSE older[i]],
         removed_values |-> [i \in Ids |->
             IF ~gone(i) \/ Has(p.removed_values, i) THEN p.removed_values[i]
             ELSE IF Has(older, i) THEN older[i]
             ELSE s.removed_values[i]],
         new_ids |-> {i \in created : ~Has(s.removed_values, i)},
         old_next_id |-> p.old_next_id,
         revision |-> p.revision]

\* The only session is dropped without a change of _revision.
squash ==
    /\ enabled
    /\ IF Len(stack) = 1
       THEN stack' = <<>> /\ UNCHANGED revision
       ELSE /\ stack' = [Pop(stack) EXCEPT ![Len(stack) - 1] = Merged(@, Top)]
            /\ revision' = revision - 1
    /\ saved' = Pop(saved)
    /\ UNCHANGED <<indices, next_id>>

\* Undo states are dropped from the front while their revision is r or less.
commit(r) ==
    /\ \E n \in 0..Len(stack) :
         /\ \A i \in 1..n : stack[i].revision <= r
         /\ n < Len(stack) => stack[n + 1].revision > r
         /\ stack' = SubSeq(stack, n + 1, Len(stack))
         /\ saved' = SubSeq(saved, n + 1, Len(saved))
    /\ UNCHANGED <<indices, next_id, revision>>

set_revision(r) ==
    /\ ~enabled
    /\ revision' = r
    /\ UNCHANGED <<indices, next_id, stack, saved>>

IndexNext ==
    \/ \E k \in Keys, v \in Values : emplace(k, v)
    \/ \E i \in Ids, v \in Values : modify(i, v)
    \/ \E i \in Ids : remove(i)
    \/ start_undo_session
    \/ undo
    \/ squash
    \/ \E r \in 0..MaxRevision : commit(r)
    \/ \E r \in 0..MaxRevision : set_revision(r)

IndexSpec == IndexInit /\ [][IndexNext]_indexVars
-----------------------------------------------------------------------------
(* Properties.                                                             *)

\* The table, its undo states and the copies have their types.
IndexTypeOK ==
    /\ indices \in Map
    /\ next_id \in 0..MaxId
    /\ stack \in Seq(UndoState)
    /\ revision \in Int
    /\ saved \in Seq(Copy)

\* The table as it was when the session after session i was opened; the
\* present table for the newest session.
Above(i) ==
    IF i = Len(stack) THEN [indices |-> indices, next_id |-> next_id]
    ELSE saved[i + 1]

\* Every session on the stack can be undone exactly, however its changes
\* were recorded, merged by squash() or left behind by commit(): applying its
\* undo_state to the table above it gives the table, and the next id, that
\* the session found when start_undo_session() opened it.
UndoExact ==
    /\ Len(saved) = Len(stack)
    /\ \A i \in 1..Len(stack) :
         /\ Restored(stack[i], Above(i).indices) = saved[i].indices
         /\ stack[i].old_next_id = saved[i].next_id

\* The states on the stack carry consecutive revision numbers that end at
\* _revision, which is what commit(revision) and callers that equate the
\* revision with a block number rely on.
RevisionsConsecutive ==
    \A i \in 1..Len(stack) : stack[i].revision = revision - (Len(stack) - i)

\* undo() never takes one of its failing branches: each object it modifies or
\* erases is found, and no object it puts back meets another one with its id
\* or its unique key ("Could not restore object").
UndoNeverThrows ==
    enabled =>
        LET kept == NewIdsErased(Top, OldValuesBack(Top, indices))
        IN  /\ \A i \in Ids : Has(Top.old_values, i) \/ i \in Top.new_ids => Has(indices, i)
            /\ \A i \in Ids : Has(Top.removed_values, i) =>
                 /\ ~Has(kept, i)
                 /\ KeyFree(kept, Top.removed_values[i].key)
                 /\ \A j \in Ids \ {i} : Has(Top.removed_values, j) =>
                      Top.removed_values[j].key # Top.removed_values[i].key

\* The unique index holds, also over what an undo brings back.
KeysUnique ==
    \A i, j \in Ids : i # j /\ Has(indices, i) /\ Has(indices, j) =>
        indices[i].key # indices[j].key

\* The history of differences implements a history of full copies.
Snapshots == INSTANCE SnapshotStack WITH
    data <- [indices |-> indices, next_id |-> next_id],
    InitialData <- [indices |-> NoEntries, next_id |-> 0],
    Revisions <- 0..MaxRevision

\* Every operation of generic_index is a step of the copy-keeping history.
ImplementsSnapshots == Snapshots!Spec
=============================================================================
