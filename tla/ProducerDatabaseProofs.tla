----------------------- MODULE ProducerDatabaseProofs -----------------------
(***************************************************************************)
(* The producer database: its tables with their undo history               *)
(* (GenericIndex), and the slots chain_controller keeps in it (Slots).     *)
(*                                                                         *)
(* The tables, for every set of keys and values and every value of the     *)
(* bounds.  UndoExact is not inductive: it says what an undo_state         *)
(* restores, not which of its three containers an id is in.  Layer says,   *)
(* id by id, how an undo_state relates the table below the session to the  *)
(* table above it; this is the 4x4 matrix squash() is written from,        *)
(* without its N/A entries.                                                *)
(*                                                                         *)
(* The slots, for every genesis time, clock, schedule, set of nodes and    *)
(* width of the bitmap: they come after the head block, get_slot_at_time   *)
(* inverts get_slot_time and a produced block takes a fresh slot; the      *)
(* absolute slot follows the clock, the bitmap of recent slots is what the *)
(* clock saw, and no more slots are charged to producers than passed       *)
(* empty.                                                                  *)
(***************************************************************************)
EXTENDS GenericIndex, Slots, TotalsProofs, TLAPS

Present == [indices |-> indices, next_id |-> next_id]

\* What one session may have done to the object with id i: created it,
\* changed it, removed it, or nothing.
LayerAt(s, lo, hi, i) ==
    /\ i \in s.new_ids =>
         /\ i >= s.old_next_id
         /\ lo[i] = NoObj /\ hi[i] # NoObj
         /\ s.old_values[i] = NoObj /\ s.removed_values[i] = NoObj
    /\ s.old_values[i] # NoObj =>
         /\ lo[i] = s.old_values[i] /\ hi[i] # NoObj
         /\ s.removed_values[i] = NoObj
    /\ s.removed_values[i] # NoObj =>
         lo[i] = s.removed_values[i] /\ hi[i] = NoObj
    /\ i \notin s.new_ids /\ s.old_values[i] = NoObj /\ s.removed_values[i] = NoObj =>
         lo[i] = hi[i]

Layer(s, lo, hi) ==
    /\ s.old_next_id = lo.next_id
    /\ lo.next_id <= hi.next_id
    /\ \A i \in Ids : LayerAt(s, lo.indices, hi.indices, i)

\* A table an undo can return to: its ids are below its next id and its keys
\* are unique.
Sound(c) ==
    /\ \A i \in Ids : c.indices[i] # NoObj => i < c.next_id
    /\ \A i, j \in Ids : i # j /\ c.indices[i] # NoObj /\ c.indices[j] # NoObj =>
         c.indices[i].key # c.indices[j].key

IInv ==
    /\ IndexTypeOK
    /\ Len(saved) = Len(stack)
    /\ RevisionsConsecutive
    /\ Sound(Present)
    /\ \A i \in 1..Len(stack) : Sound(saved[i])
    /\ \A i \in 1..Len(stack) : Layer(stack[i], saved[i], Above(i))
-----------------------------------------------------------------------------
(* Facts about one undo_state.                                             *)

\* The three loops of undo() return to the table below the session.
LEMMA LayerRestores ==
    ASSUME NEW s \in UndoState, NEW lo \in Copy, NEW hi \in Copy, Layer(s, lo, hi)
    PROVE  Restored(s, hi.indices) = lo.indices
<1>1. \A i \in Ids : Restored(s, hi.indices)[i] = lo.indices[i]
  BY DEF Layer, LayerAt, Restored, RemovedBack, NewIdsErased, OldValuesBack, Has
<1>2. /\ Restored(s, hi.indices) = [i \in Ids |-> Restored(s, hi.indices)[i]]
      /\ lo.indices = [i \in Ids |-> lo.indices[i]]
  BY DEF Restored, RemovedBack, Copy, Map
<1>3. QED
  BY <1>1, <1>2

\* squash() merges two neighbouring states into one for both sessions.
LEMMA LayersMerge ==
    ASSUME NEW p \in UndoState, NEW s \in UndoState,
           NEW a \in Copy, NEW b \in Copy, NEW c \in Copy,
           Layer(p, a, b), Layer(s, b, c), Sound(a)
    PROVE  /\ Merged(p, s) \in UndoState
           /\ Merged(p, s).revision = p.revision
           /\ Layer(Merged(p, s), a, c)
<1> DEFINE m == Merged(p, s)
<1>1. m \in UndoState /\ m.revision = p.revision /\ m.old_next_id = p.old_next_id
  BY DEF Merged, UndoState, Map, Has
<1>2. ASSUME NEW i \in Ids
      PROVE  LayerAt(m, a.indices, c.indices, i)
  <2>1. LayerAt(p, a.indices, b.indices, i) /\ LayerAt(s, b.indices, c.indices, i)
    BY DEF Layer
  <2>2. a.indices[i] # NoObj => i < s.old_next_id
    BY DEF Sound, Layer, Ids, Copy
  <2>3. p.old_next_id <= s.old_next_id
    BY DEF Layer
  <2>4. i \in m.new_ids <=> i \in p.new_ids \cup s.new_ids /\ s.removed_values[i] = NoObj
    BY DEF Merged, UndoState, Has
  <2>5. m.old_values[i] =
          IF s.removed_values[i] # NoObj /\ i \notin p.new_ids \cup s.new_ids THEN NoObj
          ELSE IF i \in p.new_ids \/ p.old_values[i] # NoObj THEN p.old_values[i]
          ELSE s.old_values[i]
    BY DEF Merged, UndoState, Has
  <2>6. m.removed_values[i] =
          IF s.removed_values[i] = NoObj \/ i \in p.new_ids \cup s.new_ids
             \/ p.removed_values[i] # NoObj
          THEN p.removed_values[i]
          ELSE IF i \in p.new_ids \/ p.old_values[i] # NoObj
               THEN IF p.old_values[i] # NoObj THEN p.old_values[i] ELSE s.removed_values[i]
               ELSE IF s.old_values[i] # NoObj THEN s.old_values[i] ELSE s.removed_values[i]
    BY DEF Merged, UndoState, Has
  <2>7. p.old_next_id \in Nat /\ s.old_next_id \in Nat /\ i \in Nat
    BY DEF UndoState, Ids
  <2> QED
    BY <1>1, <2>1, <2>2, <2>3, <2>4, <2>5, <2>6, <2>7 DEF LayerAt
<1>3. m.old_next_id = a.next_id /\ a.next_id <= c.next_id
  BY <1>1 DEF Layer, Copy
<1>4. QED
  BY <1>1, <1>2, <1>3 DEF Layer
-----------------------------------------------------------------------------
(* The operations that change the table: emplace, modify, remove.          *)

\* A change of the table that its newest undo_state accounts for, or that is
\* made while no session is open, preserves the invariant.
LEMMA WriteStep ==
    ASSUME IInv, UNCHANGED <<revision, saved>>,
           indices' \in Map, next_id' \in 0..MaxId, Sound(Present)',
           \/ stack = <<>> /\ stack' = stack
           \/ \E t \in UndoState :
                /\ stack # <<>>
                /\ stack' = SetTop(t)
                /\ t.revision = Top.revision
                /\ Layer(t, saved[Len(stack)], Present')
    PROVE  IInv'
<1>1. CASE stack = <<>> /\ stack' = stack
  BY <1>1 DEF IInv, IndexTypeOK, RevisionsConsecutive
<1>2. ASSUME NEW t \in UndoState, stack # <<>>, stack' = SetTop(t),
             t.revision = Top.revision, Layer(t, saved[Len(stack)], Present')
      PROVE  IInv'
  <2> DEFINE n == Len(stack)
  <2>1. stack \in Seq(UndoState) /\ n \in Nat \ {0} /\ n \in 1..n
    BY <1>2 DEF IInv, IndexTypeOK
  <2>2. /\ stack' \in Seq(UndoState) /\ Len(stack') = n /\ stack'[n] = t
        /\ \A i \in 1..n : i # n => stack'[i] = stack[i]
    BY <1>2, <2>1 DEF SetTop
  <2>3. IndexTypeOK' /\ Len(saved)' = Len(stack)' /\ Sound(Present)'
        /\ \A i \in 1..Len(stack)' : Sound(saved[i])'
    BY <2>1, <2>2 DEF IInv, IndexTypeOK, Sound
  <2>4. RevisionsConsecutive'
    BY <1>2, <2>1, <2>2, SMTT(60) DEF IInv, RevisionsConsecutive, Top
  <2>5. ASSUME NEW i \in 1..n
        PROVE  Layer(stack[i], saved[i], Above(i))'
    <3>1. CASE i = n
      BY <1>2, <2>2, <3>1 DEF Above, Present, Layer, LayerAt
    <3>2. CASE i # n
      <4>1. Layer(stack[i], saved[i], saved[i + 1])
        BY <2>1, <3>2 DEF IInv, Above
      <4>2. stack'[i] = stack[i] /\ Above(i)' = saved[i + 1]
        BY <2>2, <3>2 DEF Above
      <4>3. QED
        BY <4>1, <4>2 DEF Layer, LayerAt
    <3>3. QED
      BY <3>1, <3>2
  <2>6. QED
    BY <2>2, <2>3, <2>4, <2>5 DEF IInv
<1>3. QED
  BY <1>1, <1>2

\* The facts about the newest session that the hooks start from.
LEMMA TopLayer ==
    ASSUME IInv, stack # <<>>
    PROVE  /\ Len(stack) \in 1..Len(stack)
           /\ Top \in UndoState
           /\ saved[Len(stack)] \in Copy
           /\ Sound(saved[Len(stack)])
           /\ Layer(Top, saved[Len(stack)], Present)
           /\ Present \in Copy
<1>1. stack \in Seq(UndoState) /\ saved \in Seq(Copy) /\ Len(saved) = Len(stack)
  BY DEF IInv, IndexTypeOK
<1>2. Len(stack) \in 1..Len(stack)
  BY <1>1
<1>3. Top \in UndoState /\ saved[Len(stack)] \in Copy
  BY <1>1, <1>2 DEF Top
<1>4. Above(Len(stack)) = Present /\ Present \in Copy
  BY DEF Above, Present, Copy, IInv, IndexTypeOK
<1>5. Sound(saved[Len(stack)]) /\ Layer(Top, saved[Len(stack)], Above(Len(stack)))
  BY <1>2 DEF IInv, Top
<1>6. QED
  BY <1>2, <1>3, <1>4, <1>5

\* emplace keeps the invariant: the new id is above every old one.
LEMMA EmplaceStep ==
    ASSUME IInv, NEW k \in Keys, NEW v \in Values, emplace(k, v)
    PROVE  IInv'
<1>1. next_id \in Ids /\ [key |-> k, val |-> v] \in Objects /\ indices \in Map
  BY BoundsAssumption DEF IInv, IndexTypeOK, emplace, Ids, Objects
<1>2. indices' \in Map /\ next_id' \in 0..MaxId /\ UNCHANGED <<revision, saved>>
  BY <1>1, BoundsAssumption DEF emplace, Map, Ids
<1>3. /\ indices'[next_id].key = k /\ indices'[next_id] # NoObj
      /\ \A i \in Ids : i # next_id => indices'[i] = indices[i]
  BY <1>1, NoObjAssumption DEF emplace, Map
<1>4. Sound(Present)'
  <2>1. /\ \A i \in Ids : indices[i] # NoObj => i < next_id
        /\ \A i, j \in Ids : i # j /\ indices[i] # NoObj /\ indices[j] # NoObj =>
              indices[i].key # indices[j].key
    BY DEF IInv, Sound, Present
  <2>2. \A i \in Ids : indices[i] # NoObj => indices[i].key # k
    BY DEF emplace, KeyFree, Has
  <2>3. next_id' = next_id + 1 /\ next_id \in Nat /\ \A i \in Ids : i \in Nat
    BY <1>1 DEF emplace, Ids
  <2>4. ASSUME NEW i \in Ids, indices'[i] # NoObj PROVE i < next_id'
    <3>1. CASE i = next_id
      BY <2>3, <3>1
    <3>2. CASE i # next_id
      <4>1. i < next_id
        BY <1>3, <2>1, <2>4, <3>2, Zenon
      <4>. QED
        BY <2>3, <4>1
    <3>. QED
      BY <3>1, <3>2
  <2>5. \A i, j \in Ids : i # j /\ indices'[i] # NoObj /\ indices'[j] # NoObj =>
           indices'[i].key # indices'[j].key
    BY <1>3, <2>1, <2>2, ZenonT(60)
  <2>. QED
    BY <2>4, <2>5, ZenonT(60) DEF Sound, Present
<1>5. CASE stack = <<>>
  BY <1>2, <1>4, <1>5, WriteStep DEF emplace, on_create, enabled
<1>6. CASE stack # <<>>
  <2> DEFINE t == [Top EXCEPT !.new_ids = @ \cup {next_id}]
             n == Len(stack)
  <2>1. /\ Top \in UndoState /\ Layer(Top, saved[n], Present)
        /\ saved[n] \in Copy /\ Sound(saved[n])
    BY <1>6, TopLayer
  <2>2. /\ t \in UndoState /\ t.revision = Top.revision
        /\ t.old_next_id = Top.old_next_id /\ t.old_values = Top.old_values
        /\ t.removed_values = Top.removed_values
        /\ t.new_ids = Top.new_ids \cup {next_id}
    BY <1>1, <2>1 DEF UndoState
  <2>3. stack' = SetTop(t)
    BY <1>6 DEF emplace, on_create, enabled
  <2>4. Top.old_next_id = saved[n].next_id /\ saved[n].next_id <= next_id
    BY <2>1 DEF Layer, Present
  <2>5. next_id \in Nat /\ next_id' = next_id + 1 /\ saved[n].next_id \in Nat
    BY <1>1, <2>1 DEF emplace, Ids, Copy
  <2>6. ASSUME NEW i \in Ids
        PROVE  LayerAt(t, saved[n].indices, indices', i)
    <3>1. LayerAt(Top, saved[n].indices, indices, i)
      BY <2>1 DEF Layer, Present
    <3>2. CASE i # next_id
      BY <1>3, <2>2, <3>1, <3>2 DEF LayerAt
    <3>3. CASE i = next_id
      <4>1. saved[n].indices[i] = NoObj
        BY <2>1, <2>4, <2>5, <3>3 DEF Sound
      <4>2. indices[i] = NoObj
        BY <3>3 DEF emplace, Has
      <4>3. QED
        BY <1>3, <2>2, <2>4, <2>5, <3>1, <3>3, <4>1, <4>2 DEF LayerAt
    <3>4. QED
      BY <3>2, <3>3
  <2>7. Layer(t, saved[n], Present')
    <3> HIDE DEF t
    <3>1. Present'.indices = indices' /\ Present'.next_id = next_id'
      BY DEF Present
    <3>2. t.old_next_id = saved[n].next_id /\ saved[n].next_id <= next_id'
      BY <2>2, <2>4, <2>5
    <3>3. QED
      BY <2>6, <3>1, <3>2 DEF Layer
  <2>8. QED
    BY <1>2, <1>4, <1>6, <2>2, <2>3, <2>7, WriteStep, Zenon
<1>7. QED
  BY <1>5, <1>6

\* modify and remove touch one object x and leave the next id alone: it is
\* enough that the undo_state they leave, t, is right about x and agrees with
\* the old one about every other id.
LEMMA TouchStep ==
    ASSUME IInv, stack # <<>>, NEW x \in Ids, NEW t \in UndoState,
           stack' = SetTop(t), UNCHANGED <<next_id, revision, saved>>,
           indices' \in Map, Sound(Present)',
           t.revision = Top.revision, t.old_next_id = Top.old_next_id,
           \A i \in Ids : i # x =>
              /\ indices'[i] = indices[i]
              /\ i \in t.new_ids <=> i \in Top.new_ids
              /\ t.old_values[i] = Top.old_values[i]
              /\ t.removed_values[i] = Top.removed_values[i],
           LayerAt(t, saved[Len(stack)].indices, indices', x)
    PROVE  IInv'
<1> DEFINE n == Len(stack)
<1>1. Layer(Top, saved[n], Present)
  BY TopLayer
<1>2. Present.indices = indices /\ Present.next_id = next_id
      /\ Present'.indices = indices' /\ Present'.next_id = next_id
  BY DEF Present
<1>3. ASSUME NEW i \in Ids
      PROVE  LayerAt(t, saved[n].indices, indices', i)
  <2>1. LayerAt(Top, saved[n].indices, indices, i)
    BY <1>1, <1>2 DEF Layer
  <2>2. QED
    BY <2>1 DEF LayerAt
<1>4. Layer(t, saved[n], Present')
  BY <1>1, <1>2, <1>3 DEF Layer
<1>5. next_id' \in 0..MaxId
  BY DEF IInv, IndexTypeOK
<1>6. QED
  BY <1>4, <1>5, WriteStep

\* modify keeps it: the first old value of an id in a session is the one kept.
LEMMA ModifyStep ==
    ASSUME IInv, NEW x \in Ids, NEW v \in Values, modify(x, v)
    PROVE  IInv'
<1>1. indices \in Map /\ indices[x] \in Objects
  BY DEF IInv, IndexTypeOK, modify, Has, Map
<1>2. /\ indices' \in Map /\ UNCHANGED <<next_id, revision, saved>>
      /\ indices'[x] # NoObj /\ indices'[x].key = indices[x].key
      /\ indices[x] # NoObj
      /\ \A i \in Ids : i # x => indices'[i] = indices[i]
  BY <1>1, NoObjAssumption DEF modify, Map, Objects, Has
<1>3. Sound(Present)'
  BY <1>1, <1>2 DEF IInv, Sound, Present
<1>4. CASE stack = <<>>
  BY <1>2, <1>3, <1>4, WriteStep DEF modify, on_modify, enabled, IInv, IndexTypeOK
<1>5. CASE stack # <<>>
  <2> DEFINE n == Len(stack)
  <2>1. /\ Top \in UndoState /\ n \in 1..n /\ stack \in Seq(UndoState)
        /\ LayerAt(Top, saved[n].indices, indices, x)
    BY <1>5, TopLayer DEF Layer, Present, IInv, IndexTypeOK
  <2>2. CASE x \in Top.new_ids \/ Has(Top.old_values, x)
    <3>1. stack' = SetTop(Top)
      BY <1>5, <2>1, <2>2 DEF modify, on_modify, SetTop, Top
    <3>2. LayerAt(Top, saved[n].indices, indices', x)
      BY <1>2, <2>1, <2>2 DEF LayerAt, Has
    <3>3. QED
      BY <1>2, <1>3, <1>5, <2>1, <3>1, <3>2, TouchStep
  <2>3. CASE ~(x \in Top.new_ids \/ Has(Top.old_values, x))
    <3> DEFINE t == [Top EXCEPT !.old_values[x] = indices[x]]
    <3>1. stack' = SetTop(t)
      BY <1>5, <2>3 DEF modify, on_modify, enabled
    <3>2. /\ t \in UndoState /\ t.revision = Top.revision
          /\ t.old_next_id = Top.old_next_id /\ t.new_ids = Top.new_ids
          /\ t.removed_values = Top.removed_values
          /\ t.old_values = [Top.old_values EXCEPT ![x] = indices[x]]
          /\ Top.old_values \in Map
      BY <1>1, <2>1, Zenon DEF UndoState, Map
    <3> HIDE DEF t
    <3>3. t.old_values[x] = indices[x]
          /\ \A i \in Ids : i # x => t.old_values[i] = Top.old_values[i]
      BY <3>2 DEF Map
    <3>4. LayerAt(t, saved[n].indices, indices', x)
      BY <1>2, <2>1, <2>3, <3>2, <3>3 DEF LayerAt, Has
    <3>5. QED
      BY <1>2, <1>3, <1>5, <3>1, <3>2, <3>3, <3>4, TouchStep, ZenonT(60)
  <2>4. QED
    BY <2>2, <2>3
<1>6. QED
  BY <1>4, <1>5

\* remove keeps it, for an id the session made, changed or found.
LEMMA RemoveStep ==
    ASSUME IInv, NEW x \in Ids, remove(x)
    PROVE  IInv'
<1>1. indices \in Map /\ indices[x] \in Objects
  BY DEF IInv, IndexTypeOK, remove, Has, Map
<1>2. /\ indices' \in Map /\ UNCHANGED <<next_id, revision, saved>>
      /\ indices'[x] = NoObj /\ indices[x] # NoObj
      /\ \A i \in Ids : i # x => indices'[i] = indices[i]
  BY <1>1, NoObjAssumption DEF remove, Map, Has
<1>3. Sound(Present)'
  BY <1>1, <1>2 DEF IInv, Sound, Present
<1>4. CASE stack = <<>>
  BY <1>2, <1>3, <1>4, WriteStep DEF remove, on_remove, enabled, IInv, IndexTypeOK
<1>5. CASE stack # <<>>
  <2> DEFINE n == Len(stack)
  <2>1. /\ Top \in UndoState /\ n \in 1..n /\ stack \in Seq(UndoState)
        /\ LayerAt(Top, saved[n].indices, indices, x)
        /\ Top.old_values \in Map /\ Top.removed_values \in Map
    BY <1>5, TopLayer DEF Layer, Present, IInv, IndexTypeOK, UndoState
  <2>2. CASE x \in Top.new_ids
    <3> DEFINE t == [Top EXCEPT !.new_ids = @ \ {x}]
    <3>1. stack' = SetTop(t)
      BY <1>5, <2>2 DEF remove, on_remove, enabled
    <3>2. /\ t \in UndoState /\ t.revision = Top.revision
          /\ t.old_next_id = Top.old_next_id /\ t.new_ids = Top.new_ids \ {x}
          /\ t.removed_values = Top.removed_values
          /\ t.old_values = Top.old_values
      BY <2>1 DEF UndoState
    <3> HIDE DEF t
    <3>3. LayerAt(t, saved[n].indices, indices', x)
      BY <1>2, <2>1, <2>2, <3>2 DEF LayerAt
    <3>4. QED
      BY <1>2, <1>3, <1>5, <3>1, <3>2, <3>3, TouchStep
  <2>3. CASE x \notin Top.new_ids /\ Has(Top.old_values, x)
    <3> DEFINE t == [Top EXCEPT !.removed_values[x] = Top.old_values[x],
                                !.old_values[x] = NoObj]
    <3>1. stack' = SetTop(t)
      BY <1>5, <2>3 DEF remove, on_remove, enabled
    <3>2. /\ t \in UndoState /\ t.revision = Top.revision
          /\ t.old_next_id = Top.old_next_id /\ t.new_ids = Top.new_ids
          /\ t.removed_values = [Top.removed_values EXCEPT ![x] = Top.old_values[x]]
          /\ t.old_values = [Top.old_values EXCEPT ![x] = NoObj]
      BY <2>1, Zenon DEF UndoState, Map
    <3> HIDE DEF t
    <3>3. /\ t.removed_values[x] = Top.old_values[x] /\ t.old_values[x] = NoObj
          /\ \A i \in Ids : i # x => /\ t.old_values[i] = Top.old_values[i]
                                     /\ t.removed_values[i] = Top.removed_values[i]
      BY <2>1, <3>2 DEF Map
    <3>4. LayerAt(t, saved[n].indices, indices', x)
      BY <1>2, <2>1, <2>3, <3>2, <3>3 DEF LayerAt, Has
    <3>5. \A i \in Ids : i # x =>
              /\ indices'[i] = indices[i]
              /\ i \in t.new_ids <=> i \in Top.new_ids
              /\ t.old_values[i] = Top.old_values[i]
              /\ t.removed_values[i] = Top.removed_values[i]
      BY <1>2, <3>2, <3>3
    <3>6. /\ t \in UndoState /\ t.revision = Top.revision
          /\ t.old_next_id = Top.old_next_id /\ indices' \in Map
          /\ UNCHANGED <<next_id, revision, saved>>
      BY <1>2, <3>2
    <3>7. QED
      BY <1>3, <1>5, <3>1, <3>5, <3>6, <3>4, TouchStep
  <2>4. CASE x \notin Top.new_ids /\ ~Has(Top.old_values, x)
    <3> DEFINE t == [Top EXCEPT !.removed_values[x] = indices[x]]
    <3>1. ~Has(Top.removed_values, x)
      BY <1>2, <2>1 DEF LayerAt, Has
    <3>2. stack' = SetTop(t)
      BY <1>5, <2>4, <3>1 DEF remove, on_remove, enabled
    <3>3. /\ t \in UndoState /\ t.revision = Top.revision
          /\ t.old_next_id = Top.old_next_id /\ t.new_ids = Top.new_ids
          /\ t.removed_values = [Top.removed_values EXCEPT ![x] = indices[x]]
          /\ t.old_values = Top.old_values
      BY <1>1, <2>1, Zenon DEF UndoState, Map
    <3> HIDE DEF t
    <3>4. /\ t.removed_values[x] = indices[x]
          /\ \A i \in Ids : i # x => t.removed_values[i] = Top.removed_values[i]
      BY <2>1, <3>3 DEF Map
    <3>5. LayerAt(t, saved[n].indices, indices', x)
      BY <1>2, <2>1, <2>4, <3>1, <3>3, <3>4 DEF LayerAt, Has
    <3>6. \A i \in Ids : i # x =>
              /\ indices'[i] = indices[i]
              /\ i \in t.new_ids <=> i \in Top.new_ids
              /\ t.old_values[i] = Top.old_values[i]
              /\ t.removed_values[i] = Top.removed_values[i]
      BY <1>2, <3>3, <3>4
    <3>7. /\ t \in UndoState /\ t.revision = Top.revision
          /\ t.old_next_id = Top.old_next_id /\ indices' \in Map
          /\ UNCHANGED <<next_id, revision, saved>>
      BY <1>2, <3>3
    <3>8. QED
      BY <1>3, <1>5, <3>2, <3>6, <3>7, <3>5, TouchStep
  <2>5. QED
    BY <2>2, <2>3, <2>4
<1>6. QED
  BY <1>4, <1>5
-----------------------------------------------------------------------------
(* The operations on the history.                                          *)

\* start_undo_session keeps it: the new session starts from the values as they are.
LEMMA StartStep ==
    ASSUME IInv, start_undo_session
    PROVE  IInv'
<1> DEFINE n == Len(stack)
           fresh == [old_values |-> NoEntries, removed_values |-> NoEntries,
                     new_ids |-> {}, old_next_id |-> next_id,
                     revision |-> revision + 1]
<1>1. /\ stack \in Seq(UndoState) /\ saved \in Seq(Copy) /\ n \in Nat
      /\ Len(saved) = n /\ indices \in Map /\ next_id \in 0..MaxId /\ revision \in Int
  BY DEF IInv, IndexTypeOK
<1>2. fresh \in UndoState /\ Present \in Copy
  BY <1>1 DEF UndoState, Map, NoEntries, Copy, Present
<1>3. /\ stack' = Append(stack, fresh) /\ saved' = Append(saved, Present)
      /\ revision' = revision + 1 /\ UNCHANGED <<indices, next_id>>
      /\ Present' = Present
  BY DEF start_undo_session, Present
<1>4. Layer(fresh, Present, Present)
  BY <1>1 DEF Layer, LayerAt, Present, NoEntries
<1> HIDE DEF fresh
<1>5. /\ stack' \in Seq(UndoState) /\ saved' \in Seq(Copy)
      /\ Len(stack') = n + 1 /\ Len(saved') = n + 1
      /\ stack'[n + 1] = fresh /\ saved'[n + 1] = Present
      /\ \A i \in 1..n : stack'[i] = stack[i] /\ saved'[i] = saved[i]
  BY <1>1, <1>2, <1>3
<1>6. IndexTypeOK'
  BY <1>1, <1>3, <1>5 DEF IndexTypeOK
<1>7. RevisionsConsecutive'
  <2>1. fresh.revision = revision + 1
    BY DEF fresh
  <2>2. \A i \in 1..n : stack[i].revision = revision - (n - i)
    BY DEF IInv, RevisionsConsecutive
  <2>3. QED
    BY <1>1, <1>3, <1>5, <2>1, <2>2 DEF RevisionsConsecutive
<1>8. Sound(Present)' /\ \A i \in 1..(n + 1) : Sound(saved[i])'
  <2>1. Sound(Present) /\ \A i \in 1..n : Sound(saved[i])
    BY DEF IInv
  <2>2. Sound(Present)'
    BY <2>1, <1>3 DEF Sound
  <2>3. ASSUME NEW i \in 1..(n + 1) PROVE Sound(saved[i])'
    <3>1. CASE i = n + 1
      BY <1>5, <2>1, <3>1 DEF Sound
    <3>2. CASE i # n + 1
      BY <1>1, <1>5, <2>1, <3>2 DEF Sound
    <3>3. QED
      BY <3>1, <3>2
  <2>4. QED
    BY <2>2, <2>3
<1>9. ASSUME NEW i \in 1..(n + 1)
      PROVE  Layer(stack[i], saved[i], Above(i))'
  <2>1. CASE i = n + 1
    <3>1. Above(i)' = Present
      BY <1>3, <1>5, <2>1 DEF Above, Present
    <3>2. QED
      BY <1>4, <1>5, <2>1, <3>1 DEF Layer, LayerAt
  <2>2. CASE i = n
    <3>1. Above(i)' = Present /\ Above(i) = Present /\ i \in 1..n
      BY <1>1, <1>5, <2>2 DEF Above, Present
    <3>2. Layer(stack[i], saved[i], Present)
      BY <3>1 DEF IInv
    <3>3. QED
      BY <1>5, <3>1, <3>2 DEF Layer, LayerAt
  <2>3. CASE i # n /\ i # n + 1
    <3>1. i \in 1..n /\ i + 1 \in 1..n
      BY <1>1, <2>3
    <3>2. Above(i)' = saved[i + 1] /\ Above(i) = saved[i + 1]
      BY <1>1, <1>5, <2>3, <3>1 DEF Above
    <3>3. Layer(stack[i], saved[i], saved[i + 1])
      BY <3>1, <3>2 DEF IInv
    <3>4. QED
      BY <1>5, <3>1, <3>2, <3>3 DEF Layer, LayerAt
  <2>4. QED
    BY <2>1, <2>2, <2>3
<1>10. QED
  BY <1>5, <1>6, <1>7, <1>8, <1>9 DEF IInv

\* undo() returns to the copy the newest session took.
LEMMA UndoReturns ==
    ASSUME IInv, undo
    PROVE  Present' = saved[Len(stack)]
<1> DEFINE n == Len(stack)
<1>1. /\ Top \in UndoState /\ saved[n] \in Copy
      /\ Layer(Top, saved[n], Present) /\ Present \in Copy
  BY TopLayer DEF undo, enabled
<1>2. Restored(Top, Present.indices) = saved[n].indices
  BY <1>1, LayerRestores
<1>3. indices' = saved[n].indices /\ next_id' = saved[n].next_id
  BY <1>1, <1>2 DEF undo, Present, Layer
<1>4. QED
  BY <1>1, <1>3 DEF Present, Copy

\* undo keeps it: the values are those the last session started from.
LEMMA UndoStep ==
    ASSUME IInv, undo
    PROVE  IInv'
<1> DEFINE n == Len(stack)
<1>1. /\ stack \in Seq(UndoState) /\ saved \in Seq(Copy) /\ n \in Nat \ {0}
      /\ Len(saved) = n /\ revision \in Int
  BY DEF IInv, IndexTypeOK, undo, enabled
<1>2. /\ Top \in UndoState /\ saved[n] \in Copy /\ Sound(saved[n])
      /\ Layer(Top, saved[n], Present) /\ Present \in Copy
  BY TopLayer DEF undo, enabled
<1>3. Present' = saved[n]
  BY UndoReturns
<1>4. Present' = saved[n] /\ indices' \in Map /\ next_id' \in 0..MaxId
  BY <1>2, <1>3 DEF Present, Copy
<1>5. /\ stack' \in Seq(UndoState) /\ saved' \in Seq(Copy)
      /\ Len(stack') = n - 1 /\ Len(saved') = n - 1
      /\ \A i \in 1..(n - 1) : stack'[i] = stack[i] /\ saved'[i] = saved[i]
      /\ revision' = revision - 1
  BY <1>1 DEF undo, Pop
<1>6. IndexTypeOK'
  BY <1>1, <1>4, <1>5 DEF IndexTypeOK
<1>7. RevisionsConsecutive'
  BY <1>1, <1>5 DEF IInv, RevisionsConsecutive
<1>8. Sound(Present)' /\ \A i \in 1..(n - 1) : Sound(saved[i])'
  <2>1. Sound(Present)'
    BY <1>2, <1>4 DEF Sound
  <2>2. ASSUME NEW i \in 1..(n - 1) PROVE Sound(saved[i])'
    <3>1. i \in 1..n
      BY <1>1
    <3>2. Sound(saved[i])
      BY <3>1 DEF IInv
    <3>3. saved'[i] = saved[i]
      BY <1>5
    <3>4. QED
      BY <3>2, <3>3 DEF Sound
  <2>3. QED
    BY <2>1, <2>2
<1>9. ASSUME NEW i \in 1..(n - 1)
      PROVE  Layer(stack[i], saved[i], Above(i))'
  <2>1. Above(i) = saved[i + 1] /\ i \in 1..n
    BY <1>1 DEF Above
  <2>2. Above(i)' = saved[i + 1]
    BY <1>1, <1>4, <1>5 DEF Above, Present
  <2>3. Layer(stack[i], saved[i], saved[i + 1])
    BY <2>1 DEF IInv
  <2>4. QED
    BY <1>5, <2>2, <2>3 DEF Layer, LayerAt
<1>10. QED
  BY <1>5, <1>6, <1>7, <1>8, <1>9 DEF IInv

\* squash keeps it: the merged session starts from what the older one did.
LEMMA SquashStep ==
    ASSUME IInv, squash
    PROVE  IInv'
<1> DEFINE n == Len(stack)
<1>1. /\ stack \in Seq(UndoState) /\ saved \in Seq(Copy) /\ n \in Nat \ {0}
      /\ Len(saved) = n /\ revision \in Int
      /\ Present' = Present /\ UNCHANGED <<indices, next_id>>
  BY DEF IInv, IndexTypeOK, squash, enabled, Present
<1>2. CASE n = 1
  <2>1. stack' = <<>> /\ Len(saved') = 0 /\ saved' \in Seq(Copy) /\ revision' = revision
    BY <1>1, <1>2 DEF squash, Pop
  <2>2. Sound(Present)'
    BY <1>1 DEF IInv, Sound
  <2>3. IndexTypeOK'
    BY <1>1, <2>1 DEF IInv, IndexTypeOK
  <2>4. QED
    BY <2>1, <2>2, <2>3 DEF IInv, RevisionsConsecutive
<1>3. CASE n # 1
  <2> DEFINE m == Merged(stack[n - 1], stack[n])
  <2>1. /\ n - 1 \in 1..n /\ n \in 1..n /\ n - 1 # n
        /\ stack[n - 1] \in UndoState /\ stack[n] \in UndoState
        /\ saved[n - 1] \in Copy /\ saved[n] \in Copy
    BY <1>1, <1>3
  <2>2. Above(n - 1) = saved[n] /\ Above(n) = Present /\ Present \in Copy
    BY <1>1, <2>1 DEF Above, Present, Copy, IInv, IndexTypeOK
  <2>3. /\ Layer(stack[n - 1], saved[n - 1], saved[n])
        /\ Layer(stack[n], saved[n], Present)
        /\ Sound(saved[n - 1])
    BY <2>1, <2>2 DEF IInv
  <2>4. m \in UndoState /\ m.revision = stack[n - 1].revision /\ Layer(m, saved[n - 1], Present)
    BY <2>1, <2>2, <2>3, LayersMerge
  <2> HIDE DEF m
  <2>5. stack' = [SubSeq(stack, 1, n - 1) EXCEPT ![n - 1] = m] /\ revision' = revision - 1
    <3>1. SubSeq(stack, 1, n - 1)[n - 1] = stack[n - 1]
      BY <1>1, <1>3
    <3>2. QED
      BY <1>3, <3>1 DEF squash, Pop, Top, m
  <2>6. /\ stack' \in Seq(UndoState) /\ saved' \in Seq(Copy)
        /\ Len(stack') = n - 1 /\ Len(saved') = n - 1
        /\ stack'[n - 1] = m
        /\ \A i \in 1..(n - 2) : stack'[i] = stack[i]
        /\ \A i \in 1..(n - 1) : saved'[i] = saved[i]
    <3> DEFINE q == SubSeq(stack, 1, n - 1)
    <3>1. /\ q \in Seq(UndoState) /\ Len(q) = n - 1
          /\ \A i \in 1..(n - 1) : q[i] = stack[i]
      BY <1>1, <1>3
    <3> HIDE DEF q
    <3>2. stack' = [q EXCEPT ![n - 1] = m]
      BY <2>5 DEF q
    <3>3. /\ stack' \in Seq(UndoState) /\ Len(stack') = n - 1 /\ stack'[n - 1] = m
          /\ \A i \in 1..(n - 2) : stack'[i] = stack[i]
      BY <1>1, <1>3, <2>4, <3>1, <3>2
    <3>4. /\ saved' \in Seq(Copy) /\ Len(saved') = n - 1
          /\ \A i \in 1..(n - 1) : saved'[i] = saved[i]
      BY <1>1, <1>3 DEF squash, Pop
    <3>5. QED
      BY <3>3, <3>4
  <2>7. IndexTypeOK'
    BY <1>1, <2>5, <2>6 DEF IInv, IndexTypeOK
  <2>8. RevisionsConsecutive'
    <3>1. \A i \in 1..n : stack[i].revision = revision - (n - i)
      BY DEF IInv, RevisionsConsecutive
    <3>2. ASSUME NEW i \in 1..(n - 1)
          PROVE  stack'[i].revision = revision' - ((n - 1) - i)
      <4>1. stack'[i].revision = stack[i].revision
        <5>1. CASE i = n - 1
          BY <2>4, <2>6, <5>1
        <5>2. CASE i # n - 1
          <6>1. i \in 1..(n - 2)
            BY <1>1, <5>2
          <6>2. QED
            BY <2>6, <6>1
        <5>3. QED
          BY <5>1, <5>2
      <4>2. QED
        BY <1>1, <2>5, <3>1, <4>1
    <3>3. QED
      BY <2>6, <3>2 DEF RevisionsConsecutive
  <2>9. Sound(Present)' /\ \A i \in 1..(n - 1) : Sound(saved[i])'
    <3>1. Sound(Present)'
      BY <1>1 DEF Sound, IInv
    <3>2. ASSUME NEW i \in 1..(n - 1) PROVE Sound(saved[i])'
      <4>1. i \in 1..n
        BY <1>1
      <4>2. Sound(saved[i])
        BY <4>1 DEF IInv
      <4>3. saved'[i] = saved[i]
        BY <2>6
      <4>4. QED
        BY <4>2, <4>3 DEF Sound
    <3>3. QED
      BY <3>1, <3>2
  <2>10. ASSUME NEW i \in 1..(n - 1)
         PROVE  Layer(stack[i], saved[i], Above(i))'
    <3>1. CASE i = n - 1
      <4>1. Above(i)' = Present
        BY <1>1, <2>6, <3>1 DEF Above, Present
      <4>2. QED
        BY <2>4, <2>6, <3>1, <4>1 DEF Layer, LayerAt
    <3>2. CASE i # n - 1
      <4>1. Above(i) = saved[i + 1] /\ i \in 1..n /\ i \in 1..(n - 2) /\ i + 1 \in 1..(n - 1)
        BY <1>1, <3>2 DEF Above
      <4>2. Above(i)' = saved[i + 1]
        BY <1>1, <2>6, <3>2, <4>1 DEF Above
      <4>3. Layer(stack[i], saved[i], saved[i + 1])
        BY <4>1 DEF IInv
      <4>4. QED
        BY <2>6, <4>1, <4>2, <4>3 DEF Layer, LayerAt
    <3>3. QED
      BY <3>1, <3>2
  <2>11. QED
    BY <2>6, <2>7, <2>8, <2>9, <2>10 DEF IInv
<1>4. QED
  BY <1>2, <1>3

\* commit keeps it: the sessions left are the newest ones.
LEMMA CommitStep ==
    ASSUME IInv, NEW r \in 0..MaxRevision, commit(r)
    PROVE  IInv'
<1> DEFINE n == Len(stack)
<1>1. /\ stack \in Seq(UndoState) /\ saved \in Seq(Copy) /\ n \in Nat
      /\ Len(saved) = n /\ revision \in Int
      /\ Present' = Present /\ UNCHANGED <<indices, next_id, revision>>
  BY DEF IInv, IndexTypeOK, commit, Present
<1>2. PICK d \in 0..n : /\ stack' = SubSeq(stack, d + 1, n)
                        /\ saved' = SubSeq(saved, d + 1, n)
  BY <1>1 DEF commit
<1>3. /\ stack' \in Seq(UndoState) /\ saved' \in Seq(Copy)
      /\ Len(stack') = n - d /\ Len(saved') = n - d
      /\ \A i \in 1..(n - d) : stack'[i] = stack[i + d] /\ saved'[i] = saved[i + d]
  BY <1>1, <1>2
<1>4. IndexTypeOK'
  BY <1>1, <1>3 DEF IInv, IndexTypeOK
<1>5. RevisionsConsecutive'
  <2>1. \A i \in 1..n : stack[i].revision = revision - (n - i)
    BY DEF IInv, RevisionsConsecutive
  <2>2. ASSUME NEW i \in 1..(n - d)
        PROVE  stack'[i].revision = revision' - ((n - d) - i)
    <3>1. i + d \in 1..n /\ stack'[i].revision = stack[i + d].revision
      BY <1>1, <1>3
    <3>2. QED
      BY <1>1, <2>1, <3>1
  <2>3. QED
    BY <1>3, <2>2 DEF RevisionsConsecutive
<1>6. Sound(Present)'
  BY <1>1, SMTT(60) DEF Sound, IInv
<1>7. ASSUME NEW i \in 1..(n - d)
      PROVE  Sound(saved[i])' /\ Layer(stack[i], saved[i], Above(i))'
  <2>1. i + d \in 1..n /\ stack'[i] = stack[i + d] /\ saved'[i] = saved[i + d]
    BY <1>1, <1>3
  <2>2. Sound(saved[i + d]) /\ Layer(stack[i + d], saved[i + d], Above(i + d))
    BY <2>1 DEF IInv
  <2>3. Above(i)' = Above(i + d)
    <3>1. CASE i = n - d
      BY <1>1, <1>3, <3>1 DEF Above
    <3>2. CASE i # n - d
      <4>1. i + 1 \in 1..(n - d) /\ (i + 1) + d = (i + d) + 1 /\ i + d # n
        BY <1>1, <3>2
      <4>2. saved'[i + 1] = saved[(i + d) + 1]
        <5>1. saved'[i + 1] = saved[(i + 1) + d]
          BY <1>3, <4>1, Zenon
        <5>. QED
          BY <4>1, <5>1, Zenon
      <4>3. QED
        BY <1>3, <3>2, <4>1, <4>2 DEF Above
    <3>3. QED
      BY <3>1, <3>2
  <2>4. Sound(saved[i])'
    BY <2>1, <2>2, ZenonT(60) DEF Sound
  <2>5. Layer(stack[i], saved[i], Above(i))'
    <3>1. PICK a : a = Above(i)'
      OBVIOUS
    <3>2. Layer(stack'[i], saved'[i], a)
      BY <2>1, <2>2, <2>3, <3>1, ZenonT(60)
    <3>. QED
      BY <3>1, <3>2, ZenonT(60) DEF Layer, LayerAt
  <2>6. QED
    BY <2>4, <2>5
<1>8. QED
  BY <1>3, <1>4, <1>5, <1>6, <1>7, Zenon DEF IInv

\* set_revision keeps it.
LEMMA SetRevisionStep ==
    ASSUME IInv, NEW r \in 0..MaxRevision, set_revision(r)
    PROVE  IInv'
<1>1. stack = <<>> /\ UNCHANGED <<indices, next_id, stack, saved>> /\ revision' \in Int
  BY DEF set_revision, enabled
<1>2. QED
  BY <1>1 DEF IInv, IndexTypeOK, RevisionsConsecutive, Sound, Present
-----------------------------------------------------------------------------
\* The empty index satisfies it.
LEMMA InitInv == IndexInit => IInv
BY BoundsAssumption DEF IndexInit, IInv, IndexTypeOK, RevisionsConsecutive, Sound, Present,
   NoEntries, Map, Ids

\* Every operation keeps it.
LEMMA NextInv == IInv /\ [IndexNext]_indexVars => IInv'
<1> SUFFICES ASSUME IInv, [IndexNext]_indexVars PROVE IInv'
  OBVIOUS
<1>1. CASE \E k \in Keys, v \in Values : emplace(k, v)
  BY <1>1, EmplaceStep
<1>2. CASE \E i \in Ids, v \in Values : modify(i, v)
  BY <1>2, ModifyStep
<1>3. CASE \E i \in Ids : remove(i)
  BY <1>3, RemoveStep
<1>4. CASE start_undo_session
  BY <1>4, StartStep
<1>5. CASE undo
  BY <1>5, UndoStep
<1>6. CASE squash
  BY <1>6, SquashStep
<1>7. CASE \E r \in 0..MaxRevision : commit(r)
  BY <1>7, CommitStep
<1>8. CASE \E r \in 0..MaxRevision : set_revision(r)
  BY <1>8, SetRevisionStep, SMTT(60)
<1>9. CASE UNCHANGED indexVars
  <2>1. UNCHANGED <<indices, next_id, stack, revision, saved>>
    BY <1>9 DEF indexVars
  <2>2. IndexTypeOK' /\ RevisionsConsecutive' /\ Len(saved') = Len(stack')
    BY <2>1 DEF IInv, IndexTypeOK, RevisionsConsecutive
  <2>3. Sound(Present)'
    BY <2>1 DEF IInv, Sound, Present
  <2>4. \A i \in 1..Len(stack') : Sound(saved[i])'
    BY <2>1, ZenonT(60) DEF IInv, Sound
  <2>5. \A i \in 1..Len(stack') : Layer(stack[i], saved[i], Above(i))'
    BY <2>1, ZenonT(60) DEF IInv, Layer, LayerAt, Above
  <2>. QED
    BY <2>2, <2>3, <2>4, <2>5, ZenonT(60) DEF IInv
<1>10. QED
  BY <1>1, <1>2, <1>3, <1>4, <1>5, <1>6, <1>7, <1>8, <1>9 DEF IndexNext
-----------------------------------------------------------------------------
(* The theorems.                                                           *)

\* Every operation of generic_index keeps the table, the stack and the
\* revision well formed.
THEOREM TypeCorrect == IndexSpec => []IndexTypeOK
<1>1. IInv => IndexTypeOK
  BY DEF IInv
<1>2. QED
  BY <1>1, InitInv, NextInv, PTL DEF IndexSpec

\* The revision numbers on the stack are consecutive and end at _revision.
THEOREM RevisionsAreConsecutive == IndexSpec => []RevisionsConsecutive
<1>1. IInv => RevisionsConsecutive
  BY DEF IInv
<1>2. QED
  BY <1>1, InitInv, NextInv, PTL DEF IndexSpec

\* With it, undo gives back exactly the values its session started from.
LEMMA InvUndoExact == IInv => UndoExact
<1> SUFFICES ASSUME IInv PROVE UndoExact
  OBVIOUS
<1>1. Len(saved) = Len(stack) /\ stack \in Seq(UndoState) /\ saved \in Seq(Copy)
  BY DEF IInv, IndexTypeOK
<1>2. ASSUME NEW i \in 1..Len(stack)
      PROVE  /\ Restored(stack[i], Above(i).indices) = saved[i].indices
             /\ stack[i].old_next_id = saved[i].next_id
  <2>1. stack[i] \in UndoState /\ saved[i] \in Copy /\ Layer(stack[i], saved[i], Above(i))
    BY <1>1 DEF IInv
  <2>2. Above(i) \in Copy
    <3>1. CASE i = Len(stack)
      BY <3>1 DEF Above, Copy, IInv, IndexTypeOK
    <3>2. CASE i # Len(stack)
      <4>1. i + 1 \in 1..Len(saved)
        BY <1>1, <3>2
      <4>2. QED
        BY <1>1, <3>2, <4>1 DEF Above
    <3>3. QED
      BY <3>1, <3>2
  <2>3. QED
    BY <2>1, <2>2, LayerRestores DEF Layer
<1>3. QED
  BY <1>1, <1>2 DEF UndoExact

\* Whatever was done in a session, and however squash() and commit() have
\* reshaped the stack since, undo() returns to exactly the table that the
\* session found.
THEOREM UndoIsExact == IndexSpec => []UndoExact
BY InitInv, NextInv, InvUndoExact, PTL DEF IndexSpec

\* With it, every object undo restores or takes away is where undo looks for it.
LEMMA InvUndoNeverThrows == IInv => UndoNeverThrows
<1> SUFFICES ASSUME IInv, enabled PROVE UndoNeverThrows
  BY DEF UndoNeverThrows
<1> DEFINE n == Len(stack)
           kept == NewIdsErased(Top, OldValuesBack(Top, indices))
<1>1. /\ Top \in UndoState /\ saved[n] \in Copy /\ Sound(saved[n])
      /\ Layer(Top, saved[n], Present)
  BY TopLayer DEF enabled
<1>2. \A i \in Ids : LayerAt(Top, saved[n].indices, indices, i)
  BY <1>1 DEF Layer, Present
<1>3. \A i \in Ids : Has(Top.old_values, i) \/ i \in Top.new_ids => Has(indices, i)
  BY <1>2 DEF LayerAt, Has
<1>4. \A i \in Ids : kept[i] = IF i \in Top.new_ids THEN NoObj
                               ELSE IF Top.old_values[i] # NoObj THEN Top.old_values[i]
                               ELSE indices[i]
  BY DEF NewIdsErased, OldValuesBack, Has
<1> HIDE DEF kept
<1>5. \A i \in Ids : kept[i] # NoObj => kept[i] = saved[n].indices[i]
  BY <1>2, <1>4 DEF LayerAt
<1>6. \A i \in Ids : Top.removed_values[i] # NoObj =>
         kept[i] = NoObj /\ saved[n].indices[i] = Top.removed_values[i]
  BY <1>2, <1>4 DEF LayerAt
<1>7. ASSUME NEW i \in Ids, Has(Top.removed_values, i)
      PROVE  /\ ~Has(kept, i)
             /\ KeyFree(kept, Top.removed_values[i].key)
             /\ \A j \in Ids \ {i} : Has(Top.removed_values, j) =>
                  Top.removed_values[j].key # Top.removed_values[i].key
  BY <1>1, <1>5, <1>6, <1>7 DEF Sound, Has, KeyFree
<1>8. QED
  BY <1>3, <1>7 DEF UndoNeverThrows, kept

\* undo() always finds what it modifies and erases, and never meets a
\* uniqueness violation when it puts removed objects back.
THEOREM UndoDoesNotThrow == IndexSpec => []UndoNeverThrows
BY InitInv, NextInv, InvUndoNeverThrows, PTL DEF IndexSpec
-----------------------------------------------------------------------------
(* The refinement: every step is a step of the history of full copies.     *)

\* commit drops the oldest snapshots of the stack.
LEMMA CommitRefines ==
    ASSUME IInv, NEW r \in 0..MaxRevision, commit(r)
    PROVE  Snapshots!Commit
<1> DEFINE n == Len(stack)
<1>1. /\ stack \in Seq(UndoState) /\ saved \in Seq(Copy) /\ n \in Nat
      /\ Len(saved) = n /\ revision \in Int /\ r \in Int
      /\ \A i \in 1..n : stack[i].revision = revision - (n - i)
  BY DEF IInv, IndexTypeOK, RevisionsConsecutive
<1>2. PICK d \in 0..n :
        /\ \A i \in 1..d : stack[i].revision <= r
        /\ d < n => stack[d + 1].revision > r
        /\ saved' = SubSeq(saved, d + 1, n)
  BY <1>1, SMTT(60) DEF commit
<1>3. ASSUME NEW i \in 1..n
      PROVE  (i <= d) <=> (revision - n + i <= r)
  <2>1. CASE i <= d
    <3>1. stack[i].revision <= r /\ stack[i].revision = revision - (n - i)
      BY <1>1, <1>2, <2>1
    <3>2. QED
      BY <1>1, <2>1, <3>1
  <2>2. CASE ~(i <= d)
    <3>1. d + 1 \in 1..n /\ d < n /\ d + 1 <= i
      BY <1>1, <2>2
    <3>2. revision - (n - (d + 1)) > r
      BY <1>1, <1>2, <3>1
    <3>3. QED
      BY <1>1, <2>2, <3>1, <3>2
  <2>3. QED
    BY <2>1, <2>2
<1>4. UNCHANGED <<indices, next_id, revision>>
  BY DEF commit
<1>5. QED
  BY <1>1, <1>2, <1>3, <1>4, Zenon DEF Snapshots!Commit

\* Every operation is an operation on the stack of snapshots, or none.
LEMMA NextRefines ==
    ASSUME IInv, [IndexNext]_indexVars
    PROVE  [Snapshots!Next]_Snapshots!vars
<1>1. ASSUME NEW k \in Keys, NEW v \in Values, emplace(k, v) PROVE Snapshots!Write
  BY <1>1 DEF emplace, Snapshots!Write
<1>2. ASSUME NEW i \in Ids, NEW v \in Values, modify(i, v) PROVE Snapshots!Write
  BY <1>2 DEF modify, Snapshots!Write
<1>3. ASSUME NEW i \in Ids, remove(i) PROVE Snapshots!Write
  BY <1>3 DEF remove, Snapshots!Write
<1>4. ASSUME start_undo_session PROVE Snapshots!Start
  BY <1>4 DEF start_undo_session, Snapshots!Start
<1>5. ASSUME undo PROVE Snapshots!Undo
  <2>1. Present' = saved[Len(stack)] /\ Len(saved) = Len(stack) /\ saved \in Seq(Copy)
    BY <1>5, UndoReturns DEF IInv, IndexTypeOK
  <2>2. saved # <<>>
    BY <1>5, <2>1 DEF undo, enabled, IInv, IndexTypeOK
  <2>3. QED
    BY <1>5, <2>1, <2>2 DEF undo, Pop, Present, Snapshots!Undo
<1>6. ASSUME squash PROVE Snapshots!Squash
  <2>1. Len(saved) = Len(stack) /\ saved \in Seq(Copy) /\ stack \in Seq(UndoState)
    BY DEF IInv, IndexTypeOK
  <2>2. saved # <<>>
    BY <1>6, <2>1 DEF squash, enabled
  <2>3. QED
    BY <1>6, <2>1, <2>2 DEF squash, Pop, Snapshots!Squash
<1>7. ASSUME NEW r \in 0..MaxRevision, commit(r) PROVE Snapshots!Commit
  BY <1>7, CommitRefines
<1>8. ASSUME NEW r \in 0..MaxRevision, set_revision(r) PROVE Snapshots!SetRevision
  BY <1>8 DEF set_revision, enabled, Snapshots!SetRevision, IInv, IndexTypeOK
<1>9. ASSUME UNCHANGED indexVars PROVE UNCHANGED Snapshots!vars
  BY <1>9 DEF indexVars, Snapshots!vars
<1>10. IndexNext => Snapshots!Next
  BY <1>1, <1>2, <1>3, <1>4, <1>5, <1>6, <1>7, <1>8 DEF IndexNext, Snapshots!Next
<1>11. QED
  BY <1>9, <1>10

\* The undo history kept as differences implements the history kept as full
\* copies: no caller of generic_index can tell the two apart.
THEOREM Refinement == IndexSpec => ImplementsSnapshots
<1>1. IndexInit => Snapshots!Init
  BY DEF IndexInit, Snapshots!Init
<1>2. QED
  BY <1>1, InitInv, NextInv, NextRefines, PTL
     DEF IndexSpec, ImplementsSnapshots, Snapshots!Spec
-----------------------------------------------------------------------------
(* The slots.                                                              *)

\* What the three results need: times are numbers, no block before the first,
\* and no slot taken after the head block's.
TimesInv ==
    /\ now \in Nat /\ time \in Nat /\ head_block_number \in Nat
    /\ filled \subseteq Nat
    /\ head_block_number = 0 => filled = {}
    /\ \A s \in filled : s <= ClockSlot(time)

\* Rounding down to the start of a slot loses less than an interval.
LEMMA SlotStart ==
    ASSUME NEW t \in Nat
    PROVE  /\ ClockSlot(t) \in Nat
           /\ ClockSlot(t) * 3 <= t /\ t < ClockSlot(t) * 3 + 3
  BY SMT DEF ClockSlot, Interval

\* The next slot starts after the head block.
LEMMA NextSlotIsLater ==
    ASSUME TimesInv
    PROVE  get_slot_time(1) \in Nat /\ get_slot_time(1) > time
  <1>1. ClockSlot(time) \in Nat /\ time < ClockSlot(time) * 3 + 3
    BY SlotStart DEF TimesInv
  <1>. QED
    BY <1>1 DEF TimesInv, get_slot_time, Interval, ClockSlot

\* Slots are an interval apart.
LEMMA SlotTime ==
    ASSUME TimesInv, NEW slot \in Nat \ {0}
    PROVE  get_slot_time(slot) = get_slot_time(1) + (slot - 1) * 3
  <1>1. time \div 3 \in Nat
    BY SlotStart DEF TimesInv, ClockSlot, Interval
  <1>. QED
    BY <1>1 DEF TimesInv, get_slot_time, Interval

\* It holds before the first block.
LEMMA InitTimes ==
    ASSUME Init PROVE TimesInv
  BY TimesAssumption DEF Init, TimesInv

\* A block produced in a slot of the clock after the head block's.
LEMMA ProduceTakesLater ==
    ASSUME TimesInv, NEW n \in Nodes, Produce(n)
    PROVE  /\ time' = now
           /\ head_block_number' = head_block_number + 1
           /\ \A s \in filled : s < ClockSlot(time')
           /\ filled' = filled \cup {ClockSlot(time')}
  <1>1. /\ time' = now /\ head_block_number' = head_block_number + 1
        /\ filled' = filled \cup {ClockSlot(now)}
    BY DEF Produce, ShouldProduce, ApplyBlock, update_global_dynamic_data
  <1>2. get_slot_time(1) <= now
    <2>1. get_slot_at_time(now) # 0
      BY DEF Produce, ShouldProduce
    <2>2. get_slot_time(1) \in Nat
      BY NextSlotIsLater
    <2>. QED
      BY <2>1, <2>2 DEF get_slot_at_time, TimesInv
  <1>3. ASSUME NEW s \in filled PROVE s < ClockSlot(now)
    <2>1. head_block_number # 0 /\ s \in Nat /\ s <= ClockSlot(time)
      BY <1>3 DEF TimesInv
    <2>2. ClockSlot(time) * 3 + 3 <= now
      BY <1>2, <2>1, SlotStart DEF get_slot_time, Interval, TimesInv, ClockSlot
    <2>3. ClockSlot(time) \in Nat /\ ClockSlot(now) \in Nat /\ now < ClockSlot(now) * 3 + 3
      BY SlotStart, ZenonT(60) DEF TimesInv
    <2>. QED
      BY <2>1, <2>2, <2>3 DEF TimesInv
  <1>4. ClockSlot(time') = ClockSlot(now)
    BY <1>1
  <1>. QED
    BY <1>1, <1>3, <1>4

\* It holds after every step.
LEMMA NextTimes ==
    ASSUME TimesInv, [Next]_vars PROVE TimesInv'
  <1>1. CASE Tick
    BY <1>1 DEF TimesInv, Tick, chainVars, ClockSlot
  <1>2. ASSUME NEW n \in Nodes, Produce(n) PROVE TimesInv'
    <2>1. /\ time' = now /\ now' = now
          /\ head_block_number' = head_block_number + 1
          /\ \A s \in filled : s < ClockSlot(time')
          /\ filled' = filled \cup {ClockSlot(time')}
      BY <1>2, ProduceTakesLater, ZenonT(60) DEF Produce
    <2>2. ClockSlot(time') \in Nat
      BY <2>1, SlotStart DEF TimesInv
    <2>3. \A s \in filled' : s \in Nat /\ s <= ClockSlot(time')
      BY <2>1, <2>2 DEF TimesInv
    <2>4. head_block_number' \in Nat /\ head_block_number' # 0
      BY <2>1 DEF TimesInv
    <2>5. ClockSlot(time)' = ClockSlot(time')
      BY DEF ClockSlot
    <2>. QED
      BY <2>1, <2>3, <2>4, <2>5, ZenonT(60) DEF TimesInv
  <1>3. ASSUME NEW n \in Nodes, Decline(n) PROVE TimesInv'
    BY <1>3 DEF TimesInv, Decline, chainVars, ClockSlot
  <1>4. CASE UNCHANGED vars
    BY <1>4 DEF TimesInv, vars, clockVars, chainVars, ClockSlot
  <1>. QED
    BY <1>1, <1>2, <1>3, <1>4 DEF Next

\* So it always holds.
LEMMA TimesHold == Spec => []TimesInv
  BY InitTimes, NextTimes, PTL DEF Spec

\* A time at or before the head block's has no slot: the assertion of
\* maybe_produce_block cannot fail.
THEOREM SlotsAreAfterHead == Spec => []SlotIsAfterHead
  <1>1. ASSUME TimesInv PROVE SlotIsAfterHead
    <2>1. SUFFICES ASSUME NEW t \in TimesAhead, get_slot_at_time(t) > 0
                   PROVE  t > time
      BY DEF SlotIsAfterHead
    <2>2. t \in Int
      BY DEF TimesAhead
    <2>3. get_slot_time(1) \in Nat /\ get_slot_time(1) > time
      BY <1>1, NextSlotIsLater
    <2>4. ~(t < get_slot_time(1))
      BY <2>1 DEF get_slot_at_time
    <2>. QED
      BY <1>1, <2>2, <2>3, <2>4 DEF TimesInv
  <1>. QED
    BY <1>1, TimesHold, PTL

\* get_slot_at_time finds the slot get_slot_time was asked for.
THEOREM SlotsRoundTrip == Spec => []SlotRoundTrip
  <1>1. ASSUME TimesInv PROVE SlotRoundTrip
    <2>1. SUFFICES ASSUME NEW slot \in 1..4
                   PROVE  get_slot_at_time(get_slot_time(slot)) = slot
      BY DEF SlotRoundTrip
    <2>2. get_slot_time(1) \in Nat
      BY <1>1, NextSlotIsLater
    <2>3. get_slot_time(slot) = get_slot_time(1) + (slot - 1) * 3
      BY <1>1, SlotTime
    <2>4. ~(get_slot_time(slot) < get_slot_time(1))
      BY <2>2, <2>3
    <2>5. get_slot_time(slot) - get_slot_time(1) = (slot - 1) * 3
      BY <2>2, <2>3
    <2>6. ((slot - 1) * 3) \div 3 = slot - 1
      OBVIOUS
    <2>. QED
      BY <2>4, <2>5, <2>6 DEF get_slot_at_time, Interval
  <1>. QED
    BY <1>1, TimesHold, PTL

\* Every block produced takes a slot after all slots taken before.
THEOREM ProducedSlotsAreFresh == Spec => FreshSlot
  <1>1. ASSUME TimesInv, [Next]_vars
        PROVE  [head_block_number' # head_block_number =>
                   \A s \in filled : s < ClockSlot(time')]_vars
    <2>1. CASE Tick
      BY <2>1 DEF Tick, chainVars
    <2>2. ASSUME NEW n \in Nodes, Produce(n)
          PROVE  \A s \in filled : s < ClockSlot(time')
      BY <1>1, <2>2, ProduceTakesLater
    <2>3. ASSUME NEW n \in Nodes, Decline(n)
          PROVE  head_block_number' = head_block_number
      BY <2>3 DEF Decline, chainVars
    <2>4. CASE UNCHANGED vars
      BY <2>4
    <2>. QED
      BY <1>1, <2>1, <2>2, <2>3, <2>4 DEF Next
  <1>. QED
    BY <1>1, TimesHold, PTL DEF Spec, FreshSlot
-----------------------------------------------------------------------------
(* Powers of two and the bits of a number.                                 *)

\* g has the powers of two up to n.
PowersTo(g, n) == \A i \in 0..n : g[i] = IF i = 0 THEN 1 ELSE 2 * g[i - 1]

\* There is such a function for every n.
LEMMA PowersExist ==
    ASSUME NEW n \in Nat
    PROVE  \E g : PowersTo(g, n)
  <1>. DEFINE Without == {m \in Nat : ~\E g : PowersTo(g, m)}
  <1>1. SUFFICES ASSUME Without # {} PROVE FALSE
    OBVIOUS
  <1>2. PICK m \in Without : \A k \in Without : m <= k
    BY <1>1, LeastExists, ZenonT(60)
  <1>3. CASE m = 0
    <2>. DEFINE g == [i \in {0} |-> 1]
    <2>1. PowersTo(g, 0)
      BY DEF PowersTo
    <2>. QED
      BY <1>2, <1>3, <2>1
  <1>4. CASE m # 0
    <2>1. m - 1 \in Nat /\ m - 1 \notin Without
      BY <1>2, <1>4
    <2>2. PICK g : PowersTo(g, m - 1)
      BY <2>1
    <2>. DEFINE h == [i \in 0..m |-> IF i = m THEN 2 * g[m - 1] ELSE g[i]]
    <2>3. PowersTo(h, m)
      BY <1>4, <2>1, <2>2 DEF PowersTo
    <2>. QED
      BY <1>2, <2>3
  <1>. QED
    BY <1>3, <1>4

\* Two of them agree where both are defined.
LEMMA PowersAgree ==
    ASSUME NEW n \in Nat, NEW m \in Nat, NEW g, NEW h, PowersTo(g, n), PowersTo(h, m),
           NEW i \in Nat, i <= n, i <= m
    PROVE  g[i] = h[i]
  <1>. DEFINE Bad == {j \in Nat : j <= n /\ j <= m /\ g[j] # h[j]}
  <1>1. SUFFICES ASSUME Bad # {} PROVE FALSE
    OBVIOUS
  <1>2. PICK j \in Bad : \A k \in Bad : j <= k
    BY <1>1, LeastExists, ZenonT(60)
  <1>3. j # 0
    BY <1>2 DEF PowersTo
  <1>4. j - 1 \in Nat /\ j - 1 \notin Bad
    BY <1>2, <1>3
  <1>5. g[j - 1] = h[j - 1]
    BY <1>4
  <1>. QED
    BY <1>2, <1>3, <1>5 DEF PowersTo

\* The recursion that defines Pow2 has a solution, so Pow2 is one.
LEMMA Pow2Is == Pow2 = [n \in Nat |-> IF n = 0 THEN 1 ELSE 2 * Pow2[n - 1]]
  <1>. DEFINE Choice(n) == CHOOSE g : PowersTo(g, n)
              h == [n \in Nat |-> Choice(n)[n]]
  <1>1. ASSUME NEW n \in Nat PROVE PowersTo(Choice(n), n)
    BY PowersExist, Zenon
  <1>2. ASSUME NEW n \in Nat PROVE h[n] = IF n = 0 THEN 1 ELSE 2 * h[n - 1]
    <2>. HIDE DEF Choice
    <2>1. CASE n = 0
      BY <1>1, <2>1 DEF PowersTo
    <2>2. CASE n # 0
      <3>1. PICK k \in Nat : k = n - 1
        BY <2>2
      <3>2. PowersTo(Choice(n), n) /\ PowersTo(Choice(k), k)
        BY <1>1
      <3>3. Choice(n)[k] = Choice(k)[k]
        BY <3>1, <3>2, PowersAgree
      <3>4. Choice(n)[n] = 2 * Choice(n)[k]
        BY <2>2, <3>1, <3>2 DEF PowersTo
      <3>. QED
        BY <2>2, <3>1, <3>3, <3>4
    <2>. QED
      BY <2>1, <2>2
  <1>3. h = [n \in Nat |-> h[n]]
    OBVIOUS
  <1>. HIDE DEF h
  <1>4. h = [n \in Nat |-> IF n = 0 THEN 1 ELSE 2 * h[n - 1]]
    BY <1>2, <1>3, Zenon
  <1>5. \E g : g = [n \in Nat |-> IF n = 0 THEN 1 ELSE 2 * g[n - 1]]
    BY <1>4, Zenon
  <1>. QED
    BY <1>5, Zenon DEF Pow2

\* 1 << n is positive, and twice as much one place up.
LEMMA Pow2Step ==
    /\ Pow2[0] = 1
    /\ \A n \in Nat : Pow2[n] \in Nat \ {0} /\ Pow2[n + 1] = 2 * Pow2[n]
  <1>1. \A n \in Nat : Pow2[n] = IF n = 0 THEN 1 ELSE 2 * Pow2[n - 1]
    <2>. DEFINE R(n) == IF n = 0 THEN 1 ELSE 2 * Pow2[n - 1]
    <2>1. Pow2 = [n \in Nat |-> R(n)]
      BY Pow2Is, Zenon
    <2>. HIDE DEF R
    <2>2. \A n \in Nat : Pow2[n] = R(n)
      BY <2>1, Zenon
    <2>. QED
      BY <2>2, Zenon DEF R
  <1>. DEFINE Bad == {n \in Nat : Pow2[n] \notin Nat \ {0}}
  <1>2. ASSUME Bad # {} PROVE FALSE
    <2>1. PICK n \in Bad : \A k \in Bad : n <= k
      BY <1>2, LeastExists, ZenonT(60)
    <2>2. n # 0
      BY <1>1, <2>1
    <2>3. n - 1 \in Nat /\ n - 1 \notin Bad
      BY <2>1, <2>2
    <2>4. Pow2[n] = 2 * Pow2[n - 1]
      BY <1>1, <2>2
    <2>. QED
      BY <2>1, <2>3, <2>4
  <1>3. \A n \in Nat : Pow2[n] \in Nat \ {0}
    BY <1>2
  <1>4. ASSUME NEW n \in Nat PROVE Pow2[n + 1] = 2 * Pow2[n]
    <2>1. n + 1 \in Nat /\ n + 1 # 0 /\ (n + 1) - 1 = n
      OBVIOUS
    <2>. QED
      BY <1>1, <2>1
  <1>. QED
    BY <1>1, <1>3, <1>4

\* Shifts add up.
LEMMA Pow2Sum ==
    ASSUME NEW n \in Nat, NEW m \in Nat
    PROVE  Pow2[n + m] = Pow2[n] * Pow2[m]
  <1>. DEFINE Bad == {k \in Nat : Pow2[n + k] # Pow2[n] * Pow2[k]}
  <1>1. SUFFICES ASSUME Bad # {} PROVE FALSE
    BY ZenonT(60)
  <1>2. PICK k \in Bad : \A j \in Bad : k <= j
    BY <1>1, LeastExists, ZenonT(60)
  <1>3. k # 0
    <2>1. Pow2[n] \in Nat /\ Pow2[0] = 1
      BY Pow2Step
    <2>. QED
      BY <1>2, <2>1
  <1>4. PICK j \in Nat : j = k - 1
    BY <1>3
  <1>5. Pow2[n + j] = Pow2[n] * Pow2[j]
    BY <1>2, <1>4
  <1>6. k = j + 1 /\ n + k = (n + j) + 1 /\ n + j \in Nat
    BY <1>4
  <1>7. Pow2[k] = 2 * Pow2[j] /\ Pow2[n + k] = 2 * Pow2[n + j]
    BY <1>6, Pow2Step
  <1>8. Pow2[n] \in Nat /\ Pow2[j] \in Nat
    BY Pow2Step
  <1>9. Pow2[n] * (2 * Pow2[j]) = 2 * (Pow2[n] * Pow2[j])
    BY <1>8
  <1>. QED
    BY <1>2, <1>5, <1>7, <1>9

\* Division is what it is: the quotient is the number that fits.
LEMMA DivIs ==
    ASSUME NEW a \in Nat, NEW b \in Nat \ {0}
    PROVE  /\ a \div b \in Nat
           /\ b * (a \div b) <= a /\ a < b * (a \div b) + b
           /\ \A q \in Nat : b * q <= a /\ a < b * q + b => a \div b = q
  OBVIOUS

\* A factor goes in without rest.
LEMMA DivExact ==
    ASSUME NEW a \in Nat, NEW b \in Nat \ {0}
    PROVE  (a * b) \div b = a
  OBVIOUS

\* Dividing twice is dividing by the product.
LEMMA DivTwice ==
    ASSUME NEW a \in Nat, NEW b \in Nat \ {0}, NEW c \in Nat \ {0}
    PROVE  (a \div b) \div c = a \div (b * c)
  <1>1. PICK p \in Nat : p = a \div b
    BY DivIs
  <1>2. PICK q \in Nat : q = p \div c
    BY DivIs
  <1>3. b * p <= a /\ a < b * p + b
    BY <1>1, DivIs
  <1>4. c * q <= p /\ p < c * q + c
    BY <1>2, DivIs
  <1>5. p + 1 <= c * q + c
    BY <1>4
  <1>6. b * (c * q) <= b * p
    BY <1>4
  <1>7. b * (p + 1) <= b * (c * q + c)
    BY <1>5
  <1>8. b * c \in Nat \ {0} /\ (b * c) * q = b * (c * q) /\ b * (p + 1) = b * p + b
        /\ b * (c * q + c) = (b * c) * q + b * c
    OBVIOUS
  <1>9. b * p \in Nat /\ b * (c * q) \in Nat
    OBVIOUS
  <1>10. (b * c) * q <= a /\ a < (b * c) * q + b * c
    BY <1>3, <1>6, <1>7, <1>8, <1>9
  <1>11. a \div (b * c) = q
    BY <1>8, <1>10, DivIs
  <1>. QED
    BY <1>1, <1>2, <1>11

BitAt(x, k) == (x \div Pow2[k]) % 2

\* What is shifted out above a bit does not change it.
LEMMA BitMod ==
    ASSUME NEW x \in Nat, NEW n \in Nat, NEW k \in Nat, k < n
    PROVE  BitAt(x % Pow2[n], k) = BitAt(x, k)
  <1>1. PICK j \in Nat : n = k + (j + 1)
    <2>1. n - k - 1 \in Nat /\ n = k + ((n - k - 1) + 1)
      OBVIOUS
    <2>. QED
      BY <2>1
  <1>2. PICK b \in Nat \ {0} : b = Pow2[k]
    BY Pow2Step
  <1>3. PICK p \in Nat : p = Pow2[j]
    BY Pow2Step
  <1>4. PICK w \in Nat \ {0} : w = Pow2[n]
    BY Pow2Step
  <1>5. w = b * (2 * p)
    BY <1>1, <1>2, <1>3, <1>4, Pow2Sum, Pow2Step
  <1>6. PICK q \in Nat : q = x \div w
    BY DivIs
  <1>7. PICK r \in Nat : r = x % w
    OBVIOUS
  <1>8. x = w * q + r
    BY <1>6, <1>7
  <1>9. PICK d \in Nat : d = r \div b
    BY DivIs
  <1>10. b * d <= r /\ r < b * d + b
    BY <1>9, DivIs
  <1>11. p * q \in Nat /\ 2 * (p * q) + d \in Nat /\ b * (2 * (p * q) + d) \in Nat /\ b * d \in Nat
    OBVIOUS
  <1>12. b * (2 * (p * q) + d) = w * q + b * d
    BY <1>5
  <1>13. b * (2 * (p * q) + d) <= x /\ x < b * (2 * (p * q) + d) + b
    BY <1>8, <1>10, <1>11, <1>12
  <1>14. x \div b = 2 * (p * q) + d
    BY <1>11, <1>13, DivIs
  <1>15. (2 * (p * q) + d) % 2 = d % 2
    BY <1>11
  <1>. QED
    BY <1>2, <1>4, <1>7, <1>9, <1>14, <1>15 DEF BitAt

\* Zeros are shifted in.
LEMMA BitShiftedIn ==
    ASSUME NEW z \in Nat, NEW m \in Nat, NEW k \in Nat, k < m
    PROVE  BitAt(z * Pow2[m], k) = 0
  <1>1. PICK j \in Nat : m = k + (j + 1)
    <2>1. m - k - 1 \in Nat /\ m = k + ((m - k - 1) + 1)
      OBVIOUS
    <2>. QED
      BY <2>1
  <1>2. PICK b \in Nat \ {0} : b = Pow2[k]
    BY Pow2Step
  <1>3. PICK p \in Nat : p = Pow2[j]
    BY Pow2Step
  <1>4. Pow2[m] = b * (2 * p)
    BY <1>1, <1>2, <1>3, Pow2Sum, Pow2Step
  <1>5. z * (b * (2 * p)) = (2 * (z * p)) * b /\ z * p \in Nat /\ 2 * (z * p) \in Nat
    OBVIOUS
  <1>6. ((2 * (z * p)) * b) \div b = 2 * (z * p)
    BY <1>5, DivExact
  <1>7. (2 * (z * p)) % 2 = 0
    BY <1>5
  <1>. QED
    BY <1>2, <1>4, <1>5, <1>6, <1>7 DEF BitAt

\* The other bits move up.
LEMMA BitShifted ==
    ASSUME NEW z \in Nat, NEW m \in Nat, NEW k \in Nat, m <= k
    PROVE  BitAt(z * Pow2[m], k) = BitAt(z, k - m)
  <1>1. PICK j \in Nat : j = k - m
    OBVIOUS
  <1>2. PICK b \in Nat \ {0} : b = Pow2[m]
    BY Pow2Step
  <1>3. PICK p \in Nat \ {0} : p = Pow2[j]
    BY Pow2Step
  <1>4. Pow2[k] = b * p
    <2>1. k = m + j
      BY <1>1
    <2>. QED
      BY <1>2, <1>3, <2>1, Pow2Sum
  <1>5. z * b \in Nat /\ (z * b) \div b = z
    BY DivExact
  <1>6. ((z * b) \div b) \div p = (z * b) \div (b * p)
    BY <1>5, DivTwice
  <1>. QED
    BY <1>1, <1>2, <1>3, <1>4, <1>5, <1>6 DEF BitAt

\* Appending a one.
LEMMA BitPushed ==
    ASSUME NEW x \in Nat
    PROVE  /\ BitAt(x * 2 + 1, 0) = 1
           /\ \A k \in Nat \ {0} : BitAt(x * 2 + 1, k) = BitAt(x, k - 1)
  <1>1. x * 2 + 1 \in Nat /\ (x * 2 + 1) \div 2 = x /\ (x * 2 + 1) % 2 = 1
    OBVIOUS
  <1>2. (x * 2 + 1) \div 1 = x * 2 + 1
    OBVIOUS
  <1>3. BitAt(x * 2 + 1, 0) = 1
    BY <1>1, <1>2, Pow2Step DEF BitAt
  <1>4. ASSUME NEW k \in Nat \ {0} PROVE BitAt(x * 2 + 1, k) = BitAt(x, k - 1)
    <2>1. PICK j \in Nat : j = k - 1
      OBVIOUS
    <2>2. PICK p \in Nat \ {0} : p = Pow2[j]
      BY Pow2Step
    <2>3. Pow2[k] = 2 * p
      <3>1. k = j + 1
        BY <2>1
      <3>. QED
        BY <2>2, <3>1, Pow2Step
    <2>4. ((x * 2 + 1) \div 2) \div p = (x * 2 + 1) \div (2 * p)
      BY <1>1, DivTwice
    <2>. QED
      BY <1>1, <2>1, <2>2, <2>3, <2>4 DEF BitAt
  <1>. QED
    BY <1>3, <1>4

\* The low n bits of x with a one and m zeros appended.
Appended(x, m, n) == ((x * 2 + 1) * Pow2[m]) % Pow2[n]

\* The bits of the shifted bitmap: the parent's block, then what was there, with
\* a zero for every slot missed since.
LEMMA BitsAfterShift ==
    ASSUME NEW x \in Nat, NEW n \in Nat, NEW m \in Nat, NEW k \in Nat, k < n
    PROVE  /\ k < m => BitAt(Appended(x, m, n), k) = 0
           /\ k = m => BitAt(Appended(x, m, n), k) = 1
           /\ k > m => BitAt(Appended(x, m, n), k) = BitAt(x, k - m - 1)
  <1>1. PICK z \in Nat : z = x * 2 + 1
    OBVIOUS
  <1>2. PICK u \in Nat : u = z * Pow2[m]
    BY Pow2Step
  <1>3. BitAt(u % Pow2[n], k) = BitAt(u, k)
    BY BitMod
  <1>4. k < m => BitAt(u, k) = 0
    BY <1>2, BitShiftedIn
  <1>5. k = m => BitAt(u, k) = 1
    <2>1. ASSUME k = m PROVE BitAt(u, k) = BitAt(z, 0)
      BY <1>2, <2>1, BitShifted
    <2>. QED
      BY <1>1, <2>1, BitPushed, ZenonT(60)
  <1>6. k > m => BitAt(u, k) = BitAt(x, k - m - 1)
    <2>1. ASSUME k > m PROVE BitAt(u, k) = BitAt(z, k - m) /\ k - m \in Nat \ {0}
      BY <1>2, <2>1, BitShifted
    <2>. QED
      BY <1>1, <2>1, BitPushed
  <1>7. Appended(x, m, n) = u % Pow2[n]
    BY <1>1, <1>2 DEF Appended
  <1>. QED
    BY <1>3, <1>4, <1>5, <1>6, <1>7

-----------------------------------------------------------------------------
(* The absolute slot and the bitmap.                                       *)

\* What the two need: the clock within its bound, no slot counted before the
\* first block, and the head block among the blocks the clock saw.
HistoryInv ==
    /\ TimesInv
    /\ now <= MaxTime
    /\ recent_slots_filled \in Nat /\ current_absolute_slot \in Nat
    /\ head_block_number = 0 <=> filled = {}
    /\ filled = {} => current_absolute_slot = 0
    /\ filled # {} => ClockSlot(time) \in filled
    /\ AbsoluteSlotFollowsClock
    /\ BitmapIsHistory

\* Min is the least element.
LEMMA MinIs ==
    ASSUME NEW T, T \subseteq Nat, NEW x \in T, \A y \in T : x <= y
    PROVE  Min(T) = x
  <1>1. Min(T) \in T /\ \A y \in T : Min(T) <= y
    BY Zenon DEF Min
  <1>2. PICK z : z = Min(T)
    OBVIOUS
  <1>3. z \in T /\ \A y \in T : z <= y
    BY <1>1, <1>2
  <1>4. z <= x /\ x <= z /\ x \in Nat /\ z \in Nat
    BY <1>3
  <1>. QED
    BY <1>2, <1>4

\* The first slot with a block is one, and none is before it.
LEMMA FirstSlotIs ==
    ASSUME TimesInv, filled # {}
    PROVE  FirstSlot \in filled /\ FirstSlot \in Nat /\ \A s \in filled : FirstSlot <= s
  <1>1. PICK x \in filled : \A y \in filled : x <= y
    BY LeastExists, ZenonT(60) DEF TimesInv
  <1>2. FirstSlot = x
    BY <1>1, MinIs, ZenonT(60) DEF FirstSlot, TimesInv
  <1>. QED
    BY <1>1, <1>2 DEF TimesInv

\* What a produced block records: how many slots it is after its parent's, and
\* that many less one as missed.
LEMMA ProduceCounts ==
    ASSUME HistoryInv, NEW n \in Nodes, Produce(n)
    PROVE  /\ head_block_number = 0 =>
                  missed_blocks(now) = 0 /\ current_absolute_slot' = current_absolute_slot + 1
           /\ head_block_number # 0 =>
                  \E slot \in Nat \ {0} :
                      /\ ClockSlot(now) = ClockSlot(time) + slot
                      /\ missed_blocks(now) = slot - 1
                      /\ current_absolute_slot' = current_absolute_slot + slot
           /\ recent_slots_filled' = ShiftedBitmap(missed_blocks(now))
           /\ missed_blocks(now) \in Nat
  <1>1. PICK slot : slot = get_slot_at_time(now)
    OBVIOUS
  <1>2. slot # 0 /\ get_slot_time(slot) = now
    BY <1>1 DEF Produce, ShouldProduce
  <1>3. get_slot_time(1) \in Nat /\ get_slot_time(1) > time
    BY NextSlotIsLater DEF HistoryInv
  <1>4. ~(now < get_slot_time(1)) /\ slot = (now - get_slot_time(1)) \div 3 + 1
    BY <1>1, <1>2 DEF get_slot_at_time, Interval
  <1>5. now \in Nat /\ time \in Nat /\ now <= MaxTime /\ head_block_number \in Nat
    BY DEF HistoryInv, TimesInv
  <1>6. slot \in Nat \ {0}
    BY <1>3, <1>4, <1>5
  <1>7. now = get_slot_time(1) + (slot - 1) * 3
    BY <1>2, <1>6, SlotTime DEF HistoryInv
  <1>8. slot < Word /\ Word \in Nat
    <2>1. get_slot_time(1) >= 3
      <3>1. ClockSlot(time) \in Nat
        BY <1>5, SlotStart, ZenonT(60)
      <3>. QED
        BY <1>5, <3>1 DEF get_slot_time, Interval, ClockSlot
    <2>2. slot * 3 <= now
      BY <1>3, <1>5, <1>6, <1>7, <2>1
    <2>3. now < 3 * Word /\ Word \in Nat
      BY <1>5, TimesAssumption DEF Interval
    <2>. QED
      BY <1>5, <1>6, <2>2, <2>3
  <1>9. missed_blocks(now) = (IF head_block_number = 0 THEN 0 ELSE slot - 1)
    <2>1. (slot - 1) % Word = slot - 1 /\ 0 % Word = 0
      BY <1>6, <1>8
    <2>. QED
      BY <1>1, <2>1 DEF missed_blocks
  <1>10. /\ current_absolute_slot' = current_absolute_slot + ((missed_blocks(now) + 1) % Word)
         /\ recent_slots_filled' = ShiftedBitmap(missed_blocks(now))
    BY <1>1, <1>2 DEF Produce, ApplyBlock, update_global_dynamic_data
  <1>11. slot % Word = slot /\ 1 % Word = 1
    BY <1>6, <1>8
  <1>12. ASSUME head_block_number # 0 PROVE ClockSlot(now) = ClockSlot(time) + slot
    <2>1. PICK c \in Nat : c = ClockSlot(time)
      BY <1>5, SlotStart
    <2>2. get_slot_time(1) = c * 3 + 3
      BY <1>12, <2>1 DEF get_slot_time, Interval, ClockSlot
    <2>3. now = (c + slot) * 3
      BY <1>6, <1>7, <2>2
    <2>4. ((c + slot) * 3) \div 3 = c + slot
      BY <1>6, DivExact
    <2>. QED
      BY <2>1, <2>3, <2>4 DEF ClockSlot, Interval
  <1>13. (slot - 1) + 1 = slot /\ slot - 1 \in Nat
    BY <1>6
  <1>14. CASE head_block_number = 0
    BY <1>9, <1>10, <1>11, <1>14
  <1>15. CASE head_block_number # 0
    BY <1>6, <1>9, <1>10, <1>11, <1>12, <1>13, <1>15
  <1>. QED
    BY <1>14, <1>15

\* The bits after a block in the slot-th slot after the head block's.
LEMMA BitmapShifts ==
    ASSUME HistoryInv, NEW n \in Nodes, Produce(n), filled # {}
    PROVE  BitmapIsHistory'
  <1>1. PICK slot \in Nat \ {0} :
            /\ ClockSlot(now) = ClockSlot(time) + slot
            /\ missed_blocks(now) = slot - 1
    BY ProduceCounts DEF HistoryInv
  <1>2. recent_slots_filled' = ShiftedBitmap(slot - 1)
    BY <1>1, ProduceCounts
  <1>3. time' = now /\ filled' = filled \cup {ClockSlot(now)}
    BY ProduceTakesLater DEF HistoryInv
  <1>4. PICK c \in Nat : c = ClockSlot(time)
    BY SlotStart DEF HistoryInv, TimesInv
  <1>5. ClockSlot(time)' = c + slot /\ filled' = filled \cup {c + slot}
    BY <1>1, <1>3, <1>4 DEF ClockSlot
  <1>6. PICK first : first = FirstSlot
    OBVIOUS
  <1>7. first \in filled /\ first \in Nat /\ \A s \in filled : first <= s
    BY <1>6, FirstSlotIs DEF HistoryInv
  <1>8. c \in filled /\ filled \subseteq Nat /\ \A s \in filled : s <= c
    BY <1>4 DEF HistoryInv, TimesInv
  <1>9. FirstSlot' = first
    <2>1. filled' \subseteq Nat /\ first \in filled' /\ \A y \in filled' : first <= y
      BY <1>5, <1>7, <1>8
    <2>2. Min(filled') = first
      BY <2>1, MinIs, ZenonT(60)
    <2>. QED
      BY <2>2 DEF FirstSlot
  <1>10. SUFFICES ASSUME NEW k \in 0..(Bits - 1), (c + slot) - 1 - k >= first
                  PROVE  Bit(k)' = 1 <=> (c + slot) - 1 - k \in filled'
    BY <1>5, <1>9 DEF BitmapIsHistory
  <1>11. PICK m \in Nat : m = slot - 1
    BY <1>1
  <1>12. Bits \in Nat /\ k \in Nat /\ k < Bits
    BY TimesAssumption
  <1>13. Bit(k)' = BitAt(recent_slots_filled', k)
    BY DEF Bit, BitAt
  <1>14. (c + slot) - 1 - k = c + m - k /\ c + m - k < c + slot /\ c + m - k \in Int
    BY <1>11, <1>12
  <1>15. c + m - k \in filled' <=> c + m - k \in filled
    BY <1>5, <1>14
  <1>16. k < m => c + m - k \notin filled
    BY <1>8, <1>12
  <1>17. recent_slots_filled \in Nat
    BY DEF HistoryInv
  <1>18. CASE m < Bits
    <2>1. recent_slots_filled' = ((recent_slots_filled * 2 + 1) * Pow2[m]) % Pow2[Bits]
      BY <1>2, <1>11, <1>18 DEF ShiftedBitmap
    <2>2. /\ k < m => Bit(k)' = 0
          /\ k = m => Bit(k)' = 1
          /\ k > m => Bit(k)' = BitAt(recent_slots_filled, k - m - 1)
      <3>1. recent_slots_filled' = Appended(recent_slots_filled, m, Bits)
        BY <2>1 DEF Appended
      <3>2. k < m => BitAt(Appended(recent_slots_filled, m, Bits), k) = 0
        BY <1>12, <1>17, BitsAfterShift
      <3>3. k = m => BitAt(Appended(recent_slots_filled, m, Bits), k) = 1
        BY <1>12, <1>17, BitsAfterShift
      <3>4. k > m => BitAt(Appended(recent_slots_filled, m, Bits), k)
                         = BitAt(recent_slots_filled, k - m - 1)
        BY <1>12, <1>17, BitsAfterShift
      <3>. QED
        BY <1>13, <3>1, <3>2, <3>3, <3>4
    <2>3. CASE k < m
      BY <1>14, <1>15, <1>16, <2>2, <2>3
    <2>4. CASE k = m
      BY <1>8, <1>14, <1>15, <2>2, <2>4
    <2>5. CASE k > m
      <3>1. PICK j \in 0..(Bits - 1) : j = k - m - 1
        BY <1>12, <2>5
      <3>2. c - 1 - j = c + m - k
        BY <1>12, <3>1
      <3>3. Bit(j) = 1 <=> c - 1 - j \in filled
        BY <1>4, <1>6, <1>10, <1>14, <3>2 DEF HistoryInv, BitmapIsHistory
      <3>4. Bit(k)' = Bit(j)
        BY <2>2, <2>5, <3>1 DEF Bit, BitAt
      <3>. QED
        BY <1>14, <1>15, <3>2, <3>3, <3>4
    <2>. QED
      BY <1>12, <2>3, <2>4, <2>5
  <1>19. CASE ~(m < Bits)
    <2>1. recent_slots_filled' = 0
      BY <1>2, <1>11, <1>19 DEF ShiftedBitmap
    <2>2. k < m
      BY <1>12, <1>19
    <2>3. PICK b \in Nat \ {0} : b = Pow2[k]
      BY <1>12, Pow2Step
    <2>4. (0 \div b) % 2 = 0
      OBVIOUS
    <2>5. Bit(k)' = 0
      BY <1>13, <2>1, <2>3, <2>4 DEF BitAt
    <2>. QED
      BY <1>14, <1>15, <1>16, <2>2, <2>5
  <1>. QED
    BY <1>18, <1>19

\* It holds before the first block, when the bitmap has all its bits set.
LEMMA InitHistory ==
    ASSUME Init PROVE HistoryInv
  <1>1. TimesInv
    BY InitTimes
  <1>2. now <= MaxTime /\ head_block_number = 0 /\ filled = {} /\ current_absolute_slot = 0
    BY TimesAssumption DEF Init
  <1>3. recent_slots_filled \in Nat
    <2>1. Pow2[Bits] \in Nat \ {0}
      BY TimesAssumption, Pow2Step
    <2>. QED
      BY <2>1 DEF Init
  <1>4. AbsoluteSlotFollowsClock /\ BitmapIsHistory
    BY <1>2, Zenon DEF AbsoluteSlotFollowsClock, BitmapIsHistory
  <1>. QED
    BY <1>1, <1>2, <1>3, <1>4 DEF HistoryInv

\* The bitmap that a block leaves is a number.
LEMMA ShiftedBitmapType ==
    ASSUME NEW m \in Nat, recent_slots_filled \in Nat
    PROVE  ShiftedBitmap(m) \in 0..(Pow2[Bits] - 1)
  <1>1. Pow2[Bits] \in Nat \ {0} /\ Pow2[m] \in Nat
    BY TimesAssumption, Pow2Step
  <1>2. (recent_slots_filled * 2 + 1) * Pow2[m] \in Nat
    BY <1>1
  <1>3. ((recent_slots_filled * 2 + 1) * Pow2[m]) % Pow2[Bits] \in 0..(Pow2[Bits] - 1)
    BY <1>1, <1>2
  <1>. QED
    BY <1>1, <1>3 DEF ShiftedBitmap

\* A produced block keeps it: into an empty history, or after the head block.
LEMMA ProduceHistory ==
    ASSUME HistoryInv, NEW n \in Nodes, Produce(n)
    PROVE  HistoryInv'
  <1>1. TimesInv'
    BY NextTimes DEF Next, HistoryInv
  <1>2. now' <= MaxTime
    BY DEF HistoryInv, Produce
  <1>3. /\ time' = now /\ head_block_number' = head_block_number + 1
        /\ filled' = filled \cup {ClockSlot(now)}
    BY ProduceTakesLater DEF HistoryInv
  <1>4. ClockSlot(time)' = ClockSlot(now) /\ ClockSlot(now) \in Nat
    BY <1>3, SlotStart DEF ClockSlot, HistoryInv, TimesInv
  <1>5. filled' # {} /\ head_block_number' # 0 /\ ClockSlot(time)' \in filled'
    BY <1>3, <1>4 DEF HistoryInv, TimesInv
  <1>6. recent_slots_filled' \in Nat
    <2>1. Pow2[Bits] \in Nat \ {0}
      BY TimesAssumption, Pow2Step
    <2>2. recent_slots_filled' \in 0..(Pow2[Bits] - 1)
      BY ProduceCounts, ShiftedBitmapType DEF HistoryInv
    <2>. QED
      BY <2>1, <2>2
  <1>7. CASE filled = {}
    <2>1. current_absolute_slot' = 1
      BY <1>7, ProduceCounts DEF HistoryInv
    <2>2. FirstSlot' = ClockSlot(now)
      <3>1. Min(filled') = ClockSlot(now)
        BY <1>3, <1>4, <1>7, MinIs
      <3>. QED
        BY <3>1 DEF FirstSlot
    <2>3. AbsoluteSlotFollowsClock'
      BY <1>4, <2>1, <2>2 DEF AbsoluteSlotFollowsClock
    <2>4. \A k \in 0..(Bits - 1) : ~(ClockSlot(now) - 1 - k >= ClockSlot(now))
      BY <1>4, TimesAssumption
    <2>5. BitmapIsHistory'
      BY <1>4, <2>2, <2>4 DEF BitmapIsHistory
    <2>. QED
      BY <1>1, <1>2, <1>5, <1>6, <2>1, <2>3, <2>5 DEF HistoryInv
  <1>8. CASE filled # {}
    <2>1. BitmapIsHistory'
      BY <1>8, BitmapShifts
    <2>2. PICK slot \in Nat \ {0} :
              /\ ClockSlot(now) = ClockSlot(time) + slot
              /\ current_absolute_slot' = current_absolute_slot + slot
      BY <1>8, ProduceCounts DEF HistoryInv
    <2>3. current_absolute_slot = 1 + ClockSlot(time) - FirstSlot
          /\ current_absolute_slot \in Nat
      BY <1>8 DEF HistoryInv, AbsoluteSlotFollowsClock
    <2>4. FirstSlot \in filled /\ FirstSlot \in Nat /\ \A s \in filled : FirstSlot <= s
      BY <1>8, FirstSlotIs DEF HistoryInv
    <2>5. FirstSlot' = FirstSlot
      <3>1. PICK first : first = FirstSlot
        OBVIOUS
      <3>2. \A s \in filled : s < ClockSlot(now)
        BY <1>3, ProduceTakesLater DEF HistoryInv
      <3>3. filled' \subseteq Nat /\ first \in filled' /\ \A y \in filled' : first <= y
        <4>1. filled' \subseteq Nat
          BY <1>1 DEF TimesInv
        <4>2. first \in filled /\ first \in Nat /\ \A y \in filled : first <= y
          BY <2>4, <3>1
        <4>3. first <= ClockSlot(now)
          BY <1>4, <3>2, <4>2
        <4>. QED
          BY <1>3, <4>1, <4>2, <4>3
      <3>4. Min(filled') = first
        BY <3>3, MinIs, ZenonT(60)
      <3>. QED
        BY <3>1, <3>4 DEF FirstSlot
    <2>6. ClockSlot(time) \in Nat
      BY SlotStart, ZenonT(60) DEF HistoryInv, TimesInv
    <2>7. AbsoluteSlotFollowsClock'
      BY <1>4, <2>2, <2>3, <2>4, <2>5, <2>6 DEF AbsoluteSlotFollowsClock
    <2>8. current_absolute_slot' \in Nat
      BY <2>2, <2>3
    <2>. QED
      BY <1>1, <1>2, <1>5, <1>6, <2>1, <2>7, <2>8 DEF HistoryInv
  <1>. QED
    BY <1>7, <1>8

\* So does every step.
LEMMA NextHistory ==
    ASSUME HistoryInv, [Next]_vars PROVE HistoryInv'
  <1>1. TimesInv'
    BY NextTimes DEF HistoryInv
  <1>2. ASSUME UNCHANGED chainVars, now' <= MaxTime PROVE HistoryInv'
    <2>1. AbsoluteSlotFollowsClock' /\ BitmapIsHistory'
      BY <1>2 DEF HistoryInv, chainVars, AbsoluteSlotFollowsClock, BitmapIsHistory, Bit,
                  FirstSlot, ClockSlot
    <2>. QED
      BY <1>1, <1>2, <2>1 DEF HistoryInv, chainVars, ClockSlot
  <1>3. CASE Tick
    <2>1. now' <= MaxTime
      BY <1>3, TimesAssumption DEF Tick, HistoryInv, TimesInv
    <2>. QED
      BY <1>2, <1>3, <2>1 DEF Tick
  <1>4. ASSUME NEW n \in Nodes, Produce(n) PROVE HistoryInv'
    BY <1>4, ProduceHistory
  <1>5. ASSUME NEW n \in Nodes, Decline(n) PROVE HistoryInv'
    BY <1>2, <1>5 DEF Decline, HistoryInv
  <1>6. CASE UNCHANGED vars
    BY <1>2, <1>6 DEF vars, clockVars, HistoryInv
  <1>. QED
    BY <1>3, <1>4, <1>5, <1>6 DEF Next

\* So it always holds.
LEMMA HistoryHolds == Spec => []HistoryInv
  BY InitHistory, NextHistory, PTL DEF Spec

\* recent_slots_filled says, of each of the last Bits slots since the first
\* block, whether the clock saw a block in it: update_global_dynamic_data shifts
\* in the parent's block and a zero per missed slot, for every width and gap.
THEOREM BitmapIsAlwaysHistory == Spec => []BitmapIsHistory
  <1>1. HistoryInv => BitmapIsHistory
    BY DEF HistoryInv
  <1>. QED
    BY <1>1, HistoryHolds, PTL

\* current_absolute_slot counts the slots of the clock since the first block.
THEOREM AbsoluteSlotAlwaysFollowsClock == Spec => []AbsoluteSlotFollowsClock
  <1>1. HistoryInv => AbsoluteSlotFollowsClock
    BY DEF HistoryInv
  <1>. QED
    BY <1>1, HistoryHolds, PTL

-----------------------------------------------------------------------------
(* The slots charged to producers.                                         *)

\* The slots among the next m in which n is on turn, with p[i] on turn in slot
\* i + 1, and what the producers other than c are charged with after them.
Turns(p, n, m) == {i \in 0..(m - 1) : p[i] = n}
Charged(f, p, c, S, m) ==
    [n \in S |-> f[n] + IF n = c THEN 0 ELSE Cardinality(Turns(p, n, m))]

\* One more slot is a turn of the producer on turn in it and of nobody else.
LEMMA TurnsStep ==
    ASSUME NEW p, NEW n, NEW m \in Nat
    PROVE  /\ Turns(p, n, 0) = {}
           /\ Turns(p, n, m + 1) = IF p[m] = n THEN Turns(p, n, m) \cup {m} ELSE Turns(p, n, m)
           /\ m \notin Turns(p, n, m)
  BY SMT DEF Turns

\* The turns can be counted.
LEMMA TurnsCounted ==
    ASSUME NEW p, NEW n, NEW m \in Nat
    PROVE  IsFiniteSet(Turns(p, n, m)) /\ Cardinality(Turns(p, n, m)) \in Nat
  <1>1. IsFiniteSet(0..(m - 1)) /\ Turns(p, n, m) \subseteq 0..(m - 1)
    BY FS_Interval, SMT DEF Turns
  <1>. QED
    BY <1>1, FS_Subset, FS_CardinalityType

\* One more slot charges one producer at most, and that with one.
LEMMA ChargedStep ==
    ASSUME NEW S, IsFiniteSet(S), NEW f \in [S -> Nat], NEW p \in [Nat -> S], NEW c \in S,
           NEW m \in Nat
    PROVE  Total(Charged(f, p, c, S, m + 1)) <= Total(Charged(f, p, c, S, m)) + 1
  <1>1. PICK x \in S : x = p[m]
    OBVIOUS
  <1>2. PICK before : before = Charged(f, p, c, S, m)
    OBVIOUS
  <1>3. PICK after : after = Charged(f, p, c, S, m + 1)
    OBVIOUS
  <1>4. m + 1 \in Nat
    BY SMT
  <1>5. before \in [S -> Nat] /\ after \in [S -> Nat]
    <2>1. \A n \in S : /\ Cardinality(Turns(p, n, m)) \in Nat
                       /\ Cardinality(Turns(p, n, m + 1)) \in Nat
      BY <1>4, TurnsCounted
    <2>. QED
      BY <1>2, <1>3, <2>1, SMT DEF Charged
  <1>6. \A a \in S : a # x => before[a] = after[a]
    <2>1. ASSUME NEW a \in S, a # x PROVE Turns(p, a, m + 1) = Turns(p, a, m)
      <3>1. Turns(p, a, m + 1) =
                IF p[m] = a THEN Turns(p, a, m) \cup {m} ELSE Turns(p, a, m)
        BY TurnsStep, ZenonT(60)
      <3>. QED
        BY <1>1, <2>1, <3>1, ZenonT(60)
    <2>. QED
      BY <1>2, <1>3, <2>1 DEF Charged
  <1>7. after[x] <= before[x] + 1
    <2>1. Cardinality(Turns(p, x, m + 1)) = Cardinality(Turns(p, x, m)) + 1
      <3>1. /\ Turns(p, x, m + 1) = Turns(p, x, m) \cup {m} /\ m \notin Turns(p, x, m)
        BY <1>1, TurnsStep, ZenonT(60)
      <3>2. IsFiniteSet(Turns(p, x, m))
        BY TurnsCounted
      <3>. QED
        BY <3>1, <3>2, FS_AddElement
    <2>2. Cardinality(Turns(p, x, m)) \in Nat
      BY TurnsCounted
    <2>. QED
      BY <1>2, <1>3, <2>1, <2>2, SMT DEF Charged
  <1>8. /\ Total(before) \in Int
        /\ Total(after) = Total(before) - before[x] + after[x]
    <2>1. before \in [S -> Int] /\ after \in [S -> Int]
      BY <1>5, SMT
    <2>. QED
      BY <1>6, <2>1, SumPoint
  <1>9. before[x] \in Nat /\ after[x] \in Nat
    BY <1>5
  <1>10. Total(after) <= Total(before) + 1
    BY <1>7, <1>8, <1>9, SMT
  <1>. QED
    BY <1>2, <1>3, <1>10

\* m slots charge m at most in all.
LEMMA ChargedBounded ==
    ASSUME NEW S, IsFiniteSet(S), NEW f \in [S -> Nat], NEW p \in [Nat -> S], NEW c \in S
    PROVE  \A m \in Nat : /\ Total(Charged(f, p, c, S, m)) \in Nat
                          /\ Total(Charged(f, p, c, S, m)) <= Total(f) + m
  <1>. DEFINE sum(m) == Total(Charged(f, p, c, S, m))
              Bad == {m \in Nat : ~(sum(m) <= Total(f) + m)}
  <1>1. \A m \in Nat : sum(m) \in Nat
    <2>1. SUFFICES ASSUME NEW m \in Nat PROVE sum(m) \in Nat
      OBVIOUS
    <2>2. \A n \in S : Cardinality(Turns(p, n, m)) \in Nat
      BY TurnsCounted
    <2>3. Charged(f, p, c, S, m) \in [S -> Nat]
      BY <2>2, SMT DEF Charged
    <2>. QED
      BY <2>3, SumNat
  <1>2. sum(0) = Total(f)
    <2>1. \A n \in S : Cardinality(Turns(p, n, 0)) = 0
      BY TurnsStep, FS_EmptySet, ZenonT(60)
    <2>2. Charged(f, p, c, S, 0) = f
      BY <2>1, SMT DEF Charged
    <2>. QED
      BY <2>2
  <1>3. Total(f) \in Nat
    BY SumNat
  <1>4. \A m \in Nat : sum(m + 1) <= sum(m) + 1
    BY ChargedStep
  <1>5. Bad = {}
    <2>. HIDE DEF sum
    <2>1. SUFFICES ASSUME Bad # {} PROVE FALSE
      OBVIOUS
    <2>2. PICK least \in Bad : \A y \in Bad : least <= y
      BY <2>1, LeastExists, ZenonT(60)
    <2>3. least # 0
      BY <1>2, <1>3, <2>2, SMT
    <2>4. least - 1 \in Nat /\ (least - 1) + 1 = least
      BY <2>2, <2>3, SMT
    <2>5. least - 1 \notin Bad
      BY <2>2, <2>4, SMT
    <2>6. sum(least - 1) <= Total(f) + (least - 1)
      BY <2>4, <2>5
    <2>7. sum(least) <= sum(least - 1) + 1
      BY <1>4, <2>4
    <2>8. sum(least) \in Nat /\ sum(least - 1) \in Nat
      BY <1>1, <2>2, <2>4
    <2>. QED
      BY <1>3, <2>2, <2>4, <2>6, <2>7, <2>8, SMT
  <1>. QED
    BY <1>1, <1>5

\* What the bound on the charged slots needs.
MissedInv ==
    /\ HistoryInv
    /\ total_missed \in [Nodes -> Nat]
    /\ MissedAreEmptySlots

\* Nothing is charged before the first block.
LEMMA InitMissed == ASSUME Init PROVE MissedInv
  <1>1. HistoryInv
    BY InitHistory
  <1>2. total_missed \in [Nodes -> Nat] /\ \A n \in Nodes : total_missed[n] = 0
    BY SMT DEF Init
  <1>3. Total(total_missed) = 0
    BY <1>2, NodesAssumption, SumNat
  <1>4. current_absolute_slot = 0 /\ head_block_number = 0
    BY DEF Init
  <1>5. MissedAreEmptySlots
    BY <1>3, <1>4, SMT DEF MissedAreEmptySlots
  <1>. QED
    BY <1>1, <1>2, <1>5 DEF MissedInv

\* A block charges at most the slots it counts as missed.
LEMMA ProduceMissed ==
    ASSUME MissedInv, NEW n \in Nodes, Produce(n)
    PROVE  total_missed' \in [Nodes -> Nat] /\ MissedAreEmptySlots'
  <1>. DEFINE p == [i \in Nat |-> get_scheduled_producer(i + 1)]
  <1>1. HistoryInv /\ total_missed \in [Nodes -> Nat]
    BY DEF MissedInv
  <1>2. current_absolute_slot \in Nat /\ head_block_number \in Nat
    BY <1>1 DEF HistoryInv, TimesInv
  <1>3. PICK m \in Nat : m = missed_blocks(now)
    BY <1>1, ProduceCounts
  <1>4. current_absolute_slot' = current_absolute_slot + m + 1
    <2>1. CASE head_block_number = 0
      BY <1>1, <1>2, <1>3, <2>1, ProduceCounts, SMT
    <2>2. CASE head_block_number # 0
      <3>1. PICK slot \in Nat \ {0} : /\ m = slot - 1
                                      /\ current_absolute_slot' = current_absolute_slot + slot
        BY <1>1, <1>3, <2>2, ProduceCounts
      <3>. QED
        BY <1>2, <3>1, SMT
    <2>. QED
      BY <2>1, <2>2
  <1>5. head_block_number' = head_block_number + 1
    BY <1>1, ProduceTakesLater DEF HistoryInv
  <1>6. \A slot \in Nat : get_scheduled_producer(slot) \in Nodes
    <2>1. \A len \in Nat \ {0}, z \in Nat : (z % len) + 1 \in 1..len
      BY SMT
    <2>2. Len(Round) \in Nat \ {0} /\ \A i \in 1..Len(Round) : Round[i] \in Nodes
      BY NodesAssumption, SMT
    <2>3. \A slot \in Nat : current_absolute_slot + slot \in Nat
      BY <1>2, SMT
    <2>. QED
      BY <2>1, <2>2, <2>3, ZenonT(60) DEF get_scheduled_producer
  <1>7. p \in [Nat -> Nodes]
    <2>1. \A i \in Nat : i + 1 \in Nat
      BY SMT
    <2>. QED
      BY <1>6, <2>1
  <1>8. PICK c : c = get_scheduled_producer(get_slot_at_time(now))
    OBVIOUS
  <1>9. c \in Nodes /\ total_missed' = [a \in Nodes |->
            total_missed[a] + IF a = c THEN 0 ELSE MissedBy(now, a)]
    BY <1>8, Zenon
    DEF Produce, ShouldProduce, ApplyBlock, update_global_dynamic_data
  <1>10. \A a \in Nodes : MissedBy(now, a) = Cardinality(Turns(p, a, m))
    <2>1. \A i \in 0..(m - 1) : i \in Nat
      BY SMT
    <2>2. \A a \in Nodes : {i \in 0..(m - 1) : get_scheduled_producer(i + 1) = a} = Turns(p, a, m)
      BY <2>1, SMT DEF Turns
    <2>. QED
      BY <1>3, <2>2, ZenonT(60) DEF MissedBy
  <1>11. total_missed' = Charged(total_missed, p, c, Nodes, m)
    <2>. HIDE DEF p
    <2>. QED
      BY <1>9, <1>10 DEF Charged
  <1>12. total_missed' \in [Nodes -> Nat]
    <2>. HIDE DEF p
    <2>1. \A a \in Nodes : Cardinality(Turns(p, a, m)) \in Nat
      BY TurnsCounted
    <2>. QED
      BY <1>1, <1>11, <2>1, SMT DEF Charged
  <1>13. Total(total_missed') <= Total(total_missed) + m /\ Total(total_missed') \in Nat
    <2>. HIDE DEF p
    <2>. QED
      BY <1>1, <1>7, <1>9, <1>11, NodesAssumption, ChargedBounded, ZenonT(60)
  <1>14. Total(total_missed) \in Nat
    BY <1>1, NodesAssumption, SumNat
  <1>15. Total(total_missed) <= current_absolute_slot - head_block_number
    BY DEF MissedInv, MissedAreEmptySlots
  <1>16. Total(total_missed') <= current_absolute_slot' - head_block_number'
    BY <1>2, <1>4, <1>5, <1>13, <1>14, <1>15, SMT
  <1>. QED
    BY <1>12, <1>16 DEF MissedAreEmptySlots

\* So does every step.
LEMMA NextMissed == ASSUME MissedInv, [Next]_vars PROVE MissedInv'
  <1>1. HistoryInv'
    BY NextHistory DEF MissedInv
  <1>2. ASSUME UNCHANGED chainVars PROVE total_missed' \in [Nodes -> Nat] /\ MissedAreEmptySlots'
    BY <1>2 DEF MissedInv, chainVars, MissedAreEmptySlots
  <1>3. ASSUME NEW n \in Nodes, Produce(n)
        PROVE  total_missed' \in [Nodes -> Nat] /\ MissedAreEmptySlots'
    BY <1>3, ProduceMissed
  <1>4. ASSUME Tick PROVE UNCHANGED chainVars
    BY <1>4 DEF Tick
  <1>5. ASSUME NEW n \in Nodes, Decline(n) PROVE UNCHANGED chainVars
    BY <1>5 DEF Decline
  <1>6. ASSUME UNCHANGED vars PROVE UNCHANGED chainVars
    BY <1>6 DEF vars
  <1>7. total_missed' \in [Nodes -> Nat] /\ MissedAreEmptySlots'
    BY <1>2, <1>3, <1>4, <1>5, <1>6 DEF Next
  <1>. QED
    BY <1>1, <1>7 DEF MissedInv

\* Producers are charged with no more slots than passed without a block since the
\* first one: update_global_dynamic_data charges each missed slot to the producer
\* on turn in it, and never twice, whatever the schedule.
THEOREM ChargedSlotsWereEmpty == Spec => []MissedAreEmptySlots
  <1>1. Init => MissedInv
    BY InitMissed
  <1>2. MissedInv /\ [Next]_vars => MissedInv'
    BY NextMissed
  <1>3. MissedInv => MissedAreEmptySlots
    BY DEF MissedInv
  <1>. QED
    BY <1>1, <1>2, <1>3, PTL DEF Spec
=============================================================================
