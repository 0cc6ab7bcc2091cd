------------------------------- MODULE Slots -------------------------------
(***************************************************************************)
(* Slot arithmetic of chain_controller and the decision to produce in      *)
(* producer_plugin: when the next slots are, who is on turn, what a block  *)
(* records about the slots since its parent.  Times are whole seconds.     *)
(*                                                                         *)
(* All nodes are on one chain here; ForkChain has the forks.  A node       *)
(* stands for the account it produces for.                                 *)
(***************************************************************************)
EXTENDS Integers, Sequences, FiniteSets, FiniteSetsExt, Totals

CONSTANTS Nodes,          \* producing nodes
          Round,          \* active_producers: a node per seat
          Stale,          \* nodes with enableStaleProduction
          GenesisTime,    \* dpo.time before the first block
          Bits,           \* width of recent_slots_filled (64)
          Word,           \* 2^32, the range of missed_blocks
          MaxTime         \* bound: the clock

Interval == 3             \* config::BlockIntervalSeconds

ASSUME NodesAssumption ==
    /\ IsFiniteSet(Nodes) /\ Stale \subseteq Nodes
    /\ Round \in Seq(Nodes) /\ Len(Round) > 0
\* The clock runs for less than 2^32 slots.
ASSUME TimesAssumption ==
    /\ GenesisTime \in Nat /\ MaxTime \in Nat
    /\ Bits \in Nat \ {0} /\ Word \in Nat \ {0}
    /\ GenesisTime <= MaxTime /\ MaxTime < Interval * Word

VARIABLES now,                  \* the wall clock, as maybe_produce_block rounds it
          production_enabled,   \* per node: _production_enabled
          head_block_number, time, current_absolute_slot, recent_slots_filled,
          total_missed,         \* per node: producer_object.total_missed
          filled                \* history: the slots of the clock with a block

clockVars == <<now, production_enabled>>
chainVars == <<head_block_number, time, current_absolute_slot,
               recent_slots_filled, total_missed, filled>>
vars == <<clockVars, chainVars>>

ClockSlot(t) == t \div Interval

\* 1 << n
Pow2[n \in Nat] == IF n = 0 THEN 1 ELSE 2 * Pow2[n - 1]

Init ==
    /\ now = GenesisTime
    /\ production_enabled = [n \in Nodes |-> n \in Stale]
    /\ head_block_number = 0
    /\ time = GenesisTime
    /\ current_absolute_slot = 0
    /\ recent_slots_filled = Pow2[Bits] - 1
    /\ total_missed = [n \in Nodes |-> 0]
    /\ filled = {}
-----------------------------------------------------------------------------
\* Variant: slots are counted from the head block's own.
get_slot_time_from_head(slot) ==
    IF slot = 0 THEN 0
    ELSE IF head_block_number = 0 THEN time + slot * Interval
    ELSE (time \div Interval) * Interval + (slot - 1) * Interval

get_slot_time(slot) ==
    IF slot = 0 THEN 0
    ELSE IF head_block_number = 0 THEN time + slot * Interval
    ELSE (time \div Interval) * Interval + slot * Interval

\* Variant: slots are counted from 0.
get_slot_at_time_from_zero(t) ==
    IF t < get_slot_time(1) THEN 0 ELSE (t - get_slot_time(1)) \div Interval

get_slot_at_time(t) ==
    IF t < get_slot_time(1) THEN 0 ELSE (t - get_slot_time(1)) \div Interval + 1

get_scheduled_producer(slot) ==
    Round[((current_absolute_slot + slot) % Len(Round)) + 1]

\* uint32_t: a block in slot 0 makes it wrap around.
missed_blocks(t) ==
    ((IF head_block_number = 0 THEN 1 ELSE get_slot_at_time(t)) - 1) % Word

\* Variant: the loop over the missed slots starts at the head block's own slot.
MissedBy_from_head(t, n) ==
    Cardinality({i \in 0..missed_blocks(t) : get_scheduled_producer(i) = n})

\* The missed slots in which n was on turn.
MissedBy(t, n) ==
    Cardinality({i \in 0..(missed_blocks(t) - 1) : get_scheduled_producer(i + 1) = n})

\* Variant: the bit of the parent is shifted in after the missed slots.
ShiftedBitmap_swapped(missed) ==
    IF missed < Bits THEN (recent_slots_filled * Pow2[missed] * 2 + 1) % Pow2[Bits] ELSE 0

ShiftedBitmap(missed) ==
    IF missed < Bits THEN ((recent_slots_filled * 2 + 1) * Pow2[missed]) % Pow2[Bits] ELSE 0

update_global_dynamic_data(t, signer) ==
    LET missed == missed_blocks(t)
    IN  /\ total_missed' = [n \in Nodes |->
               total_missed[n] + IF n = signer THEN 0 ELSE MissedBy(t, n)]
        /\ head_block_number' = head_block_number + 1
        /\ time' = t
        /\ current_absolute_slot' = current_absolute_slot + ((missed + 1) % Word)
        /\ recent_slots_filled' = ShiftedBitmap(missed)

\* A block with this timestamp, signed by the account on turn, is applied.
ApplyBlock(t) ==
    /\ update_global_dynamic_data(t, get_scheduled_producer(get_slot_at_time(t)))
    /\ filled' = filled \cup {ClockSlot(t)}

Synced(n) == production_enabled[n] \/ get_slot_time(1) >= now

\* maybe_produce_block gets to generate_block: production is enabled or the next
\* slot is not past, a slot has come, it is n's, and it starts this second.
ShouldProduce(n) ==
    LET slot == get_slot_at_time(now)
    IN  /\ Synced(n)
        /\ slot # 0
        /\ get_scheduled_producer(slot) = n
        /\ get_slot_time(slot) = now

Produce(n) ==
    /\ ShouldProduce(n)
    /\ ApplyBlock(get_slot_time(get_slot_at_time(now)))
    /\ production_enabled' = [production_enabled EXCEPT ![n] = TRUE]
    /\ UNCHANGED now

\* maybe_produce_block returns without a block.
Decline(n) ==
    /\ ~ShouldProduce(n)
    /\ production_enabled' = [production_enabled EXCEPT ![n] = Synced(n)]
    /\ UNCHANGED <<now, chainVars>>

Tick ==
    /\ now < MaxTime
    /\ now' = now + 1
    /\ UNCHANGED <<production_enabled, chainVars>>

Next == Tick \/ \E n \in Nodes : Produce(n) \/ Decline(n)

Spec == Init /\ [][Next]_vars
-----------------------------------------------------------------------------
(* Properties.                                                             *)

TimesAhead == 0..(time + 4 * Interval)
FirstSlot == Min(filled)
Bit(k) == (recent_slots_filled \div Pow2[k]) % 2

\* The variables have their types; recent_slots_filled keeps to its width.
TypeOK ==
    /\ now \in Nat /\ production_enabled \in [Nodes -> BOOLEAN]
    /\ head_block_number \in Nat /\ time \in Nat
    /\ current_absolute_slot \in Nat
    /\ recent_slots_filled \in 0..(Pow2[Bits] - 1)
    /\ total_missed \in [Nodes -> Nat]

\* "this assert should not fail, because now <= db.head_block_time() should have
\* resulted in slot == 0" (producer_plugin.cpp:163-170): a time at or before the
\* head block's has no slot.
SlotIsAfterHead ==
    \A t \in TimesAhead : get_slot_at_time(t) > 0 => t > time

\* get_slot_at_time and get_slot_time are inverse on slots: the producer that
\* signs for a slot is the one validate_block_header finds for its timestamp.
SlotRoundTrip ==
    \A slot \in 1..4 : get_slot_at_time(get_slot_time(slot)) = slot

\* Every block produced takes a slot of the clock that no earlier block took,
\* whatever slots were missed and whoever was late to enable production.
FreshSlot ==
    [][head_block_number' # head_block_number =>
          \A s \in filled : s < ClockSlot(time')]_vars

\* The absolute slot follows the clock from the first block on: it is one more
\* than the slots since that block.
AbsoluteSlotFollowsClock ==
    filled # {} => current_absolute_slot = 1 + ClockSlot(time) - FirstSlot

\* The bitmap of recent slots says of each slot between the first and the head
\* block whether the clock saw a block in it
\* (global_property_object.hpp:89-104).
BitmapIsHistory ==
    \A k \in 0..(Bits - 1) :
        LET s == ClockSlot(time) - 1 - k
        IN  filled # {} /\ s >= FirstSlot => (Bit(k) = 1 <=> s \in filled)

\* The slots charged to producers are slots that passed without a block.
MissedAreEmptySlots ==
    Total(total_missed) <= current_absolute_slot - head_block_number
=============================================================================
