------------------------------ MODULE MCSlots ------------------------------
(* Two nodes on three seats.  As in the program, genesis is not at the     *)
(* start of a slot.                                                        *)
EXTENDS Slots

CONSTANTS n1, n2

Seats == <<n1, n2, n2>>
=============================================================================
