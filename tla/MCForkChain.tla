---------------------------- MODULE MCForkChain ----------------------------
(* Small instances of ForkChain: who holds the seats and which headers the *)
(* node is offered.                                                        *)
EXTENDS ForkChain

CONSTANTS p, q, r, w

TwoSeats == <<p, q>>
FiveSeats == <<p, Empty, q, r, w>>

\* The shuffle is seeded with the block's timestamp: the two orders alternate.
TwoSeatsShuffled(b) == IF Time(b) % 2 = 0 THEN <<p, q>> ELSE <<q, p>>

\* A round in which q is not elected: p alone makes its blocks irreversible.
SeatLost(b) == IF Time(b) % 3 = 0 THEN <<p, Empty>> ELSE TwoSeatsShuffled(b)

FiveSeatsShuffled(b) ==
    IF Time(b) % 2 = 0 THEN <<p, q, r, w, Empty>> ELSE <<w, r, Empty, p, q>>

MaxTime == 9
GoodHeaders == [time : 1..MaxTime, fault : {"none"}]
EarlyHeaders == [time : 1..MaxTime, fault : {"none", "early"}]
AllHeaders == [time : 1..MaxTime, fault : {"none", "early", "late"}]
=============================================================================
