---------------------------- MODULE MCBlockQueue ----------------------------
EXTENDS BlockQueue, TLC

\* Two branches of two blocks; 3 is early and 4 is this node's own.
MCParent == <<0, 1, 0, 3>>
MCTime == <<0, 0, 1, 0>>
\* A branch of two blocks and a block beside it.
TwoBranches == <<0, 1, 0>>
NoDelay == <<0, 0, 0>>
AllGood == [b \in Blocks |-> "good"]
MCVerdicts == {AllGood, [AllGood EXCEPT ![1] = "seal"], [AllGood EXCEPT ![1] = "state"]}
InvalidState == {[AllGood EXCEPT ![1] = "state"]}
InvalidSeal == {[AllGood EXCEPT ![1] = "seal"]}
MCSymmetry == Permutations(Threads)
=============================================================================
