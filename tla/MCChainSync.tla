---------------------------- MODULE MCChainSync ----------------------------
(* Small instances of ChainSync: the block trees and the peers' heads.     *)
EXTENDS ChainSync, TLC

CONSTANTS p1, p2

\* A chain of three blocks and a second child of the first.
ForkedTree == <<0, 1, 2, 1>>
ForkedHeads == (p1 :> 2) @@ (p2 :> 4)

\* A branch of two blocks and one of three, which meet at genesis.
ApartTree == <<0, 1, 0, 3, 4>>
ApartHeads == (p1 :> 1) @@ (p2 :> 3)

OneChain == <<0, 1, 2>>
OneHead == (p1 :> 1) @@ (p2 :> 1)
=============================================================================
