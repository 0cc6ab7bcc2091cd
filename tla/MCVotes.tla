------------------------------ MODULE MCVotes ------------------------------
(***************************************************************************)
(* Three accounts and money for four votes.  A vote costs 2 and a number   *)
(* wraps at 5: one call buys at most two votes, and three votes redeemed   *)
(* at once are worth 1.                                                    *)
(***************************************************************************)
EXTENDS Votes, TLC

MCBalance == (1 :> 5 @@ 2 :> 4 @@ 3 :> 0)

=============================================================================
