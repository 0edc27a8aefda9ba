-------------------------- MODULE MCConsumerGroup --------------------------
(***************************************************************************)
(* ConsumerGroup as the Deal Engine uses it: two streams in the order of   *)
(* its CONSUMED_EVENT_TYPES and two workers in one group.                  *)
(***************************************************************************)
EXTENDS ConsumerGroup, TLC

CONSTANTS listing, tap

MCStream == {listing, tap}
MCRank == (listing :> 1) @@ (tap :> 2)
MCMaxLen == (listing :> 3) @@ (tap :> 1)

============================================================================
