---------------------------- MODULE MCDealEngine ----------------------------
(***************************************************************************)
(* Two workers, and one listing or two that share an advisory lock key;    *)
(* the services around the engine send a deal out, drop it or take it up.  *)
(***************************************************************************)
EXTENDS DealEngine, TLC

CONSTANTS w1, w2, l1, l2

Workers == Permutations({w1, w2})

MCScan == {<<"scan", 1>>, <<"scan", 2>>}
MCScan3 == MCScan \cup {<<"scan", 3>>}
MCTap == {<<"tap", 1>>}
MCTwoTaps == {<<"tap", 1>>, <<"tap", 2>>}
MCOneKey == [l \in Listing |-> 1]
\* Edges of STATE_TRANSITIONS.md: sent, dropped, taken up after a tap.
MCEdges == {<<"SCORED", "NOTIFIED">>, <<"NOTIFIED", "DEAL_SENT">>,
            <<"DEAL_SENT", "IGNORED">>, <<"INTERESTED", "REVALIDATING">>}
============================================================================
