--------------------------- MODULE MCRevalidation ---------------------------
(***************************************************************************)
(* A projection of one deal and announcements of two, so that the first is *)
(* forgotten; two requests, about either deal or copies of one another;    *)
(* batches of two; a clock that runs past the budget.                      *)
(***************************************************************************)
EXTENDS Revalidation, TLC

\* 49 and 51 are the two edges of two per cent around 50; around 52, 51 is in
\* and 49 out.
MCDetected == "d1" :> 50 @@ "d2" :> 52
MCOneDetected == "d1" :> 50
MCLivePrice == {49, 51}

MCScored == {<<"scored", 1>>, <<"scored", 2>>}
MCRequest == {<<"request", 1>>, <<"request", 2>>}
MCOneScored == {<<"scored", 1>>}
MCOneRequest == {<<"request", 1>>}
=============================================================================
