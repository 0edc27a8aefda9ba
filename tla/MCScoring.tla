----------------------------- MODULE MCScoring -----------------------------
(***************************************************************************)
(* Values at the edges of the curves.  34 against a peak of 40 is 15 %     *)
(* off, and 937.5 hundredths of a point; 34, 36 and 40 against an MRP of   *)
(* 100 earn full credit, 44 does not; 36 and 40 are within 20 % of 34, 44  *)
(* is not.  44 of 100 with the second appeal, once a lower price is known, *)
(* scores 40 exactly.                                                      *)
(***************************************************************************)
EXTENDS Scoring

MCPrice == {34, 36, 40, 44}
MCMrp == {NoPrice, 100}
MCAppeal == {[rating |-> 45, reviews |-> 700, tier |-> "STANDARD"],
             [rating |-> 37, reviews |-> 95, tier |-> "UNBRANDED"]}
============================================================================
