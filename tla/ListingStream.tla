--------------------------- MODULE ListingStream ---------------------------
(***************************************************************************)
(* The stream LISTING_DISCOVERED between a marketplace connector and the   *)
(* deal engine, and the bound on the failures of both.                     *)
(***************************************************************************)
EXTENDS Listing

CONSTANT MaxFaults  \* bound: fetches, transactions and processes that fail

ASSUME MaxFaultsAssumption == MaxFaults \in Nat

VARIABLES
  stream,  \* the entries, oldest first: [item, product]
  faults   \* failures so far

\* An envelope around product.to_dict(); item is the place in the batch.
Entry(item, product) == [item |-> item, product |-> product]

MayFail == faults < MaxFaults /\ faults' = faults + 1
============================================================================
