--------------------------- MODULE DealLifecycle ---------------------------
(***************************************************************************)
(* What the Deal Engine promises about the deals table, whatever workers,  *)
(* transactions and locks lie behind it: a deal is created only when its   *)
(* listing has no open deal, and from then on its status moves one edge at *)
(* a time.  A tap moves DEAL_SENT to INTERESTED; once expires_at has       *)
(* passed it moves the deal to EXPIRED instead; every other edge belongs   *)
(* to the services around the engine.                                      *)
(***************************************************************************)
CONSTANTS
  Deal,      \* deal ids
  Listing,
  Edges,     \* the pairs of statuses other services may move a deal along
  NoListing  \* the listing of a deal that does not exist

\* deal_repo.py: OPEN_DEAL_STATUSES is every status that is not terminal.
Terminal == {"EXPIRED", "IGNORED", "ORDERED", "PRICE_CHANGED_REJECTED",
             "SOLD_OUT_REJECTED"}
Open == {"SCORED", "NOTIFIED", "DEAL_SENT", "INTERESTED", "REVALIDATING",
         "CONFIRMED", "PRICE_CHANGED", "SOLD_OUT", "WATCHING"}
Status == Terminal \cup Open \cup {"NONE"}

VARIABLES
  status,  \* status[d], "NONE" while the deal has no row
  home,    \* home[d]: the deal's listing
  overdue  \* deals whose expires_at has passed

vars == <<status, home, overdue>>

Init ==
  /\ status = [d \in Deal |-> "NONE"]
  /\ home = [d \in Deal |-> NoListing]
  /\ overdue = {}

Create(d, l) ==
  /\ status[d] = "NONE"
  /\ \A c \in Deal : home[c] = l => status[c] \notin Open
  /\ status' = [status EXCEPT ![d] = "SCORED"]
  /\ home' = [home EXCEPT ![d] = l]
  /\ UNCHANGED overdue

Move(d, s) ==
  /\ <<status[d], s>> \in Edges
  /\ status' = [status EXCEPT ![d] = s]
  /\ UNCHANGED <<home, overdue>>

Interest(d) ==
  /\ status[d] = "DEAL_SENT"
  /\ status' = [status EXCEPT ![d] = "INTERESTED"]
  /\ UNCHANGED <<home, overdue>>

Expire(d) ==
  /\ d \in overdue
  /\ status[d] \notin {"NONE", "EXPIRED"}
  /\ status' = [status EXCEPT ![d] = "EXPIRED"]
  /\ UNCHANGED <<home, overdue>>

Pass(d) ==
  /\ overdue' = overdue \cup {d}
  /\ UNCHANGED <<status, home>>

Next ==
  \E d \in Deal :
    \/ \E l \in Listing : Create(d, l)
    \/ \E s \in Status : Move(d, s)
    \/ Interest(d)
    \/ Expire(d)
    \/ Pass(d)

Spec == Init /\ [][Next]_vars

============================================================================
