-------------------------- MODULE RevalidationDesk --------------------------
(***************************************************************************)
(* What the revalidation service promises whoever asks, with no word about *)
(* buses, copies, replicas, projections, marks or crashes: a desk that is  *)
(* asked about deals.  It answers a request at most once, about the deal   *)
(* that was asked for and only if it was told of that deal, with what it   *)
(* read inside the budget; the request passes exactly when the listing is  *)
(* in stock at 98% to 102% of the price the deal was announced at.  A      *)
(* request that was closed or refused is never answered any more, and the  *)
(* two exclude each other.                                                 *)
(***************************************************************************)
EXTENDS Naturals

CONSTANTS
  Request,
  Deal,
  NoDeal,
  Detected,  \* Detected[d]: the price deal d was announced at
  LivePrice,
  Budget

VARIABLES
  asked,     \* asked[r]: the deal request r is about, NoDeal before it is sent
  told,      \* the deals the desk was told of
  now,
  answers,
  closed,    \* requests that reached their end, answered or in silence
  refused    \* requests that were answered by nothing but a failure

vars == <<asked, told, now, answers, closed, refused>>

Init ==
  /\ asked = [r \in Request |-> NoDeal]
  /\ told = {}
  /\ now = 0
  /\ answers = {}
  /\ closed = {}
  /\ refused = {}

Open(r) == asked[r] # NoDeal /\ r \notin closed \cup refused
Unanswered(r) == \A a \in answers : a.request # r

Ask(r, d) ==
  /\ asked[r] = NoDeal
  /\ asked' = [asked EXCEPT ![r] = d]
  /\ UNCHANGED <<told, now, answers, closed, refused>>

Tell(D) ==
  /\ told' = told \cup D
  /\ UNCHANGED <<asked, now, answers, closed, refused>>

Tick ==
  /\ now' = now + 1
  /\ UNCHANGED <<asked, told, answers, closed, refused>>

Passes(price, in_stock, detected) ==
  in_stock /\ 98 * detected <= 100 * price /\ 100 * price <= 102 * detected

Reply(r, price, in_stock, at, started) ==
  /\ Open(r)
  /\ Unanswered(r)
  /\ asked[r] \in told
  /\ started <= at /\ at < started + Budget
  /\ answers' = answers \cup
       {[request |-> r, deal |-> asked[r], price |-> price, in_stock |-> in_stock,
         changed |-> ~ Passes(price, in_stock, Detected[asked[r]]),
         at |-> at, started |-> started]}
  /\ UNCHANGED <<asked, told, now, closed, refused>>

Close(r) ==
  /\ Open(r)
  /\ closed' = closed \cup {r}
  /\ UNCHANGED <<asked, told, now, answers, refused>>

Refuse(r) ==
  /\ Open(r)
  /\ Unanswered(r)
  /\ refused' = refused \cup {r}
  /\ UNCHANGED <<asked, told, now, answers, closed>>

Next ==
  \/ \E r \in Request, d \in Deal : Ask(r, d)
  \/ \E D \in SUBSET Deal : Tell(D)
  \/ Tick
  \/ \E r \in Request, p \in LivePrice, b \in BOOLEAN, at, started \in 0 .. now :
       Reply(r, p, b, at, started)
  \/ \E r \in Request : Close(r) \/ Refuse(r)

Spec == Init /\ [][Next]_vars

=============================================================================
