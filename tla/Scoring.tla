------------------------------ MODULE Scoring ------------------------------
(***************************************************************************)
(* services/deal-engine, what DealEngine leaves open: whether a scan of a  *)
(* listing is a deal.  The price history of one listing, day by day, and   *)
(* the scorer, under the built-in configuration.  A scan is one step: the  *)
(* listing's row is locked until its transaction ends (module DealEngine). *)
(*                                                                         *)
(* Scores are hundredths of a point and ratings tenths of a star, so that  *)
(* every number is an integer.  Floats matter in two places only: which    *)
(* way round(x, 2) takes an exact half, and on which side of min_score the *)
(* sum of four rounded components falls when it equals min_score exactly.  *)
(*                                                                         *)
(* Definitions named Bug... are mutated forms of the definition that       *)
(* follows them.                                                           *)
(***************************************************************************)
EXTENDS Integers, FiniteSets

CONSTANTS
  MaxPrice,  \* the largest value of the INTEGER columns, 2^31 - 1
  Price,     \* prices in paise
  Mrp,       \* what listings claim as their MRP; NoPrice is no claim
  Appeal,    \* [rating, reviews, tier]: the rest of what is scored
  Window,    \* history_window_days
  NoDeal,    \* no deal
  MaxDay,    \* bound: days
  MaxScans   \* bound: scans

NoPrice == 0

Tier == {"PREMIUM", "STANDARD", "UNBRANDED"}

ASSUME PriceAssumption ==
  /\ MaxPrice \in Nat
  /\ Price \subseteq 1 .. MaxPrice
  /\ Mrp \subseteq 0 .. MaxPrice
ASSUME AppealAssumption ==
  Appeal \subseteq [rating : 0 .. 50, reviews : Nat, tier : Tier]
ASSUME BoundAssumption == Window \in Nat /\ MaxDay \in Nat /\ MaxScans \in Nat

\* A listing as a connector lets it through: an MRP is at least the price.
Product == {o \in [price : Price, mrp : Mrp, appeal : Appeal] :
              o.mrp = NoPrice \/ o.mrp >= o.price}

\* How the floats of one evaluation fall: halves up, and a sum that equals
\* min_score not below it.
Floats == [up : {0, 1}, reaches : BOOLEAN]

VARIABLES
  day,      \* today
  scans,    \* scans so far
  history,  \* price_history: what was observed on which day
  deals,    \* deals, the open one included
  open      \* the deal that is not terminal

vars == <<day, scans, history, deals, open>>

-----------------------------------------------------------------------------
(***************************************************************************)
(* PriceHistoryRepository.stats: lowest and highest price of the window.   *)
(***************************************************************************)
BugInWindow(rows) == rows
InWindow(rows) == {h \in rows : h.day >= day - Window}

Lowest(rows) == CHOOSE p \in {h.price : h \in rows} : \A h \in rows : p <= h.price
Highest(rows) == CHOOSE p \in {h.price : h \in rows} : \A h \in rows : p >= h.price

-----------------------------------------------------------------------------
(***************************************************************************)
(* The scorer.                                                             *)
(***************************************************************************)
\* The claimed MRP first, then the highest price really observed.
Reference(o, rows) ==
  IF o.mrp > o.price THEN o.mrp
  ELSE IF Highest(rows) > o.price THEN Highest(rows)
  ELSE NoPrice

\* round(n / d), an exact half up (1) or down (0).
Rounded(n, d, up) == (2 * n + d - 1 + up) \div (2 * d)

BugDiscountScore(price, reference, up) == \* no cap
  Rounded(6250 * (reference - price), reference, up)
\* weight 0.375, full credit from a discount of 60 %
DiscountScore(price, reference, up) ==
  IF 5 * price <= 2 * reference THEN 3750
  ELSE Rounded(6250 * (reference - price), reference, up)

BugVelocityScore(price, lowest, up) ==   \* the credit grows with the excess
  IF price <= lowest THEN 2500
  ELSE IF 6 * lowest <= 5 * price THEN 0
  ELSE Rounded(2500 * 5 * (price - lowest), lowest, up)
BugVelocityUnclamped(price, lowest, up) ==
  IF price <= lowest THEN 2500
  ELSE Rounded(2500 * (6 * lowest - 5 * price), lowest, up)
\* weight 0.25, no credit from 20 % above the lowest price
VelocityScore(price, lowest, up) ==
  IF price <= lowest THEN 2500
  ELSE IF 6 * lowest <= 5 * price THEN 0
  ELSE Rounded(2500 * (6 * lowest - 5 * price), lowest, up)

BrandScore(tier) == [PREMIUM |-> 1875, STANDARD |-> 1125, UNBRANDED |-> 375][tier]

\* weight 0.1875; stars above 3, in full from 500 reviews
RatingScore(appeal, up) ==
  LET reviews == IF appeal.reviews < 500 THEN appeal.reviews ELSE 500
  IN  IF appeal.rating <= 30 THEN 0
      ELSE Rounded(1875 * (appeal.rating - 30) * reviews, 20 * 500, up)

Breakdown(o, rows, fl) ==
  [discount |-> DiscountScore(o.price, Reference(o, rows), fl.up),
   velocity |-> VelocityScore(o.price, Lowest(rows), fl.up),
   brand    |-> BrandScore(o.appeal.tier),
   rating   |-> RatingScore(o.appeal, fl.up)]

Total(b) == b.discount + b.velocity + b.brand + b.rating

\* min_discount_pct 15, min_score 40
IsDeal(o, rows, fl) ==
  /\ Reference(o, rows) > o.price
  /\ 100 * (Reference(o, rows) - o.price) >= 15 * Reference(o, rows)
  /\ LET t == Total(Breakdown(o, rows, fl))
     IN  t > 4000 \/ (t = 4000 /\ fl.reaches)

-----------------------------------------------------------------------------
Row == [price : Price, day : 0 .. MaxDay]
Deal == [product : Product, day : 0 .. MaxDay, reference : Nat,
         breakdown : [discount : Nat, velocity : Nat, brand : Nat, rating : Nat],
         firstSeen : BOOLEAN]

TypeOK ==
  /\ day \in 0 .. MaxDay
  /\ scans \in 0 .. MaxScans
  /\ history \subseteq Row
  /\ \A h \in history : h.day <= day
  /\ deals \subseteq Deal
  /\ open \in deals \cup {NoDeal}

Init ==
  /\ day = 0
  /\ scans = 0
  /\ history = {}
  /\ deals = {}
  /\ open = NoDeal

(***************************************************************************)
(* handle_listing_discovered on one scan: the observation is recorded      *)
(* before the window is read, so that the window is never empty.           *)
(***************************************************************************)
Observed(o) == InWindow(history \cup {[price |-> o.price, day |-> day]})

Scan(o, fl) ==
  /\ scans < MaxScans
  /\ scans' = scans + 1
  /\ history' = history \cup {[price |-> o.price, day |-> day]}
  /\ IF open = NoDeal /\ IsDeal(o, Observed(o), fl)
     THEN LET d == [product |-> o, day |-> day,
                    reference |-> Reference(o, Observed(o)),
                    breakdown |-> Breakdown(o, Observed(o), fl),
                    firstSeen |-> history = {}]
          IN  deals' = deals \cup {d} /\ open' = d
     ELSE UNCHANGED <<deals, open>>
  /\ UNCHANGED day

\* A tap after the expiry, or another service, makes the deal terminal.
Close ==
  /\ open # NoDeal
  /\ open' = NoDeal
  /\ UNCHANGED <<day, scans, history, deals>>

NextDay ==
  /\ day < MaxDay
  /\ day' = day + 1
  /\ UNCHANGED <<scans, history, deals, open>>

Next ==
  \/ \E o \in Product, fl \in Floats : Scan(o, fl)
  \/ Close
  \/ NextDay

Spec == Init /\ [][Next]_vars

-----------------------------------------------------------------------------
(***************************************************************************)
(* Properties.                                                             *)
(***************************************************************************)

\* scorer.py: "an invented reference would manufacture discounts".  What a
\* deal is measured against is the MRP of its own listing or a price that
\* was observed in the window, and it is higher than the price.
ReferenceIsReal ==
  \A d \in deals :
    /\ d.reference > d.product.price
    /\ \/ d.reference = d.product.mrp
       \/ \E h \in history : /\ h.price = d.reference
                             /\ d.day - Window <= h.day /\ h.day <= d.day

\* VALIDATION_RULES.md, section 2: no component leaves its own weighted
\* range, whatever is rounded, so that the score of a deal is within 40 and
\* 100.
BreakdownInRange ==
  \A d \in deals :
    /\ d.breakdown.discount <= 3750
    /\ d.breakdown.velocity <= 2500
    /\ d.breakdown.brand <= 1875
    /\ d.breakdown.rating <= 1875
    /\ Total(d.breakdown) >= 4000

\* scorer_test.py, test_deeper_discount_never_scores_lower, for whatever was
\* observed before and whatever becomes part of the history by being scored:
\* of two prices below one MRP, or of two prices without a claim, the lower is
\* a deal whenever the higher is, and its score is no lower, if the floats of
\* both evaluations fall alike.
SameClaim(o, c) ==
  o.mrp = c.mrp /\ o.appeal = c.appeal /\ (o.mrp = NoPrice \/ o.mrp > c.price)

CheaperIsNeverWorse ==
  \A o, c \in Product :
    o.price < c.price /\ SameClaim(o, c) =>
      \A fl \in Floats :
        IsDeal(c, Observed(c), fl) =>
          /\ IsDeal(o, Observed(o), fl)
          /\ Total(Breakdown(o, Observed(o), fl)) >= Total(Breakdown(c, Observed(c), fl))

\* scorer.py: "no history means no credit ... a listing seen for the first
\* time has not been proven cheap".
FirstSeenEarnsNoVelocity == \A d \in deals : d.firstSeen => d.breakdown.velocity = 0

============================================================================
