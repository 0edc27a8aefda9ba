----------------------------- MODULE Connector -----------------------------
(***************************************************************************)
(* services/marketplace-connector: one process per marketplace polls its   *)
(* source, normalizes every item and publishes the products as             *)
(* LISTING_DISCOVERED, one at a time while the batch is being fetched.     *)
(* main.py (poll, publish_batch), base/connector_interface.py              *)
(* (iter_products), base/fixture_source.py.                                *)
(*                                                                         *)
(* What a source offers in one poll is a feed: a marketplace and its items *)
(* in order.  An item carries, besides its raw fields, what its page means *)
(* and the code never sees: the amount paid, the amount struck out or      *)
(* Null, whether it can be bought, and whether the page is "sound",        *)
(* "malformed", "wide" (well-formed, but too long or large to be stored)   *)
(* or "fatal" (it makes the connector raise).  Properties go by that.      *)
(*                                                                         *)
(* Definitions named Bug... are mutated forms of the definition that       *)
(* follows them.                                                           *)
(***************************************************************************)
EXTENDS ListingStream

CONSTANT Feeds  \* [market, items, polls]; polls bounds how often it is polled

\* Items are a sequence; what is recorded at a path: words are never empty.
ASSUME FeedsAssumption ==
  \A f \in Feeds :
    /\ f.market \in Marketplace
    /\ f.polls \in Nat
    /\ Len(f.items) \in Nat
    /\ DOMAIN f.items = 1 .. Len(f.items)
    /\ \A i \in DOMAIN f.items : \A path \in DOMAIN f.items[i].raw :
         LET v == f.items[i].raw[path]
         IN  /\ v = Json(v.is, v.as, v.n, v.what)
             /\ v.as \in {"words", "indented"} => v.n \in Nat \ {0}

VARIABLES
  feed,     \* what every poll finds
  at,       \* where the process is: "down", "rest", "fetch", "publish"
  next,     \* the item that is read next
  product,  \* the product to publish
  batch,    \* BatchResult of the poll under way
  totals,   \* BatchResult of the polls that this process completed
  polls     \* polls begun so far, by all the lives of the process

connector == <<feed, at, next, product, batch, totals, polls>>

NoCounts == [published |-> 0, skipped |-> 0]

ConnectorInit ==
  /\ stream = <<>>
  /\ faults = 0
  /\ feed \in Feeds
  /\ at = "down"
  /\ next = 0
  /\ product = Null
  /\ batch = NoCounts
  /\ totals = NoCounts
  /\ polls = 0

\* The process ends and its memory with it; the container starts it again.
Ends ==
  /\ at' = "down"
  /\ next' = 0
  /\ product' = Null
  /\ batch' = NoCounts
  /\ totals' = NoCounts

StartConnector ==
  /\ at = "down"
  /\ at' = "rest"
  /\ UNCHANGED <<stream, faults, feed, next, product, batch, totals, polls>>

BeginPoll ==
  /\ at = "rest"
  /\ polls < feed.polls
  /\ at' = "fetch"
  /\ next' = 1
  /\ batch' = NoCounts
  /\ polls' = polls + 1
  /\ UNCHANGED <<stream, faults, feed, product, totals>>

\* normalize() reads nothing but the item: what it makes of every one.
Outcome == [f \in Feeds |-> [i \in DOMAIN f.items |->
                               Normalize(f.market, f.items[i].raw)]]

Normalized(i) == Outcome[feed][i]

Reads(end) ==
  /\ at = "fetch"
  /\ next <= Len(feed.items)
  /\ Normalized(next).end = end

\* ParseFailedError: the item is counted and left out.
BugSkipEndsPoll ==                       \* it ends the poll
  /\ Reads("parse_failed")
  /\ at' = "rest"
  /\ UNCHANGED <<stream, faults, feed, next, product, batch, totals, polls>>
BugSkipUncounted ==
  /\ Reads("parse_failed")
  /\ next' = next + 1
  /\ UNCHANGED <<stream, faults, feed, at, product, batch, totals, polls>>
SkipItem ==
  /\ Reads("parse_failed")
  /\ next' = next + 1
  /\ batch' = [batch EXCEPT !.skipped = @ + 1]
  /\ UNCHANGED <<stream, faults, feed, at, product, totals, polls>>

\* Any other exception is no ConnectorError and leaves poll().
ChokeOnItem ==
  /\ Reads("crash")
  /\ Ends
  /\ UNCHANGED <<stream, faults, feed, polls>>

NormalizeItem ==
  /\ Reads("value")
  /\ product' = Normalized(next).val
  /\ at' = "publish"
  /\ UNCHANGED <<stream, faults, feed, next, batch, totals, polls>>

Added == stream' = Append(stream, Entry(next, product))

\* A payload its schema refuses raises EventSchemaInvalidError.
Publish ==
  /\ at = "publish"
  /\ IF SchemaAccepts(product)
     THEN /\ Added
          /\ at' = "fetch"
          /\ next' = next + 1
          /\ product' = Null
          /\ batch' = [batch EXCEPT !.published = @ + 1]
          /\ UNCHANGED totals
     ELSE Ends /\ UNCHANGED stream
  /\ UNCHANGED <<faults, feed, polls>>

EndPoll ==
  /\ at = "fetch"
  /\ next > Len(feed.items)
  /\ at' = "rest"
  /\ totals' = [published |-> totals.published + batch.published,
                skipped |-> totals.skipped + batch.skipped]
  /\ batch' = NoCounts
  /\ UNCHANGED <<stream, faults, feed, next, product, polls>>

\* A ConnectorError of the fetch, at any item: what was published stays
\* published, the counts of the batch are dropped.
FetchFails ==
  /\ at = "fetch"
  /\ MayFail
  /\ at' = "rest"
  /\ batch' = NoCounts
  /\ UNCHANGED <<stream, feed, next, product, totals, polls>>

\* XADD ran, its reply is lost, redis-py raises and the process ends.  A
\* command redis-py repeats itself is DealEngine's PublishAgain.
PublishReplyLost ==
  /\ at = "publish"
  /\ SchemaAccepts(product)
  /\ MayFail
  /\ Added
  /\ Ends
  /\ UNCHANGED <<feed, polls>>

KillConnector ==
  /\ at # "down"
  /\ MayFail
  /\ Ends
  /\ UNCHANGED <<stream, feed, polls>>

ConnectorWork ==
  \/ StartConnector \/ BeginPoll \/ SkipItem \/ ChokeOnItem \/ NormalizeItem
  \/ Publish \/ EndPoll

ConnectorNext ==
  ConnectorWork \/ FetchFails \/ PublishReplyLost \/ KillConnector
============================================================================
