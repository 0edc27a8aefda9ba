----------------------------- MODULE Ingestion -----------------------------
(***************************************************************************)
(* From a marketplace's page to the catalogue: a connector (Connector) and *)
(* the workers of the deal engine that store what it finds (Catalog), with *)
(* the stream LISTING_DISCOVERED between them (ListingStream).             *)
(***************************************************************************)
EXTENDS Connector, Catalog

\* Name has every spelling that the feeds use.
ASSUME SpellingAssumption ==
  \A f \in Feeds : \A i \in DOMAIN f.items :
    LET brand == Fields(f.market, f.items[i].raw).brand.val
    IN  brand # Null => brand.what \in Name

(***************************************************************************)
(* What an offer is: the amounts that the page states in the places where  *)
(* its marketplace states them, the first that holds something.  A page    *)
(* that strikes nothing out states no other amount there than the one it   *)
(* asks.                                                                   *)
(***************************************************************************)
PricePlaces ==
  [AMAZON |-> <<"Price.Amount">>,
   FLIPKART |-> <<"flipkartSpecialPrice.amount", "flipkartSellingPrice.amount">>,
   MYNTRA |-> <<"discountedPrice", "price">>,
   NYKAA |-> <<"final_price", "offer_price", "price">>]

StruckPlaces ==
  [AMAZON |-> <<"SavingBasis.Amount">>,
   FLIPKART |-> <<"maximumRetailPrice.amount">>,
   MYNTRA |-> <<"mrp", "price">>,
   NYKAA |-> <<"mrp", "list_price">>]

States(raw, places, amount) ==
  \A i \in Present(raw, places) :
    (\A j \in Present(raw, places) : i <= j) => Select(raw, places[i]).n = amount

ASSUME OfferAssumption ==
  \A f \in Feeds : \A i \in DOMAIN f.items :
    LET raw == f.items[i].raw
        offer == f.items[i].offer
        struck == StruckPlaces[f.market]
    IN  /\ offer.paid \in Int
        /\ States(raw, PricePlaces[f.market], offer.paid)
        /\ IF offer.struck = Null THEN States(raw, struck, offer.paid)
           ELSE /\ offer.struck \in Int
                /\ Present(raw, struck) # {}
                /\ States(raw, struck, offer.struck)

\* A text that is read is not None.
ASSUME TextAssumption ==
  \A f \in Feeds : \A i \in DOMAIN f.items :
    \A path \in DOMAIN f.items[i].raw : Stripped(f.items[i].raw[path]) # Null

(***************************************************************************)
(* What a page says of its stock: the first of its marketplace's places    *)
(* that holds a value of the kind kept there, and whether that is a yes.   *)
(***************************************************************************)
StockPlaces ==
  [AMAZON |-> <<"Availability.Type", "Availability.Message">>,
   FLIPKART |-> <<"inStock", "availability">>,
   MYNTRA |-> <<"inventoryInfo", "outOfStock">>,
   NYKAA |-> <<"in_stock", "quantity", "stock_status">>]

Holds(raw, path) ==
  LET v == Select(raw, path) IN
  CASE path \in {"inStock", "outOfStock", "in_stock"} -> v.is = "bool"
    [] path = "quantity" -> v.is = "int"
    [] path = "inventoryInfo" -> v.is = "list"
    [] OTHER -> v.is = "text" /\ v.as # "blank"

Denials(path) ==
  IF path = "Availability.Message" THEN {} ELSE {"out of stock", "sold out"}

Affirmations(path) ==
  {"in stock"} \cup CASE path = "availability" -> {"left"}
                       [] path = "stock_status" -> {"available", "low stock"}
                       [] OTHER -> {}

CanBeHad(size) ==
  /\ Select(size, "available").is = "bool" /\ Select(size, "available").n = 1
  /\ Select(size, "inventory").is = "int" => Select(size, "inventory").n > 0

IsYes(raw, path) ==
  LET v == Select(raw, path) IN
  CASE path \in {"inStock", "in_stock"} -> v.n = 1
    [] path = "outOfStock" -> v.n # 1
    [] path = "quantity" -> v.n > 0
    [] path = "inventoryInfo" -> \E size \in v.what : CanBeHad(size)
    [] path = "Availability.Type" -> v.what = "now"
    [] OTHER -> /\ Says[v.what] \cap Denials(path) = {}
                /\ Says[v.what] \cap Affirmations(path) # {}

SaysInStock(market, raw) ==
  LET places == StockPlaces[market] IN
  \E i \in DOMAIN places :
    /\ Holds(raw, places[i]) /\ IsYes(raw, places[i])
    /\ \A j \in 1 .. i - 1 : ~Holds(raw, places[j])

\* A page that says it can be bought means it.
MeanIt(feeds) ==
  \A f \in feeds : \A i \in DOMAIN f.items :
    SaysInStock(f.market, f.items[i].raw) => f.items[i].offer.buyable

vars == <<stream, faults, connector, catalog>>

Init == ConnectorInit /\ CatalogInit

Next ==
  \/ ConnectorNext /\ UNCHANGED catalog
  \/ CatalogNext /\ UNCHANGED connector

Spec == Init /\ [][Next]_vars

\* restart: unless-stopped starts an ended process again, and a running one
\* keeps running; nothing obliges a fetch or a process to fail.
FairSpec ==
  /\ Spec
  /\ WF_vars(ConnectorWork /\ UNCHANGED catalog)
  /\ \A w \in Worker : WF_vars(Work(w) /\ UNCHANGED connector)

Place == 1 .. Len(feed.items)
Entries == 1 .. Len(stream)
Offer(k) == feed.items[stream[k].item].offer
Found(k) == stream[k].product

-----------------------------------------------------------------------------
TypeOK ==
  /\ at \in {"down", "rest", "fetch", "publish"}
  /\ next \in 0 .. Len(feed.items) + 1
  /\ at \in {"fetch", "publish"} => next > 0
  /\ at # "publish" => product = Null
  /\ batch \in [published : 0 .. next, skipped : 0 .. next]
  /\ totals \in [published : 0 .. Len(stream), skipped : 0 .. polls * Len(feed.items)]
  /\ polls \in 0 .. feed.polls
  /\ faults \in 0 .. MaxFaults
  /\ \A k \in Entries : stream[k].item \in Place
  /\ taken \in 0 .. Len(stream)
  /\ \A w \in Worker : (job[w] # 0) <=> (phase[w] \notin {"idle", "down"})
  /\ upto \in [Worker -> 0 .. taken]
  /\ \A w \in Worker : job[w] \in 0 .. upto[w]
  /\ brands \subseteq Name
  /\ done \subseteq 1 .. taken
  /\ unbranded \subseteq done
  /\ \A r, s \in rows : r.id = s.id => r = s

(***************************************************************************)
(* "A schema-invalid publish ... is a defect" (main.py, poll): what        *)
(* validate() lets through is never refused by the schema of its event,    *)
(* so the poll loop does not end on a listing it took for a good one.      *)
(***************************************************************************)
PublishNeverRejects == at = "publish" => SchemaAccepts(product)

(***************************************************************************)
(* Whatever the marketplace, the path and the form its amounts come in, a  *)
(* published price is what the page asks, to half a paisa, and mrp what it *)
(* strikes out; where nothing is struck out mrp is null or the price       *)
(* (connectors' _price and _mrp, selectors' path orders, paise).           *)
(***************************************************************************)
SameOfferSameMoney ==
  \A k \in Entries :
    /\ IsPaiseOf(Found(k).price, Offer(k).paid)
    /\ IF Offer(k).struck = Null
       THEN Found(k).mrp \in {Null, Found(k).price}
       ELSE Found(k).mrp # Null /\ IsPaiseOf(Found(k).mrp, Offer(k).struck)

(***************************************************************************)
(* "A false True sends a purchase agent at an unbuyable listing": what is  *)
(* published as in stock can be bought (the connectors' _in_stock).        *)
(***************************************************************************)
StockIsReal ==
  \A k \in Entries : Found(k).in_stock => Offer(k).buyable

(***************************************************************************)
(* While a poll runs, the end of the stream is the well-formed pages among *)
(* the items read so far, in their order and once each; the batch's counts *)
(* add up to those items; the totals never count more than was published   *)
(* (publish_batch, iter_products, poll, normalize), whatever failed in     *)
(* earlier polls.                                                          *)
(***************************************************************************)
Kind(i) == feed.items[i].offer.page

WellFormed == {i \in 1 .. next - 1 : Kind(i) \in {"sound", "wide"}}

\* The item behind the k-th entry that this poll published.
Mine(k) == stream[Len(stream) - batch.published + k].item

BatchIsTheGoodPrefix ==
  at \in {"fetch", "publish"} =>
    /\ totals.published + batch.published <= Len(stream)
    /\ batch.published + batch.skipped = next - 1
    /\ {Mine(k) : k \in 1 .. batch.published} = WellFormed
    /\ \A j, k \in 1 .. batch.published : j < k => Mine(j) < Mine(k)

(***************************************************************************)
(* A product hangs on a brand row that exists and is its brand, whichever  *)
(* worker created it, and on none only if its listing names none           *)
(* (resolve_brand, _upsert_listing); and workers that create one brand in  *)
(* several spellings at once leave at most one row each (brand_repo).      *)
(***************************************************************************)
ProductHasItsBrand ==
  \A r \in rows :
    LET name == CleanName(Found(r.by)) IN
    IF name = Null THEN r.brand = Null
    ELSE r.brand \in brands /\ Folded[r.brand] = Folded[name]

SplitIsBounded ==
  \A b \in brands :
    Cardinality({c \in brands : Folded[c] = Folded[b]}) <= Cardinality(Worker)

BrandsAreSound == ProductHasItsBrand /\ SplitIsBounded

(***************************************************************************)
(* A listing whose brand is spelled as it is stored is scored with a brand *)
(* row, although the tier is looked up apart from resolve_brand; the one   *)
(* exception is a listing that was stored under another brand.             *)
(* (handle_listing_discovered.)                                            *)
(***************************************************************************)
TierIsSeen ==
  \A k \in unbranded :
    LET name == RawName(Found(k)) IN
    \/ name = Null
    \/ Collapsed[name] # name
    \/ \E r \in rows : /\ r.id = Found(k).id
                       /\ \/ r.brand = Null
                          \/ Folded[r.brand] # Folded[name]

\* The insert or update w is at may have to wait for v's transaction.
WaitsFor(w, v) ==
  /\ v # w
  /\ \/ phase[w] = "create" /\ txn[v].brand = CleanName(Job(w))
     \/ phase[w] \in {"update", "store"} /\ txn[v].holds /\ Job(v).id = Job(w).id

(***************************************************************************)
(* The unique keys of brands and of listings are waited for one after the  *)
(* other: however workers store the same brands and listings at once, no   *)
(* set of them waits for each other in a circle, and PostgreSQL has no     *)
(* deadlock to break (brand_repo, product_repo, listing_repo).             *)
(***************************************************************************)
NobodyWaitsInACircle ==
  \A S \in SUBSET Worker :
    (\A w \in S : \E v \in S : WaitsFor(w, v)) => S = {}

(***************************************************************************)
(* A sound page with no fatal one before it in the feed is in the          *)
(* catalogue in the end, although a fetch, a transaction or a process      *)
(* fails on the way: a later poll brings it again ("one missed deal that   *)
(* the next poll picks up").  A failure loses one poll, or as many of the  *)
(* page's entries as a batch holds, so there have to be more polls than    *)
(* that.  And there is no page in the feed that is too wide to be stored:  *)
(* it would take the entries behind it along, at every poll if it comes to *)
(* that (consumer.py, consume).                                            *)
(***************************************************************************)
IsGood(i) ==
  /\ i \in Place
  /\ Kind(i) = "sound"
  /\ feed.polls > MaxFaults * BatchSize
  /\ \A j \in 1 .. i : Kind(j) # "fatal"
  /\ \A j \in Place : Kind(j) # "wide"

IsCatalogued(i) == \E k \in done : stream[k].item = i

EveryGoodListingIsCatalogued ==
  \A i \in UNION {1 .. Len(f.items) : f \in Feeds} :
    IsGood(i) ~> IsCatalogued(i)
============================================================================
