------------------------------ MODULE Listing ------------------------------
(***************************************************************************)
(* services/marketplace-connector/src: how a raw item of each marketplace  *)
(* becomes a CanonicalProduct (connectors/*/connector.py, selectors.py),   *)
(* the nine rules it is held to (base/normalizer.py), what the schema of   *)
(* its event accepts and what the columns it is stored in hold.            *)
(*                                                                         *)
(* Of a product's texts the model keeps title, id, url and brand; category *)
(* image and attributes are optional texts nothing but a column's width    *)
(* judges.  A url is "own" (a host of the marketplace), "foreign",         *)
(* "relative", or "broken" (urlparse and urljoin raise ValueError).        *)
(*                                                                         *)
(* Definitions named Bug... are mutated forms of the definition that       *)
(* follows them.                                                           *)
(***************************************************************************)
EXTENDS RawMapping

CONSTANTS
  Says,       \* Says[p]: the markers that phrase p, in lower case, contains
  MaxInteger  \* largest number an INTEGER column holds

ASSUME MaxIntegerAssumption == MaxInteger \in Nat

Marketplace == {"AMAZON", "FLIPKART", "MYNTRA", "NYKAA"}

----------------------------------------------------------------------------
\* Where each marketplace keeps a field, most preferred path first.

AmazonPaths ==
  [title |-> "ItemInfo.Title", id |-> "ASIN", url |-> "DetailPageURL",
   brand |-> <<"ByLineInfo.Brand", "ByLineInfo.Manufacturer">>,
   price |-> <<"Price.Amount">>, currency |-> "Price.Currency",
   mrp |-> <<"SavingBasis.Amount">>,
   stock |-> "Availability.Type", prose |-> "Availability.Message",
   rating |-> "StarRating", reviews |-> "CustomerReviews.Count"]

FlipkartPaths ==
  [title |-> "title", id |-> "productId", url |-> "productUrl",
   brand |-> <<"productBrand">>,
   price |-> <<"flipkartSpecialPrice.amount", "flipkartSellingPrice.amount">>,
   currency |-> "flipkartSellingPrice.currency",
   mrp |-> <<"maximumRetailPrice.amount">>,
   stock |-> "inStock", prose |-> "availability",
   rating |-> "productRating.average", reviews |-> "productRating.count"]

BugMyntraPaths ==
  [title |-> <<"product", "productName">>, id |-> <<"productId">>,
   url |-> "landingPageUrl", brand |-> <<"brand">>,
   price |-> <<"price", "discountedPrice">>, mrp |-> <<"mrp", "price">>,
   stock |-> "inventoryInfo", soldOut |-> "outOfStock",
   rating |-> "rating", reviews |-> "ratingCount"]

MyntraPaths ==
  [title |-> <<"product", "productName">>, id |-> <<"productId">>,
   url |-> "landingPageUrl", brand |-> <<"brand">>,
   price |-> <<"discountedPrice", "price">>, mrp |-> <<"mrp", "price">>,
   stock |-> "inventoryInfo", soldOut |-> "outOfStock",
   rating |-> "rating", reviews |-> "ratingCount"]

NykaaPaths ==
  [title |-> <<"name", "title">>, id |-> <<"sku", "product_id", "id">>,
   url |-> <<"product_url", "url">>, brand |-> <<"brand_name", "brand.name">>,
   price |-> <<"final_price", "offer_price", "price">>,
   mrp |-> <<"mrp", "list_price">>,
   stock |-> "in_stock", count |-> "quantity", prose |-> "stock_status",
   rating |-> "rating", reviews |-> <<"rating_count", "review_count">>]

----------------------------------------------------------------------------
\* Stock: a positive signal or FALSE.

AmazonInStock(raw) ==
  LET kind == FirstText(raw, <<AmazonPaths.stock>>)
      message == FirstText(raw, <<AmazonPaths.prose>>)
  IN  IF kind # Null THEN kind.what = "now"
      ELSE message # Null /\ "in stock" \in Says[message.what]

ReadsAsStock(message, markers) ==
  /\ message # Null
  /\ Says[message.what] \cap {"out of stock", "sold out"} = {}
  /\ Says[message.what] \cap markers # {}

FlipkartInStock(raw) ==
  LET inStock == Flag(raw, FlipkartPaths.stock)
  IN  IF inStock # Null THEN inStock
      ELSE ReadsAsStock(FirstText(raw, <<FlipkartPaths.prose>>), {"in stock", "left"})

BugSizeAvailable(size) == Flag(size, "available") = TRUE

\* A size with no count is taken at its flag's word.
SizeAvailable(size) ==
  /\ Flag(size, "available") = TRUE
  /\ LET count == Select(size, "inventory") IN count.is = "int" => count.n > 0

MyntraInStock(raw) ==
  LET sizes == Select(raw, MyntraPaths.stock)
      soldOut == Flag(raw, MyntraPaths.soldOut)
  IN  IF sizes.is = "list" THEN \E size \in sizes.what : SizeAvailable(size)
      ELSE soldOut # Null /\ ~soldOut

NykaaInStock(raw) ==
  LET inStock == Flag(raw, NykaaPaths.stock)
      quantity == Select(raw, NykaaPaths.count)
  IN  CASE inStock # Null -> inStock
        [] inStock = Null /\ quantity.is = "int" -> quantity.n > 0
        [] inStock = Null /\ quantity.is # "int" ->
             ReadsAsStock(FirstText(raw, <<NykaaPaths.prose>>),
                          {"in stock", "available", "low stock"})

----------------------------------------------------------------------------
\* The CanonicalProduct of an item, every field a value read or a failure.

\* urljoin: a relative url is made the marketplace's own.
MyntraUrl(raw) ==
  LET url == Select(raw, MyntraPaths.url)
  IN  CASE url.is # "text" \/ url.as = "blank" -> ParseFailed
        [] url.is = "text" /\ url.what = "broken" -> Crash
        [] url.is = "text" /\ url.what = "relative" ->
             Value([Stripped(url) EXCEPT !.what = "own"])
        [] OTHER -> Value(Stripped(url))

\* Digits only; isdigit accepts superscripts, which int does not.
NykaaReviews(raw) ==
  LET present == Present(raw, NykaaPaths.reviews)
      v == Select(raw, NykaaPaths.reviews[Min(present)])
  IN  CASE present = {} -> Value(Null)
        [] present # {} /\ v.is = "int" -> Value(v)
        [] present # {} /\ v.is = "text" /\ v.as = "super" -> Crash
        [] present # {} /\ v.is = "text"
             /\ v.as \in {"plain", "padded", "grouped"}
             /\ v.n >= 0 /\ v.n % 1000 = 0 -> Value([v EXCEPT !.is = "int"])
        [] OTHER -> ParseFailed

RequiredFirstText(raw, paths) ==
  LET t == FirstText(raw, paths) IN IF t = Null THEN ParseFailed ELSE Value(t)

\* Amazon's own copy of paise takes no commas and no sign off.
AmazonReads == {"plain", "padded"}

AmazonFields(raw) ==
  [title |-> RequiredText(raw, AmazonPaths.title),
   id |-> RequiredText(raw, AmazonPaths.id),
   url |-> RequiredText(raw, AmazonPaths.url),
   price |-> RequiredPaise(raw, AmazonPaths.price, AmazonReads),
   mrp |-> FirstPaise(raw, AmazonPaths.mrp, AmazonReads),
   currency |-> Currency(raw, AmazonPaths.currency),
   rating |-> OptionalNumber(raw, AmazonPaths.rating),
   reviews |-> OptionalInt(raw, AmazonPaths.reviews),
   in_stock |-> Value(AmazonInStock(raw)),
   brand |-> Value(FirstText(raw, AmazonPaths.brand))]

FlipkartFields(raw) ==
  [title |-> RequiredText(raw, FlipkartPaths.title),
   id |-> RequiredText(raw, FlipkartPaths.id),
   url |-> RequiredText(raw, FlipkartPaths.url),
   price |-> RequiredPaise(raw, FlipkartPaths.price, SharedReads),
   mrp |-> FirstPaise(raw, FlipkartPaths.mrp, SharedReads),
   currency |-> Currency(raw, FlipkartPaths.currency),
   rating |-> OptionalNumber(raw, FlipkartPaths.rating),
   reviews |-> OptionalInt(raw, FlipkartPaths.reviews),
   in_stock |-> Value(FlipkartInStock(raw)),
   brand |-> Value(FirstText(raw, FlipkartPaths.brand))]

MyntraFields(raw) ==
  [title |-> RequiredFirstText(raw, MyntraPaths.title),
   id |-> Identifier(raw, MyntraPaths.id),
   url |-> MyntraUrl(raw),
   price |-> RequiredPaise(raw, MyntraPaths.price, SharedReads),
   mrp |-> FirstPaise(raw, MyntraPaths.mrp, SharedReads),
   currency |-> Value("INR"),
   rating |-> OptionalNumber(raw, MyntraPaths.rating),
   reviews |-> OptionalInt(raw, MyntraPaths.reviews),
   in_stock |-> Value(MyntraInStock(raw)),
   brand |-> Value(FirstText(raw, MyntraPaths.brand))]

NykaaFields(raw) ==
  [title |-> RequiredFirstText(raw, NykaaPaths.title),
   id |-> Identifier(raw, NykaaPaths.id),
   url |-> RequiredFirstText(raw, NykaaPaths.url),
   price |-> RequiredPaise(raw, NykaaPaths.price, SharedReads),
   mrp |-> FirstPaise(raw, NykaaPaths.mrp, SharedReads),
   currency |-> Value("INR"),
   rating |-> OptionalNumber(raw, NykaaPaths.rating),
   reviews |-> NykaaReviews(raw),
   in_stock |-> Value(NykaaInStock(raw)),
   brand |-> Value(FirstText(raw, NykaaPaths.brand))]

Fields(market, raw) ==
  CASE market = "AMAZON" -> AmazonFields(raw)
    [] market = "FLIPKART" -> FlipkartFields(raw)
    [] market = "MYNTRA" -> MyntraFields(raw)
    [] market = "NYKAA" -> NykaaFields(raw)

----------------------------------------------------------------------------
\* Length of a text as recorded, spaces around it included.
Length(t) == CASE t.as = "blank" -> 1
               [] t.as = "indented" -> t.n + 2
               [] t.as = "words" -> t.n
               [] OTHER -> 1

\* Rule 7: nan and numbers out of range fail.
Judged(v) == v.as = "plain" /\ v.n \in 0 .. 5000

\* The rules of VALIDATION_RULES.md section 1; marketplace and in_stock are
\* what rules 4 and 9 ask for by construction.
Valid(p) ==
  /\ p.title.as # "blank" /\ Length(Stripped(p.title)) <= 500
  /\ p.price > 0
  /\ p.mrp # Null => p.mrp >= p.price
  /\ p.id.as # "blank"
  /\ p.url.as # "blank" /\ p.url.what \notin {"foreign", "relative"}
  /\ p.rating # Null => Judged(p.rating)
  /\ p.reviews # Null => p.reviews.n >= 0

BugValidate(p) ==
  CASE p.url.what = "broken" -> Crash
    [] p.url.what # "broken" /\ ~Valid(p) -> ParseFailed
    [] p.url.what # "broken" /\ Valid(p) -> Value(p)

\* Every rule is looked at, so a url that cannot be parsed raises ValueError
\* whatever else is broken.
Validate(p) ==
  CASE p.url.what = "broken" -> Crash
    [] p.url.what # "broken" /\ ~Valid(p) -> ParseFailed
    [] p.url.what # "broken" /\ Valid(p) -> Value([p EXCEPT !.title = Stripped(@)])

\* The constructor's arguments are read in this order; the first that fails
\* decides.
FieldOrder == <<"title", "id", "url", "price", "mrp", "currency", "rating",
                "reviews">>

Normalize(market, raw) ==
  LET fields == Fields(market, raw)
      bad == {i \in DOMAIN FieldOrder : fields[FieldOrder[i]].end # "value"}
  IN  IF bad # {} THEN fields[FieldOrder[Min(bad)]]
      ELSE Validate([f \in DOMAIN fields |-> fields[f].val])

----------------------------------------------------------------------------
\* The schema LISTING_DISCOVERED holds a product to when it is published.
SchemaAccepts(p) ==
  /\ Length(p.title) \in 1 .. 500
  /\ Length(p.id) >= 1
  /\ p.price > 0
  /\ p.rating # Null => Judged(p.rating)
  /\ p.reviews # Null => p.reviews.n >= 0

\* What VARCHAR(n) and INTEGER columns hold.
Fits(p) ==
  /\ Length(p.title) <= 500
  /\ Length(p.id) <= 200
  /\ Length(p.url) <= 1000
  /\ p.price <= MaxInteger
  /\ p.mrp # Null => p.mrp <= MaxInteger
  /\ p.reviews # Null => p.reviews.as # "huge" /\ p.reviews.n \div 1000 <= MaxInteger
============================================================================
