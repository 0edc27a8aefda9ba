---------------------------- MODULE MCIngestion ----------------------------
(***************************************************************************)
(* Pages of the four marketplaces: one offer in every form its shape       *)
(* allows, one field at a time that is odd, and feeds of several items     *)
(* whose brands are spelled apart.  Amounts are rupees in thousandths.     *)
(***************************************************************************)
EXTENDS Ingestion, TLC

CONSTANTS w1, w2

Workers == Permutations({w1, w2})

Words(what, length) == Json("text", "words", length, what)
Word(what) == Words(what, 10)
Whole(n) == Json("int", "plain", n, "")
Decimal(n) == Json("float", "plain", n, "")
Quoted(as, n) == Json("text", as, n, "")
Bool(b) == Json("bool", "plain", IF b THEN 1 ELSE 0, "")
List(entries) == Json("list", "plain", 0, entries)

\* The markers that what a page says contains.
MCSays ==
  "in stock" :> {"in stock"} @@ "only 2 left" :> {"left"}
  @@ "low stock" :> {"low stock"} @@ "available" :> {"available"}
  @@ "out of stock" :> {"out of stock"} @@ "sold out" :> {"sold out"}
  @@ "currently unavailable" :> {"available"} @@ "coming soon" :> {}

MCName == {"Nike", "NIKE", "nike", "Air  Max", "Air Max"}
MCCollapsed == [n \in MCName |-> IF n = "Air  Max" THEN "Air Max" ELSE n]
MCFolded == "Nike" :> "nike" @@ "NIKE" :> "nike" @@ "nike" :> "nike"
            @@ "Air  Max" :> "air  max" @@ "Air Max" :> "air max"

\* 999.355 rupees now, 1299.996 before: a half and more than a half of a paisa
\* to round.  MaxInteger is 1500 rupees.
Paid == 999355
Struck == 1299996

Deal(struck, buyable) ==
  [paid |-> Paid, struck |-> struck, buyable |-> buyable, page |-> "sound"]

----------------------------------------------------------------------------
\* What is common to the marketplaces' items: the path of each field.
Key(market) ==
  CASE market = "AMAZON" ->
         [title |-> "ItemInfo.Title", id |-> "ASIN", url |-> "DetailPageURL",
          brand |-> "ByLineInfo.Brand", price |-> "Price.Amount",
          currency |-> "Price.Currency", mrp |-> "SavingBasis.Amount", rating |-> "StarRating",
          reviews |-> "CustomerReviews.Count"]
    [] market = "FLIPKART" ->
         [title |-> "title", id |-> "productId", url |-> "productUrl",
          brand |-> "productBrand", price |-> "flipkartSellingPrice.amount",
          currency |-> "flipkartSellingPrice.currency",
          mrp |-> "maximumRetailPrice.amount", rating |-> "productRating.average",
          reviews |-> "productRating.count"]
    [] market = "MYNTRA" ->
         [title |-> "productName", id |-> "productId", url |-> "landingPageUrl",
          brand |-> "brand", price |-> "price", mrp |-> "mrp",
          rating |-> "rating", reviews |-> "ratingCount"]
    [] market = "NYKAA" ->
         [title |-> "title", id |-> "id", url |-> "url", brand |-> "brand.name",
          price |-> "price", mrp |-> "list_price", rating |-> "rating",
          reviews |-> "review_count"]

Base(market, id, brand) ==
  LET key == Key(market) IN
  key.title :> Words("a pair of shoes", 499) @@ key.id :> Word(id)
  @@ key.url :> Word("own")
  @@ (IF brand = Null THEN <<>> ELSE key.brand :> Word(brand))

\* The forms in which a page asks n.
Forms(market, n) ==
  {Decimal(n), Quoted("plain", n)}
  \cup IF market = "AMAZON" THEN {}
       ELSE {Quoted("grouped", n), Quoted("rupee", n)}

\* Paid against a struck-out amount, and paid with nothing struck out.
Discounted(market, p, m) ==
  CASE market = "AMAZON" -> {"Price.Amount" :> p @@ "SavingBasis.Amount" :> m}
    [] market = "FLIPKART" ->
         {"flipkartSpecialPrice.amount" :> p @@ "flipkartSellingPrice.amount" :> m
            @@ "maximumRetailPrice.amount" :> m,
          "flipkartSellingPrice.amount" :> p @@ "maximumRetailPrice.amount" :> m}
    [] market = "MYNTRA" ->
         {"discountedPrice" :> p @@ "price" :> m,
          "discountedPrice" :> p @@ "mrp" :> m @@ "price" :> m}
    [] market = "NYKAA" ->
         {"final_price" :> p @@ "offer_price" :> m @@ "mrp" :> m,
          "offer_price" :> p @@ "price" :> m @@ "list_price" :> m}

Plain(market, p) ==
  CASE market = "AMAZON" -> {"Price.Amount" :> p}
    [] market = "FLIPKART" -> {"flipkartSellingPrice.amount" :> p}
    [] market = "MYNTRA" -> {"price" :> p}
    [] market = "NYKAA" -> {"price" :> p}

\* How a page says that it can be bought, and that it cannot.
Size(flag, count) ==
  "available" :> Bool(flag) @@ (IF count < 0 THEN <<>> ELSE "inventory" :> Whole(count))

InStock(market) ==
  CASE market = "AMAZON" ->
         {"Availability.Type" :> Word("now"),
          "Availability.Message" :> Word("in stock")}
    [] market = "FLIPKART" ->
         {"inStock" :> Bool(TRUE), "availability" :> Word("only 2 left")}
    [] market = "MYNTRA" ->
         {"inventoryInfo" :> List({Size(TRUE, 0), Size(TRUE, 2000)}),
          "inventoryInfo" :> List({Size(TRUE, -1)}), "outOfStock" :> Bool(FALSE)}
    [] market = "NYKAA" ->
         {"in_stock" :> Bool(TRUE), "quantity" :> Whole(3000),
          "stock_status" :> Word("low stock")}

SoldOut(market) ==
  CASE market = "AMAZON" ->
         {<<>>, "Availability.Type" :> Word("backorder")
                @@ "Availability.Message" :> Word("in stock"),
          "Availability.Message" :> Word("currently unavailable")}
    [] market = "FLIPKART" ->
         {<<>>, "inStock" :> Bool(FALSE) @@ "availability" :> Word("in stock"),
          "availability" :> Word("out of stock")}
    [] market = "MYNTRA" ->
         {"inventoryInfo" :> List({Size(TRUE, 0), Size(FALSE, 2000)}),
          "inventoryInfo" :> List({}) @@ "outOfStock" :> Bool(FALSE),
          "outOfStock" :> Bool(TRUE), "outOfStock" :> Word("false")}
    [] market = "NYKAA" ->
         {"in_stock" :> Bool(FALSE) @@ "quantity" :> Whole(3000),
          "in_stock" :> Word("true") @@ "quantity" :> Whole(0),
          "stock_status" :> Word("sold out"), "stock_status" :> Word("coming soon")}

----------------------------------------------------------------------------
\* Items with one odd field: left out, stored, or fatal to the connector.
Odd(market) ==
  LET key == Key(market) IN
  [sound |->
     {key.title :> Json("text", "indented", 499, "a pair of shoes"),
      key.url :> Word(IF market = "MYNTRA" THEN "relative" ELSE "own")}
     \cup IF market \in {"AMAZON", "FLIPKART"} THEN {}
          ELSE {key.id :> Json("int", "plain", 0, "1466678")},
   malformed |->
     {key.title :> Words("too long", 501), key.id :> Quoted("blank", 0),
      key.id :> Bool(TRUE), key.url :> Word("foreign"), key.price :> Decimal(4),
      key.mrp :> Whole(1000), key.rating :> Decimal(5100),
      key.rating :> Json("float", "notfinite", 0, ""), key.reviews :> Whole(-1000)}
     \cup CASE market = "AMAZON" -> {key.price :> Quoted("rupee", Paid),
                                     key.currency :> Word("USD")}
            [] market = "FLIPKART" -> {key.currency :> Word("USD")}
            [] OTHER -> {key.price :> Quoted("notfinite", 0)},
   wide |->
     {key.id :> Words("too wide", 201), key.price :> Whole(1600000),
      key.reviews :> Json("int", "huge", 0, "")},
   fatal |->
     {key.url :> Word("broken"), key.price :> Quoted("huge", 0),
      key.rating :> Json("int", "huge", 0, "")}
     \cup IF market = "NYKAA" THEN {key.reviews :> Quoted("super", 2000)} ELSE {}]

Item(raw, offer) == [raw |-> raw, offer |-> offer]

Sure(market) == CHOOSE s \in InStock(market) : TRUE
Usual(market) == Plain(market, Decimal(Paid))

Page(market, money, stock, offer) ==
  Item(money @@ stock @@ Base(market, "A1", "Nike"), offer)

PricedPages(market) ==
  {Page(market, money, Sure(market), Deal(Struck, TRUE)) : money \in
     UNION {Discounted(market, p, Decimal(Struck)) : p \in Forms(market, Paid)}}
  \cup {Page(market, money, Sure(market), Deal(Null, TRUE)) : money \in
     UNION {Plain(market, p) : p \in Forms(market, Paid)}}

StockedPages(market) ==
  {Page(market, money, stock, Deal(Null, TRUE)) :
     money \in Usual(market), stock \in InStock(market)}
  \cup {Page(market, money, stock, Deal(Null, FALSE)) :
     money \in Usual(market), stock \in SoldOut(market)}

\* The offer of an odd page is what its odd field says.
OddOffer(market, odd, page) ==
  LET key == Key(market) IN
  [paid |-> IF key.price \in DOMAIN odd THEN odd[key.price].n ELSE Paid,
   struck |-> IF key.mrp \in DOMAIN odd THEN odd[key.mrp].n ELSE Null,
   buyable |-> TRUE, page |-> page]

OddPages(market) ==
  UNION {{Item(odd @@ money @@ Sure(market) @@ Base(market, "A1", "Nike"),
               OddOffer(market, odd, page)) :
            odd \in Odd(market)[page], money \in Usual(market)} :
         page \in {"sound", "malformed", "wide", "fatal"}}

Pages(market) == PricedPages(market) \cup StockedPages(market) \cup OddPages(market)

Spelled(id, brand) ==
  Item(Base("AMAZON", id, brand) @@ ("Price.Amount" :> Decimal(Paid)), Deal(Null, FALSE))

Feed(market, items, times) == [market |-> market, items |-> items, polls |-> times]

\* Every page of every marketplace once.
PageFeeds == UNION {{Feed(m, <<page>>, 1) : page \in Pages(m)} : m \in Marketplace}

\* Brands spelled apart, on listings of their own and on one listing.
BrandFeeds ==
  {Feed("AMAZON", <<Spelled("A1", "Nike"), Spelled("A2", "NIKE"), Spelled("A3", "nike")>>, 1),
   Feed("AMAZON", <<Spelled("A1", "Air  Max"), Spelled("A2", "Air Max")>>, 1),
   Feed("AMAZON", <<Spelled("A1", Null), Spelled("A1", "Nike")>>, 1),
   Feed("AMAZON", <<Spelled("A1", "Nike"), Spelled("A1", "NIKE")>>, 1)}

\* A page of each kind before a sound one, polled again; and what publishes one
\* entry a poll, polled more often than a failure can lose entries.
Some(kind) == CHOOSE page \in OddPages("AMAZON") : page.offer.page = kind

RepeatedFeeds ==
  {Feed("AMAZON", <<Some(kind), Spelled("A2", "Nike")>>,
        IF kind = "malformed" THEN 3 ELSE 2) :
     kind \in {"sound", "malformed", "wide", "fatal"}}
  \cup {Feed("AMAZON", <<Spelled("A2", "Nike"), Some("fatal")>>, 3)}

\* A Nykaa page with prose that denies what it seems to say.
MCUnavailable ==
  {Feed("NYKAA", <<Page("NYKAA", money, "stock_status" :> Word("currently unavailable"),
                        Deal(Null, FALSE))>>, 2) : money \in Usual("NYKAA")}

MCFeeds == PageFeeds \cup BrandFeeds \cup RepeatedFeeds

\* The pages of MCFeeds mean what they say of their stock.
ASSUME PagesAssumption == MeanIt(MCFeeds)
============================================================================
