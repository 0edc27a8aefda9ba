--------------------------- MODULE ListingProofs ---------------------------
(***************************************************************************)
(* What a connector makes of one raw item, for every item of every         *)
(* marketplace: the amounts it reads, and that what the nine rules let     *)
(* through, the schema of its event accepts.                               *)
(***************************************************************************)
EXTENDS Listing, WellFoundedInduction, TLAPS

-----------------------------------------------------------------------------
(***************************************************************************)
(* Lookups.                                                                *)
(***************************************************************************)

LEMMA MinIsFirst ==
  ASSUME NEW S \in SUBSET Nat, S # {}
  PROVE  Min(S) \in S /\ \A i \in S : Min(S) <= i
<1>1. \E x \in S : \A y \in S : ~ <<y, x>> \in OpToRel(<, Nat)
  BY WFMin, NatLessThanWellFounded, Zenon
<1>2. \E x \in S : \A y \in S : ~ (y < x)
  BY <1>1, Zenon DEF OpToRel
<1>3. \E x \in S : \A y \in S : x <= y
  BY <1>2
<1> QED
  BY <1>3 DEF Min

IsJson(v) ==
  /\ v = Json(v.is, v.as, v.n, v.what)
  /\ v.as \in {"words", "indented"} => v.n \in Nat \ {0}

IsItem(raw) == \A path \in DOMAIN raw : IsJson(raw[path])

\* A text that is read is never empty.
LEMMA LengthIsPositive ==
  ASSUME NEW v, IsJson(v)
  PROVE  Length(v) \in Nat /\ Length(v) >= 1
  BY DEF IsJson, Length

LEMMA SelectedIsJson ==
  ASSUME NEW raw, IsItem(raw), NEW path
  PROVE  IsJson(Select(raw, path))
  BY DEF IsItem, IsJson, Select, Absent, Json

LEMMA StrippedIsJson ==
  ASSUME NEW v, IsJson(v)
  PROVE  IsJson(Stripped(v))
<1>1. CASE v.as = "indented"
  BY <1>1 DEF IsJson, Stripped, Json
<1>2. CASE v.as = "padded"
  BY <1>2 DEF IsJson, Stripped, Json
<1>3. CASE v.as \notin {"indented", "padded"}
  BY <1>3 DEF IsJson, Stripped, Json
<1> QED
  BY <1>1, <1>2, <1>3

LEMMA FirstTextIsJson ==
  ASSUME NEW raw, IsItem(raw), NEW paths, FirstText(raw, paths) # Null
  PROVE  IsJson(FirstText(raw, paths))
  BY SelectedIsJson, StrippedIsJson DEF FirstText

LEMMA RequiredTextIsJson ==
  ASSUME NEW raw, IsItem(raw), NEW path,
         RequiredText(raw, path).end = "value"
  PROVE  IsJson(RequiredText(raw, path).val)
  BY SelectedIsJson DEF RequiredText, Value, ParseFailed

LEMMA RequiredFirstTextIsJson ==
  ASSUME NEW raw, IsItem(raw), NEW paths,
         RequiredFirstText(raw, paths).end = "value"
  PROVE  IsJson(RequiredFirstText(raw, paths).val)
  BY FirstTextIsJson DEF RequiredFirstText, Value, ParseFailed

LEMMA IdentifierIsJson ==
  ASSUME NEW raw, IsItem(raw), NEW paths,
         Identifier(raw, paths).end = "value"
  PROVE  IsJson(Identifier(raw, paths).val)
<1> DEFINE tried == {i \in DOMAIN paths : LET v == Select(raw, paths[i])
                                         IN  v.is # "absent" /\ v.as # "blank"}
           v == Select(raw, paths[Min(tried)])
<1>1. IsJson(v) /\ IsJson(Stripped(v))
  BY SelectedIsJson, StrippedIsJson
<1>2. Identifier(raw, paths) = IF tried = {} \/ v.is \notin {"text", "int"}
        THEN ParseFailed ELSE Value([Stripped(v) EXCEPT !.is = "text"])
  BY DEF Identifier
<1> HIDE DEF v, tried
<1>3. IsJson([Stripped(v) EXCEPT !.is = "text"])
  BY <1>1 DEF IsJson, Json
<1> QED
  BY <1>2, <1>3 DEF Value, ParseFailed

LEMMA FieldsAreTexts ==
  ASSUME NEW market \in Marketplace, NEW raw, IsItem(raw)
  PROVE  LET fields == Fields(market, raw) IN
         /\ DOMAIN fields = {"title", "id", "url", "price", "mrp", "currency",
                             "rating", "reviews", "in_stock", "brand"}
         /\ fields = [f \in DOMAIN fields |-> fields[f]]
         /\ fields.title.end = "value" => IsJson(fields.title.val)
         /\ fields.id.end = "value" => IsJson(fields.id.val)
<1>1. CASE market = "AMAZON"
  BY <1>1, RequiredTextIsJson DEF Fields, AmazonFields
<1>2. CASE market = "FLIPKART"
  BY <1>2, RequiredTextIsJson DEF Fields, FlipkartFields
<1>3. CASE market = "MYNTRA"
  BY <1>3, RequiredFirstTextIsJson, IdentifierIsJson DEF Fields, MyntraFields
<1>4. CASE market = "NYKAA"
  BY <1>4, RequiredFirstTextIsJson, IdentifierIsJson DEF Fields, NykaaFields
<1> QED
  BY <1>1, <1>2, <1>3, <1>4 DEF Marketplace

LEMMA ValidatedIsAccepted ==
  ASSUME NEW p, p = [f \in DOMAIN p |-> p[f]], "title" \in DOMAIN p,
         IsJson(p.title), IsJson(p.id), Validate(p).end = "value"
  PROVE  /\ SchemaAccepts(Validate(p).val)
         /\ Validate(p).val = [p EXCEPT !.title = Stripped(@)]
<1> DEFINE q == [p EXCEPT !.title = Stripped(@)]
<1>1. Valid(p) /\ Validate(p) = Value(q)
  BY DEF Validate, Value, Crash, ParseFailed
<1>2. /\ q.title = Stripped(p.title)
      /\ q.id = p.id /\ q.price = p.price
      /\ q.rating = p.rating /\ q.reviews = p.reviews
  OBVIOUS
<1>3. Length(Stripped(p.title)) \in 1 .. 500 /\ Length(p.id) >= 1
  BY <1>1, StrippedIsJson, LengthIsPositive DEF Valid
<1> HIDE DEF q
<1>4. SchemaAccepts(q)
  BY <1>1, <1>2, <1>3 DEF Valid, SchemaAccepts
<1> QED
  BY <1>1, <1>4 DEF Value, q

\* An item that is let through had every field read and was validated.
LEMMA NormalizedIsValidated ==
  ASSUME NEW market, NEW raw, Normalize(market, raw).end = "value"
  PROVE  LET fields == Fields(market, raw)
             p == [f \in DOMAIN fields |-> fields[f].val]
         IN  /\ \A i \in DOMAIN FieldOrder : fields[FieldOrder[i]].end = "value"
             /\ Normalize(market, raw) = Validate(p)
             /\ Validate(p).end = "value"
<1> DEFINE fields == Fields(market, raw)
           bad == {i \in DOMAIN FieldOrder : fields[FieldOrder[i]].end # "value"}
<1>1. bad = {}
  <2> SUFFICES ASSUME bad # {} PROVE FALSE
    OBVIOUS
  <2>1. bad \in SUBSET Nat
    BY DEF FieldOrder
  <2>2. Min(bad) \in bad
    BY <2>1, MinIsFirst
  <2>3. Normalize(market, raw) = fields[FieldOrder[Min(bad)]]
    BY DEF Normalize
  <2> QED
    BY <2>2, <2>3
<1> QED
  BY <1>1 DEF Normalize

\* All that validate() changes of a product is the trim of its title.
LEMMA ValidatedIsTheProduct ==
  ASSUME NEW p, Validate(p).end = "value"
  PROVE  Validate(p).val = [p EXCEPT !.title = Stripped(@)]
  BY DEF Validate, Value, Crash, ParseFailed

LEMMA NormalizedIsAccepted ==
  ASSUME NEW market \in Marketplace, NEW raw, IsItem(raw),
         Normalize(market, raw).end = "value"
  PROVE  LET p == Normalize(market, raw).val IN
         /\ SchemaAccepts(p)
         /\ p.brand = Fields(market, raw).brand.val
<1> DEFINE fields == Fields(market, raw)
           p == [f \in DOMAIN fields |-> fields[f].val]
<1>1. /\ \A i \in DOMAIN FieldOrder : fields[FieldOrder[i]].end = "value"
      /\ Normalize(market, raw) = Validate(p)
      /\ Validate(p).end = "value"
  BY NormalizedIsValidated
<1>2. fields["title"].end = "value" /\ fields["id"].end = "value"
  <2> HIDE DEF fields
  <2>1. fields[FieldOrder[1]].end = "value" /\ fields[FieldOrder[2]].end = "value"
    BY <1>1 DEF FieldOrder
  <2> QED
    BY <2>1 DEF FieldOrder
<1>3. /\ DOMAIN p = DOMAIN fields /\ "title" \in DOMAIN p /\ "id" \in DOMAIN p
      /\ "brand" \in DOMAIN p
      /\ IsJson(p.title) /\ IsJson(p.id)
  BY <1>2, FieldsAreTexts
<1>4. p.brand = fields.brand.val
  BY <1>3
<1> HIDE DEF p, fields
<1>5. p = [f \in DOMAIN p |-> p[f]]
  BY DEF p
<1>6. SchemaAccepts(Validate(p).val) /\ Validate(p).val = [p EXCEPT !.title = Stripped(@)]
  BY <1>1, <1>3, <1>5, ValidatedIsAccepted
<1>7. [p EXCEPT !.title = Stripped(@)].brand = p.brand
  BY <1>3, <1>5
<1> QED
  BY <1>1, <1>4, <1>6, <1>7 DEF fields

\* The money of a product is what was read of its item.
LEMMA NormalizedMoney ==
  ASSUME NEW market \in Marketplace, NEW raw, IsItem(raw),
         Normalize(market, raw).end = "value"
  PROVE  LET fields == Fields(market, raw)
             p == Normalize(market, raw).val
         IN  /\ fields.price.end = "value" /\ p.price = fields.price.val
             /\ fields.mrp.end = "value" /\ p.mrp = fields.mrp.val
<1> DEFINE fields == Fields(market, raw)
           p == [f \in DOMAIN fields |-> fields[f].val]
<1>1. /\ \A i \in DOMAIN FieldOrder : fields[FieldOrder[i]].end = "value"
      /\ Normalize(market, raw) = Validate(p)
      /\ Validate(p).end = "value"
  BY NormalizedIsValidated
<1>2. fields["price"].end = "value" /\ fields["mrp"].end = "value"
  <2> HIDE DEF fields
  <2>1. fields[FieldOrder[4]].end = "value" /\ fields[FieldOrder[5]].end = "value"
    BY <1>1 DEF FieldOrder
  <2> QED
    BY <2>1 DEF FieldOrder
<1>3. DOMAIN p = DOMAIN fields /\ {"title", "price", "mrp"} \subseteq DOMAIN p
  BY FieldsAreTexts
<1>4. p.price = fields.price.val /\ p.mrp = fields.mrp.val
  BY <1>3
<1> HIDE DEF p, fields
<1>5. p = [f \in DOMAIN p |-> p[f]]
  BY DEF p
<1>6. Validate(p).val = [p EXCEPT !.title = Stripped(@)]
  BY <1>1, ValidatedIsTheProduct
<1>7. Validate(p).val.price = p.price /\ Validate(p).val.mrp = p.mrp
  BY <1>3, <1>5, <1>6
<1> QED
  BY <1>1, <1>2, <1>4, <1>7 DEF fields

\* And so is its stock.
LEMMA NormalizedStock ==
  ASSUME NEW market \in Marketplace, NEW raw, IsItem(raw),
         Normalize(market, raw).end = "value"
  PROVE  Normalize(market, raw).val.in_stock = Fields(market, raw).in_stock.val
<1> DEFINE fields == Fields(market, raw)
           p == [f \in DOMAIN fields |-> fields[f].val]
<1>1. Normalize(market, raw) = Validate(p) /\ Validate(p).end = "value"
  BY NormalizedIsValidated
<1>2. DOMAIN p = DOMAIN fields /\ {"title", "in_stock"} \subseteq DOMAIN p
  BY FieldsAreTexts
<1>3. p.in_stock = fields.in_stock.val
  BY <1>2
<1> HIDE DEF p, fields
<1>4. p = [f \in DOMAIN p |-> p[f]]
  BY DEF p
<1>5. Validate(p).val = [p EXCEPT !.title = Stripped(@)]
  BY <1>1, ValidatedIsTheProduct
<1>6. Validate(p).val.in_stock = p.in_stock
  BY <1>2, <1>4, <1>5
<1> QED
  BY <1>1, <1>3, <1>6 DEF fields

-----------------------------------------------------------------------------
\* Rupees to paise (raw_mapping.paise).

\* ROUND_HALF_UP is off by half a paisa at most, below zero as well.
LEMMA HalfUpIsNearest ==
  ASSUME NEW m \in Int
  PROVE  HalfUp(m) \in Int /\ IsPaiseOf(HalfUp(m), m)
<1>1. CASE m >= 0
  BY <1>1 DEF HalfUp, IsPaiseOf
<1>2. CASE m < 0
  BY <1>2 DEF HalfUp, IsPaiseOf
<1> QED
  BY <1>1, <1>2

\* An amount that is read at all is read to half a paisa, whichever forms a
\* marketplace may quote it in.
THEOREM PaiseAreNearest ==
  ASSUME NEW v, v.n \in Int, NEW reads, Paise(v, reads).end = "value"
  PROVE  IsPaiseOf(Paise(v, reads).val, v.n)
<1>1. Paise(v, reads) = Value(HalfUp(v.n))
  BY DEF Paise, Value, ParseFailed, Crash
<1> QED
  BY <1>1, HalfUpIsNearest DEF Value

\* The paise that are read are those of the first value that is there.
LEMMA FirstPaiseIsFirst ==
  ASSUME NEW raw, NEW paths, DOMAIN paths \in SUBSET Nat, NEW reads,
         FirstPaise(raw, paths, reads).end = "value"
  PROVE  IF Present(raw, paths) = {}
         THEN FirstPaise(raw, paths, reads).val = Null
         ELSE \E i \in Present(raw, paths) :
                /\ \A j \in Present(raw, paths) : i <= j
                /\ FirstPaise(raw, paths, reads).val
                     = HalfUp(Select(raw, paths[i]).n)
<1> DEFINE present == Present(raw, paths)
<1>1. CASE present = {}
  BY <1>1 DEF FirstPaise, Value
<1>2. CASE present # {}
  <2>1. present \in SUBSET Nat
    BY DEF Present
  <2>2. Min(present) \in present /\ \A j \in present : Min(present) <= j
    BY <1>2, <2>1, MinIsFirst
  <2> DEFINE v == Select(raw, paths[Min(present)])
  <2>3. FirstPaise(raw, paths, reads) = Paise(v, reads)
    BY <1>2 DEF FirstPaise
  <2> HIDE DEF v
  <2>4. Paise(v, reads).end = "value" => Paise(v, reads).val = HalfUp(v.n)
    BY DEF Paise, Value, ParseFailed, Crash
  <2> QED
    BY <1>2, <2>2, <2>3, <2>4 DEF v
<1> QED
  BY <1>1, <1>2

LEMMA RequiredPaiseIsThere ==
  ASSUME NEW raw, NEW paths, NEW reads,
         RequiredPaise(raw, paths, reads).end = "value"
  PROVE  /\ RequiredPaise(raw, paths, reads) = FirstPaise(raw, paths, reads)
         /\ Present(raw, paths) # {}
  BY DEF RequiredPaise, FirstPaise, ParseFailed, Value

\* Rounding keeps the order of amounts: it never lifts a price over its mrp,
\* so rule 3 rejects no page whose amounts are in order.
THEOREM RoundingKeepsOrder ==
  ASSUME NEW a \in Int, NEW b \in Int, a <= b
  PROVE  HalfUp(a) <= HalfUp(b)
<1>1. CASE a >= 0
  BY <1>1 DEF HalfUp
<1>2. CASE a < 0 /\ b >= 0
  BY <1>2 DEF HalfUp
<1>3. CASE b < 0
  BY <1>3 DEF HalfUp
<1> QED
  BY <1>1, <1>2, <1>3
============================================================================
