-------------------------- MODULE IngestionProofs --------------------------
(***************************************************************************)
(* For every feed, every set of workers and brand names and every number   *)
(* of failures: the connector publishes nothing its schema refuses, what   *)
(* it publishes is its items' in their order and at their prices, the      *)
(* products hang on their brands, brands split at most once per worker, a  *)
(* tier is missed only where TierIsSeen says, and nobody waits in a circle.*)
(***************************************************************************)
EXTENDS Ingestion, ListingProofs, FiniteSetTheorems, SequenceTheorems

-----------------------------------------------------------------------------
(***************************************************************************)
(* The inductive invariant.  The connector: what it holds is fit to be     *)
(* published, and its counts belong to the items it has read.              *)
(***************************************************************************)
Good(f) == {i \in DOMAIN f.items : Outcome[f][i].end = "value"}

Fit == {p \in UNION {{Outcome[f][i].val : i \in Good(f)} : f \in Feeds} :
          SchemaAccepts(p) /\ (p.brand # Null => p.brand.what \in Name)}

Counts == [published : Nat, skipped : Nat]
Polling == at \in {"fetch", "publish"}

ConnectorTypes ==
  /\ feed \in Feeds
  /\ at \in {"down", "rest", "fetch", "publish"}
  /\ next \in Nat /\ next <= Len(feed.items) + 1
  /\ batch \in Counts /\ totals \in Counts
  /\ polls \in Nat /\ polls <= feed.polls
  /\ faults \in Nat /\ faults <= MaxFaults
  /\ stream \in Seq([item : Place, product : Fit])

InHand ==
  /\ at = "publish" => product \in Fit /\ next <= Len(feed.items)
  /\ at # "publish" => product = Null

\* What the polls begun so far can have read.
Readable == polls * Len(feed.items)

Counted ==
  /\ Polling => batch.published + batch.skipped + 1 = next /\ polls > 0
  /\ ~Polling => batch = NoCounts
  /\ totals.published + batch.published <= Len(stream)
  /\ Polling => totals.skipped + Len(feed.items) <= Readable
  /\ ~Polling => totals.skipped <= Readable

ConnectorInv == ConnectorTypes /\ InHand /\ Counted

(***************************************************************************)
(* The catalogue: what a worker's transaction has done by the phase it is  *)
(* in; of two transactions only one holds a listing; and the rows a brand  *)
(* has, with the workers that may still add one, are at most the workers.  *)
(***************************************************************************)
Phase == {"idle", "down", "find", "update", "resolve", "create", "reread",
          "store", "tier", "commit"}

Txn == [brand : Name \cup {Null}, use : Name \cup {Null}, holds : BOOLEAN,
        row : BOOLEAN, found : BOOLEAN]

CatalogTypes ==
  /\ taken \in Nat /\ taken <= Len(stream)
  /\ phase \in [Worker -> Phase]
  /\ job \in [Worker -> Nat] /\ upto \in [Worker -> Nat]
  /\ \A w \in Worker : job[w] <= upto[w] /\ upto[w] <= taken
  /\ \A w \in Worker : (job[w] # 0) <=> (phase[w] \notin {"idle", "down"})
  /\ txn \in [Worker -> Txn]
  /\ brands \in SUBSET Name /\ IsFiniteSet(brands)
  /\ \A k \in done : k \in 1 .. taken
  /\ unbranded \subseteq done
  /\ \A r \in rows : r.by \in done /\ r.id = Found(r.by).id

Resolved(w) ==
  LET name == CleanName(Job(w)) IN
  /\ name = Null => txn[w].use = Null
  /\ name # Null => /\ txn[w].use \in VisibleBrands(w)
                    /\ Folded[txn[w].use] = Folded[name]

Spared(p) ==
  LET name == RawName(p) IN
  \/ name = Null
  \/ Collapsed[name] # name
  \/ \E r \in rows : /\ r.id = p.id
                     /\ r.brand = Null \/ Folded[r.brand] # Folded[name]

Early == {"idle", "down", "find", "update", "resolve", "create", "reread"}

Progress(w) ==
  /\ phase[w] \in Early => txn[w] = NoWork
  /\ phase[w] \in {"create", "reread"} => CleanName(Job(w)) # Null
  /\ phase[w] = "store" => ~txn[w].holds /\ ~txn[w].row /\ Resolved(w)
  /\ txn[w].row => txn[w].holds /\ Resolved(w) /\ ~Listed(Job(w))
  /\ phase[w] \in {"update", "tier", "commit"} /\ ~txn[w].row => Listed(Job(w))
  /\ phase[w] = "commit" /\ ~txn[w].found => Spared(Job(w))

Apart ==
  \A v, w \in Worker :
    v # w /\ txn[v].holds /\ txn[w].holds => Job(v).id # Job(w).id

OneRowEach == \A r, s \in rows : r.id = s.id => r = s

MissesAreSpared == \A k \in unbranded : Spared(Found(k))

Spellings(b) == {c \in brands : Folded[c] = Folded[b]}

MayAdd(w, b) ==
  \/ phase[w] = "create" /\ Folded[CleanName(Job(w))] = Folded[b]
  \/ txn[w].brand # Null /\ Folded[txn[w].brand] = Folded[b]

Racing(b) == {w \in Worker : MayAdd(w, b)}

RaceIsBounded ==
  \A b \in brands :
    Cardinality(Spellings(b)) + Cardinality(Racing(b)) <= Cardinality(Worker)

CatalogInv ==
  /\ CatalogTypes
  /\ \A w \in Worker : Progress(w)
  /\ Apart
  /\ OneRowEach
  /\ ProductHasItsBrand
  /\ MissesAreSpared
  /\ RaceIsBounded

Inv == ConnectorInv /\ CatalogInv

-----------------------------------------------------------------------------
LEMMA FeedFacts ==
  ASSUME feed \in Feeds
  PROVE  /\ feed.market \in Marketplace
         /\ feed.polls \in Nat
         /\ Len(feed.items) \in Nat
         /\ DOMAIN feed.items = 1 .. Len(feed.items)
         /\ \A i \in DOMAIN feed.items : IsItem(feed.items[i].raw)
  BY FeedsAssumption DEF IsItem, IsJson

LEMMA NormalizedIsFit ==
  ASSUME feed \in Feeds, NEW i \in 1 .. Len(feed.items),
         Normalized(i).end = "value"
  PROVE  Normalized(i).val \in Fit
<1> DEFINE raw == feed.items[i].raw
           p == Normalize(feed.market, raw).val
<1>1. i \in DOMAIN feed.items /\ IsItem(raw) /\ feed.market \in Marketplace
  BY FeedFacts
<1>2. Outcome[feed][i] = Normalize(feed.market, raw)
  BY <1>1 DEF Outcome
<1>3. SchemaAccepts(p) /\ p.brand = Fields(feed.market, raw).brand.val
  BY <1>1, <1>2, NormalizedIsAccepted DEF Normalized
<1>4. p.brand # Null => p.brand.what \in Name
  BY <1>1, <1>3, SpellingAssumption
<1>5. i \in Good(feed) /\ p = Outcome[feed][i].val
  BY <1>1, <1>2 DEF Good, Normalized
<1> HIDE DEF p
<1> QED
  BY <1>3, <1>4, <1>5 DEF Fit, Normalized

\* No entry is taken back or altered.
StreamGrows ==
  /\ Len(stream') >= Len(stream)
  /\ \A k \in Entries : stream'[k] = stream[k]

LEMMA MayFailCounts ==
  ASSUME faults \in Nat, faults <= MaxFaults, MayFail
  PROVE  faults' \in Nat /\ faults' <= MaxFaults
  BY MaxFaultsAssumption DEF MayFail

LEMMA AddedIsTyped ==
  ASSUME ConnectorInv, at = "publish", Added, UNCHANGED feed
  PROVE  /\ stream' \in Seq([item : Place, product : Fit])
         /\ Len(stream') = Len(stream) + 1
         /\ stream'[Len(stream) + 1] = Entry(next, product)
         /\ StreamGrows
<1> DEFINE E == [item : Place, product : Fit]
           e == Entry(next, product)
<1>1. next \in Place
  <2>1. /\ next \in Nat /\ next <= Len(feed.items)
        /\ batch.published \in Nat /\ batch.skipped \in Nat
        /\ batch.published + batch.skipped + 1 = next
    BY DEF ConnectorInv, ConnectorTypes, InHand, Counted, Counts, Polling
  <2> QED
    BY <2>1, FeedFacts DEF Place, ConnectorInv, ConnectorTypes
<1>2. e \in E
  BY <1>1 DEF Entry, ConnectorInv, InHand
<1>3. stream \in Seq(E) /\ stream' = Append(stream, e)
  BY DEF Added, ConnectorInv, ConnectorTypes
<1> HIDE DEF E, e
<1>4. /\ stream' \in Seq(E)
      /\ Len(stream') = Len(stream) + 1
      /\ \A k \in 1 .. Len(stream) : stream'[k] = stream[k]
      /\ stream'[Len(stream) + 1] = e
  BY <1>2, <1>3, AppendProperties
<1>5. Len(stream) \in Nat
  BY <1>3
<1> QED
  BY <1>4, <1>5 DEF StreamGrows, Entries, E, e

LEMMA NextPoll ==
  ASSUME NEW p \in Nat, NEW n \in Nat
  PROVE  (p + 1) * n = p * n + n /\ p * n \in Nat
  OBVIOUS

\* What the actions find in the state, unfolded once.
LEMMA ConnectorFacts ==
  ASSUME ConnectorInv
  PROVE  /\ feed \in Feeds /\ Len(feed.items) \in Nat /\ feed.polls \in Nat
         /\ next \in Nat /\ next <= Len(feed.items) + 1
         /\ batch \in Counts /\ totals \in Counts
         /\ batch.published \in Nat /\ batch.skipped \in Nat
         /\ totals.published \in Nat /\ totals.skipped \in Nat
         /\ polls \in Nat /\ polls <= feed.polls
         /\ faults \in Nat /\ faults <= MaxFaults
         /\ stream \in Seq([item : Place, product : Fit])
         /\ Len(stream) \in Nat
         /\ totals.published + batch.published <= Len(stream)
         /\ Readable \in Nat
<1>1. feed \in Feeds /\ Len(feed.items) \in Nat /\ feed.polls \in Nat
  BY FeedFacts DEF ConnectorInv, ConnectorTypes
<1>2. Readable \in Nat
  BY <1>1, NextPoll DEF ConnectorInv, ConnectorTypes, Readable
<1> QED
  BY <1>1, <1>2 DEF ConnectorInv, ConnectorTypes, Counts, Counted

LEMMA NoCountsFacts ==
  NoCounts \in Counts /\ NoCounts.published = 0 /\ NoCounts.skipped = 0
  BY DEF NoCounts, Counts

\* However the process ends, the stream keeps what it has.
LEMMA EndsKeeps ==
  ASSUME ConnectorInv, Ends, UNCHANGED <<feed, polls>>,
         faults' \in Nat, faults' <= MaxFaults,
         stream' \in Seq([item : Place, product : Fit])
  PROVE  ConnectorInv'
<1>1. ConnectorTypes'
  BY ConnectorFacts, NoCountsFacts DEF Ends, ConnectorTypes, Place
<1>2. InHand'
  BY DEF Ends, InHand
<1>3. Len(stream') \in Nat
  OBVIOUS
<1>5. Readable' = Readable
  BY DEF Readable
<1>4. Counted'
  BY <1>3, <1>5, ConnectorFacts, NoCountsFacts DEF Ends, Counted, Polling
<1> QED
  BY <1>1, <1>2, <1>4 DEF ConnectorInv

LEMMA StandsStill ==
  ASSUME ConnectorInv, UNCHANGED stream
  PROVE  StreamGrows
  BY ConnectorFacts DEF StreamGrows, Entries

LEMMA ReadableStays ==
  ASSUME UNCHANGED <<feed, polls>>
  PROVE  Readable' = Readable
  BY DEF Readable

LEMMA ConnectorKeeps ==
  ASSUME ConnectorInv, ConnectorNext
  PROVE  ConnectorInv' /\ StreamGrows
<1>0. ConnectorTypes /\ InHand /\ Counted
  BY DEF ConnectorInv
<1>a. /\ next \in Nat /\ Len(feed.items) \in Nat /\ Len(stream) \in Nat
      /\ batch.published \in Nat /\ batch.skipped \in Nat
      /\ totals.published \in Nat /\ totals.skipped \in Nat
      /\ polls \in Nat /\ Readable \in Nat
      /\ NoCounts.published = 0 /\ NoCounts.skipped = 0
  BY ConnectorFacts, NoCountsFacts
<1>b. batch \in Counts /\ totals \in Counts /\ NoCounts \in Counts
  BY ConnectorFacts, NoCountsFacts
<1>1. CASE StartConnector
  <2>1. ConnectorTypes' /\ InHand' /\ Counted'
    BY <1>0, <1>1, ConnectorFacts, ReadableStays
       DEF StartConnector, ConnectorTypes, Place, InHand, Counted, Polling
  <2> QED
    BY <2>1, <1>1, StandsStill DEF StartConnector, ConnectorInv
<1>2. CASE BeginPoll
  <2>1. ConnectorTypes' /\ InHand'
    BY <1>0, <1>2, ConnectorFacts, NoCountsFacts
       DEF BeginPoll, ConnectorTypes, Place, InHand
  <2>2. Readable' = Readable + Len(feed.items)
    BY <1>0, <1>2, ConnectorFacts, NextPoll DEF BeginPoll, Readable
  <2>3. /\ totals' = totals /\ feed' = feed /\ stream' = stream
        /\ batch' = NoCounts /\ next' = 1 /\ polls' = polls + 1
        /\ at = "rest" /\ at' = "fetch"
    BY <1>0, <1>2 DEF BeginPoll
  <2>4. Counted'
    BY <1>0, <1>a, <2>2, <2>3 DEF Counted, Polling
  <2> QED
    BY <2>1, <2>4, <1>2, StandsStill DEF BeginPoll, ConnectorInv
<1>3. CASE SkipItem
  <2>1. /\ batch' \in Counts
        /\ batch'.published = batch.published
        /\ batch'.skipped = batch.skipped + 1
    BY <1>3, <1>a, <1>b DEF SkipItem, Counts
  <2>2. /\ at = "fetch" /\ next' = next + 1 /\ next <= Len(feed.items)
        /\ UNCHANGED <<stream, faults, feed, at, product, totals, polls>>
    BY <1>3 DEF SkipItem, Reads
  <2>3. ConnectorTypes' /\ InHand'
    <3>1. next' \in Nat /\ next' <= Len(feed.items) + 1
      BY <1>a, <2>2
    <3>2. ConnectorTypes'
      BY <1>0, <2>1, <2>2, <3>1 DEF ConnectorTypes, Place
    <3> QED
      BY <1>0, <2>2, <3>2 DEF InHand
  <2>4. Readable' = Readable
    BY <2>2, ReadableStays
  <2>5. Counted'
    <3>1. Polling /\ Polling'
      BY <2>2 DEF Polling
    <3>2. batch'.published + batch'.skipped + 1 = next'
      <4>1. batch.published + batch.skipped + 1 = next
        BY <1>0, <3>1 DEF Counted
      <4> QED
        BY <1>a, <2>1, <2>2, <4>1
    <3>3. totals'.published + batch'.published <= Len(stream')
      BY <1>0, <2>1, <2>2 DEF Counted
    <3>4. totals'.skipped + Len(feed'.items) <= Readable' /\ polls' > 0
      BY <1>0, <2>2, <2>4, <3>1 DEF Counted
    <3> QED
      BY <3>1, <3>2, <3>3, <3>4 DEF Counted
  <2> QED
    BY <2>3, <2>5, <1>3, StandsStill DEF SkipItem, ConnectorInv
<1>4. CASE ChokeOnItem
  BY <1>0, <1>4, ConnectorFacts, EndsKeeps, StandsStill DEF ChokeOnItem
<1>5. CASE NormalizeItem
  <2>1. next \in 1 .. Len(feed.items)
    BY <1>0, <1>5, ConnectorFacts DEF NormalizeItem, Reads, Counted, Polling
  <2>2. product' \in Fit
    BY <1>0, <1>5, <2>1, ConnectorFacts, NormalizedIsFit DEF NormalizeItem, Reads
  <2>3. ConnectorTypes' /\ InHand'
    BY <1>0, <1>5, <2>1, <2>2, ConnectorFacts
       DEF NormalizeItem, ConnectorTypes, Place, InHand
  <2>4. Counted'
    BY <1>0, <1>a, <1>5, ReadableStays DEF NormalizeItem, Reads, Counted, Polling
  <2> QED
    BY <2>3, <2>4, <1>5, StandsStill DEF NormalizeItem, ConnectorInv
<1>6. CASE Publish
  <2>1. CASE SchemaAccepts(product)
    <3>1. /\ stream' \in Seq([item : Place, product : Fit])
          /\ Len(stream') = Len(stream) + 1
          /\ StreamGrows
      BY <1>0, <1>6, <2>1, AddedIsTyped DEF Publish
    <3>2. /\ batch' \in Counts
          /\ batch'.published = batch.published + 1
          /\ batch'.skipped = batch.skipped
      BY <1>6, <2>1, <1>a, <1>b DEF Publish, Counts
    <3>3. next <= Len(feed.items)
      BY <1>0, <1>6 DEF Publish, InHand
    <3>4. /\ at = "publish" /\ at' = "fetch" /\ next' = next + 1 /\ product' = Null
          /\ UNCHANGED <<faults, feed, totals, polls>>
      BY <1>6, <2>1 DEF Publish
    <3>5. next' \in Nat /\ next' <= Len(feed.items) + 1
      BY <1>a, <3>3, <3>4
    <3>6. Readable' = Readable
      BY <3>4, ReadableStays
    <3>7. ConnectorTypes' /\ InHand'
      BY <1>0, <3>1, <3>2, <3>4, <3>5 DEF ConnectorTypes, Place, InHand
    <3>8. Len(stream') = Len(stream) + 1
      BY <3>1
    <3>9. Counted'
      <4>1. Polling /\ Polling'
        BY <3>4 DEF Polling
      <4>2. batch'.published + batch'.skipped + 1 = next'
        <5>1. batch.published + batch.skipped + 1 = next
          BY <1>0, <4>1 DEF Counted
        <5> QED
          BY <1>a, <3>2, <3>4, <5>1
      <4>3. totals'.published + batch'.published <= Len(stream')
        <5>1. totals.published + batch.published <= Len(stream)
          BY <1>0 DEF Counted
        <5> QED
          BY <5>1, <1>a, <3>2, <3>4, <3>8
      <4>4. totals'.skipped + Len(feed'.items) <= Readable' /\ polls' > 0
        BY <1>0, <3>4, <3>6, <4>1 DEF Counted
      <4> QED
        BY <4>1, <4>2, <4>3, <4>4 DEF Counted
    <3> QED
      BY <3>1, <3>7, <3>9 DEF ConnectorInv
  <2>2. CASE ~SchemaAccepts(product)
    BY <1>0, <1>6, <2>2, ConnectorFacts, EndsKeeps, StandsStill DEF Publish
  <2> QED
    BY <2>1, <2>2
<1>7. CASE EndPoll
  <2>1. /\ totals' \in Counts
        /\ totals'.published = totals.published + batch.published
        /\ totals'.skipped = totals.skipped + batch.skipped
    BY <1>7, <1>a, <1>b DEF EndPoll, Counts
  <2>2. ConnectorTypes' /\ InHand'
    BY <1>0, <1>7, <2>1, ConnectorFacts, NoCountsFacts
       DEF EndPoll, ConnectorTypes, Place, InHand
  <2>3. /\ Polling /\ ~Polling'
        /\ batch' = NoCounts
        /\ UNCHANGED <<stream, feed, next, polls>>
    BY <1>7 DEF EndPoll, Polling
  <2>4. batch.skipped <= Len(feed.items)
    <3>1. batch.published + batch.skipped + 1 = next
      BY <1>0, <2>3 DEF Counted
    <3>2. next <= Len(feed.items) + 1
      BY ConnectorFacts
    <3> QED
      BY <1>a, <3>1, <3>2
  <2>5. Counted'
    <3>1. /\ totals.published + batch.published <= Len(stream)
          /\ totals.skipped + Len(feed.items) <= Readable
      BY <1>0, <2>3 DEF Counted
    <3>2. totals'.published + batch'.published <= Len(stream')
      BY <1>a, <2>1, <2>3, <3>1
    <3>3. Readable' = Readable
      BY <2>3, ReadableStays
    <3>4. totals'.skipped <= Readable'
      BY <1>a, <2>1, <2>4, <3>1, <3>3
    <3> QED
      BY <2>3, <3>2, <3>4 DEF Counted
  <2> QED
    BY <2>2, <2>5, <1>7, StandsStill DEF EndPoll, ConnectorInv
<1>8. CASE FetchFails
  <2>1. ConnectorTypes' /\ InHand'
    BY <1>0, <1>8, ConnectorFacts, NoCountsFacts, MayFailCounts
       DEF FetchFails, ConnectorTypes, Place, InHand
  <2>2. Counted'
    BY <1>0, <1>a, <1>8, ReadableStays DEF FetchFails, Counted, Polling
  <2> QED
    BY <2>1, <2>2, <1>8, StandsStill DEF FetchFails, ConnectorInv
<1>9. CASE PublishReplyLost
  BY <1>0, <1>9, ConnectorFacts, AddedIsTyped, EndsKeeps, MayFailCounts
     DEF PublishReplyLost
<1>10. CASE KillConnector
  BY <1>0, <1>10, ConnectorFacts, EndsKeeps, MayFailCounts, StandsStill
     DEF KillConnector
<1> QED
  BY <1>1, <1>2, <1>3, <1>4, <1>5, <1>6, <1>7, <1>8, <1>9, <1>10
     DEF ConnectorNext, ConnectorWork

-----------------------------------------------------------------------------
LEMMA NoWorkFacts ==
  /\ NoWork \in Txn
  /\ NoWork.brand = Null /\ NoWork.use = Null
  /\ ~NoWork.holds /\ ~NoWork.row /\ NoWork.found
  BY DEF NoWork, Txn

LEMMA InitInv == Init => Inv
<1> SUFFICES ASSUME Init PROVE Inv
  OBVIOUS
<1> USE DEF Init, ConnectorInit, CatalogInit
<1>1. ConnectorTypes /\ InHand
  BY FeedFacts, NoCountsFacts, MaxFaultsAssumption
     DEF ConnectorTypes, InHand
<1>2. Readable = 0
  BY FeedFacts DEF Readable
<1>3. Len(stream) = 0
  OBVIOUS
<1>4. Counted
  BY <1>2, <1>3, NoCountsFacts DEF Counted, Polling
<1>5. CatalogTypes
  BY <1>3, NoWorkFacts, FS_EmptySet DEF CatalogTypes, Phase
<1>6. \A w \in Worker : Progress(w)
  BY NoWorkFacts DEF Progress, Early
<1>7. Apart /\ OneRowEach /\ ProductHasItsBrand /\ MissesAreSpared /\ RaceIsBounded
  BY NoWorkFacts DEF Apart, OneRowEach, ProductHasItsBrand, MissesAreSpared, RaceIsBounded
<1> QED
  BY <1>1, <1>4, <1>5, <1>6, <1>7 DEF Inv, ConnectorInv, CatalogInv

-----------------------------------------------------------------------------
\* Entries, jobs and names.
LEMMA EntryIsFit ==
  ASSUME Inv, NEW k \in 1 .. taken
  PROVE  k \in Entries /\ Found(k) \in Fit
<1>1. Len(stream) \in Nat /\ taken \in Nat /\ taken <= Len(stream)
      /\ stream \in Seq([item : Place, product : Fit])
  BY ConnectorFacts DEF Inv, CatalogInv, CatalogTypes
<1>2. k \in 1 .. Len(stream)
  BY <1>1
<1>3. stream[k] \in [item : Place, product : Fit]
  <2> DEFINE E == [item : Place, product : Fit]
  <2>1. stream \in Seq(E)
    BY <1>1
  <2> HIDE DEF E
  <2>2. stream[k] \in E
    BY <1>2, <2>1, ElementOfSeq
  <2> QED
    BY <2>2 DEF E
<1> QED
  BY <1>2, <1>3 DEF Entries, Found

LEMMA NamesOfFit ==
  ASSUME NEW p \in Fit
  PROVE  /\ RawName(p) # Null => RawName(p) \in Name
         /\ CleanName(p) = Null <=> RawName(p) = Null
         /\ RawName(p) # Null => CleanName(p) \in Name /\ CleanName(p) = Collapsed[RawName(p)]
  BY NameAssumption DEF Fit, RawName, CleanName

Busy(w) == phase[w] \notin {"idle", "down"}

LEMMA JobFacts ==
  ASSUME Inv, NEW w \in Worker, Busy(w)
  PROVE  /\ job[w] \in 1 .. taken
         /\ job[w] \in Entries
         /\ Job(w) = Found(job[w])
         /\ Job(w) \in Fit
         /\ CleanName(Job(w)) # Null => CleanName(Job(w)) \in Name
<1>0. CatalogTypes
  BY DEF Inv, CatalogInv
<1>1. job[w] \in 1 .. taken
  <2>1. /\ job[w] # 0 /\ job[w] \in Nat /\ upto[w] \in Nat /\ taken \in Nat
        /\ job[w] <= upto[w] /\ upto[w] <= taken
    BY <1>0 DEF Busy, CatalogTypes
  <2> QED
    BY <2>1
<1>2. Job(w) = Found(job[w])
  BY DEF Job, Found
<1> QED
  BY <1>1, <1>2, EntryIsFit, NamesOfFit

LEMMA TxnFacts ==
  ASSUME Inv, NEW w \in Worker
  PROVE  /\ txn[w] \in Txn
         /\ txn[w].brand \in Name \cup {Null}
         /\ txn[w].use \in Name \cup {Null}
         /\ txn[w].holds \in BOOLEAN /\ txn[w].row \in BOOLEAN
         /\ txn[w].found \in BOOLEAN
         /\ phase[w] \in Phase
         /\ Progress(w)
  BY DEF Inv, CatalogInv, CatalogTypes, Txn

\* A worker that another one's step leaves alone.
Keeps(v) == phase'[v] = phase[v] /\ job'[v] = job[v] /\ txn'[v] = txn[v]

LEMMA JobStays ==
  ASSUME Inv, NEW v \in Worker, Keeps(v), StreamGrows, Busy(v)
  PROVE  Job(v)' = Job(v)
  BY JobFacts DEF Keeps, StreamGrows, Job

LEMMA SparedStays ==
  ASSUME NEW p, rows \subseteq rows', Spared(p)
  PROVE  Spared(p)'
  BY DEF Spared

LEMMA ListedStays ==
  ASSUME NEW p, rows \subseteq rows', Listed(p)
  PROVE  Listed(p)'
  BY DEF Listed

LEMMA ResolvedStays ==
  ASSUME Inv, NEW v \in Worker, Keeps(v), StreamGrows, Busy(v),
         brands \subseteq brands', Resolved(v)
  PROVE  Resolved(v)'
<1>1. Job(v)' = Job(v)
  BY JobStays
<1>2. CleanName(Job(v))' = CleanName(Job(v))
  BY <1>1 DEF CleanName
<1>3. VisibleBrands(v) \subseteq VisibleBrands(v)'
  BY DEF VisibleBrands, Keeps
<1> QED
  BY <1>2, <1>3 DEF Resolved, Keeps

LEMMA IdleHasNoWork ==
  ASSUME Inv, NEW v \in Worker, ~Busy(v)
  PROVE  txn[v] = NoWork
  BY TxnFacts DEF Busy, Progress, Early

\* What a worker left alone has done stays done; only a row of the listing
\* it is inserting could disturb it.
LEMMA ProgressStays ==
  ASSUME Inv, NEW v \in Worker, Keeps(v), StreamGrows,
         brands \subseteq brands', rows \subseteq rows',
         txn[v].row => \A r \in rows' : r \in rows \/ r.id # Job(v).id
  PROVE  Progress(v)'
<1>1. Progress(v)
  BY TxnFacts
<1>2. CASE ~Busy(v)
  <2>1. txn[v] = NoWork
    BY <1>2, IdleHasNoWork
  <2>2. phase'[v] \in {"idle", "down"} /\ txn'[v] = NoWork
    BY <1>2, <2>1 DEF Busy, Keeps
  <2> QED
    BY <2>2, NoWorkFacts DEF Progress, Early
<1>3. CASE Busy(v)
  <2>1. Job(v)' = Job(v) /\ phase'[v] = phase[v] /\ txn'[v] = txn[v]
    BY <1>3, JobStays DEF Keeps
  <2>2. CleanName(Job(v))' = CleanName(Job(v))
    BY <2>1 DEF CleanName
  <2>3. Listed(Job(v)) => Listed(Job(v))'
    BY <2>1 DEF Listed
  <2>4. txn[v].row /\ ~Listed(Job(v)) => ~Listed(Job(v))'
    BY <2>1 DEF Listed
  <2>5. Spared(Job(v)) => Spared(Job(v))'
    BY <2>1 DEF Spared, RawName
  <2>6. Resolved(v) => Resolved(v)'
    BY <1>3, ResolvedStays
  <2> QED
    BY <1>1, <2>1, <2>2, <2>3, <2>4, <2>5, <2>6 DEF Progress
<1> QED
  BY <1>2, <1>3

LEMMA MayAddStays ==
  ASSUME Inv, NEW v \in Worker, Keeps(v), StreamGrows, NEW b
  PROVE  MayAdd(v, b)' <=> MayAdd(v, b)
<1>1. phase[v] = "create" => Job(v)' = Job(v)
  BY JobStays DEF Busy
<1>2. phase[v] = "create" => CleanName(Job(v))' = CleanName(Job(v))
  BY <1>1 DEF CleanName
<1> QED
  BY <1>2 DEF MayAdd, Keeps

\* A step that adds no brand and lets no further worker into a race.
LEMMA RaceShrinks ==
  ASSUME Inv, brands' = brands,
         \A b \in brands : \A v \in Worker : MayAdd(v, b)' => MayAdd(v, b)
  PROVE  RaceIsBounded'
<1> SUFFICES ASSUME NEW b \in brands
             PROVE  Cardinality(Spellings(b))' + Cardinality(Racing(b))'
                      <= Cardinality(Worker)
  BY DEF RaceIsBounded
<1>1. Racing(b)' \subseteq Racing(b) /\ Racing(b) \subseteq Worker
  BY DEF Racing
<1>2. IsFiniteSet(Racing(b)) /\ IsFiniteSet(Racing(b)')
  BY <1>1, WorkerAssumption, FS_Subset
<1>3. Cardinality(Racing(b)') <= Cardinality(Racing(b))
  BY <1>1, <1>2, FS_Subset
<1>4. Spellings(b)' = Spellings(b) /\ IsFiniteSet(Spellings(b))
  <2>1. Spellings(b) \subseteq brands /\ IsFiniteSet(brands)
    BY DEF Spellings, Inv, CatalogInv, CatalogTypes
  <2> QED
    BY <2>1, FS_Subset DEF Spellings
<1>5. Cardinality(Spellings(b)) + Cardinality(Racing(b)) <= Cardinality(Worker)
  BY DEF Inv, CatalogInv, RaceIsBounded
<1>6. /\ Cardinality(Racing(b)) \in Nat /\ Cardinality(Racing(b)') \in Nat
      /\ Cardinality(Spellings(b)) \in Nat /\ Cardinality(Worker) \in Nat
  BY <1>2, <1>4, WorkerAssumption, FS_CardinalityType
<1> QED
  BY <1>3, <1>4, <1>5, <1>6

-----------------------------------------------------------------------------
\* The connector's steps leave the catalogue as it is.
LEMMA CatalogStays ==
  ASSUME Inv, StreamGrows, ConnectorInv', UNCHANGED catalog
  PROVE  CatalogInv'
<1>1. \A v \in Worker : Keeps(v)
  BY DEF catalog, Keeps
<1>2. Len(stream) <= Len(stream') /\ Len(stream) \in Nat /\ Len(stream') \in Nat
  BY ConnectorFacts DEF StreamGrows, Inv, ConnectorInv, ConnectorTypes
<1>3. \A k \in 1 .. taken : Found(k)' = Found(k)
  BY EntryIsFit DEF StreamGrows, Found
<1>4. /\ taken' = taken /\ phase' = phase /\ job' = job /\ txn' = txn /\ upto' = upto
      /\ brands' = brands /\ rows' = rows /\ unbranded' = unbranded /\ done' = done
  BY DEF catalog
<1>5. /\ \A k \in done : k \in 1 .. taken
      /\ unbranded \subseteq done
      /\ \A r \in rows : r.by \in done
  BY DEF Inv, CatalogInv, CatalogTypes
<1>6. CatalogTypes'
  BY <1>2, <1>3, <1>4, <1>5 DEF Inv, CatalogInv, CatalogTypes
<1>7. \A v \in Worker : Progress(v)'
  BY <1>1, <1>4, ProgressStays
<1>8. Apart'
  <2>1. \A v \in Worker : txn[v].holds => Job(v)' = Job(v)
    BY <1>1, JobStays, IdleHasNoWork, NoWorkFacts
  <2> QED
    BY <1>4, <2>1 DEF Inv, CatalogInv, Apart
<1>9. OneRowEach' /\ ProductHasItsBrand' /\ MissesAreSpared'
  BY <1>3, <1>4, <1>5
     DEF Inv, CatalogInv, OneRowEach, ProductHasItsBrand, CleanName,
         MissesAreSpared, Spared, RawName
<1>10. RaceIsBounded'
  BY <1>1, <1>4, MayAddStays, RaceShrinks
<1> QED
  BY <1>6, <1>7, <1>8, <1>9, <1>10 DEF CatalogInv

-----------------------------------------------------------------------------
\* A worker's step leaves the connector as it is, up to the failures.
LEMMA ConnectorStays ==
  ASSUME Inv, UNCHANGED <<stream, connector>>,
         UNCHANGED faults \/ MayFail
  PROVE  ConnectorInv' /\ StreamGrows
<1>1. faults' \in Nat /\ faults' <= MaxFaults
  BY ConnectorFacts, MayFailCounts DEF Inv
<1>2. UNCHANGED <<stream, feed, at, next, product, batch, totals, polls>>
  BY DEF connector
<1>3. ConnectorTypes'
  BY <1>1, <1>2 DEF Inv, ConnectorInv, ConnectorTypes, Place
<1>4. InHand' /\ Counted'
  BY <1>2 DEF Inv, ConnectorInv, InHand, Counted, Polling, Readable
<1> QED
  BY <1>2, <1>3, <1>4, StandsStill DEF Inv, ConnectorInv

\* A step inside a transaction: only w's phase and work change.
LEMMA StepKeeps ==
  ASSUME Inv, NEW w \in Worker, NEW to \in Phase, NEW work \in Txn,
         Step(w, to, work),
         Busy(w) <=> to \notin {"idle", "down"},
         Progress(w)',
         work.holds => txn[w].holds \/ ~Locked(w),
         \A b \in brands : MayAdd(w, b)' => MayAdd(w, b)
  PROVE  CatalogInv'
<1> USE DEF Step
<1>1. \A v \in Worker \ {w} : Keeps(v)
  BY DEF Keeps, Inv, CatalogInv, CatalogTypes
<1>2. StreamGrows
  BY StandsStill DEF Inv
<1>3. /\ phase'[w] = to /\ txn'[w] = work
      /\ phase' \in [Worker -> Phase] /\ txn' \in [Worker -> Txn]
  BY DEF Inv, CatalogInv, CatalogTypes
<1>4. CatalogTypes'
  BY <1>1, <1>3 DEF Busy, Keeps, Inv, CatalogInv, CatalogTypes, Found
<1>5. \A v \in Worker : Progress(v)'
  BY <1>1, <1>2, ProgressStays
<1>6. Apart'
  <2>1. \A v \in Worker : Job(v)' = Job(v)
    BY DEF Job
  <2>2. \A v \in Worker \ {w} : txn'[v].holds <=> txn[v].holds
    BY <1>1 DEF Keeps
  <2>3. ASSUME work.holds, NEW v \in Worker \ {w}, txn[v].holds
        PROVE  Job(v).id # Job(w).id
    BY <2>3 DEF Locked, Inv, CatalogInv, Apart
  <2>4. \A u, v \in Worker : u # v /\ txn[u].holds /\ txn[v].holds => Job(u).id # Job(v).id
    BY DEF Inv, CatalogInv, Apart
  <2> QED
    BY <1>3, <2>1, <2>2, <2>3, <2>4 DEF Apart
<1>7. OneRowEach' /\ ProductHasItsBrand' /\ MissesAreSpared'
  BY DEF Inv, CatalogInv, OneRowEach, ProductHasItsBrand, CleanName, Found,
         MissesAreSpared, Spared, RawName
<1>8. RaceIsBounded'
  BY <1>1, <1>2, MayAddStays, RaceShrinks
<1> QED
  BY <1>4, <1>5, <1>6, <1>7, <1>8 DEF CatalogInv

LEMMA AbandonKeeps ==
  ASSUME Inv, NEW w \in Worker, Abandon(w)
  PROVE  CatalogInv'
<1> USE DEF Abandon
<1>1. \A v \in Worker \ {w} : Keeps(v)
  BY DEF Keeps, Inv, CatalogInv, CatalogTypes
<1>2. StreamGrows
  BY StandsStill DEF Inv
<1>3. /\ phase'[w] = "down" /\ txn'[w] = NoWork /\ job'[w] = 0
      /\ phase' \in [Worker -> Phase] /\ txn' \in [Worker -> Txn]
      /\ job' \in [Worker -> Nat] /\ upto' \in [Worker -> Nat] /\ upto'[w] = 0
      /\ \A v \in Worker \ {w} : upto'[v] = upto[v]
  BY NoWorkFacts DEF Inv, CatalogInv, CatalogTypes, Phase
<1>4. CatalogTypes'
  <2>1. \A v \in Worker : job'[v] <= upto'[v] /\ upto'[v] <= taken
    BY <1>1, <1>3 DEF Keeps, Inv, CatalogInv, CatalogTypes
  <2>2. \A v \in Worker : (job'[v] # 0) <=> (phase'[v] \notin {"idle", "down"})
    BY <1>1, <1>3 DEF Keeps, Inv, CatalogInv, CatalogTypes
  <2> QED
    BY <1>3, <2>1, <2>2 DEF Inv, CatalogInv, CatalogTypes, Found
<1>5. \A v \in Worker : Progress(v)'
  <2>1. Progress(w)'
    BY <1>3, NoWorkFacts DEF Progress, Early
  <2> QED
    BY <1>1, <1>2, <2>1, ProgressStays
<1>6. Apart'
  <2>1. \A v \in Worker \ {w} : Job(v)' = Job(v) /\ txn'[v] = txn[v]
    BY <1>1 DEF Job, Keeps
  <2> QED
    BY <1>3, <2>1, NoWorkFacts DEF Apart, Inv, CatalogInv
<1>7. OneRowEach' /\ ProductHasItsBrand' /\ MissesAreSpared'
  BY DEF Inv, CatalogInv, OneRowEach, ProductHasItsBrand, CleanName, Found,
         MissesAreSpared, Spared, RawName
<1>8. RaceIsBounded'
  <2>1. \A b : ~MayAdd(w, b)'
    BY <1>3, NoWorkFacts DEF MayAdd
  <2> QED
    BY <1>1, <1>2, <2>1, MayAddStays, RaceShrinks
<1> QED
  BY <1>4, <1>5, <1>6, <1>7, <1>8 DEF CatalogInv

\* Whatever entry w turns to, if any, it has done nothing for it yet.
LEMMA TurnFrame ==
  ASSUME Inv, NEW w \in Worker, NEW k \in Nat \ {0}, NEW last \in Nat,
         Turn(w, k, last)
  PROVE  /\ phase' \in [Worker -> Phase] /\ txn' \in [Worker -> Txn]
         /\ job' \in [Worker -> Nat] /\ upto' \in [Worker -> Nat]
         /\ phase'[w] \in {"find", "idle"} /\ txn'[w] = NoWork
         /\ job'[w] # 0 <=> phase'[w] = "find"
         /\ job'[w] <= upto'[w] /\ upto'[w] <= last
         /\ \A v \in Worker \ {w} : Keeps(v) /\ upto'[v] = upto[v]
<1>1. /\ phase \in [Worker -> Phase] /\ txn \in [Worker -> Txn]
      /\ job \in [Worker -> Nat] /\ upto \in [Worker -> Nat]
  BY DEF Inv, CatalogInv, CatalogTypes
<1>2. CASE k <= last
  <2>1. /\ phase' = [phase EXCEPT ![w] = "find"] /\ job' = [job EXCEPT ![w] = k]
        /\ upto' = [upto EXCEPT ![w] = last] /\ txn' = [txn EXCEPT ![w] = NoWork]
    BY <1>2 DEF Turn
  <2>2. /\ phase' \in [Worker -> Phase] /\ txn' \in [Worker -> Txn]
        /\ job' \in [Worker -> Nat] /\ upto' \in [Worker -> Nat]
    BY <1>1, <2>1, NoWorkFacts DEF Phase
  <2>3. /\ phase'[w] = "find" /\ job'[w] = k /\ upto'[w] = last /\ txn'[w] = NoWork
        /\ \A v \in Worker \ {w} : Keeps(v) /\ upto'[v] = upto[v]
    BY <1>1, <2>1 DEF Keeps
  <2> QED
    BY <1>2, <2>2, <2>3
<1>3. CASE k > last
  <2>1. /\ phase' = [phase EXCEPT ![w] = "idle"] /\ job' = [job EXCEPT ![w] = 0]
        /\ upto' = [upto EXCEPT ![w] = 0] /\ txn' = [txn EXCEPT ![w] = NoWork]
    BY <1>3 DEF Turn
  <2>2. /\ phase' \in [Worker -> Phase] /\ txn' \in [Worker -> Txn]
        /\ job' \in [Worker -> Nat] /\ upto' \in [Worker -> Nat]
    BY <1>1, <2>1, NoWorkFacts DEF Phase
  <2>3. /\ phase'[w] = "idle" /\ job'[w] = 0 /\ upto'[w] = 0 /\ txn'[w] = NoWork
        /\ \A v \in Worker \ {w} : Keeps(v) /\ upto'[v] = upto[v]
    BY <1>1, <2>1 DEF Keeps
  <2> QED
    BY <1>3, <2>2, <2>3
<1> QED
  BY <1>2, <1>3

LEMMA BatchEndFacts ==
  ASSUME Inv
  PROVE  /\ taken \in Nat /\ Len(stream) \in Nat /\ BatchEnd \in Nat
         /\ taken <= BatchEnd /\ BatchEnd <= Len(stream)
<1>1. taken \in Nat /\ Len(stream) \in Nat /\ taken <= Len(stream)
  BY ConnectorFacts DEF Inv, CatalogInv, CatalogTypes
<1>2. BatchSize \in Nat
  BY BatchAssumption
<1>3. CASE taken + BatchSize < Len(stream)
  BY <1>1, <1>2, <1>3 DEF BatchEnd
<1>4. CASE ~(taken + BatchSize < Len(stream))
  BY <1>1, <1>4 DEF BatchEnd
<1> QED
  BY <1>3, <1>4

LEMMA TakeKeeps ==
  ASSUME Inv, NEW w \in Worker, Take(w)
  PROVE  CatalogInv'
<1>0. /\ Turn(w, taken + 1, BatchEnd) /\ taken' = BatchEnd
      /\ UNCHANGED <<stream, faults, brands, rows, unbranded, done>>
  BY DEF Take
<1>4. /\ taken \in Nat /\ Len(stream) \in Nat /\ taken' \in Nat
      /\ taken <= taken' /\ taken' <= Len(stream)
  BY <1>0, BatchEndFacts
<1>5. /\ phase' \in [Worker -> Phase] /\ txn' \in [Worker -> Txn]
      /\ job' \in [Worker -> Nat] /\ upto' \in [Worker -> Nat]
      /\ phase'[w] \in {"find", "idle"} /\ txn'[w] = NoWork
      /\ job'[w] # 0 <=> phase'[w] = "find"
      /\ job'[w] <= upto'[w] /\ upto'[w] <= taken'
      /\ \A v \in Worker \ {w} : Keeps(v) /\ upto'[v] = upto[v]
  BY <1>0, <1>4, BatchEndFacts, TurnFrame
<1>1. \A v \in Worker \ {w} : Keeps(v)
  BY <1>5
<1>2. StreamGrows
  BY <1>0, StandsStill DEF Inv
<1>6. CatalogTypes'
  <2>0. CatalogTypes
    BY DEF Inv, CatalogInv
  <2>2. \A v \in Worker : job'[v] <= upto'[v] /\ upto'[v] <= taken'
    <3> SUFFICES ASSUME NEW v \in Worker PROVE job'[v] <= upto'[v] /\ upto'[v] <= taken'
      OBVIOUS
    <3>1. job[v] <= upto[v] /\ upto[v] <= taken /\ upto[v] \in Nat
      BY <2>0 DEF CatalogTypes
    <3>2. v # w => job'[v] = job[v] /\ upto'[v] = upto[v]
      BY <1>5 DEF Keeps
    <3> QED
      BY <1>4, <1>5, <3>1, <3>2
  <2>3. \A v \in Worker : (job'[v] # 0) <=> (phase'[v] \notin {"idle", "down"})
    BY <2>0, <1>5 DEF Keeps, CatalogTypes
  <2>4. \A k \in done' : k \in 1 .. taken'
    BY <2>0, <1>0, <1>4 DEF CatalogTypes
  <2> QED
    BY <2>0, <1>0, <1>4, <1>5, <2>2, <2>3, <2>4 DEF CatalogTypes, Found
<1>7. \A v \in Worker : Progress(v)'
  <2>1. Progress(w)'
    BY <1>5, NoWorkFacts DEF Progress, Early
  <2> QED
    BY <1>0, <1>1, <1>2, <2>1, ProgressStays
<1>8. Apart'
  <2>1. \A v \in Worker \ {w} : Job(v)' = Job(v) /\ txn'[v] = txn[v]
    BY <1>0, <1>1 DEF Job, Keeps
  <2> QED
    BY <1>5, <2>1, NoWorkFacts DEF Apart, Inv, CatalogInv
<1>9. OneRowEach' /\ ProductHasItsBrand' /\ MissesAreSpared'
  BY <1>0 DEF Inv, CatalogInv, OneRowEach, ProductHasItsBrand, CleanName, Found,
         MissesAreSpared, Spared, RawName
<1>10. RaceIsBounded'
  <2>1. \A b : ~MayAdd(w, b)'
    BY <1>5, NoWorkFacts DEF MayAdd
  <2> QED
    BY <1>0, <1>1, <1>2, <2>1, MayAddStays, RaceShrinks
<1> QED
  BY <1>6, <1>7, <1>8, <1>9, <1>10 DEF CatalogInv

-----------------------------------------------------------------------------
\* What a step of w finds unchanged when it is done.
LEMMA StepFrame ==
  ASSUME Inv, NEW w \in Worker, NEW to, NEW work, Step(w, to, work)
  PROVE  /\ phase'[w] = to /\ txn'[w] = work
         /\ UNCHANGED <<stream, faults, job, brands, rows>>
         /\ Job(w)' = Job(w)
         /\ CleanName(Job(w))' = CleanName(Job(w))
         /\ Listed(Job(w))' <=> Listed(Job(w))
         /\ Spared(Job(w))' <=> Spared(Job(w))
<1>1. /\ phase'[w] = to /\ txn'[w] = work
      /\ UNCHANGED <<stream, faults, job, brands, rows>>
  BY DEF Step, Inv, CatalogInv, CatalogTypes
<1>2. Job(w)' = Job(w)
  BY <1>1 DEF Job
<1> QED
  BY <1>1, <1>2 DEF CleanName, Listed, Spared, RawName

LEMMA EarlyHasNoWork ==
  ASSUME Inv, NEW w \in Worker, phase[w] \in Early
  PROVE  txn[w] = NoWork
  BY TxnFacts DEF Progress

LEMMA RestartKeeps ==
  ASSUME Inv, NEW w \in Worker, Restart(w)
  PROVE  CatalogInv'
<1>1. Step(w, "idle", NoWork) /\ phase[w] = "down"
  BY DEF Restart
<1>2. phase'[w] = "idle" /\ txn'[w] = NoWork
  BY <1>1, StepFrame
<1>3. Progress(w)' /\ \A b : ~MayAdd(w, b)'
  BY <1>2, NoWorkFacts DEF Progress, Early, MayAdd
<1> QED
  BY <1>1, <1>3, NoWorkFacts, StepKeeps DEF Busy, Phase

LEMMA FindListingKeeps ==
  ASSUME Inv, NEW w \in Worker, FindListing(w)
  PROVE  CatalogInv'
<1> DEFINE to == IF Listed(Job(w)) THEN "update" ELSE "resolve"
<1>1. Step(w, to, NoWork) /\ phase[w] = "find"
  BY DEF FindListing
<1>2. to \in {"update", "resolve"} /\ to \in Phase /\ (to = "update" => Listed(Job(w)))
  BY DEF Phase
<1> HIDE DEF to
<1>3. /\ phase'[w] = to /\ txn'[w] = NoWork
      /\ Listed(Job(w)) => Listed(Job(w))'
  BY <1>1, StepFrame
<1>4. Progress(w)' /\ \A b : ~MayAdd(w, b)'
  BY <1>2, <1>3, NoWorkFacts DEF Progress, Early, MayAdd
<1> QED
  BY <1>1, <1>2, <1>4, NoWorkFacts, StepKeeps DEF Busy

LEMMA UpdateListingKeeps ==
  ASSUME Inv, NEW w \in Worker, UpdateListing(w)
  PROVE  CatalogInv'
<1> DEFINE work == [txn[w] EXCEPT !.holds = TRUE]
<1>1. Step(w, "tier", work) /\ phase[w] = "update" /\ ~Locked(w)
  BY DEF UpdateListing
<1>2. work \in Txn /\ work.brand = Null /\ ~work.row
  BY <1>1, EarlyHasNoWork, NoWorkFacts DEF Txn, Early
<1> HIDE DEF work
<1>3. /\ phase'[w] = "tier" /\ txn'[w] = work
      /\ Listed(Job(w)) => Listed(Job(w))'
  BY <1>1, StepFrame
<1>4. Listed(Job(w))
  BY <1>1, TxnFacts, EarlyHasNoWork, NoWorkFacts DEF Progress, Early
<1>5. Progress(w)' /\ \A b : ~MayAdd(w, b)'
  BY <1>2, <1>3, <1>4 DEF Progress, Early, MayAdd
<1> QED
  BY <1>1, <1>2, <1>5, StepKeeps DEF Busy, Phase

LEMMA FoundBrand ==
  ASSUME Inv, NEW w \in Worker, NEW name, NEW b \in FindByName(w, name)
  PROVE  b \in VisibleBrands(w) /\ Folded[b] = Folded[name] /\ b \in Name
  BY TxnFacts DEF FindByName, VisibleBrands, Inv, CatalogInv, CatalogTypes

\* A worker with an early transaction goes on to store with a row it found.
LEMMA UseKeeps ==
  ASSUME Inv, NEW w \in Worker, phase[w] \in {"resolve", "reread"},
         CleanName(Job(w)) # Null,
         NEW b \in FindByName(w, CleanName(Job(w))),
         Step(w, "store", [txn[w] EXCEPT !.use = b])
  PROVE  CatalogInv'
<1> DEFINE work == [txn[w] EXCEPT !.use = b]
<1>1. b \in VisibleBrands(w) /\ Folded[b] = Folded[CleanName(Job(w))] /\ b \in Name
  BY FoundBrand
<1>2. txn[w] = NoWork
  BY EarlyHasNoWork DEF Early
<1>3. /\ work \in Txn /\ work.brand = Null /\ work.use = b
      /\ ~work.holds /\ ~work.row
  BY <1>1, <1>2, NoWorkFacts DEF Txn
<1>4. Step(w, "store", work)
  OBVIOUS
<1> HIDE DEF work
<1>5. phase'[w] = "store" /\ txn'[w] = work /\ brands' = brands
      /\ CleanName(Job(w))' = CleanName(Job(w))
  BY <1>4, StepFrame
<1>6. VisibleBrands(w)' = VisibleBrands(w)
  BY <1>2, <1>3, <1>5, NoWorkFacts DEF VisibleBrands
<1>7. Resolved(w)'
  BY <1>1, <1>3, <1>5, <1>6 DEF Resolved
<1>8. Progress(w)' /\ \A n : ~MayAdd(w, n)'
  BY <1>3, <1>5, <1>7 DEF Progress, Early, MayAdd
<1> QED
  BY <1>3, <1>4, <1>8, StepKeeps DEF Busy, Phase

LEMMA ResolveBrandKeeps ==
  ASSUME Inv, NEW w \in Worker, ResolveBrand(w)
  PROVE  CatalogInv'
<1> DEFINE name == CleanName(Job(w))
<1>0. phase[w] = "resolve" /\ txn[w] = NoWork
  BY EarlyHasNoWork DEF ResolveBrand, Early
<1>1. CASE name = Null /\ Step(w, "store", txn[w])
  <2>1. phase'[w] = "store" /\ txn'[w] = NoWork /\ CleanName(Job(w))' = Null
    BY <1>0, <1>1, StepFrame
  <2>2. Resolved(w)'
    BY <2>1, NoWorkFacts DEF Resolved
  <2>3. Progress(w)' /\ \A n : ~MayAdd(w, n)'
    BY <2>1, <2>2, NoWorkFacts DEF Progress, Early, MayAdd
  <2> QED
    BY <1>0, <1>1, <2>3, NoWorkFacts, StepKeeps DEF Busy, Phase
<1>2. CASE /\ name # Null
           /\ \E b \in FindByName(w, name) :
                Step(w, "store", [txn[w] EXCEPT !.use = b])
  BY <1>0, <1>2, UseKeeps
<1>3. CASE name # Null /\ FindByName(w, name) = {} /\ Step(w, "create", txn[w])
  <2>1. phase'[w] = "create" /\ txn'[w] = NoWork /\ CleanName(Job(w))' = name
        /\ brands' = brands
    BY <1>0, <1>3, StepFrame
  <2>2. Progress(w)'
    BY <1>3, <2>1, NoWorkFacts DEF Progress, Early
  <2>3. \A b \in brands : ~MayAdd(w, b)'
    <3> SUFFICES ASSUME NEW b \in brands, MayAdd(w, b)' PROVE FALSE
      OBVIOUS
    <3>1. Folded[b] = Folded[name]
      BY <2>1, NoWorkFacts DEF MayAdd
    <3>2. b \in FindByName(w, name)
      BY <3>1 DEF FindByName, VisibleBrands
    <3> QED
      BY <1>3, <3>2
  <2> QED
    BY <1>0, <1>3, <2>2, <2>3, NoWorkFacts, StepKeeps DEF Busy, Phase
<1> QED
  BY <1>1, <1>2, <1>3 DEF ResolveBrand

LEMMA CreateBrandKeeps ==
  ASSUME Inv, NEW w \in Worker, CreateBrand(w)
  PROVE  CatalogInv'
<1> DEFINE name == CleanName(Job(w))
           work == [txn[w] EXCEPT !.brand = name, !.use = name]
<1>0. /\ phase[w] = "create" /\ txn[w] = NoWork
      /\ name # Null /\ name \in Name
  <2>1. phase[w] = "create" /\ Busy(w)
    BY DEF CreateBrand, Busy
  <2>2. name # Null
    BY <2>1, TxnFacts DEF Progress
  <2> QED
    BY <2>1, <2>2, JobFacts, EarlyHasNoWork DEF Early
<1>1. CASE Step(w, "reread", txn[w])
  <2>1. phase'[w] = "reread" /\ txn'[w] = NoWork /\ CleanName(Job(w))' = name
    BY <1>0, <1>1, StepFrame
  <2>2. Progress(w)' /\ \A b : ~MayAdd(w, b)'
    BY <1>0, <2>1, NoWorkFacts DEF Progress, Early, MayAdd
  <2> QED
    BY <1>0, <1>1, <2>2, NoWorkFacts, StepKeeps DEF Busy, Phase
<1>2. CASE Step(w, "store", work)
  <2>1. /\ work \in Txn /\ work.brand = name /\ work.use = name
        /\ ~work.holds /\ ~work.row
    BY <1>0, NoWorkFacts DEF Txn
  <2> HIDE DEF work
  <2>2. phase'[w] = "store" /\ txn'[w] = work /\ CleanName(Job(w))' = name
    BY <1>2, StepFrame
  <2> HIDE DEF name
  <2>3. name \in VisibleBrands(w)'
    BY <1>0, <2>1, <2>2 DEF VisibleBrands
  <2>4. Resolved(w)'
    BY <1>0, <2>1, <2>2, <2>3 DEF Resolved
  <2>5. Progress(w)'
    BY <2>1, <2>2, <2>4 DEF Progress, Early
  <2>6. \A b \in brands : MayAdd(w, b)' => MayAdd(w, b)
    BY <1>0, <2>1, <2>2 DEF MayAdd, name
  <2> QED
    BY <1>0, <1>2, <2>1, <2>5, <2>6, StepKeeps DEF Busy, Phase
<1> QED
  BY <1>1, <1>2 DEF CreateBrand

LEMMA RereadBrandKeeps ==
  ASSUME Inv, NEW w \in Worker, RereadBrand(w)
  PROVE  CatalogInv'
<1> DEFINE found == FindByName(w, CleanName(Job(w)))
<1>1. phase[w] = "reread" /\ CleanName(Job(w)) # Null
  BY TxnFacts DEF RereadBrand, Progress
<1>2. CASE found = {}
  BY <1>2, AbandonKeeps DEF RereadBrand
<1>3. CASE found # {}
  <2>1. PICK b \in found : Step(w, "store", [txn[w] EXCEPT !.use = b])
    BY <1>3 DEF RereadBrand
  <2> QED
    BY <1>1, <2>1, UseKeeps
<1> QED
  BY <1>2, <1>3

LEMMA StoreListingKeeps ==
  ASSUME Inv, NEW w \in Worker, StoreListing(w)
  PROVE  CatalogInv'
<1> DEFINE work == [txn[w] EXCEPT !.holds = TRUE, !.row = TRUE]
<1>1. /\ phase[w] = "store" /\ txn[w] \in Txn
      /\ ~txn[w].holds /\ ~txn[w].row /\ Resolved(w)
  BY TxnFacts DEF StoreListing, Progress
<1>2. CASE Listed(Job(w)) /\ Step(w, "tier", txn[w])
  <2>1. /\ phase'[w] = "tier" /\ txn'[w] = txn[w]
        /\ Listed(Job(w))'
    BY <1>2, StepFrame
  <2>2. Progress(w)'
    BY <1>1, <2>1 DEF Progress, Early
  <2>3. \A b \in brands : MayAdd(w, b)' => MayAdd(w, b)
    BY <2>1 DEF MayAdd
  <2> QED
    BY <1>1, <1>2, <2>2, <2>3, StepKeeps DEF Busy, Phase
<1>3. CASE ~Listed(Job(w)) /\ ~Locked(w) /\ Step(w, "tier", work)
  <2>1. /\ work \in Txn /\ work.brand = txn[w].brand /\ work.use = txn[w].use
        /\ work.holds /\ work.row
    BY <1>1 DEF Txn
  <2> HIDE DEF work
  <2>2. /\ phase'[w] = "tier" /\ txn'[w] = work /\ brands' = brands
        /\ CleanName(Job(w))' = CleanName(Job(w))
        /\ ~Listed(Job(w))'
    BY <1>3, StepFrame
  <2>3. Resolved(w)'
    BY <1>1, <2>1, <2>2 DEF Resolved, VisibleBrands
  <2>4. Progress(w)'
    BY <2>1, <2>2, <2>3 DEF Progress, Early
  <2>5. \A b \in brands : MayAdd(w, b)' => MayAdd(w, b)
    BY <2>1, <2>2 DEF MayAdd
  <2> QED
    BY <1>1, <1>3, <2>1, <2>4, <2>5, StepKeeps DEF Busy, Phase
<1> QED
  BY <1>2, <1>3 DEF StoreListing

\* A tier that is missed is missed for one of the reasons in Spared.
LEMMA MissIsSpared ==
  ASSUME Inv, NEW w \in Worker, phase[w] = "tier",
         FindByName(w, RawName(Job(w))) = {}
  PROVE  Spared(Job(w))
<1> DEFINE name == RawName(Job(w))
<1> SUFFICES ASSUME name # Null, Collapsed[name] = name PROVE Spared(Job(w))
  BY DEF Spared
<1>1. Busy(w) /\ CleanName(Job(w)) = name /\ name \in Name
  BY JobFacts, NamesOfFit DEF Busy
<1> HIDE DEF name
<1>2. \A b \in VisibleBrands(w) : Folded[b] # Folded[name]
  BY DEF FindByName, name
<1>3. CASE txn[w].row
  <2>1. Resolved(w)
    BY <1>3, TxnFacts DEF Progress
  <2> QED
    BY <1>1, <1>2, <2>1 DEF Resolved, name
<1>4. CASE ~txn[w].row
  <2>1. Listed(Job(w))
    BY <1>4, TxnFacts DEF Progress
  <2>2. PICK r \in rows : r.id = Job(w).id
    BY <2>1 DEF Listed
  <2>3. r.brand = Null \/ r.brand \in brands
    BY DEF Inv, CatalogInv, ProductHasItsBrand
  <2>4. r.brand = Null \/ Folded[r.brand] # Folded[name]
    BY <1>2, <2>3 DEF VisibleBrands
  <2> QED
    BY <2>2, <2>4 DEF Spared, name
<1> QED
  BY <1>3, <1>4

LEMMA LookUpTierKeeps ==
  ASSUME Inv, NEW w \in Worker, LookUpTier(w)
  PROVE  CatalogInv'
<1> DEFINE name == RawName(Job(w))
           found == name # Null /\ FindByName(w, name) # {}
           work == [txn[w] EXCEPT !.found = found]
<1>1. phase[w] = "tier" /\ Step(w, "commit", work)
  BY DEF LookUpTier
<1>2. ~found => Spared(Job(w))
  BY <1>1, MissIsSpared DEF Spared
<1>3. found \in BOOLEAN
  OBVIOUS
<1> HIDE DEF found
<1>4. /\ work \in Txn /\ work.brand = txn[w].brand /\ work.use = txn[w].use
      /\ work.holds = txn[w].holds /\ work.row = txn[w].row /\ work.found = found
  BY <1>3, TxnFacts DEF Txn
<1> HIDE DEF work
<1>5. /\ phase'[w] = "commit" /\ txn'[w] = work /\ brands' = brands
      /\ CleanName(Job(w))' = CleanName(Job(w))
      /\ Listed(Job(w))' <=> Listed(Job(w))
      /\ Spared(Job(w))' <=> Spared(Job(w))
  BY <1>1, StepFrame
<1>6. Resolved(w) => Resolved(w)'
  BY <1>4, <1>5 DEF Resolved, VisibleBrands
<1>7. Progress(w)
  BY TxnFacts
<1>8. Progress(w)'
  BY <1>1, <1>2, <1>4, <1>5, <1>6, <1>7 DEF Progress, Early
<1>9. \A b \in brands : MayAdd(w, b)' => MayAdd(w, b)
  BY <1>4, <1>5 DEF MayAdd
<1> QED
  BY <1>1, <1>4, <1>8, <1>9, StepKeeps DEF Busy, Phase

-----------------------------------------------------------------------------
\* What a commit does, with the row it may add.
LEMMA CommitFrame ==
  ASSUME Inv, NEW w \in Worker, Commit(w)
  PROVE  /\ phase[w] = "commit" /\ Busy(w)
         /\ phase' \in [Worker -> Phase] /\ txn' \in [Worker -> Txn]
         /\ job' \in [Worker -> Nat] /\ upto' \in [Worker -> Nat]
         /\ phase'[w] \in {"find", "idle"} /\ txn'[w] = NoWork
         /\ job'[w] # 0 <=> phase'[w] = "find"
         /\ job'[w] <= upto'[w] /\ upto'[w] <= taken
         /\ \A v \in Worker \ {w} : Keeps(v) /\ upto'[v] = upto[v]
         /\ StreamGrows
         /\ UNCHANGED <<stream, faults, taken>>
         /\ brands' = VisibleBrands(w)
         /\ done' = done \cup {job[w]}
         /\ brands \subseteq brands' /\ rows \subseteq rows'
         /\ \A r \in rows' : \/ r \in rows
                             \/ /\ txn[w].row
                                /\ r = [id |-> Job(w).id, brand |-> txn[w].use, by |-> job[w]]
<1>1. StreamGrows
  BY StandsStill DEF Commit, Inv
<1>2. /\ phase[w] = "commit" /\ Busy(w)
      /\ Turn(w, job[w] + 1, upto[w])
  BY DEF Commit, Busy
<1>3. /\ upto[w] \in Nat /\ upto[w] <= taken /\ taken \in Nat
      /\ job[w] + 1 \in Nat \ {0}
  BY DEF Inv, CatalogInv, CatalogTypes
<1>4. /\ phase' \in [Worker -> Phase] /\ txn' \in [Worker -> Txn]
      /\ job' \in [Worker -> Nat] /\ upto' \in [Worker -> Nat]
      /\ phase'[w] \in {"find", "idle"} /\ txn'[w] = NoWork
      /\ job'[w] # 0 <=> phase'[w] = "find"
      /\ job'[w] <= upto'[w] /\ upto'[w] <= upto[w]
      /\ \A v \in Worker \ {w} : Keeps(v) /\ upto'[v] = upto[v]
  BY <1>2, <1>3, TurnFrame
<1>5. upto'[w] <= taken
  BY <1>3, <1>4
<1> QED
  BY <1>1, <1>2, <1>4, <1>5 DEF Commit, VisibleBrands

\* The race for a brand when w commits the row it inserted.
LEMMA RaceAfterCommit ==
  ASSUME Inv, NEW w \in Worker, Commit(w), NEW b \in brands'
  PROVE  Cardinality(Spellings(b)') + Cardinality(Racing(b)') <= Cardinality(Worker)
<1> DEFINE new == txn[w].brand
<1>1. /\ new \in Name \cup {Null} /\ Null \notin Name
      /\ brands \subseteq Name /\ IsFiniteSet(brands)
  BY TxnFacts, NameAssumption DEF Inv, CatalogInv, CatalogTypes
<1>2. ~MayAdd(w, b)' /\ \A v \in Worker \ {w} : MayAdd(v, b)' => MayAdd(v, b)
  BY CommitFrame, MayAddStays, NoWorkFacts DEF MayAdd
<1>3. Racing(b)' \subseteq Racing(b) \ {w} /\ Racing(b) \subseteq Worker
  BY <1>2 DEF Racing
<1>4. IsFiniteSet(Worker) /\ IsFiniteSet(Racing(b))
      /\ IsFiniteSet(Racing(b) \ {w}) /\ IsFiniteSet(Worker \ {w})
  BY <1>3, WorkerAssumption, FS_Subset, FS_RemoveElement
<1>5. /\ IsFiniteSet(Racing(b)')
      /\ Cardinality(Racing(b)') <= Cardinality(Racing(b) \ {w})
  BY <1>3, <1>4, FS_Subset
<1>6. IsFiniteSet(Spellings(b))
  BY <1>1, FS_Subset DEF Spellings
<1>7. /\ Cardinality(Worker) \in Nat /\ Cardinality(Racing(b)) \in Nat /\ Cardinality(Spellings(b)) \in Nat
      /\ Cardinality(Racing(b) \ {w}) \in Nat /\ Cardinality(Racing(b)') \in Nat
      /\ Cardinality(Worker \ {w}) \in Nat
  BY <1>4, <1>5, <1>6, FS_CardinalityType
<1>8. CASE new = Null \/ Folded[new] # Folded[b]
  <2>1. b \in brands /\ Spellings(b)' = Spellings(b)
    BY <1>8, CommitFrame DEF VisibleBrands, Spellings
  <2>2. Cardinality(Spellings(b)) + Cardinality(Racing(b)) <= Cardinality(Worker)
    BY <2>1 DEF Inv, CatalogInv, RaceIsBounded
  <2>3. Cardinality(Racing(b) \ {w}) <= Cardinality(Racing(b))
    BY <1>4, <1>7, FS_RemoveElement
  <2> QED
    BY <1>5, <1>7, <2>1, <2>2, <2>3
<1>9. CASE new # Null /\ Folded[new] = Folded[b]
  <2>1. w \in Racing(b)
    BY <1>9 DEF Racing, MayAdd
  <2>2. Cardinality(Racing(b) \ {w}) = Cardinality(Racing(b)) - 1
    BY <1>4, <2>1, FS_RemoveElement
  <2>3. Spellings(b)' = Spellings(b) \cup {new}
    BY <1>9, CommitFrame DEF VisibleBrands, Spellings
  <2>4. Cardinality(Spellings(b)') <= Cardinality(Spellings(b)) + 1
        /\ Cardinality(Spellings(b)') \in Nat
    <3>1. /\ IsFiniteSet(Spellings(b) \cup {new})
          /\ Cardinality(Spellings(b) \cup {new}) <= Cardinality(Spellings(b)) + 1
      <4>1. /\ IsFiniteSet(Spellings(b) \cup {new})
            /\ \/ Cardinality(Spellings(b) \cup {new}) = Cardinality(Spellings(b))
               \/ Cardinality(Spellings(b) \cup {new}) = Cardinality(Spellings(b)) + 1
        BY <1>6, FS_AddElement
      <4> QED
        BY <4>1, <1>7
    <3> QED
      BY <2>3, <3>1, FS_CardinalityType
  <2>5. CASE Spellings(b) = {}
    <3>1. Cardinality(Spellings(b)') = 1
      <4>1. Spellings(b)' = {new}
        BY <2>3, <2>5
      <4> QED
        BY <4>1, FS_Singleton
    <3>2. Cardinality(Racing(b) \ {w}) <= Cardinality(Worker) - 1
      <4>1. Racing(b) \ {w} \subseteq Worker \ {w}
        <5>1. Racing(b) \subseteq Worker
          BY <1>3
        <5> QED
          BY <5>1
      <4>2. Cardinality(Racing(b) \ {w}) <= Cardinality(Worker \ {w})
        BY <1>4, <4>1, FS_Subset
      <4>3. Cardinality(Worker \ {w}) = Cardinality(Worker) - 1
        BY <1>4, FS_RemoveElement
      <4> QED
        BY <4>2, <4>3
    <3> QED
      BY <1>5, <1>7, <3>1, <3>2
  <2>6. CASE Spellings(b) # {}
    <3>1. PICK c \in brands : Folded[c] = Folded[b]
      BY <2>6 DEF Spellings
    <3>2. Spellings(c) = Spellings(b) /\ Racing(c) = Racing(b)
      BY <3>1 DEF Spellings, Racing, MayAdd
    <3>3. Cardinality(Spellings(b)) + Cardinality(Racing(b)) <= Cardinality(Worker)
      BY <3>2 DEF Inv, CatalogInv, RaceIsBounded
    <3> QED
      BY <1>5, <1>7, <2>2, <2>4, <3>3
  <2> QED
    BY <2>5, <2>6
<1> QED
  BY <1>8, <1>9

LEMMA CommitKeeps ==
  ASSUME Inv, NEW w \in Worker, Commit(w)
  PROVE  CatalogInv'
<1> DEFINE row == [id |-> Job(w).id, brand |-> txn[w].use, by |-> job[w]]
<1>1. /\ job[w] \in 1 .. taken /\ Job(w) = Found(job[w])
      /\ \A k : Found(k)' = Found(k)
  BY CommitFrame, JobFacts DEF Found
<1>2. Progress(w) /\ Apart /\ CatalogTypes
  BY TxnFacts DEF Inv, CatalogInv
<1>3. CatalogTypes'
  <2>1. /\ phase' \in [Worker -> Phase] /\ txn' \in [Worker -> Txn]
        /\ job' \in [Worker -> Nat] /\ upto' \in [Worker -> Nat]
    BY CommitFrame
  <2>2. /\ \A v \in Worker : job'[v] <= upto'[v] /\ upto'[v] <= taken
        /\ \A v \in Worker : (job'[v] # 0) <=> (phase'[v] \notin {"idle", "down"})
    BY <1>2, CommitFrame DEF CatalogTypes, Keeps
  <2>3. brands' \in SUBSET Name /\ IsFiniteSet(brands')
    <3>1. txn[w].brand \in Name \cup {Null} /\ IsFiniteSet(brands) /\ brands \subseteq Name
      BY <1>2, TxnFacts DEF CatalogTypes
    <3>2. \/ brands' = brands
          \/ brands' = brands \cup {txn[w].brand} /\ txn[w].brand # Null
      <4>1. brands' = brands \cup ({txn[w].brand} \ {Null})
        BY CommitFrame DEF VisibleBrands
      <4>2. CASE txn[w].brand = Null
        BY <4>1, <4>2
      <4>3. CASE txn[w].brand # Null
        BY <4>1, <4>3
      <4> QED
        BY <4>2, <4>3
    <3> QED
      BY <3>1, <3>2, FS_AddElement
  <2>4. \A k \in done' : k \in 1 .. taken'
    BY <1>1, <1>2, CommitFrame DEF CatalogTypes
  <2>5. unbranded' \subseteq done'
    BY <1>2 DEF CatalogTypes, Commit
  <2>6. \A r \in rows' : r.by \in done' /\ r.id = stream'[r.by].product.id
    BY <1>1, <1>2, CommitFrame DEF CatalogTypes, Found
  <2>7. taken' = taken /\ stream' = stream /\ taken \in Nat /\ taken <= Len(stream)
    BY <1>2, CommitFrame DEF CatalogTypes
  <2> QED
    BY <2>1, <2>2, <2>3, <2>4, <2>5, <2>6, <2>7 DEF CatalogTypes, Found
<1>4. \A v \in Worker : Progress(v)'
  <2>1. Progress(w)'
    BY CommitFrame, NoWorkFacts DEF Progress, Early
  <2>2. ASSUME NEW v \in Worker \ {w} PROVE Progress(v)'
    <3>1. ASSUME txn[v].row, NEW r \in rows' PROVE r \in rows \/ r.id # Job(v).id
      <4>1. txn[v].holds
        BY <3>1, TxnFacts DEF Progress
      <4>2. txn[w].row => txn[w].holds
        BY <1>2 DEF Progress
      <4> QED
        BY <1>2, <4>1, <4>2, CommitFrame DEF Apart
    <3> QED
      BY <3>1, CommitFrame, ProgressStays
  <2> QED
    BY <2>1, <2>2
<1>5. Apart'
  <2>1. \A v \in Worker \ {w} : Job(v)' = Job(v) /\ txn'[v] = txn[v]
    BY CommitFrame DEF Job, Keeps
  <2> QED
    BY <1>2, <2>1, CommitFrame, NoWorkFacts DEF Apart
<1>6. OneRowEach'
  <2>1. txn[w].row => \A r \in rows : r.id # row.id
    BY <1>2 DEF Progress, Listed
  <2> QED
    BY <2>1, CommitFrame DEF Inv, CatalogInv, OneRowEach
<1>7. ProductHasItsBrand'
  <2> SUFFICES ASSUME NEW r \in rows'
               PROVE  LET name == CleanName(Found(r.by)) IN
                      IF name = Null THEN r.brand = Null
                      ELSE r.brand \in brands' /\ Folded[r.brand] = Folded[name]
    BY <1>1 DEF ProductHasItsBrand, CleanName
  <2>1. CASE r \in rows
    BY <2>1, CommitFrame DEF Inv, CatalogInv, ProductHasItsBrand
  <2>2. CASE txn[w].row /\ r = row
    <3>1. Resolved(w) /\ brands' = VisibleBrands(w)
      BY <1>2, <2>2, CommitFrame DEF Progress
    <3> QED
      BY <1>1, <2>2, <3>1 DEF Resolved
  <2> QED
    BY <2>1, <2>2, CommitFrame
<1>8. MissesAreSpared'
  <2> SUFFICES ASSUME NEW k \in unbranded' PROVE Spared(Found(k))'
    BY DEF MissesAreSpared
  <2>1. Spared(Found(k))
    <3>1. CASE k \in unbranded
      BY <3>1 DEF Inv, CatalogInv, MissesAreSpared
    <3>2. CASE k \notin unbranded
      BY <1>1, <1>2, <3>2, CommitFrame DEF Commit, Progress
    <3> QED
      BY <3>1, <3>2
  <2> QED
    BY <1>1, <2>1, CommitFrame DEF Spared, RawName
<1>9. RaceIsBounded'
  BY RaceAfterCommit DEF RaceIsBounded, Commit
<1> QED
  BY <1>3, <1>4, <1>5, <1>6, <1>7, <1>8, <1>9 DEF CatalogInv

-----------------------------------------------------------------------------
LEMMA CatalogKeeps ==
  ASSUME Inv, CatalogNext, UNCHANGED connector
  PROVE  Inv'
<1>1. PICK w \in Worker : Work(w) \/ Fail(w)
  BY DEF CatalogNext
<1>2. UNCHANGED stream /\ (UNCHANGED faults \/ MayFail)
  BY <1>1 DEF Work, Fail, Restart, Take, FindListing, UpdateListing, ResolveBrand,
     CreateBrand, RereadBrand, StoreListing, Misfit, LookUpTier, Commit, Step, Abandon, Turn
<1>3. ConnectorInv'
  BY <1>2, ConnectorStays
<1>4. CASE Restart(w) \/ Take(w) \/ FindListing(w) \/ UpdateListing(w)
  BY <1>4, RestartKeeps, TakeKeeps, FindListingKeeps, UpdateListingKeeps, <1>3 DEF Inv
<1>5. CASE ResolveBrand(w) \/ CreateBrand(w) \/ RereadBrand(w) \/ StoreListing(w)
  BY <1>5, ResolveBrandKeeps, CreateBrandKeeps, RereadBrandKeeps, StoreListingKeeps, <1>3
     DEF Inv
<1>6. CASE LookUpTier(w) \/ Commit(w)
  BY <1>6, LookUpTierKeeps, CommitKeeps, <1>3 DEF Inv
<1>7. CASE Misfit(w) \/ Fail(w)
  BY <1>7, AbandonKeeps, <1>3 DEF Misfit, Fail, Inv
<1> QED
  BY <1>1, <1>4, <1>5, <1>6, <1>7 DEF Work

LEMMA NextInv ==
  ASSUME Inv, [Next]_vars
  PROVE  Inv'
<1>1. CASE ConnectorNext /\ UNCHANGED catalog
  BY <1>1, ConnectorKeeps, CatalogStays DEF Inv
<1>2. CASE CatalogNext /\ UNCHANGED connector
  BY <1>2, CatalogKeeps
<1>3. CASE UNCHANGED vars
  <2>1. UNCHANGED <<stream, faults, connector, catalog>>
    BY <1>3 DEF vars
  <2>2. ConnectorInv' /\ StreamGrows
    BY <2>1, ConnectorStays
  <2> QED
    BY <2>1, <2>2, CatalogStays DEF Inv
<1> QED
  BY <1>1, <1>2, <1>3 DEF Next

\* The inductive invariant holds in every reachable state.
THEOREM InvHolds == Spec => []Inv
<1>1. Init => Inv
  BY InitInv
<1>2. Inv /\ [Next]_vars => Inv'
  BY NextInv
<1> QED
  BY <1>1, <1>2, PTL DEF Spec

-----------------------------------------------------------------------------
LEMMA CountsAreInRange ==
  ASSUME Inv
  PROVE  /\ next \in 0 .. Len(feed.items) + 1
         /\ at \in {"fetch", "publish"} => next > 0
         /\ batch \in [published : 0 .. next, skipped : 0 .. next]
         /\ totals \in [published : 0 .. Len(stream),
                       skipped : 0 .. polls * Len(feed.items)]
<1>1. /\ next \in Nat /\ next <= Len(feed.items) + 1 /\ Len(feed.items) \in Nat
      /\ batch.published \in Nat /\ batch.skipped \in Nat
      /\ totals.published \in Nat /\ totals.skipped \in Nat
      /\ Len(stream) \in Nat /\ Readable \in Nat
  BY ConnectorFacts DEF Inv
<1>2. batch \in Counts /\ totals \in Counts
  BY ConnectorFacts DEF Inv
<1>3. Counted
  BY DEF Inv, ConnectorInv
<1>4. batch.published <= next /\ batch.skipped <= next /\ (Polling => next > 0)
  <2>1. CASE Polling
    BY <1>1, <1>3, <2>1 DEF Counted
  <2>2. CASE ~Polling
    BY <1>1, <1>3, <2>2, NoCountsFacts DEF Counted
  <2> QED
    BY <2>1, <2>2
<1>5. totals.published <= Len(stream) /\ totals.skipped <= Readable
  <2>1. totals.published + batch.published <= Len(stream)
    BY <1>3 DEF Counted
  <2>2. CASE Polling
    <3>1. totals.skipped + Len(feed.items) <= Readable
      BY <1>3, <2>2 DEF Counted
    <3> QED
      BY <1>1, <2>1, <3>1
  <2>3. CASE ~Polling
    <3>1. totals.skipped <= Readable
      BY <1>3, <2>3 DEF Counted
    <3> QED
      BY <1>1, <2>1, <3>1
  <2> QED
    BY <2>2, <2>3
<1>6. batch \in [published : 0 .. next, skipped : 0 .. next]
  BY <1>1, <1>2, <1>4 DEF Counts
<1>7. totals \in [published : 0 .. Len(stream), skipped : 0 .. Readable]
  BY <1>1, <1>2, <1>5 DEF Counts
<1> QED
  BY <1>1, <1>4, <1>6, <1>7 DEF Polling, Readable

LEMMA InvTyped ==
  ASSUME Inv
  PROVE  TypeOK
<1>1. \A k \in Entries : stream[k].item \in Place
  <2> SUFFICES ASSUME NEW k \in 1 .. Len(stream) PROVE stream[k].item \in Place
    BY DEF Entries
  <2> DEFINE E == [item : Place, product : Fit]
  <2>1. stream \in Seq(E)
    BY ConnectorFacts DEF Inv
  <2>2. stream[k] \in E
    <3> HIDE DEF E
    <3> QED
      BY <2>1, ElementOfSeq
  <2> QED
    BY <2>2
<1>2. CatalogTypes
  BY DEF Inv, CatalogInv
<1>3. /\ at \in {"down", "rest", "fetch", "publish"}
      /\ polls \in 0 .. feed.polls
      /\ faults \in 0 .. MaxFaults
      /\ at # "publish" => product = Null
  BY ConnectorFacts, MaxFaultsAssumption DEF Inv, ConnectorInv, ConnectorTypes, InHand
<1>4. /\ taken \in 0 .. Len(stream)
      /\ upto \in [Worker -> 0 .. taken]
      /\ \A w \in Worker : job[w] \in 0 .. upto[w]
      /\ done \subseteq 1 .. taken
  <2>1. Len(stream) \in Nat
    BY ConnectorFacts DEF Inv
  <2> QED
    BY <1>2, <2>1 DEF CatalogTypes
<1>5. /\ \A w \in Worker : (job[w] # 0) <=> (phase[w] \notin {"idle", "down"})
      /\ brands \subseteq Name /\ unbranded \subseteq done
  BY <1>2 DEF CatalogTypes
<1>6. \A r, s \in rows : r.id = s.id => r = s
  BY DEF Inv, CatalogInv, OneRowEach
<1> QED
  BY <1>1, <1>3, <1>4, <1>5, <1>6, CountsAreInRange DEF TypeOK

\* The counts of a poll stay within the items read, those of the process
\* within what was published and offered, one row lists each listing.
THEOREM TypeCorrect == Spec => []TypeOK
<1>1. Inv => TypeOK
  BY InvTyped
<1> QED
  BY <1>1, InvHolds, PTL

\* What the nine rules let through, the schema of LISTING_DISCOVERED
\* accepts, whatever a marketplace sends.
THEOREM NoPublishIsRefused == Spec => []PublishNeverRejects
<1>1. Inv => PublishNeverRejects
  BY DEF Inv, ConnectorInv, InHand, Fit, PublishNeverRejects
<1> QED
  BY <1>1, InvHolds, PTL

LEMMA InvBoundsSplits ==
  ASSUME Inv
  PROVE  SplitIsBounded
<1> SUFFICES ASSUME NEW b \in brands
             PROVE  Cardinality(Spellings(b)) <= Cardinality(Worker)
  BY DEF SplitIsBounded, Spellings
<1>1. Cardinality(Spellings(b)) + Cardinality(Racing(b)) <= Cardinality(Worker)
  BY DEF Inv, CatalogInv, RaceIsBounded
<1>2. IsFiniteSet(Spellings(b)) /\ IsFiniteSet(Racing(b))
  <2>1. Spellings(b) \subseteq brands /\ IsFiniteSet(brands)
    BY DEF Spellings, Inv, CatalogInv, CatalogTypes
  <2>2. Racing(b) \subseteq Worker
    BY DEF Racing
  <2> QED
    BY <2>1, <2>2, WorkerAssumption, FS_Subset
<1>3. /\ Cardinality(Spellings(b)) \in Nat /\ Cardinality(Racing(b)) \in Nat
      /\ Cardinality(Worker) \in Nat
  BY <1>2, WorkerAssumption, FS_CardinalityType
<1> QED
  BY <1>1, <1>3

\* A product hangs on the brand its listing names, and the workers leave at
\* most one spelling of a brand each, however their transactions interleave.
THEOREM BrandsStaySound == Spec => []BrandsAreSound
<1>1. Inv => BrandsAreSound
  BY InvBoundsSplits DEF BrandsAreSound, Inv, CatalogInv
<1> QED
  BY <1>1, InvHolds, PTL

\* A tier is missed only for a name that is not stored as it is spelled, or
\* for a listing that was stored under another brand.
THEOREM TiersAreSeen == Spec => []TierIsSeen
<1>1. Inv => TierIsSeen
  BY DEF Inv, CatalogInv, MissesAreSpared, Spared, TierIsSeen
<1> QED
  BY <1>1, InvHolds, PTL

\* Whoever holds a listing waits for nothing, and whoever waits for a brand
\* holds nothing.
LEMMA InvDoesNotCircle ==
  ASSUME Inv
  PROVE  NobodyWaitsInACircle
<1> SUFFICES ASSUME NEW S \in SUBSET Worker
             PROVE  (\A w \in S : \E v \in S : WaitsFor(w, v)) => S = {}
  BY DEF NobodyWaitsInACircle
<1> HAVE \A w \in S : \E v \in S : WaitsFor(w, v)
<1>1. \A w \in S : phase[w] \in {"create", "update", "store"}
  BY DEF WaitsFor
<1>2. \A w \in S : Progress(w)
  BY DEF Inv, CatalogInv
<1>3. \A w \in S : ~txn[w].holds
  BY <1>1, <1>2, NoWorkFacts DEF Progress, Early
<1>4. \A w \in S : phase[w] = "create" /\ CleanName(Job(w)) # Null
  BY <1>1, <1>2, <1>3 DEF WaitsFor, Progress
<1>5. \A w \in S : txn[w].brand = Null
  BY <1>2, <1>4, NoWorkFacts DEF Progress, Early
<1> QED
  BY <1>4, <1>5 DEF WaitsFor

\* No set of workers waits for each other in a circle, whatever brands and
\* listings they store at once (_upsert_listing, resolve_brand).
THEOREM NoDeadlock == Spec => []NobodyWaitsInACircle
<1>1. Inv => NobodyWaitsInACircle
  BY InvDoesNotCircle
<1> QED
  BY <1>1, InvHolds, PTL

-----------------------------------------------------------------------------
(***************************************************************************)
(* What is on the stream, and what is about to be put there, is what       *)
(* normalize() makes of an item of the batch.                              *)
(***************************************************************************)
MadeOf(p, i) == i \in Good(feed) /\ p = Outcome[feed][i].val

Faithful ==
  /\ \A k \in Entries : MadeOf(Found(k), stream[k].item)
  /\ at = "publish" => MadeOf(product, next)

LEMMA AddedIsFaithful ==
  ASSUME ConnectorInv, Faithful, at = "publish", Added, UNCHANGED feed
  PROVE  \A k \in Entries' : MadeOf(Found(k), stream[k].item)'
<1> SUFFICES ASSUME NEW k \in 1 .. Len(stream')
             PROVE  MadeOf(Found(k), stream[k].item)'
  BY DEF Entries
<1>1. /\ Len(stream) \in Nat
      /\ k \in Entries => stream'[k] = stream[k]
      /\ k \notin Entries => stream'[k] = Entry(next, product)
  BY ConnectorFacts, AddedIsTyped DEF Entries, StreamGrows
<1>2. CASE k \in Entries
  BY <1>1, <1>2 DEF Faithful, MadeOf, Found, Good
<1>3. CASE k \notin Entries
  <2>1. stream'[k].item = next /\ stream'[k].product = product
    BY <1>1, <1>3 DEF Entry
  <2> QED
    BY <2>1 DEF Faithful, MadeOf, Found, Good
<1> QED
  BY <1>2, <1>3

LEMMA FaithfulStep ==
  ASSUME Inv, Faithful, [Next]_vars
  PROVE  Faithful'
<1>1. ConnectorInv
  BY DEF Inv
<1>2. ASSUME UNCHANGED <<stream, feed>>, at' = "publish" => at = "publish",
             at' = "publish" => UNCHANGED <<product, next>>
      PROVE  Faithful'
  BY <1>2 DEF Faithful, Entries, Found, MadeOf, Good
<1>3. ASSUME at = "publish", at' # "publish", Added, UNCHANGED feed
      PROVE  Faithful'
  BY <1>1, <1>3, AddedIsFaithful DEF Faithful
<1>4. CASE NormalizeItem
  <2>1. /\ next \in 1 .. Len(feed.items)
        /\ product' = Outcome[feed][next].val
        /\ Outcome[feed][next].end = "value"
        /\ UNCHANGED <<stream, feed, next>>
    BY <1>1, <1>4, ConnectorFacts
    DEF NormalizeItem, Reads, Normalized, ConnectorInv, Counted, Polling
  <2>2. next \in Good(feed)
    BY <1>1, <2>1, FeedFacts, ConnectorFacts DEF Good
  <2> QED
    BY <2>1, <2>2 DEF Faithful, Entries, Found, MadeOf, Good
<1>5. CASE Publish
  <2>1. CASE SchemaAccepts(product)
    BY <1>3, <1>5, <2>1 DEF Publish
  <2>2. CASE ~SchemaAccepts(product)
    BY <1>2, <1>5, <2>2 DEF Publish, Ends
  <2> QED
    BY <2>1, <2>2
<1>6. CASE PublishReplyLost
  BY <1>3, <1>6 DEF PublishReplyLost, Ends
<1>7. CASE \/ StartConnector \/ BeginPoll \/ SkipItem \/ ChokeOnItem \/ EndPoll
           \/ FetchFails \/ KillConnector
  BY <1>2, <1>7
  DEF StartConnector, BeginPoll, SkipItem, Reads, ChokeOnItem, Ends, EndPoll,
      FetchFails, KillConnector
<1>8. CASE CatalogNext /\ UNCHANGED connector
  <2>1. UNCHANGED stream
    BY <1>8 DEF CatalogNext, Work, Restart, Take, FindListing, UpdateListing,
                ResolveBrand, CreateBrand, RereadBrand, StoreListing, Misfit,
                LookUpTier, Commit, Fail, Step, Abandon
  <2> QED
    BY <1>2, <1>8, <2>1 DEF connector
<1>9. CASE UNCHANGED vars
  BY <1>2, <1>9 DEF vars, connector
<1> QED
  BY <1>4, <1>5, <1>6, <1>7, <1>8, <1>9 DEF Next, ConnectorNext, ConnectorWork

\* The amounts of a product are those that its page states.
LEMMA MoneyIsStated ==
  ASSUME NEW f \in Feeds, NEW i \in Good(f)
  PROVE  LET p == Outcome[f][i].val
             offer == f.items[i].offer
         IN  /\ IsPaiseOf(p.price, offer.paid)
             /\ IF offer.struck = Null THEN p.mrp \in {Null, p.price}
                ELSE p.mrp # Null /\ IsPaiseOf(p.mrp, offer.struck)
<1> DEFINE p == Outcome[f][i].val
           offer == f.items[i].offer
           raw == f.items[i].raw
           fields == Fields(f.market, raw)
           asks == PricePlaces[f.market]
           strikes == StruckPlaces[f.market]
<1>1. /\ f.market \in Marketplace /\ i \in DOMAIN f.items /\ IsItem(raw)
      /\ Outcome[f][i] = Normalize(f.market, raw)
      /\ Normalize(f.market, raw).end = "value"
  BY FeedsAssumption DEF Good, Outcome, IsItem, IsJson
<1>2. /\ fields.price.end = "value" /\ p.price = fields.price.val
      /\ fields.mrp.end = "value" /\ p.mrp = fields.mrp.val
  BY <1>1, NormalizedMoney
<1>3. /\ DOMAIN asks \in SUBSET Nat /\ DOMAIN strikes \in SUBSET Nat
      /\ \E reads : /\ fields.price = RequiredPaise(raw, asks, reads)
                    /\ fields.mrp = FirstPaise(raw, strikes, reads)
  <2>1. CASE f.market = "AMAZON"
    BY <2>1 DEF Fields, AmazonFields, AmazonPaths, PricePlaces, StruckPlaces
  <2>2. CASE f.market = "FLIPKART"
    BY <2>2 DEF Fields, FlipkartFields, FlipkartPaths, PricePlaces, StruckPlaces
  <2>3. CASE f.market = "MYNTRA"
    BY <2>3 DEF Fields, MyntraFields, MyntraPaths, PricePlaces, StruckPlaces
  <2>4. CASE f.market = "NYKAA"
    BY <2>4 DEF Fields, NykaaFields, NykaaPaths, PricePlaces, StruckPlaces
  <2> QED
    BY <1>1, <2>1, <2>2, <2>3, <2>4 DEF Marketplace
<1>4. /\ offer.paid \in Int
      /\ States(raw, asks, offer.paid)
      /\ IF offer.struck = Null THEN States(raw, strikes, offer.paid)
         ELSE /\ offer.struck \in Int
              /\ Present(raw, strikes) # {}
              /\ States(raw, strikes, offer.struck)
  BY <1>1, OfferAssumption
<1> HIDE DEF p, offer, raw, fields, asks, strikes
<1>5. p.price = HalfUp(offer.paid)
  BY <1>2, <1>3, <1>4, RequiredPaiseIsThere, FirstPaiseIsFirst DEF States
<1>6. IF Present(raw, strikes) = {} THEN p.mrp = Null
      ELSE \A amount : States(raw, strikes, amount) => p.mrp = HalfUp(amount)
  BY <1>2, <1>3, FirstPaiseIsFirst DEF States
<1>7. IF offer.struck = Null THEN p.mrp \in {Null, p.price}
      ELSE p.mrp # Null /\ IsPaiseOf(p.mrp, offer.struck)
  BY <1>4, <1>5, <1>6, HalfUpIsNearest, NullAssumption
<1>8. IsPaiseOf(p.price, offer.paid)
  BY <1>4, <1>5, HalfUpIsNearest
<1> QED
  BY <1>7, <1>8 DEF p, offer

\* A flag is a real boolean or None, which is neither.
LEMMA FlagIsRead ==
  ASSUME NEW raw, NEW path
  PROVE  LET v == Select(raw, path) IN
         /\ v.is = "bool" => Flag(raw, path) \in BOOLEAN /\ Flag(raw, path) # Null
         /\ v.is = "bool" => (Flag(raw, path) <=> v.n = 1)
         /\ v.is # "bool" => Flag(raw, path) = Null
<1> DEFINE v == Select(raw, path)
<1>1. CASE v.is = "bool"
  <2>1. Flag(raw, path) = (v.n = 1)
    BY <1>1 DEF Flag
  <2> HIDE DEF v
  <2> QED
    BY <1>1, <2>1, NullAssumption DEF v
<1>2. CASE v.is # "bool"
  BY <1>2 DEF Flag
<1> QED
  BY <1>1, <1>2

IsRead(raw, path) == Select(raw, path).is = "text" /\ Select(raw, path).as # "blank"

\* The text of a single path is what is there, unless that is no text.
LEMMA TextIsRead ==
  ASSUME NEW raw, IsItem(raw), NEW path,
         path \in DOMAIN raw => Stripped(raw[path]) # Null
  PROVE  IF IsRead(raw, path)
         THEN /\ FirstText(raw, <<path>>) # Null
              /\ FirstText(raw, <<path>>).what = Select(raw, path).what
         ELSE FirstText(raw, <<path>>) = Null
<1> DEFINE paths == <<path>>
           v == Select(raw, path)
           usable == {i \in DOMAIN paths : LET u == Select(raw, paths[i])
                                            IN  u.is = "text" /\ u.as # "blank"}
<1>1. FirstText(raw, paths) = IF usable = {} THEN Null
                              ELSE Stripped(Select(raw, paths[Min(usable)]))
  BY DEF FirstText
<1>2. DOMAIN paths = {1} /\ paths[1] = path
  OBVIOUS
<1>3. usable = IF IsRead(raw, path) THEN {1} ELSE {}
  BY <1>2 DEF IsRead
<1> HIDE DEF paths, usable
<1>4. CASE IsRead(raw, path)
  <2>1. Min(usable) = 1
    BY <1>3, <1>4, MinIsFirst
  <2>2. path \in DOMAIN raw /\ v = raw[path]
    BY <1>4 DEF IsRead, Select, Absent, Json
  <2>3. IsJson(v)
    BY SelectedIsJson
  <2>4. Stripped(v).what = v.what
    BY <2>3 DEF Stripped, IsJson, Json
  <2> QED
    BY <1>1, <1>2, <1>3, <1>4, <2>1, <2>2, <2>4 DEF paths
<1>5. CASE ~IsRead(raw, path)
  BY <1>1, <1>3, <1>5 DEF paths
<1> QED
  BY <1>4, <1>5

\* The first place that holds something decides.
LEMMA FirstOfTwo ==
  ASSUME NEW market, NEW raw, DOMAIN StockPlaces[market] = {1, 2}
  PROVE  LET one == StockPlaces[market][1]
             two == StockPlaces[market][2]
         IN  SaysInStock(market, raw) <=>
               \/ Holds(raw, one) /\ IsYes(raw, one)
               \/ ~Holds(raw, one) /\ Holds(raw, two) /\ IsYes(raw, two)
<1> DEFINE places == StockPlaces[market]
           silent(i) == \A j \in 1 .. i - 1 : ~Holds(raw, places[j])
<1>1. SaysInStock(market, raw) <=>
        \E i \in DOMAIN places :
          Holds(raw, places[i]) /\ IsYes(raw, places[i]) /\ silent(i)
  BY DEF SaysInStock
<1>2. silent(1) /\ (silent(2) <=> ~Holds(raw, places[1]))
  OBVIOUS
<1> HIDE DEF places, silent
<1> QED
  BY <1>1, <1>2 DEF places

LEMMA FirstOfThree ==
  ASSUME NEW market, NEW raw, DOMAIN StockPlaces[market] = {1, 2, 3}
  PROVE  LET one == StockPlaces[market][1]
             two == StockPlaces[market][2]
             three == StockPlaces[market][3]
         IN  SaysInStock(market, raw) <=>
               \/ Holds(raw, one) /\ IsYes(raw, one)
               \/ ~Holds(raw, one) /\ Holds(raw, two) /\ IsYes(raw, two)
               \/ /\ ~Holds(raw, one) /\ ~Holds(raw, two)
                  /\ Holds(raw, three) /\ IsYes(raw, three)
<1> DEFINE places == StockPlaces[market]
           silent(i) == \A j \in 1 .. i - 1 : ~Holds(raw, places[j])
<1>1. SaysInStock(market, raw) <=>
        \E i \in DOMAIN places :
          Holds(raw, places[i]) /\ IsYes(raw, places[i]) /\ silent(i)
  BY DEF SaysInStock
<1>2. silent(1) /\ (silent(2) <=> ~Holds(raw, places[1]))
  OBVIOUS
<1>3. silent(3) <=> ~Holds(raw, places[1]) /\ ~Holds(raw, places[2])
  OBVIOUS
<1> HIDE DEF places, silent
<1> QED
  BY <1>1, <1>2, <1>3 DEF places

\* The stock of an item is what the first of its places that speaks says.
LEMMA AmazonStockIsRead ==
  ASSUME NEW raw, IsItem(raw),
         \A path \in DOMAIN raw : Stripped(raw[path]) # Null
  PROVE  AmazonInStock(raw) <=> SaysInStock("AMAZON", raw)
<1> DEFINE type == "Availability.Type"
           prose == "Availability.Message"
           kind == FirstText(raw, <<AmazonPaths.stock>>)
           message == FirstText(raw, <<AmazonPaths.prose>>)
<1>1. /\ DOMAIN StockPlaces["AMAZON"] = {1, 2}
      /\ StockPlaces["AMAZON"][1] = type /\ StockPlaces["AMAZON"][2] = prose
  BY DEF StockPlaces
<1>2. /\ Holds(raw, type) <=> IsRead(raw, type)
      /\ Holds(raw, prose) <=> IsRead(raw, prose)
      /\ IsYes(raw, type) <=> Select(raw, type).what = "now"
      /\ IsYes(raw, prose) <=> "in stock" \in Says[Select(raw, prose).what]
  BY DEF Holds, IsRead, IsYes, Denials, Affirmations
<1>3. AmazonInStock(raw) = IF kind # Null THEN kind.what = "now"
                           ELSE message # Null /\ "in stock" \in Says[message.what]
  BY DEF AmazonInStock
<1>4. /\ IF IsRead(raw, type) THEN kind # Null /\ kind.what = Select(raw, type).what
         ELSE kind = Null
      /\ IF IsRead(raw, prose)
         THEN message # Null /\ message.what = Select(raw, prose).what
         ELSE message = Null
  BY TextIsRead DEF AmazonPaths
<1> HIDE DEF kind, message, type, prose
<1> QED
  BY <1>1, <1>2, <1>3, <1>4, FirstOfTwo

\* Prose reads as stock where it affirms and does not deny.
LEMMA ProseIsRead ==
  ASSUME NEW raw, IsItem(raw), NEW path \in {"availability", "stock_status"},
         \A p \in DOMAIN raw : Stripped(raw[p]) # Null
  PROVE  ReadsAsStock(FirstText(raw, <<path>>), Affirmations(path))
           <=> Holds(raw, path) /\ IsYes(raw, path)
<1> DEFINE message == FirstText(raw, <<path>>)
           v == Select(raw, path)
           markers == Affirmations(path)
<1>1. /\ Holds(raw, path) <=> IsRead(raw, path)
      /\ IsYes(raw, path) <=> /\ Says[v.what] \cap {"out of stock", "sold out"} = {}
                             /\ Says[v.what] \cap markers # {}
  BY DEF Holds, IsRead, IsYes, Denials
<1>2. IF IsRead(raw, path) THEN message # Null /\ message.what = v.what
      ELSE message = Null
  BY TextIsRead
<1> HIDE DEF message, v, markers
<1>3. ReadsAsStock(message, markers)
        <=> /\ message # Null
            /\ Says[message.what] \cap {"out of stock", "sold out"} = {}
            /\ Says[message.what] \cap markers # {}
  BY DEF ReadsAsStock
<1> QED
  BY <1>1, <1>2, <1>3 DEF message, markers

LEMMA FlipkartStockIsRead ==
  ASSUME NEW raw, IsItem(raw),
         \A path \in DOMAIN raw : Stripped(raw[path]) # Null
  PROVE  FlipkartInStock(raw) <=> SaysInStock("FLIPKART", raw)
<1> DEFINE inStock == Flag(raw, "inStock")
           reads == ReadsAsStock(FirstText(raw, <<"availability">>),
                                 Affirmations("availability"))
<1>1. /\ DOMAIN StockPlaces["FLIPKART"] = {1, 2}
      /\ StockPlaces["FLIPKART"][1] = "inStock"
      /\ StockPlaces["FLIPKART"][2] = "availability"
  BY DEF StockPlaces
<1>2. /\ Holds(raw, "inStock") <=> Select(raw, "inStock").is = "bool"
      /\ IsYes(raw, "inStock") <=> Select(raw, "inStock").n = 1
  BY DEF Holds, IsYes
<1>3. Affirmations("availability") = {"in stock", "left"}
  BY DEF Affirmations
<1>4. /\ inStock # Null => (FlipkartInStock(raw) <=> inStock)
      /\ inStock = Null => (FlipkartInStock(raw) <=> reads)
  BY <1>3 DEF FlipkartInStock, FlipkartPaths
<1>5. reads <=> Holds(raw, "availability") /\ IsYes(raw, "availability")
  BY ProseIsRead
<1> HIDE DEF inStock, reads
<1>6. CASE Holds(raw, "inStock")
  <2>1. inStock # Null /\ (inStock <=> IsYes(raw, "inStock"))
    BY <1>2, <1>6, FlagIsRead DEF inStock
  <2> QED
    BY <1>1, <1>4, <1>6, <2>1, FirstOfTwo
<1>7. CASE ~Holds(raw, "inStock")
  <2>1. inStock = Null
    BY <1>2, <1>7, FlagIsRead DEF inStock
  <2> QED
    BY <1>1, <1>4, <1>5, <1>7, <2>1, FirstOfTwo
<1> QED
  BY <1>6, <1>7

LEMMA MyntraStockIsRead ==
  ASSUME NEW raw, IsItem(raw)
  PROVE  MyntraInStock(raw) <=> SaysInStock("MYNTRA", raw)
<1> DEFINE sizes == Select(raw, "inventoryInfo")
           soldOut == Flag(raw, "outOfStock")
<1>1. /\ DOMAIN StockPlaces["MYNTRA"] = {1, 2}
      /\ StockPlaces["MYNTRA"][1] = "inventoryInfo"
      /\ StockPlaces["MYNTRA"][2] = "outOfStock"
  BY DEF StockPlaces
<1>2. /\ Holds(raw, "inventoryInfo") <=> sizes.is = "list"
      /\ IsYes(raw, "inventoryInfo") <=> \E size \in sizes.what : CanBeHad(size)
      /\ Holds(raw, "outOfStock") <=> Select(raw, "outOfStock").is = "bool"
      /\ IsYes(raw, "outOfStock") <=> Select(raw, "outOfStock").n # 1
  BY DEF Holds, IsYes
<1>3. /\ sizes.is = "list" =>
           (MyntraInStock(raw) <=> \E size \in sizes.what : SizeAvailable(size))
      /\ sizes.is # "list" => (MyntraInStock(raw) <=> soldOut # Null /\ ~soldOut)
  BY DEF MyntraInStock, MyntraPaths
<1>4. soldOut # Null /\ ~soldOut <=> Holds(raw, "outOfStock") /\ IsYes(raw, "outOfStock")
  BY <1>2, FlagIsRead
<1>5. \A size : SizeAvailable(size) <=> CanBeHad(size)
  <2> SUFFICES ASSUME NEW size PROVE SizeAvailable(size) <=> CanBeHad(size)
    OBVIOUS
  <2>1. Flag(size, "available") = TRUE
          <=> Select(size, "available").is = "bool" /\ Select(size, "available").n = 1
    BY FlagIsRead, NullAssumption
  <2> QED
    BY <2>1 DEF SizeAvailable, CanBeHad
<1> HIDE DEF sizes, soldOut
<1> QED
  BY <1>1, <1>2, <1>3, <1>4, <1>5, FirstOfTwo

LEMMA NykaaStockIsRead ==
  ASSUME NEW raw, IsItem(raw),
         \A path \in DOMAIN raw : Stripped(raw[path]) # Null
  PROVE  NykaaInStock(raw) <=> SaysInStock("NYKAA", raw)
<1> DEFINE inStock == Flag(raw, "in_stock")
           quantity == Select(raw, "quantity")
           reads == ReadsAsStock(FirstText(raw, <<"stock_status">>),
                                 Affirmations("stock_status"))
<1>1. /\ DOMAIN StockPlaces["NYKAA"] = {1, 2, 3}
      /\ StockPlaces["NYKAA"][1] = "in_stock"
      /\ StockPlaces["NYKAA"][2] = "quantity"
      /\ StockPlaces["NYKAA"][3] = "stock_status"
  BY DEF StockPlaces
<1>2. /\ Holds(raw, "in_stock") <=> Select(raw, "in_stock").is = "bool"
      /\ IsYes(raw, "in_stock") <=> Select(raw, "in_stock").n = 1
      /\ Holds(raw, "quantity") <=> quantity.is = "int"
      /\ IsYes(raw, "quantity") <=> quantity.n > 0
  BY DEF Holds, IsYes
<1>3. Affirmations("stock_status") = {"in stock", "available", "low stock"}
  BY DEF Affirmations
<1>4. /\ inStock # Null => (NykaaInStock(raw) <=> inStock)
      /\ inStock = Null /\ quantity.is = "int" => (NykaaInStock(raw) <=> quantity.n > 0)
      /\ inStock = Null /\ quantity.is # "int" => (NykaaInStock(raw) <=> reads)
  BY <1>3 DEF NykaaInStock, NykaaPaths
<1>5. reads <=> Holds(raw, "stock_status") /\ IsYes(raw, "stock_status")
  BY ProseIsRead
<1> HIDE DEF inStock, quantity, reads
<1>6. CASE Holds(raw, "in_stock")
  <2>1. inStock # Null /\ (inStock <=> IsYes(raw, "in_stock"))
    BY <1>2, <1>6, FlagIsRead DEF inStock
  <2> QED
    BY <1>1, <1>4, <1>6, <2>1, FirstOfThree
<1>7. CASE ~Holds(raw, "in_stock")
  <2>1. inStock = Null
    BY <1>2, <1>7, FlagIsRead DEF inStock
  <2> QED
    BY <1>1, <1>2, <1>4, <1>5, <1>7, <2>1, FirstOfThree
<1> QED
  BY <1>6, <1>7

LEMMA StockIsRead ==
  ASSUME NEW market \in Marketplace, NEW raw, IsItem(raw),
         \A path \in DOMAIN raw : Stripped(raw[path]) # Null
  PROVE  Fields(market, raw).in_stock.val <=> SaysInStock(market, raw)
<1>1. CASE market = "AMAZON"
  <2>1. Fields(market, raw).in_stock.val = AmazonInStock(raw)
    BY <1>1 DEF Fields, AmazonFields, Value
  <2> QED
    BY <1>1, <2>1, AmazonStockIsRead
<1>2. CASE market = "FLIPKART"
  <2>1. Fields(market, raw).in_stock.val = FlipkartInStock(raw)
    BY <1>2 DEF Fields, FlipkartFields, Value
  <2> QED
    BY <1>2, <2>1, FlipkartStockIsRead
<1>3. CASE market = "MYNTRA"
  <2>1. Fields(market, raw).in_stock.val = MyntraInStock(raw)
    BY <1>3 DEF Fields, MyntraFields, Value
  <2> QED
    BY <1>3, <2>1, MyntraStockIsRead
<1>4. CASE market = "NYKAA"
  <2>1. Fields(market, raw).in_stock.val = NykaaInStock(raw)
    BY <1>4 DEF Fields, NykaaFields, Value
  <2> QED
    BY <1>4, <2>1, NykaaStockIsRead
<1> QED
  BY <1>1, <1>2, <1>3, <1>4 DEF Marketplace

\* Every entry of the stream is what normalize() made of one item of the
\* feed, whole and unmixed, whatever failed on the way (publish_batch).
THEOREM PublishedIsNormalized == Spec => []Faithful
<1>1. Init => Faithful
  BY DEF Init, ConnectorInit, Faithful, Entries
<1>2. Inv /\ Faithful /\ [Next]_vars => Faithful'
  BY FaithfulStep
<1> QED
  BY <1>1, <1>2, InvHolds, PTL DEF Spec

\* For every feed whose offers are those its pages state, in whatever place
\* and form: the price published is what the page asks, to half a paisa,
\* and mrp what it strikes out.
THEOREM MoneyIsTheOffers == Spec => []SameOfferSameMoney
<1>1. Inv /\ Faithful => SameOfferSameMoney
  <2> SUFFICES ASSUME Inv, Faithful, NEW k \in Entries
               PROVE  /\ IsPaiseOf(Found(k).price, Offer(k).paid)
                      /\ IF Offer(k).struck = Null
                         THEN Found(k).mrp \in {Null, Found(k).price}
                         ELSE /\ Found(k).mrp # Null
                              /\ IsPaiseOf(Found(k).mrp, Offer(k).struck)
    BY DEF SameOfferSameMoney
  <2> DEFINE i == stream[k].item
  <2>1. feed \in Feeds
    BY DEF Inv, ConnectorInv, ConnectorTypes
  <2>2. i \in Good(feed) /\ Found(k) = Outcome[feed][i].val
    BY DEF Faithful, MadeOf
  <2>3. Offer(k) = feed.items[i].offer
    BY DEF Offer
  <2> HIDE DEF i
  <2> QED
    BY <2>1, <2>2, <2>3, MoneyIsStated
<1> QED
  BY <1>1, InvHolds, PublishedIsNormalized, PTL

\* What is published as in stock, and nothing else, is what the page says
\* in the first place that speaks: silence is no stock, and no quantity or
\* prose overrules a flag (the connectors' _in_stock, "a positive signal or
\* False").
StockIsWhatThePageSays ==
  \A k \in Entries :
    Found(k).in_stock <=> SaysInStock(feed.market, feed.items[stream[k].item].raw)

THEOREM StockIsRelayed == Spec => []StockIsWhatThePageSays
<1>1. Inv /\ Faithful => StockIsWhatThePageSays
  <2> SUFFICES ASSUME Inv, Faithful, NEW k \in Entries
               PROVE  Found(k).in_stock <=>
                        SaysInStock(feed.market, feed.items[stream[k].item].raw)
    BY DEF StockIsWhatThePageSays
  <2> DEFINE i == stream[k].item
             raw == feed.items[i].raw
  <2>1. feed \in Feeds
    BY DEF Inv, ConnectorInv, ConnectorTypes
  <2>2. i \in Good(feed) /\ Found(k) = Outcome[feed][i].val
    BY DEF Faithful, MadeOf
  <2> HIDE DEF i
  <2>3. /\ feed.market \in Marketplace /\ i \in DOMAIN feed.items /\ IsItem(raw)
        /\ Outcome[feed][i] = Normalize(feed.market, raw)
        /\ Normalize(feed.market, raw).end = "value"
    BY <2>1, <2>2, FeedsAssumption DEF Good, Outcome, IsItem, IsJson
  <2>4. \A path \in DOMAIN raw : Stripped(raw[path]) # Null
    BY <2>1, <2>3, TextAssumption
  <2>5. Found(k).in_stock = Fields(feed.market, raw).in_stock.val
    BY <2>2, <2>3, NormalizedStock
  <2> QED
    BY <2>3, <2>4, <2>5, StockIsRead DEF i
<1> QED
  BY <1>1, InvHolds, PublishedIsNormalized, PTL

\* For every feed whose pages mean what they say of their stock: what is
\* published as in stock can be bought, whatever fails on the way.  A page
\* that does not is published as it reads (the finding on Nykaa's prose).
THEOREM HonestStockIsReal ==
  ASSUME MeanIt(Feeds)
  PROVE  Spec => []StockIsReal
<1>1. Inv /\ Faithful /\ StockIsWhatThePageSays => StockIsReal
  <2> SUFFICES ASSUME Inv, Faithful, StockIsWhatThePageSays, NEW k \in Entries,
                      Found(k).in_stock
               PROVE  Offer(k).buyable
    BY DEF StockIsReal
  <2>1. feed \in Feeds /\ stream[k].item \in DOMAIN feed.items
    BY DEF Inv, ConnectorInv, ConnectorTypes, Faithful, MadeOf, Good
  <2>2. SaysInStock(feed.market, feed.items[stream[k].item].raw)
    BY DEF StockIsWhatThePageSays
  <2> QED
    BY <2>1, <2>2 DEF MeanIt, Offer
<1> QED
  BY <1>1, InvHolds, PublishedIsNormalized, StockIsRelayed, PTL

-----------------------------------------------------------------------------
(***************************************************************************)
(* What a poll has put on the stream: the items that normalize() accepts   *)
(* among those it read, once each and in their order.                      *)
(***************************************************************************)
Accepted == {i \in 1 .. next - 1 : i \in Good(feed)}

PollInOrder ==
  Polling =>
    /\ {Mine(k) : k \in 1 .. batch.published} = Accepted
    /\ \A j, k \in 1 .. batch.published : j < k => Mine(j) < Mine(k)

LEMMA PublishedInOrder ==
  ASSUME ConnectorInv, PollInOrder, MadeOf(product, next), at = "publish",
         Added, at' = "fetch", next' = next + 1,
         batch'.published = batch.published + 1, UNCHANGED feed
  PROVE  PollInOrder'
<1> DEFINE n == batch.published
           After(k) == stream'[Len(stream') - batch'.published + k].item
<1>1. /\ n \in Nat /\ next \in Nat /\ Len(stream) \in Nat
      /\ n <= Len(stream)
      /\ batch'.published = n + 1
  <2>1. totals.published + n <= Len(stream) /\ totals.published \in Nat
    BY ConnectorFacts
  <2> QED
    BY <2>1, ConnectorFacts
<1>2. /\ Len(stream') = Len(stream) + 1
      /\ stream'[Len(stream) + 1].item = next
      /\ \A k \in 1 .. Len(stream) : stream'[k] = stream[k]
  BY AddedIsTyped DEF StreamGrows, Entries, Entry
<1>3. /\ {Mine(k) : k \in 1 .. n} = Accepted
      /\ \A j, k \in 1 .. n : j < k => Mine(j) < Mine(k)
  BY DEF PollInOrder, Polling
<1>4. \A k \in 1 .. n : After(k) = Mine(k)
  <2> SUFFICES ASSUME NEW k \in 1 .. n
               PROVE  After(k) = Mine(k)
    OBVIOUS
  <2>1. /\ Len(stream') - batch'.published + k = Len(stream) - n + k
        /\ Len(stream) - n + k \in 1 .. Len(stream)
    BY <1>1, <1>2
  <2> QED
    BY <1>2, <2>1 DEF Mine
<1>5. After(n + 1) = next
  <2>1. Len(stream') - batch'.published + (n + 1) = Len(stream) + 1
    BY <1>1, <1>2
  <2> QED
    BY <1>2, <2>1 DEF Mine
<1>6. 1 .. (n + 1) = (1 .. n) \cup {n + 1}
  BY <1>1
<1>7. next > 0
  BY <1>1, ConnectorFacts DEF ConnectorInv, Counted, Polling
<1>8. 1 .. (next' - 1) = (1 .. (next - 1)) \cup {next}
  BY <1>1, <1>7
<1>9. Accepted' = Accepted \cup {next}
  BY <1>8 DEF Accepted, MadeOf, Good
<1>10. \A k \in 1 .. n : Mine(k) \in Nat /\ Mine(k) < next
  BY <1>1, <1>3 DEF Accepted
<1> HIDE DEF n, After
<1>11. {After(k) : k \in 1 .. n + 1} = Accepted \cup {next}
  BY <1>3, <1>4, <1>5, <1>6
<1>12. \A j, k \in 1 .. n + 1 : j < k => After(j) < After(k)
  <2> SUFFICES ASSUME NEW j \in 1 .. n + 1, NEW k \in 1 .. n + 1, j < k
               PROVE  After(j) < After(k)
    OBVIOUS
  <2>1. j \in 1 .. n
    BY <1>1
  <2>2. CASE k \in 1 .. n
    BY <1>3, <1>4, <2>1, <2>2
  <2>3. CASE k = n + 1
    BY <1>4, <1>5, <1>10, <2>1, <2>3
  <2> QED
    BY <1>6, <2>2, <2>3
<1> QED
  BY <1>1, <1>9, <1>11, <1>12 DEF PollInOrder, Mine, After, n

LEMMA PollInOrderStep ==
  ASSUME Inv, Faithful, PollInOrder, [Next]_vars
  PROVE  PollInOrder'
<1>1. ConnectorInv
  BY DEF Inv
<1>2. ASSUME UNCHANGED <<stream, feed, next>>,
             Polling' => Polling /\ batch'.published = batch.published
      PROVE  PollInOrder'
  BY <1>2 DEF PollInOrder, Mine, Accepted, Good
<1>3. ASSUME at' \notin {"fetch", "publish"}
      PROVE  PollInOrder'
  BY <1>3 DEF PollInOrder, Polling
<1>4. CASE BeginPoll
  <2>1. batch'.published = 0 /\ next' = 1
    BY <1>4, NoCountsFacts DEF BeginPoll
  <2>2. 1 .. 0 = {} /\ 1 .. (1 - 1) = {}
    OBVIOUS
  <2> QED
    BY <2>1, <2>2 DEF PollInOrder, Accepted
<1>5. CASE SkipItem
  <2>1. /\ at = "fetch" /\ at' = at /\ next' = next + 1
        /\ UNCHANGED <<stream, feed>>
        /\ next \notin Good(feed)
    BY <1>5 DEF SkipItem, Reads, Normalized, Good
  <2>2. batch'.published = batch.published
    BY <1>1, <1>5, ConnectorFacts DEF SkipItem, Counts
  <2>3. next \in Nat /\ next > 0
    BY <1>1, <2>1, ConnectorFacts DEF ConnectorInv, Counted, Polling
  <2>4. 1 .. (next' - 1) = (1 .. (next - 1)) \cup {next}
    BY <2>1, <2>3
  <2>5. Accepted' = Accepted
    BY <2>1, <2>4 DEF Accepted, Good
  <2> QED
    BY <2>1, <2>2, <2>5 DEF PollInOrder, Mine, Polling
<1>6. CASE Publish
  <2>1. CASE SchemaAccepts(product)
    <3>1. /\ at = "publish" /\ Added /\ at' = "fetch" /\ next' = next + 1
          /\ UNCHANGED feed
      BY <1>6, <2>1 DEF Publish
    <3>2. batch'.published = batch.published + 1
      BY <1>1, <1>6, <2>1, ConnectorFacts DEF Publish, Counts
    <3> QED
      BY <1>1, <3>1, <3>2, PublishedInOrder DEF Faithful
  <2>2. CASE ~SchemaAccepts(product)
    BY <1>3, <1>6, <2>2 DEF Publish, Ends
  <2> QED
    BY <2>1, <2>2
<1>7. CASE NormalizeItem
  BY <1>2, <1>7 DEF NormalizeItem, Reads, Polling
<1>8. CASE \/ StartConnector \/ ChokeOnItem \/ EndPoll \/ FetchFails
           \/ PublishReplyLost \/ KillConnector
  BY <1>3, <1>8
  DEF StartConnector, ChokeOnItem, Ends, EndPoll, FetchFails,
      PublishReplyLost, KillConnector
<1>9. CASE CatalogNext /\ UNCHANGED connector
  <2>1. UNCHANGED stream
    BY <1>9 DEF CatalogNext, Work, Restart, Take, FindListing, UpdateListing,
                ResolveBrand, CreateBrand, RereadBrand, StoreListing, Misfit,
                LookUpTier, Commit, Fail, Step, Abandon
  <2> QED
    BY <1>2, <1>9, <2>1 DEF connector, Polling
<1>10. CASE UNCHANGED vars
  BY <1>2, <1>10 DEF vars, connector, Polling
<1> QED
  BY <1>4, <1>5, <1>6, <1>7, <1>8, <1>9, <1>10
  DEF Next, ConnectorNext, ConnectorWork

\* Whatever the feed holds and whatever fails: a poll under way has put on
\* the stream what normalize() accepts of the items it read, each once and
\* in their order (iter_products, publish_batch).
THEOREM PollsPublishInOrder == Spec => []PollInOrder
<1>1. Init => PollInOrder
  BY DEF Init, ConnectorInit, PollInOrder, Polling
<1>2. Inv /\ Faithful /\ PollInOrder /\ [Next]_vars => PollInOrder'
  BY PollInOrderStep
<1> QED
  BY <1>1, <1>2, InvHolds, PublishedIsNormalized, PTL DEF Spec

\* The label of a page says what normalize() makes of it.
PagesAreLabelled ==
  \A f \in Feeds : \A i \in DOMAIN f.items :
    f.items[i].offer.page \in {"sound", "wide"} <=> Outcome[f][i].end = "value"

\* In every feed whose labels are right, the end of the stream is the
\* well-formed pages that the poll has read, and its counts add up to them.
THEOREM PollIsThePrefix ==
  ASSUME PagesAreLabelled
  PROVE  Spec => []BatchIsTheGoodPrefix
<1>1. Inv /\ PollInOrder => BatchIsTheGoodPrefix
  <2> SUFFICES ASSUME Inv, PollInOrder, Polling
               PROVE  BatchIsTheGoodPrefix
    BY DEF BatchIsTheGoodPrefix, Polling
  <2>1. ConnectorInv
    BY DEF Inv
  <2>2. /\ next \in Nat /\ next <= Len(feed.items) + 1
        /\ DOMAIN feed.items = 1 .. Len(feed.items) /\ Len(feed.items) \in Nat
        /\ feed \in Feeds
    BY <2>1, ConnectorFacts, FeedFacts
  <2>3. 1 .. next - 1 \subseteq DOMAIN feed.items
    BY <2>2
  <2>4. WellFormed = Accepted
    BY <2>2, <2>3, PagesAreLabelled DEF WellFormed, Kind, Accepted, Good,
                                       PagesAreLabelled
  <2>5. batch.published + batch.skipped = next - 1
    BY <2>1, ConnectorFacts DEF ConnectorInv, Counted
  <2>6. totals.published + batch.published <= Len(stream)
    BY <2>1, ConnectorFacts
  <2> QED
    BY <2>4, <2>5, <2>6 DEF BatchIsTheGoodPrefix, PollInOrder
<1> QED
  BY <1>1, InvHolds, PollsPublishInOrder, PTL
============================================================================
