------------------------------ MODULE Catalog ------------------------------
(***************************************************************************)
(* services/deal-engine: what a LISTING_DISCOVERED entry does to brands,   *)
(* products and listings, and which brand row its score goes by            *)
(* (handlers/event_handlers.py, services/brand_resolver.py,                *)
(* repositories).  One entry is one transaction under READ COMMITTED.      *)
(* Price history, deals, marks and acknowledgements are module DealEngine. *)
(*                                                                         *)
(* A brand row is its stored name: names are unique, case included.        *)
(*                                                                         *)
(* Definitions named Bug... are mutated forms of the definition that       *)
(* follows them.                                                           *)
(***************************************************************************)
EXTENDS ListingStream, FiniteSets

CONSTANTS
  Worker,     \* deal-engine processes
  BatchSize,  \* COUNT of XREADGROUP
  Name,       \* brand names as marketplaces spell them
  Collapsed,  \* Collapsed[n]: n, inner whitespace collapsed, cut at 200
  Folded      \* Folded[n]: lower(n)

ASSUME WorkerAssumption == IsFiniteSet(Worker)
ASSUME BatchAssumption == BatchSize \in Nat \ {0}

ASSUME NameAssumption ==
  /\ Null \notin Name
  /\ Collapsed \in [Name -> Name]
  /\ DOMAIN Folded = Name

VARIABLES
  taken,      \* how many entries were delivered to the group
  phase, job, \* where each worker is, and the entry it works on
  upto,       \* the last entry of the batch it works through
  txn,        \* uncommitted work of each worker
  brands,     \* brands: the names of its rows
  rows,       \* listings and their products: [id, brand, by]
  unbranded,  \* entries scored without a brand row
  done        \* entries whose transaction committed

catalog == <<taken, phase, job, upto, txn, brands, rows, unbranded, done>>

\* brand: the row this transaction inserted; use: the one it resolved;
\* holds: it inserted or updated the listing row; row: it inserted it;
\* found: find_by_name found a row for the score.
NoWork == [brand |-> Null, use |-> Null, holds |-> FALSE, row |-> FALSE,
           found |-> TRUE]

CatalogInit ==
  /\ taken = 0
  /\ phase = [w \in Worker |-> "idle"]
  /\ job = [w \in Worker |-> 0]
  /\ upto = [w \in Worker |-> 0]
  /\ txn = [w \in Worker |-> NoWork]
  /\ brands = {}
  /\ rows = {}
  /\ unbranded = {}
  /\ done = {}

Job(w) == stream[job[w]].product
RawName(p) == IF p.brand = Null THEN Null ELSE p.brand.what

\* brand_resolver._normalize
CleanName(p) == IF p.brand = Null THEN Null ELSE Collapsed[p.brand.what]

\* What w's statements see, and what another transaction is inserting.
VisibleBrands(w) == brands \cup ({txn[w].brand} \ {Null})
BeingInserted(w, name) == \E v \in Worker \ {w} : txn[v].brand = name
Listed(p) == \E r \in rows : r.id = p.id
Locked(w) == \E v \in Worker \ {w} : txn[v].holds /\ Job(v).id = Job(w).id

BugFindByName(w, name) == {b \in VisibleBrands(w) : b = name}
\* lower(name) = lower(%s); fetchone takes any of the rows that match.
FindByName(w, name) == {b \in VisibleBrands(w) : Folded[b] = Folded[name]}

Step(w, to, work) ==
  /\ phase' = [phase EXCEPT ![w] = to]
  /\ txn' = [txn EXCEPT ![w] = work]
  /\ UNCHANGED <<stream, faults, taken, job, upto, brands, rows, unbranded, done>>

\* w goes on with entry k of a batch that ends at entry last, or is done with
\* the batch.
Turn(w, k, last) ==
  /\ txn' = [txn EXCEPT ![w] = NoWork]
  /\ \/ /\ k <= last
        /\ phase' = [phase EXCEPT ![w] = "find"]
        /\ job' = [job EXCEPT ![w] = k]
        /\ upto' = [upto EXCEPT ![w] = last]
     \/ /\ k > last
        /\ phase' = [phase EXCEPT ![w] = "idle"]
        /\ job' = [job EXCEPT ![w] = 0]
        /\ upto' = [upto EXCEPT ![w] = 0]

\* The handler raised or the process died: a rollback, and the end of the
\* process.  The entry and the rest of its batch stay pending and are not read
\* again (ConsumerGroup).
Abandon(w) ==
  /\ phase' = [phase EXCEPT ![w] = "down"]
  /\ job' = [job EXCEPT ![w] = 0]
  /\ upto' = [upto EXCEPT ![w] = 0]
  /\ txn' = [txn EXCEPT ![w] = NoWork]
  /\ UNCHANGED <<stream, taken, brands, rows, unbranded, done>>

Restart(w) == phase[w] = "down" /\ Step(w, "idle", NoWork)

\* The entries that nobody got yet, as far as COUNT goes.
BatchEnd ==
  IF taken + BatchSize < Len(stream) THEN taken + BatchSize ELSE Len(stream)

Take(w) ==
  /\ phase[w] = "idle"
  /\ taken < Len(stream)
  /\ taken' = BatchEnd
  /\ Turn(w, taken + 1, BatchEnd)
  /\ UNCHANGED <<stream, faults, brands, rows, unbranded, done>>

BugFindListing(w) ==                     \* under a lock that others share
  /\ phase[w] = "find"
  /\ Step(w, IF Listed(Job(w)) THEN "update" ELSE "resolve",
          [NoWork EXCEPT !.holds = TRUE])
FindListing(w) ==
  /\ phase[w] = "find"
  /\ Step(w, IF Listed(Job(w)) THEN "update" ELSE "resolve", NoWork)

\* A value too wide for its column raises and the transaction rolls back.
UpdateListing(w) ==
  /\ phase[w] = "update"
  /\ Fits(Job(w))
  /\ ~Locked(w)
  /\ Step(w, "tier", [txn[w] EXCEPT !.holds = TRUE])

\* resolve_brand, up to the row it finds.
ResolveBrand(w) ==
  LET name == CleanName(Job(w)) IN
  /\ phase[w] = "resolve"
  /\ \/ name = Null /\ Step(w, "store", txn[w])
     \/ /\ name # Null
        /\ \E b \in FindByName(w, name) :
             Step(w, "store", [txn[w] EXCEPT !.use = b])
     \/ /\ name # Null
        /\ FindByName(w, name) = {}
        /\ Step(w, "create", txn[w])

\* INSERT ... ON CONFLICT (name) DO NOTHING waits for whoever is inserting
\* the same name.
CreateBrand(w) ==
  LET name == CleanName(Job(w)) IN
  /\ phase[w] = "create"
  /\ ~BeingInserted(w, name)
  /\ \/ name \in brands /\ Step(w, "reread", txn[w])
     \/ /\ name \notin brands
        /\ Step(w, "store", [txn[w] EXCEPT !.brand = name, !.use = name])

\* RuntimeError when the row that conflicted cannot be read.
RereadBrand(w) ==
  LET found == FindByName(w, CleanName(Job(w))) IN
  /\ phase[w] = "reread"
  /\ IF found = {} THEN Abandon(w) /\ UNCHANGED faults
     ELSE \E b \in found : Step(w, "store", [txn[w] EXCEPT !.use = b])

BugStoreListing(w) ==                    \* the unique key does not wait
  /\ phase[w] = "store"
  /\ Fits(Job(w))
  /\ Step(w, "tier", [txn[w] EXCEPT !.holds = TRUE, !.row = TRUE])
\* The product row, then the listing row: ON CONFLICT DO NOTHING waits for
\* whoever is inserting the same key, and re-reads a row that is committed.
StoreListing(w) ==
  /\ phase[w] = "store"
  /\ Fits(Job(w))
  /\ \/ Listed(Job(w)) /\ Step(w, "tier", txn[w])
     \/ /\ ~Listed(Job(w))
        /\ ~Locked(w)
        /\ Step(w, "tier", [txn[w] EXCEPT !.holds = TRUE, !.row = TRUE])

Misfit(w) ==
  /\ phase[w] \in {"update", "store"}
  /\ ~Fits(Job(w))
  /\ Abandon(w)
  /\ UNCHANGED faults

BugLookUpTier(w) ==                      \* by the brand that was resolved
  /\ phase[w] = "tier"
  /\ Step(w, "commit", [txn[w] EXCEPT !.found = @ /\ txn[w].use # Null])
\* The tier goes by the name as it came, not by the one that was resolved.
LookUpTier(w) ==
  LET name == RawName(Job(w)) IN
  /\ phase[w] = "tier"
  /\ Step(w, "commit", [txn[w] EXCEPT !.found =
                          name # Null /\ FindByName(w, name) # {}])

Commit(w) ==
  LET work == txn[w]
      row == [id |-> Job(w).id, brand |-> work.use, by |-> job[w]]
  IN
  /\ phase[w] = "commit"
  /\ brands' = VisibleBrands(w)
  /\ rows' = IF work.row THEN rows \cup {row} ELSE rows
  /\ unbranded' = IF work.found THEN unbranded ELSE unbranded \cup {job[w]}
  /\ done' = done \cup {job[w]}
  /\ Turn(w, job[w] + 1, upto[w])
  /\ UNCHANGED <<stream, faults, taken>>

Fail(w) ==
  /\ phase[w] \notin {"idle", "down"}
  /\ MayFail
  /\ Abandon(w)

Work(w) ==
  \/ Restart(w) \/ Take(w) \/ FindListing(w) \/ UpdateListing(w)
  \/ ResolveBrand(w) \/ CreateBrand(w) \/ RereadBrand(w) \/ StoreListing(w)
  \/ Misfit(w) \/ LookUpTier(w) \/ Commit(w)

CatalogNext == \E w \in Worker : Work(w) \/ Fail(w)
============================================================================
